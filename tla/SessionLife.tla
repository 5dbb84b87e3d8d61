---------------------------- MODULE SessionLife ----------------------------
(***************************************************************************)
(* What a user of the OAuth routes may rely on about sessions, without     *)
(* tokens, callers or time: an id is drawn by one login, once; a session   *)
(* may end at any moment; and one that ended comes back only through a     *)
(* refresh that was asked for while it was there.                          *)
(***************************************************************************)
CONSTANT Sessions

VARIABLES
    fresh,   \* ids that no login has drawn yet
    held,    \* sessions that are there
    asked    \* sessions that a refresh is under way for

Init == fresh = Sessions /\ held = {} /\ asked = {}

Begin(s) ==
    /\ s \in fresh
    /\ fresh' = fresh \ {s} /\ held' = held \cup {s}
    /\ UNCHANGED asked

End(s) == held' = held \ {s} /\ UNCHANGED <<fresh, asked>>

Ask(s) ==
    /\ s \in held
    /\ asked' = asked \cup {s}
    /\ UNCHANGED <<fresh, held>>

\* Several refreshes of a session may be under way; this may be the last.
Settle(s) == s \in asked /\ asked' \in {asked, asked \ {s}} /\ UNCHANGED fresh

Renew(s) == Settle(s) /\ held' = held \cup {s}
GiveUp(s) == Settle(s) /\ held' = held

LoseAll == held' = {} /\ asked' = {} /\ UNCHANGED fresh

Next ==
    \/ \E s \in Sessions : Begin(s) \/ End(s) \/ Ask(s) \/ Renew(s) \/ GiveUp(s)
    \/ LoseAll

Spec == Init /\ [][Next]_<<fresh, held, asked>>

=============================================================================
