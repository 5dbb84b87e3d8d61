---------------------------- MODULE CacheContract ----------------------------
(***************************************************************************)
(* What TtlCache promises to its callers, without the Map behind it.  It   *)
(* answers from a set of live entries.  An entry is live from the set that *)
(* stored it until its lifetime is over, a delete names it, or it has to   *)
(* make room.  Keys take up room, first come first served: a key that      *)
(* holds a place keeps it when it is set again and displaces nobody; a new *)
(* key goes last, and only when MaxEntries places are taken it displaces   *)
(* one key, the first.  An entry that is over holds its place until        *)
(* somebody asks for it.                                                   *)
(***************************************************************************)
EXTENDS Integers, FiniteSets

CONSTANTS Keys, Values, Prefixes, Lifetimes, MaxEntries, MaxTime

VARIABLES
    live,    \* key |-> [value, expiresAt]: what get would return
    held,    \* the keys that take up a place
    order,   \* <<j, k>>: j took its place before k
    now

vars == <<live, held, order, now>>

Init ==
    /\ live = [k \in {} |-> {}]
    /\ held = {}
    /\ order = {}
    /\ now = 0

Among(S) == {p \in order : p[1] \in S /\ p[2] \in S}

Keep(S) == [k \in DOMAIN live \cap S |-> live[k]]

KeepPlace(k) ==
    /\ k \in held
    /\ UNCHANGED <<held, order>>

JoinAfter(k, S) ==
    /\ held' = S \cup {k}
    /\ order' = Among(S) \cup (S \X {k})

TakeFreePlace(k) ==
    /\ k \notin held
    /\ Cardinality(held) < MaxEntries
    /\ JoinAfter(k, held)

DisplaceFirst(k) ==
    /\ k \notin held
    /\ Cardinality(held) >= MaxEntries
    /\ \E first \in held :
         /\ \A j \in held : <<j, first>> \notin order
         /\ JoinAfter(k, held \ {first})

Store(k, v, ttl) ==
    /\ KeepPlace(k) \/ TakeFreePlace(k) \/ DisplaceFirst(k)
    /\ live' = IF ttl = 0 THEN Keep(held' \ {k})
               ELSE [x \in (DOMAIN live \cap held') \cup {k} |->
                        IF x = k THEN [value |-> v, expiresAt |-> now + ttl]
                        ELSE live[x]]
    /\ UNCHANGED now

Vacate(S) ==
    /\ held' = held \ S
    /\ order' = Among(held \ S)

Forget(S) ==
    /\ Vacate(S)
    /\ live' = Keep(held \ S)
    /\ UNCHANGED now

(* Asking for an entry that is over gives its place back.                  *)
LookInVain(k) ==
    /\ k \in held \ DOMAIN live
    /\ Vacate({k})
    /\ UNCHANGED <<live, now>>

Elapse ==
    /\ now < MaxTime
    /\ now' = now + 1
    /\ live' = Keep({k \in DOMAIN live : live[k].expiresAt > now'})
    /\ UNCHANGED <<held, order>>

Next ==
    \/ \E k \in Keys, v \in Values, ttl \in Lifetimes : Store(k, v, ttl)
    \/ \E k \in Keys : Forget({k}) \/ LookInVain(k)
    \/ \E S \in Prefixes \cup {Keys} : Forget(S)
    \/ Elapse

Spec == Init /\ [][Next]_vars

=============================================================================
