---------------------------- MODULE FixedWindow ----------------------------
(***************************************************************************)
(* A fixed-window limiter as a specification would have it: a client has a *)
(* minute window and a second window only while they last.  A request      *)
(* opens the windows that are missing; it is admitted when neither is      *)
(* full.  Windows vanish by themselves when their time is over.            *)
(***************************************************************************)
EXTENDS Integers

CONSTANTS Clients, MinuteLimit, BurstLimit, Minute, Second, MaxTime

VARIABLES
    now,
    minute,   \* client |-> [start, count] of its running minute window
    second    \* client |-> [start, count] of its running second window

Init ==
    /\ now = 0
    /\ minute = [k \in {} |-> {}]
    /\ second = [k \in {} |-> {}]

Opened(w, k) == IF k \in DOMAIN w THEN w[k] ELSE [start |-> now, count |-> 0]

\* The request of k is counted in both windows, or in neither.
Counted(w, k, n) ==
    [x \in DOMAIN w \cup {k} |->
        IF x = k THEN [Opened(w, k) EXCEPT !.count = @ + n] ELSE w[x]]

Full(k) ==
    \/ Opened(minute, k).count >= MinuteLimit
    \/ Opened(second, k).count >= BurstLimit

Request(k) ==
    LET n == IF Full(k) THEN 0 ELSE 1 IN
    /\ minute' = Counted(minute, k, n)
    /\ second' = Counted(second, k, n)
    /\ UNCHANGED now

Running(w, span, t) ==
    [k \in {x \in DOMAIN w : t - w[x].start < span} |-> w[k]]

Elapse ==
    /\ now < MaxTime
    /\ now' = now + 1
    /\ minute' = Running(minute, Minute, now')
    /\ second' = Running(second, Second, now')

Next == Elapse \/ \E k \in Clients : Request(k)

Spec == Init /\ [][Next]_<<now, minute, second>>

=============================================================================
