----------------------------- MODULE RateLimiter -----------------------------
(***************************************************************************)
(* The per-client rate limiter in front of every HTTP route                *)
(* (src/rateLimit.ts, wired in src/index.ts).  A client, identified by the *)
(* hash of its bearer token or by its address, has a minute window and a   *)
(* second window, each a start time and a count; a timer prunes old ones.  *)
(***************************************************************************)
EXTENDS Integers, Sequences, Maps

CONSTANTS
    Clients,
    MinuteLimit,   \* RATE_LIMIT_REQUESTS_PER_MINUTE
    BurstLimit,    \* RATE_LIMIT_BURST_PER_SECOND
    Minute,        \* the 60_000 ms of the code, in ticks
    Second,        \* the 1_000 ms of the code, in ticks
    MaxTime        \* bound: when the clock stops

ASSUME LimiterAssumption ==
    /\ MinuteLimit \in Nat \ {0}
    /\ BurstLimit \in Nat \ {0}
    /\ Minute \in Nat
    /\ Second \in Nat \ {0}
    /\ Second <= Minute
    /\ MaxTime \in Nat

PruneAge == 2 * Minute
PruneEvery == Minute

VARIABLES
    now,        \* Date.now()
    windows,    \* client |-> its ClientWindow
    nextPrune,  \* when the prune timer fires next
    admitted,   \* client |-> the times of its admitted requests (history)
    refused     \* client |-> its last refusal, if nothing was admitted since (history)

vars == <<now, windows, nextPrune, admitted, refused>>

Window == [minuteWindowStart : Nat, minuteCount : Nat,
           secondWindowStart : Nat, secondCount : Nat]

Refusal == [reason : {"burst_limit", "minute_limit"}, retryAt : Nat]

Init ==
    /\ now = 0
    /\ windows = EmptyMap
    /\ nextPrune = PruneEvery
    /\ admitted = [k \in Clients |-> <<>>]
    /\ refused = EmptyMap

-----------------------------------------------------------------------------
(* The window of a client as check sees it: created when absent, each part *)
(* restarted when its time is over.                                        *)

Fresh ==
    [minuteWindowStart |-> now, minuteCount |-> 0,
     secondWindowStart |-> now, secondCount |-> 0]

Stored(k) == IF k \in DOMAIN windows THEN windows[k] ELSE Fresh

MinuteOver(w) == now - w.minuteWindowStart >= Minute

SecondOver(w) == now - w.secondWindowStart >= Second

Current(k) ==
    LET w == Stored(k) IN
    [minuteWindowStart |-> IF MinuteOver(w) THEN now ELSE w.minuteWindowStart,
     minuteCount       |-> IF MinuteOver(w) THEN 0   ELSE w.minuteCount,
     secondWindowStart |-> IF SecondOver(w) THEN now ELSE w.secondWindowStart,
     secondCount       |-> IF SecondOver(w) THEN 0   ELSE w.secondCount]

MutBurstFull(w) == w.secondCount > BurstLimit
BurstFull(w) == w.secondCount >= BurstLimit
MinuteFull(w) == w.minuteCount >= MinuteLimit

\* Math.ceil of a non-negative number of ticks, in whole seconds.
MutCeilSeconds(ticks) == ticks \div Second
CeilSeconds(ticks) == (ticks + Second - 1) \div Second

\* retryAfterSeconds of a minute_limit refusal: never less than 1.
MinuteRetry(w) ==
    LET secs == CeilSeconds(w.minuteWindowStart + Minute - now)
    IN  IF secs >= 1 THEN secs ELSE 1

-----------------------------------------------------------------------------
(* check, one action per decision                                          *)

Admitted(k, w) ==
    /\ ~ BurstFull(Current(k)) /\ ~ MinuteFull(Current(k))
    /\ windows' = Extend(windows, k, w)
    /\ admitted' = [admitted EXCEPT ![k] = Append(@, now)]
    /\ refused' = Drop(refused, k)
    /\ UNCHANGED <<now, nextPrune>>

MutAdmitNoMinute(k) == Admitted(k, [Current(k) EXCEPT !.secondCount = @ + 1])
MutAdmitNoSecond(k) == Admitted(k, [Current(k) EXCEPT !.minuteCount = @ + 1])
Admit(k) ==
    Admitted(k, [Current(k) EXCEPT !.secondCount = @ + 1, !.minuteCount = @ + 1])

\* As if a refused request were counted in the minute window.
MutRefuse(k, w, reason, retry) ==
    /\ windows' = Extend(windows, k, [w EXCEPT !.minuteCount = @ + 1])
    /\ refused' = Extend(refused, k,
                         [reason |-> reason, retryAt |-> now + retry * Second])
    /\ UNCHANGED <<now, nextPrune, admitted>>
Refuse(k, w, reason, retry) ==
    /\ windows' = Extend(windows, k, w)
    /\ refused' = Extend(refused, k,
                         [reason |-> reason, retryAt |-> now + retry * Second])
    /\ UNCHANGED <<now, nextPrune, admitted>>

RefuseBurst(k) ==
    LET w == Current(k) IN
    /\ BurstFull(w)
    /\ Refuse(k, w, "burst_limit", 1)

RefuseMinute(k) ==
    LET w == Current(k) IN
    /\ ~ BurstFull(w) /\ MinuteFull(w)
    /\ Refuse(k, w, "minute_limit", MinuteRetry(w))

-----------------------------------------------------------------------------
(* The prune timer, and time                                               *)

MutPrunable(w) == now - w.minuteWindowStart > Second
MutNeverPrunable(w) == FALSE
Prunable(w) == now - w.minuteWindowStart > PruneAge

Prune ==
    /\ now = nextPrune
    /\ windows' = [k \in {x \in DOMAIN windows : ~ Prunable(windows[x])} |-> windows[k]]
    /\ nextPrune' = now + PruneEvery
    /\ UNCHANGED <<now, admitted, refused>>

\* Time does not pass the next prune before the timer has fired.
Tick ==
    /\ now < MaxTime
    /\ now < nextPrune
    /\ now' = now + 1
    /\ UNCHANGED <<windows, nextPrune, admitted, refused>>

Next ==
    \/ \E k \in Clients : Admit(k) \/ RefuseBurst(k) \/ RefuseMinute(k)
    \/ Prune
    \/ Tick

Spec == Init /\ [][Next]_vars

-----------------------------------------------------------------------------
(* Properties                                                              *)

(* Counts stay within their limits and every window began in the past.     *)
TypeOK ==
    /\ now \in 0..MaxTime
    /\ DOMAIN windows \subseteq Clients
    /\ \A k \in DOMAIN windows :
         /\ windows[k] \in Window
         /\ windows[k].minuteCount <= MinuteLimit
         /\ windows[k].secondCount <= BurstLimit
         /\ windows[k].minuteWindowStart <= now
         /\ windows[k].secondWindowStart <= now
    /\ nextPrune \in Nat /\ now <= nextPrune
    /\ admitted \in [Clients -> Seq(0..now)]
    /\ DOMAIN refused \subseteq Clients
    /\ \A k \in DOMAIN refused : refused[k] \in Refusal

Times(k) == DOMAIN admitted[k]

(* Whatever the traffic, and whenever windows are pruned, any 2 * limit +  *)
(* 1 consecutive admissions of a client span at least a minute: a burst    *)
(* across the edge of two windows gets twice the limit through, and never  *)
(* more (rateLimit.ts, check).                                             *)
MinuteBound ==
    \A k \in Clients : \A i, j \in Times(k) :
        j = i + 2 * MinuteLimit => admitted[k][j] - admitted[k][i] >= Minute

(* The same for the burst limit and a second.                              *)
BurstBound ==
    \A k \in Clients : \A i, j \in Times(k) :
        j = i + 2 * BurstLimit => admitted[k][j] - admitted[k][i] >= Second

(* A client that waits as long as Retry-After says is not refused again    *)
(* for the same reason unless it sent other requests meanwhile, and after  *)
(* a minute_limit refusal it is admitted (rateLimit.ts, check: the order   *)
(* of the two tests and the rounding up to whole seconds).                 *)
RetryAfterHonest ==
    \A k \in DOMAIN refused :
        now >= refused[k].retryAt =>
            /\ ~ BurstFull(Current(k))
            /\ refused[k].reason = "minute_limit" => ~ MinuteFull(Current(k))

\* The last n requests of k that were admitted came within the last span.
Spent(k, n, span) ==
    LET log == admitted[k] IN
    n <= Len(log) /\ now - log[Len(log) - n + 1] < span

\* The refusal that this step leaves k with is told of a limit k has used up.
Deserved(k) ==
    IF refused'[k].reason = "burst_limit"
    THEN Spent(k, BurstLimit, Second)
    ELSE Spent(k, MinuteLimit, Minute)

(* Only a client that used a limit up is refused: its last admissions, as  *)
(* many as the limit it is told of, all came within the last second or     *)
(* minute.  So a probe or client that keeps below its limits is never      *)
(* refused, and being refused does not cost the next admission             *)
(* (rateLimit.ts, check: a refusal is counted in no window).               *)
RefusalsDeserved ==
    [][\A k \in DOMAIN refused' :
          \/ k \in DOMAIN refused /\ refused[k] = refused'[k]
          \/ Deserved(k)]_vars

(* A client that stays away is forgotten: no window is older than the      *)
(* prune age plus one interval of the prune timer, so the map is bounded   *)
(* by the clients of the last minutes (rateLimit.ts, prune; index.ts).     *)
DormantForgotten ==
    \A k \in DOMAIN windows :
        now - windows[k].minuteWindowStart <= PruneAge + PruneEvery

-----------------------------------------------------------------------------
(* The limiter implements windows that vanish the moment they are over.    *)

MinuteWindows ==
    [k \in {x \in DOMAIN windows : ~ MinuteOver(windows[x])} |->
        [start |-> windows[k].minuteWindowStart, count |-> windows[k].minuteCount]]

SecondWindows ==
    [k \in {x \in DOMAIN windows : ~ SecondOver(windows[x])} |->
        [start |-> windows[k].secondWindowStart, count |-> windows[k].secondCount]]

Ideal == INSTANCE FixedWindow WITH minute <- MinuteWindows, second <- SecondWindows

(* Restarting a window only when its client comes back, and pruning on a   *)
(* timer, change no decision.                                              *)
ImplementsFixedWindow == Ideal!Spec

-----------------------------------------------------------------------------
(* Why the properties hold: the inductive invariant                        *)

(* How a window of the given start and count relates to the log of all     *)
(* admissions: it counts the last `count` of them, the others came before  *)
(* it, and those that even the window before it did not count are over by  *)
(* the time it started.                                                    *)
Ledger(log, start, count, limit, span) ==
    /\ count <= Len(log)
    /\ \A j \in DOMAIN log :
         /\ j <= Len(log) - count => log[j] <= start
         /\ j > Len(log) - count => start <= log[j] /\ log[j] < start + span
         /\ j <= Len(log) - count - limit => log[j] + span <= start

\* A client without a window has admitted nothing for a minute.
Ledgers ==
    \A k \in Clients :
        IF k \in DOMAIN windows
        THEN /\ Ledger(admitted[k], windows[k].minuteWindowStart,
                       windows[k].minuteCount, MinuteLimit, Minute)
             /\ Ledger(admitted[k], windows[k].secondWindowStart,
                       windows[k].secondCount, BurstLimit, Second)
        ELSE \A j \in DOMAIN admitted[k] : admitted[k][j] + Minute <= now

\* The windows a refusal was based on are over when the wait is.
Refusals ==
    \A k \in DOMAIN refused \cap DOMAIN windows :
        /\ windows[k].secondWindowStart + Second <= refused[k].retryAt
        /\ refused[k].reason = "minute_limit" =>
              windows[k].minuteWindowStart + Minute <= refused[k].retryAt

\* The prune timer is never late, and what it left was young enough.
PruneOnTime ==
    /\ nextPrune <= now + PruneEvery
    /\ \A k \in DOMAIN windows :
          nextPrune - windows[k].minuteWindowStart <= PruneAge + PruneEvery

\* Both parts of a window were last looked at by the same request.
Paired ==
    \A k \in DOMAIN windows :
        windows[k].secondWindowStart < windows[k].minuteWindowStart + Minute

Inductive ==
    /\ TypeOK /\ Ledgers /\ MinuteBound /\ BurstBound
    /\ Refusals /\ PruneOnTime /\ Paired

-----------------------------------------------------------------------------
(* A claim of the documentation that the code does not keep                *)

(* FINDINGS.md (3): a sliding-window limiter, that is, any limit + 1       *)
(* consecutive admissions span at least a minute.                          *)
SlidingWindow ==
    \A k \in Clients : \A i, j \in Times(k) :
        j = i + MinuteLimit => admitted[k][j] - admitted[k][i] >= Minute

=============================================================================
