-------------------------- MODULE RateLimiterProofs --------------------------
(* RateLimiter for all clients, limits and lengths of a minute and a       *)
(* second: how many requests it lets through, what Retry-After is worth,   *)
(* when a client is forgotten, and that it implements FixedWindow.         *)
EXTENDS RateLimiter, TLAPS

-----------------------------------------------------------------------------
(* One window and its log                                                  *)

(* A window that is over may be restarted: the requests it counted came    *)
(* before the new one (rateLimit.ts, check).                               *)
LEMMA Restart ==
    ASSUME NEW log \in Seq(Nat), NEW start \in Nat, NEW count \in Nat,
           NEW limit \in Nat, NEW span \in Nat, NEW t \in Nat,
           Ledger(log, start, count, limit, span), count <= limit,
           start + span <= t, \A j \in DOMAIN log : log[j] <= t
    PROVE  Ledger(log, t, 0, limit, span)
<1>1. DOMAIN log = 1..Len(log) /\ Len(log) \in Nat /\ \A j \in DOMAIN log : log[j] \in Nat
  OBVIOUS
<1> QED BY <1>1 DEF Ledger

(* So may the window of a client that admitted nothing for that long.      *)
LEMMA Open ==
    ASSUME NEW log \in Seq(Nat), NEW limit \in Nat, NEW span \in Nat, NEW t \in Nat,
           \A j \in DOMAIN log : log[j] + span <= t
    PROVE  Ledger(log, t, 0, limit, span)
<1>1. DOMAIN log = 1..Len(log) /\ Len(log) \in Nat /\ \A j \in DOMAIN log : log[j] \in Nat
  OBVIOUS
<1> QED BY <1>1 DEF Ledger

(* An admission is logged and counted together.                            *)
LEMMA Count ==
    ASSUME NEW log \in Seq(Nat), NEW start \in Nat, NEW count \in Nat,
           NEW limit \in Nat, NEW span \in Nat, NEW t \in Nat,
           Ledger(log, start, count, limit, span),
           start <= t, t < start + span
    PROVE  Ledger(Append(log, t), start, count + 1, limit, span)
<1> DEFINE new == Append(log, t)
<1>1. /\ DOMAIN log = 1..Len(log) /\ Len(log) \in Nat
      /\ \A j \in DOMAIN log : log[j] \in Nat
      /\ Len(new) = Len(log) + 1 /\ DOMAIN new = 1..(Len(log) + 1)
      /\ \A j \in DOMAIN log : new[j] = log[j]
      /\ new[Len(log) + 1] = t
  OBVIOUS
<1> HIDE DEF new
<1>2. Ledger(new, start, count + 1, limit, span)
  BY <1>1 DEF Ledger
<1> QED BY <1>2 DEF new

Spaced(log, n, span) ==
    \A i, j \in DOMAIN log : j = i + n => log[j] - log[i] >= span

(* A span sees what the running window admits, and what the requests it    *)
(* does not count add to that: the limit of the window before it, or       *)
(* nothing.                                                                *)
LEMMA StaysSpaced ==
    ASSUME NEW log \in Seq(Nat), NEW start \in Nat, NEW count \in Nat,
           NEW limit \in Nat, NEW before \in Nat, NEW n \in Nat, n = limit + before,
           NEW span \in Nat, NEW t \in Nat,
           Ledger(log, start, count, before, span), count < limit, start <= t,
           Spaced(log, n, span)
    PROVE  Spaced(Append(log, t), n, span)
<1> DEFINE new == Append(log, t)
<1>1. /\ DOMAIN log = 1..Len(log) /\ Len(log) \in Nat
      /\ \A j \in DOMAIN log : log[j] \in Nat
      /\ DOMAIN new = 1..(Len(log) + 1)
      /\ \A j \in DOMAIN log : new[j] = log[j]
      /\ new[Len(log) + 1] = t
  OBVIOUS
<1> HIDE DEF new
<1>2. SUFFICES ASSUME NEW i \in DOMAIN new, NEW j \in DOMAIN new, j = i + n
               PROVE  new[j] - new[i] >= span
  BY DEF Spaced, new
<1>3. CASE j <= Len(log)
  <2>1. i \in DOMAIN log /\ j \in DOMAIN log
    BY <1>1, <1>2, <1>3
  <2>2. log[j] - log[i] >= span
    BY <1>2, <2>1 DEF Spaced
  <2> QED BY <1>1, <2>1, <2>2
<1>4. CASE j = Len(log) + 1
  <2>1. i \in DOMAIN log /\ i <= Len(log) - count - before
    BY <1>1, <1>2, <1>4
  <2>2. log[i] + span <= start
    BY <2>1 DEF Ledger
  <2> QED BY <1>1, <1>4, <2>1, <2>2
<1> QED BY <1>1, <1>3, <1>4

-----------------------------------------------------------------------------
(* The window check works with                                             *)

(* What Current returns: a window that is running now, whose log is right. *)
LEMMA CurrentWindow ==
    ASSUME TypeOK, Ledgers, NEW k \in Clients
    PROVE  LET w == Current(k) IN
           /\ w \in Window
           /\ w.minuteCount <= MinuteLimit /\ w.secondCount <= BurstLimit
           /\ w.minuteWindowStart <= now /\ now < w.minuteWindowStart + Minute
           /\ w.secondWindowStart <= now /\ now < w.secondWindowStart + Second
           /\ Ledger(admitted[k], w.minuteWindowStart, w.minuteCount, MinuteLimit, Minute)
           /\ Ledger(admitted[k], w.secondWindowStart, w.secondCount, BurstLimit, Second)
<1> USE LimiterAssumption
<1> DEFINE log == admitted[k]
           w == Current(k)
<1>1. /\ now \in Nat /\ log \in Seq(Nat)
      /\ \A j \in DOMAIN log : log[j] \in Nat
  BY DEF TypeOK
<1>2. CASE k \in DOMAIN windows
  <2> DEFINE old == windows[k]
  <2>1. /\ old \in Window
        /\ old.minuteCount <= MinuteLimit /\ old.secondCount <= BurstLimit
        /\ old.minuteWindowStart <= now /\ old.secondWindowStart <= now
    BY <1>2 DEF TypeOK
  <2>2. /\ Ledger(log, old.minuteWindowStart, old.minuteCount, MinuteLimit, Minute)
        /\ Ledger(log, old.secondWindowStart, old.secondCount, BurstLimit, Second)
    BY <1>2 DEF Ledgers
  <2>3. old.minuteWindowStart \in Nat /\ old.minuteCount \in Nat
        /\ old.secondWindowStart \in Nat /\ old.secondCount \in Nat
    BY <2>1 DEF Window
  <2>4. w = [minuteWindowStart |-> IF MinuteOver(old) THEN now ELSE old.minuteWindowStart,
             minuteCount       |-> IF MinuteOver(old) THEN 0   ELSE old.minuteCount,
             secondWindowStart |-> IF SecondOver(old) THEN now ELSE old.secondWindowStart,
             secondCount       |-> IF SecondOver(old) THEN 0   ELSE old.secondCount]
    BY <1>2 DEF Current, Stored
  <2>5. /\ MinuteOver(old) <=> old.minuteWindowStart + Minute <= now
        /\ SecondOver(old) <=> old.secondWindowStart + Second <= now
    BY <1>1, <2>3 DEF MinuteOver, SecondOver
  <2> HIDE DEF old, w, log
  <2>6. \A j \in DOMAIN log : log[j] <= now
    <3>1. log \in Seq(0..now)
      BY DEF TypeOK, log
    <3> QED BY <1>1, <3>1
  <2>7. Ledger(log, w.minuteWindowStart, w.minuteCount, MinuteLimit, Minute)
    <3>1. CASE MinuteOver(old)
      BY <1>1, <2>1, <2>2, <2>3, <2>4, <2>5, <2>6, <3>1, Restart
    <3>2. CASE ~ MinuteOver(old)
      BY <2>2, <2>4, <3>2
    <3> QED BY <3>1, <3>2
  <2>8. Ledger(log, w.secondWindowStart, w.secondCount, BurstLimit, Second)
    <3>1. CASE SecondOver(old)
      BY <1>1, <2>1, <2>2, <2>3, <2>4, <2>5, <2>6, <3>1, Restart
    <3>2. CASE ~ SecondOver(old)
      BY <2>2, <2>4, <3>2
    <3> QED BY <3>1, <3>2
  <2>9. /\ w \in Window
        /\ w.minuteCount <= MinuteLimit /\ w.secondCount <= BurstLimit
        /\ w.minuteWindowStart <= now /\ now < w.minuteWindowStart + Minute
        /\ w.secondWindowStart <= now /\ now < w.secondWindowStart + Second
    BY <1>1, <2>1, <2>3, <2>4, <2>5 DEF Window
  <2> QED BY <2>7, <2>8, <2>9 DEF w, log
<1>3. CASE k \notin DOMAIN windows
  <2>1. ~ MinuteOver(Fresh) /\ ~ SecondOver(Fresh)
    BY <1>1 DEF MinuteOver, SecondOver, Fresh
  <2>2. w = Fresh
    BY <1>3, <2>1 DEF Current, Stored, Fresh
  <2>3. \A j \in DOMAIN log : log[j] + Minute <= now
    BY <1>3 DEF Ledgers
  <2>4. \A j \in DOMAIN log : log[j] + Second <= now
    BY <1>1, <2>3
  <2>5. /\ Ledger(log, now, 0, MinuteLimit, Minute)
        /\ Ledger(log, now, 0, BurstLimit, Second)
    BY <1>1, <2>3, <2>4, Open
  <2>6. Fresh \in Window
    BY <1>1 DEF Fresh, Window
  <2> QED BY <1>1, <2>2, <2>5, <2>6 DEF Fresh
<1> QED BY <1>2, <1>3

-----------------------------------------------------------------------------
(* A fact about times that the steps rest on                               *)

(* Log times stay in the past.                                             *)
LEMMA LogGrows ==
    ASSUME NEW t \in Nat, NEW u \in Nat, t <= u, NEW log \in Seq(0..t)
    PROVE  log \in Seq(0..u) /\ Append(log, t) \in Seq(0..t)
<1>1. 0..t \subseteq 0..u
  OBVIOUS
<1>2. Len(log) \in Nat /\ log \in [1..Len(log) -> 0..t]
  OBVIOUS
<1>3. log \in [1..Len(log) -> 0..u]
  BY <1>1, <1>2
<1>4. log \in Seq(0..u)
  BY <1>2, <1>3
<1>5. t \in 0..t
  OBVIOUS
<1> QED BY <1>4, <1>5

-----------------------------------------------------------------------------
(* What every decision does to the windows and to the refusals             *)

(* A window that check may leave behind for k.                             *)
Stocked(k, w) ==
    /\ w \in Window
    /\ w.minuteCount <= MinuteLimit /\ w.secondCount <= BurstLimit
    /\ w.minuteWindowStart <= now /\ now < w.minuteWindowStart + Minute
    /\ w.secondWindowStart <= now

LEMMA WindowStored ==
    ASSUME TypeOK, PruneOnTime, Paired, NEW k \in Clients, NEW w, Stocked(k, w),
           windows' = Extend(windows, k, w), UNCHANGED <<now, nextPrune>>
    PROVE  /\ DOMAIN windows' \subseteq Clients
           /\ \A x \in DOMAIN windows' :
                /\ windows'[x] \in Window
                /\ windows'[x].minuteCount <= MinuteLimit
                /\ windows'[x].secondCount <= BurstLimit
                /\ windows'[x].minuteWindowStart <= now'
                /\ windows'[x].secondWindowStart <= now'
           /\ PruneOnTime' /\ Paired'
<1> USE LimiterAssumption
<1>1. /\ DOMAIN windows' = DOMAIN windows \cup {k}
      /\ windows'[k] = w
      /\ \A z \in DOMAIN windows : z # k => windows'[z] = windows[z]
  BY DEF Extend
<1>2. now \in Nat /\ nextPrune \in Nat
  BY DEF TypeOK
<1>3. ASSUME NEW x \in DOMAIN windows'
      PROVE  /\ windows'[x] \in Window
             /\ windows'[x].minuteCount <= MinuteLimit
             /\ windows'[x].secondCount <= BurstLimit
             /\ windows'[x].minuteWindowStart <= now'
             /\ windows'[x].secondWindowStart <= now'
             /\ nextPrune - windows'[x].minuteWindowStart <= PruneAge + PruneEvery
             /\ windows'[x].secondWindowStart < windows'[x].minuteWindowStart + Minute
  <2>1. CASE x = k
    <3>1. /\ w.minuteWindowStart \in Nat /\ w.secondWindowStart \in Nat
      BY DEF Stocked, Window
    <3>2. nextPrune <= now + PruneEvery
      BY DEF PruneOnTime
    <3>3. nextPrune - w.minuteWindowStart <= PruneAge + PruneEvery
      BY <1>2, <3>1, <3>2 DEF Stocked, PruneAge, PruneEvery
    <3>4. w.secondWindowStart < w.minuteWindowStart + Minute
      BY <1>2, <3>1 DEF Stocked
    <3> QED BY <1>1, <2>1, <3>3, <3>4 DEF Stocked
  <2>2. CASE x # k
    <3>1. x \in DOMAIN windows /\ windows'[x] = windows[x]
      BY <1>1, <2>2
    <3> QED BY <3>1 DEF TypeOK, PruneOnTime, Paired
  <2> QED BY <2>1, <2>2
<1>4. DOMAIN windows' \subseteq Clients
  BY <1>1 DEF TypeOK
<1>5. PruneOnTime'
  BY <1>3 DEF PruneOnTime, PruneAge, PruneEvery
<1>6. Paired'
  BY <1>3 DEF Paired
<1> QED BY <1>3, <1>4, <1>5, <1>6

-----------------------------------------------------------------------------
(* An admission                                                            *)

(* What Admit stores and logs.                                             *)
LEMMA AdmittedWindow ==
    ASSUME TypeOK, Ledgers, NEW k \in Clients, Admit(k)
    PROVE  \E w : /\ Stocked(k, w)
                  /\ windows' = Extend(windows, k, w)
                  /\ w.minuteWindowStart = Current(k).minuteWindowStart
                  /\ w.minuteCount = Current(k).minuteCount + 1
                  /\ w.secondWindowStart = Current(k).secondWindowStart
                  /\ w.secondCount = Current(k).secondCount + 1
<1> USE LimiterAssumption
<1> DEFINE c == Current(k)
           w == [c EXCEPT !.secondCount = @ + 1, !.minuteCount = @ + 1]
<1>1. /\ c \in Window
      /\ c.minuteCount <= MinuteLimit /\ c.secondCount <= BurstLimit
      /\ c.minuteWindowStart <= now /\ now < c.minuteWindowStart + Minute
      /\ c.secondWindowStart <= now
  BY CurrentWindow
<1>2. ~ (c.secondCount >= BurstLimit) /\ ~ (c.minuteCount >= MinuteLimit)
  BY DEF Admit, Admitted, BurstFull, MinuteFull
<1>3. windows' = Extend(windows, k, w)
  BY DEF Admit, Admitted
<1> HIDE DEF c
<1>4. /\ w.minuteWindowStart = c.minuteWindowStart
      /\ w.minuteCount = c.minuteCount + 1
      /\ w.secondWindowStart = c.secondWindowStart
      /\ w.secondCount = c.secondCount + 1
      /\ w \in Window
  <2>1. c.minuteCount + 1 \in Nat /\ c.secondCount + 1 \in Nat
    BY <1>1 DEF Window
  <2>2. c \in [minuteWindowStart : Nat, minuteCount : Nat,
               secondWindowStart : Nat, secondCount : Nat]
    BY <1>1 DEF Window
  <2> QED BY <2>1, <2>2 DEF Window
<1>5. c.minuteCount \in Nat /\ c.secondCount \in Nat
  BY <1>1 DEF Window
<1> HIDE DEF w
<1>6. Stocked(k, w)
  BY <1>1, <1>2, <1>4, <1>5 DEF Stocked
<1> QED BY <1>3, <1>4, <1>6 DEF c

LEMMA AdmitPreserves ==
    ASSUME Inductive, NEW k \in Clients, Admit(k)
    PROVE  Inductive'
<1> USE LimiterAssumption
<1> DEFINE c == Current(k)
           log == admitted[k]
<1>1. TypeOK /\ Ledgers /\ MinuteBound /\ BurstBound /\ Refusals /\ PruneOnTime /\ Paired
  BY DEF Inductive
<1>2. /\ c \in Window
      /\ c.minuteWindowStart <= now /\ now < c.minuteWindowStart + Minute
      /\ c.secondWindowStart <= now /\ now < c.secondWindowStart + Second
      /\ Ledger(log, c.minuteWindowStart, c.minuteCount, MinuteLimit, Minute)
      /\ Ledger(log, c.secondWindowStart, c.secondCount, BurstLimit, Second)
  BY <1>1, CurrentWindow
<1>3. PICK w : /\ Stocked(k, w)
               /\ windows' = Extend(windows, k, w)
               /\ w.minuteWindowStart = c.minuteWindowStart
               /\ w.minuteCount = c.minuteCount + 1
               /\ w.secondWindowStart = c.secondWindowStart
               /\ w.secondCount = c.secondCount + 1
  BY <1>1, AdmittedWindow
<1>4. /\ c.minuteWindowStart \in Nat /\ c.minuteCount \in Nat
      /\ c.secondWindowStart \in Nat /\ c.secondCount \in Nat
      /\ c.minuteCount < MinuteLimit /\ c.secondCount < BurstLimit
  <2>1. ~ (c.secondCount >= BurstLimit) /\ ~ (c.minuteCount >= MinuteLimit)
    BY DEF Admit, Admitted, BurstFull, MinuteFull
  <2> HIDE DEF c
  <2>2. /\ c.minuteWindowStart \in Nat /\ c.minuteCount \in Nat
        /\ c.secondWindowStart \in Nat /\ c.secondCount \in Nat
    BY <1>2 DEF Window
  <2> QED BY <2>1, <2>2
<1>5. /\ admitted' = [admitted EXCEPT ![k] = Append(admitted[k], now)]
      /\ refused' = Drop(refused, k)
      /\ now' = now /\ nextPrune' = nextPrune
  BY DEF Admit, Admitted
<1>6. /\ now \in Nat
      /\ admitted \in [Clients -> Seq(0..now)]
      /\ log \in Seq(0..now) /\ log \in Seq(Nat)
  BY <1>1 DEF TypeOK
<1> HIDE DEF c
<1>7. /\ admitted'[k] = Append(log, now)
      /\ \A x \in Clients : x # k => admitted'[x] = admitted[x]
      /\ DOMAIN admitted' = Clients
  BY <1>5, <1>6
<1> HIDE DEF log
<1>8. /\ DOMAIN windows' \subseteq Clients
      /\ \A x \in DOMAIN windows' :
                /\ windows'[x] \in Window
                /\ windows'[x].minuteCount <= MinuteLimit
                /\ windows'[x].secondCount <= BurstLimit
                /\ windows'[x].minuteWindowStart <= now'
                /\ windows'[x].secondWindowStart <= now'
      /\ PruneOnTime' /\ Paired'
  BY <1>1, <1>3, <1>5, WindowStored
<1>9. /\ DOMAIN windows' = DOMAIN windows \cup {k}
      /\ windows'[k] = w
      /\ \A z \in DOMAIN windows : z # k => windows'[z] = windows[z]
  BY <1>3 DEF Extend
<1>10. /\ DOMAIN refused' = DOMAIN refused \ {k}
       /\ \A z \in DOMAIN refused : z # k => refused'[z] = refused[z]
  BY <1>5 DEF Drop
<1>11. TypeOK'
  <2>1. Append(log, now) \in Seq(0..now)
    BY <1>6, LogGrows
  <2>2. admitted' \in [Clients -> Seq(0..now')]
    BY <1>5, <1>6, <2>1 DEF log
  <2> QED BY <1>1, <1>5, <1>8, <1>10, <2>2 DEF TypeOK
<1>12. Ledgers'
  <2>1. /\ Ledger(Append(log, now), c.minuteWindowStart, c.minuteCount + 1, MinuteLimit, Minute)
        /\ Ledger(Append(log, now), c.secondWindowStart, c.secondCount + 1, BurstLimit, Second)
    BY <1>2, <1>4, <1>6, Count
  <2>2. SUFFICES ASSUME NEW x \in Clients
                 PROVE
                   IF x \in DOMAIN windows'
                   THEN /\ Ledger(admitted'[x], windows'[x].minuteWindowStart,
                                  windows'[x].minuteCount, MinuteLimit, Minute)
                        /\ Ledger(admitted'[x], windows'[x].secondWindowStart,
                                  windows'[x].secondCount, BurstLimit, Second)
                   ELSE \A j \in DOMAIN admitted'[x] : admitted'[x][j] + Minute <= now'
    BY DEF Ledgers, Ledger
  <2>3. CASE x = k
    BY <1>3, <1>7, <1>9, <2>1, <2>3
  <2>4. CASE x # k
    BY <1>1, <1>5, <1>7, <1>9, <2>4 DEF Ledgers
  <2> QED BY <2>3, <2>4
<1>13. MinuteBound' /\ BurstBound'
  <2>1. Spaced(log, 2 * MinuteLimit, Minute) /\ Spaced(log, 2 * BurstLimit, Second)
    BY <1>1 DEF MinuteBound, BurstBound, Times, Spaced, log
  <2>2. /\ Spaced(Append(log, now), 2 * MinuteLimit, Minute)
        /\ Spaced(Append(log, now), 2 * BurstLimit, Second)
    <3>1. /\ 2 * MinuteLimit = MinuteLimit + MinuteLimit /\ 2 * MinuteLimit \in Nat
          /\ 2 * BurstLimit = BurstLimit + BurstLimit /\ 2 * BurstLimit \in Nat
      OBVIOUS
    <3>2. Spaced(Append(log, now), 2 * MinuteLimit, Minute)
      BY <1>2, <1>4, <1>6, <2>1, <3>1, StaysSpaced
    <3>3. Spaced(Append(log, now), 2 * BurstLimit, Second)
      BY <1>2, <1>4, <1>6, <2>1, <3>1, StaysSpaced
    <3> QED BY <3>2, <3>3
  <2>3. \A x \in Clients : /\ Spaced(admitted'[x], 2 * MinuteLimit, Minute)
                           /\ Spaced(admitted'[x], 2 * BurstLimit, Second)
    BY <1>1, <1>7, <2>2 DEF MinuteBound, BurstBound, Times, Spaced
  <2> QED BY <2>3 DEF MinuteBound, BurstBound, Times, Spaced
<1>14. Refusals'
  BY <1>1, <1>9, <1>10 DEF Refusals
<1> QED BY <1>8, <1>11, <1>12, <1>13, <1>14 DEF Inductive

-----------------------------------------------------------------------------
(* A refusal                                                               *)

(* Whole seconds, rounded up, are never less than the ticks.               *)
LEMMA RoundedUp ==
    ASSUME NEW x \in Int
    PROVE  CeilSeconds(x) \in Int /\ CeilSeconds(x) * Second >= x
<1> USE LimiterAssumption
<1> DEFINE q == (x + Second - 1) \div Second
<1>1. q \in Int /\ x + Second - 1 < (q + 1) * Second
  OBVIOUS
<1> QED BY <1>1 DEF CeilSeconds

(* A refusal stores the window it looked at and waits for it.              *)
LEMMA RefusePreserves ==
    ASSUME Inductive, NEW k \in Clients, NEW reason \in {"burst_limit", "minute_limit"},
           NEW retry \in Nat, retry >= 1,
           reason = "minute_limit" =>
              now + retry * Second >= Current(k).minuteWindowStart + Minute,
           Refuse(k, Current(k), reason, retry)
    PROVE  Inductive'
<1> USE LimiterAssumption
<1> DEFINE c == Current(k)
           r == [reason |-> reason, retryAt |-> now + retry * Second]
<1>1. TypeOK /\ Ledgers /\ MinuteBound /\ BurstBound /\ Refusals /\ PruneOnTime /\ Paired
  BY DEF Inductive
<1>2. /\ c \in Window
      /\ c.minuteCount <= MinuteLimit /\ c.secondCount <= BurstLimit
      /\ c.minuteWindowStart <= now /\ now < c.minuteWindowStart + Minute
      /\ c.secondWindowStart <= now /\ now < c.secondWindowStart + Second
      /\ Ledger(admitted[k], c.minuteWindowStart, c.minuteCount, MinuteLimit, Minute)
      /\ Ledger(admitted[k], c.secondWindowStart, c.secondCount, BurstLimit, Second)
  BY <1>1, CurrentWindow
<1>3. /\ windows' = Extend(windows, k, c)
      /\ refused' = Extend(refused, k, r)
      /\ now' = now /\ nextPrune' = nextPrune /\ admitted' = admitted
  BY DEF Refuse
<1>4. now \in Nat /\ retry * Second \in Nat /\ retry * Second >= Second
  BY <1>1 DEF TypeOK
<1>5. /\ r \in Refusal /\ r.reason = reason
      /\ r.retryAt = now + retry * Second
  BY <1>4 DEF Refusal
<1>6. c.secondWindowStart + Second <= r.retryAt
  BY <1>2, <1>4, <1>5 DEF Window
<1> HIDE DEF c, r
<1>7. Stocked(k, c)
  BY <1>2 DEF Stocked
<1>8. /\ DOMAIN windows' \subseteq Clients
      /\ \A x \in DOMAIN windows' :
                /\ windows'[x] \in Window
                /\ windows'[x].minuteCount <= MinuteLimit
                /\ windows'[x].secondCount <= BurstLimit
                /\ windows'[x].minuteWindowStart <= now'
                /\ windows'[x].secondWindowStart <= now'
      /\ PruneOnTime' /\ Paired'
  BY <1>1, <1>3, <1>7, WindowStored
<1>9. /\ DOMAIN windows' = DOMAIN windows \cup {k}
      /\ windows'[k] = c
      /\ \A z \in DOMAIN windows : z # k => windows'[z] = windows[z]
      /\ DOMAIN refused' = DOMAIN refused \cup {k}
      /\ refused'[k] = r
      /\ \A z \in DOMAIN refused : z # k => refused'[z] = refused[z]
  BY <1>3 DEF Extend
<1>10. TypeOK'
  BY <1>1, <1>3, <1>5, <1>8, <1>9 DEF TypeOK
<1>11. Ledgers'
  <2>1. SUFFICES ASSUME NEW x \in Clients
                 PROVE
                   IF x \in DOMAIN windows'
                   THEN /\ Ledger(admitted'[x], windows'[x].minuteWindowStart,
                                  windows'[x].minuteCount, MinuteLimit, Minute)
                        /\ Ledger(admitted'[x], windows'[x].secondWindowStart,
                                  windows'[x].secondCount, BurstLimit, Second)
                   ELSE \A j \in DOMAIN admitted'[x] : admitted'[x][j] + Minute <= now'
    BY DEF Ledgers, Ledger
  <2>2. CASE x = k
    BY <1>2, <1>3, <1>9, <2>2
  <2>3. CASE x # k
    BY <1>1, <1>3, <1>9, <2>3 DEF Ledgers
  <2> QED BY <2>2, <2>3
<1>12. MinuteBound' /\ BurstBound'
  BY <1>1, <1>3 DEF MinuteBound, BurstBound, Times
<1>13. Refusals'
  <2>1. r.reason = "minute_limit" => c.minuteWindowStart + Minute <= r.retryAt
    <3>1. c.minuteWindowStart + Minute \in Int /\ now + retry * Second \in Int
      BY <1>2, <1>4 DEF Window
    <3> QED BY <1>5, <3>1 DEF c
  <2>2. ASSUME NEW x \in DOMAIN refused' \cap DOMAIN windows'
        PROVE  /\ windows'[x].secondWindowStart + Second <= refused'[x].retryAt
               /\ refused'[x].reason = "minute_limit" =>
                     windows'[x].minuteWindowStart + Minute <= refused'[x].retryAt
    <3>1. CASE x = k
      BY <1>6, <1>9, <2>1, <3>1
    <3>2. CASE x # k
      BY <1>1, <1>9, <3>2 DEF Refusals
    <3> QED BY <3>1, <3>2
  <2> QED BY <2>2 DEF Refusals
<1> QED BY <1>8, <1>10, <1>11, <1>12, <1>13 DEF Inductive

LEMMA RefuseBurstPreserves ==
    ASSUME Inductive, NEW k \in Clients, RefuseBurst(k)
    PROVE  Inductive'
  BY RefusePreserves DEF RefuseBurst

LEMMA RefuseMinutePreserves ==
    ASSUME Inductive, NEW k \in Clients, RefuseMinute(k)
    PROVE  Inductive'
<1> USE LimiterAssumption
<1> DEFINE c == Current(k)
           left == c.minuteWindowStart + Minute - now
           retry == MinuteRetry(c)
<1>1. now \in Nat /\ c.minuteWindowStart \in Nat
  <2>1. TypeOK /\ Ledgers
    BY DEF Inductive
  <2>2. c \in Window
    BY <2>1, CurrentWindow
  <2> QED BY <2>1, <2>2 DEF TypeOK, Window
<1>2. left \in Int
  BY <1>1
<1>3. CeilSeconds(left) \in Int /\ CeilSeconds(left) * Second >= left
  BY <1>2, RoundedUp
<1>4. retry = IF CeilSeconds(left) >= 1 THEN CeilSeconds(left) ELSE 1
  BY DEF MinuteRetry
<1>5. Refuse(k, c, "minute_limit", retry)
  BY DEF RefuseMinute
<1> HIDE DEF retry, c
<1>6. retry \in Nat /\ retry >= 1 /\ retry >= CeilSeconds(left)
  BY <1>3, <1>4
<1>7. retry * Second >= CeilSeconds(left) * Second
  BY <1>3, <1>6
<1>8. retry * Second \in Int /\ CeilSeconds(left) * Second \in Int
  BY <1>3, <1>6
<1>9. now + retry * Second >= c.minuteWindowStart + Minute
  BY <1>1, <1>3, <1>7, <1>8
<1> QED BY <1>5, <1>6, <1>9, RefusePreserves DEF c

-----------------------------------------------------------------------------
(* The prune timer, and time                                               *)

LEMMA PrunePreserves ==
    ASSUME Inductive, Prune
    PROVE  Inductive'
<1> USE LimiterAssumption
<1>1. TypeOK /\ Ledgers /\ MinuteBound /\ BurstBound /\ Refusals /\ PruneOnTime /\ Paired
  BY DEF Inductive
<1>2. /\ DOMAIN windows' = {x \in DOMAIN windows : ~ Prunable(windows[x])}
      /\ \A x \in DOMAIN windows' : windows'[x] = windows[x]
      /\ nextPrune' = now + PruneEvery
      /\ now' = now /\ admitted' = admitted /\ refused' = refused
  BY DEF Prune
<1>3. now \in Nat /\ PruneEvery \in Nat /\ PruneAge \in Nat /\ PruneAge >= Minute
  BY <1>1 DEF TypeOK, PruneEvery, PruneAge
<1>4. TypeOK'
  BY <1>1, <1>2, <1>3 DEF TypeOK
<1>5. Ledgers'
  <2>1. SUFFICES ASSUME NEW x \in Clients
                 PROVE
                   IF x \in DOMAIN windows'
                   THEN /\ Ledger(admitted'[x], windows'[x].minuteWindowStart,
                                  windows'[x].minuteCount, MinuteLimit, Minute)
                        /\ Ledger(admitted'[x], windows'[x].secondWindowStart,
                                  windows'[x].secondCount, BurstLimit, Second)
                   ELSE \A j \in DOMAIN admitted'[x] : admitted'[x][j] + Minute <= now'
    BY DEF Ledgers, Ledger
  <2>2. CASE x \in DOMAIN windows' \/ x \notin DOMAIN windows
    BY <1>1, <1>2, <2>2 DEF Ledgers
  <2>3. CASE x \in DOMAIN windows /\ x \notin DOMAIN windows'
    <3> DEFINE w == windows[x]
               log == admitted[x]
    <3>1. now - w.minuteWindowStart > PruneAge
      BY <1>2, <2>3 DEF Prunable
    <3>2. Ledger(log, w.minuteWindowStart, w.minuteCount, MinuteLimit, Minute)
      BY <1>1, <2>3 DEF Ledgers
    <3>3. w.minuteWindowStart \in Nat /\ w.minuteCount \in Nat
      BY <1>1, <2>3 DEF TypeOK, Window
    <3>4. /\ DOMAIN log = 1..Len(log) /\ Len(log) \in Nat
          /\ \A j \in DOMAIN log : log[j] \in Nat
      BY <1>1 DEF TypeOK
    <3> HIDE DEF w, log
    <3>5. \A j \in DOMAIN log : log[j] < w.minuteWindowStart + Minute \/ log[j] <= w.minuteWindowStart
      BY <3>2, <3>3, <3>4 DEF Ledger
    <3>6. \A j \in DOMAIN log : log[j] + Minute <= now
      BY <1>3, <3>1, <3>3, <3>4, <3>5 DEF PruneAge
    <3> QED BY <1>2, <2>3, <3>6 DEF log
  <2> QED BY <2>2, <2>3
<1>6. MinuteBound' /\ BurstBound'
  BY <1>1, <1>2 DEF MinuteBound, BurstBound, Times
<1>7. Refusals' /\ Paired'
  BY <1>1, <1>2 DEF Refusals, Paired
<1>8. PruneOnTime'
  <2>1. ASSUME NEW x \in DOMAIN windows'
        PROVE  nextPrune' - windows'[x].minuteWindowStart <= PruneAge + PruneEvery
    <3>1. windows[x].minuteWindowStart \in Nat
      BY <1>1, <1>2 DEF TypeOK, Window
    <3>2. ~ (now - windows[x].minuteWindowStart > PruneAge)
      BY <1>2 DEF Prunable
    <3> QED BY <1>2, <1>3, <3>1, <3>2
  <2> QED BY <1>2, <1>3, <2>1 DEF PruneOnTime, PruneAge, PruneEvery
<1> QED BY <1>4, <1>5, <1>6, <1>7, <1>8 DEF Inductive

LEMMA TickPreserves ==
    ASSUME Inductive, Tick
    PROVE  Inductive'
<1> USE LimiterAssumption
<1>1. TypeOK /\ Ledgers /\ MinuteBound /\ BurstBound /\ Refusals /\ PruneOnTime /\ Paired
  BY DEF Inductive
<1>2. /\ now' = now + 1 /\ now < MaxTime /\ now < nextPrune
      /\ UNCHANGED <<windows, nextPrune, admitted, refused>>
  BY DEF Tick
<1>3. now \in Nat /\ nextPrune \in Nat /\ now' \in Nat
  BY <1>1, <1>2 DEF TypeOK
<1>4. TypeOK'
  <2>1. \A k \in Clients : admitted[k] \in Seq(0..now')
    BY <1>1, <1>2, <1>3, LogGrows DEF TypeOK
  <2>2. admitted' \in [Clients -> Seq(0..now')]
    BY <1>1, <1>2, <2>1 DEF TypeOK
  <2>3. \A k \in DOMAIN windows :
          /\ windows[k].minuteWindowStart <= now'
          /\ windows[k].secondWindowStart <= now'
    BY <1>1, <1>2, <1>3 DEF TypeOK, Window
  <2> QED BY <1>1, <1>2, <1>3, <2>2, <2>3 DEF TypeOK
<1>5. Ledgers'
  <2>1. \A k \in Clients : \A j \in DOMAIN admitted[k] :
           admitted[k][j] \in Nat
    BY <1>1 DEF TypeOK
  <2> QED BY <1>1, <1>2, <1>3, <2>1 DEF Ledgers, Ledger
<1>6. MinuteBound' /\ BurstBound' /\ Refusals' /\ Paired'
  BY <1>1, <1>2 DEF MinuteBound, BurstBound, Times, Refusals, Paired
<1>7. PruneOnTime'
  BY <1>1, <1>2, <1>3 DEF PruneOnTime, PruneEvery, PruneAge
<1> QED BY <1>4, <1>5, <1>6, <1>7 DEF Inductive

-----------------------------------------------------------------------------
(* The theorems                                                            *)

LEMMA InitInductive == Init => Inductive
  BY LimiterAssumption
     DEF Init, EmptyMap, Inductive, TypeOK, Ledgers, MinuteBound, BurstBound, Times,
         Refusals, PruneOnTime, Paired, PruneEvery

LEMMA NextInductive == Inductive /\ [Next]_vars => Inductive'
<1> SUFFICES ASSUME Inductive, [Next]_vars PROVE Inductive'
  OBVIOUS
<1>1. ASSUME NEW k \in Clients, Admit(k) PROVE Inductive'
  BY <1>1, AdmitPreserves
<1>2. ASSUME NEW k \in Clients, RefuseBurst(k) PROVE Inductive'
  BY <1>2, RefuseBurstPreserves
<1>3. ASSUME NEW k \in Clients, RefuseMinute(k) PROVE Inductive'
  BY <1>3, RefuseMinutePreserves
<1>4. CASE Prune
  BY <1>4, PrunePreserves
<1>5. CASE Tick
  BY <1>5, TickPreserves
<1>6. CASE UNCHANGED vars
  BY <1>6 DEF vars, Inductive, TypeOK, Ledgers, MinuteBound, BurstBound, Times,
              Refusals, PruneOnTime, Paired, Ledger
<1> QED BY <1>1, <1>2, <1>3, <1>4, <1>5, <1>6 DEF Next

(* The invariant from which every property of the limiter follows.         *)
THEOREM LimiterInductive == Spec => []Inductive
<1> QED BY InitInductive, NextInductive, PTL DEF Spec

(* Counts stay within their limits (check).                                *)
THEOREM LimiterTypes == Spec => []TypeOK
<1>1. Inductive => TypeOK
  BY DEF Inductive
<1> QED BY <1>1, LimiterInductive, PTL

(* No more than twice the limit goes through in a minute, whatever the     *)
(* limits and however the requests are spread (check).                     *)
THEOREM LimiterMinuteBound == Spec => []MinuteBound
<1>1. Inductive => MinuteBound
  BY DEF Inductive
<1> QED BY <1>1, LimiterInductive, PTL

(* The same in a second (check).                                           *)
THEOREM LimiterBurstBound == Spec => []BurstBound
<1>1. Inductive => BurstBound
  BY DEF Inductive
<1> QED BY <1>1, LimiterInductive, PTL

(* A client that waits as Retry-After says is not refused for the same     *)
(* reason (check).                                                         *)
THEOREM LimiterRetryAfter == Spec => []RetryAfterHonest
<1> USE LimiterAssumption
<1>1. Inductive => RetryAfterHonest
  <2>1. SUFFICES ASSUME TypeOK, Refusals, NEW k \in DOMAIN refused, now >= refused[k].retryAt
                 PROVE  /\ ~ BurstFull(Current(k))
                        /\ refused[k].reason = "minute_limit" => ~ MinuteFull(Current(k))
    BY DEF Inductive, RetryAfterHonest
  <2>2. now \in Nat /\ refused[k].retryAt \in Nat
    BY <2>1 DEF TypeOK, Refusal
  <2>3. CASE k \in DOMAIN windows
    <3>1. windows[k].minuteWindowStart \in Nat /\ windows[k].secondWindowStart \in Nat
      BY <2>1, <2>3 DEF TypeOK, Window
    <3>2. SecondOver(windows[k])
      BY <2>1, <2>2, <2>3, <3>1 DEF Refusals, SecondOver
    <3>3. refused[k].reason = "minute_limit" => MinuteOver(windows[k])
      BY <2>1, <2>2, <2>3, <3>1 DEF Refusals, MinuteOver
    <3>4. Current(k).secondCount = 0
      BY <2>3, <3>2 DEF Current, Stored
    <3>5. refused[k].reason = "minute_limit" => Current(k).minuteCount = 0
      BY <2>3, <3>3 DEF Current, Stored
    <3> QED BY <3>4, <3>5 DEF BurstFull, MinuteFull
  <2>4. CASE k \notin DOMAIN windows
    <3>1. Current(k).secondCount = 0 /\ Current(k).minuteCount = 0
      BY <2>4 DEF Current, Stored, Fresh
    <3> QED BY <3>1 DEF BurstFull, MinuteFull
  <2> QED BY <2>3, <2>4
<1> QED BY <1>1, LimiterInductive, PTL

(* A client that stays away is forgotten (prune and its timer).            *)
THEOREM LimiterForgets == Spec => []DormantForgotten
<1>1. Inductive => DormantForgotten
  <2>1. SUFFICES ASSUME TypeOK, PruneOnTime, NEW k \in DOMAIN windows
                 PROVE  now - windows[k].minuteWindowStart <= PruneAge + PruneEvery
    BY DEF Inductive, DormantForgotten
  <2>2. /\ now \in Nat /\ nextPrune \in Nat /\ now <= nextPrune
        /\ windows[k].minuteWindowStart \in Nat
        /\ PruneAge + PruneEvery \in Nat
    BY <2>1, LimiterAssumption DEF TypeOK, Window, PruneAge, PruneEvery
  <2>3. nextPrune - windows[k].minuteWindowStart <= PruneAge + PruneEvery
    BY <2>1 DEF PruneOnTime
  <2> QED BY <2>2, <2>3
<1> QED BY <1>1, LimiterInductive, PTL

-----------------------------------------------------------------------------
(* Who is refused                                                          *)

(* A window that runs and has counted a limit shows that many admissions   *)
(* within its span.                                                        *)
LEMMA FullIsSpent ==
    ASSUME TypeOK, NEW k \in Clients, NEW start \in Nat, NEW count \in Nat,
           NEW limit \in Nat \ {0}, NEW span \in Nat,
           Ledger(admitted[k], start, count, limit, span), now < start + span,
           count >= limit
    PROVE  Spent(k, limit, span)
<1> DEFINE log == admitted[k]
           j == Len(log) - limit + 1
<1>1. /\ now \in Nat /\ Len(log) \in Nat /\ DOMAIN log = 1..Len(log)
      /\ \A i \in DOMAIN log : log[i] \in Nat
  BY DEF TypeOK
<1> HIDE DEF log
<1>2. limit <= Len(log)
  BY <1>1 DEF Ledger, log
<1>3. j \in DOMAIN log /\ j > Len(log) - count
  BY <1>1, <1>2
<1>4. start <= log[j]
  BY <1>3 DEF Ledger, log
<1> QED BY <1>1, <1>2, <1>3, <1>4 DEF Spent, log

(* Only a client that used a limit up is refused (check).                  *)
THEOREM LimiterRefusesOnlyTheDeserving == Spec => RefusalsDeserved
<1> USE LimiterAssumption
<1> DEFINE OneStep == \A k \in DOMAIN refused' :
                          \/ k \in DOMAIN refused /\ refused[k] = refused'[k]
                          \/ Deserved(k)
<1>1. Inductive /\ [Next]_vars => [OneStep]_vars
  <2> SUFFICES ASSUME Inductive, Next PROVE OneStep
    OBVIOUS
  <2>1. ASSUME NEW k \in Clients
        PROVE  /\ BurstFull(Current(k)) => Spent(k, BurstLimit, Second)
               /\ MinuteFull(Current(k)) => Spent(k, MinuteLimit, Minute)
    <3> DEFINE w == Current(k)
    <3>1. TypeOK /\ Ledgers
      BY DEF Inductive
    <3>2. /\ w \in Window
          /\ now < w.minuteWindowStart + Minute /\ now < w.secondWindowStart + Second
          /\ Ledger(admitted[k], w.minuteWindowStart, w.minuteCount, MinuteLimit, Minute)
          /\ Ledger(admitted[k], w.secondWindowStart, w.secondCount, BurstLimit, Second)
      BY <3>1, CurrentWindow
    <3> HIDE DEF w
    <3>3. /\ w.minuteWindowStart \in Nat /\ w.minuteCount \in Nat
          /\ w.secondWindowStart \in Nat /\ w.secondCount \in Nat
      BY <3>2 DEF Window
    <3>4. BurstFull(w) => Spent(k, BurstLimit, Second)
      BY <3>1, <3>2, <3>3, FullIsSpent DEF BurstFull
    <3>5. MinuteFull(w) => Spent(k, MinuteLimit, Minute)
      BY <3>1, <3>2, <3>3, FullIsSpent DEF MinuteFull
    <3> QED BY <3>4, <3>5 DEF w
  <2>2. ASSUME NEW k \in Clients, NEW w, NEW reason, NEW retry, Refuse(k, w, reason, retry)
        PROVE  /\ refused'[k].reason = reason
               /\ \A x \in DOMAIN refused' :
                     x # k => x \in DOMAIN refused /\ refused[x] = refused'[x]
    BY <2>2 DEF Refuse, Extend
  <2>3. ASSUME NEW k \in Clients, Admit(k) PROVE OneStep
    BY <2>3 DEF Admit, Admitted, Drop
  <2>4. ASSUME NEW k \in Clients, RefuseBurst(k) PROVE OneStep
    <3>1. BurstFull(Current(k)) /\ Refuse(k, Current(k), "burst_limit", 1)
      BY <2>4 DEF RefuseBurst
    <3>2. Deserved(k)
      BY <2>1, <2>2, <3>1 DEF Deserved
    <3> QED BY <2>2, <3>1, <3>2
  <2>5. ASSUME NEW k \in Clients, RefuseMinute(k) PROVE OneStep
    <3>1. /\ MinuteFull(Current(k))
          /\ Refuse(k, Current(k), "minute_limit", MinuteRetry(Current(k)))
      BY <2>5 DEF RefuseMinute
    <3>2. Deserved(k)
      BY <2>1, <2>2, <3>1 DEF Deserved
    <3> QED BY <2>2, <3>1, <3>2
  <2>6. CASE Prune \/ Tick
    BY <2>6 DEF Prune, Tick
  <2> QED BY <2>3, <2>4, <2>5, <2>6 DEF Next
<1> QED BY <1>1, LimiterInductive, PTL DEF Spec, RefusalsDeserved

-----------------------------------------------------------------------------
(* The limiter implements FixedWindow                                      *)

(* The abstract window of k is the one check works with.                   *)
LEMMA OpenedIsCurrent ==
    ASSUME TypeOK, NEW k \in Clients
    PROVE  /\ Ideal!Opened(MinuteWindows, k) =
                [start |-> Current(k).minuteWindowStart, count |-> Current(k).minuteCount]
           /\ Ideal!Opened(SecondWindows, k) =
                [start |-> Current(k).secondWindowStart, count |-> Current(k).secondCount]
<1> USE LimiterAssumption
<1>1. CASE k \in DOMAIN windows
  BY <1>1 DEF Ideal!Opened, MinuteWindows, SecondWindows, Current, Stored
<1>2. CASE k \notin DOMAIN windows
  <2>1. now - now = 0
    BY DEF TypeOK
  <2>2. ~ MinuteOver(Fresh) /\ ~ SecondOver(Fresh)
    BY <2>1 DEF MinuteOver, SecondOver, Fresh
  <2>3. Current(k) = Fresh
    BY <1>2, <2>2 DEF Current, Stored, Fresh
  <2> QED BY <1>2, <2>3 DEF Ideal!Opened, MinuteWindows, SecondWindows, Fresh
<1> QED BY <1>1, <1>2

(* A stored window that runs shows as its two parts, the others as before. *)
LEMMA StoredShows ==
    ASSUME TypeOK, NEW k \in Clients, NEW w, NEW n \in Nat,
           windows' = Extend(windows, k, w), now' = now,
           ~ MinuteOver(w), ~ SecondOver(w),
           w.minuteWindowStart = Current(k).minuteWindowStart,
           w.minuteCount = Current(k).minuteCount + n,
           w.secondWindowStart = Current(k).secondWindowStart,
           w.secondCount = Current(k).secondCount + n
    PROVE  /\ MinuteWindows' = Ideal!Counted(MinuteWindows, k, n)
           /\ SecondWindows' = Ideal!Counted(SecondWindows, k, n)
<1> DEFINE c == Current(k)
           m == Ideal!Opened(MinuteWindows, k)
           s == Ideal!Opened(SecondWindows, k)
<1>1. /\ m = [start |-> c.minuteWindowStart, count |-> c.minuteCount]
      /\ s = [start |-> c.secondWindowStart, count |-> c.secondCount]
  BY OpenedIsCurrent
<1>2. /\ DOMAIN windows' = DOMAIN windows \cup {k}
      /\ windows'[k] = w
      /\ \A z \in DOMAIN windows : z # k => windows'[z] = windows[z]
  BY DEF Extend
<1> HIDE DEF c, m, s
<1>3. /\ [m EXCEPT !.count = @ + n] = [start |-> c.minuteWindowStart, count |-> c.minuteCount + n]
      /\ [s EXCEPT !.count = @ + n] = [start |-> c.secondWindowStart, count |-> c.secondCount + n]
  BY <1>1
<1>4. MinuteWindows' = Ideal!Counted(MinuteWindows, k, n)
  <2>1. MinuteWindows' =
          [x \in {y \in DOMAIN windows' : ~ (now' - windows'[y].minuteWindowStart >= Minute)} |->
             [start |-> windows'[x].minuteWindowStart, count |-> windows'[x].minuteCount]]
    BY DEF MinuteWindows, MinuteOver
  <2>2. {y \in DOMAIN windows' : ~ (now' - windows'[y].minuteWindowStart >= Minute)}
          = {y \in DOMAIN windows : ~ MinuteOver(windows[y])} \cup {k}
    BY <1>2 DEF MinuteOver
  <2>3. DOMAIN MinuteWindows = {y \in DOMAIN windows : ~ MinuteOver(windows[y])}
    BY DEF MinuteWindows
  <2>4. ASSUME NEW x \in DOMAIN MinuteWindows \cup {k}
        PROVE  [start |-> windows'[x].minuteWindowStart, count |-> windows'[x].minuteCount]
                 = IF x = k THEN [m EXCEPT !.count = @ + n] ELSE MinuteWindows[x]
    <3>1. CASE x = k
      BY <1>2, <1>3, <3>1 DEF c
    <3>2. CASE x # k
      BY <1>2, <3>2 DEF MinuteWindows
    <3> QED BY <3>1, <3>2
  <2> QED BY <2>1, <2>2, <2>3, <2>4 DEF Ideal!Counted, m
<1>5. SecondWindows' = Ideal!Counted(SecondWindows, k, n)
  <2>1. SecondWindows' =
          [x \in {y \in DOMAIN windows' : ~ (now' - windows'[y].secondWindowStart >= Second)} |->
             [start |-> windows'[x].secondWindowStart, count |-> windows'[x].secondCount]]
    BY DEF SecondWindows, SecondOver
  <2>2. {y \in DOMAIN windows' : ~ (now' - windows'[y].secondWindowStart >= Second)}
          = {y \in DOMAIN windows : ~ SecondOver(windows[y])} \cup {k}
    BY <1>2 DEF SecondOver
  <2>3. DOMAIN SecondWindows = {y \in DOMAIN windows : ~ SecondOver(windows[y])}
    BY DEF SecondWindows
  <2>4. ASSUME NEW x \in DOMAIN SecondWindows \cup {k}
        PROVE  [start |-> windows'[x].secondWindowStart, count |-> windows'[x].secondCount]
                 = IF x = k THEN [s EXCEPT !.count = @ + n] ELSE SecondWindows[x]
    <3>1. CASE x = k
      BY <1>2, <1>3, <3>1 DEF c
    <3>2. CASE x # k
      BY <1>2, <3>2 DEF SecondWindows
    <3> QED BY <3>1, <3>2
  <2> QED BY <2>1, <2>2, <2>3, <2>4 DEF Ideal!Counted, s
<1> QED BY <1>4, <1>5

(* Both limits are tested on the same windows, in whatever order.          *)
LEMMA FullIsFull ==
    ASSUME TypeOK, NEW k \in Clients
    PROVE  Ideal!Full(k) <=> BurstFull(Current(k)) \/ MinuteFull(Current(k))
  BY OpenedIsCurrent DEF Ideal!Full, BurstFull, MinuteFull

(* A refusal is a request that opens windows and is counted in none.       *)
LEMMA RefusalIsRequest ==
    ASSUME TypeOK, Ledgers, NEW k \in Clients, NEW reason, NEW retry,
           Refuse(k, Current(k), reason, retry),
           BurstFull(Current(k)) \/ MinuteFull(Current(k))
    PROVE  Ideal!Request(k)
<1> DEFINE c == Current(k)
<1>1. /\ c \in Window
      /\ c.minuteWindowStart <= now /\ now < c.minuteWindowStart + Minute
      /\ c.secondWindowStart <= now /\ now < c.secondWindowStart + Second
  BY CurrentWindow
<1>2. windows' = Extend(windows, k, c) /\ now' = now
  BY DEF Refuse
<1>3. Ideal!Full(k)
  BY FullIsFull
<1>4. now \in Nat
  BY DEF TypeOK
<1> HIDE DEF c
<1>5. ~ MinuteOver(c) /\ ~ SecondOver(c)
  BY <1>1, <1>4, LimiterAssumption DEF MinuteOver, SecondOver, Window
<1>6. c.minuteCount = c.minuteCount + 0 /\ c.secondCount = c.secondCount + 0
  BY <1>1 DEF Window
<1>7. /\ MinuteWindows' = Ideal!Counted(MinuteWindows, k, 0)
      /\ SecondWindows' = Ideal!Counted(SecondWindows, k, 0)
  BY <1>2, <1>5, <1>6, StoredShows DEF c
<1> QED BY <1>2, <1>3, <1>7 DEF Ideal!Request

(* An admission is a request counted in both windows.                      *)
LEMMA AdmissionIsRequest ==
    ASSUME TypeOK, Ledgers, NEW k \in Clients, Admit(k)
    PROVE  Ideal!Request(k)
<1> DEFINE c == Current(k)
<1>1. PICK w : /\ Stocked(k, w)
               /\ windows' = Extend(windows, k, w)
               /\ w.minuteWindowStart = c.minuteWindowStart
               /\ w.minuteCount = c.minuteCount + 1
               /\ w.secondWindowStart = c.secondWindowStart
               /\ w.secondCount = c.secondCount + 1
  BY AdmittedWindow
<1>2. /\ c \in Window
      /\ now < c.minuteWindowStart + Minute /\ now < c.secondWindowStart + Second
  BY CurrentWindow
<1>3. now' = now /\ ~ Ideal!Full(k)
  BY FullIsFull DEF Admit, Admitted
<1>4. now \in Nat
  BY DEF TypeOK
<1> HIDE DEF c
<1>5. ~ MinuteOver(w) /\ ~ SecondOver(w)
  BY <1>1, <1>2, <1>4, LimiterAssumption DEF MinuteOver, SecondOver, Window
<1>6. /\ MinuteWindows' = Ideal!Counted(MinuteWindows, k, 1)
      /\ SecondWindows' = Ideal!Counted(SecondWindows, k, 1)
  BY <1>1, <1>3, <1>5, StoredShows DEF c
<1> QED BY <1>3, <1>6 DEF Ideal!Request

(* Pruning takes nothing away that had not vanished.                       *)
LEMMA PruneIsSilent ==
    ASSUME Inductive, Prune
    PROVE  UNCHANGED <<now, MinuteWindows, SecondWindows>>
<1> USE LimiterAssumption
<1>1. /\ windows' = [k \in {x \in DOMAIN windows : ~ Prunable(windows[x])} |-> windows[k]]
      /\ now' = now
  BY DEF Prune
<1>2. ASSUME NEW k \in DOMAIN windows, Prunable(windows[k])
      PROVE  MinuteOver(windows[k]) /\ SecondOver(windows[k])
  <2>1. /\ windows[k].minuteWindowStart \in Nat /\ windows[k].secondWindowStart \in Nat
        /\ now \in Nat
    BY DEF Inductive, TypeOK, Window
  <2>2. windows[k].secondWindowStart < windows[k].minuteWindowStart + Minute
    BY DEF Inductive, Paired
  <2>3. now - windows[k].minuteWindowStart > 2 * Minute
    BY <1>2 DEF Prunable, PruneAge
  <2> QED BY <2>1, <2>2, <2>3 DEF MinuteOver, SecondOver
<1>3. /\ {x \in DOMAIN windows' : ~ (now' - windows'[x].minuteWindowStart >= Minute)}
           = {x \in DOMAIN windows : ~ MinuteOver(windows[x])}
      /\ {x \in DOMAIN windows' : ~ (now' - windows'[x].secondWindowStart >= Second)}
           = {x \in DOMAIN windows : ~ SecondOver(windows[x])}
  BY <1>1, <1>2 DEF MinuteOver, SecondOver
<1>4. MinuteWindows' = MinuteWindows
  <2>1. MinuteWindows' =
          [x \in {y \in DOMAIN windows' : ~ (now' - windows'[y].minuteWindowStart >= Minute)} |->
             [start |-> windows'[x].minuteWindowStart, count |-> windows'[x].minuteCount]]
    BY DEF MinuteWindows, MinuteOver
  <2>2. \A x \in {y \in DOMAIN windows : ~ MinuteOver(windows[y])} : windows'[x] = windows[x]
    BY <1>1, <1>2
  <2> QED BY <1>3, <2>1, <2>2 DEF MinuteWindows
<1>5. SecondWindows' = SecondWindows
  <2>1. SecondWindows' =
          [x \in {y \in DOMAIN windows' : ~ (now' - windows'[y].secondWindowStart >= Second)} |->
             [start |-> windows'[x].secondWindowStart, count |-> windows'[x].secondCount]]
    BY DEF SecondWindows, SecondOver
  <2>2. \A x \in {y \in DOMAIN windows : ~ SecondOver(windows[y])} : windows'[x] = windows[x]
    BY <1>1, <1>2
  <2> QED BY <1>3, <2>1, <2>2 DEF SecondWindows
<1> QED BY <1>1, <1>4, <1>5

(* When time passes, the windows that end then vanish.                     *)
LEMMA TickIsElapse ==
    ASSUME TypeOK, Tick
    PROVE  Ideal!Elapse
<1> USE LimiterAssumption
<1>1. now \in Nat /\ now' = now + 1 /\ now < MaxTime /\ windows' = windows
  BY DEF Tick, TypeOK
<1>2. \A k \in DOMAIN windows :
        /\ windows[k].minuteWindowStart \in Nat
        /\ windows[k].secondWindowStart \in Nat
  BY DEF TypeOK, Window
<1>3. MinuteWindows' = Ideal!Running(MinuteWindows, Minute, now')
  <2>1. MinuteWindows' =
          [x \in {y \in DOMAIN windows : ~ (now' - windows[y].minuteWindowStart >= Minute)} |->
             [start |-> windows[x].minuteWindowStart, count |-> windows[x].minuteCount]]
    BY <1>1 DEF MinuteWindows, MinuteOver
  <2>2. {y \in DOMAIN MinuteWindows : now' - MinuteWindows[y].start < Minute}
          = {y \in DOMAIN windows : ~ (now' - windows[y].minuteWindowStart >= Minute)}
    BY <1>1, <1>2 DEF MinuteWindows, MinuteOver
  <2>3. \A x \in DOMAIN MinuteWindows : MinuteWindows[x] =
          [start |-> windows[x].minuteWindowStart, count |-> windows[x].minuteCount]
    BY DEF MinuteWindows
  <2> QED BY <2>1, <2>2, <2>3 DEF Ideal!Running
<1>4. SecondWindows' = Ideal!Running(SecondWindows, Second, now')
  <2>1. SecondWindows' =
          [x \in {y \in DOMAIN windows : ~ (now' - windows[y].secondWindowStart >= Second)} |->
             [start |-> windows[x].secondWindowStart, count |-> windows[x].secondCount]]
    BY <1>1 DEF SecondWindows, SecondOver
  <2>2. {y \in DOMAIN SecondWindows : now' - SecondWindows[y].start < Second}
          = {y \in DOMAIN windows : ~ (now' - windows[y].secondWindowStart >= Second)}
    BY <1>1, <1>2 DEF SecondWindows, SecondOver
  <2>3. \A x \in DOMAIN SecondWindows : SecondWindows[x] =
          [start |-> windows[x].secondWindowStart, count |-> windows[x].secondCount]
    BY DEF SecondWindows
  <2> QED BY <2>1, <2>2, <2>3 DEF Ideal!Running
<1> QED BY <1>1, <1>3, <1>4 DEF Ideal!Elapse

(* Restarting windows late and pruning them on a timer change no decision. *)
THEOREM LimiterImplementsFixedWindow == Spec => ImplementsFixedWindow
<1>1. Init => Ideal!Init
  BY DEF Init, EmptyMap, Ideal!Init, MinuteWindows, SecondWindows
<1>2. Inductive /\ [Next]_vars => [Ideal!Next]_<<now, MinuteWindows, SecondWindows>>
  <2> SUFFICES ASSUME Inductive, [Next]_vars
               PROVE  [Ideal!Next]_<<now, MinuteWindows, SecondWindows>>
    OBVIOUS
  <2>1. TypeOK /\ Ledgers
    BY DEF Inductive
  <2>2. ASSUME NEW k \in Clients, Admit(k) PROVE Ideal!Next
    BY <2>1, <2>2, AdmissionIsRequest DEF Ideal!Next
  <2>3. ASSUME NEW k \in Clients, RefuseBurst(k) PROVE Ideal!Next
    BY <2>1, <2>3, RefusalIsRequest DEF Ideal!Next, RefuseBurst
  <2>4. ASSUME NEW k \in Clients, RefuseMinute(k) PROVE Ideal!Next
    BY <2>1, <2>4, RefusalIsRequest DEF Ideal!Next, RefuseMinute
  <2>5. CASE Prune
    BY <2>5, PruneIsSilent
  <2>6. CASE Tick
    BY <2>1, <2>6, TickIsElapse DEF Ideal!Next
  <2>7. CASE UNCHANGED vars
    BY <2>7 DEF vars, MinuteWindows, SecondWindows, MinuteOver, SecondOver
  <2> QED BY <2>2, <2>3, <2>4, <2>5, <2>6, <2>7 DEF Next
<1> QED BY <1>1, <1>2, LimiterInductive, PTL DEF Spec, ImplementsFixedWindow, Ideal!Spec

-----------------------------------------------------------------------------
(* What the refuted claim would need                                       *)

(* A minute window that is stored starts anew only for a client that was   *)
(* admitted nothing for a minute.                                          *)
NothingStraddles ==
    [][\A k \in DOMAIN windows \cap DOMAIN windows' :
          windows'[k].minuteWindowStart # windows[k].minuteWindowStart
             => \A j \in Times(k) : admitted[k][j] + Minute <= now]_vars

\* What a window does not count came a minute before it started.
Detached ==
    \A k \in DOMAIN windows :
        Ledger(admitted[k], windows[k].minuteWindowStart, windows[k].minuteCount, 0, Minute)

(* A request for k, admitted or refused, leaves its window detached.       *)
LEMMA StaysDetached ==
    ASSUME Inductive, Detached, SlidingWindow, NEW k \in Clients,
           Admit(k) \/ RefuseBurst(k) \/ RefuseMinute(k),
           k \in DOMAIN windows =>
              \/ windows'[k].minuteWindowStart = windows[k].minuteWindowStart
              \/ \A j \in Times(k) : admitted[k][j] + Minute <= now
    PROVE  Detached' /\ SlidingWindow'
<1> USE LimiterAssumption
<1> DEFINE c == Current(k)
           log == admitted[k]
<1>1. TypeOK /\ Ledgers
  BY DEF Inductive
<1>2. /\ c \in Window
      /\ c.minuteWindowStart <= now /\ now < c.minuteWindowStart + Minute
  BY <1>1, CurrentWindow
<1>3. /\ now \in Nat /\ log \in Seq(Nat) /\ admitted \in [Clients -> Seq(0..now)]
      /\ DOMAIN log = 1..Len(log) /\ Len(log) \in Nat
      /\ \A j \in DOMAIN log : log[j] \in Nat
  BY <1>1 DEF TypeOK
<1>4. \E w : /\ windows' = Extend(windows, k, w)
             /\ w.minuteWindowStart = c.minuteWindowStart
             /\ \/ w.minuteCount = c.minuteCount /\ UNCHANGED admitted
                \/ /\ w.minuteCount = c.minuteCount + 1 /\ c.minuteCount < MinuteLimit
                   /\ admitted' = [admitted EXCEPT ![k] = Append(log, now)]
  <2>1. CASE Admit(k)
    <3>1. ~ (c.minuteCount >= MinuteLimit) /\ c.minuteCount \in Nat
      BY <1>2, <2>1 DEF Admit, Admitted, MinuteFull, Window
    <3>2. admitted' = [admitted EXCEPT ![k] = Append(log, now)]
      BY <2>1 DEF Admit, Admitted
    <3> QED BY <1>1, <2>1, <3>1, <3>2, AdmittedWindow
  <2>2. CASE RefuseBurst(k) \/ RefuseMinute(k)
    BY <2>2 DEF RefuseBurst, RefuseMinute, Refuse
  <2> QED BY <2>1, <2>2
<1>5. PICK w : /\ windows' = Extend(windows, k, w)
               /\ w.minuteWindowStart = c.minuteWindowStart
               /\ \/ w.minuteCount = c.minuteCount /\ UNCHANGED admitted
                  \/ /\ w.minuteCount = c.minuteCount + 1 /\ c.minuteCount < MinuteLimit
                     /\ admitted' = [admitted EXCEPT ![k] = Append(log, now)]
  BY <1>4
<1>6. /\ DOMAIN windows' = DOMAIN windows \cup {k} /\ windows'[k] = w
      /\ \A x \in DOMAIN windows : x # k => windows'[x] = windows[x]
  BY <1>5 DEF Extend
<1>7. Ledger(log, c.minuteWindowStart, c.minuteCount, 0, Minute)
  <2>1. CASE k \in DOMAIN windows /\ ~ MinuteOver(windows[k])
    BY <2>1 DEF Detached, Current, Stored
  <2>2. CASE k \in DOMAIN windows /\ MinuteOver(windows[k])
    <3>1. c.minuteWindowStart = now /\ c.minuteCount = 0
      BY <2>2 DEF Current, Stored
    <3>2. windows'[k].minuteWindowStart # windows[k].minuteWindowStart
      <4>1. windows[k].minuteWindowStart \in Nat
        BY <1>1, <2>2 DEF TypeOK, Window
      <4> QED BY <1>3, <1>5, <1>6, <2>2, <3>1, <4>1 DEF MinuteOver
    <3>3. \A j \in DOMAIN log : log[j] + Minute <= now
      BY <2>2, <3>2 DEF Times
    <3> HIDE DEF c, log
    <3>4. Ledger(log, now, 0, 0, Minute)
      BY <1>3, <3>3, Open
    <3> QED BY <3>1, <3>4
  <2>3. CASE k \notin DOMAIN windows
    <3>1. c.minuteWindowStart = now /\ c.minuteCount = 0
      BY <2>3 DEF Current, Stored, Fresh
    <3>2. \A j \in DOMAIN log : log[j] + Minute <= now
      BY <1>1, <2>3 DEF Ledgers
    <3> HIDE DEF c, log
    <3>3. Ledger(log, now, 0, 0, Minute)
      BY <1>3, <3>2, Open
    <3> QED BY <3>1, <3>3
  <2> QED BY <2>1, <2>2, <2>3
<1>8. c.minuteWindowStart \in Nat /\ c.minuteCount \in Nat
  BY <1>2 DEF Window
<1> HIDE DEF c
<1>9. Spaced(log, MinuteLimit, Minute)
  BY DEF SlidingWindow, Times, Spaced
<1>10. /\ Ledger(admitted'[k], w.minuteWindowStart, w.minuteCount, 0, Minute)
       /\ Spaced(admitted'[k], MinuteLimit, Minute)
       /\ \A x \in Clients : x # k => admitted'[x] = admitted[x]
  <2>1. CASE w.minuteCount = c.minuteCount /\ UNCHANGED admitted
    BY <1>5, <1>7, <1>9, <2>1
  <2>2. CASE /\ w.minuteCount = c.minuteCount + 1 /\ c.minuteCount < MinuteLimit
             /\ admitted' = [admitted EXCEPT ![k] = Append(log, now)]
    <3>1. admitted'[k] = Append(log, now) /\ \A x \in Clients : x # k => admitted'[x] = admitted[x]
      BY <1>3, <2>2
    <3> HIDE DEF log
    <3>2. Ledger(Append(log, now), c.minuteWindowStart, c.minuteCount + 1, 0, Minute)
      BY <1>2, <1>3, <1>7, <1>8, Count
    <3>3. Spaced(Append(log, now), MinuteLimit, Minute)
      <4>1. MinuteLimit = MinuteLimit + 0 /\ MinuteLimit \in Nat /\ Minute \in Nat
        OBVIOUS
      <4> QED BY <1>2, <1>3, <1>7, <1>8, <1>9, <2>2, <4>1, StaysSpaced
    <3> QED BY <1>5, <2>2, <3>1, <3>2, <3>3
  <2> QED BY <1>5, <2>1, <2>2
<1>11. Detached'
  <2>1. SUFFICES ASSUME NEW x \in DOMAIN windows'
                 PROVE  Ledger(admitted'[x], windows'[x].minuteWindowStart,
                               windows'[x].minuteCount, 0, Minute)
    BY DEF Detached, Ledger
  <2>2. CASE x # k
    BY <1>1, <1>6, <1>10, <2>2 DEF Detached, TypeOK
  <2> QED BY <1>6, <1>10, <2>2
<1>12. SlidingWindow'
  <2>1. \A x \in Clients : Spaced(admitted'[x], MinuteLimit, Minute)
    BY <1>10 DEF SlidingWindow, Times, Spaced
  <2> QED BY <2>1 DEF SlidingWindow, Times, Spaced
<1> QED BY <1>11, <1>12

(* FINDINGS.md's claim has this gap only: when no minute window starts     *)
(* anew for a client admitted something in the last minute, the fixed      *)
(* windows are a sliding one (rateLimit.ts, check).                        *)
THEOREM StraddlingIsTheOnlyGap == Spec /\ NothingStraddles => []SlidingWindow
<1>1. Init => Detached /\ SlidingWindow
  BY DEF Init, EmptyMap, Detached, SlidingWindow, Times
<1>2. Inductive /\ Detached /\ SlidingWindow /\ [Next]_vars
        /\ [\A k \in DOMAIN windows \cap DOMAIN windows' :
               windows'[k].minuteWindowStart # windows[k].minuteWindowStart
                  => \A j \in Times(k) : admitted[k][j] + Minute <= now]_vars
        => (Detached /\ SlidingWindow)'
  <2> SUFFICES ASSUME Inductive, Detached, SlidingWindow, [Next]_vars,
                      [\A k \in DOMAIN windows \cap DOMAIN windows' :
                         windows'[k].minuteWindowStart # windows[k].minuteWindowStart
                            => \A j \in Times(k) : admitted[k][j] + Minute <= now]_vars
               PROVE  (Detached /\ SlidingWindow)'
    OBVIOUS
  <2>1. CASE UNCHANGED <<windows, admitted>>
    BY <2>1 DEF Detached, SlidingWindow, Times, Ledger
  <2>2. CASE Tick \/ UNCHANGED vars
    BY <2>1, <2>2 DEF Tick, vars
  <2>3. CASE Prune
    <3>1. /\ DOMAIN windows' \subseteq DOMAIN windows
          /\ \A x \in DOMAIN windows' : windows'[x] = windows[x]
          /\ UNCHANGED admitted
      BY <2>3 DEF Prune
    <3> QED BY <3>1 DEF Detached, SlidingWindow, Times, Ledger
  <2>4. ASSUME NEW k \in Clients, Admit(k) \/ RefuseBurst(k) \/ RefuseMinute(k)
        PROVE  (Detached /\ SlidingWindow)'
    <3>1. CASE UNCHANGED vars
      BY <2>2, <3>1
    <3>2. CASE ~ UNCHANGED vars
      <4>1. k \in DOMAIN windows'
        BY <2>4 DEF Admit, Admitted, RefuseBurst, RefuseMinute, Refuse, Extend
      <4> QED BY <2>4, <3>2, <4>1, StaysDetached
    <3> QED BY <3>1, <3>2
  <2> QED BY <2>2, <2>3, <2>4 DEF Next
<1> QED BY <1>1, <1>2, LimiterInductive, PTL DEF Spec, NothingStraddles

-----------------------------------------------------------------------------
(* Clients do not disturb each other                                       *)

Only(k, f) == [x \in DOMAIN f \cap {k} |-> f[x]]

(* The limiter as it would be if k were its only client.                   *)
Solo(k) == INSTANCE RateLimiter WITH
               Clients  <- {k},
               windows  <- Only(k, windows),
               admitted <- Only(k, admitted),
               refused  <- Only(k, refused)

(* What a request of x stores for x is seen by x, and by nobody else.      *)
LEMMA OnlyExtended ==
    ASSUME NEW f, NEW k, NEW v
    PROVE  /\ Only(k, Extend(f, k, v)) = Extend(Only(k, f), k, v)
           /\ \A x : x # k => Only(k, Extend(f, x, v)) = Only(k, f)
<1>1. DOMAIN Extend(f, k, v) \cap {k} = (DOMAIN f \cap {k}) \cup {k}
  BY DEF Extend
<1>2. Only(k, Extend(f, k, v)) = Extend(Only(k, f), k, v)
  BY <1>1 DEF Extend, Only
<1>3. ASSUME NEW x, x # k PROVE Only(k, Extend(f, x, v)) = Only(k, f)
  <2>1. DOMAIN Extend(f, x, v) \cap {k} = DOMAIN f \cap {k}
    BY <1>3 DEF Extend
  <2>2. \A z \in DOMAIN f \cap {k} : Extend(f, x, v)[z] = f[z]
    BY <1>3 DEF Extend
  <2> QED BY <2>1, <2>2 DEF Only
<1> QED BY <1>2, <1>3

LEMMA OnlyDropped ==
    ASSUME NEW f, NEW k
    PROVE  /\ Only(k, Drop(f, k)) = Drop(Only(k, f), k)
           /\ \A x : x # k => Only(k, Drop(f, x)) = Only(k, f)
<1>1. DOMAIN Drop(f, k) \cap {k} = (DOMAIN f \cap {k}) \ {k}
  BY DEF Drop
<1>2. Only(k, Drop(f, k)) = Drop(Only(k, f), k)
  BY <1>1 DEF Drop, Only
<1>3. ASSUME NEW x, x # k PROVE Only(k, Drop(f, x)) = Only(k, f)
  <2>1. DOMAIN Drop(f, x) \cap {k} = DOMAIN f \cap {k}
    BY <1>3 DEF Drop
  <2>2. \A z \in DOMAIN f \cap {k} : Drop(f, x)[z] = f[z]
    BY <1>3 DEF Drop
  <2> QED BY <2>1, <2>2 DEF Only
<1> QED BY <1>2, <1>3

LEMMA OnlyLogged ==
    ASSUME TypeOK, NEW k \in Clients, NEW x \in Clients,
           admitted' = [admitted EXCEPT ![x] = Append(@, now)]
    PROVE  /\ x = k => Only(k, admitted)' = [Only(k, admitted) EXCEPT ![k] = Append(@, now)]
           /\ x # k => Only(k, admitted)' = Only(k, admitted)
<1>1. DOMAIN admitted = Clients /\ DOMAIN admitted' = Clients
  BY DEF TypeOK
<1>2. Only(k, admitted) = [z \in {k} |-> admitted[z]]
  BY <1>1 DEF Only
<1>3. Only(k, admitted)' = [z \in {k} |-> admitted'[z]]
  BY <1>1 DEF Only
<1> QED BY <1>1, <1>2, <1>3

(* k has the same window alone as among others.                            *)
LEMMA SoloWindow ==
    ASSUME NEW k
    PROVE  Solo(k)!Current(k) = Current(k)
<1>1. Solo(k)!Stored(k) = Stored(k)
  BY DEF Stored, Fresh, Only, Solo!Stored, Solo!Fresh
<1> QED BY <1>1 DEF Current, MinuteOver, SecondOver,
                    Solo!Current, Solo!MinuteOver, Solo!SecondOver

(* Each client sees the limiter it would have for itself: the requests of  *)
(* the others change none of its windows, admissions and refusals          *)
(* (rateLimit.ts, check and prune).                                        *)
THEOREM ClientsAreIndependent == \A k \in Clients : Spec => Solo(k)!Spec
<1> SUFFICES ASSUME NEW k \in Clients PROVE Spec => Solo(k)!Spec
  OBVIOUS
<1>1. Init => Solo(k)!Init
  BY DEF Init, EmptyMap, PruneEvery, Only, Solo!Init, Solo!EmptyMap, Solo!PruneEvery
<1>2. TypeOK /\ [Next]_vars => [Solo(k)!Next]_(Solo(k)!vars)
  <2> SUFFICES ASSUME TypeOK, Next PROVE [Solo(k)!Next]_(Solo(k)!vars)
    BY DEF vars, Solo!vars
  <2> DEFINE seen == <<now, Only(k, windows), nextPrune, Only(k, admitted), Only(k, refused)>>
  <2>1. UNCHANGED seen => UNCHANGED Solo(k)!vars
    BY DEF Solo!vars
  <2>2. CASE Admit(k)
    <3> DEFINE w == [Current(k) EXCEPT !.secondCount = @ + 1, !.minuteCount = @ + 1]
    <3>1. /\ ~ BurstFull(Current(k)) /\ ~ MinuteFull(Current(k))
          /\ windows' = Extend(windows, k, w)
          /\ admitted' = [admitted EXCEPT ![k] = Append(@, now)]
          /\ refused' = Drop(refused, k)
          /\ UNCHANGED <<now, nextPrune>>
      BY <2>2 DEF Admit, Admitted
    <3>2. w = [Solo(k)!Current(k) EXCEPT !.secondCount = @ + 1, !.minuteCount = @ + 1]
      BY SoloWindow
    <3> HIDE DEF w
    <3>3. /\ Only(k, windows)' = Extend(Only(k, windows), k, w)
          /\ Only(k, admitted)' = [Only(k, admitted) EXCEPT ![k] = Append(@, now)]
          /\ Only(k, refused)' = Drop(Only(k, refused), k)
      <4>1. Only(k, windows)' = Extend(Only(k, windows), k, w)
        BY <3>1, OnlyExtended
      <4>2. Only(k, admitted)' = [Only(k, admitted) EXCEPT ![k] = Append(@, now)]
        BY <3>1, OnlyLogged
      <4>3. Only(k, refused)' = Drop(Only(k, refused), k)
        BY <3>1, OnlyDropped
      <4> QED BY <4>1, <4>2, <4>3
    <3>4. ~ BurstFull(Solo(k)!Current(k)) /\ ~ MinuteFull(Solo(k)!Current(k))
      BY <3>1, SoloWindow
    <3>5. Solo(k)!Admitted(k, w)
      BY <3>1, <3>3, <3>4
      DEF Solo!Admitted, BurstFull, MinuteFull, Solo!BurstFull, Solo!MinuteFull,
          Extend, Drop, Solo!Extend, Solo!Drop
    <3>6. Solo(k)!Admit(k)
      BY <3>2, <3>5 DEF Solo!Admit
    <3> QED BY <3>6 DEF Solo!Next
  <2>3. ASSUME NEW reason, NEW retry, Refuse(k, Current(k), reason, retry)
        PROVE  Solo(k)!Refuse(k, Solo(k)!Current(k), reason, retry)
    <3>1. /\ Only(k, windows)' = Extend(Only(k, windows), k, Current(k))
          /\ Only(k, refused)' =
                Extend(Only(k, refused), k, [reason |-> reason, retryAt |-> now + retry * Second])
          /\ UNCHANGED <<now, nextPrune, admitted>>
      BY <2>3, OnlyExtended DEF Refuse
    <3> QED BY <3>1, SoloWindow DEF Solo!Refuse, Extend, Solo!Extend, Only
  <2>4. CASE RefuseBurst(k)
    <3>1. Solo(k)!RefuseBurst(k)
      BY <2>3, <2>4, SoloWindow
      DEF RefuseBurst, BurstFull, Solo!RefuseBurst, Solo!BurstFull
    <3> QED BY <3>1 DEF Solo!Next
  <2>5. CASE RefuseMinute(k)
    <3>1. Solo(k)!RefuseMinute(k)
      BY <2>3, <2>5, SoloWindow
      DEF RefuseMinute, BurstFull, MinuteFull, MinuteRetry, CeilSeconds,
          Solo!RefuseMinute, Solo!BurstFull, Solo!MinuteFull, Solo!MinuteRetry,
          Solo!CeilSeconds
    <3> QED BY <3>1 DEF Solo!Next
  <2>6. ASSUME NEW x \in Clients, x # k, Admit(x) \/ RefuseBurst(x) \/ RefuseMinute(x)
        PROVE  UNCHANGED seen
    <3>1. CASE Admit(x)
      <4>1. /\ \E w : windows' = Extend(windows, x, w)
            /\ admitted' = [admitted EXCEPT ![x] = Append(@, now)]
            /\ refused' = Drop(refused, x)
            /\ UNCHANGED <<now, nextPrune>>
        BY <3>1 DEF Admit, Admitted
      <4>2. Only(k, windows)' = Only(k, windows)
        <5>1. PICK w : windows' = Extend(windows, x, w)
          BY <4>1
        <5>2. Only(k, Extend(windows, x, w)) = Only(k, windows)
          BY <2>6, OnlyExtended
        <5> QED BY <5>1, <5>2
      <4>3. Only(k, admitted)' = Only(k, admitted)
        BY <2>6, <4>1, OnlyLogged
      <4>4. Only(k, refused)' = Only(k, refused)
        BY <2>6, <4>1, OnlyDropped
      <4> QED BY <4>1, <4>2, <4>3, <4>4
    <3>2. CASE RefuseBurst(x) \/ RefuseMinute(x)
      <4>1. /\ \E w : windows' = Extend(windows, x, w)
            /\ \E v : refused' = Extend(refused, x, v)
            /\ UNCHANGED <<now, nextPrune, admitted>>
        BY <3>2 DEF RefuseBurst, RefuseMinute, Refuse
      <4>2. Only(k, windows)' = Only(k, windows) /\ Only(k, refused)' = Only(k, refused)
        <5>1. PICK w, v : windows' = Extend(windows, x, w) /\ refused' = Extend(refused, x, v)
          BY <4>1
        <5>2. /\ Only(k, Extend(windows, x, w)) = Only(k, windows)
              /\ Only(k, Extend(refused, x, v)) = Only(k, refused)
          BY <2>6, OnlyExtended
        <5> QED BY <5>1, <5>2
      <4>3. Only(k, admitted)' = Only(k, admitted)
        BY <4>1 DEF Only
      <4> QED BY <4>1, <4>2, <4>3
    <3> QED BY <2>6, <3>1, <3>2
  <2>7. CASE Prune
    <3>1. Solo(k)!Prune
      BY <2>7 DEF Prune, Only, Prunable, PruneAge, PruneEvery,
                  Solo!Prune, Solo!Prunable, Solo!PruneAge, Solo!PruneEvery
    <3> QED BY <3>1 DEF Solo!Next
  <2>8. CASE Tick
    BY <2>8 DEF Tick, Only, Solo!Tick, Solo!Next
  <2> QED BY <2>1, <2>2, <2>4, <2>5, <2>6, <2>7, <2>8 DEF Next
<1> QED BY <1>1, <1>2, LimiterTypes, PTL DEF Spec, Solo!Spec

=============================================================================
