---------------------------- MODULE GatewayProofs ----------------------------
(* Gateway for all clients, limits and numbers of requests: the gauge, the *)
(* tool counter and the load on Vento, from what RateLimiterProofs proves  *)
(* of the limiter inside it.                                               *)
EXTENDS Gateway, FiniteSetTheorems, TLAPS

Proved == INSTANCE RateLimiterProofs

-----------------------------------------------------------------------------
(* The server and its limiter                                              *)

(* Every step of the server is a step of the limiter or leaves it alone    *)
(* (index.ts, the order of the middleware).                                *)
LEMMA LimiterSteps == [Next]_vars => [Limiter!Next]_limiter
<1> SUFFICES ASSUME [Next]_vars PROVE [Limiter!Next]_limiter
  OBVIOUS
<1> USE DEF limiter, Limiter!Next
<1>1. CASE Clock
  BY <1>1 DEF Clock
<1>2. CASE UNCHANGED vars
  BY <1>2 DEF vars
<1>3. ASSUME NEW r \in Requests, NEW k \in Clients, NEW ask \in Asks, Arrive(r, k, ask)
      PROVE  [Limiter!Next]_limiter
  BY <1>3, Zenon DEF Arrive, Bypass, Refuse, AnswerAtOnce, AskVento, Routed
<1>4. ASSUME NEW r \in Requests, VentoEnds(r) \/ Finish(r) \/ Disconnect(r)
      PROVE  [Limiter!Next]_limiter
  BY <1>4, Zenon DEF VentoEnds, Finish, Disconnect, Resumes, Flushes, Leaves
<1> QED BY <1>1, <1>2, <1>3, <1>4 DEF Next

(* The limiter inside the server behaves as the limiter by itself.         *)
LEMMA LimiterInside == Spec => Limiter!Spec
<1>1. Init => Limiter!Init
  BY DEF Init
<1>2. [Next]_vars => [Limiter!Next]_(Limiter!vars)
  BY LimiterSteps DEF limiter, Limiter!vars
<1> QED BY <1>1, <1>2, PTL DEF Spec, Limiter!Spec

(* The limiter of the server is the one that RateLimiterProofs is about.   *)
LEMMA SameLimiter == Limiter!Spec => Proved!Spec
<1>1. Limiter!Init => Proved!Init
  BY DEF Proved!Init, Limiter!Init, Proved!PruneEvery, Limiter!PruneEvery,
         Proved!EmptyMap, Limiter!EmptyMap
<1>2. [Limiter!Next]_(Limiter!vars) => [Proved!Next]_(Proved!vars)
  <2>1. Limiter!Next => Proved!Next
    BY Zenon
       DEF Proved!Next, Limiter!Next, Proved!Tick, Limiter!Tick,
           Proved!Prune, Limiter!Prune, Proved!PruneEvery, Limiter!PruneEvery,
           Proved!Prunable, Limiter!Prunable, Proved!PruneAge, Limiter!PruneAge,
           Proved!Admit, Limiter!Admit, Proved!Admitted, Limiter!Admitted,
           Proved!RefuseBurst, Limiter!RefuseBurst, Proved!Refuse, Limiter!Refuse,
           Proved!RefuseMinute, Limiter!RefuseMinute,
           Proved!MinuteRetry, Limiter!MinuteRetry,
           Proved!CeilSeconds, Limiter!CeilSeconds,
           Proved!Current, Limiter!Current, Proved!Stored, Limiter!Stored,
           Proved!Fresh, Limiter!Fresh, Proved!MinuteOver, Limiter!MinuteOver,
           Proved!SecondOver, Limiter!SecondOver,
           Proved!BurstFull, Limiter!BurstFull, Proved!MinuteFull, Limiter!MinuteFull,
           Proved!Extend, Limiter!Extend, Proved!Drop, Limiter!Drop,
           Proved!EmptyMap, Limiter!EmptyMap
  <2> QED BY <2>1 DEF Limiter!vars, Proved!vars
<1> QED BY <1>1, <1>2, PTL DEF Limiter!Spec, Proved!Spec

LimiterFacts ==
    /\ now \in Nat
    /\ admitted \in [Clients -> Seq(0..now)]
    /\ Proved!MinuteBound /\ Proved!BurstBound

(* What is proved of the limiter holds of the server.                      *)
LEMMA LimiterHolds == Spec => []LimiterFacts
<1>1. Proved!LimiterAssumption
  BY GatewayAssumption DEF Proved!LimiterAssumption
<1>2. Proved!Spec => []Proved!TypeOK
  BY <1>1, Proved!LimiterTypes
<1>3. Proved!Spec => []Proved!MinuteBound
  BY <1>1, Proved!LimiterMinuteBound
<1>4. Proved!Spec => []Proved!BurstBound
  BY <1>1, Proved!LimiterBurstBound
<1>5. Proved!TypeOK /\ Proved!MinuteBound /\ Proved!BurstBound => LimiterFacts
  BY GatewayAssumption DEF Proved!TypeOK, LimiterFacts
<1> QED BY LimiterInside, SameLimiter, <1>2, <1>3, <1>4, <1>5, PTL

-----------------------------------------------------------------------------
(* What the steps do to the requests in flight                             *)

(* A request taken in joins those it belongs to (index.ts).                *)
LEMMA Taken ==
    ASSUME NEW r, NEW k, NEW ask, NEW stage, r \notin DOMAIN pending,
           pending' = Extend(pending, r, [from |-> k, ask |-> ask, stage |-> stage,
                                          gone |-> FALSE])
    PROVE  /\ DOMAIN pending' = DOMAIN pending \cup {r}
           /\ MeteredPending' = IF ask \in Unmetered THEN MeteredPending
                                ELSE MeteredPending \cup {r}
           /\ RunningTools' = IF stage = "waiting" /\ ask \in ToolAsks
                              THEN RunningTools \cup {r} ELSE RunningTools
           /\ Leaving' = Leaving
<1>1. /\ DOMAIN pending' = DOMAIN pending \cup {r}
      /\ pending'[r] = [from |-> k, ask |-> ask, stage |-> stage, gone |-> FALSE]
      /\ \A x \in DOMAIN pending : pending'[x] = pending[x]
  BY DEF Extend
<1>2. /\ pending'[r].ask = ask /\ pending'[r].stage = stage /\ pending'[r].gone = FALSE
  BY <1>1
<1>3. Leaving' = Leaving
  BY <1>1, <1>2 DEF Leaving
<1>4. MeteredPending' = IF ask \in Unmetered THEN MeteredPending
                        ELSE MeteredPending \cup {r}
  BY <1>1, <1>2 DEF MeteredPending, Unmetered
<1>5. RunningTools' = IF stage = "waiting" /\ ask \in ToolAsks
                      THEN RunningTools \cup {r} ELSE RunningTools
  <2> HIDE DEF ToolAsks
  <2> QED BY <1>1, <1>2 DEF RunningTools
<1> QED BY <1>1, <1>3, <1>4, <1>5

(* A request that is over leaves them all.                                 *)
LEMMA Removed ==
    ASSUME NEW r, pending' = Drop(pending, r)
    PROVE  /\ DOMAIN pending' = DOMAIN pending \ {r}
           /\ MeteredPending' = MeteredPending \ {r}
           /\ RunningTools' = RunningTools \ {r}
           /\ Leaving' = Leaving \ {r}
BY DEF Drop, MeteredPending, RunningTools, Leaving, Unmetered

(* An answered request is no running tool any more.                        *)
LEMMA Answered ==
    ASSUME TypeOK, NEW r \in DOMAIN pending, pending[r].stage = "waiting",
           pending' = [pending EXCEPT ![r].stage = "answered"]
    PROVE  /\ DOMAIN pending' = DOMAIN pending
           /\ MeteredPending' = MeteredPending
           /\ RunningTools' = RunningTools \ {r}
           /\ Leaving' = Leaving
BY DEF TypeOK, MeteredPending, RunningTools, Leaving, Unmetered

(* A waiting request whose client leaves stays where it is.                *)
LEMMA ClientLeft ==
    ASSUME TypeOK, NEW r \in DOMAIN pending, pending[r].stage = "waiting",
           pending' = [pending EXCEPT ![r].gone = TRUE]
    PROVE  /\ DOMAIN pending' = DOMAIN pending
           /\ MeteredPending' = MeteredPending
           /\ RunningTools' = RunningTools
           /\ Leaving' = Leaving \cup {r}
BY DEF TypeOK, MeteredPending, RunningTools, Leaving, Unmetered

LEMMA FinitelyMany ==
    ASSUME IsFiniteSet(DOMAIN pending)
    PROVE  /\ IsFiniteSet(MeteredPending) /\ Cardinality(MeteredPending) \in Nat
           /\ IsFiniteSet(RunningTools) /\ Cardinality(RunningTools) \in Nat
           /\ IsFiniteSet(Leaving) /\ Cardinality(Leaving) \in Nat
<1>1. /\ MeteredPending \subseteq DOMAIN pending
      /\ RunningTools \subseteq DOMAIN pending
      /\ Leaving \subseteq DOMAIN pending
  BY DEF MeteredPending, RunningTools, Leaving
<1> QED BY <1>1, FS_Subset, FS_CardinalityType

-----------------------------------------------------------------------------
(* The inductive invariant: requests and counters                          *)

(* How many tool calls are counted.                                        *)
Counted == executions["unknown"] + executions["denied"] + executions["error"]
              + executions["success"]

(* A call is counted once, under one outcome (execute.ts, executeTool).    *)
LEMMA CountsOne ==
    ASSUME NEW ask, executions \in [Outcomes -> Nat], Count(ask)
    PROVE  /\ executions' \in [Outcomes -> Nat]
           /\ Counted' = IF ask \in ToolAsks THEN Counted + 1 ELSE Counted
<1>1. Outcome(ask) \in Outcomes
  BY DEF Outcome, Outcomes
<1>2. CASE ask \in ToolAsks
  <2> DEFINE o == Outcome(ask)
  <2>1. executions' = [executions EXCEPT ![o] = @ + 1]
    BY <1>2 DEF Count
  <2> HIDE DEF o
  <2>2. o \in Outcomes
    BY <1>1 DEF o
  <2> QED BY <1>2, <2>1, <2>2 DEF Counted, Outcomes
<1>3. CASE ask \notin ToolAsks
  BY <1>3 DEF Count, Counted
<1> QED BY <1>2, <1>3

(* The clock only goes forward, and admissions are logged as they happen   *)
(* (rateLimit.ts, check).                                                  *)
LEMMA LimiterLogs ==
    ASSUME [Limiter!Next]_limiter
    PROVE  \/ now' \in {now, now + 1} /\ UNCHANGED admitted
           \/ /\ UNCHANGED now
              /\ \E k \in Clients : admitted' = [admitted EXCEPT ![k] = Append(@, now)]
<1>1. ASSUME NEW k \in Clients, Limiter!Admit(k)
      PROVE  /\ UNCHANGED now
             /\ admitted' = [admitted EXCEPT ![k] = Append(@, now)]
  BY <1>1 DEF Limiter!Admit, Limiter!Admitted
<1>2. ASSUME NEW k \in Clients, Limiter!RefuseBurst(k) \/ Limiter!RefuseMinute(k)
      PROVE  UNCHANGED <<now, admitted>>
  BY <1>2 DEF Limiter!RefuseBurst, Limiter!RefuseMinute, Limiter!Refuse
<1>3. CASE Limiter!Prune
  BY <1>3 DEF Limiter!Prune
<1>4. CASE Limiter!Tick
  BY <1>4 DEF Limiter!Tick
<1>5. CASE UNCHANGED limiter
  BY <1>5 DEF limiter
<1> QED BY <1>1, <1>2, <1>3, <1>4, <1>5 DEF Limiter!Next

LEMMA ClockForward ==
    ASSUME LimiterFacts, [Limiter!Next]_limiter
    PROVE  now' \in Nat /\ now <= now'
BY LimiterLogs DEF LimiterFacts

(* A log of times past stays one.                                          *)
LEMMA PastTimes ==
    ASSUME NEW t \in Nat, NEW u \in Nat, t <= u, NEW log \in Seq(0..t)
    PROVE  log \in Seq(0..u) /\ Append(log, u) \in Seq(0..u)
<1>1. 0..t \subseteq 0..u
  OBVIOUS
<1>2. log \in [1..Len(log) -> 0..u] /\ Len(log) \in Nat
  BY <1>1
<1>3. log \in Seq(0..u)
  BY <1>2
<1> QED BY <1>3

LEMMA CallsTyped ==
    ASSUME TypeOK, LimiterFacts, [Limiter!Next]_limiter
    PROVE  /\ calls \in [Clients -> Seq(0..now')]
           /\ \A k \in Clients :
                [calls EXCEPT ![k] = Append(@, now')] \in [Clients -> Seq(0..now')]
<1>1. now \in Nat /\ now' \in Nat /\ now <= now'
  BY ClockForward DEF LimiterFacts
<1>2. \A k \in Clients : calls[k] \in Seq(0..now') /\ Append(calls[k], now') \in Seq(0..now')
  BY <1>1, PastTimes DEF TypeOK
<1> QED BY <1>2 DEF TypeOK

(* A request that comes in (index.ts; execute.ts).                         *)
LEMMA ArrivalCounts ==
    ASSUME Counting, LimiterFacts, [Limiter!Next]_limiter,
           NEW r \in Requests, NEW k \in Clients, NEW ask \in Asks, Arrive(r, k, ask)
    PROVE  Counting'
<1> DEFINE stage == pending'[r].stage
<1>1. /\ r \notin DOMAIN pending
      /\ stage \in {"waiting", "answered"}
      /\ stage = "waiting" => ask \in Upstream
      /\ pending' = Extend(pending, r, [from |-> k, ask |-> ask, stage |-> stage,
                                        gone |-> FALSE])
      /\ UNCHANGED lost
  BY DEF Arrive, Bypass, Refuse, AnswerAtOnce, AskVento, Routed, Metered, Takes, Extend
<1>2. active' = IF ask \in Unmetered THEN active ELSE active + 1
  BY DEF Arrive, Bypass, Refuse, AnswerAtOnce, AskVento, Routed, Metered, counters
<1>3. calls' = calls \/ (now' = now /\ calls' = [calls EXCEPT ![k] = Append(@, now)])
  BY DEF Arrive, Bypass, Refuse, AnswerAtOnce, AskVento, Routed,
         Limiter!Admit, Limiter!Admitted
<1>4. /\ toolCalls' \in Nat /\ executions' \in [Outcomes -> Nat]
      /\ IF stage = "waiting" /\ ask \in ToolAsks
         THEN toolCalls' = toolCalls + 1 /\ Counted' = Counted
         ELSE \/ toolCalls' = toolCalls /\ Counted' = Counted
              \/ toolCalls' = toolCalls + 1 /\ Counted' = Counted + 1
  <2>0. toolCalls \in Nat /\ executions \in [Outcomes -> Nat] /\ Counted \in Nat
    BY DEF Counting, TypeOK, Counted, Outcomes
  <2>1. CASE Bypass(r, k, ask)
    <3>1. UNCHANGED <<toolCalls, executions>> /\ stage = "answered"
      BY <2>1, <1>1 DEF Bypass, Takes, counters, Extend
    <3> QED BY <2>0, <3>1 DEF Counted
  <2>2. CASE Refuse(r, k, ask)
    <3>1. UNCHANGED <<toolCalls, executions>> /\ stage = "answered"
      BY <2>2, <1>1 DEF Refuse, Metered, Takes, Extend
    <3> QED BY <2>0, <3>1 DEF Counted
  <2>3. CASE AnswerAtOnce(r, k, ask)
    <3>1. /\ toolCalls' = IF ask \in ToolAsks THEN toolCalls + 1 ELSE toolCalls
          /\ stage = "answered" /\ Count(ask)
      BY <2>3, <1>1 DEF AnswerAtOnce, Routed, Metered, Takes, Extend
    <3> HIDE DEF ToolAsks
    <3> QED BY <2>0, <3>1, CountsOne
  <2>4. CASE AskVento(r, k, ask)
    <3>1. /\ toolCalls' = IF ask \in ToolAsks THEN toolCalls + 1 ELSE toolCalls
          /\ stage = "waiting" /\ UNCHANGED executions
      BY <2>4, <1>1 DEF AskVento, Routed, Metered, Takes, Extend
    <3> HIDE DEF ToolAsks
    <3> QED BY <2>0, <3>1 DEF Counted
  <2> QED BY <2>1, <2>2, <2>3, <2>4 DEF Arrive
<1> HIDE DEF stage
<1>5. /\ DOMAIN pending' = DOMAIN pending \cup {r}
      /\ MeteredPending' = IF ask \in Unmetered THEN MeteredPending
                           ELSE MeteredPending \cup {r}
      /\ RunningTools' = IF stage = "waiting" /\ ask \in ToolAsks
                         THEN RunningTools \cup {r} ELSE RunningTools
      /\ Leaving' = Leaving
  BY <1>1, Taken
<1>6. /\ IsFiniteSet(DOMAIN pending')
      /\ IsFiniteSet(MeteredPending) /\ Cardinality(MeteredPending) \in Nat
      /\ IsFiniteSet(RunningTools) /\ Cardinality(RunningTools) \in Nat
  BY <1>5, FinitelyMany, FS_AddElement DEF Counting, Slack
<1>7. r \notin MeteredPending /\ r \notin RunningTools
  BY <1>1 DEF MeteredPending, RunningTools
<1>8. TypeOK'
  <2>1. \A x \in DOMAIN pending' :
          pending'[x] = IF x = r THEN [from |-> k, ask |-> ask, stage |-> stage,
                                       gone |-> FALSE]
                        ELSE pending[x]
    BY <1>1 DEF Extend
  <2>2. DOMAIN pending' \subseteq Requests
    BY <1>5 DEF Counting, TypeOK
  <2>3. \A x \in DOMAIN pending' :
          /\ pending'[x] \in Request
          /\ pending'[x].stage = "waiting" => pending'[x].ask \in Upstream
          /\ pending'[x].gone => pending'[x].stage = "waiting"
    <3>1. [from |-> k, ask |-> ask, stage |-> stage, gone |-> FALSE] \in Request
      <4> HIDE DEF Asks
      <4> QED BY <1>1 DEF Request
    <3>2. /\ pending'[r] \in Request
          /\ pending'[r].stage = stage /\ pending'[r].ask = ask /\ pending'[r].gone = FALSE
      BY <1>5, <2>1, <3>1
    <3>3. \A x \in DOMAIN pending : pending'[x] = pending[x]
      BY <1>1, <1>5, <2>1
    <3>4. \A x \in DOMAIN pending :
            /\ pending[x] \in Request
            /\ pending[x].stage = "waiting" => pending[x].ask \in Upstream
            /\ pending[x].gone => pending[x].stage = "waiting"
      BY DEF Counting, TypeOK
    <3> HIDE DEF Asks, Request, Upstream
    <3> QED BY <1>1, <1>5, <3>2, <3>3, <3>4
  <2>4. calls' \in [Clients -> Seq(0..now')]
    BY <1>3, CallsTyped DEF Counting
  <2>5. active' \in Nat /\ lost' \in 0..MaxLost
    BY <1>1, <1>2 DEF Counting, TypeOK
  <2> QED BY <1>4, <2>2, <2>3, <2>4, <2>5 DEF TypeOK
<1>9. Slack'
  BY <1>1, <1>5, <1>6 DEF Counting, Slack
<1>10. BooksBalance'
  <2>1. Cardinality(MeteredPending') =
          IF ask \in Unmetered THEN Cardinality(MeteredPending)
          ELSE Cardinality(MeteredPending) + 1
    BY <1>5, <1>6, <1>7, FS_AddElement
  <2> QED BY <1>1, <1>2, <1>6, <2>1 DEF Counting, BooksBalance, TypeOK
<1>11. ToolCallsCounted'
  <2>1. Cardinality(RunningTools') =
          IF stage = "waiting" /\ ask \in ToolAsks THEN Cardinality(RunningTools) + 1
          ELSE Cardinality(RunningTools)
    BY <1>5, <1>6, <1>7, FS_AddElement
  <2>2. Counted + Cardinality(RunningTools) = toolCalls
    BY DEF Counting, ToolCallsCounted, Counted
  <2>3. Counted \in Nat /\ toolCalls \in Nat
    BY DEF Counting, TypeOK, Counted, Outcomes
  <2>4. Counted' + Cardinality(RunningTools') = toolCalls'
    <3>1. CASE stage = "waiting" /\ ask \in ToolAsks
      <4>1. /\ toolCalls' = toolCalls + 1 /\ Counted' = Counted
            /\ Cardinality(RunningTools') = Cardinality(RunningTools) + 1
        BY <1>4, <2>1, <3>1
      <4> QED BY <1>6, <2>2, <2>3, <4>1
    <3>2. CASE ~ (stage = "waiting" /\ ask \in ToolAsks)
      <4>1. /\ \/ toolCalls' = toolCalls /\ Counted' = Counted
               \/ toolCalls' = toolCalls + 1 /\ Counted' = Counted + 1
            /\ Cardinality(RunningTools') = Cardinality(RunningTools)
        BY <1>4, <2>1, <3>2
      <4> QED BY <1>6, <2>2, <2>3, <4>1
    <3> QED BY <3>1, <3>2
  <2> QED BY <2>4 DEF ToolCallsCounted, Counted
<1> QED BY <1>8, <1>9, <1>10, <1>11 DEF Counting

(* Vento is done with a request (index.ts, after the routes' awaits).      *)
LEMMA ResumptionCounts ==
    ASSUME Counting, LimiterFacts, [Limiter!Next]_limiter, NEW r \in Requests, VentoEnds(r)
    PROVE  Counting'
<1>1. /\ r \in DOMAIN pending /\ pending[r].stage = "waiting"
      /\ Count(pending[r].ask)
      /\ UNCHANGED <<now, active, calls, toolCalls>>
  BY DEF VentoEnds, Resumes, limiter
<1>2. /\ r \in MeteredPending
      /\ r \in RunningTools <=> pending[r].ask \in ToolAsks
      /\ r \in Leaving <=> pending[r].gone
  BY <1>1 DEF Counting, TypeOK, MeteredPending, RunningTools, Leaving,
              Upstream, Unmetered
<1>3. /\ DOMAIN pending' \subseteq DOMAIN pending
      /\ MeteredPending' = IF pending[r].gone THEN MeteredPending \ {r} ELSE MeteredPending
      /\ RunningTools' = RunningTools \ {r}
      /\ Leaving' = Leaving \ {r}
      /\ lost' = IF pending[r].gone THEN lost + 1 ELSE lost
      /\ \A x \in DOMAIN pending' :
            pending'[x] = IF x = r THEN [pending[r] EXCEPT !.stage = "answered"]
                          ELSE pending[x]
      /\ r \in DOMAIN pending' => ~ pending[r].gone
  <2>1. CASE pending[r].gone
    <3>1. pending' = Drop(pending, r) /\ lost' = lost + 1
      BY <2>1 DEF VentoEnds, Resumes
    <3>2. \A x \in DOMAIN pending' : x # r /\ pending'[x] = pending[x]
      BY <3>1 DEF Drop
    <3> QED BY <2>1, <3>1, <3>2, Removed
  <2>2. CASE ~ pending[r].gone
    <3>1. pending' = [pending EXCEPT ![r].stage = "answered"] /\ lost' = lost
      BY <2>2 DEF VentoEnds, Resumes
    <3>2. \A x \in DOMAIN pending' :
            pending'[x] = IF x = r THEN [pending[r] EXCEPT !.stage = "answered"]
                          ELSE pending[x]
      BY <3>1
    <3> QED BY <1>1, <1>2, <2>2, <3>1, <3>2, Answered DEF Counting
  <2> QED BY <2>1, <2>2
<1>4. /\ IsFiniteSet(DOMAIN pending')
      /\ IsFiniteSet(MeteredPending) /\ Cardinality(MeteredPending) \in Nat
      /\ IsFiniteSet(RunningTools) /\ Cardinality(RunningTools) \in Nat
      /\ IsFiniteSet(Leaving) /\ Cardinality(Leaving) \in Nat
  BY <1>3, FinitelyMany, FS_Subset DEF Counting, Slack
<1>5. /\ Cardinality(MeteredPending') = IF pending[r].gone THEN Cardinality(MeteredPending) - 1
                                        ELSE Cardinality(MeteredPending)
      /\ Cardinality(RunningTools') = IF r \in RunningTools THEN Cardinality(RunningTools) - 1
                                      ELSE Cardinality(RunningTools)
      /\ Cardinality(Leaving') = IF pending[r].gone THEN Cardinality(Leaving) - 1
                                 ELSE Cardinality(Leaving)
  BY <1>2, <1>3, <1>4, FS_RemoveElement
<1>6. /\ executions' \in [Outcomes -> Nat]
      /\ Counted' = IF r \in RunningTools THEN Counted + 1 ELSE Counted
  BY <1>1, <1>2, CountsOne DEF Counting, TypeOK
<1>7. Slack'
  BY <1>3, <1>4, <1>5 DEF Counting, Slack, TypeOK
<1>8. TypeOK'
  <2>1. \A x \in DOMAIN pending : /\ pending[x] \in Request
                                  /\ pending[x].stage = "waiting" => pending[x].ask \in Upstream
                                  /\ pending[x].gone => pending[x].stage = "waiting"
    BY DEF Counting, TypeOK
  <2>2. \A x \in DOMAIN pending' :
          /\ pending'[x] \in Request
          /\ pending'[x].stage = "waiting" => pending'[x].ask \in Upstream
          /\ pending'[x].gone => pending'[x].stage = "waiting"
    <3>1. [pending[r] EXCEPT !.stage = "answered"] \in Request
      <4> HIDE DEF Asks
      <4> QED BY <1>1, <2>1 DEF Request
    <3>2. /\ [pending[r] EXCEPT !.stage = "answered"].stage = "answered"
          /\ [pending[r] EXCEPT !.stage = "answered"].gone = pending[r].gone
      <4> HIDE DEF Asks
      <4> QED BY <1>1, <2>1 DEF Request
    <3> HIDE DEF Request, Upstream
    <3> QED BY <1>3, <2>1, <3>1, <3>2
  <2>3. lost' \in 0..MaxLost
    <3>1. pending[r].gone => Cardinality(Leaving) # 0
      BY <1>2, <1>4, FS_EmptySet
    <3>2. MaxLost \in Nat /\ lost \in Nat /\ lost + Cardinality(Leaving) <= MaxLost
      BY GatewayAssumption DEF Counting, Slack, TypeOK
    <3>3. lost' = IF pending[r].gone THEN lost + 1 ELSE lost
      BY <1>3
    <3> QED BY <1>4, <3>1, <3>2, <3>3
  <2> QED BY <1>1, <1>3, <1>6, <2>2, <2>3 DEF Counting, TypeOK
<1>9. BooksBalance'
  BY <1>1, <1>3, <1>4, <1>5 DEF Counting, BooksBalance, TypeOK
<1>10. ToolCallsCounted'
  <2>1. Counted + Cardinality(RunningTools) = toolCalls
    BY DEF Counting, ToolCallsCounted, Counted
  <2>2. Counted \in Nat
    BY DEF Counting, TypeOK, Counted, Outcomes
  <2>3. Counted' + Cardinality(RunningTools') = toolCalls'
    BY <1>1, <1>4, <1>5, <1>6, <2>1, <2>2
  <2> QED BY <2>3 DEF ToolCallsCounted, Counted
<1> QED BY <1>7, <1>8, <1>9, <1>10 DEF Counting

LEMMA RemovalTyped ==
    ASSUME TypeOK, NEW r, pending' = Drop(pending, r)
    PROVE  /\ DOMAIN pending' \subseteq Requests
           /\ \A x \in DOMAIN pending' :
                /\ pending'[x] \in Request
                /\ pending'[x].stage = "waiting" => pending'[x].ask \in Upstream
                /\ pending'[x].gone => pending'[x].stage = "waiting"
BY DEF TypeOK, Drop

(* An answer goes out (metrics.ts, "finish").                              *)
LEMMA FinishCounts ==
    ASSUME Counting, LimiterFacts, [Limiter!Next]_limiter, NEW r \in Requests, Finish(r)
    PROVE  Counting'
<1>1. /\ r \in DOMAIN pending /\ pending[r].stage = "answered"
      /\ pending' = Drop(pending, r)
      /\ active' = IF pending[r].ask \in Unmetered THEN active ELSE active - 1
      /\ UNCHANGED <<now, executions, lost, calls, toolCalls>>
  BY DEF Finish, Flushes, limiter, histories
<1>2. /\ r \in MeteredPending <=> pending[r].ask \notin Unmetered
      /\ r \notin RunningTools /\ r \notin Leaving
  BY <1>1 DEF Counting, TypeOK, MeteredPending, RunningTools, Leaving
<1>3. /\ DOMAIN pending' = DOMAIN pending \ {r}
      /\ MeteredPending' = MeteredPending \ {r}
      /\ RunningTools' = RunningTools
      /\ Leaving' = Leaving
  <2>1. RunningTools \ {r} = RunningTools /\ Leaving \ {r} = Leaving
    BY <1>2
  <2> QED BY <1>1, <2>1, Removed
<1>4. /\ IsFiniteSet(DOMAIN pending')
      /\ IsFiniteSet(MeteredPending) /\ Cardinality(MeteredPending) \in Nat
      /\ IsFiniteSet(MeteredPending') /\ Cardinality(MeteredPending') \in Nat
  <2>1. IsFiniteSet(DOMAIN pending') /\ IsFiniteSet(MeteredPending)
    BY <1>3, FinitelyMany, FS_RemoveElement DEF Counting, Slack
  <2> QED BY <1>3, <2>1, FS_RemoveElement, FS_CardinalityType
<1>5. Cardinality(MeteredPending') =
        IF pending[r].ask \in Unmetered THEN Cardinality(MeteredPending)
        ELSE Cardinality(MeteredPending) - 1
  BY <1>2, <1>3, <1>4, FS_RemoveElement
<1>6. BooksBalance'
  <2>1. active = Cardinality(MeteredPending) + lost /\ lost \in Nat
    BY DEF Counting, BooksBalance, TypeOK
  <2> QED BY <1>1, <1>4, <1>5, <2>1 DEF BooksBalance
<1>7. TypeOK'
  <2>1. active' \in Nat
    BY <1>1, <1>4, <1>6 DEF BooksBalance, Counting, TypeOK
  <2> QED BY <1>1, <2>1, RemovalTyped DEF Counting, TypeOK
<1>8. Slack' /\ ToolCallsCounted'
  BY <1>1, <1>3, <1>4 DEF Counting, Slack, ToolCallsCounted
<1> QED BY <1>6, <1>7, <1>8 DEF Counting

(* A client closes its connection.                                         *)
LEMMA DisconnectCounts ==
    ASSUME Counting, LimiterFacts, [Limiter!Next]_limiter, NEW r \in Requests, Disconnect(r)
    PROVE  Counting'
<1>1. /\ r \in DOMAIN pending /\ r \notin Leaving /\ pending[r].gone = FALSE
      /\ lost + Cardinality(Leaving) < MaxLost
      /\ UNCHANGED <<now, active, executions, calls, toolCalls>>
  BY DEF Disconnect, Leaves, Leaving, limiter, Counting, TypeOK, Request
<1>2. /\ IsFiniteSet(DOMAIN pending) /\ MaxLost \in Nat /\ lost \in Nat
      /\ IsFiniteSet(MeteredPending) /\ Cardinality(MeteredPending) \in Nat
      /\ IsFiniteSet(Leaving) /\ Cardinality(Leaving) \in Nat
  BY GatewayAssumption, FinitelyMany DEF Counting, Slack, TypeOK
<1>3. CASE pending[r].stage = "waiting"
  <2>1. pending' = [pending EXCEPT ![r].gone = TRUE] /\ UNCHANGED lost
    BY <1>3 DEF Disconnect, Leaves
  <2>2. /\ DOMAIN pending' = DOMAIN pending
        /\ MeteredPending' = MeteredPending
        /\ RunningTools' = RunningTools
        /\ Leaving' = Leaving \cup {r}
    BY <1>1, <1>3, <2>1, ClientLeft DEF Counting
  <2>3. Cardinality(Leaving') = Cardinality(Leaving) + 1
    BY <1>1, <1>2, <2>2, FS_AddElement
  <2>4. TypeOK'
    <3>1. [pending[r] EXCEPT !.gone = TRUE] \in Request
      <4> HIDE DEF Asks
      <4> QED BY <1>1 DEF Counting, TypeOK, Request
    <3>2. /\ pending'[r] = [pending[r] EXCEPT !.gone = TRUE]
          /\ pending'[r].ask = pending[r].ask /\ pending'[r].stage = "waiting"
      <4> HIDE DEF Asks
      <4> QED BY <1>1, <1>3, <2>1 DEF Counting, TypeOK, Request
    <3>3. \A x \in DOMAIN pending : x # r => pending'[x] = pending[x]
      BY <2>1
    <3> HIDE DEF Asks, Request, Upstream
    <3> QED BY <1>1, <1>3, <2>1, <2>2, <3>1, <3>2, <3>3 DEF Counting, TypeOK
  <2> QED BY <1>1, <1>2, <2>1, <2>2, <2>3, <2>4
          DEF Counting, Slack, BooksBalance, ToolCallsCounted
<1>4. CASE pending[r].stage # "waiting"
  <2>1. /\ pending' = Drop(pending, r)
        /\ lost' = IF pending[r].ask \in Unmetered THEN lost ELSE lost + 1
    BY <1>4 DEF Disconnect, Leaves
  <2>2. /\ r \in MeteredPending <=> pending[r].ask \notin Unmetered
        /\ r \notin RunningTools
    BY <1>1, <1>4 DEF MeteredPending, RunningTools
  <2>3. /\ DOMAIN pending' = DOMAIN pending \ {r}
        /\ MeteredPending' = MeteredPending \ {r}
        /\ RunningTools' = RunningTools
        /\ Leaving' = Leaving
    <3>1. RunningTools \ {r} = RunningTools /\ Leaving \ {r} = Leaving
      BY <1>1, <2>2
    <3> QED BY <2>1, <3>1, Removed
  <2>4. Cardinality(MeteredPending') =
          IF pending[r].ask \in Unmetered THEN Cardinality(MeteredPending)
          ELSE Cardinality(MeteredPending) - 1
    BY <1>2, <2>2, <2>3, FS_RemoveElement
  <2>5. IsFiniteSet(DOMAIN pending')
    BY <1>2, <2>3, FS_RemoveElement
  <2>6. lost' \in 0..MaxLost /\ lost' + Cardinality(Leaving') <= MaxLost
    BY <1>1, <1>2, <2>1, <2>3
  <2>7. BooksBalance'
    BY <1>1, <1>2, <2>1, <2>4 DEF Counting, BooksBalance
  <2>8. TypeOK'
    BY <1>1, <2>1, <2>6, RemovalTyped DEF Counting, TypeOK
  <2> QED BY <1>1, <2>3, <2>5, <2>6, <2>7, <2>8
          DEF Counting, Slack, ToolCallsCounted
<1> QED BY <1>3, <1>4

(* The requests and the counters keep in step.                             *)
LEMMA GatewayCounting == Spec => []Counting
<1>1. Init => Counting
  <2> SUFFICES ASSUME Init PROVE Counting
    OBVIOUS
  <2>1. DOMAIN pending = {}
    BY DEF Init, EmptyMap
  <2>2. MeteredPending = {} /\ RunningTools = {} /\ Leaving = {}
    BY <2>1 DEF MeteredPending, RunningTools, Leaving
  <2>3. now = 0 /\ calls \in [Clients -> Seq(0..now)]
    BY DEF Init, Limiter!Init
  <2> QED BY <2>1, <2>2, <2>3, GatewayAssumption, FS_EmptySet
          DEF Init, Counting, TypeOK, Slack, BooksBalance, ToolCallsCounted, Outcomes
<1>2. Counting /\ LimiterFacts /\ [Next]_vars => Counting'
  <2> SUFFICES ASSUME Counting, LimiterFacts, [Next]_vars PROVE Counting'
    OBVIOUS
  <2>1. [Limiter!Next]_limiter
    BY LimiterSteps
  <2>2. ASSUME UNCHANGED <<pending, counters, histories>> PROVE Counting'
    <3>1. UNCHANGED <<pending, active, executions, lost, calls, toolCalls>>
      BY <2>2 DEF counters, histories
    <3>2. calls' \in [Clients -> Seq(0..now')]
      BY <2>1, <3>1, CallsTyped DEF Counting
    <3> QED BY <3>1, <3>2
            DEF Counting, TypeOK, Slack, BooksBalance, ToolCallsCounted,
                MeteredPending, RunningTools, Leaving
  <2>3. CASE Clock \/ UNCHANGED vars
    BY <2>2, <2>3 DEF Clock, vars
  <2>4. ASSUME NEW r \in Requests, NEW k \in Clients, NEW ask \in Asks, Arrive(r, k, ask)
        PROVE  Counting'
    BY <2>1, <2>4, ArrivalCounts
  <2>5. ASSUME NEW r \in Requests, VentoEnds(r) \/ Finish(r) \/ Disconnect(r)
        PROVE  Counting'
    BY <2>1, <2>5, ResumptionCounts, FinishCounts, DisconnectCounts
  <2> QED BY <2>3, <2>4, <2>5 DEF Next
<1> QED BY <1>1, <1>2, LimiterHolds, PTL DEF Spec

(* The state is well-formed (index.ts, metrics.ts, execute.ts).            *)
THEOREM GatewayTypes == Spec => []TypeOK
<1>1. Counting => TypeOK
  BY DEF Counting
<1> QED BY <1>1, GatewayCounting, PTL

(* The gauge is off by the clients that left early, and by nothing else    *)
(* (metrics.ts, middleware).                                               *)
THEOREM GatewayBooksBalance == Spec => []BooksBalance
<1>1. Counting => BooksBalance
  BY DEF Counting
<1> QED BY <1>1, GatewayCounting, PTL

(* Every tool call is counted once (execute.ts, executeTool).              *)
THEOREM GatewayCountsTools == Spec => []ToolCallsCounted
<1>1. Counting => ToolCallsCounted
  BY DEF Counting
<1> QED BY <1>1, GatewayCounting, PTL

-----------------------------------------------------------------------------
(* What the refuted claim would need                                       *)

(* The clients of requests that reach the metrics wait for their answers.  *)
PatientClients ==
    [][\A r \in DOMAIN pending : Disconnect(r) => pending[r].ask \in Unmetered]_vars

NobodyLeft == lost = 0 /\ \A r \in DOMAIN pending : pending[r].gone = FALSE

(* The metrics help text has this gap only: when no client leaves before   *)
(* its answer is flushed, active_connections is the number of requests in  *)
(* flight, refused, failed and preflight ones included (metrics.ts).       *)
THEOREM LostClientsAreTheOnlyGap == Spec /\ PatientClients => []GaugeIsInFlight
<1>1. Init => NobodyLeft
  BY DEF Init, EmptyMap, NobodyLeft
<1>2. TypeOK /\ NobodyLeft /\ [Next]_vars
        /\ [\A r \in DOMAIN pending : Disconnect(r) => pending[r].ask \in Unmetered]_vars
        => NobodyLeft'
  <2> SUFFICES ASSUME TypeOK, NobodyLeft, [Next]_vars,
                      [\A r \in DOMAIN pending :
                          Disconnect(r) => pending[r].ask \in Unmetered]_vars
               PROVE  NobodyLeft'
    OBVIOUS
  <2>1. CASE UNCHANGED vars
    BY <2>1 DEF vars, histories, NobodyLeft
  <2>2. CASE Clock
    BY <2>2 DEF Clock, histories, NobodyLeft
  <2>3. ASSUME NEW r \in Requests, NEW k \in Clients, NEW ask \in Asks, Arrive(r, k, ask)
        PROVE  NobodyLeft'
    <3>1. /\ \E stage : pending' = Extend(pending, r, [from |-> k, ask |-> ask,
                                                      stage |-> stage, gone |-> FALSE])
          /\ UNCHANGED lost
      BY <2>3 DEF Arrive, Bypass, Refuse, AnswerAtOnce, AskVento, Routed, Metered, Takes
    <3> QED BY <3>1 DEF Extend, NobodyLeft
  <2>4. ASSUME NEW r \in Requests, VentoEnds(r) PROVE NobodyLeft'
    <3>1. /\ r \in DOMAIN pending
          /\ pending' = [pending EXCEPT ![r].stage = "answered"]
          /\ UNCHANGED lost
      BY <2>4 DEF VentoEnds, Resumes, NobodyLeft
    <3>2. \A x \in DOMAIN pending' : pending'[x].gone = pending[x].gone
      BY <3>1 DEF TypeOK, Request
    <3> QED BY <3>1, <3>2 DEF NobodyLeft
  <2>5. ASSUME NEW r \in Requests, Finish(r) PROVE NobodyLeft'
    BY <2>5 DEF Finish, Flushes, histories, Drop, NobodyLeft
  <2>6. ASSUME NEW r \in Requests, Disconnect(r) PROVE NobodyLeft'
    <3>1. r \in DOMAIN pending
      BY <2>6 DEF Disconnect, Leaves
    <3>2. CASE pending[r].ask \in Unmetered
      <4>1. pending[r].stage # "waiting"
        BY <3>1, <3>2 DEF TypeOK, Unmetered, Upstream
      <4> QED BY <2>6, <3>2, <4>1 DEF Disconnect, Leaves, Drop, NobodyLeft
    <3> QED BY <2>1, <2>6, <3>1, <3>2
  <2> QED BY <2>1, <2>2, <2>3, <2>4, <2>5, <2>6 DEF Next
<1>3. Counting => TypeOK /\ BooksBalance
  BY DEF Counting
<1>4. NobodyLeft /\ Counting => GaugeIsInFlight
  <2> SUFFICES ASSUME NobodyLeft, Counting PROVE GaugeIsInFlight
    OBVIOUS
  <2>1. Cardinality(MeteredPending) \in Nat
    BY FinitelyMany DEF Counting, Slack
  <2> QED BY <2>1 DEF Counting, BooksBalance, NobodyLeft, GaugeIsInFlight
<1> QED BY <1>1, <1>2, <1>3, <1>4, GatewayCounting, PTL DEF Spec, PatientClients

-----------------------------------------------------------------------------
(* The load on Vento                                                       *)

(* An admission that is logged leaves the requests made to Vento within    *)
(* the log, and the admitted request may make one (index.ts).              *)
LEMMA StaysWithin ==
    ASSUME NEW part \in Seq(Nat), NEW log \in Seq(Nat), NEW t \in Nat, Within(part, log)
    PROVE  /\ Within(part, Append(log, t))
           /\ Within(Append(part, t), Append(log, t))
<1> DEFINE n == Len(part)
           m == Len(log)
<1>1. /\ n \in Nat /\ m \in Nat /\ DOMAIN part = 1..n /\ DOMAIN log = 1..m
      /\ DOMAIN Append(log, t) = 1..(m + 1) /\ DOMAIN Append(part, t) = 1..(n + 1)
      /\ \A i \in 1..n : Append(part, t)[i] = part[i]
      /\ \A i \in 1..m : Append(log, t)[i] = log[i]
      /\ Append(part, t)[n + 1] = t /\ Append(log, t)[m + 1] = t
  OBVIOUS
<1> HIDE DEF n, m
<1>2. PICK f \in [1..n -> 1..m] :
         \A i, j \in 1..n : part[i] = log[f[i]] /\ (i <= j => f[j] - f[i] >= j - i)
  BY <1>1 DEF Within
<1>3. Within(part, Append(log, t))
  <2>1. f \in [1..n -> 1..(m + 1)]
    BY <1>1
  <2>2. \A i \in 1..n : Append(log, t)[f[i]] = log[f[i]]
    BY <1>1, <1>2
  <2>3. \A i, j \in 1..n :
          part[i] = Append(log, t)[f[i]] /\ (i <= j => f[j] - f[i] >= j - i)
    BY <1>2, <2>2
  <2>4. DOMAIN part = 1..n /\ DOMAIN Append(log, t) = 1..(m + 1)
    BY <1>1
  <2> QED BY <2>1, <2>3, <2>4 DEF Within
<1>4. Within(Append(part, t), Append(log, t))
  <2> DEFINE g == [i \in 1..(n + 1) |-> IF i = n + 1 THEN m + 1 ELSE f[i]]
  <2>1. /\ g \in [1..(n + 1) -> 1..(m + 1)]
        /\ g[n + 1] = m + 1
        /\ \A i \in 1..n : g[i] = f[i] /\ f[i] \in 1..m
    BY <1>1
  <2> HIDE DEF g
  <2>2. \A i \in 1..n : m + 1 - f[i] >= n + 1 - i
    <3> SUFFICES ASSUME NEW i \in 1..n PROVE m + 1 - f[i] >= n + 1 - i
      OBVIOUS
    <3>1. n \in 1..n /\ i <= n
      BY <1>1
    <3>2. f[n] - f[i] >= n - i /\ f[n] \in 1..m /\ f[i] \in 1..m
      BY <1>2, <3>1
    <3> QED BY <1>1, <3>1, <3>2
  <2>3. ASSUME NEW i \in 1..(n + 1), NEW j \in 1..(n + 1)
        PROVE  /\ Append(part, t)[i] = Append(log, t)[g[i]]
               /\ i <= j => g[j] - g[i] >= j - i
    <3>1. CASE i \in 1..n /\ j \in 1..n
      BY <1>1, <1>2, <2>1, <3>1
    <3>2. CASE i \in 1..n /\ j = n + 1
      <4>1. Append(part, t)[i] = part[i] /\ part[i] = log[f[i]] /\ f[i] \in 1..m
        BY <1>1, <1>2, <2>1, <3>2
      <4>2. g[i] = f[i] /\ Append(log, t)[f[i]] = log[f[i]]
        BY <1>1, <2>1, <3>2, <4>1
      <4>3. g[j] - g[i] >= j - i
        <5>1. m + 1 - f[i] >= n + 1 - i
          BY <2>2, <3>2
        <5>2. g[j] = m + 1 /\ g[i] = f[i] /\ j = n + 1
          BY <2>1, <3>2, <4>2
        <5>3. m \in Nat /\ n \in Nat /\ i \in Nat /\ f[i] \in Nat
          BY <1>1, <3>2, <4>1
        <5> QED BY <5>1, <5>2, <5>3
      <4> QED BY <4>1, <4>2, <4>3
    <3>3. CASE i = n + 1
      <4>1. Append(part, t)[i] = Append(log, t)[g[i]]
        BY <1>1, <2>1, <3>3
      <4>2. i <= j => j = i
        BY <1>1, <3>3
      <4>3. g[i] - g[i] >= i - i
        BY <1>1, <2>1, <3>3
      <4> QED BY <4>1, <4>2, <4>3
    <3>4. (i \in 1..n \/ i = n + 1) /\ (j \in 1..n \/ j = n + 1)
      BY <1>1
    <3> QED BY <3>1, <3>2, <3>3, <3>4
  <2> QED BY <1>1, <2>1, <2>3 DEF Within
<1> QED BY <1>3, <1>4

(* A log stays in the order of time.                                       *)
LEMMA StaysSorted ==
    ASSUME NEW t \in Nat, NEW log \in Seq(0..t),
           \A i, j \in DOMAIN log : i <= j => log[i] <= log[j]
    PROVE  \A i, j \in DOMAIN Append(log, t) :
              i <= j => Append(log, t)[i] <= Append(log, t)[j]
<1> DEFINE m == Len(log)
<1>1. /\ m \in Nat /\ DOMAIN log = 1..m /\ DOMAIN Append(log, t) = 1..(m + 1)
      /\ \A i \in 1..m : Append(log, t)[i] = log[i] /\ log[i] \in 0..t
      /\ Append(log, t)[m + 1] = t
  OBVIOUS
<1> HIDE DEF m
<1> QED BY <1>1

(* A request to Vento is made in the step that admits the request it is    *)
(* made for (index.ts: nothing is awaited between the limiter and it).     *)
LEMMA CallsLogged ==
    ASSUME [Next]_vars
    PROVE  \/ UNCHANGED calls
           \/ /\ UNCHANGED now
              /\ \E k \in Clients :
                    /\ admitted' = [admitted EXCEPT ![k] = Append(@, now)]
                    /\ calls' = [calls EXCEPT ![k] = Append(@, now)]
<1>1. CASE Clock
  BY <1>1 DEF Clock, histories
<1>2. CASE UNCHANGED vars
  BY <1>2 DEF vars, histories
<1>3. ASSUME NEW r \in Requests, NEW k \in Clients, NEW ask \in Asks, Arrive(r, k, ask)
      PROVE  \/ UNCHANGED calls
             \/ /\ UNCHANGED now
                /\ admitted' = [admitted EXCEPT ![k] = Append(@, now)]
                /\ calls' = [calls EXCEPT ![k] = Append(@, now)]
  BY <1>3 DEF Arrive, Bypass, Refuse, AnswerAtOnce, AskVento, Routed,
              Limiter!Admit, Limiter!Admitted
<1>4. ASSUME NEW r \in Requests, VentoEnds(r) \/ Finish(r) \/ Disconnect(r)
      PROVE  UNCHANGED calls
  BY <1>4 DEF VentoEnds, Finish, Disconnect, Resumes, Flushes, Leaves, histories
<1> QED BY <1>1, <1>2, <1>3, <1>4 DEF Next

(* Every request to Vento is an admitted one (index.ts).                   *)
LEMMA GatewayCallsAreAdmitted == Spec => []CallsAreAdmitted
<1>1. Init => CallsAreAdmitted
  <2> SUFFICES ASSUME Init, NEW k \in Clients
               PROVE  /\ Within(calls[k], admitted[k])
                      /\ \A i, j \in DOMAIN admitted[k] :
                            i <= j => admitted[k][i] <= admitted[k][j]
    BY DEF CallsAreAdmitted
  <2>1. calls[k] = <<>> /\ admitted[k] = <<>>
    BY DEF Init, Limiter!Init
  <2>2. Within(<<>>, <<>>)
    <3>1. DOMAIN <<>> = {}
      OBVIOUS
    <3>2. [x \in {} |-> x] \in [DOMAIN <<>> -> DOMAIN <<>>]
      BY <3>1
    <3> QED BY <3>1, <3>2 DEF Within
  <2> QED BY <2>1, <2>2
<1>2. CallsAreAdmitted /\ TypeOK /\ LimiterFacts /\ LimiterFacts' /\ [Next]_vars
        => CallsAreAdmitted'
  <2> SUFFICES ASSUME CallsAreAdmitted, TypeOK, LimiterFacts, LimiterFacts', [Next]_vars,
                      NEW k \in Clients
               PROVE  /\ Within(calls'[k], admitted'[k])
                      /\ \A i, j \in DOMAIN admitted'[k] :
                            i <= j => admitted'[k][i] <= admitted'[k][j]
    BY DEF CallsAreAdmitted
  <2>1. /\ now \in Nat
        /\ admitted[k] \in Seq(0..now) /\ calls[k] \in Seq(0..now)
        /\ admitted[k] \in Seq(Nat) /\ calls[k] \in Seq(Nat)
    <3>1. now \in Nat /\ admitted[k] \in Seq(0..now) /\ calls[k] \in Seq(0..now)
      BY DEF LimiterFacts, TypeOK
    <3>2. 0..now \subseteq Nat
      OBVIOUS
    <3> QED BY <3>1, <3>2
  <2>2. /\ Within(calls[k], admitted[k])
        /\ \A i, j \in DOMAIN admitted[k] : i <= j => admitted[k][i] <= admitted[k][j]
    BY DEF CallsAreAdmitted
  <2>3. admitted'[k] = admitted[k] \/ admitted'[k] = Append(admitted[k], now)
    BY LimiterSteps, LimiterLogs DEF LimiterFacts
  <2>4. \/ calls'[k] = calls[k]
        \/ calls'[k] = Append(calls[k], now) /\ admitted'[k] = Append(admitted[k], now)
    BY CallsLogged DEF LimiterFacts, TypeOK
  <2>5. Within(calls'[k], admitted'[k])
    BY <2>1, <2>2, <2>3, <2>4, StaysWithin
  <2>6. \A i, j \in DOMAIN admitted'[k] : i <= j => admitted'[k][i] <= admitted'[k][j]
    BY <2>1, <2>2, <2>3, StaysSorted
  <2> QED BY <2>5, <2>6
<1> QED BY <1>1, <1>2, LimiterHolds, GatewayTypes, PTL DEF Spec

(* What is spaced in a log is spaced in a part of it.                      *)
LEMMA PartIsSpaced ==
    ASSUME NEW part, DOMAIN part \subseteq Nat,
           NEW log, NEW len \in Nat, DOMAIN log = 1..len, \A x \in 1..len : log[x] \in Nat,
           Within(part, log), NEW n \in Nat, NEW span \in Nat,
           \A x, y \in DOMAIN log : x <= y => log[x] <= log[y],
           \A x, y \in DOMAIN log : y = x + n => log[y] - log[x] >= span,
           NEW i \in DOMAIN part, NEW j \in DOMAIN part, j = i + n
    PROVE  part[j] - part[i] >= span
<1>1. i \in Nat /\ j \in Nat
  OBVIOUS
<1>2. PICK f \in [DOMAIN part -> DOMAIN log] :
         \A x, y \in DOMAIN part :
            part[x] = log[f[x]] /\ (x <= y => f[y] - f[x] >= y - x)
  BY DEF Within
<1>3. f[i] \in DOMAIN log /\ f[j] \in DOMAIN log /\ f[j] - f[i] >= n
  BY <1>1, <1>2
<1>4. f[i] + n \in DOMAIN log /\ f[i] + n <= f[j]
  BY <1>1, <1>3
<1>5. log[f[i] + n] - log[f[i]] >= span /\ log[f[i] + n] <= log[f[j]]
  BY <1>3, <1>4
<1> QED BY <1>1, <1>2, <1>3, <1>4, <1>5

(* Vento is shielded: 2 * limit + 1 requests made to it for one client     *)
(* span at least a minute, or a second (index.ts, rateLimit.ts).           *)
THEOREM GatewayShieldsVento == Spec => []UpstreamBounded
<1>1. CallsAreAdmitted /\ TypeOK /\ LimiterFacts => UpstreamBounded
  <2> SUFFICES ASSUME CallsAreAdmitted, TypeOK, LimiterFacts, NEW k \in Clients,
                      NEW i \in DOMAIN calls[k], NEW j \in DOMAIN calls[k]
               PROVE  /\ j = i + 2 * MinuteLimit => calls[k][j] - calls[k][i] >= Minute
                      /\ j = i + 2 * BurstLimit  => calls[k][j] - calls[k][i] >= Second
    BY DEF UpstreamBounded
  <2> DEFINE log == admitted[k]
             part == calls[k]
             m == 2 * MinuteLimit
             b == 2 * BurstLimit
  <2>1. m \in Nat /\ b \in Nat /\ Minute \in Nat /\ Second \in Nat
    BY GatewayAssumption
  <2>2. /\ DOMAIN part \subseteq Nat
        /\ Len(log) \in Nat /\ DOMAIN log = 1..Len(log)
        /\ \A x \in 1..Len(log) : log[x] \in Nat
    BY DEF LimiterFacts, TypeOK
  <2>3. Within(part, log) /\ \A x, y \in DOMAIN log : x <= y => log[x] <= log[y]
    BY DEF CallsAreAdmitted
  <2>4. /\ \A x, y \in DOMAIN log : y = x + m => log[y] - log[x] >= Minute
        /\ \A x, y \in DOMAIN log : y = x + b => log[y] - log[x] >= Second
    BY DEF LimiterFacts, Proved!MinuteBound, Proved!BurstBound, Proved!Times
  <2> HIDE DEF log, part, m, b
  <2>5. i \in DOMAIN part /\ j \in DOMAIN part
    BY DEF part
  <2>6. j = i + m => part[j] - part[i] >= Minute
    BY <2>1, <2>2, <2>3, <2>4, <2>5, PartIsSpaced
  <2>7. j = i + b => part[j] - part[i] >= Second
    BY <2>1, <2>2, <2>3, <2>4, <2>5, PartIsSpaced
  <2> QED BY <2>6, <2>7 DEF part, m, b
<1> QED BY <1>1, GatewayCallsAreAdmitted, LimiterHolds, GatewayTypes, PTL

=============================================================================
