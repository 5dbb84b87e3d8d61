--------------------------- MODULE ConnectorProofs ---------------------------
(* Connector for all clients, boards, policies and numbers of requests:    *)
(* its two halves are Gateway and VentoClient, and clients read the        *)
(* actions that returned before they asked.                                *)
EXTENDS Connector, TLAPS

Cli == INSTANCE VentoClientProofs WITH Readers <- Requests, Actors <- Requests
Gate == INSTANCE GatewayProofs

-----------------------------------------------------------------------------
(* The halves                                                              *)

(* What a call of a tool comes to is a kind of request that Gateway knows. *)
LEMMA FatesAreAsks ==
    /\ Server!Refusable \subseteq Server!Asks
    /\ {"read", "action", "health", "local"} \subseteq Server!Asks
    /\ Routes \subseteq Server!Asks
  BY ConnectorAssumption
     DEF Server!Refusable, Server!Asks, Server!Unmetered, Server!AtOnce, Server!Upstream

(* A handler asks its Vento client for something it can be asked for.      *)
LEMMA ReadingsAreQueries ==
    ASSUME NEW tool, NEW b \in Boards
    PROVE  Reading(tool, b) \in Vento!Queries
  BY DEF Reading, Vento!Queries

(* Every step of the connector is a step of the server, or leaves it alone *)
(* (index.ts, execute.ts).                                                 *)
LEMMA ServerSteps == [Next]_vars => [Server!Next]_(Server!vars)
<1> SUFFICES ASSUME [Next]_vars PROVE [Server!Next]_(Server!vars)
  OBVIOUS
<1> USE FatesAreAsks
<1>1. ASSUME NEW r \in Requests, NEW k \in Clients, Pass(r, k) PROVE Server!Next
  BY <1>1 DEF Pass, Server!Next, Server!Arrive
<1>2. ASSUME NEW r \in Requests, NEW k \in Clients, CheckHealth(r, k) PROVE Server!Next
  BY <1>2 DEF CheckHealth, Server!Next, Server!Arrive
<1>3. ASSUME NEW r \in Requests, NEW k \in Clients, NEW tool, NEW instance, NEW b,
             CallTool(r, k, tool, instance, b)
      PROVE  Server!Next
  <2> DEFINE fate == Fate(policy, {}, tool, instance)
  <2>1. \E ask \in Server!Asks : Server!AnswerAtOnce(r, k, ask) \/ Server!AskVento(r, k, ask)
    <3>1. CASE RefuseTool(r, k, fate)
      BY <3>1 DEF RefuseTool
    <3>2. CASE ReadFromCache(r, k, fate, Reading(tool, b))
      BY <3>2 DEF ReadFromCache
    <3>3. CASE ReadFromVento(r, k, fate, tool, Reading(tool, b))
      BY <3>3 DEF ReadFromVento
    <3>4. CASE RunAction(r, k, fate, tool, b)
      BY <3>4 DEF RunAction
    <3> QED BY <1>3, <3>1, <3>2, <3>3, <3>4 DEF CallTool
  <2> QED BY <2>1 DEF Server!Next, Server!Arrive
<1>4. ASSUME NEW r \in Requests, Proceed(r) PROVE Server!Next
  <2>1. Server!VentoEnds(r) \/ Server!Finish(r) \/ Server!Disconnect(r)
    BY <1>4, Zenon DEF Proceed, ReadSucceeds, ActionSucceeds, Fail, Fails, Closes,
                       Finish, Disconnect
  <2> QED BY <2>1 DEF Server!Next
<1>5. CASE AtVento
  <2>1. UNCHANGED now
    BY <1>5, Zenon DEF AtVento, Vento!VentoAnswers, Vento!VentoRuns, Vento!VentoDeclines,
                Vento!BoardChanges
  <2> QED BY <1>5, <2>1 DEF AtVento, server, Server!vars, Server!limiter,
                            Server!counters, Server!histories
<1>6. CASE Time
  BY <1>6 DEF Time, Server!Next
<1>7. CASE UNCHANGED vars
  BY <1>7 DEF vars, server, Server!vars, Server!limiter, Server!counters, Server!histories
<1> QED BY <1>1, <1>2, <1>3, <1>4, <1>5, <1>6, <1>7 DEF Next, Arrive

(* A request that asks nothing of Vento takes no time.                     *)
LEMMA AnsweringIsPrompt ==
    ASSUME NEW r, NEW k, NEW ask,
           \/ Server!Bypass(r, k, ask) \/ Server!Refuse(r, k, ask)
           \/ Server!AnswerAtOnce(r, k, ask)
    PROVE  UNCHANGED now
<1>1. CASE Server!Bypass(r, k, ask)
  BY <1>1 DEF Server!Bypass, Server!limiter
<1>2. CASE Server!Refuse(r, k, ask)
  BY <1>2, Zenon DEF Server!Refuse, Server!Limiter!RefuseBurst,
                     Server!Limiter!RefuseMinute, Server!Limiter!Refuse
<1>3. CASE Server!AnswerAtOnce(r, k, ask)
  BY <1>3, Zenon DEF Server!AnswerAtOnce, Server!Routed, Server!Limiter!Admit,
                     Server!Limiter!Admitted
<1> QED BY <1>1, <1>2, <1>3

(* Every step of the connector is a step of the Vento client, or leaves it *)
(* alone (client.ts; the handlers call it once each).                      *)
LEMMA VentoSteps == [Next]_vars => [Vento!Next]_(Vento!vars)
<1> SUFFICES ASSUME [Next]_vars PROVE [Vento!Next]_(Vento!vars)
  OBVIOUS
<1>1. ASSUME NEW r \in Requests, NEW k \in Clients, Pass(r, k)
      PROVE  UNCHANGED Vento!vars
  <2>1. UNCHANGED now /\ UNCHANGED vento
    BY <1>1, AnsweringIsPrompt DEF Pass
  <2> QED BY <2>1 DEF vento, Vento!vars
<1>2. ASSUME NEW r \in Requests, NEW k \in Clients, CheckHealth(r, k) PROVE Vento!Next
  <2>1. [call |-> "uncached"] \in Vento!Queries
    BY DEF Vento!Queries
  <2> QED BY <1>2, <2>1 DEF CheckHealth, Vento!Next, Vento!Read
<1>3. ASSUME NEW r \in Requests, NEW k \in Clients, NEW tool, NEW instance,
             NEW b \in Boards, CallTool(r, k, tool, instance, b)
      PROVE  [Vento!Next]_(Vento!vars)
  <2> DEFINE fate == Fate(policy, {}, tool, instance)
             q == Reading(tool, b)
  <2>0. q \in Vento!Queries
    BY ReadingsAreQueries
  <2> HIDE DEF fate, q
  <2>1. CASE RefuseTool(r, k, fate)
    BY <2>1, AnsweringIsPrompt DEF RefuseTool, vento, Vento!vars
  <2>2. CASE ReadFromCache(r, k, fate, q)
    BY <2>0, <2>2 DEF ReadFromCache, Vento!Next, Vento!Read
  <2>3. CASE ReadFromVento(r, k, fate, tool, q)
    BY <2>0, <2>3 DEF ReadFromVento, Vento!Next, Vento!Read
  <2>4. CASE RunAction(r, k, fate, tool, b)
    BY <2>4 DEF RunAction, Vento!Next, Vento!Action
  <2> QED BY <1>3, <2>1, <2>2, <2>3, <2>4 DEF CallTool, fate, q
<1>4. ASSUME NEW r \in Requests, ReadSucceeds(r) \/ ActionSucceeds(r) \/ Fail(r)
      PROVE  Vento!Next
  BY <1>4 DEF ReadSucceeds, ActionSucceeds, Fail, Vento!Next, Vento!Read, Vento!Action
<1>5. ASSUME NEW r \in Requests, Finish(r) \/ Disconnect(r)
      PROVE  UNCHANGED Vento!vars
  <2>1. UNCHANGED now /\ UNCHANGED vento
    BY <1>5 DEF Finish, Disconnect, Server!Finish, Server!Flushes,
                Server!Disconnect, Server!Leaves, Server!limiter
  <2> QED BY <2>1 DEF vento, Vento!vars
<1>6. CASE AtVento
  BY <1>6 DEF AtVento, Vento!Next, Vento!Read, Vento!Action
<1>7. CASE Time
  BY <1>7 DEF Time, Vento!Next, vento, Vento!vars
<1>8. CASE UNCHANGED vars
  BY <1>8 DEF vars, vento, Vento!vars
<1> QED BY <1>1, <1>2, <1>3, <1>4, <1>5, <1>6, <1>7, <1>8 DEF Next, Arrive, Proceed

(* Whatever Gateway and VentoClient never do, the connector never does.    *)
THEOREM ConnectorServes == Spec => Server!Spec /\ Vento!Spec
<1>1. Init => Server!Init /\ Vento!Init
  BY DEF Init
<1> QED BY <1>1, ServerSteps, VentoSteps, PTL DEF Spec, Server!Spec, Vento!Spec

-----------------------------------------------------------------------------
(* What is proved of the Vento client holds of the connector's             *)

LEMMA SameClient == Vento!Spec => Cli!Spec
<1>1. Vento!Init => Cli!Init
  BY DEF Vento!Init, Cli!Init, Vento!EmptyMap, Cli!EmptyMap
<1>2. [Vento!Next]_(Vento!vars) => [Cli!Next]_(Cli!vars)
  <2> SUFFICES ASSUME Vento!Next PROVE Cli!Next
    BY DEF Vento!vars, Cli!vars
  <2>1. ASSUME NEW r \in Requests, Vento!Read(r) PROVE Cli!Read(r)
    BY <2>1, Zenon
       DEF Vento!Read, Cli!Read, Vento!ServeFromCache, Cli!ServeFromCache,
           Vento!AskVento, Cli!AskVento, Vento!VentoAnswers, Cli!VentoAnswers,
           Vento!ReadReturns, Cli!ReadReturns,
           Vento!ReadThrows, Cli!ReadThrows, Vento!Queries, Cli!Queries,
           Vento!Cached, Cli!Cached, Vento!Key, Cli!Key,
           Vento!ListKey, Cli!ListKey, Vento!Covers, Cli!Covers,
           Vento!Hit, Cli!Hit, Vento!LiveAt, Cli!LiveAt, Vento!Put, Cli!Put,
           Vento!MakeRoom, Cli!MakeRoom, Vento!Oldest, Cli!Oldest, Vento!Cardinality, Cli!Cardinality,
           Vento!AfterGet, Cli!AfterGet, Vento!Without, Cli!Without,
           Vento!Extend, Cli!Extend, Vento!Drop, Cli!Drop,
           Vento!vars, Cli!vars
  <2>2. ASSUME NEW a \in Requests, Vento!Action(a) PROVE Cli!Action(a)
    BY <2>2, Zenon
       DEF Vento!Action, Cli!Action, Vento!StartAction, Cli!StartAction,
           Vento!VentoRuns, Cli!VentoRuns,
           Vento!VentoDeclines, Cli!VentoDeclines,
           Vento!ActionReturns, Cli!ActionReturns,
           Vento!ActionThrows, Cli!ActionThrows,
           Vento!Invalidated, Cli!Invalidated, Vento!ListKey, Cli!ListKey,
           Vento!Cross, Cli!Cross, Vento!Later, Cli!Later,
           Vento!Without, Cli!Without, Vento!Extend, Cli!Extend,
           Vento!Drop, Cli!Drop
  <2>3. ASSUME NEW b \in Boards, Vento!BoardChanges(b) PROVE Cli!BoardChanges(b)
    BY <2>3, Zenon DEF Vento!BoardChanges, Cli!BoardChanges
  <2>4. CASE Vento!Tick
    BY <2>4, Zenon DEF Vento!Tick, Cli!Tick, Vento!Deadline, Cli!Deadline, Cli!Next
  <2> QED BY <2>1, <2>2, <2>3, <2>4 DEF Vento!Next, Cli!Next
<1> QED BY <1>1, <1>2, PTL DEF Vento!Spec, Cli!Spec

LEMMA SameAssumptions == Cli!BoardsAssumption /\ Cli!BoundsAssumption
  BY ConnectorAssumption, Zenon
     DEF Cli!BoardsAssumption, Cli!BoundsAssumption, Vento!BoardsAssumption,
         Vento!BoundsAssumption, Cli!Keys, Vento!Keys, Cli!ListKey, Vento!ListKey,
         Cli!IsFiniteSet, Vento!IsFiniteSet

LEMMA ClientHolds == Spec => []Vento!Inductive
<1>1. Cli!Spec => []Cli!Inductive
  BY SameAssumptions, Cli!InductiveAlways
<1>2. Cli!Inductive => Vento!Inductive
  BY Zenon
     DEF Cli!Inductive, Vento!Inductive, Cli!TypeOK, Vento!TypeOK,
           Cli!CacheTypeOK, Vento!CacheTypeOK,
           Cli!ReadsTypeOK, Vento!ReadsTypeOK,
           Cli!ActsTypeOK, Vento!ActsTypeOK,
           Cli!VersionsTypeOK, Vento!VersionsTypeOK, Cli!OnTime, Vento!OnTime,
           Cli!Filed, Vento!Filed, Cli!Seen, Vento!Seen,
           Cli!Queries, Vento!Queries, Cli!Cached, Vento!Cached,
           Cli!Key, Vento!Key, Cli!ListKey, Vento!ListKey,
           Cli!Keys, Vento!Keys, Cli!Covers, Vento!Covers,
           Cli!Replies, Vento!Replies, Cli!Deadline, Vento!Deadline,
           Cli!Shows, Vento!Shows
<1> QED BY <1>1, <1>2, ConnectorServes, SameClient, PTL

-----------------------------------------------------------------------------
(* What the server's steps do to the requests in flight                    *)

Shaped == \A r \in DOMAIN pending : pending[r] \in Server!Request

Came(r, ask, stage) ==
    /\ r \notin DOMAIN pending /\ DOMAIN pending' = DOMAIN pending \cup {r}
    /\ pending'[r] \in Server!Request
    /\ pending'[r].ask = ask /\ pending'[r].stage = stage
    /\ \A x \in DOMAIN pending : pending'[x] = pending[x]

Others(r) == \A x \in DOMAIN pending : x # r => x \in DOMAIN pending' /\ pending'[x] = pending[x]

Resumed(r) ==
    /\ r \in Waiting
    /\ DOMAIN pending' \subseteq DOMAIN pending
    /\ r \in DOMAIN pending' =>
         /\ pending'[r] \in Server!Request
         /\ pending'[r].stage = "answered" /\ pending'[r].ask = pending[r].ask
    /\ ~ pending[r].gone => r \in DOMAIN pending'
    /\ Others(r)

Left(r) ==
    /\ DOMAIN pending' \subseteq DOMAIN pending
    /\ r \in Waiting =>
         /\ r \in DOMAIN pending' /\ pending'[r] \in Server!Request
         /\ pending'[r].stage = "waiting" /\ pending'[r].ask = pending[r].ask
    /\ r \notin Waiting => r \notin DOMAIN pending'
    /\ Others(r)

LEMMA Entering ==
    ASSUME NEW r, NEW k \in Clients, NEW ask \in Server!Asks,
           NEW stage \in {"waiting", "answered"}, Server!Takes(r, k, ask, stage)
    PROVE  Came(r, ask, stage)
<1> DEFINE new == [from |-> k, ask |-> ask, stage |-> stage, gone |-> FALSE]
<1>1. new \in Server!Request
  BY DEF Server!Request
<1>2. new.ask = ask /\ new.stage = stage
  OBVIOUS
<1> HIDE DEF new
<1>3. r \notin DOMAIN pending /\ pending' = Server!Extend(pending, r, new)
  BY DEF Server!Takes, new
<1> QED BY <1>1, <1>2, <1>3 DEF Server!Extend, Came

LEMMA Answering ==
    ASSUME NEW r, NEW k \in Clients, NEW ask \in Server!Asks,
           \/ Server!Bypass(r, k, ask) \/ Server!Refuse(r, k, ask)
           \/ Server!AnswerAtOnce(r, k, ask)
    PROVE  Came(r, ask, "answered")
<1>1. Server!Takes(r, k, ask, "answered")
  BY Zenon DEF Server!Bypass, Server!Refuse, Server!AnswerAtOnce, Server!Routed, Server!Metered
<1> QED BY <1>1, Entering

LEMMA Asking ==
    ASSUME NEW r, NEW k \in Clients, NEW ask \in Server!Asks, Server!AskVento(r, k, ask)
    PROVE  Came(r, ask, "waiting")
<1>1. Server!Takes(r, k, ask, "waiting")
  BY Zenon DEF Server!AskVento, Server!Routed, Server!Metered
<1> QED BY <1>1, Entering

LEMMA Resuming ==
    ASSUME NEW r, Shaped, Server!VentoEnds(r)
    PROVE  Resumed(r)
<1>1. Server!Resumes(r)
  BY DEF Server!VentoEnds
<1>2. r \in Waiting /\ pending[r] \in Server!Request
  BY <1>1 DEF Server!Resumes, Waiting, Shaped
<1>3. CASE pending[r].gone
  BY <1>1, <1>2, <1>3 DEF Server!Resumes, Server!Drop, Resumed, Others
<1>4. CASE ~ pending[r].gone
  BY <1>1, <1>2, <1>4 DEF Server!Resumes, Server!Request, Resumed, Others
<1> QED BY <1>3, <1>4

LEMMA Leaving ==
    ASSUME NEW r, Shaped, Server!Finish(r) \/ Server!Disconnect(r)
    PROVE  Left(r)
<1>1. CASE Server!Finish(r)
  BY <1>1 DEF Server!Finish, Server!Flushes, Server!Drop, Left, Others, Waiting
<1>2. CASE Server!Disconnect(r)
  <2>1. Server!Leaves(r) /\ r \in DOMAIN pending /\ pending[r] \in Server!Request
    BY <1>2 DEF Server!Disconnect, Server!Leaves, Shaped
  <2>2. CASE pending[r].stage = "waiting"
    <3>1. pending' = [pending EXCEPT ![r].gone = TRUE]
      BY <2>1, <2>2 DEF Server!Leaves
    <3>2. DOMAIN pending' = DOMAIN pending /\ Others(r)
      BY <2>1, <3>1 DEF Others
    <3>3. /\ pending'[r] = [pending[r] EXCEPT !.gone = TRUE]
          /\ pending'[r] \in Server!Request
          /\ pending'[r].stage = "waiting" /\ pending'[r].ask = pending[r].ask
      BY <2>1, <2>2, <3>1 DEF Server!Request
    <3> QED BY <2>1, <2>2, <3>2, <3>3 DEF Left, Waiting
  <2>3. CASE pending[r].stage # "waiting"
    BY <2>1, <2>3 DEF Server!Leaves, Server!Drop, Left, Others, Waiting
  <2> QED BY <2>2, <2>3
<1> QED BY <1>1, <1>2

(* Who waits after a step of the server.                                   *)
LEMMA WaitingAfter ==
    ASSUME Shaped, NEW r, NEW ask
    PROVE  /\ Came(r, ask, "answered") => Waiting' = Waiting /\ Shaped'
           /\ Came(r, ask, "waiting") =>
                r \notin Waiting /\ Waiting' = Waiting \cup {r} /\ Shaped'
           /\ Resumed(r) => Waiting' = Waiting \ {r} /\ Shaped'
           /\ Left(r) => Waiting' = Waiting /\ Shaped'
  BY DEF Shaped, Came, Resumed, Left, Others, Waiting

-----------------------------------------------------------------------------
(* What the connector's invariant needs of the Vento client                *)

VentoFacts ==
    /\ MaxVersion \in Nat
    /\ version \in [Boards -> 0..MaxVersion] /\ acked \in [Boards -> 0..MaxVersion]
    /\ \A b \in Boards : acked[b] <= version[b]
    /\ DOMAIN replies \subseteq DOMAIN reads /\ DOMAIN results \subseteq DOMAIN acts
    /\ \A r \in DOMAIN replies :
         /\ DOMAIN replies[r].seen \subseteq Boards
         /\ \A b \in DOMAIN replies[r].seen : replies[r].seen[b] \in Nat
    /\ \A a \in DOMAIN acts : acts[a].board \in Boards
    /\ \A a \in DOMAIN results : results[a] \in 0..MaxVersion
    /\ \A k \in DOMAIN cache :
          cache[k].value.crossed \/ Vento!Shows(cache[k].value, acked)

LEMMA CoversBoards ==
    ASSUME NEW q \in Vento!Queries PROVE Vento!Covers(q) \subseteq Boards
  BY DEF Vento!Queries, Vento!Covers

LEMMA VentoHasFacts == Vento!Inductive => VentoFacts
<1> SUFFICES ASSUME Vento!Inductive PROVE VentoFacts
  OBVIOUS
<1>1. MaxVersion \in Nat
  BY ConnectorAssumption DEF Vento!BoundsAssumption
<1>2. /\ Vento!ReadsTypeOK /\ Vento!ActsTypeOK /\ Vento!VersionsTypeOK /\ Vento!Seen
  BY DEF Vento!Inductive, Vento!TypeOK
<1>3. ASSUME NEW r \in DOMAIN replies
      PROVE  /\ DOMAIN replies[r].seen \subseteq Boards
             /\ \A b \in DOMAIN replies[r].seen : replies[r].seen[b] \in Nat
  <2> DEFINE q == reads[r].of
  <2>1. q \in Vento!Queries /\ replies[r] \in Vento!Replies(q)
    BY <1>2, <1>3 DEF Vento!ReadsTypeOK
  <2>2. replies[r].seen \in [Vento!Covers(q) -> 0..MaxVersion]
    BY <2>1 DEF Vento!Replies
  <2> QED BY <1>1, <2>1, <2>2, CoversBoards
<1> QED BY <1>1, <1>2, <1>3
        DEF VentoFacts, Vento!ReadsTypeOK, Vento!ActsTypeOK, Vento!VersionsTypeOK, Vento!Seen

-----------------------------------------------------------------------------
(* The invariant, action by action                                         *)

Own == Shaped /\ Inductive

Readings == 
    \A r \in DOMAIN answers :
        r \in DOMAIN pending /\ pending[r].stage = "answered" /\ pending[r].ask = "read"

LEMMA InitOwn == Init => Own
<1> SUFFICES ASSUME Init PROVE Own
  OBVIOUS
<1>1. pending = Server!EmptyMap /\ reads = Vento!EmptyMap /\ acts = Vento!EmptyMap
      /\ replies = Vento!EmptyMap
  BY DEF Init, Server!Init, Vento!Init
<1> QED BY <1>1 DEF Init, Server!EmptyMap, Vento!EmptyMap, EmptyMap, Own, Shaped,
             Inductive, TypeOK, Traced, ReadYourActions, Lawful, Waiting

(* A step of the server that no call of the Vento client begins or ends    *)
(* with.                                                                   *)
LEMMA QuietPreserves ==
    ASSUME Own, Shaped', Waiting' = Waiting, UNCHANGED <<vento, policy, jobs>>,
           \A x \in Waiting : pending'[x].ask = pending[x].ask,
           Readings', ReadYourActions'
    PROVE  Own'
<1>1. UNCHANGED <<reads, acts, replies, acked>>
  BY DEF vento
<1>2. TypeOK /\ Traced /\ Lawful
  BY DEF Own, Inductive
<1>3. TypeOK'
  BY <1>1, <1>2 DEF TypeOK, Readings
<1>4. Traced' /\ Lawful'
  BY <1>1, <1>2 DEF Traced, Lawful, Vento!Shows
<1> QED BY <1>3, <1>4 DEF Own, Inductive

(* A request answered at once, not by a read.                              *)
LEMMA PassPreserves ==
    ASSUME Own, NEW r \in Requests, NEW k \in Clients, NEW ask \in Server!Asks,
           \/ Server!Bypass(r, k, ask) \/ Server!Refuse(r, k, ask)
           \/ Server!AnswerAtOnce(r, k, ask),
           UNCHANGED <<vento, between>>
    PROVE  Own'
<1>1. Shaped /\ TypeOK /\ ReadYourActions /\ UNCHANGED <<policy, jobs, answers>>
  BY DEF Own, Inductive, between
<1>2. Came(r, ask, "answered")
  BY Answering
<1>3. Waiting' = Waiting /\ Shaped'
  BY <1>1, <1>2, WaitingAfter
<1>4. \A x \in Waiting : pending'[x].ask = pending[x].ask
  BY <1>2 DEF Came, Waiting
<1>5. Readings' /\ ReadYourActions'
  BY <1>1, <1>2 DEF TypeOK, Readings, Came, ReadYourActions, Vento!Shows
<1> QED BY <1>1, <1>3, <1>4, <1>5, QuietPreserves

LEMMA HitPreserves ==
    ASSUME Own, VentoFacts, NEW r \in Requests, NEW k \in Clients,
           NEW q \in Vento!Queries, NEW fate, ReadFromCache(r, k, fate, q)
    PROVE  Own'
<1> DEFINE key == Vento!Key(q)
<1>1. Shaped /\ TypeOK /\ ReadYourActions /\ UNCHANGED <<policy, jobs>>
  BY DEF Own, Inductive, ReadFromCache
<1>2. /\ Vento!Hit(q) /\ UNCHANGED vento
      /\ Server!AnswerAtOnce(r, k, "read")
      /\ answers' = Extend(answers, r, Answer(cache[key].value, acked, TRUE))
  BY DEF ReadFromCache, Vento!ServeFromCache, Vento!vars, vento
<1>3. Came(r, "read", "answered")
  BY <1>2, Answering, FatesAreAsks
<1>4. Waiting' = Waiting /\ Shaped'
  BY <1>1, <1>3, WaitingAfter
<1>5. \A x \in Waiting : pending'[x].ask = pending[x].ask
  BY <1>3 DEF Came, Waiting
<1>6. /\ DOMAIN answers' = DOMAIN answers \cup {r}
      /\ answers'[r] = Answer(cache[key].value, acked, TRUE)
      /\ \A x \in DOMAIN answers : x # r => answers'[x] = answers[x]
  BY <1>2 DEF Extend
<1>7. Readings'
  BY <1>1, <1>3, <1>6 DEF TypeOK, Readings, Came
<1>8. key \in DOMAIN cache
  BY <1>2 DEF Vento!Hit, Vento!LiveAt
<1>9. cache[key].value.crossed \/ Vento!Shows(cache[key].value, acked)
  BY <1>8 DEF VentoFacts
<1>10. ReadYourActions'
  BY <1>1, <1>6, <1>9 DEF ReadYourActions, Answer, Vento!Shows
<1> QED BY <1>1, <1>2, <1>4, <1>5, <1>7, <1>10, QuietPreserves

LEMMA LeavePreserves ==
    ASSUME Own, NEW r \in Requests, Finish(r) \/ Disconnect(r)
    PROVE  Own'
<1>1. Shaped /\ TypeOK /\ ReadYourActions
  BY DEF Own, Inductive
<1>2. /\ Server!Finish(r) \/ Server!Disconnect(r)
      /\ answers' = Drop(answers, r) /\ UNCHANGED <<vento, policy, jobs>>
  BY DEF Finish, Disconnect
<1>3. Left(r)
  BY <1>1, <1>2, Leaving
<1>4. Waiting' = Waiting /\ Shaped'
  BY <1>1, <1>3, WaitingAfter
<1>5. \A x \in Waiting : pending'[x].ask = pending[x].ask
  BY <1>3 DEF Left, Others, Waiting
<1>6. Readings'
  BY <1>1, <1>2, <1>3 DEF TypeOK, Readings, Left, Others, Drop
<1>7. ReadYourActions'
  BY <1>1, <1>2 DEF ReadYourActions, Drop, Vento!Shows
<1> QED BY <1>2, <1>4, <1>5, <1>6, <1>7, QuietPreserves

-----------------------------------------------------------------------------
(* A call of the Vento client begins or ends                               *)

(* Where a call of a tool reads from Vento or has it run an action, the    *)
(* policy allows the tool, and it is a "read" exactly if the cache keeps   *)
(* the reply (execute.ts, permissions.ts).                                 *)
LEMMA FateIsLawful ==
    ASSUME NEW tool, NEW instance, NEW b,
           Fate(policy, {}, tool, instance) \in {"read", "action"}
    PROVE  /\ IsToolAllowed(policy, tool)
           /\ Vento!Cached(Reading(tool, b)) <=> Fate(policy, {}, tool, instance) = "read"
<1>1. tool \in Tools /\ IsToolAllowed(policy, tool)
  BY DEF Fate
<1>2. Fate(policy, {}, tool, instance) =
        IF tool \in {"vento_list_boards", "vento_get_board"} THEN "read" ELSE "action"
  BY <1>1 DEF Fate
<1> QED BY <1>1, <1>2 DEF Reading, Vento!Cached

(* A request waits for a read or for an action that starts for it.         *)
LEMMA FetchPreserves ==
    ASSUME Own, VentoFacts, NEW r \in Requests, NEW ask, NEW call,
           NEW tool \in ToolNames \cup {Probe}, tool = Probe \/ IsToolAllowed(policy, tool),
           Came(r, ask, "waiting"), Fetch(r, tool), UNCHANGED <<replies, acked>>,
           \/ /\ reads' = Extend(reads, r, call) /\ UNCHANGED acts
              /\ Vento!Cached(call.of) <=> ask = "read"
           \/ /\ acts' = Extend(acts, r, call) /\ UNCHANGED reads
              /\ tool = "vento_run_action"
    PROVE  Own'
<1>1. Shaped /\ TypeOK /\ Traced /\ ReadYourActions /\ Lawful
  BY DEF Own, Inductive
<1>2. r \notin Waiting /\ Waiting' = Waiting \cup {r} /\ Shaped'
  BY <1>1, WaitingAfter
<1>3. /\ UNCHANGED <<policy, answers>>
      /\ DOMAIN jobs' = DOMAIN jobs \cup {r} /\ jobs'[r] = [tool |-> tool, since |-> acked]
      /\ \A x \in DOMAIN jobs : jobs'[x] = jobs[x]
  BY <1>1, <1>2 DEF Fetch, Extend, TypeOK
<1>4. r \notin DOMAIN reads /\ r \notin DOMAIN acts /\ r \notin DOMAIN replies
  BY <1>1, <1>2 DEF TypeOK, VentoFacts
<1>5. TypeOK'
  <2>1. DOMAIN jobs' = Waiting'
    BY <1>1, <1>2, <1>3 DEF TypeOK
  <2>2. /\ DOMAIN jobs' = DOMAIN reads' \cup DOMAIN acts'
        /\ DOMAIN reads' \cap DOMAIN acts' = {}
    BY <1>1, <1>3, <1>4 DEF TypeOK, Extend
  <2>3. ASSUME NEW x \in DOMAIN reads'
        PROVE  Vento!Cached(reads'[x].of) <=> pending'[x].ask = "read"
    <3>1. CASE x \in DOMAIN reads
      <4>1. reads'[x] = reads[x] /\ x \in DOMAIN pending
        BY <1>1, <1>4, <3>1 DEF Extend, TypeOK, Waiting
      <4> QED BY <1>1, <3>1, <4>1 DEF TypeOK, Came, Vento!Cached
    <3>2. CASE x \notin DOMAIN reads
      BY <2>3, <3>2 DEF Extend, Came, Vento!Cached
    <3> QED BY <3>1, <3>2
  <2>4. \A x \in DOMAIN jobs' : /\ jobs'[x].tool \in ToolNames \cup {Probe}
                                /\ jobs'[x].since \in [Boards -> 0..MaxVersion]
    BY <1>1, <1>3 DEF TypeOK, VentoFacts
  <2>5. Readings'
    BY <1>1, <1>3 DEF TypeOK, Readings, Came
  <2>6. policy' \in Policies
    BY <1>1, <1>3 DEF TypeOK
  <2> QED BY <2>1, <2>2, <2>3, <2>4, <2>5, <2>6, Zenon DEF TypeOK, Readings, Vento!Cached
<1>6. Traced'
  <2>1. \A x \in DOMAIN jobs' : \A b \in Boards : jobs'[x].since[b] <= acked'[b]
    BY <1>1, <1>3 DEF Traced, VentoFacts
  <2>2. \A x \in DOMAIN replies' : Vento!Shows(replies'[x], jobs'[x].since)
    BY <1>1, <1>3, <1>4 DEF Traced, TypeOK, VentoFacts, Vento!Shows
  <2> QED BY <2>1, <2>2 DEF Traced, Vento!Shows
<1>7. ReadYourActions'
  BY <1>1, <1>3 DEF ReadYourActions, Vento!Shows
<1>8. Lawful'
  <2>1. \A x \in DOMAIN acts' : jobs'[x].tool = "vento_run_action"
    BY <1>1, <1>3, <1>4 DEF Lawful, Extend, TypeOK
  <2>2. \A x \in DOMAIN jobs' : jobs'[x].tool = Probe \/ IsToolAllowed(policy', jobs'[x].tool)
    BY <1>1, <1>3 DEF Lawful
  <2> QED BY <2>1, <2>2 DEF Lawful
<1> QED BY <1>2, <1>5, <1>6, <1>7, <1>8 DEF Own, Inductive

(* A request no longer waits, for its call of the Vento client is over.    *)
LEMMA ClosePreserves ==
    ASSUME Own, VentoFacts, VentoFacts', NEW r \in Requests, Closes(r),
           \/ reads' = Drop(reads, r) /\ UNCHANGED acts
           \/ acts' = Drop(acts, r) /\ UNCHANGED reads,
           r \in DOMAIN reads => r \notin DOMAIN reads',
           r \in DOMAIN acts => r \notin DOMAIN acts',
           DOMAIN replies' \subseteq DOMAIN replies,
           \A x \in DOMAIN replies' : replies'[x].seen = replies[x].seen,
           \A b \in Boards : acked[b] <= acked'[b],
           Readings', ReadYourActions'
    PROVE  Own'
<1>1. Shaped /\ TypeOK /\ Traced /\ Lawful
  BY DEF Own, Inductive
<1>2. Resumed(r)
  BY <1>1, Resuming DEF Closes
<1>3. Waiting' = Waiting \ {r} /\ Shaped'
  BY <1>1, <1>2, WaitingAfter
<1>4. /\ UNCHANGED policy
      /\ DOMAIN jobs' = DOMAIN jobs \ {r}
      /\ \A x \in DOMAIN jobs' : jobs'[x] = jobs[x]
  BY DEF Closes, Drop
<1>5. /\ DOMAIN reads' = DOMAIN reads \ {r} /\ DOMAIN acts' = DOMAIN acts \ {r}
      /\ \A x \in DOMAIN reads' : reads'[x] = reads[x]
  BY <1>1 DEF TypeOK, Drop
<1>6. TypeOK'
  <2>1. \A x \in DOMAIN reads' : Vento!Cached(reads'[x].of) <=> pending'[x].ask = "read"
    <3> SUFFICES ASSUME NEW x \in DOMAIN reads'
                 PROVE  Vento!Cached(reads'[x].of) <=> pending'[x].ask = "read"
      BY Zenon DEF Vento!Cached
    <3>1. x \in DOMAIN reads /\ x # r /\ reads'[x] = reads[x]
      BY <1>5
    <3>2. x \in DOMAIN pending
      BY <1>1, <3>1 DEF TypeOK, Waiting
    <3>3. pending'[x] = pending[x]
      BY <1>2, <3>1, <3>2 DEF Resumed, Others
    <3> QED BY <1>1, <3>1, <3>3 DEF TypeOK, Vento!Cached
  <2>2. DOMAIN jobs' = Waiting' /\ DOMAIN jobs' = DOMAIN reads' \cup DOMAIN acts'
    BY <1>1, <1>3, <1>4, <1>5 DEF TypeOK
  <2>3. DOMAIN reads' \cap DOMAIN acts' = {} /\ policy' \in Policies
    BY <1>1, <1>4, <1>5 DEF TypeOK
  <2>4. \A x \in DOMAIN jobs' : /\ jobs'[x].tool \in ToolNames \cup {Probe}
                                /\ jobs'[x].since \in [Boards -> 0..MaxVersion]
    BY <1>1, <1>4 DEF TypeOK
  <2> QED BY <2>1, <2>2, <2>3, <2>4, Zenon DEF TypeOK, Readings, Vento!Cached
<1>7. Traced'
  <2>1. \A x \in DOMAIN jobs' : \A b \in Boards : jobs'[x].since[b] <= acked'[b]
    <3> SUFFICES ASSUME NEW x \in DOMAIN jobs', NEW b \in Boards
                 PROVE  jobs'[x].since[b] <= acked'[b]
      OBVIOUS
    <3>1. /\ jobs'[x].since[b] \in Int /\ acked[b] \in Int /\ acked'[b] \in Int
          /\ jobs'[x].since[b] <= acked[b]
      BY <1>1, <1>4, <1>6 DEF Traced, TypeOK, VentoFacts
    <3> QED BY <3>1
  <2>2. ASSUME NEW x \in DOMAIN replies' PROVE Vento!Shows(replies'[x], jobs'[x].since)
    <3>1. x \in DOMAIN replies /\ x \in DOMAIN jobs' /\ replies'[x].seen = replies[x].seen
      BY <1>6, <2>2 DEF VentoFacts, TypeOK
    <3>2. Vento!Shows(replies[x], jobs[x].since) /\ jobs'[x] = jobs[x]
      BY <1>1, <1>4, <3>1 DEF Traced
    <3> QED BY <3>1, <3>2 DEF Vento!Shows
  <2> QED BY <2>1, <2>2 DEF Traced, Vento!Shows
<1>8. Lawful'
  BY <1>1, <1>4, <1>5, <1>6 DEF Lawful, TypeOK
<1> QED BY <1>3, <1>6, <1>7, <1>8 DEF Own, Inductive

LEMMA ReadSucceedsPreserves ==
    ASSUME Own, VentoFacts, VentoFacts', NEW r \in Requests, ReadSucceeds(r)
    PROVE  Own'
<1>1. Shaped /\ TypeOK /\ Traced /\ ReadYourActions /\ Closes(r)
  BY DEF Own, Inductive, ReadSucceeds
<1>2. /\ r \in DOMAIN replies /\ reads' = Vento!Drop(reads, r)
      /\ replies' = Vento!Drop(replies, r) /\ UNCHANGED <<acts, acked>>
  BY DEF ReadSucceeds, Vento!ReadReturns
<1>3. r \in DOMAIN reads /\ r \in DOMAIN jobs
  BY <1>1, <1>2 DEF VentoFacts, TypeOK
<1>4. Resumed(r)
  BY <1>1, Resuming DEF Closes
<1> DEFINE answer == Answer(replies[r], jobs[r].since, FALSE)
           told == Vento!Cached(reads[r].of) /\ ~ pending[r].gone
<1>5. answers' = IF told THEN Extend(answers, r, answer) ELSE answers
  BY DEF ReadSucceeds
<1>6. Vento!Shows(answer, jobs[r].since) /\ answer.since = jobs[r].since /\ ~ answer.hit
  BY <1>1, <1>2 DEF Traced, Answer, Vento!Shows
<1>7. told => r \in DOMAIN pending' /\ pending'[r].stage = "answered" /\ pending'[r].ask = "read"
  BY <1>1, <1>3, <1>4 DEF TypeOK, Resumed
<1>8. r \notin DOMAIN answers
  BY <1>4, <1>1 DEF TypeOK, Resumed, Waiting
<1>9. \A x \in DOMAIN answers :
        x \in DOMAIN pending' /\ pending'[x].stage = "answered" /\ pending'[x].ask = "read"
  BY <1>1, <1>4, <1>8 DEF TypeOK, Resumed, Others
<1> HIDE DEF answer, told
<1>10. Readings'
  BY <1>5, <1>7, <1>9 DEF Readings, Extend
<1>11. ReadYourActions'
  BY <1>1, <1>5, <1>6 DEF ReadYourActions, Extend, Vento!Shows
<1>12. /\ reads' = Drop(reads, r) /\ r \notin DOMAIN reads'
       /\ DOMAIN replies' \subseteq DOMAIN replies
       /\ \A x \in DOMAIN replies' : replies'[x].seen = replies[x].seen
  BY <1>2 DEF Vento!Drop, Drop
<1>13. \A b \in Boards : acked[b] <= acked'[b]
  BY <1>2 DEF VentoFacts
<1>14. r \notin DOMAIN acts
  BY <1>1, <1>3 DEF TypeOK
<1> QED BY <1>1, <1>2, <1>10, <1>11, <1>12, <1>13, <1>14, ClosePreserves

(* A call that ends without an answer to remember.                         *)
LEMMA NothingToldPreserves ==
    ASSUME Own, NEW r \in Requests, Closes(r), UNCHANGED answers
    PROVE  Readings' /\ ReadYourActions'
<1>1. Shaped /\ TypeOK /\ ReadYourActions
  BY DEF Own, Inductive
<1>2. Resumed(r)
  BY <1>1, Resuming DEF Closes
<1>3. r \notin DOMAIN answers
  BY <1>1, <1>2 DEF TypeOK, Resumed, Waiting
<1> QED BY <1>1, <1>2, <1>3 DEF TypeOK, Readings, Resumed, Others, ReadYourActions, Vento!Shows

LEMMA ActionSucceedsPreserves ==
    ASSUME Own, VentoFacts, VentoFacts', NEW r \in Requests, ActionSucceeds(r)
    PROVE  Own'
<1>1. TypeOK /\ Closes(r) /\ UNCHANGED answers
  BY DEF Own, Inductive, ActionSucceeds
<1> DEFINE b == acts[r].board
<1>2. /\ r \in DOMAIN results /\ acts' = Vento!Drop(acts, r) /\ UNCHANGED reads
      /\ acked' = [acked EXCEPT ![b] = Vento!Later(@, results[r])]
      /\ replies' = Vento!Cross(b, results[r])
  BY DEF ActionSucceeds, Vento!ActionReturns
<1>3. r \in DOMAIN acts /\ b \in Boards /\ results[r] \in 0..MaxVersion
  BY <1>2 DEF VentoFacts
<1>4. acts' = Drop(acts, r) /\ r \notin DOMAIN acts'
  BY <1>2 DEF Vento!Drop, Drop
<1>5. r \notin DOMAIN reads
  BY <1>1, <1>3 DEF TypeOK
<1>6. \A c \in Boards : acked[c] <= acked'[c]
  BY <1>2, <1>3 DEF VentoFacts, Vento!Later
<1>7. /\ DOMAIN replies' = DOMAIN replies
      /\ \A x \in DOMAIN replies' : replies'[x].seen = replies[x].seen
  <2> SUFFICES ASSUME NEW x \in DOMAIN replies
               PROVE  replies'[x].seen = replies[x].seen /\ DOMAIN replies' = DOMAIN replies
    BY <1>2 DEF Vento!Cross
  <2>1. replies'[x] \in {replies[x], [replies[x] EXCEPT !.crossed = TRUE]}
    BY <1>2 DEF Vento!Cross
  <2>2. [replies[x] EXCEPT !.crossed = TRUE].seen = replies[x].seen
    OBVIOUS
  <2> QED BY <1>2, <2>1, <2>2 DEF Vento!Cross
<1>8. Readings' /\ ReadYourActions'
  BY <1>1, NothingToldPreserves
<1> QED BY <1>1, <1>2, <1>4, <1>5, <1>6, <1>7, <1>8, ClosePreserves

LEMMA FailPreserves ==
    ASSUME Own, VentoFacts, VentoFacts', NEW r \in Requests, Fail(r)
    PROVE  Own'
<1>1. TypeOK /\ Closes(r) /\ UNCHANGED answers
  BY DEF Own, Inductive, Fail, Fails
<1>2. Readings' /\ ReadYourActions'
  BY <1>1, NothingToldPreserves
<1>3. CASE Vento!ReadThrows(r)
  <2>1. /\ r \in DOMAIN reads /\ reads' = Drop(reads, r)
        /\ replies' = Vento!Drop(replies, r) /\ UNCHANGED <<acts, acked>>
    BY <1>3 DEF Vento!ReadThrows, Vento!Drop, Drop
  <2>2. r \notin DOMAIN acts /\ r \notin DOMAIN reads'
    BY <1>1, <2>1 DEF TypeOK, Drop
  <2>3. /\ DOMAIN replies' \subseteq DOMAIN replies
        /\ \A x \in DOMAIN replies' : replies'[x].seen = replies[x].seen
    BY <2>1 DEF Vento!Drop
  <2>4. \A b \in Boards : acked[b] <= acked'[b]
    BY <2>1 DEF VentoFacts
  <2> QED BY <1>1, <1>2, <2>1, <2>2, <2>3, <2>4, ClosePreserves
<1>4. CASE Vento!ActionThrows(r)
  <2>1. /\ r \in DOMAIN acts /\ acts' = Drop(acts, r) /\ UNCHANGED <<reads, replies, acked>>
    BY <1>4 DEF Vento!ActionThrows, Vento!Drop, Drop
  <2>2. r \notin DOMAIN reads /\ r \notin DOMAIN acts'
    BY <1>1, <2>1 DEF TypeOK, Drop
  <2>3. \A b \in Boards : acked[b] <= acked'[b]
    BY <2>1 DEF VentoFacts
  <2> QED BY <1>1, <1>2, <2>1, <2>2, <2>3, ClosePreserves
<1> QED BY <1>3, <1>4 DEF Fail

-----------------------------------------------------------------------------
(* Vento and time                                                          *)

(* A step at Vento, or of the clock, that the server does not see.         *)
LEMMA UnseenPreserves ==
    ASSUME Own, VentoFacts, VentoFacts',
           UNCHANGED <<pending, between, reads, acts, acked>>,
           \A x \in DOMAIN replies' :
               \/ x \in DOMAIN replies /\ replies'[x].seen = replies[x].seen
               \/ Vento!Shows(replies'[x], acked)
    PROVE  Own'
<1>1. /\ Shaped /\ TypeOK /\ Traced /\ ReadYourActions /\ Lawful
      /\ UNCHANGED <<policy, jobs, answers>>
  BY DEF Own, Inductive, between
<1>2. Shaped'
  BY <1>1 DEF Shaped
<1>3. TypeOK'
  BY <1>1, Zenon DEF TypeOK, Waiting, Vento!Cached
<1>4. Traced'
  <2>1. \A x \in DOMAIN jobs' : \A b \in Boards : jobs'[x].since[b] <= acked'[b]
    BY <1>1 DEF Traced
  <2>2. ASSUME NEW x \in DOMAIN replies' PROVE Vento!Shows(replies'[x], jobs'[x].since)
    <3>1. CASE x \in DOMAIN replies /\ replies'[x].seen = replies[x].seen
      BY <1>1, <3>1 DEF Traced, Vento!Shows
    <3>2. CASE Vento!Shows(replies'[x], acked)
      <4>1. x \in DOMAIN jobs
        BY <1>1, <2>2 DEF VentoFacts, TypeOK
      <4> SUFFICES ASSUME NEW b \in DOMAIN replies'[x].seen
                   PROVE  replies'[x].seen[b] >= jobs[x].since[b]
        BY <1>1 DEF Vento!Shows
      <4>2. b \in Boards /\ replies'[x].seen[b] \in Nat
        BY <2>2 DEF VentoFacts
      <4>3. replies'[x].seen[b] >= acked[b] /\ jobs[x].since[b] <= acked[b]
        BY <1>1, <3>2, <4>1, <4>2 DEF Vento!Shows, Traced
      <4>4. acked[b] \in Nat /\ jobs[x].since[b] \in Nat
        BY <1>1, <4>1, <4>2 DEF VentoFacts, TypeOK
      <4> QED BY <4>2, <4>3, <4>4
    <3> QED BY <3>1, <3>2
  <2> QED BY <2>1, <2>2 DEF Traced, Vento!Shows
<1>5. ReadYourActions'
  BY <1>1 DEF ReadYourActions, Vento!Shows
<1>6. Lawful'
  BY <1>1 DEF Lawful
<1> QED BY <1>2, <1>3, <1>4, <1>5, <1>6 DEF Own, Inductive

LEMMA AtVentoPreserves ==
    ASSUME Own, VentoFacts, VentoFacts', AtVento PROVE Own'
<1>1. UNCHANGED <<pending, between>>
  BY DEF AtVento, server
<1>2. CASE \E r \in Requests : Vento!VentoAnswers(r)
  <2> PICK r \in Requests : Vento!VentoAnswers(r)
    BY <1>2
  <2> DEFINE reply == [of |-> reads[r].of,
                       seen |-> [b \in Vento!Covers(reads[r].of) |-> version[b]],
                       at |-> now, crossed |-> FALSE]
  <2>1. /\ r \in DOMAIN reads /\ replies' = Vento!Extend(replies, r, reply)
        /\ UNCHANGED <<reads, acts, acked>>
    BY DEF Vento!VentoAnswers
  <2>2. reply.seen = [b \in Vento!Covers(reads[r].of) |-> version[b]]
    OBVIOUS
  <2> HIDE DEF reply
  <2>3. /\ DOMAIN replies' = DOMAIN replies \cup {r} /\ replies'[r] = reply
        /\ \A x \in DOMAIN replies : x # r => replies'[x] = replies[x]
    BY <2>1 DEF Vento!Extend
  <2>4. DOMAIN reply.seen \subseteq Boards
    BY <2>3 DEF VentoFacts
  <2>5. Vento!Shows(reply, acked)
    BY <2>2, <2>4 DEF Vento!Shows, VentoFacts
  <2> QED BY <1>1, <2>1, <2>3, <2>5, UnseenPreserves
<1>3. CASE \/ \E r \in Requests : Vento!VentoRuns(r) \/ Vento!VentoDeclines(r)
           \/ \E b \in Boards : Vento!BoardChanges(b)
  <2>1. UNCHANGED <<reads, acts, acked, replies>>
    BY <1>3, Zenon DEF Vento!VentoRuns, Vento!VentoDeclines, Vento!BoardChanges
  <2> QED BY <1>1, <2>1, UnseenPreserves
<1> QED BY <1>2, <1>3 DEF AtVento

LEMMA TimePreserves ==
    ASSUME Own, VentoFacts, VentoFacts', Time \/ UNCHANGED vars PROVE Own'
<1>1. UNCHANGED <<pending, between, reads, acts, acked, replies>>
  BY DEF Time, vars, server, vento, Server!Clock, Server!counters, Server!histories,
         Server!Limiter!Tick, Server!Limiter!Prune, Vento!Tick
<1> QED BY <1>1, UnseenPreserves

-----------------------------------------------------------------------------
(* The theorems                                                            *)

LEMMA ArrivePreserves ==
    ASSUME Own, VentoFacts, NEW r \in Requests, NEW k \in Clients, Arrive(r, k)
    PROVE  Own'
<1> USE FatesAreAsks
<1>1. CASE Pass(r, k)
  BY <1>1, PassPreserves DEF Pass
<1>2. CASE CheckHealth(r, k)
  <2> DEFINE q == [call |-> "uncached"]
  <2>1. Came(r, "health", "waiting") /\ Fetch(r, Probe)
    BY <1>2, Asking DEF CheckHealth
  <2>2. /\ reads' = Extend(reads, r, [of |-> q, sentAt |-> now])
        /\ UNCHANGED <<acts, replies, acked>>
    BY <1>2 DEF CheckHealth, Vento!AskVento, Vento!Extend, Extend
  <2>3. Vento!Cached([of |-> q, sentAt |-> now].of) <=> "health" = "read"
    BY DEF Vento!Cached
  <2> QED BY <2>1, <2>2, <2>3, FetchPreserves
<1>3. ASSUME NEW tool \in ToolNames, NEW instance \in Instances, NEW b \in Boards,
             CallTool(r, k, tool, instance, b)
      PROVE  Own'
  <2> DEFINE fate == Fate(policy, {}, tool, instance)
             q == Reading(tool, b)
  <2>1. q \in Vento!Queries
    BY ReadingsAreQueries
  <2>2. fate \in {"read", "action"} =>
           IsToolAllowed(policy, tool) /\ (Vento!Cached(q) <=> fate = "read")
    BY FateIsLawful
  <2> HIDE DEF fate, q
  <2>3. CASE RefuseTool(r, k, fate)
    BY <2>3, PassPreserves DEF RefuseTool
  <2>4. CASE ReadFromCache(r, k, fate, q)
    BY <2>1, <2>4, HitPreserves
  <2>5. CASE ReadFromVento(r, k, fate, tool, q)
    <3> DEFINE call == [of |-> q, sentAt |-> now]
    <3>1. fate \in {"read", "action"} /\ Came(r, fate, "waiting") /\ Fetch(r, tool)
      BY <2>5, Asking DEF ReadFromVento
    <3>2. reads' = Extend(reads, r, call) /\ UNCHANGED <<acts, replies, acked>>
      BY <2>5 DEF ReadFromVento, Vento!AskVento, Vento!Extend, Extend
    <3>3. Vento!Cached(call.of) <=> fate = "read"
      BY <2>2, <3>1 DEF Vento!Cached
    <3> HIDE DEF call
    <3> QED BY <2>2, <3>1, <3>2, <3>3, FetchPreserves
  <2>6. CASE RunAction(r, k, fate, tool, b)
    <3> DEFINE call == [board |-> b, sentAt |-> now]
    <3>1. /\ fate = "action" /\ tool = "vento_run_action"
          /\ Came(r, "action", "waiting") /\ Fetch(r, tool)
      BY <2>6, Asking DEF RunAction
    <3>2. acts' = Extend(acts, r, call) /\ UNCHANGED <<reads, replies, acked>>
      BY <2>6 DEF RunAction, Vento!StartAction, Vento!Extend, Extend
    <3> HIDE DEF call
    <3> QED BY <2>2, <3>1, <3>2, FetchPreserves
  <2> QED BY <1>3, <2>3, <2>4, <2>5, <2>6 DEF CallTool, fate, q
<1> QED BY <1>1, <1>2, <1>3 DEF Arrive

LEMMA NextPreserves ==
    ASSUME Own, VentoFacts, VentoFacts', [Next]_vars PROVE Own'
<1>1. ASSUME NEW r \in Requests, NEW k \in Clients, Arrive(r, k) PROVE Own'
  BY <1>1, ArrivePreserves
<1>2. ASSUME NEW r \in Requests, Proceed(r) PROVE Own'
  BY <1>2, ReadSucceedsPreserves, ActionSucceedsPreserves, FailPreserves, LeavePreserves
     DEF Proceed
<1>3. CASE AtVento
  BY <1>3, AtVentoPreserves
<1>4. CASE Time \/ UNCHANGED vars
  BY <1>4, TimePreserves
<1> QED BY <1>1, <1>2, <1>3, <1>4 DEF Next

LEMMA OwnAlways == Spec => []Own
<1>1. Own /\ VentoFacts /\ VentoFacts' /\ [Next]_vars => Own'
  BY NextPreserves
<1> QED BY <1>1, InitOwn, ClientHolds, VentoHasFacts, PTL DEF Spec

(* The server and the Vento client agree on what is under way: no call is  *)
(* lost to the server while it runs, and none runs for a request that no   *)
(* longer waits (execute.ts, client.ts).                                   *)
THEOREM ConnectorTypes == Spec => []TypeOK
<1>1. Own => TypeOK
  BY DEF Own, Inductive
<1> QED BY <1>1, OwnAlways, PTL

(* A client reads its own actions, and everybody's that had returned when  *)
(* it asked, from the cache as from Vento, however calls, actions and      *)
(* disconnects interleave; only an entry that an action overtook on its    *)
(* way may miss one.                                                       *)
THEOREM ClientsReadTheirActions == Spec => []ReadYourActions
<1>1. Own => ReadYourActions
  BY DEF Own, Inductive
<1> QED BY <1>1, OwnAlways, PTL

(* No call of a tool gets past the policy: no action where destructive     *)
(* tools are off, and nothing the list of tools leaves out.                *)
THEOREM ForbiddenKeptAway == Spec => []ForbiddenStaysAway
<1>1. Own => ForbiddenStaysAway
  <2> SUFFICES ASSUME Own PROVE ForbiddenStaysAway
    OBVIOUS
  <2>1. TypeOK /\ Lawful
    BY DEF Own, Inductive
  <2>2. ASSUME ~ policy.allowDestructive, NEW r \in DOMAIN acts PROVE FALSE
    <3>1. jobs[r].tool = "vento_run_action" /\ r \in DOMAIN jobs
      BY <2>1, <2>2 DEF TypeOK, Lawful
    <3>2. IsToolAllowed(policy, "vento_run_action")
      BY <2>1, <3>1 DEF Lawful, Probe
    <3>3. DangerLevel("vento_run_action") = "danger"
      BY DEF DangerLevel, Info
    <3> QED BY <2>2, <3>2, <3>3 DEF IsToolAllowed
  <2> QED BY <2>1, <2>2 DEF ForbiddenStaysAway, Lawful, IsToolAllowed
<1> QED BY <1>1, OwnAlways, PTL

-----------------------------------------------------------------------------
(* What is proved of the server holds of the connector's                   *)

LEMMA SameArrivals ==
    ASSUME NEW r, NEW k, NEW ask, Server!Arrive(r, k, ask)
    PROVE  Gate!Arrive(r, k, ask)
  BY Zenon
     DEF Server!Arrive, Gate!Arrive, Server!Bypass, Gate!Bypass, Server!Refuse,
          Gate!Refuse, Server!AnswerAtOnce, Gate!AnswerAtOnce, Server!AskVento,
          Gate!AskVento, Server!Routed, Gate!Routed, Server!Metered,
          Gate!Metered, Server!Takes, Gate!Takes, Server!Count, Gate!Count,
          Server!Outcome, Gate!Outcome, Server!Unmetered, Gate!Unmetered,
          Server!Refusable, Gate!Refusable, Server!ToolAsks, Gate!ToolAsks,
          Server!AtOnce, Gate!AtOnce, Server!Upstream, Gate!Upstream,
          Server!limiter, Gate!limiter, Server!counters, Gate!counters,
          Server!Extend, Gate!Extend, Server!Limiter!Admit, Gate!Limiter!Admit,
          Server!Limiter!Admitted, Gate!Limiter!Admitted,
          Server!Limiter!RefuseBurst, Gate!Limiter!RefuseBurst,
          Server!Limiter!RefuseMinute, Gate!Limiter!RefuseMinute,
          Server!Limiter!Refuse, Gate!Limiter!Refuse,
          Server!Limiter!MinuteRetry, Gate!Limiter!MinuteRetry,
          Server!Limiter!CeilSeconds, Gate!Limiter!CeilSeconds,
          Server!Limiter!Current, Gate!Limiter!Current, Server!Limiter!Stored,
          Gate!Limiter!Stored, Server!Limiter!Fresh, Gate!Limiter!Fresh,
          Server!Limiter!MinuteOver, Gate!Limiter!MinuteOver,
          Server!Limiter!SecondOver, Gate!Limiter!SecondOver,
          Server!Limiter!BurstFull, Gate!Limiter!BurstFull,
          Server!Limiter!MinuteFull, Gate!Limiter!MinuteFull,
          Server!Limiter!Extend, Gate!Limiter!Extend, Server!Limiter!Drop,
          Gate!Limiter!Drop

LEMMA SameEnds ==
    ASSUME NEW r, Server!VentoEnds(r) \/ Server!Finish(r) \/ Server!Disconnect(r)
    PROVE  Gate!VentoEnds(r) \/ Gate!Finish(r) \/ Gate!Disconnect(r)
  BY Zenon
     DEF Server!VentoEnds, Gate!VentoEnds, Server!Finish, Gate!Finish,
          Server!Disconnect, Gate!Disconnect, Server!Resumes, Gate!Resumes,
          Server!Flushes, Gate!Flushes, Server!Leaves, Gate!Leaves,
          Server!Leaving, Gate!Leaving, Server!Count, Gate!Count,
          Server!Outcome, Gate!Outcome, Server!Unmetered, Gate!Unmetered,
          Server!Refusable, Gate!Refusable, Server!ToolAsks, Gate!ToolAsks,
          Server!limiter, Gate!limiter, Server!histories, Gate!histories,
          Server!Drop, Gate!Drop, Server!Cardinality, Gate!Cardinality,
          Server!IsFiniteSet, Gate!IsFiniteSet

LEMMA SameClock == Server!Clock => Gate!Clock
  BY Zenon
     DEF Server!Clock, Gate!Clock, Server!counters, Gate!counters,
          Server!histories, Gate!histories, Server!Limiter!Prune,
          Gate!Limiter!Prune, Server!Limiter!Tick, Gate!Limiter!Tick,
          Server!Limiter!PruneEvery, Gate!Limiter!PruneEvery,
          Server!Limiter!Prunable, Gate!Limiter!Prunable,
          Server!Limiter!PruneAge, Gate!Limiter!PruneAge

LEMMA SameServer == Server!Spec => Gate!Spec
<1>1. Server!Init => Gate!Init
  BY Zenon
     DEF Server!Init, Gate!Init, Server!EmptyMap, Gate!EmptyMap,
          Server!Outcomes, Gate!Outcomes, Server!Limiter!Init,
          Gate!Limiter!Init, Server!Limiter!EmptyMap, Gate!Limiter!EmptyMap,
          Server!Limiter!PruneEvery, Gate!Limiter!PruneEvery
<1>2. [Server!Next]_(Server!vars) => [Gate!Next]_(Gate!vars)
  <2>1. Server!Asks = Gate!Asks
    BY Zenon DEF Server!Asks, Gate!Asks, Server!Unmetered, Gate!Unmetered,
          Server!AtOnce, Gate!AtOnce, Server!Upstream, Gate!Upstream,
          Server!Refusable, Gate!Refusable
  <2>2. Server!Next => Gate!Next
    BY <2>1, SameArrivals, SameEnds, SameClock DEF Server!Next, Gate!Next
  <2>3. UNCHANGED Server!vars => UNCHANGED Gate!vars
    BY DEF Server!vars, Gate!vars, Server!limiter, Gate!limiter, Server!counters,
          Gate!counters, Server!histories, Gate!histories
  <2> QED BY <2>2, <2>3
<1> QED BY <1>1, <1>2, PTL DEF Server!Spec, Gate!Spec

(* The connector keeps the books of Gateway and the promises of            *)
(* VentoClient: its requests, tool calls and calls of Vento are counted    *)
(* and bounded as the server's are, and its answers are as fresh as the    *)
(* client's (index.ts, metrics.ts, execute.ts; client.ts).                 *)
THEOREM ConnectorInherits ==
    Spec => /\ [](Server!BooksBalance /\ Server!ToolCallsCounted /\ Server!UpstreamBounded)
            /\ [](Vento!StalenessBounded /\ Vento!AckedActionsVisible
               /\ Cardinality(DOMAIN cache) <= MaxEntries)
<1>1. Spec => [](Server!BooksBalance /\ Server!ToolCallsCounted /\ Server!UpstreamBounded)
  <2>1. Gate!GatewayAssumption
    BY ConnectorAssumption DEF Server!GatewayAssumption, Gate!GatewayAssumption
  <2>2. /\ Gate!Spec => []Gate!BooksBalance
        /\ Gate!Spec => []Gate!ToolCallsCounted
        /\ Gate!Spec => []Gate!UpstreamBounded
    BY <2>1, Gate!GatewayBooksBalance, Gate!GatewayCountsTools, Gate!GatewayShieldsVento
  <2>3. Gate!BooksBalance => Server!BooksBalance
    BY Zenon DEF Server!BooksBalance, Gate!BooksBalance, Server!MeteredPending,
          Gate!MeteredPending, Server!Unmetered, Gate!Unmetered,
          Server!Cardinality, Gate!Cardinality, Server!IsFiniteSet,
          Gate!IsFiniteSet
  <2>4. Gate!ToolCallsCounted => Server!ToolCallsCounted
    BY Zenon DEF Server!ToolCallsCounted, Gate!ToolCallsCounted, Server!RunningTools,
          Gate!RunningTools, Server!ToolAsks, Gate!ToolAsks, Server!Refusable,
          Gate!Refusable, Server!Cardinality, Gate!Cardinality,
          Server!IsFiniteSet, Gate!IsFiniteSet
  <2>5. Gate!UpstreamBounded => Server!UpstreamBounded
    BY Zenon DEF Server!UpstreamBounded, Gate!UpstreamBounded
  <2> QED BY <2>2, <2>3, <2>4, <2>5, ConnectorServes, SameServer, PTL
<1>2. Spec => [](Vento!StalenessBounded /\ Vento!AckedActionsVisible
                  /\ Cardinality(DOMAIN cache) <= MaxEntries)
  <2>1. /\ Cli!Spec => []Cli!StalenessBounded
        /\ Cli!Spec => []Cli!AckedActionsVisible
        /\ Cli!Spec => [](Cli!Cardinality(DOMAIN cache) <= MaxEntries)
    BY SameAssumptions, Cli!StalenessIsBounded, Cli!AckedActionsAreVisible,
       Cli!ClientCacheWithinCapacity
  <2>2. Cli!StalenessBounded => Vento!StalenessBounded
    BY Zenon DEF Vento!StalenessBounded, Cli!StalenessBounded, Vento!LiveAt, Cli!LiveAt
  <2>3. Cli!AckedActionsVisible => Vento!AckedActionsVisible
    BY Zenon DEF Vento!AckedActionsVisible, Cli!AckedActionsVisible, Vento!LiveAt,
                 Cli!LiveAt, Vento!Shows, Cli!Shows
  <2>4. Cli!Cardinality(DOMAIN cache) <= MaxEntries => Cardinality(DOMAIN cache) <= MaxEntries
    BY Zenon DEF Cardinality, Cli!Cardinality, IsFiniteSet, Cli!IsFiniteSet
  <2> QED BY <2>1, <2>2, <2>3, <2>4, ConnectorServes, SameClient, PTL
<1> QED BY <1>1, <1>2, PTL

=============================================================================
