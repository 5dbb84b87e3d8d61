------------------------------- MODULE Gateway -------------------------------
(***************************************************************************)
(* The HTTP server of src/index.ts: every request runs, in one go, through *)
(* the body parser, the headers, the metrics and the rate limiter to its   *)
(* route, up to its answer or to the first await; then Vento ends what it  *)
(* was asked, the answer is flushed, or the client disconnects first.  The *)
(* limiter is RateLimiter's, step for step.  A route is a member of Asks;  *)
(* what a Vento client does meanwhile is VentoClient's matter.             *)
(***************************************************************************)
EXTENDS Integers, Sequences, FiniteSets, Maps

CONSTANTS
    Clients, MinuteLimit, BurstLimit, Minute, Second, MaxTime,  \* RateLimiter's
    Requests,   \* requests that may be in flight together
    MaxLost     \* bound: how many requests lose their client

ASSUME GatewayAssumption ==
    /\ MinuteLimit \in Nat \ {0} /\ BurstLimit \in Nat \ {0}
    /\ Minute \in Nat /\ Second \in Nat \ {0} /\ Second <= Minute
    /\ MaxTime \in Nat
    /\ MaxLost \in Nat

VARIABLES
    now, windows, nextPrune, admitted, refused,     \* RateLimiter's
    pending,      \* request |-> who asked what, how far it is, is its client gone
    active,       \* the gauge active_connections
    executions,   \* outcome |-> mcp_tool_executions_total
    lost,         \* metered requests that ended without "finish" (history)
    calls,        \* client |-> times of the requests made to Vento for it (history)
    toolCalls     \* calls of executeTool so far (history)

Limiter == INSTANCE RateLimiter

limiter == <<now, windows, nextPrune, admitted, refused>>
counters == <<active, executions>>
histories == <<lost, calls, toolCalls>>
vars == <<limiter, pending, counters, histories>>

(* What a request can ask for:                                             *)
(*   malformed  a body that is no JSON        preflight  an OPTIONS        *)
(*   local      /health/live, /metrics, /info, a 401, a 404, or a POST     *)
(*              /mcp or OAuth request that needs neither a tool nor Vento  *)
(*   unknown, denied, elsewhere  a tool that is not there, that the policy *)
(*              forbids, or that is asked of an unknown instance           *)
(*   read       a cached read tool            action  an uncached tool     *)
(*   health     the readiness probe           oauth  a code or a refresh   *)
(*              token traded with Vento                                    *)
Unmetered == {"malformed", "preflight"}
Refusable == {"unknown", "denied", "elsewhere"}
ToolAsks  == Refusable \cup {"read", "action"}
AtOnce    == Refusable \cup {"local", "read"}
Upstream  == {"read", "action", "health", "oauth"}
Asks      == Unmetered \cup AtOnce \cup Upstream

\* The requests to Vento that a timeout ends.
MutTimed == {"read", "action"}
Timed == Upstream \ {"oauth"}

Request == [from : Clients, ask : Asks, stage : {"waiting", "answered"}, gone : BOOLEAN]

Outcomes == {"unknown", "denied", "error", "success"}

\* The label executeTool counts a call under.  A tool's own handler turns
\* every failure into text, so whatever Vento answered is a success.
Outcome(ask) ==
    CASE ask = "elsewhere" -> "error"
      [] ask \in {"unknown", "denied"} -> ask
      [] OTHER -> "success"

Init ==
    /\ Limiter!Init
    /\ pending = EmptyMap
    /\ active = 0
    /\ executions = [o \in Outcomes |-> 0]
    /\ lost = 0 /\ calls = [k \in Clients |-> <<>>] /\ toolCalls = 0

Count(ask) ==
    executions' = IF ask \in ToolAsks
                  THEN [executions EXCEPT ![Outcome(ask)] = @ + 1]
                  ELSE executions

-----------------------------------------------------------------------------
(* A request comes in                                                      *)

Takes(r, k, ask, stage) ==
    /\ r \notin DOMAIN pending
    /\ pending' = Extend(pending, r,
                         [from |-> k, ask |-> ask, stage |-> stage, gone |-> FALSE])
    /\ UNCHANGED lost

\* Answered before the metrics and the limiter: 500 by the error handler, or
\* 204 by the headers.
Bypass(r, k, ask) ==
    /\ ask \in Unmetered
    /\ Takes(r, k, ask, "answered")
    /\ UNCHANGED <<limiter, counters, calls, toolCalls>>

Metered(r, k, ask, stage) ==
    /\ ask \notin Unmetered
    /\ active' = active + 1
    /\ Takes(r, k, ask, stage)

\* As if the limiter had sent its 429 and called next() all the same.
MutRefuse(r, k, ask) ==
    /\ Limiter!BurstFull(Limiter!Current(k)) \/ Limiter!MinuteFull(Limiter!Current(k))
    /\ windows' = Extend(windows, k, Limiter!Current(k))
    /\ admitted' = [admitted EXCEPT ![k] = Append(@, now)]
    /\ ask = "health"
    /\ Metered(r, k, ask, "waiting")
    /\ calls' = [calls EXCEPT ![k] = Append(@, now)]
    /\ UNCHANGED <<now, nextPrune, refused, executions, toolCalls>>

\* Answered 429 by the limiter.
Refuse(r, k, ask) ==
    /\ Limiter!RefuseBurst(k) \/ Limiter!RefuseMinute(k)
    /\ Metered(r, k, ask, "answered")
    /\ UNCHANGED <<executions, calls, toolCalls>>

Routed(r, k, ask, stage) ==
    /\ Limiter!Admit(k)
    /\ Metered(r, k, ask, stage)
    /\ toolCalls' = IF ask \in ToolAsks THEN toolCalls + 1 ELSE toolCalls

\* The route answers without Vento; a read does when it is cached.
AnswerAtOnce(r, k, ask) ==
    /\ ask \in AtOnce
    /\ Routed(r, k, ask, "answered")
    /\ Count(ask)
    /\ UNCHANGED calls

\* The route awaits a request to Vento.
AskVento(r, k, ask) ==
    /\ ask \in Upstream
    /\ Routed(r, k, ask, "waiting")
    /\ calls' = [calls EXCEPT ![k] = Append(@, now)]
    /\ UNCHANGED executions

-----------------------------------------------------------------------------
(* ... and comes to its end                                                *)

\* Vento answered, failed or timed out.  The handler goes on, its client
\* there or not; with nobody to send its answer to, no "finish" follows.
Resumes(r) ==
    /\ r \in DOMAIN pending /\ pending[r].stage = "waiting"
    /\ IF pending[r].gone
       THEN pending' = Drop(pending, r) /\ lost' = lost + 1
       ELSE pending' = [pending EXCEPT ![r].stage = "answered"] /\ UNCHANGED lost
    /\ UNCHANGED <<limiter, active, calls, toolCalls>>

\* As if a tool call were counted only when its answer can be sent.
MutVentoEnds(r) ==
    /\ Resumes(r)
    /\ IF pending[r].gone THEN UNCHANGED executions ELSE Count(pending[r].ask)
VentoEnds(r) == Resumes(r) /\ Count(pending[r].ask)

\* The answer went out: the response's "finish".
Flushes(r) ==
    /\ r \in DOMAIN pending
    /\ pending[r].stage = "answered"
    /\ pending' = Drop(pending, r)
    /\ UNCHANGED <<limiter, executions, histories>>

\* As if every request had gone through the metrics.
MutFinish(r) == Flushes(r) /\ active' = active - 1
Finish(r) ==
    /\ Flushes(r)
    /\ active' = IF pending[r].ask \in Unmetered THEN active ELSE active - 1

Leaving == {r \in DOMAIN pending : pending[r].gone}

Leaves(r) ==
    /\ r \in DOMAIN pending \ Leaving
    /\ lost + Cardinality(Leaving) < MaxLost
    /\ IF pending[r].stage = "waiting"
       THEN pending' = [pending EXCEPT ![r].gone = TRUE] /\ UNCHANGED lost
       ELSE /\ pending' = Drop(pending, r)
            /\ lost' = IF pending[r].ask \in Unmetered THEN lost ELSE lost + 1
    /\ UNCHANGED <<limiter, executions, calls, toolCalls>>

\* As if the gauge were counted down on "close", and on "finish" too.
MutDisconnect(r) ==
    /\ Leaves(r)
    /\ active' = IF pending[r].ask \in Unmetered THEN active ELSE active - 1
\* The client closes the connection before its answer went out.
Disconnect(r) == Leaves(r) /\ UNCHANGED active

-----------------------------------------------------------------------------
(* The limiter's timer and the clock go their own way                      *)

Clock ==
    /\ Limiter!Prune \/ Limiter!Tick
    /\ UNCHANGED <<pending, counters, histories>>

Arrive(r, k, ask) ==
    \/ Bypass(r, k, ask) \/ Refuse(r, k, ask)
    \/ AnswerAtOnce(r, k, ask) \/ AskVento(r, k, ask)

Next ==
    \/ \E r \in Requests, k \in Clients, ask \in Asks : Arrive(r, k, ask)
    \/ \E r \in Requests : VentoEnds(r) \/ Finish(r) \/ Disconnect(r)
    \/ Clock

Spec == Init /\ [][Next]_vars

\* Node flushes answers, and the timeout of the Vento client ends what Vento
\* leaves open; nothing in this code ends an exchange of a code or a token.
FairSpec ==
    /\ Spec
    /\ \A r \in Requests :
         /\ WF_vars(Finish(r))
         /\ WF_vars(r \in DOMAIN pending /\ pending[r].ask \in Timed /\ VentoEnds(r))

-----------------------------------------------------------------------------
(* Properties                                                              *)

(* A client goes missing only while its request waits for Vento, and no    *)
(* count of the server falls below zero.                                   *)
TypeOK ==
    /\ DOMAIN pending \subseteq Requests
    /\ \A r \in DOMAIN pending :
         /\ pending[r] \in Request
         /\ pending[r].stage = "waiting" => pending[r].ask \in Upstream
         /\ pending[r].gone => pending[r].stage = "waiting"
    /\ active \in Nat
    /\ executions \in [Outcomes -> Nat]
    /\ lost \in 0..MaxLost
    /\ calls \in [Clients -> Seq(0..now)]
    /\ toolCalls \in Nat

MeteredPending == {r \in DOMAIN pending : pending[r].ask \notin Unmetered}

(* The gauge is off by exactly the requests whose client left before the   *)
(* answer was flushed, never by those answered before the metrics, refused *)
(* by the limiter or still waiting (metrics.ts, middleware: "finish" is    *)
(* the only place that counts down).                                       *)
BooksBalance == active = Cardinality(MeteredPending) + lost

(* Vento is shielded: however a client mixes probes, tools and logins, and *)
(* whenever it reconnects, at most twice the minute limit of requests in   *)
(* any minute, and twice the burst limit in any second, reach Vento on its *)
(* behalf (index.ts, the order of the middleware; one request to Vento per *)
(* route).                                                                 *)
UpstreamBounded ==
    \A k \in Clients : \A i, j \in DOMAIN calls[k] :
        /\ j = i + 2 * MinuteLimit => calls[k][j] - calls[k][i] >= Minute
        /\ j = i + 2 * BurstLimit  => calls[k][j] - calls[k][i] >= Second

RunningTools ==
    {r \in DOMAIN pending : pending[r].stage = "waiting" /\ pending[r].ask \in ToolAsks}

(* Every call of a tool is counted under one outcome once it ended, also   *)
(* when its client left while it ran (execute.ts, executeTool).            *)
ToolCallsCounted ==
    executions["unknown"] + executions["denied"] + executions["error"]
        + executions["success"] + Cardinality(RunningTools) = toolCalls

(* A request other than an OAuth exchange does not stay in the server for  *)
(* ever: it is answered, or its client leaves and its handler still ends   *)
(* (client.ts, the timeout of request; index.ts).                          *)
EveryRequestEnds ==
    \A r \in Requests :
        (r \in DOMAIN pending /\ pending[r].ask # "oauth") ~> (r \notin DOMAIN pending)

-----------------------------------------------------------------------------
(* Why the properties hold: the inductive invariant                        *)

(* Finitely many requests are in flight, and those whose client left fit   *)
(* in what is left of the bound.                                           *)
Slack ==
    /\ IsFiniteSet(DOMAIN pending)
    /\ lost + Cardinality(Leaving) <= MaxLost

Counting == TypeOK /\ Slack /\ BooksBalance /\ ToolCallsCounted

\* The entries of part are entries of log, in their order.
Within(part, log) ==
    \E f \in [DOMAIN part -> DOMAIN log] :
        \A i, j \in DOMAIN part :
            /\ part[i] = log[f[i]]
            /\ i <= j => f[j] - f[i] >= j - i

(* Every request made to Vento is one that the limiter admitted, and it    *)
(* admitted them in the order of time.                                     *)
CallsAreAdmitted ==
    \A k \in Clients :
        /\ Within(calls[k], admitted[k])
        /\ \A i, j \in DOMAIN admitted[k] : i <= j => admitted[k][i] <= admitted[k][j]

Inductive == Counting /\ CallsAreAdmitted

-----------------------------------------------------------------------------
(* A claim of the code that the code does not keep                         *)

(* metrics.ts, help of active_connections: "Number of in-flight HTTP       *)
(* requests", of those that reach the metrics at all.                      *)
GaugeIsInFlight == active = Cardinality(MeteredPending)

=============================================================================
