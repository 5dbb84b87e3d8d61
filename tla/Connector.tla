------------------------------ MODULE Connector ------------------------------
(***************************************************************************)
(* The HTTP server and the Vento client it serves its requests with, in    *)
(* one process: what a client of the connector sees from end to end.  The  *)
(* server is Gateway's and the Vento client VentoClient's, step for step;  *)
(* this module adds what lies between them: executeTool                    *)
(* (src/tools/execute.ts), the handlers of the tools and the readiness     *)
(* probe.  A call of the Vento client goes by the name of the request it   *)
(* is made for.  OAuth's exchanges, which have a client of their own, are  *)
(* left to Gateway and OAuthSessions.                                      *)
(***************************************************************************)
EXTENDS Integers, FiniteSets, Maps, ToolTable

CONSTANTS
    Clients, MinuteLimit, BurstLimit, Minute, Second,   \* Gateway's
    Requests, MaxLost,
    Boards, StartsWith, Ttl, RequestTimeout, MaxEntries, MaxVersion, \* VentoClient's
    MaxTime,      \* both clocks' bound
    Routes,       \* the kinds of request (Gateway's) without a tool or Vento
    Policies,     \* what buildPolicy may have made of the configuration
    ToolNames,    \* the names of tools that clients call, existing ones or not
    Instances     \* the instances they name; VENTO_INSTANCES is not set

VARIABLES
    now,
    windows, nextPrune, admitted, refused,                          \* Gateway's
    pending, active, executions, lost, calls, toolCalls,
    cache, reads, replies, acts, results, version, acked,           \* VentoClient's
    policy,       \* the PermissionPolicy of this process
    jobs,         \* request |-> what it does with the Vento client, while it does
    answers       \* request |-> the reading it is answered with (history)

Server == INSTANCE Gateway
Vento == INSTANCE VentoClient WITH Readers <- Requests, Actors <- Requests

server == <<windows, nextPrune, admitted, refused,
            pending, active, executions, lost, calls, toolCalls>>
vento == <<cache, reads, replies, acts, results, version, acked>>
between == <<policy, jobs, answers>>
vars == <<now, server, vento, between>>

ASSUME ConnectorAssumption ==
    /\ Server!GatewayAssumption
    /\ Vento!BoardsAssumption /\ Vento!BoundsAssumption
    /\ Routes \subseteq Server!Unmetered \cup {"local"}
    /\ Policies \subseteq [restricted : BOOLEAN, allowedTools : SUBSET STRING,
                           allowDestructive : BOOLEAN]

Probe == "ping"

Init ==
    /\ Server!Init
    /\ Vento!Init
    /\ policy \in Policies
    /\ jobs = EmptyMap
    /\ answers = EmptyMap

-----------------------------------------------------------------------------
(* A request comes in                                                      *)

\* What has nothing to do with the Vento client: requests answered before
\* the limiter, by it, or by a route of another kind.
Pass(r, k) ==
    /\ \/ \E ask \in Routes : Server!Bypass(r, k, ask) \/ Server!Refuse(r, k, ask)
       \/ Server!AnswerAtOnce(r, k, "local")
    /\ UNCHANGED <<vento, between>>

RefuseTool(r, k, fate) ==
    /\ fate \in Server!Refusable
    /\ Server!AnswerAtOnce(r, k, fate)
    /\ UNCHANGED <<vento, between>>

\* What the handler of a tool asks of the Vento client; so does the probe.
Reading(tool, b) ==
    CASE tool = "vento_get_board"   -> [call |-> "getBoard", board |-> b]
      [] tool = "vento_list_boards" -> [call |-> "listBoards"]
      [] OTHER                      -> [call |-> "uncached"]

Answer(reply, since, hit) ==
    [seen |-> reply.seen, crossed |-> reply.crossed, since |-> since, hit |-> hit]

ReadFromCache(r, k, fate, q) ==
    /\ fate = "read"
    /\ Vento!ServeFromCache(r, q)
    /\ Server!AnswerAtOnce(r, k, "read")
    /\ answers' = Extend(answers, r, Answer(cache[Vento!Key(q)].value, acked, TRUE))
    /\ UNCHANGED <<policy, jobs>>

\* The fetch of a request to Vento starts.
Fetch(r, tool) ==
    /\ jobs' = Extend(jobs, r, [tool |-> tool, since |-> acked])
    /\ UNCHANGED <<policy, answers>>

ReadFromVento(r, k, fate, tool, q) ==
    /\ fate \in {"read", "action"} /\ tool # "vento_run_action"
    /\ Vento!AskVento(r, q)
    /\ Server!AskVento(r, k, fate)
    /\ Fetch(r, tool)

RunAction(r, k, fate, tool, b) ==
    /\ fate = "action" /\ tool = "vento_run_action"
    /\ Vento!StartAction(r, b)
    /\ Server!AskVento(r, k, "action")
    /\ Fetch(r, tool)

CallTool(r, k, tool, instance, b) ==
    LET fate == Fate(policy, {}, tool, instance) IN
    \/ RefuseTool(r, k, fate)
    \/ ReadFromCache(r, k, fate, Reading(tool, b))
    \/ ReadFromVento(r, k, fate, tool, Reading(tool, b))
    \/ RunAction(r, k, fate, tool, b)

CheckHealth(r, k) ==
    /\ Vento!AskVento(r, [call |-> "uncached"])
    /\ Server!AskVento(r, k, "health")
    /\ Fetch(r, Probe)

-----------------------------------------------------------------------------
(* Its request to Vento                                                    *)

Closes(r) ==
    /\ Server!VentoEnds(r)
    /\ jobs' = Drop(jobs, r)
    /\ UNCHANGED policy

\* The handler has its result and answers, if anybody is there to read it.
ReadSucceeds(r) ==
    /\ Vento!ReadReturns(r)
    /\ Closes(r)
    /\ answers' = IF Vento!Cached(reads[r].of) /\ ~ pending[r].gone
                  THEN Extend(answers, r, Answer(replies[r], jobs[r].since, FALSE))
                  ELSE answers

ActionSucceeds(r) ==
    /\ Vento!ActionReturns(r)
    /\ Closes(r)
    /\ UNCHANGED answers

Fails(r) == Closes(r) /\ UNCHANGED answers

Fail(r) == (Vento!ReadThrows(r) \/ Vento!ActionThrows(r)) /\ Fails(r)

TimeOut(r) == (Vento!AbortRead(r) \/ Vento!AbortAction(r)) /\ Fails(r)

-----------------------------------------------------------------------------
(* Its answer, Vento, and time                                             *)

Finish(r) ==
    /\ Server!Finish(r)
    /\ answers' = Drop(answers, r)
    /\ UNCHANGED <<vento, policy, jobs>>

\* As if the call of a client that leaves were forgotten.
MutDisconnect(r) ==
    /\ Server!Disconnect(r)
    /\ answers' = Drop(answers, r)
    /\ reads' = Drop(reads, r) /\ replies' = Drop(replies, r)
    /\ UNCHANGED <<cache, acts, results, version, acked, policy, jobs>>
\* A client that leaves stops neither its tool nor the request to Vento.
Disconnect(r) ==
    /\ Server!Disconnect(r)
    /\ answers' = Drop(answers, r)
    /\ UNCHANGED <<vento, policy, jobs>>

AtVento ==
    /\ \/ \E r \in Requests :
            Vento!VentoAnswers(r) \/ Vento!VentoRuns(r) \/ Vento!VentoDeclines(r)
       \/ \E b \in Boards : Vento!BoardChanges(b)
    /\ UNCHANGED <<server, between>>

Time ==
    /\ Server!Clock
    /\ Vento!Tick \/ (now' = now /\ UNCHANGED vento)
    /\ UNCHANGED between

Arrive(r, k) ==
    \/ Pass(r, k)
    \/ CheckHealth(r, k)
    \/ \E tool \in ToolNames, instance \in Instances, b \in Boards :
         CallTool(r, k, tool, instance, b)

Proceed(r) ==
    \/ ReadSucceeds(r) \/ ActionSucceeds(r) \/ Fail(r)
    \/ Finish(r) \/ Disconnect(r)

Next ==
    \/ \E r \in Requests, k \in Clients : Arrive(r, k)
    \/ \E r \in Requests : Proceed(r)
    \/ AtVento
    \/ Time

Spec == Init /\ [][Next]_vars

\* The clock runs, Node delivers the abort of a request to Vento when its
\* time is up and flushes answers.  That a request to Vento ends is not
\* assumed: it follows.
FairSpec ==
    /\ Spec
    /\ WF_vars(Time)
    /\ \A r \in Requests : WF_vars(TimeOut(r)) /\ WF_vars(Finish(r))

-----------------------------------------------------------------------------
(* Properties                                                              *)

Waiting == {r \in DOMAIN pending : pending[r].stage = "waiting"}

(* The two halves agree on what is under way: a request waits for the      *)
(* Vento client exactly while a call of the client runs for it, a read or  *)
(* an action and not both, whether or not its own client is still there    *)
(* (execute.ts, index.ts, client.ts).                                      *)
TypeOK ==
    /\ policy \in Policies
    /\ DOMAIN jobs = Waiting
    /\ DOMAIN jobs = DOMAIN reads \cup DOMAIN acts
    /\ DOMAIN reads \cap DOMAIN acts = {}
    /\ \A r \in DOMAIN reads : Vento!Cached(reads[r].of) <=> pending[r].ask = "read"
    /\ \A r \in DOMAIN jobs :
         /\ jobs[r].tool \in ToolNames \cup {Probe}
         /\ jobs[r].since \in [Boards -> 0..MaxVersion]
    /\ \A r \in DOMAIN answers :
         r \in DOMAIN pending /\ pending[r].stage = "answered" /\ pending[r].ask = "read"

(* What Gateway takes for granted of its routes follows from the client's  *)
(* timeout: the server with this client behind it is Gateway, and every    *)
(* request to Vento ends, however Vento behaves and whoever has left       *)
(* (client.ts, AbortSignal.timeout; index.ts).                             *)
ServesAsGateway == Server!FairSpec

(* A client reads its own actions, and everybody else's: a board or a list *)
(* of boards that is answered shows every action whose call had returned   *)
(* when its request came in.  Only a cached reply that an action overtook  *)
(* on its way may miss one; what was fetched for the request itself never  *)
(* does, overtaken or not (client.ts, cachedRequest and runAction).        *)
ReadYourActions ==
    \A r \in DOMAIN answers :
        (answers[r].hit => ~ answers[r].crossed) => Vento!Shows(answers[r], answers[r].since)

(* Nothing that the configuration forbids is done: where destructive tools *)
(* are not allowed no action runs, not even one the list of tools names,   *)
(* and where there is a list only its tools are at Vento (permissions.ts,  *)
(* isToolAllowed; execute.ts).  Messages to agents are no actions here.    *)
ForbiddenStaysAway ==
    /\ ~ policy.allowDestructive => DOMAIN acts = {}
    /\ \A r \in DOMAIN jobs :
         policy.restricted => jobs[r].tool \in policy.allowedTools \cup {Probe}

-----------------------------------------------------------------------------
(* Why the properties hold: the inductive invariant                        *)

\* What a request has seen when it came in is no secret later, and no reply
\* to it is older than that.
Traced ==
    /\ \A r \in DOMAIN jobs : \A b \in Boards : jobs[r].since[b] <= acked[b]
    /\ \A r \in DOMAIN replies : Vento!Shows(replies[r], jobs[r].since)

\* Whatever calls the Vento client is the probe or a tool the policy allows.
Lawful ==
    /\ \A r \in DOMAIN acts : jobs[r].tool = "vento_run_action"
    /\ \A r \in DOMAIN jobs :
         jobs[r].tool = Probe \/ IsToolAllowed(policy, jobs[r].tool)

Inductive == TypeOK /\ Traced /\ ReadYourActions /\ Lawful

=============================================================================
