----------------------------- MODULE VentoClient -----------------------------
(***************************************************************************)
(* VentoClient (src/vento/client.ts): the connector's reads and actions    *)
(* against one Vento instance, with the TTL cache of board reads.          *)
(*                                                                         *)
(* A call is a chain of await points, so a call is several steps here:     *)
(* it starts (and looks into the cache), Vento handles the request, and    *)
(* the call returns or throws.  Between two steps every other call in the  *)
(* process may run.  Board contents are abstracted to a version number     *)
(* per board: what matters is how old the content of a reply is.           *)
(*                                                                         *)
(* Vento itself is external: it answers or declines at any time, and       *)
(* boards change on their own (sensors, users, agents, an aborted POST     *)
(* that Vento runs after the client gave up on it).                        *)
(***************************************************************************)
EXTENDS TtlMap

CONSTANTS
    Boards,          \* board ids, strings; a cache key is the text after "boards:"
    StartsWith,      \* board id |-> the cache keys of which it is a prefix
    Readers,         \* concurrent read calls (their identities)
    Actors,          \* concurrent runAction calls (their identities)
    Ttl,             \* CACHE_TTL_SECONDS, in ticks
    RequestTimeout,  \* REQUEST_TIMEOUT_MS, in ticks
    MaxEntries,      \* the cache's capacity
    MaxVersion,      \* bound: how often a board changes
    MaxTime          \* bound: when the clock stops

ListKey == "list"
Keys == Boards \cup {ListKey}

ASSUME BoardsAssumption ==
    /\ IsFiniteSet(Boards)
    /\ StartsWith \in [Boards -> SUBSET Keys]
    /\ \A b \in Boards : b \in StartsWith[b]

ASSUME BoundsAssumption ==
    /\ Ttl \in Nat
    /\ RequestTimeout \in Nat \ {0}
    /\ MaxEntries \in Nat \ {0}
    /\ MaxVersion \in Nat
    /\ MaxTime \in Nat

VARIABLES
    now,       \* Date.now()
    cache,     \* the TtlCache: key |-> [value, expiresAt, older]
    reads,     \* reader |-> [of, sentAt], the read calls awaiting their reply
    replies,   \* reader |-> the reply Vento gave to it, not yet returned
    acts,      \* actor |-> [board, sentAt], the runAction calls awaiting theirs
    results,   \* actor |-> the board version its action made, 0 if Vento declined
    version,   \* board |-> its version at Vento
    acked      \* board |-> newest version a returned runAction made (history)

vars == <<now, cache, reads, replies, acts, results, version, acked>>

-----------------------------------------------------------------------------
(* Queries and replies                                                     *)

\* "uncached" stands for getCardValue, ping, listDevices, listAgents and
\* sendToAgent: request alone, whose reply the client does not keep.
Queries ==
    [call : {"getBoard"}, board : Boards]
        \cup [call : {"listBoards", "uncached"}]

Cached(q) == q.call # "uncached"

\* The list and the boards share one name space: getBoard("list") and
\* listBoards have the same key, and are served each other's reply.
Key(q) == IF q.call = "getBoard" THEN q.board ELSE ListKey

Covers(q) ==
    CASE q.call = "getBoard"   -> {q.board}
      [] q.call = "listBoards" -> Boards
      [] q.call = "uncached"   -> {}

(* A reply shows the boards it covers as they were at Vento `at` that      *)
(* time.  `crossed`: a runAction on one of these boards returned while     *)
(* the reply was on its way, and the reply does not show that action.      *)
Replies(q) ==
    [of : {q}, seen : [Covers(q) -> 0..MaxVersion], at : 0..MaxTime, crossed : BOOLEAN]

Hit(q) == Cached(q) /\ LiveAt(cache, Key(q), now)

Deadline(call) == call.sentAt + RequestTimeout

Later(x, y) == IF x >= y THEN x ELSE y

Init ==
    /\ now = 0
    /\ cache = EmptyMap
    /\ reads = EmptyMap
    /\ replies = EmptyMap
    /\ acts = EmptyMap
    /\ results = EmptyMap
    /\ version = [b \in Boards |-> 0]
    /\ acked = [b \in Boards |-> 0]

-----------------------------------------------------------------------------
(* Read calls: cachedRequest and request                                   *)

\* A hit returns the cached reply at once and leaves everything as it was.
ServeFromCache(r, q) ==
    /\ r \notin DOMAIN reads
    /\ Hit(q)
    /\ UNCHANGED vars

\* A miss, or a call that never looks into the cache, goes to Vento.  Calls
\* start only while their deadline lies within the modelled time.
AskVento(r, q) ==
    /\ r \notin DOMAIN reads
    /\ ~ Hit(q)
    /\ now + RequestTimeout <= MaxTime
    /\ reads' = Extend(reads, r, [of |-> q, sentAt |-> now])
    /\ cache' = IF Cached(q) THEN AfterGet(cache, Key(q), now) ELSE cache
    /\ UNCHANGED <<now, replies, acts, results, version, acked>>

VentoAnswers(r) ==
    /\ r \in DOMAIN reads \ DOMAIN replies
    /\ replies' = Extend(replies, r,
           [of |-> reads[r].of,
            seen |-> [b \in Covers(reads[r].of) |-> version[b]],
            at |-> now,
            crossed |-> FALSE])
    /\ UNCHANGED <<now, cache, reads, acts, results, version, acked>>

\* The reply has been read in full: cachedRequest stores it.
ReadReturns(r) ==
    /\ r \in DOMAIN replies
    /\ cache' = IF Cached(reads[r].of)
                THEN Put(cache, Key(reads[r].of), replies[r], now, Ttl, MaxEntries)
                ELSE cache
    /\ reads' = Drop(reads, r)
    /\ replies' = Drop(replies, r)
    /\ UNCHANGED <<now, acts, results, version, acked>>

\* An error status, a network error, an unreadable body or the timeout: the
\* call throws before it stores anything.
MutReadThrows(r) ==
    /\ r \in DOMAIN reads
    /\ reads' = Drop(reads, r)
    /\ UNCHANGED <<now, cache, replies, acts, results, version, acked>>
ReadThrows(r) ==
    /\ r \in DOMAIN reads
    /\ reads' = Drop(reads, r)
    /\ replies' = Drop(replies, r)
    /\ UNCHANGED <<now, cache, acts, results, version, acked>>

\* The timeout alone; it also covers the reading of the body.
MutAbortRead(r) ==
    r \in DOMAIN reads \ DOMAIN replies /\ now = Deadline(reads[r]) /\ ReadThrows(r)
AbortRead(r) ==
    r \in DOMAIN reads /\ now = Deadline(reads[r]) /\ ReadThrows(r)

-----------------------------------------------------------------------------
(* runAction                                                               *)

StartAction(a, b) ==
    /\ a \notin DOMAIN acts
    /\ now + RequestTimeout <= MaxTime
    /\ acts' = Extend(acts, a, [board |-> b, sentAt |-> now])
    /\ UNCHANGED <<now, cache, reads, replies, results, version, acked>>

VentoRuns(a) ==
    /\ a \in DOMAIN acts \ DOMAIN results
    /\ version[acts[a].board] < MaxVersion
    /\ version' = [version EXCEPT ![acts[a].board] = @ + 1]
    /\ results' = Extend(results, a, version'[acts[a].board])
    /\ UNCHANGED <<now, cache, reads, replies, acts, acked>>

\* A 2xx answer with success false: nothing changed at Vento.
VentoDeclines(a) ==
    /\ a \in DOMAIN acts \ DOMAIN results
    /\ results' = Extend(results, a, 0)
    /\ UNCHANGED <<now, cache, reads, replies, acts, version, acked>>

\* The keys an action on board b drops from the cache.
MutInvalidated(b) == StartsWith[b]
Invalidated(b) == {ListKey} \cup StartsWith[b]

\* The replies on their way that a returned action on board b overtook.
Cross(b, made) ==
    [r \in DOMAIN replies |->
        IF b \in DOMAIN replies[r].seen /\ replies[r].seen[b] < made
        THEN [replies[r] EXCEPT !.crossed = TRUE]
        ELSE replies[r]]

ActionReturns(a) ==
    LET b == acts[a].board  made == results[a] IN
    /\ a \in DOMAIN results
    /\ cache' = Without(cache, Invalidated(b))
    /\ acts' = Drop(acts, a)
    /\ results' = Drop(results, a)
    /\ acked' = [acked EXCEPT ![b] = Later(@, made)]
    /\ replies' = Cross(b, made)
    /\ UNCHANGED <<now, reads, version>>

\* The call throws, whether or not Vento ran the action, and drops nothing.
ActionThrows(a) ==
    /\ a \in DOMAIN acts
    /\ acts' = Drop(acts, a)
    /\ results' = Drop(results, a)
    /\ UNCHANGED <<now, cache, reads, replies, version, acked>>

AbortAction(a) ==
    a \in DOMAIN acts /\ now = Deadline(acts[a]) /\ ActionThrows(a)

-----------------------------------------------------------------------------
(* Vento's own changes, and time                                           *)

BoardChanges(b) ==
    /\ version[b] < MaxVersion
    /\ version' = [version EXCEPT ![b] = @ + 1]
    /\ UNCHANGED <<now, cache, reads, replies, acts, results, acked>>

\* Time does not pass a deadline before the abort has been delivered.
MutTick ==
    /\ now < MaxTime
    /\ now' = now + 1
    /\ UNCHANGED <<cache, reads, replies, acts, results, version, acked>>
Tick ==
    /\ now < MaxTime
    /\ \A r \in DOMAIN reads : now < Deadline(reads[r])
    /\ \A a \in DOMAIN acts : now < Deadline(acts[a])
    /\ now' = now + 1
    /\ UNCHANGED <<cache, reads, replies, acts, results, version, acked>>

Read(r) ==
    \/ \E q \in Queries : ServeFromCache(r, q) \/ AskVento(r, q)
    \/ VentoAnswers(r)
    \/ ReadReturns(r)
    \/ ReadThrows(r)

Action(a) ==
    \/ \E b \in Boards : StartAction(a, b)
    \/ VentoRuns(a)
    \/ VentoDeclines(a)
    \/ ActionReturns(a)
    \/ ActionThrows(a)

Next ==
    \/ \E r \in Readers : Read(r)
    \/ \E a \in Actors : Action(a)
    \/ \E b \in Boards : BoardChanges(b)
    \/ Tick

Spec == Init /\ [][Next]_vars

\* The clock runs, and Node delivers the abort of a call at its deadline.
FairSpec ==
    /\ Spec
    /\ WF_vars(Tick)
    /\ \A r \in Readers : WF_vars(AbortRead(r))
    /\ \A a \in Actors : WF_vars(AbortAction(a))

-----------------------------------------------------------------------------
(* Properties                                                              *)

CacheTypeOK ==
    /\ DOMAIN cache \subseteq Keys
    /\ \A k \in DOMAIN cache :
         /\ cache[k].value.of \in Queries
         /\ Cached(cache[k].value.of)
         /\ cache[k].value \in Replies(cache[k].value.of)
         /\ cache[k].expiresAt \in Nat
         /\ cache[k].older \subseteq Keys

ReadsTypeOK ==
    /\ DOMAIN reads \subseteq Readers
    /\ \A r \in DOMAIN reads : reads[r] \in [of : Queries, sentAt : 0..MaxTime]
    /\ DOMAIN replies \subseteq DOMAIN reads
    /\ \A r \in DOMAIN replies : replies[r] \in Replies(reads[r].of)

ActsTypeOK ==
    /\ DOMAIN acts \subseteq Actors
    /\ \A a \in DOMAIN acts : acts[a] \in [board : Boards, sentAt : 0..MaxTime]
    /\ DOMAIN results \subseteq DOMAIN acts
    /\ \A a \in DOMAIN results : results[a] \in 0..MaxVersion

VersionsTypeOK ==
    /\ version \in [Boards -> 0..MaxVersion]
    /\ acked \in [Boards -> 0..MaxVersion]

(* Every variable has its type; in particular no reply is kept for a read  *)
(* that has ended (client.ts, request).                                    *)
TypeOK ==
    /\ now \in 0..MaxTime
    /\ CacheTypeOK
    /\ ReadsTypeOK
    /\ ActsTypeOK
    /\ VersionsTypeOK

(* No call is served a reply older than the TTL plus one request timeout:  *)
(* the lifetime of an entry starts when the reply has been read, not when  *)
(* Vento produced it, but the timeout bounds the time between the two.     *)
(* cachedRequest keeps this also when two misses of one key overlap and    *)
(* the older reply is stored last.                                         *)
StalenessBounded ==
    \A k \in DOMAIN cache :
        LiveAt(cache, k, now) => now - cache[k].value.at < Ttl + RequestTimeout

Shows(reply, newest) == \A b \in DOMAIN reply.seen : reply.seen[b] >= newest[b]

(* Once runAction has returned, no call is served a reply that does not    *)
(* show the action, neither the board's nor the list's -- except a reply   *)
(* that was already on its way when the action returned (client.ts,        *)
(* runAction drops "boards:list" and every key its board id is a prefix    *)
(* of).                                                                    *)
AckedActionsVisible ==
    \A k \in DOMAIN cache :
        LiveAt(cache, k, now) =>
            cache[k].value.crossed \/ Shows(cache[k].value, acked)

(* CACHE_TTL_SECONDS=0 disables caching: no read is ever served from the   *)
(* cache.                                                                  *)
CachingOff == Ttl = 0 => \A k \in DOMAIN cache : ~ LiveAt(cache, k, now)

(* Every call ends, with an answer or with an error, whatever Vento does   *)
(* (AbortSignal.timeout in request).                                       *)
EveryCallEnds ==
    /\ \A r \in Readers : r \in DOMAIN reads ~> r \notin DOMAIN reads
    /\ \A a \in Actors : a \in DOMAIN acts ~> a \notin DOMAIN acts

-----------------------------------------------------------------------------
(* Why the properties hold: the inductive invariant                        *)

\* A call ends by its deadline, and a reply was produced during its call.
OnTime ==
    /\ \A r \in DOMAIN reads : reads[r].sentAt <= now /\ now <= Deadline(reads[r])
    /\ \A r \in DOMAIN replies : reads[r].sentAt <= replies[r].at /\ replies[r].at <= now

\* Each entry is the reply to a read with that key, and expires in time.
Filed ==
    \A k \in DOMAIN cache :
        /\ Key(cache[k].value.of) = k
        /\ cache[k].expiresAt <= cache[k].value.at + RequestTimeout + Ttl
        /\ cache[k].expiresAt <= now + Ttl

\* Vento has every change that was made, and every reply that no action
\* overtook shows all the changes that were acknowledged.
Seen ==
    /\ \A b \in Boards : acked[b] <= version[b]
    /\ \A a \in DOMAIN results : results[a] <= version[acts[a].board]
    /\ \A r \in DOMAIN replies : replies[r].crossed \/ Shows(replies[r], acked)
    /\ \A k \in DOMAIN cache :
          cache[k].value.crossed \/ Shows(cache[k].value, acked)

Inductive == TypeOK /\ OnTime /\ Filed /\ Seen

-----------------------------------------------------------------------------
(* Claims of the documentation that the code does not keep                 *)

(* docs/ARCHITECTURE.md: after an action its board's cached reads and the  *)
(* list are gone, so that no stale state is read right after it.           *)
NoStaleAfterAction ==
    \A k \in DOMAIN cache :
        LiveAt(cache, k, now) => Shows(cache[k].value, acked)

(* docs/TROUBLESHOOTING.md: stale values right after an action mean that   *)
(* the change was made outside the connector.  At the moment a runAction   *)
(* call ends whose action Vento ran, no call is served a reply that does   *)
(* not show the action.                                                    *)
NoStaleAtActionEnd ==
    [][\A a \in DOMAIN results :
          a \notin DOMAIN acts' =>
              \A k \in DOMAIN cache' :
                  LiveAt(cache', k, now')
                      /\ acts[a].board \in DOMAIN cache'[k].value.seen
                      => cache'[k].value.seen[acts[a].board] >= results[a]]_vars

=============================================================================
