# TLA+ models of the Vento remote MCP connector

The connector is one Node.js process between MCP clients and a Vento instance.
This directory models the parts of it that keep state and interleave: the read
cache and the Vento client, the rate limiter, the OAuth sessions, the HTTP
server that puts the limiter in front of the routes, and the way of a tool call
through all of them under a permission policy. TLC checks the models on small
instances; TLAPS proves the safety properties for every value of the
constants. Paths below are relative to the repository; `client.ts` is
`src/vento/client.ts`, and so on.

Run a check or a proof in this directory:

    tlc -config client_core.cfg MCVentoClient
    tlapm VentoClientProofs.tla

## The system

| Part | State it keeps | Operations | Talks to |
| --- | --- | --- | --- |
| `cache.ts` TtlCache | a Map of values with expiry, in insertion order | get, set, delete, deletePrefix, clear | the Vento client |
| `vento/client.ts` VentoClient | its cache | listBoards, getBoard (cached); getCardValue, listDevices, listAgents, sendToAgent, ping (uncached); runAction (invalidates) | Vento, with a 15 s timeout per request |
| `vento/registry.ts` | one client per instance, fixed at start-up | getClient | the clients |
| `rateLimit.ts` RateLimiter | per client key: minute and second windows | check, prune (timer) | the HTTP server |
| `routes/oauth.ts`, `oauth.ts` | PKCE states, tokens by session | authorize, callback, token, status, revoke; cleanup timer | Vento's OAuth endpoint, without a timeout |
| `index.ts` | the requests in flight | body parser, request id, headers, metrics, limiter, authentication, routes | all of the above |
| `observability/metrics.ts` | counters, histogram, in-flight gauge | middleware, render | read by /metrics only |
| `tools/execute.ts` | none (counts outcomes) | executeTool: lookup, policy, instance, handler | registry, policy, handlers |
| `tools/*.ts` handlers | none | one call of the client each, errors turned into text | VentoClient |
| `permissions.ts`, `tools/registry.ts` | a policy and a table, fixed at start-up | isToolAllowed, listAllowedTools | executeTool, /info, tools/list |
| `auth.ts`, `security/headers.ts`, `middleware/requestId.ts` | none | per-request checks and headers | the HTTP server |
| `server.ts` | none | the stdio transport over executeTool | executeTool |
| `config.ts`, `vento/types.ts` | constants | validation at start-up | everything |

What is hard here. Every handler runs alone up to its next `await`, and there
other handlers run: a read that missed the cache overlaps an action that
invalidates it; a refresh of a token overlaps the revocation of its session;
two callbacks carry the same login. A request to Vento may be answered late, be
carried out and its answer lost, or be aborted at its timeout. Timers (prune,
cleanup) run beside requests. Clients disconnect while their handlers run. A
restart loses everything, since all state is in memory.

What makes each part correct:

- cache: capacity, the key inserted first is the one displaced and only when it
  has to be, no answer is otherwise lost, kept or altered;
- client: a hit is not too old, and not from before an action that has returned;
  every call ends;
- limiter: how many requests get through in any minute or second, an honest
  Retry-After, bounded memory, the same decisions with and without pruning;
- OAuth: a login is spent once and in time and is forgotten in time, a session
  that is gone stays gone, a session keeps the newest refresh token it was sent;
- server: its books agree with the requests in flight, a refused request gets
  nowhere, Vento is not asked more than the limiter admits, every request ends;
- end to end: a client reads what had been done when it asked, what the policy
  forbids does not reach Vento, and client and server agree on what is under way.

`PROJECT.json` lists each hazard at its line with the property that covers it.

## The modules

| Module | Models | Composes |
| --- | --- | --- |
| `Maps` | a JavaScript Map as a partial function (external) | |
| `TtlMap` | the cache operations as operators on a cache value | Maps |
| `TtlCache` | TtlCache as a machine of its own | TtlMap |
| `CacheContract` | what callers of the cache rely on (abstract) | |
| `VentoClient` | the client with its cache, Vento external | TtlMap |
| `FixedWindow` | a limiter whose windows vanish when over (abstract) | |
| `RateLimiter` | check, prune, the timer | Maps, refines FixedWindow |
| `OAuthSessions` | routes and token store, Vento external | Maps |
| `SessionLife` | what users rely on about sessions (abstract) | refined by OAuthSessions |
| `Gateway` | the HTTP server | RateLimiter (`INSTANCE`) |
| `ToolTable` | the tools, the policy, the names of instances | |
| `Connector` | the server, executeTool, the handlers and one Vento client | Gateway, VentoClient, ToolTable |
| `*Proofs` | the theorems about each, `ToolTableProofs` on every configuration | |
| `MC*` | the instances for TLC | |

**TtlMap, TtlCache.** A Map's insertion order is kept as `older`, the set of
keys inserted before an entry's key: an overwrite keeps it, a deletion removes
the key from all. `LiveAt`/`AfterGet` are `get` (an entry at its expiry is
over, and is deleted by whoever asks), `Without` is `delete` and `deletePrefix`,
`MakeRoom` and `Put` are `set`. A prefix is the set of keys it matches.
CacheContract has no entries but live ones, and beside them the places that keys
take up (`held`) and the order in which they were taken (`order`). A key set again
keeps its place and its rank; a new one takes a free place, and only when there is
none does it displace a key, the first. A delete takes away what it names, a
lookup in vain gives the place of an entry that is over back, time ends lives and
frees no place. TtlCache implements it with the keys of the Map for `held` and
`older` read as pairs for `order`: whoever evicts another entry, evicts below
capacity, moves an overwritten key, or loses one to a get breaks `KeepsContract`.

**VentoClient.** A call is as many steps as it has awaits: `AskVento` looks into
the cache and sends, `VentoAnswers` is Vento producing the reply, `ReadReturns`
stores it, `ReadThrows`/`AbortRead` is any failure. `StartAction`, `VentoRuns` or
`VentoDeclines`, `ActionReturns` (with the invalidation) and `ActionThrows` are
runAction. A board is a version number; a reply carries the versions it shows
(`seen`), when Vento produced it (`at`) and whether an action overtook it
(`crossed`, history). The list and the boards share one space of keys, so the list
and a board called `list` share an entry (`Key`, client.ts:114,130): either may be
served the other's reply, which no property here forbids and every one allows for.
Vento also changes boards by itself, and may run an action whose call has given
up. Time does not pass a deadline before the abort is delivered: timers are taken
as punctual, here and in the other modules.

**RateLimiter.** `Current` is a window after the lazy restarts, `Admit`,
`RefuseBurst` and `RefuseMinute` are the three outcomes of `check`, `Prune` the
timer. `admitted` logs the admissions, `refused` the last refusal (both history).
A tick is an arbitrary unit; `Minute` and `Second` are constants.

**OAuthSessions.** `Authorize`, `Callback` and `CallbackTooLate` up to the await,
`ExchangeReturns`/`ExchangeThrows` after it; `StartRefresh`, then
`RefreshReturns`/`RefreshThrows`; `Revoke`; `NotFound` is the 404 of all three
session routes, which also drops an expired token. `Restart` empties everything.
`NoFreeSessions` counts: sessions ever begun and exchanges under way are together
no more than the logins spent, so no login opens two sessions.
Login and session ids are drawn fresh, as random ones are. The refresh tokens of a
session are numbered as they arrive, 0 standing for none: a refresh carries the one
it was made with, Vento may answer with a new one or with none, and then
`RefreshReturns` keeps the one of the token object its route holds (routes/oauth.ts:147).
`latest` is the last one Vento sent, `raced` the sessions that ever had two refreshes
under way (both history): of two that race, the one that returns last may store the
older token, which `LatestTokenKept` leaves out and nothing in the code prevents.
SessionLife forgets tokens, callers and time, and keeps which ids are unused, which
sessions are there and which have a refresh under way; a session may end at any
moment (expiry, revocation, restart) and comes back only through a refresh that was
asked for while it was there.

**Gateway.** A request runs from the body parser to its answer or its first
await in one step, because nothing before the routes awaits once the body is
there: `Bypass` (a body that is no JSON, or OPTIONS, before metrics and limiter), `Refuse`
(429), `AnswerAtOnce`, `AskVento`. Then `VentoEnds` resumes the handler, `Finish` is
the response's "finish", `Disconnect` a client that closes first. The kinds of
request (`Asks`) are those that differ in what they await or count. The limiter
is RateLimiter's own actions. What a tool does with Vento is abstracted to one
request and its end; Connector puts VentoClient in its place. `lost`, `calls` and
`toolCalls` are history.

**ToolTable.** The table of the six tools with their danger levels, the policy
that `buildPolicy` makes of ALLOWED_TOOLS and ALLOW_DESTRUCTIVE_TOOLS, what it
allows, and `Fate`, what executeTool makes of a call before any handler runs:
unknown, denied, for an instance nobody configured, or for a handler that may be
answered from the cache or must ask Vento. No state: it is read at start-up.

**Connector.** A step of the process is a step of Gateway, of VentoClient, or of
both at once: a tool call that finds its reply in the cache is Gateway's
`AnswerAtOnce` and VentoClient's `ServeFromCache`; one that does not is the `AskVento`
of both (or `StartAction`), and the end of the client's call (`ReadReturns`,
`ActionReturns`, a failure, the abort) is Gateway's `VentoEnds`. A call of the client
carries the name of its request. `Reading` is what each handler asks for, `jobs` which
tool a request runs and what it had seen when it came in, `answers` what it is
answered with (history, until the answer is flushed or the client has left).
`Disconnect` leaves the Vento client alone: nothing in the code cancels a tool.

## The runs

| Run | Question | Bounds |
| --- | --- | --- |
| `client_core` | what may the cache serve while reads and an action overlap? | 2 readers, 1 action, 2 boards (`list`, which is also the key of the list, a prefix of `list2`), room for both keys, TTL 2, timeout 1, 3 ticks, 1 change per board |
| `client_uncached` | is caching off at TTL 0, and does every call end? | 1 reader, 1 action, timeout 2, fairness |
| `client_overtaken` | the documentation's claim on actions (violated) | 1 reader, 1 action |
| `client_thrown` | the documentation's claim on stale reads (violated) | 1 reader, 1 action |
| `cache_contract` | what does a set displace, and is anything else lost early or kept late? | 4 keys, 2 sharing a prefix, room for 3, lifetimes 0 to 2, 3 ticks |
| `limiter` | bounds, who is refused, Retry-After, pruning, refinement | 1 client, limits 3 and 2, minute 6, second 2, 19 ticks |
| `limiter_sliding` | a sliding window? (violated) | the same |
| `oauth` | logins and sessions; is every session paid for by a login, and does it live as SessionLife says? | 2 logins, 2 sessions, 2 requests to Vento, 2 refresh tokens for a session, 6 ticks |
| `oauth_revoked` | does a revoked session stay revoked? (violated) | the same |
| `gateway` | books, load on Vento per minute and second, termination | 1 client key, 2 requests in flight, limits 1 and 1, minute 2, 3 ticks, 1 lost client, fairness |
| `gateway_gauge` | does the gauge count requests in flight? (violated) | the same |
| `connector` | what do clients see end to end, and does the client's timeout give the server what it takes for granted? | 1 client key, 2 requests in flight, 3 admissions, 1 board, room for 1 entry, 3 tools and the probe, 2 policies, TTL 2, timeout 1, 1 tick, 1 change by Vento, 1 lost client, fairness |

Why the bounds suffice. Two readers are enough for two misses of one key to
cross, with an action between them; the list and both boards fit into the cache
together, so that an action has to drop several entries; a timeout of one tick
lets replies be one tick old when they are stored. Eviction only takes entries
away: `cache_contract` has four keys and room for three, `connector` two and room for one. The limiter's clock passes three minutes, so a window is
created, restarted, pruned (older than two minutes) and created again, and a
minute holds several seconds that are not aligned with it. One client is
enough there: seen by one of its clients, the limiter is a limiter with that
client alone (`ClientsAreIndependent`, proved). In `oauth` two sessions with two
callers let two refreshes of one session race, and a refresh race a revocation
and an expiry; the clock passes a login's timeout and the life of a token. In
`gateway` two slots that are reused let a refused, a waiting and an abandoned
request meet. In `connector` three admissions let a read that waits be overtaken by
an action and a third request read the outcome; each policy denies one of the
reads, and one names the action without allowing it; one tick is the timeout, so an abort
competes with the answer. Expiry and two boards are left to
`client_core`, refusals by a limit that fills to `gateway`: the connector's proofs
hold for all of these values. With a minute limit and a burst limit of 1, the
burst half of `UpstreamBounded` follows from its minute half in `gateway`; what
shows it for limits that differ is its proof. The tools whose reads are uncached make the same
calls as the readiness probe and are counted like any tool, so TLC goes without
them. `CHECK_DEADLOCK FALSE` stands where the bounded clock ends a
behaviour: when it stops, or a log is full, nothing may be left to do.
Readers, actors, logins, sessions and callers are interchangeable, so
`client_core` and the OAuth runs use symmetry; the runs with liveness do not.

Bounds that are not the code's: `MaxTime`, `MaxVersion`, `MaxLost`, `MaxRotations`, the sets
`Readers`, `Actors`, `Requests`, `Logins`, `Sessions`, `Callers`. VentoClient starts a
call only while its deadline lies within `MaxTime`, so that no call is cut off by
the end of the clock.

Fairness. `VentoClient!FairSpec`: the clock runs, and the abort of a call is
delivered at its deadline (`AbortSignal.timeout`); nothing is assumed of Vento.
`Gateway!FairSpec`: Node flushes an answer that was written, and a request to
Vento with a timeout ends, which `connector` derives. An OAuth exchange
has no timeout in this code, so no fairness is assumed for it and
`EveryRequestEnds` leaves it out. `Connector!FairSpec` assumes the clock, the delivery
of an abort and the flush of an answer, and not that a request to Vento ends:
that part of Gateway's fairness is what `ServesAsGateway` derives, disconnected
clients included.

What the violated runs show is recorded under "findings": a read overtaken by
an action, an action whose answer is lost, fixed rather than sliding windows, a
revoked session restored by its refresh, and a gauge that keeps counting
clients that left. Four more disagreements were met and have no run, since they
can be read off the code:

- tools/registry.ts:36 says vento_get_board gets "the complete state of a board";
  asked for the board id `list` while the list of boards is cached, it is answered
  with that list, and listBoards with such a board, because both use the key
  `boards:list` (client.ts:114,130). Any client can send that id, and Vento need not
  have a board of that name.
- README.md:333-335 offers ALLOW_DESTRUCTIVE_TOOLS=false "for read-only
  deployments", and examples/.env.production.example:80 counts
  vento_send_to_agent among what it switches off; the code gives that tool level
  warning (tools/registry.ts), which the flag does not stop (permissions.ts:35).
- README.md:291 says the primary instance "is always available as `default`"; an
  instance of VENTO_INSTANCES with that name replaces it (vento/registry.ts:52-57).
- README.md:306 says every HTTP response carries an X-Request-Id; the body parser
  runs before the middleware that sets it (index.ts:86-87), so the answer to a
  body that is no JSON has none.

Every property of a passing run has a mutant, a definition changed as a
plausible bug would change it, which the run then refutes; the mutated
definitions stand beside the originals as `Mut...`.

## The proofs

All of these hold for every value of the constants that meets the modules'
`ASSUME`s (natural numbers, positive limits, `Second <= Minute`, a board id is a
prefix of itself).

- **TtlMapProofs**: the operators keep the order of insertion total
  (`InOrder`), and a non-empty finite cache has exactly one oldest entry (a
  minimal element of a well-founded order), so `Put` keeps the capacity.
- **TtlCacheProofs**: `TypeOK`, `CapacityHeld`, and that TtlCache implements
  CacheContract. A get is a stutter when the entry lives or is absent and gives its
  place back when it is over (`GetAnswers`); a set keeps its place, takes a free one
  or displaces the first key (`SetFindsPlace`), which is where the order has to be
  total (`OneOldest`); the invariant under it is `InOrder` and the capacity.
- **VentoClientProofs**: `StalenessBounded` from `OnTime` (a call ends by its
  deadline, so a reply is at most one timeout old when stored) and `Filed` (an
  entry expires at most timeout + TTL after its reply was produced);
  `AckedActionsVisible` from `Seen` (every reply, on its way or cached, that no
  action overtook shows every acknowledged action; the step that matters is
  `ActionReturns`, which drops every key whose reply could be older);
  `CachingOff`; and the capacity of its cache (`ClientCacheWithinCapacity`). A board
  called `list` is one of the boards they hold for.
- **RateLimiterProofs**: the limits need the log of all admissions. `Ledger`
  says that a window counts the last entries of its client's log, that the
  earlier ones came before it, and that those beyond one more limit were over
  when it began; it is preserved by restarting, by counting, and by pruning,
  because a pruned window is older than any it could affect. `MinuteBound` and
  `BurstBound` follow; `RetryAfterHonest` adds `Refusals`, `DormantForgotten` adds
  `PruneOnTime`; `Paired` relates the two windows of a client, for which the
  refinement of FixedWindow needs it. `RefusalsDeserved` also comes from `Ledger`: a
  full window that is not over counts only admissions of the last span
  (`FullIsSpent`). `ClientsAreIndependent` maps every step to one of the same limiter
  restricted to one client (`Solo`), or to a stutter when another client asks.
- **OAuthSessionsProofs**: `StateSpentOnce` (a state is in the store until it is
  traded and not after, `Unspent`), `StatesForgotten` (`CleanupOnTime`),
  `GoneStaysGone` (`Quiet`: no refresh of a session that is gone runs),
  `LatestTokenKept` (`MadeWithLatest`: while its refreshes never ran together, the one
  under way was made with the newest token, so falling back on it loses nothing).
  `NoFreeSessions` is a count, proved with the cardinality of the
  sets it compares (`Countable`, `NextPaid`): a callback spends a login for the
  exchange it starts, and an exchange that returns becomes the session. The refinement of SessionLife maps the refreshes under way to
  the set of their sessions; the one step that needs care is the end of one of
  several refreshes of a session (`RefreshSettles`).
- **GatewayProofs**: Gateway takes its limiter's steps from RateLimiter, so what it does
  to the limiter is a behaviour of RateLimiter (the lemma `LimiterInside`, which holds
  by how the module is put together) and RateLimiterProofs' theorems apply to it; `BooksBalance` and `ToolCallsCounted`
  from `Counting`; `UpstreamBounded` from `CallsAreAdmitted` (the requests made to Vento
  are a subsequence of the admissions) and the limiter's `MinuteBound` and
  `BurstBound`: a subsequence of a log is spaced at least as widely (`PartIsSpaced`).
- **ConnectorProofs**: every step is a step or a stutter of Gateway and of
  VentoClient (`ConnectorServes`), so what is proved of the two holds here
  (`ConnectorInherits` states it: the books, counts and load on Vento of the server,
  the staleness, visibility and capacity of the client), and the client's inductive
  invariant can be used. On top of it `Traced` says that
  what a request had seen when it came in stays acknowledged and that no reply to
  it is older; with the client's `Seen`, which covers replies from the cache,
  `ReadYourActions` follows. `Lawful` (who calls the client is the probe or an
  allowed tool) gives `ForbiddenStaysAway`, under every policy.
- **ToolTableProofs**: for every value of ALLOWED_TOOLS and ALLOW_DESTRUCTIVE_TOOLS,
  a tighter configuration allows no more (`TighterAllowsNoMore`), naming vento_run_action does
  not stand in for the flag (`NamingIsNotEnough`), and commas alone allow nothing
  (`CommasAllowNothing`). The exception the code makes is in `Grants`: a blank list is
  an unset one, so emptying a list grants everything.

What the refuted claims would need is proved too: each holds of every behaviour
in which the one race that TLC found does not happen, so that race is all there is
to fix. The hypotheses are action properties that the code does not enforce and
ordinary behaviours satisfy.

| Claim (violated run) | holds while | Theorem |
| --- | --- | --- |
| `NoStaleAfterAction` (`client_overtaken`) | no action returns with an older reply about its board on its way | `OvertakingIsTheOnlyGap` |
| `NoStaleAtActionEnd` (`client_thrown`) | every action that Vento ran is answered in time | `LostAnswersAreTheOnlyGap` |
| `SlidingWindow` (`limiter_sliding`) | a stored window starts anew only for a client admitted nothing for a minute | `StraddlingIsTheOnlyGap` |
| `RevokedStaysRevoked` (`oauth_revoked`) | no session is revoked with its refresh under way | `RacingRefreshesAreTheOnlyGap` |
| `GaugeIsInFlight` (`gateway_gauge`) | no client leaves before its answer is flushed | `LostClientsAreTheOnlyGap` |

The inductive invariants (`Inductive` in each module) were checked with TLC before they
were proved.

Only model-checked: liveness (`EveryCallEnds`, `EveryRequestEnds`, and the fairness
half of `ServesAsGateway`, whose safety half is `ConnectorServes`), which is beyond
the prover. The violated claims are refuted by TLC.

## Not modelled, and why

- Text: results, logs, headers, redirect URIs, JSON bodies. No property is
  about them.
- Counters that are only rendered (cache hits, calls to Vento, refusals,
  authentication failures, durations): nothing reads them back, and no document
  says how a call whose body fails is to be counted (client.ts:79 counts it
  twice). The gauge and the tool counter are modelled.
- The comparison of tokens, PKCE values, the parsing of the configuration: pure
  functions of their input.
- Several instances in one process: their clients share no state, so one is
  followed. OAuth inside Connector: it has a client of its own, and Gateway and
  OAuthSessions have its requests and its state.
- What an agent does with a message: Vento's own changes (`BoardChanges`) stand
  for it.
- The stdio transport: it keeps no state besides executeTool's.
- A clock that steps back: every module takes `Date.now` as monotone.
- RATE_LIMIT_ENABLED=false: the server without the limiter.

## Plan

Done: the cache and its contract, the client, the limiter and its abstract
specification, the OAuth sessions and theirs, the HTTP server over the limiter,
the permission policy, the composition of the server with the Vento client, and
the safety proofs of all of them, compositions and refinements included.

Left, and why:

1. The call counters of the client (above): worth a model once a document says
   what they count.
2. The stdio transport beside the HTTP one: it would be Connector without the
   server, that is VentoClient with ToolTable's policy.
3. Several instances with a client each: worth it once instances share
   anything, such as one cache.
