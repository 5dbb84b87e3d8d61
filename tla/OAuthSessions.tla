---------------------------- MODULE OAuthSessions ----------------------------
(***************************************************************************)
(* The OAuth routes (src/routes/oauth.ts) over the token store and the     *)
(* Vento OAuth client (src/oauth.ts).  A login opens a PKCE state, its     *)
(* callback trades a code for a token kept under a new session id, and a   *)
(* session's token is handed out, refreshed near its end, and revoked.     *)
(* Both requests to Vento are awaited without a timeout, with every other  *)
(* handler running meanwhile.  Vento itself is external: it answers with   *)
(* any lifetime and with or without a refresh token, fails, or never ends. *)
(***************************************************************************)
EXTENDS Integers, Sequences, FiniteSets, Maps

CONSTANTS
    Logins,         \* the values of `state`, each drawn at most once
    Sessions,       \* the values of `sessionId`, each drawn at most once
    Callers,        \* requests to Vento that may be under way together
    StateTimeout,   \* STATE_TIMEOUT, 10 minutes
    CleanupEvery,   \* the 5 minutes of the cleanup timer
    RefreshAhead,   \* the 5 minutes of shouldRefresh
    Lifetimes,      \* the values of expires_in; 0 stands for none
    MaxRotations,   \* bound: refresh tokens Vento sends for one session
    MaxTime         \* bound: when the clock stops

ASSUME OAuthAssumption ==
    /\ StateTimeout \in Nat
    /\ CleanupEvery \in Nat
    /\ RefreshAhead \in Nat
    /\ Lifetimes \subseteq Nat
    /\ MaxRotations \in Nat \ {0}
    /\ MaxTime \in Nat

VARIABLES
    now,          \* Date.now()
    pkceStates,   \* login |-> timestamp
    nextCleanup,  \* when the cleanup timer fires next
    exchanges,    \* caller |-> login whose code is being traded
    tokens,       \* session |-> its StoredToken
    refreshes,    \* caller |-> the session being refreshed, and with which token
    opened,       \* login |-> when it was authorized (history)
    traded,       \* login |-> when its verifier was sent to Vento (history)
    issued,       \* session ids handed out (history)
    revoked,      \* sessions a user was told are revoked (history)
    gone,         \* sessions last reported absent or revoked, or lost in a
                  \* restart, while no refresh of theirs ran (history)
    latest,       \* session |-> the last refresh token Vento sent for it (history)
    raced         \* sessions that ever had two refreshes under way (history)

rotation == <<latest, raced>>
store == <<tokens, refreshes, issued, revoked, gone, rotation>>
logins == <<pkceStates, exchanges, opened, traded>>
vars == <<now, nextCleanup, logins, store>>

\* 0 stands for undefined; both are falsy.  The refresh tokens of a session
\* are numbered in the order in which they arrive, from 1.
StoredToken == [expiresAt : Nat, refreshToken : Nat]

Init ==
    /\ now = 0
    /\ nextCleanup = CleanupEvery
    /\ pkceStates = EmptyMap /\ exchanges = EmptyMap
    /\ opened = EmptyMap /\ traded = [l \in Logins |-> <<>>]
    /\ tokens = EmptyMap /\ refreshes = EmptyMap
    /\ issued = {} /\ revoked = {} /\ gone = {}
    /\ latest = [s \in Sessions |-> 0] /\ raced = {}

Idle(c) == c \notin DOMAIN exchanges \cup DOMAIN refreshes

-----------------------------------------------------------------------------
(* Logging in: /authorize and /callback                                    *)

StateExpired(l) == now - pkceStates[l] > StateTimeout

Opens(l, timestamp) ==
    /\ l \notin DOMAIN opened
    /\ pkceStates' = Extend(pkceStates, l, timestamp)
    /\ opened' = Extend(opened, l, now)
    /\ UNCHANGED <<now, nextCleanup, exchanges, traded, store>>

\* As if the state's deadline were stored, and compared like its beginning.
MutAuthorize(l) == Opens(l, now + StateTimeout)
Authorize(l) == Opens(l, now)

\* The late callback.  (One with an unknown state, or with no code, changes
\* nothing.)
CallbackTooLate(l) ==
    /\ l \in DOMAIN pkceStates /\ StateExpired(l)
    /\ pkceStates' = Drop(pkceStates, l)
    /\ UNCHANGED <<now, nextCleanup, exchanges, opened, traded, store>>

Trades(c, l, states) ==
    /\ Idle(c)
    /\ l \in DOMAIN pkceStates /\ ~ StateExpired(l)
    /\ pkceStates' = states
    /\ exchanges' = Extend(exchanges, c, l)
    /\ traded' = [traded EXCEPT ![l] = Append(@, now)]
    /\ UNCHANGED <<now, nextCleanup, opened, store>>

\* As if the state were deleted only once the token is there.
MutCallback(c, l) == Len(traded[l]) < 2 /\ Trades(c, l, pkceStates)

\* The callback up to its await: the state is spent before Vento is asked.
Callback(c, l) == Trades(c, l, Drop(pkceStates, l))

ExpiresAt(life) == IF life = 0 THEN 0 ELSE now + life

Exchanged(c, s, life, sent) ==
    LET token == IF sent THEN 1 ELSE 0 IN
    /\ c \in DOMAIN exchanges
    /\ exchanges' = Drop(exchanges, c)
    /\ tokens' = Extend(tokens, s, [expiresAt |-> ExpiresAt(life), refreshToken |-> token])
    /\ issued' = issued \cup {s}
    /\ latest' = [latest EXCEPT ![s] = token]
    /\ UNCHANGED <<now, nextCleanup, pkceStates, opened, traded, refreshes, revoked, gone, raced>>

\* As if the id of a session could be drawn again.
MutExchangeReturns(c, s, life, sent) == Exchanged(c, s, life, sent)

\* The token arrived: it is stored under a new session id.
ExchangeReturns(c, s, life, sent) == s \notin issued /\ Exchanged(c, s, life, sent)

\* Vento declined, or sent no token: the login is lost, 500.
ExchangeThrows(c) ==
    /\ c \in DOMAIN exchanges
    /\ exchanges' = Drop(exchanges, c)
    /\ UNCHANGED <<now, nextCleanup, pkceStates, opened, traded, store>>

-----------------------------------------------------------------------------
(* Using a session: /token, /status and /revoke                            *)

TokenExpired(t) == t.expiresAt # 0 /\ t.expiresAt < now

\* TokenStore.get returns the token of s.
Live(s) == s \in DOMAIN tokens /\ ~ TokenExpired(tokens[s])

ShouldRefresh(s) ==
    tokens[s].expiresAt # 0 /\ tokens[s].expiresAt - now < RefreshAhead

Refreshing(s) == \E c \in DOMAIN refreshes : refreshes[c].session = s

GoneNow(s) == IF Refreshing(s) THEN gone ELSE gone \cup {s}

\* The 404 of all three routes; get drops a token it finds expired.
NotFound(s) ==
    /\ s \in issued /\ ~ Live(s)
    /\ tokens' = Drop(tokens, s)
    /\ gone' = GoneNow(s)
    /\ UNCHANGED <<now, nextCleanup, logins, refreshes, issued, revoked, rotation>>

Revokes(s, left) ==
    /\ Live(s)
    /\ tokens' = left
    /\ revoked' = revoked \cup {s}
    /\ gone' = GoneNow(s)
    /\ UNCHANGED <<now, nextCleanup, logins, refreshes, issued, rotation>>

\* As if the token were made to expire, not deleted.
MutRevoke(s) == Revokes(s, [tokens EXCEPT ![s].expiresAt = now])
Revoke(s) == Revokes(s, Drop(tokens, s))

\* /token near the end of the token's life asks Vento for a new one, even
\* when that was asked before.  (Otherwise /token, and /status always, only
\* read a live token.)
StartRefresh(c, s) ==
    /\ Idle(c)
    /\ Live(s) /\ ShouldRefresh(s) /\ tokens[s].refreshToken # 0
    /\ refreshes' = Extend(refreshes, c, [session |-> s, with |-> tokens[s].refreshToken])
    /\ raced' = IF Refreshing(s) THEN raced \cup {s} ELSE raced
    /\ UNCHANGED <<now, nextCleanup, logins, tokens, issued, revoked, gone, latest>>

Refreshed(c, life, sent, otherwise) ==
    LET s == refreshes[c].session IN
    /\ c \in DOMAIN refreshes
    /\ sent => latest[s] < MaxRotations
    /\ latest' = IF sent THEN [latest EXCEPT ![s] = @ + 1] ELSE latest
    /\ tokens' = Extend(tokens, s, [expiresAt |-> ExpiresAt(life),
                                    refreshToken |-> IF sent THEN latest'[s] ELSE otherwise])
    /\ refreshes' = Drop(refreshes, c)
    /\ UNCHANGED <<now, nextCleanup, logins, issued, revoked, gone, raced>>

\* As if the refresh token were taken from the answer alone.
MutRefreshReturns(c, life, sent) == Refreshed(c, life, sent, 0)

\* The answer is stored whatever became of the session meanwhile, with the
\* refresh token it brought or, without one, the one the request was made with.
RefreshReturns(c, life, sent) == Refreshed(c, life, sent, refreshes[c].with)

\* 500; what is stored stays.
RefreshThrows(c) ==
    /\ c \in DOMAIN refreshes
    /\ refreshes' = Drop(refreshes, c)
    /\ UNCHANGED <<now, nextCleanup, logins, tokens, issued, revoked, gone, rotation>>

-----------------------------------------------------------------------------
(* The cleanup timer, time, and a restart of the process                   *)

Cleaned(states) ==
    /\ now = nextCleanup
    /\ pkceStates' = [l \in states |-> pkceStates[l]]
    /\ nextCleanup' = now + CleanupEvery
    /\ UNCHANGED <<now, exchanges, opened, traded, store>>

MutCleanup == Cleaned(DOMAIN pkceStates)
Cleanup == Cleaned({l \in DOMAIN pkceStates : ~ StateExpired(l)})

\* Time does not pass the next cleanup before the timer has fired.
Tick ==
    /\ now < MaxTime /\ now < nextCleanup
    /\ now' = now + 1
    /\ UNCHANGED <<nextCleanup, logins, store>>

\* Everything is in memory, requests under way included.
Restart ==
    /\ pkceStates' = EmptyMap /\ exchanges' = EmptyMap
    /\ tokens' = EmptyMap /\ refreshes' = EmptyMap
    /\ nextCleanup' = now + CleanupEvery
    /\ gone' = issued
    /\ UNCHANGED <<now, opened, traded, issued, revoked, rotation>>

Next ==
    \/ \E l \in Logins : Authorize(l) \/ CallbackTooLate(l)
    \/ \E c \in Callers, l \in Logins : Callback(c, l)
    \/ \E c \in Callers, s \in Sessions, life \in Lifetimes, sent \in BOOLEAN :
          ExchangeReturns(c, s, life, sent)
    \/ \E c \in Callers : ExchangeThrows(c) \/ RefreshThrows(c)
    \/ \E s \in Sessions : NotFound(s) \/ Revoke(s)
    \/ \E c \in Callers, s \in Sessions : StartRefresh(c, s)
    \/ \E c \in Callers, life \in Lifetimes, sent \in BOOLEAN :
          RefreshReturns(c, life, sent)
    \/ Cleanup \/ Tick \/ Restart

Spec == Init /\ [][Next]_vars

-----------------------------------------------------------------------------
(* Properties                                                              *)

(* What waits for Vento was begun by a login or a session; nobody waits    *)
(* twice; and timestamps lie in the past, the next cleanup in the future.  *)
TypeOK ==
    /\ now \in 0..MaxTime
    /\ nextCleanup \in Nat /\ now <= nextCleanup
    /\ DOMAIN opened \subseteq Logins
    /\ \A l \in DOMAIN opened : opened[l] \in 0..now
    /\ DOMAIN pkceStates \subseteq DOMAIN opened
    /\ \A l \in DOMAIN pkceStates : pkceStates[l] = opened[l]
    /\ traded \in [Logins -> Seq(0..now)]
    /\ DOMAIN exchanges \subseteq Callers
    /\ \A c \in DOMAIN exchanges : exchanges[c] \in DOMAIN opened
    /\ DOMAIN refreshes \subseteq Callers
    /\ \A c \in DOMAIN refreshes : refreshes[c] \in [session : issued, with : Nat]
    /\ DOMAIN exchanges \cap DOMAIN refreshes = {}
    /\ issued \subseteq Sessions
    /\ DOMAIN tokens \subseteq issued
    /\ \A s \in DOMAIN tokens : tokens[s] \in StoredToken
    /\ revoked \subseteq issued /\ gone \subseteq issued /\ raced \subseteq issued
    /\ latest \in [Sessions -> 0..MaxRotations]

(* A login is traded for a token at most once, however many callbacks of   *)
(* it race across the await, and within ten minutes of its authorization   *)
(* (routes/oauth.ts, /callback: the state is deleted before the await).    *)
StateSpentOnce ==
    \A l \in Logins :
        /\ Len(traded[l]) <= 1
        /\ \A i \in DOMAIN traded[l] :
             /\ l \in DOMAIN opened \ DOMAIN pkceStates
             /\ traded[l][i] - opened[l] <= StateTimeout

(* Logins that are never finished are forgotten: no state outlives its     *)
(* timeout by more than one interval of the cleanup timer (routes/         *)
(* oauth.ts, setInterval), even when the process restarts.                 *)
StatesForgotten ==
    \A l \in DOMAIN pkceStates :
        now - pkceStates[l] <= StateTimeout + CleanupEvery

(* A session that was reported absent or revoked, or was lost in a         *)
(* restart, while no refresh of it was under way, never comes back: its id *)
(* is not drawn again, and no answer still to come will store it again     *)
(* (routes/oauth.ts, /token, /revoke, /status; oauth.ts, TokenStore).      *)
GoneStaysGone == gone \cap DOMAIN tokens = {}

Spent == {l \in Logins : traded[l] # <<>>}

(* Every session cost a login of its own: with callbacks racing, codes     *)
(* being traded and restarts between them, the sessions handed out and     *)
(* those still to come are never more than the logins whose state was      *)
(* spent (routes/oauth.ts, /callback; oauth.ts, TokenStore).               *)
NoFreeSessions ==
    Cardinality(issued) + Cardinality(DOMAIN exchanges) <= Cardinality(Spent)

(* A session keeps the last refresh token that Vento sent for it, through  *)
(* answers that bring one and answers that bring none, and when it expires *)
(* during a refresh and is stored again.  Only when two of its refreshes   *)
(* ran together may it fall back to an older one, since an answer without  *)
(* a token restores the one its request was made with; it never loses all  *)
(* of them (routes/oauth.ts, /token).                                      *)
LatestTokenKept ==
    \A s \in DOMAIN tokens :
        \/ tokens[s].refreshToken = latest[s]
        \/ s \in raced /\ tokens[s].refreshToken # 0

(* Whatever becomes of tokens, refreshes and the process, the sessions a   *)
(* user sees live as SessionLife says: one login each, no way back but by  *)
(* a refresh asked for while they were there (routes/oauth.ts, oauth.ts).  *)
Life == INSTANCE SessionLife WITH
            fresh <- Sessions \ issued,
            held  <- DOMAIN tokens,
            asked <- {refreshes[c].session : c \in DOMAIN refreshes}

ImplementsSessionLife == Life!Spec

-----------------------------------------------------------------------------
(* Why the properties hold: the inductive invariant                        *)

\* A state is in the store until it is traded, and not after.
Unspent ==
    \A l \in Logins :
        l \in DOMAIN pkceStates \/ l \notin DOMAIN opened => Len(traded[l]) = 0

\* The cleanup timer is never late, and what it left was young enough.
CleanupOnTime ==
    /\ nextCleanup <= now + CleanupEvery
    /\ \A l \in DOMAIN pkceStates :
          nextCleanup - pkceStates[l] <= StateTimeout + CleanupEvery

\* No refresh of a session that is gone is under way.
Quiet == \A c \in DOMAIN refreshes : refreshes[c].session \notin gone

\* A refresh is made with a token, the last that arrived unless it is raced.
MadeWithLatest ==
    \A c \in DOMAIN refreshes :
        /\ refreshes[c].with # 0
        /\ refreshes[c].session \notin raced =>
             /\ refreshes[c].with = latest[refreshes[c].session]
             /\ \A d \in DOMAIN refreshes \ {c} :
                  refreshes[d].session # refreshes[c].session

\* What NoFreeSessions counts can be counted.
Countable ==
    IsFiniteSet(issued) /\ IsFiniteSet(DOMAIN exchanges) /\ IsFiniteSet(Spent)

Inductive ==
    /\ TypeOK /\ StateSpentOnce /\ Unspent /\ CleanupOnTime /\ Quiet /\ GoneStaysGone
    /\ MadeWithLatest /\ LatestTokenKept /\ Countable /\ NoFreeSessions

-----------------------------------------------------------------------------
(* A claim of the documentation that the code does not keep                *)

(* docs/oauth.md: users can revoke connector access anytime, and /revoke   *)
(* revokes a session token; that is, a session its user was told is        *)
(* revoked is not in the store again.                                      *)
RevokedStaysRevoked == revoked \cap DOMAIN tokens = {}

=============================================================================
