------------------------- MODULE OAuthSessionsProofs -------------------------
(* OAuthSessions for any number of logins, sessions and requests under     *)
(* way, and any timeouts: logins are spent once and in time, sessions that *)
(* are gone stay gone, and refreshes keep the token to refresh with next.  *)
EXTENDS OAuthSessions, FiniteSetTheorems, TLAPS

(* Times on record stay in the past.                                       *)
LEMMA PastGrows ==
    ASSUME NEW t \in Nat, NEW log \in Seq(0..t)
    PROVE  log \in Seq(0..(t + 1)) /\ Append(log, t) \in Seq(0..t)
<1>1. 0..t \subseteq 0..(t + 1) /\ t \in 0..t
  OBVIOUS
<1>2. Len(log) \in Nat /\ log \in [1..Len(log) -> 0..t]
  OBVIOUS
<1>3. log \in [1..Len(log) -> 0..(t + 1)]
  BY <1>1, <1>2
<1> QED BY <1>1, <1>2, <1>3

-----------------------------------------------------------------------------
(* Types                                                                   *)

LEMMA InitTypes == Init => TypeOK
  BY OAuthAssumption DEF Init, EmptyMap, TypeOK

LEMMA NextTypes == TypeOK /\ [Next]_vars => TypeOK'
<1> USE OAuthAssumption
<1> SUFFICES ASSUME TypeOK, [Next]_vars PROVE TypeOK'
  OBVIOUS
<1>0. now \in Nat /\ \A life \in Lifetimes : ExpiresAt(life) \in Nat
  <2>1. now \in Nat
    BY DEF TypeOK
  <2> QED BY <2>1 DEF ExpiresAt
<1>1. ASSUME NEW l \in Logins, Authorize(l) PROVE TypeOK'
  <2>1. /\ DOMAIN opened' = DOMAIN opened \cup {l} /\ opened'[l] = now
        /\ \A x \in DOMAIN opened : opened'[x] = opened[x]
        /\ DOMAIN pkceStates' = DOMAIN pkceStates \cup {l} /\ pkceStates'[l] = now
        /\ \A x \in DOMAIN pkceStates : pkceStates'[x] = pkceStates[x]
    BY <1>1 DEF Authorize, Opens, Extend, TypeOK
  <2>2. UNCHANGED <<now, nextCleanup, exchanges, traded, store>>
    BY <1>1 DEF Authorize, Opens
  <2> QED BY <1>0, <2>1, <2>2 DEF TypeOK, store, rotation
<1>2. ASSUME NEW l \in Logins, CallbackTooLate(l) PROVE TypeOK'
  BY <1>2 DEF CallbackTooLate, Drop, TypeOK, store, rotation
<1>3. ASSUME NEW c \in Callers, NEW l \in Logins, Callback(c, l) PROVE TypeOK'
  <2>1. /\ Idle(c) /\ l \in DOMAIN pkceStates
        /\ pkceStates' = Drop(pkceStates, l)
        /\ exchanges' = Extend(exchanges, c, l)
        /\ traded' = [traded EXCEPT ![l] = Append(traded[l], now)]
        /\ UNCHANGED <<now, nextCleanup, opened, store>>
    BY <1>3 DEF Callback, Trades
  <2>2. traded' \in [Logins -> Seq(0..now)]
    <3>1. Append(traded[l], now) \in Seq(0..now)
      BY <1>0, PastGrows DEF TypeOK
    <3> QED BY <2>1, <3>1 DEF TypeOK
  <2>3. /\ DOMAIN exchanges' = DOMAIN exchanges \cup {c}
        /\ \A x \in DOMAIN exchanges' : exchanges'[x] \in DOMAIN opened
    BY <2>1 DEF Extend, TypeOK
  <2>4. /\ DOMAIN pkceStates' \subseteq DOMAIN pkceStates
        /\ \A x \in DOMAIN pkceStates' : pkceStates'[x] = pkceStates[x]
    BY <2>1 DEF Drop
  <2> QED BY <2>1, <2>2, <2>3, <2>4 DEF TypeOK, Idle, store, rotation
<1>4. ASSUME NEW c \in Callers, NEW s \in Sessions, NEW life \in Lifetimes,
             NEW r \in BOOLEAN, ExchangeReturns(c, s, life, r)
      PROVE  TypeOK'
  <2>1. /\ DOMAIN tokens' = DOMAIN tokens \cup {s}
        /\ tokens'[s] = [expiresAt |-> ExpiresAt(life), refreshToken |-> IF r THEN 1 ELSE 0]
        /\ \A x \in DOMAIN tokens : x # s => tokens'[x] = tokens[x]
        /\ DOMAIN exchanges' = DOMAIN exchanges \ {c}
        /\ \A x \in DOMAIN exchanges' : exchanges'[x] = exchanges[x]
        /\ issued' = issued \cup {s}
        /\ latest' = [latest EXCEPT ![s] = IF r THEN 1 ELSE 0]
        /\ UNCHANGED <<now, nextCleanup, pkceStates, opened, traded, refreshes, revoked, gone, raced>>
    BY <1>4 DEF ExchangeReturns, Exchanged, Extend, Drop
  <2>2. ExpiresAt(life) \in Nat
    BY <1>0
  <2>3. tokens'[s] \in StoredToken
    BY <2>1, <2>2 DEF StoredToken
  <2>4. latest' \in [Sessions -> 0..MaxRotations]
    BY <2>1 DEF TypeOK
  <2> QED BY <2>1, <2>3, <2>4 DEF TypeOK
<1>5. ASSUME NEW c \in Callers, ExchangeThrows(c) PROVE TypeOK'
  BY <1>5 DEF ExchangeThrows, Drop, TypeOK, store, rotation
<1>6. ASSUME NEW c \in Callers, RefreshThrows(c) PROVE TypeOK'
  BY <1>6 DEF RefreshThrows, Drop, TypeOK, logins, rotation
<1>7. ASSUME NEW s \in Sessions, NotFound(s) PROVE TypeOK'
  BY <1>7 DEF NotFound, GoneNow, Drop, TypeOK, logins, rotation
<1>8. ASSUME NEW s \in Sessions, Revoke(s) PROVE TypeOK'
  BY <1>8 DEF Revoke, Revokes, Live, GoneNow, Drop, TypeOK, logins, rotation
<1>9. ASSUME NEW c \in Callers, NEW s \in Sessions, StartRefresh(c, s) PROVE TypeOK'
  <2>1. /\ Idle(c) /\ s \in DOMAIN tokens
        /\ DOMAIN refreshes' = DOMAIN refreshes \cup {c}
        /\ refreshes'[c] = [session |-> s, with |-> tokens[s].refreshToken]
        /\ \A x \in DOMAIN refreshes : x # c => refreshes'[x] = refreshes[x]
        /\ raced' \subseteq raced \cup {s}
        /\ UNCHANGED <<now, nextCleanup, logins, tokens, issued, revoked, gone, latest>>
    BY <1>9 DEF StartRefresh, Live, Extend
  <2>2. s \in issued /\ tokens[s].refreshToken \in Nat
    BY <2>1 DEF TypeOK, StoredToken
  <2>3. refreshes'[c] \in [session : issued, with : Nat]
    BY <2>1, <2>2
  <2> QED BY <2>1, <2>2, <2>3 DEF TypeOK, Idle, logins, rotation
<1>10. ASSUME NEW c \in Callers, NEW life \in Lifetimes, NEW r \in BOOLEAN,
             RefreshReturns(c, life, r)
       PROVE  TypeOK'
  <2> DEFINE s == refreshes[c].session
  <2>1. /\ c \in DOMAIN refreshes
        /\ r => latest[s] < MaxRotations
        /\ latest' = IF r THEN [latest EXCEPT ![s] = latest[s] + 1] ELSE latest
        /\ DOMAIN tokens' = DOMAIN tokens \cup {s}
        /\ tokens'[s] = [expiresAt |-> ExpiresAt(life),
                          refreshToken |-> IF r THEN latest'[s] ELSE refreshes[c].with]
        /\ \A x \in DOMAIN tokens : x # s => tokens'[x] = tokens[x]
        /\ DOMAIN refreshes' = DOMAIN refreshes \ {c}
        /\ \A x \in DOMAIN refreshes' : refreshes'[x] = refreshes[x]
        /\ UNCHANGED <<now, nextCleanup, logins, issued, revoked, gone, raced>>
    BY <1>10 DEF RefreshReturns, Refreshed, Extend, Drop
  <2>2. s \in issued /\ s \in Sessions /\ refreshes[c].with \in Nat /\ latest[s] \in 0..MaxRotations
    BY <2>1 DEF TypeOK
  <2>3. latest' \in [Sessions -> 0..MaxRotations]
    BY <2>1, <2>2 DEF TypeOK
  <2>4. (IF r THEN latest'[s] ELSE refreshes[c].with) \in Nat
    BY <2>2, <2>3
  <2>5. tokens'[s] \in StoredToken
    BY <1>0, <2>1, <2>4 DEF StoredToken
  <2> QED BY <2>1, <2>2, <2>3, <2>5 DEF TypeOK, logins, rotation
<1>11. CASE Cleanup
  BY <1>11 DEF Cleanup, Cleaned, TypeOK, store, rotation
<1>12. CASE Tick
  <2>1. /\ now' = now + 1 /\ now < MaxTime /\ now < nextCleanup
        /\ UNCHANGED <<nextCleanup, logins, store>>
    BY <1>12 DEF Tick
  <2>2. \A l \in Logins : traded[l] \in Seq(0..now')
    BY <1>0, <2>1, PastGrows DEF TypeOK
  <2>3. traded' \in [Logins -> Seq(0..now')]
    BY <2>1, <2>2 DEF TypeOK, logins, rotation
  <2> QED BY <1>0, <2>1, <2>3 DEF TypeOK, logins, store, rotation
<1>13. CASE Restart
  BY <1>13 DEF Restart, EmptyMap, TypeOK, rotation
<1>14. CASE UNCHANGED vars
  BY <1>14 DEF vars, store, logins, rotation, TypeOK
<1> QED
  BY <1>1, <1>2, <1>3, <1>4, <1>5, <1>6, <1>7, <1>8, <1>9, <1>10, <1>11, <1>12, <1>13, <1>14
  DEF Next

(* What waits for Vento was begun by a login or a session (both files).    *)
THEOREM OAuthTypes == Spec => []TypeOK
<1> QED BY InitTypes, NextTypes, PTL DEF Spec

-----------------------------------------------------------------------------
(* Logins                                                                  *)

LoginsFine == StateSpentOnce /\ Unspent /\ CleanupOnTime

LEMMA InitLogins == Init => LoginsFine
  BY OAuthAssumption
     DEF Init, EmptyMap, LoginsFine, StateSpentOnce, Unspent, CleanupOnTime

LEMMA NextLogins == TypeOK /\ LoginsFine /\ [Next]_vars => LoginsFine'
<1> USE OAuthAssumption
<1> SUFFICES ASSUME TypeOK, LoginsFine, [Next]_vars PROVE LoginsFine'
  OBVIOUS
<1>0. /\ now \in Nat /\ nextCleanup \in Nat /\ now <= nextCleanup
      /\ \A l \in DOMAIN opened : opened[l] \in Nat /\ opened[l] <= now
      /\ \A l \in DOMAIN pkceStates :
           /\ l \in DOMAIN opened
           /\ pkceStates[l] = opened[l]
           /\ pkceStates[l] \in Nat
      /\ StateSpentOnce /\ Unspent /\ CleanupOnTime
  BY DEF TypeOK, LoginsFine
<1>1. ASSUME NEW l \in Logins, Authorize(l) PROVE LoginsFine'
  <2>1. /\ l \notin DOMAIN opened
        /\ DOMAIN opened' = DOMAIN opened \cup {l} /\ opened'[l] = now
        /\ \A x \in DOMAIN opened : opened'[x] = opened[x]
        /\ DOMAIN pkceStates' = DOMAIN pkceStates \cup {l} /\ pkceStates'[l] = now
        /\ \A x \in DOMAIN pkceStates : pkceStates'[x] = pkceStates[x]
        /\ UNCHANGED <<now, nextCleanup, traded>>
    BY <1>1 DEF Authorize, Opens, Extend, TypeOK
  <2>2. Len(traded[l]) = 0 /\ DOMAIN traded[l] = {}
    BY <1>0, <2>1 DEF Unspent, TypeOK
  <2>3. StateSpentOnce'
    BY <1>0, <2>1, <2>2 DEF StateSpentOnce
  <2>4. Unspent'
    BY <1>0, <2>1, <2>2 DEF Unspent
  <2>5. CleanupOnTime'
    BY <1>0, <2>1 DEF CleanupOnTime
  <2> QED BY <2>3, <2>4, <2>5 DEF LoginsFine
<1>2. ASSUME NEW l \in Logins, CallbackTooLate(l) PROVE LoginsFine'
  <2>1. /\ DOMAIN pkceStates' = DOMAIN pkceStates \ {l}
        /\ \A x \in DOMAIN pkceStates' : pkceStates'[x] = pkceStates[x]
        /\ UNCHANGED <<now, nextCleanup, opened, traded>>
    BY <1>2 DEF CallbackTooLate, Drop
  <2>2. Len(traded[l]) = 0 /\ DOMAIN traded[l] = {}
    BY <1>0, <1>2 DEF CallbackTooLate, Unspent, TypeOK
  <2>3. Unspent'
    BY <1>0, <2>1, <2>2 DEF Unspent
  <2>4. StateSpentOnce'
    BY <1>0, <2>1 DEF StateSpentOnce
  <2>5. CleanupOnTime'
    BY <1>0, <2>1 DEF CleanupOnTime
  <2> QED BY <2>3, <2>4, <2>5 DEF LoginsFine
<1>3. ASSUME NEW c \in Callers, NEW l \in Logins, Callback(c, l) PROVE LoginsFine'
  <2>1. /\ l \in DOMAIN pkceStates /\ ~ (now - pkceStates[l] > StateTimeout)
        /\ DOMAIN pkceStates' = DOMAIN pkceStates \ {l}
        /\ \A x \in DOMAIN pkceStates' : pkceStates'[x] = pkceStates[x]
        /\ traded' = [traded EXCEPT ![l] = Append(traded[l], now)]
        /\ UNCHANGED <<now, nextCleanup, opened>>
    BY <1>3 DEF Callback, Trades, StateExpired, Drop
  <2>2. Len(traded[l]) = 0 /\ traded[l] \in Seq(Nat)
    BY <1>0, <2>1 DEF Unspent, TypeOK
  <2>3. /\ Len(Append(traded[l], now)) = 1
        /\ DOMAIN Append(traded[l], now) = {1}
        /\ Append(traded[l], now)[1] = now
    BY <1>0, <2>2
  <2>4. /\ traded'[l] = Append(traded[l], now)
        /\ \A x \in Logins : x # l => traded'[x] = traded[x]
    BY <2>1 DEF TypeOK
  <2>5. StateSpentOnce'
    BY <1>0, <2>1, <2>3, <2>4 DEF StateSpentOnce
  <2>6. Unspent'
    BY <1>0, <2>1, <2>4 DEF Unspent
  <2>7. CleanupOnTime'
    BY <1>0, <2>1 DEF CleanupOnTime
  <2> QED BY <2>5, <2>6, <2>7 DEF LoginsFine
<1>4. CASE Cleanup
  <2>1. /\ DOMAIN pkceStates' = {l \in DOMAIN pkceStates : ~ (now - pkceStates[l] > StateTimeout)}
        /\ \A x \in DOMAIN pkceStates' : pkceStates'[x] = pkceStates[x]
        /\ nextCleanup' = now + CleanupEvery
        /\ UNCHANGED <<now, opened, traded>>
    BY <1>4 DEF Cleanup, Cleaned, StateExpired
  <2>2. StateSpentOnce'
    BY <1>0, <2>1 DEF StateSpentOnce
  <2>3. Unspent'
    <3>1. SUFFICES ASSUME NEW l \in Logins, l \in DOMAIN pkceStates' \/ l \notin DOMAIN opened'
                   PROVE  Len(traded'[l]) = 0
      BY DEF Unspent
    <3> QED BY <1>0, <2>1, <3>1 DEF Unspent
  <2>4. CleanupOnTime'
    BY <1>0, <2>1 DEF CleanupOnTime
  <2> QED BY <2>2, <2>3, <2>4 DEF LoginsFine
<1>5. CASE Tick
  <2>1. now' = now + 1 /\ UNCHANGED <<nextCleanup, pkceStates, opened, traded>>
    BY <1>5 DEF Tick, logins
  <2> QED BY <1>0, <2>1 DEF LoginsFine, StateSpentOnce, Unspent, CleanupOnTime
<1>6. CASE Restart
  <2>1. /\ DOMAIN pkceStates' = {} /\ nextCleanup' = now + CleanupEvery
        /\ UNCHANGED <<now, opened, traded>>
    BY <1>6 DEF Restart, EmptyMap
  <2>2. StateSpentOnce' /\ Unspent'
    BY <1>0, <2>1 DEF StateSpentOnce, Unspent
  <2>3. CleanupOnTime'
    BY <1>0, <2>1 DEF CleanupOnTime
  <2> QED BY <2>2, <2>3 DEF LoginsFine
<1>7. CASE UNCHANGED <<now, nextCleanup, pkceStates, opened, traded>>
  BY <1>7 DEF LoginsFine, StateSpentOnce, Unspent, CleanupOnTime
<1>8. ASSUME NEW c \in Callers, NEW s \in Sessions, NEW life \in Lifetimes,
             NEW r \in BOOLEAN, ExchangeReturns(c, s, life, r)
      PROVE  LoginsFine'
  BY <1>7, <1>8 DEF ExchangeReturns, Exchanged
<1>9. ASSUME NEW c \in Callers, ExchangeThrows(c) \/ RefreshThrows(c) PROVE LoginsFine'
  BY <1>7, <1>9 DEF ExchangeThrows, RefreshThrows, logins
<1>10. ASSUME NEW s \in Sessions, NotFound(s) \/ Revoke(s) PROVE LoginsFine'
  BY <1>7, <1>10 DEF NotFound, Revoke, Revokes, logins
<1>11. ASSUME NEW c \in Callers, NEW s \in Sessions, StartRefresh(c, s) PROVE LoginsFine'
  BY <1>7, <1>11 DEF StartRefresh, logins
<1>12. ASSUME NEW c \in Callers, NEW life \in Lifetimes, NEW r \in BOOLEAN,
             RefreshReturns(c, life, r)
       PROVE  LoginsFine'
  BY <1>7, <1>12 DEF RefreshReturns, Refreshed, logins
<1>13. CASE UNCHANGED vars
  BY <1>7, <1>13 DEF vars, logins
<1> QED
  BY <1>1, <1>2, <1>3, <1>4, <1>5, <1>6, <1>8, <1>9, <1>10, <1>11, <1>12, <1>13 DEF Next

LEMMA LoginsInvariant == Spec => [](TypeOK /\ LoginsFine)
<1> QED BY InitTypes, NextTypes, InitLogins, NextLogins, PTL DEF Spec

(* A login is traded at most once, and in time (routes/oauth.ts,           *)
(* /callback).                                                             *)
THEOREM LoginsSpentOnce == Spec => []StateSpentOnce
<1>1. TypeOK /\ LoginsFine => StateSpentOnce
  BY DEF LoginsFine
<1> QED BY <1>1, LoginsInvariant, PTL

(* A login that is not finished is forgotten (routes/oauth.ts, cleanup).   *)
THEOREM LoginsForgotten == Spec => []StatesForgotten
<1>1. TypeOK /\ LoginsFine => StatesForgotten
  <2>1. SUFFICES ASSUME TypeOK, CleanupOnTime, NEW l \in DOMAIN pkceStates
                 PROVE  now - pkceStates[l] <= StateTimeout + CleanupEvery
    BY DEF LoginsFine, StatesForgotten
  <2>2. /\ now \in Nat /\ nextCleanup \in Nat /\ now <= nextCleanup
        /\ pkceStates[l] \in Nat
    BY <2>1 DEF TypeOK
  <2>3. nextCleanup - pkceStates[l] <= StateTimeout + CleanupEvery
    BY <2>1 DEF CleanupOnTime
  <2> QED BY <2>2, <2>3, OAuthAssumption
<1> QED BY <1>1, LoginsInvariant, PTL

-----------------------------------------------------------------------------
(* Sessions                                                                *)

SessionsFine == Quiet /\ GoneStaysGone

LEMMA NextSessions == TypeOK /\ SessionsFine /\ [Next]_vars => SessionsFine'
<1> SUFFICES ASSUME TypeOK, SessionsFine, [Next]_vars PROVE SessionsFine'
  OBVIOUS
<1>1. CASE UNCHANGED <<tokens, refreshes, gone>>
  BY <1>1 DEF SessionsFine, Quiet, GoneStaysGone
<1>2. ASSUME NEW l \in Logins, Authorize(l) \/ CallbackTooLate(l) PROVE SessionsFine'
  BY <1>1, <1>2 DEF Authorize, Opens, CallbackTooLate, store
<1>3. ASSUME NEW c \in Callers, NEW l \in Logins, Callback(c, l) PROVE SessionsFine'
  BY <1>1, <1>3 DEF Callback, Trades, store
<1>4. ASSUME NEW c \in Callers, NEW s \in Sessions, NEW life \in Lifetimes,
             NEW r \in BOOLEAN, ExchangeReturns(c, s, life, r)
      PROVE  SessionsFine'
  <2>1. /\ s \notin gone
        /\ DOMAIN tokens' = DOMAIN tokens \cup {s}
        /\ UNCHANGED <<refreshes, gone>>
    BY <1>4 DEF ExchangeReturns, Exchanged, Extend, TypeOK
  <2> QED BY <2>1 DEF SessionsFine, Quiet, GoneStaysGone
<1>5. ASSUME NEW c \in Callers, ExchangeThrows(c) PROVE SessionsFine'
  BY <1>1, <1>5 DEF ExchangeThrows, store
<1>6. ASSUME NEW c \in Callers, RefreshThrows(c) PROVE SessionsFine'
  BY <1>6 DEF RefreshThrows, Drop, SessionsFine, Quiet, GoneStaysGone
<1>7. ASSUME NEW s \in Sessions, NotFound(s) \/ Revoke(s) PROVE SessionsFine'
  <2>1. /\ DOMAIN tokens' = DOMAIN tokens \ {s}
        /\ gone' = IF Refreshing(s) THEN gone ELSE gone \cup {s}
        /\ UNCHANGED refreshes
    BY <1>7 DEF NotFound, Revoke, Revokes, GoneNow, Drop
  <2> QED BY <2>1 DEF Refreshing, SessionsFine, Quiet, GoneStaysGone
<1>8. ASSUME NEW c \in Callers, NEW s \in Sessions, StartRefresh(c, s) PROVE SessionsFine'
  <2>1. /\ s \in DOMAIN tokens
        /\ DOMAIN refreshes' = DOMAIN refreshes \cup {c} /\ refreshes'[c].session = s
        /\ \A x \in DOMAIN refreshes : x # c => refreshes'[x] = refreshes[x]
        /\ UNCHANGED <<tokens, gone>>
    BY <1>8 DEF StartRefresh, Live, Extend
  <2>2. s \notin gone
    BY <2>1 DEF SessionsFine, GoneStaysGone
  <2> QED BY <2>1, <2>2 DEF SessionsFine, Quiet, GoneStaysGone
<1>9. ASSUME NEW c \in Callers, NEW life \in Lifetimes, NEW r \in BOOLEAN,
             RefreshReturns(c, life, r)
      PROVE  SessionsFine'
  <2>1. /\ c \in DOMAIN refreshes
        /\ DOMAIN tokens' = DOMAIN tokens \cup {refreshes[c].session}
        /\ DOMAIN refreshes' \subseteq DOMAIN refreshes
        /\ \A x \in DOMAIN refreshes' : refreshes'[x] = refreshes[x]
        /\ UNCHANGED gone
    BY <1>9 DEF RefreshReturns, Refreshed, Extend, Drop
  <2> QED BY <2>1 DEF SessionsFine, Quiet, GoneStaysGone
<1>10. CASE Cleanup \/ Tick
  BY <1>1, <1>10 DEF Cleanup, Cleaned, Tick, store
<1>11. CASE Restart
  BY <1>11 DEF Restart, EmptyMap, SessionsFine, Quiet, GoneStaysGone
<1>12. CASE UNCHANGED vars
  BY <1>1, <1>12 DEF vars, store
<1> QED
  BY <1>2, <1>3, <1>4, <1>5, <1>6, <1>7, <1>8, <1>9, <1>10, <1>11, <1>12 DEF Next

(* A session that is gone while no refresh of it runs never comes back     *)
(* (/token, /revoke, /status, and a restart).                              *)
THEOREM GoneSessionsStayGone == Spec => []GoneStaysGone
<1>1. Init => SessionsFine
  BY DEF Init, EmptyMap, SessionsFine, Quiet, GoneStaysGone
<1>2. Spec => []SessionsFine
  BY <1>1, InitTypes, NextTypes, NextSessions, PTL DEF Spec
<1>3. SessionsFine => GoneStaysGone
  BY DEF SessionsFine
<1> QED BY <1>2, <1>3, PTL

-----------------------------------------------------------------------------
(* What a session costs                                                    *)

Paid == Countable /\ NoFreeSessions

LEMMA NextPaid == TypeOK /\ LoginsFine /\ Paid /\ [Next]_vars => Paid'
<1> SUFFICES ASSUME TypeOK, LoginsFine, Paid, [Next]_vars PROVE Paid'
  OBVIOUS
<1>0. /\ Cardinality(issued) \in Nat /\ Cardinality(DOMAIN exchanges) \in Nat
      /\ Cardinality(Spent) \in Nat
      /\ IsFiniteSet(issued) /\ IsFiniteSet(DOMAIN exchanges) /\ IsFiniteSet(Spent)
      /\ Cardinality(issued) + Cardinality(DOMAIN exchanges) <= Cardinality(Spent)
  BY FS_CardinalityType DEF Paid, Countable, NoFreeSessions
<1>1. CASE UNCHANGED <<issued, exchanges, traded>>
  BY <1>1 DEF Paid, Countable, NoFreeSessions, Spent
<1>2. ASSUME NEW c \in Callers, NEW l \in Logins, Callback(c, l) PROVE Paid'
  <2>1. /\ c \notin DOMAIN exchanges /\ l \in DOMAIN pkceStates
        /\ DOMAIN exchanges' = DOMAIN exchanges \cup {c}
        /\ traded' = [traded EXCEPT ![l] = Append(traded[l], now)]
        /\ UNCHANGED issued
    BY <1>2 DEF Callback, Trades, Idle, Extend, store
  <2>2. traded \in [Logins -> Seq(0..now)]
    BY DEF TypeOK
  <2>3. l \notin Spent
    <3>1. Len(traded[l]) = 0
      BY <2>1 DEF LoginsFine, Unspent
    <3> QED BY <2>2, <3>1 DEF Spent
  <2>4. Spent' = Spent \cup {l}
    <3>1. Append(traded[l], now) # <<>>
      BY <2>2
    <3>2. traded'[l] # <<>> /\ \A x \in Logins : x # l => traded'[x] = traded[x]
      BY <2>1, <2>2, <3>1
    <3> QED BY <3>2 DEF Spent
  <2>5. /\ IsFiniteSet(Spent') /\ Cardinality(Spent') = Cardinality(Spent) + 1
        /\ IsFiniteSet(DOMAIN exchanges')
        /\ Cardinality(DOMAIN exchanges') = Cardinality(DOMAIN exchanges) + 1
    BY <1>0, <2>1, <2>3, <2>4, FS_AddElement
  <2> QED BY <1>0, <2>1, <2>5 DEF Paid, Countable, NoFreeSessions
<1>3. ASSUME NEW c \in Callers, NEW s \in Sessions, NEW life \in Lifetimes,
             NEW r \in BOOLEAN, ExchangeReturns(c, s, life, r)
      PROVE  Paid'
  <2>1. /\ c \in DOMAIN exchanges /\ DOMAIN exchanges' = DOMAIN exchanges \ {c}
        /\ s \notin issued /\ issued' = issued \cup {s}
        /\ UNCHANGED traded
    BY <1>3 DEF ExchangeReturns, Exchanged, Drop
  <2>2. /\ IsFiniteSet(issued') /\ Cardinality(issued') = Cardinality(issued) + 1
        /\ IsFiniteSet(DOMAIN exchanges')
        /\ Cardinality(DOMAIN exchanges') = Cardinality(DOMAIN exchanges) - 1
    BY <1>0, <2>1, FS_AddElement, FS_RemoveElement
  <2> QED BY <1>0, <2>1, <2>2 DEF Paid, Countable, NoFreeSessions, Spent
<1>4. ASSUME NEW c \in Callers, ExchangeThrows(c) PROVE Paid'
  <2>1. /\ c \in DOMAIN exchanges /\ DOMAIN exchanges' = DOMAIN exchanges \ {c}
        /\ UNCHANGED <<issued, traded>>
    BY <1>4 DEF ExchangeThrows, Drop, store
  <2>2. /\ IsFiniteSet(DOMAIN exchanges')
        /\ Cardinality(DOMAIN exchanges') = Cardinality(DOMAIN exchanges) - 1
    BY <1>0, <2>1, FS_RemoveElement
  <2> QED BY <1>0, <2>1, <2>2 DEF Paid, Countable, NoFreeSessions, Spent
<1>5. CASE Restart
  <2>1. DOMAIN exchanges' = {} /\ UNCHANGED <<issued, traded>>
    BY <1>5 DEF Restart, EmptyMap
  <2> QED BY <1>0, <2>1, FS_EmptySet DEF Paid, Countable, NoFreeSessions, Spent
<1>6. ASSUME NEW l \in Logins, Authorize(l) \/ CallbackTooLate(l) PROVE Paid'
  BY <1>1, <1>6 DEF Authorize, Opens, CallbackTooLate, store
<1>7. ASSUME NEW c \in Callers, RefreshThrows(c) PROVE Paid'
  BY <1>1, <1>7 DEF RefreshThrows, logins
<1>8. ASSUME NEW s \in Sessions, NotFound(s) \/ Revoke(s) PROVE Paid'
  BY <1>1, <1>8 DEF NotFound, Revoke, Revokes, logins
<1>9. ASSUME NEW c \in Callers, NEW s \in Sessions, StartRefresh(c, s) PROVE Paid'
  BY <1>1, <1>9 DEF StartRefresh, logins
<1>10. ASSUME NEW c \in Callers, NEW life \in Lifetimes, NEW r \in BOOLEAN,
             RefreshReturns(c, life, r) PROVE Paid'
  BY <1>1, <1>10 DEF RefreshReturns, Refreshed, logins
<1>11. CASE Cleanup \/ Tick \/ UNCHANGED vars
  BY <1>1, <1>11 DEF Cleanup, Cleaned, Tick, vars, store, logins
<1> QED
  BY <1>2, <1>3, <1>4, <1>5, <1>6, <1>7, <1>8, <1>9, <1>10, <1>11 DEF Next

(* There are never more sessions than logins that were spent on them       *)
(* (/callback).                                                            *)
THEOREM SessionsArePaidFor == Spec => []NoFreeSessions
<1>1. Init => Paid
  <2> SUFFICES ASSUME Init PROVE Paid
    OBVIOUS
  <2>1. issued = {} /\ DOMAIN exchanges = {} /\ Spent = {}
    BY DEF Init, EmptyMap, Spent
  <2> QED BY <2>1, FS_EmptySet DEF Paid, Countable, NoFreeSessions
<1>2. Spec => []Paid
  BY <1>1, LoginsInvariant, NextPaid, PTL DEF Spec
<1>3. Paid => NoFreeSessions
  BY DEF Paid
<1> QED BY <1>2, <1>3, PTL

-----------------------------------------------------------------------------
(* Refreshing                                                              *)

TokensFine == MadeWithLatest /\ LatestTokenKept

LEMMA NextTokens == TypeOK /\ TokensFine /\ [Next]_vars => TokensFine'
<1> SUFFICES ASSUME TypeOK, TokensFine, [Next]_vars PROVE TokensFine'
  OBVIOUS
<1> USE DEF TokensFine
<1>1. CASE /\ UNCHANGED <<latest, raced>>
           /\ DOMAIN tokens' \subseteq DOMAIN tokens
           /\ \A s \in DOMAIN tokens' : tokens'[s].refreshToken = tokens[s].refreshToken
           /\ DOMAIN refreshes' \subseteq DOMAIN refreshes
           /\ \A c \in DOMAIN refreshes' : refreshes'[c] = refreshes[c]
  BY <1>1 DEF MadeWithLatest, LatestTokenKept
<1>2. ASSUME NEW c \in Callers, NEW s \in Sessions, NEW life \in Lifetimes,
             NEW sent \in BOOLEAN, ExchangeReturns(c, s, life, sent)
      PROVE  TokensFine'
  <2> DEFINE token == IF sent THEN 1 ELSE 0
  <2>1. /\ s \notin issued
        /\ DOMAIN tokens' = DOMAIN tokens \cup {s} /\ tokens'[s].refreshToken = token
        /\ \A x \in DOMAIN tokens : tokens'[x] = tokens[x]
        /\ latest' = [latest EXCEPT ![s] = token]
        /\ UNCHANGED <<refreshes, raced>>
    BY <1>2 DEF ExchangeReturns, Exchanged, Extend, TypeOK
  <2>2. latest'[s] = token /\ \A x \in Sessions : x # s => latest'[x] = latest[x]
    BY <2>1 DEF TypeOK
  <2>3. MadeWithLatest'
    BY <2>1, <2>2 DEF MadeWithLatest, TypeOK
  <2>4. LatestTokenKept'
    BY <2>1, <2>2 DEF LatestTokenKept, TypeOK
  <2> QED BY <2>3, <2>4
<1>3. ASSUME NEW c \in Callers, NEW s \in Sessions, StartRefresh(c, s) PROVE TokensFine'
  <2>1. /\ Idle(c) /\ s \in DOMAIN tokens /\ tokens[s].refreshToken # 0
        /\ DOMAIN refreshes' = DOMAIN refreshes \cup {c}
        /\ refreshes'[c].session = s /\ refreshes'[c].with = tokens[s].refreshToken
        /\ \A x \in DOMAIN refreshes : x # c => refreshes'[x] = refreshes[x]
        /\ raced' = IF Refreshing(s) THEN raced \cup {s} ELSE raced
        /\ UNCHANGED <<tokens, latest>>
    BY <1>3 DEF StartRefresh, Live, Extend
  <2>2. c \notin DOMAIN refreshes
    BY <2>1 DEF Idle
  <2>3. LatestTokenKept'
    BY <2>1 DEF LatestTokenKept
  <2>4. \A x \in DOMAIN refreshes : refreshes[x].session = s => s \in raced'
    BY <2>1 DEF Refreshing
  <2>5. s \notin raced' => tokens[s].refreshToken = latest[s]
    BY <2>1 DEF LatestTokenKept
  <2>6. \A x \in DOMAIN refreshes : x # c
    BY <2>2
  <2>7. raced \subseteq raced'
    BY <2>1
  <2>8. MadeWithLatest'
    BY <2>1, <2>4, <2>5, <2>6, <2>7 DEF MadeWithLatest
  <2> QED BY <2>3, <2>8
<1>4. ASSUME NEW c \in Callers, NEW life \in Lifetimes, NEW sent \in BOOLEAN,
             RefreshReturns(c, life, sent)
      PROVE  TokensFine'
  <2> DEFINE s == refreshes[c].session
             token == IF sent THEN latest[s] + 1 ELSE refreshes[c].with
  <2>1. /\ c \in DOMAIN refreshes
        /\ latest' = IF sent THEN [latest EXCEPT ![s] = latest[s] + 1] ELSE latest
        /\ DOMAIN tokens' = DOMAIN tokens \cup {s}
        /\ tokens'[s].refreshToken = IF sent THEN latest'[s] ELSE refreshes[c].with
        /\ \A x \in DOMAIN tokens : x # s => tokens'[x] = tokens[x]
        /\ DOMAIN refreshes' = DOMAIN refreshes \ {c}
        /\ \A x \in DOMAIN refreshes' : refreshes'[x] = refreshes[x]
        /\ UNCHANGED raced
    BY <1>4 DEF RefreshReturns, Refreshed, Extend, Drop
  <2>2. s \in Sessions /\ latest \in [Sessions -> Nat]
    BY <2>1 DEF TypeOK
  <2>3. /\ latest'[s] = IF sent THEN latest[s] + 1 ELSE latest[s]
        /\ \A x \in Sessions : x # s => latest'[x] = latest[x]
    BY <2>1, <2>2
  <2>4. refreshes[c].with # 0 /\ (s \in raced \/ refreshes[c].with = latest[s])
    BY <2>1 DEF MadeWithLatest
  <2>5. \/ tokens'[s].refreshToken = latest'[s]
        \/ s \in raced /\ tokens'[s].refreshToken # 0
    BY <2>1, <2>3, <2>4
  <2>6. DOMAIN tokens \subseteq Sessions /\ \A x \in DOMAIN refreshes : refreshes[x].session \in Sessions
    BY DEF TypeOK
  <2>7. LatestTokenKept'
    BY <2>1, <2>3, <2>5, <2>6 DEF LatestTokenKept
  <2>8. \A x \in DOMAIN refreshes \ {c} : refreshes[x].session = s => s \in raced
    BY <2>1 DEF MadeWithLatest
  <2>9. MadeWithLatest'
    BY <2>1, <2>3, <2>6, <2>8 DEF MadeWithLatest
  <2> QED BY <2>7, <2>9
<1>5. ASSUME NEW s \in Sessions, NotFound(s) \/ Revoke(s) PROVE TokensFine'
  BY <1>1, <1>5 DEF NotFound, Revoke, Revokes, Drop, rotation
<1>6. ASSUME NEW c \in Callers, RefreshThrows(c) PROVE TokensFine'
  BY <1>1, <1>6 DEF RefreshThrows, Drop, rotation
<1>7. CASE Restart
  BY <1>1, <1>7 DEF Restart, EmptyMap, rotation
<1>8. CASE UNCHANGED store
  BY <1>1, <1>8 DEF store, rotation
<1>9. ASSUME NEW l \in Logins, Authorize(l) \/ CallbackTooLate(l) PROVE TokensFine'
  BY <1>8, <1>9 DEF Authorize, Opens, CallbackTooLate
<1>10. ASSUME NEW c \in Callers, NEW l \in Logins, Callback(c, l) PROVE TokensFine'
  BY <1>8, <1>10 DEF Callback, Trades
<1>11. ASSUME NEW c \in Callers, ExchangeThrows(c) PROVE TokensFine'
  BY <1>8, <1>11 DEF ExchangeThrows
<1>12. CASE Cleanup \/ Tick \/ UNCHANGED vars
  BY <1>8, <1>12 DEF Cleanup, Cleaned, Tick, vars
<1> QED
  BY <1>2, <1>3, <1>4, <1>5, <1>6, <1>7, <1>9, <1>10, <1>11, <1>12 DEF Next

(* While its refreshes do not overlap, a session keeps the last refresh    *)
(* token Vento sent, whether an answer brings a new one or not; it never   *)
(* loses all of them (/token).                                             *)
THEOREM SessionsKeepLatestToken == Spec => []LatestTokenKept
<1>1. Init => TokensFine
  BY DEF Init, EmptyMap, TokensFine, MadeWithLatest, LatestTokenKept
<1>2. Spec => []TokensFine
  BY <1>1, InitTypes, NextTypes, NextTokens, PTL DEF Spec
<1>3. TokensFine => LatestTokenKept
  BY DEF TokensFine
<1> QED BY <1>2, <1>3, PTL

-----------------------------------------------------------------------------
(* Sessions live as SessionLife says                                       *)

Fresh == Sessions \ issued
Asked == {refreshes[c].session : c \in DOMAIN refreshes}

(* A refresh that ends leaves its session asked for, by another, or not.   *)
LEMMA RefreshSettles ==
    ASSUME TypeOK, NEW c \in DOMAIN refreshes, refreshes' = Drop(refreshes, c)
    PROVE  /\ refreshes[c].session \in Asked
           /\ Asked' \in {Asked, Asked \ {refreshes[c].session}}
<1>1. /\ DOMAIN refreshes' = DOMAIN refreshes \ {c}
      /\ \A x \in DOMAIN refreshes' : refreshes'[x] = refreshes[x]
  BY DEF Drop
<1>2. Asked' = {refreshes[x].session : x \in DOMAIN refreshes \ {c}}
  BY <1>1 DEF Asked
<1>3. CASE \E x \in DOMAIN refreshes \ {c} : refreshes[x].session = refreshes[c].session
  BY <1>2, <1>3 DEF Asked
<1>4. CASE ~ \E x \in DOMAIN refreshes \ {c} : refreshes[x].session = refreshes[c].session
  BY <1>2, <1>4 DEF Asked
<1> QED BY <1>3, <1>4 DEF Asked

LEMMA StepsOfLife ==
    ASSUME TypeOK, Next
    PROVE  Life!Next \/ UNCHANGED <<Fresh, DOMAIN tokens, Asked>>
<1>1. ASSUME UNCHANGED <<issued, tokens, refreshes>>
      PROVE  UNCHANGED <<Fresh, DOMAIN tokens, Asked>>
  BY <1>1 DEF Fresh, Asked
<1>2. CASE \/ \E l \in Logins : Authorize(l) \/ CallbackTooLate(l)
           \/ \E c \in Callers, l \in Logins : Callback(c, l)
           \/ \E c \in Callers : ExchangeThrows(c)
           \/ Cleanup \/ Tick
  BY <1>1, <1>2, Zenon DEF Authorize, Opens, CallbackTooLate, Callback, Trades,
                           ExchangeThrows, Cleanup, Cleaned, Tick, store
<1>3. ASSUME NEW c \in Callers, NEW s \in Sessions, NEW life \in Lifetimes,
             NEW r \in BOOLEAN, ExchangeReturns(c, s, life, r)
      PROVE  Life!Begin(s)
  BY <1>3 DEF ExchangeReturns, Exchanged, Extend, Life!Begin, Fresh, Asked
<1>4. ASSUME NEW s \in Sessions, NotFound(s) \/ Revoke(s) PROVE Life!End(s)
  BY <1>4 DEF NotFound, Revoke, Revokes, Drop, Life!End, Fresh, Asked
<1>5. ASSUME NEW c \in Callers, NEW s \in Sessions, StartRefresh(c, s) PROVE Life!Ask(s)
  <2>1. /\ s \in DOMAIN tokens /\ UNCHANGED <<tokens, issued>>
        /\ c \notin DOMAIN refreshes /\ refreshes' = Extend(refreshes, c, [session |-> s, with |-> tokens[s].refreshToken])
    BY <1>5 DEF StartRefresh, Live, Idle
  <2>2. Asked' = Asked \cup {s}
    BY <2>1 DEF Asked, Extend
  <2> QED BY <2>1, <2>2 DEF Life!Ask, Fresh, Asked
<1>6. ASSUME NEW c \in Callers, NEW life \in Lifetimes, NEW r \in BOOLEAN,
             RefreshReturns(c, life, r)
      PROVE  \E s \in Sessions : Life!Renew(s)
  <2>1. /\ c \in DOMAIN refreshes /\ refreshes' = Drop(refreshes, c)
        /\ DOMAIN tokens' = DOMAIN tokens \cup {refreshes[c].session} /\ UNCHANGED issued
    BY <1>6 DEF RefreshReturns, Refreshed, Extend
  <2>2. PICK s \in Sessions : s = refreshes[c].session
    BY <2>1 DEF TypeOK
  <2>3. Life!Renew(s)
    BY <2>1, <2>2, RefreshSettles DEF Life!Renew, Life!Settle, Fresh, Asked
  <2> QED BY <2>3
<1>7. ASSUME NEW c \in Callers, RefreshThrows(c)
      PROVE  \E s \in Sessions : Life!GiveUp(s)
  <2>1. /\ c \in DOMAIN refreshes /\ refreshes' = Drop(refreshes, c)
        /\ UNCHANGED <<tokens, issued>>
    BY <1>7 DEF RefreshThrows
  <2>2. PICK s \in Sessions : s = refreshes[c].session
    BY <2>1 DEF TypeOK
  <2>3. Life!GiveUp(s)
    BY <2>1, <2>2, RefreshSettles DEF Life!GiveUp, Life!Settle, Fresh, Asked
  <2> QED BY <2>3
<1>8. ASSUME Restart PROVE Life!LoseAll
  BY <1>8 DEF Restart, EmptyMap, Life!LoseAll
<1>9. Life!LoseAll => Life!Next
  BY DEF Life!Next
<1>10. ASSUME NEW s \in Sessions,
              Life!Begin(s) \/ Life!End(s) \/ Life!Ask(s) \/ Life!Renew(s) \/ Life!GiveUp(s)
       PROVE  Life!Next
  BY <1>10 DEF Life!Next
<1>11. CASE \E c \in Callers, s \in Sessions, life \in Lifetimes, sent \in BOOLEAN :
               ExchangeReturns(c, s, life, sent)
  BY <1>3, <1>10, <1>11
<1>12. CASE \E c \in Callers : RefreshThrows(c)
  BY <1>7, <1>10, <1>12
<1>13. CASE \E s \in Sessions : NotFound(s) \/ Revoke(s)
  BY <1>4, <1>10, <1>13
<1>14. CASE \E c \in Callers, s \in Sessions : StartRefresh(c, s)
  BY <1>5, <1>10, <1>14
<1>15. CASE \E c \in Callers, life \in Lifetimes, sent \in BOOLEAN : RefreshReturns(c, life, sent)
  BY <1>6, <1>10, <1>15
<1> QED BY <1>2, <1>8, <1>9, <1>11, <1>12, <1>13, <1>14, <1>15, Zenon DEF Next

(* For the user, the routes are SessionLife: every session comes from one  *)
(* login, and none comes back but by a refresh that was asked for while it *)
(* was there (routes/oauth.ts, oauth.ts).                                  *)
THEOREM SessionsLiveAsPromised == Spec => ImplementsSessionLife
<1>1. Init => Life!Init
  BY DEF Init, EmptyMap, Life!Init
<1>2. TypeOK /\ [Next]_vars => [Life!Next]_<<Fresh, DOMAIN tokens, Asked>>
  <2>1. ASSUME UNCHANGED vars PROVE UNCHANGED <<Fresh, DOMAIN tokens, Asked>>
    BY <2>1 DEF vars, store, Fresh, Asked
  <2> QED BY <2>1, StepsOfLife
<1> QED BY <1>1, <1>2, OAuthTypes, PTL
        DEF Spec, ImplementsSessionLife, Life!Spec, Fresh, Asked

-----------------------------------------------------------------------------
(* What the refuted claim would need                                       *)

(* Nobody revokes a session whose token is being refreshed.                *)
QuietRevocations == [][\A s \in Sessions : Revoke(s) => ~ Refreshing(s)]_vars

(* docs/oauth.md's claim has this gap only: when no session is revoked     *)
(* while a refresh of it is under way, a revoked session is never in the   *)
(* store again, restarts and all (routes/oauth.ts, /token and /revoke).    *)
THEOREM RacingRefreshesAreTheOnlyGap == Spec /\ QuietRevocations => []RevokedStaysRevoked
<1> DEFINE RevokedAreGone == revoked \subseteq gone
<1>1. Init => RevokedAreGone
  BY DEF Init
<1>2. TypeOK /\ RevokedAreGone /\ [Next]_vars
        /\ [\A s \in Sessions : Revoke(s) => ~ Refreshing(s)]_vars
        => RevokedAreGone'
  <2> SUFFICES ASSUME TypeOK, RevokedAreGone, [Next]_vars,
                      [\A s \in Sessions : Revoke(s) => ~ Refreshing(s)]_vars
               PROVE  RevokedAreGone'
    OBVIOUS
  <2>1. ASSUME UNCHANGED <<revoked, gone>> PROVE RevokedAreGone'
    BY <2>1
  <2>2. ASSUME NEW s \in Sessions, NotFound(s) PROVE RevokedAreGone'
    BY <2>2 DEF NotFound, GoneNow
  <2>3. ASSUME NEW s \in Sessions, Revoke(s) PROVE RevokedAreGone'
    <3>1. CASE UNCHANGED vars
      BY <2>1, <3>1 DEF vars, store
    <3>2. CASE ~ Refreshing(s)
      BY <2>3, <3>2 DEF Revoke, Revokes, GoneNow
    <3> QED BY <2>3, <3>1, <3>2
  <2>4. CASE Restart
    BY <2>4 DEF Restart, TypeOK
  <2>5. ASSUME NEW l \in Logins, Authorize(l) \/ CallbackTooLate(l) PROVE RevokedAreGone'
    BY <2>1, <2>5 DEF Authorize, Opens, CallbackTooLate, store
  <2>6. ASSUME NEW c \in Callers, NEW l \in Logins, Callback(c, l) PROVE RevokedAreGone'
    BY <2>1, <2>6 DEF Callback, Trades, store
  <2>7. ASSUME NEW c \in Callers, NEW s \in Sessions, NEW life \in Lifetimes,
               NEW r \in BOOLEAN, ExchangeReturns(c, s, life, r)
        PROVE  RevokedAreGone'
    BY <2>1, <2>7 DEF ExchangeReturns, Exchanged
  <2>8. ASSUME NEW c \in Callers, ExchangeThrows(c) \/ RefreshThrows(c) PROVE RevokedAreGone'
    BY <2>1, <2>8 DEF ExchangeThrows, RefreshThrows, store
  <2>9. ASSUME NEW c \in Callers, NEW s \in Sessions, StartRefresh(c, s)
        PROVE  RevokedAreGone'
    BY <2>1, <2>9 DEF StartRefresh
  <2>10. ASSUME NEW c \in Callers, NEW life \in Lifetimes, NEW r \in BOOLEAN,
             RefreshReturns(c, life, r)
         PROVE  RevokedAreGone'
    BY <2>1, <2>10 DEF RefreshReturns, Refreshed
  <2>11. CASE Cleanup \/ Tick \/ UNCHANGED vars
    BY <2>1, <2>11 DEF Cleanup, Cleaned, Tick, vars, store
  <2> QED
    BY <2>2, <2>3, <2>4, <2>5, <2>6, <2>7, <2>8, <2>9, <2>10, <2>11 DEF Next
<1>3. RevokedAreGone /\ GoneStaysGone => RevokedStaysRevoked
  BY DEF GoneStaysGone, RevokedStaysRevoked
<1> QED BY <1>1, <1>2, <1>3, OAuthTypes, GoneSessionsStayGone, PTL
        DEF Spec, QuietRevocations

=============================================================================
