-------------------------- MODULE VentoClientProofs --------------------------
(* VentoClient for all boards, callers, lifetimes, timeouts and capacities *)
(* (and any bounds on time and versions): types, the bound on staleness,   *)
(* the visibility of acknowledged actions, and the capacity of its cache.  *)
EXTENDS VentoClient, TtlMapProofs

-----------------------------------------------------------------------------
(* The cache operators and the type of the cache                           *)

\* What each entry of a cache value must be (the entry part of CacheTypeOK).
EntriesOK(c) ==
    /\ DOMAIN c \subseteq Keys
    /\ \A k \in DOMAIN c :
         /\ c[k].value.of \in Queries
         /\ Cached(c[k].value.of)
         /\ c[k].value \in Replies(c[k].value.of)
         /\ c[k].expiresAt \in Nat
         /\ c[k].older \subseteq Keys

LEMMA WithoutEntriesOK ==
    ASSUME NEW c, NEW S, EntriesOK(c)
    PROVE  EntriesOK(Without(c, S))
BY DEF EntriesOK, Without

LEMMA PutEntriesOK ==
    ASSUME NEW c, EntriesOK(c), NEW q \in Queries, Cached(q), NEW v \in Replies(q),
           NEW t \in Nat
    PROVE  EntriesOK(Put(c, Key(q), v, t, Ttl, MaxEntries))
<1> DEFINE room == MakeRoom(c, Key(q), MaxEntries)
           rank == IF Key(q) \in DOMAIN room THEN room[Key(q)].older ELSE DOMAIN room
           entry == [value |-> v, expiresAt |-> t + Ttl, older |-> rank]
<1>1. EntriesOK(room)
  BY WithoutEntriesOK DEF MakeRoom
<1>2. Key(q) \in Keys
  BY DEF Key, Keys, Queries, ListKey
<1>3. v.of = q
  BY DEF Replies
<1>4. t + Ttl \in Nat
  BY BoundsAssumption
<1>5. rank \subseteq Keys
  BY <1>1, <1>2 DEF EntriesOK
<1>6. entry.value = v /\ entry.expiresAt = t + Ttl /\ entry.older = rank
  OBVIOUS
<1> HIDE DEF room, rank, entry
<1>7. EntriesOK(Extend(room, Key(q), entry))
  BY <1>1, <1>2, <1>3, <1>4, <1>5, <1>6 DEF EntriesOK, Extend
<1> QED BY <1>7 DEF Put, room, rank, entry

-----------------------------------------------------------------------------
(* Types                                                                   *)

LEMMA InitTyped == Init => TypeOK
BY BoundsAssumption
   DEF Init, TypeOK, CacheTypeOK, ReadsTypeOK, ActsTypeOK, VersionsTypeOK, EmptyMap

LEMMA NextTyped == TypeOK /\ [Next]_vars => TypeOK'
<1> SUFFICES ASSUME TypeOK, [Next]_vars PROVE TypeOK'
  OBVIOUS
<1> USE BoundsAssumption
<1>1. /\ now \in 0..MaxTime /\ now \in Nat
      /\ EntriesOK(cache) /\ ReadsTypeOK /\ ActsTypeOK /\ VersionsTypeOK
  BY DEF TypeOK, CacheTypeOK, EntriesOK
<1>2. SUFFICES /\ now' \in 0..MaxTime /\ EntriesOK(cache)'
               /\ ReadsTypeOK' /\ ActsTypeOK' /\ VersionsTypeOK'
  BY DEF TypeOK, CacheTypeOK, EntriesOK
<1>3. ASSUME NEW r \in Readers, NEW q \in Queries, AskVento(r, q)
      PROVE  /\ now' \in 0..MaxTime /\ EntriesOK(cache)'
             /\ ReadsTypeOK' /\ ActsTypeOK' /\ VersionsTypeOK'
  <2>1. EntriesOK(cache')
    BY <1>1, <1>3, WithoutEntriesOK DEF AskVento, AfterGet
  <2>2. ReadsTypeOK'
    BY <1>1, <1>3 DEF AskVento, ReadsTypeOK, Extend, Replies
  <2> QED
    BY <1>1, <1>3, <2>1, <2>2 DEF AskVento, EntriesOK, ActsTypeOK, VersionsTypeOK
<1>4. ASSUME NEW r \in Readers, VentoAnswers(r)
      PROVE  /\ now' \in 0..MaxTime /\ EntriesOK(cache)'
             /\ ReadsTypeOK' /\ ActsTypeOK' /\ VersionsTypeOK'
  <2> DEFINE q == reads[r].of
             reply == [of |-> q, seen |-> [b \in Covers(q) |-> version[b]],
                       at |-> now, crossed |-> FALSE]
  <2>1. r \in DOMAIN reads /\ q \in Queries
    BY <1>1, <1>4 DEF VentoAnswers, ReadsTypeOK
  <2>2. Covers(q) \subseteq Boards
    BY <2>1 DEF Covers, Queries
  <2>3. [b \in Covers(q) |-> version[b]] \in [Covers(q) -> 0..MaxVersion]
    BY <1>1, <2>2 DEF VersionsTypeOK
  <2>4. reply \in Replies(q)
    BY <1>1, <2>3 DEF Replies
  <2>5. replies' = Extend(replies, r, reply) /\ reads' = reads
    BY <1>4 DEF VentoAnswers
  <2> HIDE DEF reply
  <2>6. ReadsTypeOK'
    BY <1>1, <2>1, <2>4, <2>5 DEF ReadsTypeOK, Extend
  <2> QED
    BY <1>1, <1>4, <2>6 DEF VentoAnswers, EntriesOK, ActsTypeOK, VersionsTypeOK
<1>5. ASSUME NEW r \in Readers, ReadReturns(r)
      PROVE  /\ now' \in 0..MaxTime /\ EntriesOK(cache)'
             /\ ReadsTypeOK' /\ ActsTypeOK' /\ VersionsTypeOK'
  <2>1. /\ r \in DOMAIN replies /\ r \in DOMAIN reads
        /\ reads[r].of \in Queries /\ replies[r] \in Replies(reads[r].of)
    BY <1>1, <1>5 DEF ReadReturns, ReadsTypeOK
  <2>2. EntriesOK(cache')
    BY <1>1, <1>5, <2>1, PutEntriesOK DEF ReadReturns
  <2>3. ReadsTypeOK'
    BY <1>1, <1>5 DEF ReadReturns, ReadsTypeOK, Drop
  <2> QED
    BY <1>1, <1>5, <2>2, <2>3 DEF ReadReturns, EntriesOK, ActsTypeOK, VersionsTypeOK
<1>6. ASSUME NEW r \in Readers, ReadThrows(r)
      PROVE  /\ now' \in 0..MaxTime /\ EntriesOK(cache)'
             /\ ReadsTypeOK' /\ ActsTypeOK' /\ VersionsTypeOK'
  <2>1. ReadsTypeOK'
    BY <1>1, <1>6 DEF ReadThrows, ReadsTypeOK, Drop
  <2> QED
    BY <1>1, <1>6, <2>1 DEF ReadThrows, EntriesOK, ActsTypeOK, VersionsTypeOK
<1>7. ASSUME NEW a \in Actors, NEW b \in Boards, StartAction(a, b)
      PROVE  /\ now' \in 0..MaxTime /\ EntriesOK(cache)'
             /\ ReadsTypeOK' /\ ActsTypeOK' /\ VersionsTypeOK'
  <2>1. ActsTypeOK'
    BY <1>1, <1>7 DEF StartAction, ActsTypeOK, Extend
  <2> QED
    BY <1>1, <1>7, <2>1 DEF StartAction, EntriesOK, ReadsTypeOK, VersionsTypeOK
<1>8. ASSUME NEW a \in Actors, VentoRuns(a)
      PROVE  /\ now' \in 0..MaxTime /\ EntriesOK(cache)'
             /\ ReadsTypeOK' /\ ActsTypeOK' /\ VersionsTypeOK'
  <2>1. a \in DOMAIN acts /\ acts[a].board \in Boards
    BY <1>1, <1>8 DEF VentoRuns, ActsTypeOK
  <2>2. version[acts[a].board] + 1 \in 0..MaxVersion
    BY <1>1, <1>8, <2>1 DEF VentoRuns, VersionsTypeOK
  <2>3. /\ version' = [version EXCEPT ![acts[a].board] = version[acts[a].board] + 1]
        /\ version'[acts[a].board] = version[acts[a].board] + 1
    BY <1>1, <1>8, <2>1 DEF VentoRuns, VersionsTypeOK
  <2>4. VersionsTypeOK'
    BY <1>1, <1>8, <2>2, <2>3 DEF VentoRuns, VersionsTypeOK
  <2>5. ActsTypeOK'
    BY <1>1, <1>8, <2>1, <2>2, <2>3 DEF VentoRuns, ActsTypeOK, Extend
  <2> QED
    BY <1>1, <1>8, <2>4, <2>5 DEF VentoRuns, EntriesOK, ReadsTypeOK
<1>9. ASSUME NEW a \in Actors, VentoDeclines(a)
      PROVE  /\ now' \in 0..MaxTime /\ EntriesOK(cache)'
             /\ ReadsTypeOK' /\ ActsTypeOK' /\ VersionsTypeOK'
  <2>1. ActsTypeOK'
    BY <1>1, <1>9 DEF VentoDeclines, ActsTypeOK, Extend
  <2> QED
    BY <1>1, <1>9, <2>1 DEF VentoDeclines, EntriesOK, ReadsTypeOK, VersionsTypeOK
<1>10. ASSUME NEW a \in Actors, ActionReturns(a)
       PROVE  /\ now' \in 0..MaxTime /\ EntriesOK(cache)'
              /\ ReadsTypeOK' /\ ActsTypeOK' /\ VersionsTypeOK'
  <2> DEFINE b == acts[a].board
             made == results[a]
  <2>1. /\ a \in DOMAIN results /\ b \in Boards /\ made \in 0..MaxVersion
    BY <1>1, <1>10 DEF ActionReturns, ActsTypeOK
  <2>2. EntriesOK(cache')
    BY <1>1, <1>10, WithoutEntriesOK DEF ActionReturns
  <2>3. ActsTypeOK'
    BY <1>1, <1>10 DEF ActionReturns, ActsTypeOK, Drop
  <2>4. VersionsTypeOK'
    BY <1>1, <1>10, <2>1 DEF ActionReturns, VersionsTypeOK, Later
  <2>5. replies' = Cross(b, made) /\ reads' = reads
    BY <1>10 DEF ActionReturns
  <2>6. \A r \in DOMAIN replies : [replies[r] EXCEPT !.crossed = TRUE] \in Replies(reads[r].of)
    BY <1>1 DEF ReadsTypeOK, Replies
  <2>7. ReadsTypeOK'
    BY <1>1, <2>5, <2>6 DEF ReadsTypeOK, Cross
  <2> QED
    BY <1>1, <1>10, <2>2, <2>3, <2>4, <2>7 DEF ActionReturns, EntriesOK
<1>11. ASSUME NEW a \in Actors, ActionThrows(a)
       PROVE  /\ now' \in 0..MaxTime /\ EntriesOK(cache)'
              /\ ReadsTypeOK' /\ ActsTypeOK' /\ VersionsTypeOK'
  <2>1. ActsTypeOK'
    BY <1>1, <1>11 DEF ActionThrows, ActsTypeOK, Drop
  <2> QED
    BY <1>1, <1>11, <2>1 DEF ActionThrows, EntriesOK, ReadsTypeOK, VersionsTypeOK
<1>12. ASSUME NEW b \in Boards, BoardChanges(b)
       PROVE  /\ now' \in 0..MaxTime /\ EntriesOK(cache)'
              /\ ReadsTypeOK' /\ ActsTypeOK' /\ VersionsTypeOK'
  <2>1. VersionsTypeOK'
    BY <1>1, <1>12 DEF BoardChanges, VersionsTypeOK
  <2> QED
    BY <1>1, <1>12, <2>1 DEF BoardChanges, EntriesOK, ReadsTypeOK, ActsTypeOK
<1>13. ASSUME Tick
       PROVE  /\ now' \in 0..MaxTime /\ EntriesOK(cache)'
              /\ ReadsTypeOK' /\ ActsTypeOK' /\ VersionsTypeOK'
  BY <1>1, <1>13 DEF Tick, EntriesOK, ReadsTypeOK, ActsTypeOK, VersionsTypeOK
<1>14. ASSUME UNCHANGED vars
       PROVE  /\ now' \in 0..MaxTime /\ EntriesOK(cache)'
              /\ ReadsTypeOK' /\ ActsTypeOK' /\ VersionsTypeOK'
  BY <1>1, <1>14 DEF vars, EntriesOK, ReadsTypeOK, ActsTypeOK, VersionsTypeOK
<1> QED
  BY <1>3, <1>4, <1>5, <1>6, <1>7, <1>8, <1>9, <1>10, <1>11, <1>12, <1>13, <1>14
  DEF Next, Read, Action, ServeFromCache

(* Every variable has its type in every reachable state.                   *)
THEOREM ClientTypes == Spec => []TypeOK
BY InitTyped, NextTyped, PTL DEF Spec

-----------------------------------------------------------------------------
(* Time: calls end by their deadline                                       *)

LEMMA NextOnTime == TypeOK /\ OnTime /\ [Next]_vars => OnTime'
<1> SUFFICES ASSUME TypeOK, OnTime, [Next]_vars PROVE OnTime'
  OBVIOUS
<1> USE BoundsAssumption
<1>1. /\ now \in Nat /\ DOMAIN replies \subseteq DOMAIN reads
      /\ \A r \in DOMAIN reads : reads[r].sentAt \in Nat
      /\ \A r \in DOMAIN replies : replies[r].at \in Nat
  BY DEF TypeOK, ReadsTypeOK, Replies
<1>2. ASSUME NEW r \in Readers, NEW q \in Queries, AskVento(r, q) PROVE OnTime'
  BY <1>1, <1>2 DEF AskVento, OnTime, Deadline, Extend
<1>3. ASSUME NEW r \in Readers, VentoAnswers(r) PROVE OnTime'
  BY <1>1, <1>3 DEF VentoAnswers, OnTime, Deadline, Extend
<1>4. ASSUME NEW r \in Readers, ReadReturns(r) PROVE OnTime'
  BY <1>1, <1>4 DEF ReadReturns, OnTime, Deadline, Drop
<1>5. ASSUME NEW r \in Readers, ReadThrows(r) PROVE OnTime'
  BY <1>1, <1>5 DEF ReadThrows, OnTime, Deadline, Drop
<1>6. ASSUME NEW a \in Actors, ActionReturns(a) PROVE OnTime'
  <2>1. /\ DOMAIN replies' = DOMAIN replies
        /\ \A r \in DOMAIN replies : replies'[r].at = replies[r].at
        /\ reads' = reads /\ now' = now
    BY <1>1, <1>6 DEF ActionReturns, Cross, TypeOK, ReadsTypeOK, Replies
  <2> QED BY <1>1, <2>1 DEF OnTime, Deadline
<1>7. ASSUME UNCHANGED <<now, reads, replies>> PROVE OnTime'
  BY <1>7 DEF OnTime, Deadline
<1>8. CASE Tick
  BY <1>1, <1>8 DEF Tick, OnTime, Deadline
<1> QED
  BY <1>2, <1>3, <1>4, <1>5, <1>6, <1>7, <1>8
  DEF Next, Read, Action, ServeFromCache, StartAction, VentoRuns, VentoDeclines,
      ActionThrows, BoardChanges, vars

-----------------------------------------------------------------------------
(* Entries: filed under their key, and not for longer than the lifetime    *)

\* The clauses of Filed, of any cache value at time t.
FiledAt(c, t) ==
    \A k \in DOMAIN c :
        /\ Key(c[k].value.of) = k
        /\ c[k].expiresAt <= c[k].value.at + RequestTimeout + Ttl
        /\ c[k].expiresAt <= t + Ttl

LEMMA PutFiled ==
    ASSUME NEW c, NEW t \in Nat, FiledAt(c, t), NEW v,
           v.at \in Nat, t <= v.at + RequestTimeout
    PROVE  FiledAt(Put(c, Key(v.of), v, t, Ttl, MaxEntries), t)
<1> DEFINE room == MakeRoom(c, Key(v.of), MaxEntries)
           rank == IF Key(v.of) \in DOMAIN room THEN room[Key(v.of)].older ELSE DOMAIN room
           entry == [value |-> v, expiresAt |-> t + Ttl, older |-> rank]
<1>1. FiledAt(room, t)
  BY DEF FiledAt, MakeRoom, Without
<1>2. entry.value = v /\ entry.expiresAt = t + Ttl
  OBVIOUS
<1>3. t + Ttl <= v.at + RequestTimeout + Ttl
  BY BoundsAssumption
<1> HIDE DEF room, entry
<1>4. FiledAt(Extend(room, Key(v.of), entry), t)
  BY <1>1, <1>2, <1>3, BoundsAssumption DEF FiledAt, Extend
<1> QED BY <1>4 DEF Put, room, entry

LEMMA NextFiled == TypeOK /\ OnTime /\ Filed /\ [Next]_vars => Filed'
<1> SUFFICES ASSUME TypeOK, OnTime, Filed, [Next]_vars PROVE Filed'
  OBVIOUS
<1> USE BoundsAssumption
<1>1. /\ now \in Nat /\ FiledAt(cache, now)
      /\ \A k \in DOMAIN cache : cache[k].expiresAt \in Nat
      /\ DOMAIN replies \subseteq DOMAIN reads
      /\ \A r \in DOMAIN replies : replies[r].at \in Nat /\ replies[r].of = reads[r].of
      /\ \A r \in DOMAIN reads : reads[r].sentAt \in Nat
  BY DEF TypeOK, CacheTypeOK, ReadsTypeOK, Replies, Filed, FiledAt
<1>2. SUFFICES FiledAt(cache', now')
  BY DEF Filed, FiledAt
<1>3. ASSUME NEW S, cache' = Without(cache, S), now' = now PROVE FiledAt(cache', now')
  BY <1>1, <1>3 DEF FiledAt, Without
<1>4. ASSUME NEW r \in Readers, NEW q \in Queries, AskVento(r, q)
      PROVE  FiledAt(cache', now')
  BY <1>1, <1>3, <1>4 DEF AskVento, AfterGet
<1>5. ASSUME NEW r \in Readers, ReadReturns(r) PROVE FiledAt(cache', now')
  <2>1. /\ r \in DOMAIN replies /\ r \in DOMAIN reads
        /\ now <= reads[r].sentAt + RequestTimeout
        /\ reads[r].sentAt <= replies[r].at
    BY <1>1, <1>5 DEF ReadReturns, OnTime, Deadline
  <2>2. now <= replies[r].at + RequestTimeout
    BY <1>1, <2>1
  <2>3. CASE Cached(reads[r].of)
    BY <1>1, <1>5, <2>1, <2>2, <2>3, PutFiled DEF ReadReturns
  <2>4. CASE ~ Cached(reads[r].of)
    BY <1>1, <1>5, <2>4 DEF ReadReturns
  <2> QED BY <2>3, <2>4
<1>6. ASSUME NEW a \in Actors, ActionReturns(a) PROVE FiledAt(cache', now')
  BY <1>3, <1>6 DEF ActionReturns
<1>7. ASSUME UNCHANGED <<cache, now>> PROVE FiledAt(cache', now')
  BY <1>1, <1>7
<1>8. CASE Tick
  BY <1>1, <1>8 DEF Tick, FiledAt
<1> QED
  BY <1>4, <1>5, <1>6, <1>7, <1>8
  DEF Next, Read, Action, ServeFromCache, VentoAnswers, ReadThrows, StartAction,
      VentoRuns, VentoDeclines, ActionThrows, BoardChanges, vars

-----------------------------------------------------------------------------
(* Content: what replies and entries show                                  *)

\* The clause of Seen on entries, of any cache value.
EntriesSeen(c) == \A k \in DOMAIN c : c[k].value.crossed \/ Shows(c[k].value, acked)

LEMMA PutSeen ==
    ASSUME NEW c, EntriesSeen(c), NEW k, NEW v, v.crossed \/ Shows(v, acked), NEW t
    PROVE  EntriesSeen(Put(c, k, v, t, Ttl, MaxEntries))
<1> DEFINE room == MakeRoom(c, k, MaxEntries)
           rank == IF k \in DOMAIN room THEN room[k].older ELSE DOMAIN room
           entry == [value |-> v, expiresAt |-> t + Ttl, older |-> rank]
<1>1. EntriesSeen(room)
  BY DEF EntriesSeen, MakeRoom, Without
<1>2. entry.value = v
  OBVIOUS
<1> HIDE DEF room, entry
<1>3. EntriesSeen(Extend(room, k, entry))
  BY <1>1, <1>2 DEF EntriesSeen, Extend
<1> QED BY <1>3 DEF Put, room, entry

(* The heart of AckedActionsVisible: runAction drops every entry that      *)
(* covers its board, so that what stays says nothing about the board       *)
(* (client.ts, runAction).                                                 *)
LEMMA InvalidationCovers ==
    ASSUME TypeOK, Filed, NEW b \in Boards, NEW k \in DOMAIN cache \ Invalidated(b)
    PROVE  b \notin DOMAIN cache[k].value.seen
<1> DEFINE q == cache[k].value.of
<1>1. q \in Queries /\ Cached(q) /\ Key(q) = k
  BY DEF TypeOK, CacheTypeOK, Filed
<1>2. DOMAIN cache[k].value.seen = Covers(q)
  BY DEF TypeOK, CacheTypeOK, Replies
<1>3. k # ListKey /\ k # b
  BY BoardsAssumption DEF Invalidated
<1>4. q.call = "getBoard" /\ q.board = k
  BY <1>1, <1>3 DEF Queries, Cached, Key
<1> QED BY <1>2, <1>3, <1>4 DEF Covers

LEMMA NextSeen == TypeOK /\ Filed /\ Seen /\ [Next]_vars => Seen'
<1> SUFFICES ASSUME TypeOK, Filed, Seen, [Next]_vars PROVE Seen'
  OBVIOUS
<1> USE BoundsAssumption
<1>1. /\ DOMAIN replies \subseteq DOMAIN reads
      /\ \A r \in DOMAIN replies :
            /\ replies[r] \in Replies(reads[r].of)
            /\ DOMAIN replies[r].seen \subseteq Boards
            /\ \A b \in DOMAIN replies[r].seen : replies[r].seen[b] \in Nat
  <2>1. /\ DOMAIN replies \subseteq DOMAIN reads
        /\ \A r \in DOMAIN reads : reads[r].of \in Queries
        /\ \A r \in DOMAIN replies : replies[r] \in Replies(reads[r].of)
    BY DEF TypeOK, ReadsTypeOK
  <2>2. \A q \in Queries : Covers(q) \subseteq Boards
    BY DEF Covers, Queries
  <2> QED BY <2>1, <2>2 DEF Replies
<1>2. /\ version \in [Boards -> Nat] /\ acked \in [Boards -> Nat]
      /\ DOMAIN results \subseteq DOMAIN acts
      /\ \A a \in DOMAIN results : results[a] \in Nat
      /\ \A a \in DOMAIN acts : acts[a].board \in Boards
  BY DEF TypeOK, VersionsTypeOK, ActsTypeOK
<1>3. EntriesSeen(cache)
  BY DEF Seen, EntriesSeen
<1>4. ASSUME NEW r \in Readers, NEW q \in Queries, AskVento(r, q) PROVE Seen'
  <2>1. EntriesSeen(cache')
    BY <1>3, <1>4 DEF AskVento, AfterGet, EntriesSeen, Without
  <2> QED BY <1>4, <2>1 DEF AskVento, Seen, Shows, EntriesSeen
<1>5. ASSUME NEW r \in Readers, VentoAnswers(r) PROVE Seen'
  <2> DEFINE q == reads[r].of
             reply == [of |-> q, seen |-> [b \in Covers(q) |-> version[b]],
                       at |-> now, crossed |-> FALSE]
  <2>1. q \in Queries
    BY <1>5 DEF VentoAnswers, TypeOK, ReadsTypeOK
  <2>2. Covers(q) \subseteq Boards
    BY <2>1 DEF Covers, Queries
  <2>3. Shows(reply, acked)
    BY <1>2, <2>2 DEF Shows, Seen
  <2>4. replies' = Extend(replies, r, reply)
        /\ UNCHANGED <<cache, acts, results, version, acked>>
    BY <1>5 DEF VentoAnswers
  <2> HIDE DEF reply
  <2> QED BY <2>3, <2>4 DEF Seen, Shows, Extend
<1>6. ASSUME NEW r \in Readers, ReadReturns(r) PROVE Seen'
  <2>1. r \in DOMAIN replies /\ (replies[r].crossed \/ Shows(replies[r], acked))
    BY <1>6 DEF ReadReturns, Seen
  <2>2. EntriesSeen(cache')
    BY <1>3, <1>6, <2>1, PutSeen DEF ReadReturns
  <2> QED BY <1>6, <2>2 DEF ReadReturns, Seen, Shows, EntriesSeen, Drop
<1>7. ASSUME NEW r \in Readers, ReadThrows(r) PROVE Seen'
  BY <1>7 DEF ReadThrows, Seen, Shows, Drop
<1>8. ASSUME NEW a \in Actors, VentoRuns(a) PROVE Seen'
  <2> DEFINE x == acts[a].board
  <2>1. /\ x \in Boards /\ version' = [version EXCEPT ![x] = version[x] + 1]
        /\ results' = Extend(results, a, version[x] + 1)
        /\ UNCHANGED <<cache, replies, acts, acked>>
    BY <1>2, <1>8 DEF VentoRuns
  <2>2. \A b \in Boards : version'[b] >= version[b]
    BY <1>2, <2>1
  <2>3. \A b \in Boards : acked'[b] <= version'[b]
    BY <1>2, <2>1, <2>2 DEF Seen
  <2>4. \A y \in DOMAIN results' : results'[y] <= version'[acts'[y].board]
    BY <1>2, <2>1, <2>2 DEF Seen, Extend
  <2> QED BY <2>1, <2>3, <2>4 DEF Seen, Shows
<1>9. ASSUME NEW a \in Actors, VentoDeclines(a) PROVE Seen'
  BY <1>2, <1>9 DEF VentoDeclines, Seen, Shows, Extend
<1>10. ASSUME NEW a \in Actors, ActionReturns(a) PROVE Seen'
  <2> DEFINE b == acts[a].board
             made == results[a]
  <2>1. /\ a \in DOMAIN results /\ b \in Boards
        /\ made \in Nat /\ made <= version[b]
    BY <1>2, <1>10 DEF ActionReturns, Seen
  <2>2. /\ acked' = [acked EXCEPT ![b] = Later(acked[b], made)]
        /\ cache' = Without(cache, Invalidated(b))
        /\ acts' = Drop(acts, a) /\ results' = Drop(results, a)
        /\ replies' = Cross(b, made) /\ version' = version
    BY <1>10 DEF ActionReturns
  <2>3. /\ \A y \in Boards : y # b => acked'[y] = acked[y]
        /\ acked'[b] = acked[b] \/ acked'[b] = made
    BY <1>2, <2>1, <2>2 DEF Later
  <2>4. \A y \in Boards : acked'[y] <= version'[y]
    BY <2>1, <2>2, <2>3 DEF Seen
  <2>5. \A y \in DOMAIN results' : results'[y] <= version'[acts'[y].board]
    BY <1>2, <2>2 DEF Seen, Drop
  <2>6. ASSUME NEW r \in DOMAIN replies'
        PROVE  replies'[r].crossed \/ Shows(replies'[r], acked')
    <3>1. r \in DOMAIN replies
      BY <2>2 DEF Cross
    <3>2. CASE b \in DOMAIN replies[r].seen /\ replies[r].seen[b] < made
      <4>1. replies'[r] = [replies[r] EXCEPT !.crossed = TRUE]
        BY <2>2, <3>1, <3>2 DEF Cross
      <4>2. "crossed" \in DOMAIN replies[r]
        BY <1>1, <3>1 DEF Replies
      <4> QED BY <4>1, <4>2
    <3>3. CASE ~ (b \in DOMAIN replies[r].seen /\ replies[r].seen[b] < made)
      <4>1. replies'[r] = replies[r]
        BY <2>2, <3>1, <3>3 DEF Cross
      <4>2. CASE replies[r].crossed
        BY <4>1, <4>2
      <4>3. CASE Shows(replies[r], acked)
        BY <1>1, <2>1, <2>3, <3>1, <3>3, <4>1, <4>3 DEF Shows
      <4> QED BY <3>1, <4>2, <4>3 DEF Seen
    <3> QED BY <3>2, <3>3
  <2>7. ASSUME NEW k \in DOMAIN cache'
        PROVE  cache'[k].value.crossed \/ Shows(cache'[k].value, acked')
    <3>1. k \in DOMAIN cache \ Invalidated(b) /\ cache'[k].value = cache[k].value
      BY <2>2, <2>7 DEF Without
    <3>2. b \notin DOMAIN cache[k].value.seen
      BY <2>1, <3>1, InvalidationCovers
    <3>3. DOMAIN cache[k].value.seen \subseteq Boards
      <4>1. cache[k].value.of \in Queries
        BY <3>1 DEF TypeOK, CacheTypeOK
      <4>2. DOMAIN cache[k].value.seen = Covers(cache[k].value.of)
        BY <3>1 DEF TypeOK, CacheTypeOK, Replies
      <4> QED BY <4>1, <4>2 DEF Covers, Queries
    <3> QED BY <2>3, <3>1, <3>2, <3>3 DEF Seen, Shows
  <2> QED BY <2>4, <2>5, <2>6, <2>7 DEF Seen
<1>11. ASSUME NEW a \in Actors, ActionThrows(a) PROVE Seen'
  BY <1>2, <1>11 DEF ActionThrows, Seen, Shows, Drop
<1>12. ASSUME NEW b \in Boards, BoardChanges(b) PROVE Seen'
  <2>1. /\ \A y \in Boards : version'[y] >= version[y]
        /\ UNCHANGED <<cache, replies, acts, results, acked>>
    BY <1>2, <1>12 DEF BoardChanges
  <2>2. \A y \in Boards : version'[y] \in Nat
    BY <1>2, <1>12 DEF BoardChanges
  <2>3. \A y \in Boards : acked'[y] <= version'[y]
    BY <1>2, <2>1, <2>2 DEF Seen
  <2>4. \A a \in DOMAIN results' : results'[a] <= version'[acts'[a].board]
    BY <1>2, <2>1, <2>2 DEF Seen
  <2> QED BY <2>1, <2>3, <2>4 DEF Seen, Shows
<1>13. ASSUME UNCHANGED <<cache, replies, acts, results, version, acked>> PROVE Seen'
  BY <1>13 DEF Seen, Shows
<1>14. ASSUME NEW a \in Actors, NEW b \in Boards, StartAction(a, b) PROVE Seen'
  <2>1. \A y \in DOMAIN results : acts'[y].board = acts[y].board
    BY <1>2, <1>14 DEF StartAction, Extend
  <2> QED BY <1>14, <2>1 DEF StartAction, Seen, Shows
<1> QED
  BY <1>4, <1>5, <1>6, <1>7, <1>8, <1>9, <1>10, <1>11, <1>12, <1>13, <1>14
  DEF Next, Read, Action, ServeFromCache, Tick, vars

-----------------------------------------------------------------------------
(* The properties                                                          *)

LEMMA InductiveAlways == Spec => []Inductive
<1>1. Init => Inductive
  <2> SUFFICES ASSUME Init PROVE Inductive
    OBVIOUS
  <2>1. OnTime /\ Filed
    BY DEF Init, OnTime, Filed, EmptyMap
  <2>2. Seen
    BY DEF Init, Seen, EmptyMap
  <2> QED BY InitTyped, <2>1, <2>2 DEF Inductive
<1>2. Inductive /\ [Next]_vars => Inductive'
  BY NextTyped, NextOnTime, NextFiled, NextSeen DEF Inductive
<1> QED BY <1>1, <1>2, PTL DEF Spec

(* No call is served a reply older than the TTL plus one request timeout   *)
(* (client.ts, cachedRequest and REQUEST_TIMEOUT_MS).                      *)
THEOREM StalenessIsBounded == Spec => []StalenessBounded
<1>1. Inductive => StalenessBounded
  <2> SUFFICES ASSUME Inductive, NEW k \in DOMAIN cache, LiveAt(cache, k, now)
               PROVE  now - cache[k].value.at < Ttl + RequestTimeout
    BY DEF StalenessBounded
  <2>1. /\ now < cache[k].expiresAt
        /\ cache[k].expiresAt <= cache[k].value.at + RequestTimeout + Ttl
    BY DEF LiveAt, Inductive, Filed, TypeOK, CacheTypeOK
  <2>2. now \in Nat /\ cache[k].expiresAt \in Nat /\ cache[k].value.at \in Nat
    BY BoundsAssumption DEF Inductive, TypeOK, CacheTypeOK, Replies
  <2> QED BY <2>1, <2>2, BoundsAssumption
<1> QED BY <1>1, InductiveAlways, PTL

(* After runAction has returned, only a reply that was on its way by then  *)
(* can still hide the action from a caller (client.ts, runAction).         *)
THEOREM AckedActionsAreVisible == Spec => []AckedActionsVisible
<1>1. Inductive => AckedActionsVisible
  BY DEF Inductive, Seen, AckedActionsVisible
<1> QED BY <1>1, InductiveAlways, PTL

(* With CACHE_TTL_SECONDS=0 nothing is served from the cache.              *)
THEOREM ZeroTtlTurnsCachingOff == Spec => []CachingOff
<1>1. Inductive => CachingOff
  BY BoundsAssumption
  DEF Inductive, Filed, TypeOK, CacheTypeOK, CachingOff, LiveAt
<1> QED BY <1>1, InductiveAlways, PTL

-----------------------------------------------------------------------------
(* The capacity of the client's cache                                      *)

Sized ==
    InOrder(cache) /\ IsFiniteSet(DOMAIN cache) /\ Cardinality(DOMAIN cache) <= MaxEntries

LEMMA NextSized == Sized /\ [Next]_vars => Sized'
<1> SUFFICES ASSUME Sized, [Next]_vars PROVE Sized'
  OBVIOUS
<1> USE BoundsAssumption
<1>1. ASSUME NEW S, cache' = Without(cache, S) PROVE Sized'
  BY <1>1, WithoutInOrder, WithoutWithinCapacity DEF Sized
<1>2. ASSUME cache' = cache PROVE Sized'
  BY <1>2 DEF Sized
<1>3. ASSUME NEW r \in Readers, NEW q \in Queries, AskVento(r, q) PROVE Sized'
  BY <1>1, <1>2, <1>3 DEF AskVento, AfterGet
<1>4. ASSUME NEW r \in Readers, ReadReturns(r) PROVE Sized'
  <2>1. CASE cache' = Put(cache, Key(reads[r].of), replies[r], now, Ttl, MaxEntries)
    BY <2>1, PutInOrder, PutWithinCapacity DEF Sized
  <2> QED BY <1>2, <1>4, <2>1 DEF ReadReturns
<1>5. ASSUME NEW a \in Actors, ActionReturns(a) PROVE Sized'
  BY <1>1, <1>5 DEF ActionReturns
<1> QED
  BY <1>2, <1>3, <1>4, <1>5
  DEF Next, Read, Action, ServeFromCache, VentoAnswers, ReadThrows, StartAction,
      VentoRuns, VentoDeclines, ActionThrows, BoardChanges, Tick, vars

(* The client's cache never exceeds its capacity, however its calls        *)
(* overlap and entries expire (cache.ts, set; client.ts, cachedRequest).   *)
THEOREM ClientCacheWithinCapacity == Spec => [](Cardinality(DOMAIN cache) <= MaxEntries)
<1>1. Init => Sized
  <2> SUFFICES ASSUME Init PROVE Sized
    OBVIOUS
  <2>1. DOMAIN cache = {}
    BY DEF Init, EmptyMap
  <2> QED BY <2>1, FS_EmptySet, BoundsAssumption DEF Sized, InOrder
<1>2. Sized => Cardinality(DOMAIN cache) <= MaxEntries
  BY DEF Sized
<1> QED BY <1>1, <1>2, NextSized, PTL DEF Spec

-----------------------------------------------------------------------------
(* What the refuted claims would need                                      *)

(* No action returns while an older reply on its board is on its way.      *)
NobodyOvertaken ==
    [][\A a \in Actors : ActionReturns(a) =>
          \A r \in DOMAIN replies :
             acts[a].board \in DOMAIN replies[r].seen
                => replies[r].seen[acts[a].board] >= results[a]]_vars

Uncrossed ==
    /\ \A r \in DOMAIN replies : replies[r].crossed = FALSE
    /\ \A k \in DOMAIN cache : cache[k].value.crossed = FALSE

(* A reply is crossed by a returning action alone.                         *)
LEMMA StaysUncrossed ==
    ASSUME TypeOK, Uncrossed, [Next]_vars,
           \A a \in Actors : ActionReturns(a) =>
              \A r \in DOMAIN replies :
                 acts[a].board \in DOMAIN replies[r].seen
                    => replies[r].seen[acts[a].board] >= results[a]
    PROVE  Uncrossed'
<1>1. \A r \in DOMAIN replies : replies[r].crossed = FALSE
  BY DEF Uncrossed
<1>2. \A k \in DOMAIN cache : cache[k].value.crossed = FALSE
  BY DEF Uncrossed
<1>3. ASSUME NEW S, cache' = Without(cache, S)
      PROVE  \A k \in DOMAIN cache' : cache'[k].value.crossed = FALSE
  BY <1>2, <1>3 DEF Without
<1>4. ASSUME NEW r \in Readers, NEW q \in Queries, AskVento(r, q) PROVE Uncrossed'
  BY <1>1, <1>2, <1>3, <1>4 DEF AskVento, AfterGet, Uncrossed
<1>5. ASSUME NEW r \in Readers, VentoAnswers(r) PROVE Uncrossed'
  <2>1. /\ DOMAIN replies' = DOMAIN replies \cup {r}
        /\ replies'[r].crossed = FALSE
        /\ \A x \in DOMAIN replies : x # r => replies'[x] = replies[x]
        /\ cache' = cache
    BY <1>5 DEF VentoAnswers, Extend
  <2> QED BY <1>1, <1>2, <2>1 DEF Uncrossed
<1>6. ASSUME NEW r \in Readers, ReadReturns(r) PROVE Uncrossed'
  <2> DEFINE k == Key(reads[r].of)
             room == MakeRoom(cache, k, MaxEntries)
  <2>1. /\ DOMAIN replies' = DOMAIN replies \ {r}
        /\ \A x \in DOMAIN replies' : replies'[x] = replies[x]
        /\ replies[r].crossed = FALSE
    BY <1>1, <1>6 DEF ReadReturns, Drop
  <2>2. \A x \in DOMAIN room : room[x].value.crossed = FALSE
    BY <1>2 DEF MakeRoom, Without
  <2>3. ASSUME cache' = Put(cache, k, replies[r], now, Ttl, MaxEntries)
        PROVE  \A x \in DOMAIN cache' : cache'[x].value.crossed = FALSE
    BY <2>1, <2>2, <2>3 DEF Put, Extend
  <2> QED BY <1>1, <1>2, <1>6, <2>1, <2>3 DEF ReadReturns, Uncrossed
<1>7. ASSUME NEW r \in Readers, ReadThrows(r) PROVE Uncrossed'
  BY <1>1, <1>2, <1>7 DEF ReadThrows, Drop, Uncrossed
<1>8. ASSUME NEW a \in Actors, ActionReturns(a) PROVE Uncrossed'
  <2>1. /\ replies' = Cross(acts[a].board, results[a])
        /\ cache' = Without(cache, Invalidated(acts[a].board))
    BY <1>8 DEF ActionReturns
  <2>2. \A r \in DOMAIN replies : replies'[r] = replies[r]
    <3>1. \A r \in DOMAIN replies : acts[a].board \in DOMAIN replies[r].seen
              => replies[r].seen[acts[a].board] >= results[a]
      BY <1>8
    <3>2. /\ results[a] \in Int
          /\ \A r \in DOMAIN replies : acts[a].board \in DOMAIN replies[r].seen
                => replies[r].seen[acts[a].board] \in Int
      BY <1>8, BoundsAssumption
         DEF ActionReturns, TypeOK, ActsTypeOK, ReadsTypeOK, Replies
    <3> QED BY <2>1, <3>1, <3>2 DEF Cross
  <2> QED BY <1>1, <1>3, <2>1, <2>2 DEF Cross, Uncrossed
<1>9. ASSUME UNCHANGED <<cache, replies>> PROVE Uncrossed'
  BY <1>9 DEF Uncrossed
<1> QED
  BY <1>4, <1>5, <1>6, <1>7, <1>8, <1>9
  DEF Next, Read, Action, ServeFromCache, StartAction, VentoRuns, VentoDeclines,
      ActionThrows, BoardChanges, Tick, vars

(* docs/ARCHITECTURE.md's claim has this gap only: when no action returns  *)
(* while an older reply is on its way, no stale board is served after it   *)
(* (client.ts, cachedRequest and runAction).                               *)
THEOREM OvertakingIsTheOnlyGap == Spec /\ NobodyOvertaken => []NoStaleAfterAction
<1>1. Init => Uncrossed
  BY DEF Init, EmptyMap, Uncrossed
<1>2. Inductive => TypeOK
  BY DEF Inductive
<1>3. Inductive /\ Uncrossed => NoStaleAfterAction
  BY DEF Inductive, Seen, Uncrossed, NoStaleAfterAction
<1>4. TypeOK /\ Uncrossed /\ [Next]_vars
        /\ [\A a \in Actors : ActionReturns(a) =>
               \A r \in DOMAIN replies :
                  acts[a].board \in DOMAIN replies[r].seen
                     => replies[r].seen[acts[a].board] >= results[a]]_vars
        => Uncrossed'
  <2>1. UNCHANGED vars /\ Uncrossed => Uncrossed'
    BY DEF vars, Uncrossed
  <2> QED BY <2>1, StaysUncrossed
<1> QED BY <1>1, <1>2, <1>3, <1>4, InductiveAlways, PTL DEF Spec, NobodyOvertaken

(* Every action that Vento ran is answered in time.                        *)
RunActionsReturn ==
    [][\A a \in DOMAIN results : a \notin DOMAIN acts' => ActionReturns(a)]_vars

(* docs/TROUBLESHOOTING.md's claim has this gap only: when every action    *)
(* that Vento ran is answered in time, no call is served what an action    *)
(* has just changed (client.ts, runAction).                                *)
THEOREM LostAnswersAreTheOnlyGap == Spec /\ RunActionsReturn => NoStaleAtActionEnd
<1>1. Inductive
        /\ [\A a \in DOMAIN results : a \notin DOMAIN acts' => ActionReturns(a)]_vars
        => [\A a \in DOMAIN results :
               a \notin DOMAIN acts' =>
                   \A k \in DOMAIN cache' :
                       LiveAt(cache', k, now')
                           /\ acts[a].board \in DOMAIN cache'[k].value.seen
                           => cache'[k].value.seen[acts[a].board] >= results[a]]_vars
  <2> SUFFICES ASSUME Inductive, NEW a \in DOMAIN results, ActionReturns(a),
                      NEW k \in DOMAIN cache'
               PROVE  acts[a].board \notin DOMAIN cache'[k].value.seen
    OBVIOUS
  <2>1. acts[a].board \in Boards
    BY DEF Inductive, TypeOK, ActsTypeOK
  <2>2. k \in DOMAIN cache \ Invalidated(acts[a].board) /\ cache'[k].value = cache[k].value
    BY DEF ActionReturns, Without
  <2> QED BY <2>1, <2>2, InvalidationCovers DEF Inductive
<1> QED BY <1>1, InductiveAlways, PTL DEF RunActionsReturn, NoStaleAtActionEnd

=============================================================================
