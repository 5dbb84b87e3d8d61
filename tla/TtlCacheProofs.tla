--------------------------- MODULE TtlCacheProofs ---------------------------
(* TtlCache for every set of keys and every capacity: types, the capacity, *)
(* and the refinement of CacheContract.                                    *)
EXTENDS TtlCache, TtlMapProofs

(* Every call keeps the cache well-typed, and no entry is ranked after a   *)
(* key that is gone (cache.ts).                                            *)
THEOREM CacheTypes == Spec => []TypeOK
<1> USE CacheAssumption
<1>1. Init => TypeOK
  BY DEF Init, TypeOK, EmptyMap
<1>2. TypeOK /\ [Next]_vars => TypeOK'
  <2> SUFFICES ASSUME TypeOK, [Next]_vars PROVE TypeOK'
    OBVIOUS
  <2> USE DEF TypeOK
  <2>1. ASSUME NEW k \in Keys, Get(k) PROVE TypeOK'
    BY <2>1 DEF Get, AfterGet, Without
  <2>2. ASSUME NEW k \in Keys, Delete(k) PROVE TypeOK'
    BY <2>2 DEF Delete, Without
  <2>3. ASSUME NEW k \in Keys, NEW v \in Values, NEW ttl \in Lifetimes, Set(k, v, ttl)
        PROVE  TypeOK'
    <3> DEFINE room == MakeRoom(cache, k, MaxEntries)
    <3>1. /\ DOMAIN room \subseteq Keys
          /\ \A x \in DOMAIN room : /\ room[x].value \in Values
                                    /\ room[x].expiresAt \in Nat
                                    /\ room[x].older \subseteq DOMAIN room
      BY DEF MakeRoom, Without
    <3>2. now + ttl \in Nat
      OBVIOUS
    <3> HIDE DEF room
    <3>3. cache' = Put(cache, k, v, now, ttl, MaxEntries) /\ now' = now
      BY <2>3 DEF Set
    <3> QED BY <3>1, <3>2, <3>3 DEF Put, Extend, room
  <2>4. ASSUME NEW keys \in Prefixes, DeletePrefix(keys) PROVE TypeOK'
    BY <2>4 DEF DeletePrefix, Without
  <2>5. CASE Clear
    BY <2>5 DEF Clear, EmptyMap
  <2>6. CASE Tick
    BY <2>6 DEF Tick
  <2>7. CASE UNCHANGED vars
    BY <2>7 DEF vars
  <2> QED BY <2>1, <2>2, <2>3, <2>4, <2>5, <2>6, <2>7 DEF Next
<1> QED BY <1>1, <1>2, PTL DEF Spec

(* What makes the capacity inductive: the keys are finitely many and stay  *)
(* in order, so an eviction always finds an entry to evict.                *)
Sized == IsFiniteSet(DOMAIN cache) /\ Cardinality(DOMAIN cache) <= MaxEntries

LEMMA SizedInductive ==
    ASSUME InOrder(cache), Sized, [Next]_vars
    PROVE  InOrder(cache)' /\ Sized'
<1> USE CacheAssumption
<1>1. ASSUME NEW S, cache' = Without(cache, S)
      PROVE  InOrder(cache)' /\ Sized'
  BY <1>1, WithoutInOrder, WithoutWithinCapacity DEF Sized
<1>2. ASSUME NEW k \in Keys, Get(k) PROVE InOrder(cache)' /\ Sized'
  <2>1. CASE cache' = cache
    BY <2>1 DEF Sized
  <2>2. CASE cache' = Without(cache, {k})
    BY <1>1, <2>2
  <2> QED BY <1>2, <2>1, <2>2 DEF Get, AfterGet
<1>3. ASSUME NEW k \in Keys, Delete(k) PROVE InOrder(cache)' /\ Sized'
  BY <1>1, <1>3 DEF Delete
<1>4. ASSUME NEW k \in Keys, NEW v \in Values, NEW ttl \in Lifetimes, Set(k, v, ttl)
      PROVE  InOrder(cache)' /\ Sized'
  BY <1>4, PutInOrder, PutWithinCapacity DEF Set, Sized
<1>5. ASSUME NEW keys \in Prefixes, DeletePrefix(keys) PROVE InOrder(cache)' /\ Sized'
  BY <1>1, <1>5 DEF DeletePrefix
<1>6. CASE Clear
  <2>1. DOMAIN cache' = {}
    BY <1>6 DEF Clear, EmptyMap
  <2>2. Sized'
    BY <2>1, FS_EmptySet DEF Sized
  <2> QED BY <2>1, <2>2 DEF InOrder
<1>7. CASE Tick
  BY <1>7 DEF Tick, Sized
<1>8. CASE UNCHANGED vars
  BY <1>8 DEF vars, Sized
<1> QED BY <1>2, <1>3, <1>4, <1>5, <1>6, <1>7, <1>8 DEF Next

LEMMA SizedAlways == Spec => [](InOrder(cache) /\ Sized)
<1>1. Init => InOrder(cache) /\ Sized
  <2> SUFFICES ASSUME Init PROVE InOrder(cache) /\ Sized
    OBVIOUS
  <2>1. DOMAIN cache = {}
    BY DEF Init, EmptyMap
  <2>2. Sized
    BY <2>1, FS_EmptySet, CacheAssumption DEF Sized
  <2> QED BY <2>1, <2>2 DEF InOrder
<1> QED BY <1>1, SizedInductive, PTL DEF Spec

(* The cache never holds more entries than its capacity (cache.ts, set).   *)
THEOREM CacheWithinCapacity == Spec => []CapacityHeld
<1>1. Sized => CapacityHeld
  BY DEF Sized, CapacityHeld
<1> QED BY <1>1, SizedAlways, PTL

-----------------------------------------------------------------------------
(* The refinement                                                          *)

(* The contract counts as the cache does.                                  *)
LEMMA SameCardinality == \A S : Contract!Cardinality(S) = Cardinality(S)
BY DEF Contract!Cardinality, Cardinality

(* Deleting keys vacates their places, and only theirs.                    *)
LEMMA WithoutVacates ==
    ASSUME NEW S, cache' = Without(cache, S)
    PROVE  Contract!Vacate(S)
<1>1. /\ DOMAIN cache' = DOMAIN cache \ S
      /\ \A x \in DOMAIN cache' : cache'[x].older = cache[x].older \ S
  BY DEF Without
<1>2. InsertedBefore' = Contract!Among(DOMAIN cache \ S)
  BY <1>1 DEF InsertedBefore, Contract!Among
<1> QED BY <1>1, <1>2 DEF Contract!Vacate

(* Deleting keys is Forget (cache.ts, delete, deletePrefix, clear).        *)
LEMMA WithoutForgets ==
    ASSUME NEW S, cache' = Without(cache, S), UNCHANGED now
    PROVE  Contract!Forget(S)
<1>1. LiveKeys' = LiveKeys \ S
  BY DEF LiveKeys, LiveAt, Without
<1>2. LiveEntries' = [k \in LiveKeys \ S |-> LiveEntries[k]]
  BY <1>1 DEF LiveEntries, Without, LiveKeys
<1>3. DOMAIN LiveEntries = LiveKeys /\ LiveKeys \subseteq DOMAIN cache
  BY DEF LiveEntries, LiveKeys
<1>4. LiveEntries' = Contract!Keep(DOMAIN cache \ S)
  BY <1>2, <1>3 DEF Contract!Keep
<1> QED BY <1>4, WithoutVacates DEF Contract!Forget

(* get leaves the cache alone, or gives back the place of an entry that is *)
(* over (cache.ts, get).                                                   *)
LEMMA GetAnswers ==
    ASSUME NEW k \in Keys, Get(k)
    PROVE  [Contract!Next]_Contract!vars
<1>1. CASE cache' = cache
  BY <1>1 DEF Get, Contract!vars, LiveEntries, LiveKeys, LiveAt, InsertedBefore
<1>2. CASE cache' = Without(cache, {k}) /\ k \notin DOMAIN cache
  <2>1. /\ DOMAIN cache' = DOMAIN cache
        /\ \A x \in DOMAIN cache : /\ cache'[x].value = cache[x].value
                                   /\ cache'[x].expiresAt = cache[x].expiresAt
    BY <1>2 DEF Without
  <2>2. LiveKeys' = LiveKeys
    BY <1>2, <2>1 DEF Get, LiveKeys, LiveAt
  <2>3. LiveEntries' = LiveEntries
    BY <2>1, <2>2 DEF LiveEntries, LiveKeys
  <2>4. InsertedBefore' = InsertedBefore
    BY <1>2, <2>1 DEF InsertedBefore, Without
  <2> QED BY <2>1, <2>3, <2>4 DEF Get, Contract!vars
<1>3. CASE cache' = Without(cache, {k}) /\ k \in DOMAIN cache /\ ~ LiveAt(cache, k, now)
  <2>1. k \notin LiveKeys
    BY <1>3 DEF LiveKeys
  <2>2. LiveKeys' = LiveKeys /\ now' = now
    BY <1>3, <2>1 DEF Get, LiveKeys, LiveAt, Without
  <2>3. LiveEntries' = LiveEntries
    BY <1>3, <2>1, <2>2 DEF LiveEntries, LiveKeys, Without
  <2>4. k \in DOMAIN cache \ DOMAIN LiveEntries
    BY <1>3, <2>1 DEF LiveEntries
  <2>5. Contract!LookInVain(k)
    BY <1>3, <2>2, <2>3, <2>4, WithoutVacates DEF Contract!LookInVain
  <2> QED BY <2>5 DEF Contract!Next
<1> QED BY <1>1, <1>2, <1>3 DEF Get, AfterGet, LiveAt

(* set finds a place: the key's own, a free one, or that of the key        *)
(* inserted first (cache.ts, set).                                         *)
LEMMA SetFindsPlace ==
    ASSUME TypeOK, InOrder(cache), Sized,
           NEW k \in Keys, NEW v \in Values, NEW ttl \in Lifetimes, Set(k, v, ttl)
    PROVE  Contract!KeepPlace(k) \/ Contract!TakeFreePlace(k) \/ Contract!DisplaceFirst(k)
<1> USE CacheAssumption
<1> DEFINE room == MakeRoom(cache, k, MaxEntries)
<1>1. /\ DOMAIN cache' = DOMAIN room \cup {k}
      /\ \A x \in DOMAIN room \ {k} : cache'[x].older = room[x].older
      /\ cache'[k].older = IF k \in DOMAIN room THEN room[k].older ELSE DOMAIN room
  <2> HIDE DEF room
  <2>1. cache' = Put(cache, k, v, now, ttl, MaxEntries)
    BY DEF Set
  <2> QED BY <2>1 DEF Put, Extend, room
<1>2. Cardinality(DOMAIN cache) \in Nat /\ Contract!Cardinality(DOMAIN cache) = Cardinality(DOMAIN cache)
  BY FS_CardinalityType, SameCardinality DEF Sized
<1>3. CASE k \in DOMAIN cache
  <2>1. room = cache
    BY <1>3 DEF MakeRoom
  <2>2. DOMAIN cache' = DOMAIN cache /\ \A x \in DOMAIN cache : cache'[x].older = cache[x].older
    BY <1>1, <1>3, <2>1
  <2>3. InsertedBefore' = InsertedBefore
    BY <2>2 DEF InsertedBefore
  <2> QED BY <1>3, <2>2, <2>3 DEF Contract!KeepPlace
<1>4. ASSUME k \notin DOMAIN cache, NEW S, DOMAIN room = DOMAIN cache \ S,
             \A x \in DOMAIN room : room[x].older = cache[x].older \ S
      PROVE  Contract!JoinAfter(k, DOMAIN cache \ S)
  <2> DEFINE D == DOMAIN cache \ S
  <2>1. /\ DOMAIN cache' = D \cup {k}
        /\ \A x \in D : cache'[x].older = cache[x].older \ S
        /\ cache'[k].older = D
    BY <1>1, <1>4
  <2>2. \A x \in D : k \notin cache[x].older
    BY <1>4 DEF InOrder
  <2>3. Contract!Among(D) = {p \in D \X D : p[1] \in cache[p[2]].older}
    BY DEF Contract!Among, InsertedBefore
  <2>4. InsertedBefore' = {p \in (D \cup {k}) \X (D \cup {k}) : p[1] \in cache'[p[2]].older}
    BY <2>1 DEF InsertedBefore
  <2>5. k \notin D
    BY <1>4
  <2> HIDE DEF D
  <2>6. ASSUME NEW i \in D \cup {k}, NEW j \in D \cup {k}
        PROVE  i \in cache'[j].older <=> \/ i \in D /\ j \in D /\ i \in cache[j].older
                                         \/ i \in D /\ j = k
    <3>1. CASE j = k
      BY <2>1, <2>5, <3>1
    <3>2. CASE j \in D /\ i \in D
      BY <2>1, <2>5, <3>2 DEF D
    <3>3. CASE j \in D /\ i = k
      BY <2>1, <2>2, <2>5, <3>3
    <3> QED BY <3>1, <3>2, <3>3
  <2>7. InsertedBefore' = Contract!Among(D) \cup (D \X {k})
    BY <2>3, <2>4, <2>5, <2>6
  <2> QED BY <2>1, <2>7 DEF D, Contract!JoinAfter
<1>5. CASE k \notin DOMAIN cache /\ Cardinality(DOMAIN cache) < MaxEntries
  <2>1. room = cache
    BY <1>2, <1>5 DEF MakeRoom
  <2>2. /\ DOMAIN room = DOMAIN cache \ {}
        /\ \A x \in DOMAIN room : room[x].older = cache[x].older \ {}
    BY <2>1
  <2> HIDE DEF room
  <2>3. Contract!JoinAfter(k, DOMAIN cache \ {})
    BY <1>4, <1>5, <2>2
  <2>4. DOMAIN cache \ {} = DOMAIN cache
    OBVIOUS
  <2>5. Contract!JoinAfter(k, DOMAIN cache)
    BY <2>3, <2>4
  <2> QED BY <1>2, <1>5, <2>5 DEF Contract!TakeFreePlace
<1>6. CASE k \notin DOMAIN cache /\ Cardinality(DOMAIN cache) >= MaxEntries
  <2>1. DOMAIN cache # {}
    BY <1>6, FS_EmptySet DEF Sized
  <2>2. PICK o \in DOMAIN cache : Oldest(cache) = {o}
    BY <2>1, OneOldest DEF Sized
  <2>3. room = Without(cache, {o})
    BY <1>6, <2>2 DEF MakeRoom
  <2>4. /\ DOMAIN room = DOMAIN cache \ {o}
        /\ \A x \in DOMAIN room : room[x].older = cache[x].older \ {o}
    BY <2>3 DEF Without
  <2> HIDE DEF room
  <2>5. Contract!JoinAfter(k, DOMAIN cache \ {o})
    BY <1>4, <1>6, <2>4
  <2>6. \A j \in DOMAIN cache : <<j, o>> \notin InsertedBefore
    BY <2>2 DEF Oldest, InsertedBefore
  <2> QED BY <1>2, <1>6, <2>5, <2>6 DEF Contract!DisplaceFirst
<1> QED BY <1>2, <1>3, <1>5, <1>6

(* set stores its entry beside the live ones that still have their place   *)
(* (cache.ts, set).                                                        *)
LEMMA SetStores ==
    ASSUME TypeOK, InOrder(cache), Sized,
           NEW k \in Keys, NEW v \in Values, NEW ttl \in Lifetimes, Set(k, v, ttl)
    PROVE  Contract!Store(k, v, ttl)
<1> USE CacheAssumption
<1> DEFINE room == MakeRoom(cache, k, MaxEntries)
           stay == LiveKeys \cap DOMAIN cache'
           entry == [value |-> v, expiresAt |-> now + ttl]
<1>1. /\ DOMAIN room \subseteq DOMAIN cache
      /\ \A x \in DOMAIN room : /\ room[x].value = cache[x].value
                                /\ room[x].expiresAt = cache[x].expiresAt
  BY DEF MakeRoom, Without
<1> HIDE DEF room
<1>2. /\ DOMAIN cache' = DOMAIN room \cup {k}
      /\ cache'[k].value = v /\ cache'[k].expiresAt = now + ttl
      /\ \A x \in DOMAIN room \ {k} : cache'[x] = room[x]
      /\ now' = now
  BY DEF Set, Put, Extend, room
<1>3. now \in Nat /\ ttl \in Nat
  BY DEF TypeOK
<1>4. LiveKeys' = IF ttl = 0 THEN stay \ {k} ELSE stay \cup {k}
  BY <1>1, <1>2, <1>3 DEF LiveKeys, LiveAt
<1>5. \A x \in stay \ {k} : /\ cache'[x].value = cache[x].value
                            /\ cache'[x].expiresAt = cache[x].expiresAt
  BY <1>1, <1>2
<1>6. DOMAIN LiveEntries = LiveKeys
  BY DEF LiveEntries
<1>7. \A x \in stay : LiveEntries[x] = [value |-> cache[x].value, expiresAt |-> cache[x].expiresAt]
  BY DEF LiveEntries
<1>8. LiveEntries' = IF ttl = 0 THEN [x \in stay \ {k} |-> LiveEntries[x]]
                     ELSE [x \in stay \cup {k} |-> IF x = k THEN entry ELSE LiveEntries[x]]
  <2> HIDE DEF stay
  <2>1. CASE ttl = 0
    BY <1>4, <1>5, <1>7, <2>1 DEF LiveEntries
  <2>2. CASE ttl # 0
    BY <1>2, <1>4, <1>5, <1>7, <2>2 DEF LiveEntries
  <2> QED BY <2>1, <2>2
<1>9. /\ DOMAIN LiveEntries \cap DOMAIN cache' = stay
      /\ DOMAIN LiveEntries \cap (DOMAIN cache' \ {k}) = stay \ {k}
  BY <1>6
<1> HIDE DEF stay
<1> QED BY <1>2, <1>8, <1>9, SetFindsPlace DEF Contract!Store, Contract!Keep

(* Time only makes entries expire; they hold their places.                 *)
LEMMA TickElapses ==
    ASSUME TypeOK, Tick
    PROVE  Contract!Elapse
<1>1. now \in Nat /\ now' = now + 1 /\ cache' = cache
  BY CacheAssumption DEF TypeOK, Tick
<1>2. LiveKeys' = {k \in LiveKeys : cache[k].expiresAt > now'}
  BY <1>1 DEF LiveKeys, LiveAt, TypeOK
<1>3. /\ DOMAIN LiveEntries = LiveKeys
      /\ \A k \in LiveKeys : LiveEntries[k].expiresAt = cache[k].expiresAt
  BY DEF LiveEntries
<1>4. /\ LiveKeys' = {k \in DOMAIN LiveEntries : LiveEntries[k].expiresAt > now'}
      /\ LiveKeys' = DOMAIN LiveEntries \cap LiveKeys'
  BY <1>2, <1>3
<1>5. LiveEntries' = [k \in LiveKeys' |-> LiveEntries[k]]
  BY <1>1, <1>2 DEF LiveEntries
<1>6. UNCHANGED <<DOMAIN cache, InsertedBefore>>
  BY <1>1 DEF InsertedBefore
<1> QED BY <1>1, <1>4, <1>5, <1>6 DEF Contract!Elapse, Contract!Keep, Tick

(* TtlCache is an implementation of its contract, for all keys, lifetimes  *)
(* and capacities: in particular the key a set evicts at capacity is the   *)
(* one inserted first, and nothing else is ever lost before its time.      *)
THEOREM CacheKeepsContract == Spec => KeepsContract
<1> USE CacheAssumption
<1>1. Init => Contract!Init
  <2> SUFFICES ASSUME Init PROVE Contract!Init
    OBVIOUS
  <2>1. LiveKeys = {} /\ DOMAIN cache = {} /\ InsertedBefore = {} /\ now = 0
    BY DEF Init, EmptyMap, LiveKeys, InsertedBefore
  <2>2. LiveEntries = [k \in {} |-> {}]
    BY <2>1 DEF LiveEntries
  <2> QED BY <2>1, <2>2 DEF Contract!Init
<1>2. TypeOK /\ InOrder(cache) /\ Sized /\ [Next]_vars => [Contract!Next]_Contract!vars
  <2> SUFFICES ASSUME TypeOK, InOrder(cache), Sized, [Next]_vars
               PROVE  [Contract!Next]_Contract!vars
    OBVIOUS
  <2>1. ASSUME NEW k \in Keys, Get(k) PROVE [Contract!Next]_Contract!vars
    BY <2>1, GetAnswers
  <2>2. ASSUME NEW k \in Keys, Delete(k) PROVE Contract!Next
    BY <2>2, WithoutForgets DEF Delete, Contract!Next
  <2>3. ASSUME NEW k \in Keys, NEW v \in Values, NEW ttl \in Lifetimes, Set(k, v, ttl)
        PROVE  Contract!Next
    BY <2>3, SetStores DEF Contract!Next
  <2>4. ASSUME NEW keys \in Prefixes, DeletePrefix(keys) PROVE Contract!Next
    BY <2>4, WithoutForgets DEF DeletePrefix, Contract!Next
  <2>5. CASE Clear
    <3>1. cache' = Without(cache, Keys)
      BY <2>5 DEF Clear, EmptyMap, Without, TypeOK
    <3> QED BY <2>5, <3>1, WithoutForgets DEF Clear, Contract!Next
  <2>6. CASE Tick
    BY <2>6, TickElapses DEF Contract!Next
  <2>7. CASE UNCHANGED vars
    BY <2>7 DEF vars, Contract!vars, LiveEntries, LiveKeys, LiveAt, InsertedBefore
  <2> QED BY <2>1, <2>2, <2>3, <2>4, <2>5, <2>6, <2>7 DEF Next
<1> QED
  BY <1>1, <1>2, CacheTypes, SizedAlways, PTL
  DEF Spec, KeepsContract, Contract!Spec

=============================================================================
