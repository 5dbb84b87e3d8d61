---------------------------- MODULE TtlMapProofs ----------------------------
(* What the operators of TtlMap preserve, for every cache value: the order *)
(* of insertion stays total, so a non-empty cache has exactly one oldest   *)
(* entry, so set never exceeds the capacity.                               *)
EXTENDS TtlMap, FiniteSetTheorems, WellFoundedInduction, TLAPS

(* Deleting any keys leaves the others in order (cache.ts, delete and      *)
(* deletePrefix).                                                          *)
LEMMA WithoutInOrder ==
    ASSUME NEW c, NEW S, InOrder(c)
    PROVE  InOrder(Without(c, S))
BY DEF InOrder, Without

(* A non-empty cache has exactly one oldest entry, the one that set evicts *)
(* (cache.ts, set).                                                        *)
LEMMA OneOldest ==
    ASSUME NEW c, InOrder(c), IsFiniteSet(DOMAIN c), DOMAIN c # {}
    PROVE  \E k \in DOMAIN c : Oldest(c) = {k}
<1> DEFINE D == DOMAIN c
           T == {c[k].older : k \in D}
<1>1. T \subseteq FiniteSubsetsOf(D) /\ T # {}
  <2>1. \A k \in D : c[k].older \subseteq D
    BY DEF InOrder
  <2>2. \A k \in D : IsFiniteSet(c[k].older)
    BY <2>1, FS_Subset
  <2> QED BY <2>1, <2>2 DEF FiniteSubsetsOf
<1>2. IsWellFoundedOn(StrictSubsetOrdering(D), FiniteSubsetsOf(D))
  BY FS_StrictSubsetOrderingWellFounded
<1>3. PICK x \in T : \A y \in T : ~ (<<y, x>> \in StrictSubsetOrdering(D))
  <2> HIDE DEF T, D
  <2> QED BY <1>1, <1>2, WFMin
<1>4. PICK k \in D : x = c[k].older
  OBVIOUS
<1>5. c[k].older = {}
  <2> SUFFICES ASSUME NEW j \in c[k].older PROVE FALSE
    OBVIOUS
  <2>1. j \in D /\ j # k /\ j \notin c[j].older
    BY DEF InOrder
  <2>2. c[j].older \subseteq c[k].older /\ c[j].older # c[k].older
    BY <2>1 DEF InOrder
  <2>3. <<c[j].older, c[k].older>> \in StrictSubsetOrdering(D)
    BY <2>1, <2>2 DEF StrictSubsetOrdering, InOrder
  <2> QED BY <1>3, <1>4, <2>1, <2>3
<1>6. ASSUME NEW j \in D, c[j].older = {} PROVE j = k
  BY <1>5, <1>6 DEF InOrder
<1> QED BY <1>5, <1>6 DEF Oldest

LEMMA MakeRoomInOrder ==
    ASSUME NEW c, NEW k, NEW max, InOrder(c)
    PROVE  InOrder(MakeRoom(c, k, max)) /\ DOMAIN MakeRoom(c, k, max) \subseteq DOMAIN c
<1>1. DOMAIN Without(c, Oldest(c)) \subseteq DOMAIN c
  BY DEF Without
<1> QED BY <1>1, WithoutInOrder DEF MakeRoom

(* set keeps the order: a new key comes last, an old one stays in place.   *)
LEMMA PutInOrder ==
    ASSUME NEW c, NEW k, NEW v, NEW t, NEW ttl, NEW max, InOrder(c)
    PROVE  InOrder(Put(c, k, v, t, ttl, max))
<1> DEFINE room == MakeRoom(c, k, max)
           rank == IF k \in DOMAIN room THEN room[k].older ELSE DOMAIN room
           entry == [value |-> v, expiresAt |-> t + ttl, older |-> rank]
<1>1. InOrder(room)
  BY MakeRoomInOrder
<1>2. entry.older = rank
  OBVIOUS
<1> HIDE DEF room, entry
<1>3. InOrder(Extend(room, k, entry))
  BY <1>1, <1>2 DEF InOrder, Extend
<1> QED BY <1>3 DEF Put, room, entry

(* set keeps the capacity (cache.ts, set).                                 *)
LEMMA PutWithinCapacity ==
    ASSUME NEW c, NEW k, NEW v, NEW t, NEW ttl, NEW max \in Nat \ {0},
           InOrder(c), IsFiniteSet(DOMAIN c), Cardinality(DOMAIN c) <= max
    PROVE  /\ IsFiniteSet(DOMAIN Put(c, k, v, t, ttl, max))
           /\ Cardinality(DOMAIN Put(c, k, v, t, ttl, max)) <= max
<1> DEFINE room == MakeRoom(c, k, max)
<1>1. DOMAIN Put(c, k, v, t, ttl, max) = DOMAIN room \cup {k}
  BY DEF Put, Extend
<1>2. Cardinality(DOMAIN c) \in Nat
  BY FS_CardinalityType
<1>3. CASE k \in DOMAIN c
  <2>1. DOMAIN room \cup {k} = DOMAIN c
    BY <1>3 DEF MakeRoom
  <2> QED BY <1>1, <2>1
<1>4. CASE k \notin DOMAIN c /\ Cardinality(DOMAIN c) < max
  <2>1. room = c
    BY <1>2, <1>4 DEF MakeRoom
  <2>2. /\ IsFiniteSet(DOMAIN c \cup {k})
        /\ Cardinality(DOMAIN c \cup {k}) = Cardinality(DOMAIN c) + 1
    BY <1>4, FS_AddElement
  <2> QED BY <1>1, <1>2, <1>4, <2>1, <2>2
<1>5. CASE k \notin DOMAIN c /\ Cardinality(DOMAIN c) = max
  <2>1. DOMAIN c # {}
    BY <1>5, FS_EmptySet
  <2>2. PICK o \in DOMAIN c : Oldest(c) = {o}
    BY <2>1, OneOldest
  <2>3. room = Without(c, {o})
    BY <1>2, <1>5, <2>2 DEF MakeRoom
  <2>4. DOMAIN room = DOMAIN c \ {o}
    BY <2>3 DEF Without
  <2>5. /\ IsFiniteSet(DOMAIN c \ {o})
        /\ Cardinality(DOMAIN c \ {o}) = max - 1
    BY <1>5, FS_RemoveElement
  <2>6. /\ IsFiniteSet((DOMAIN c \ {o}) \cup {k})
        /\ Cardinality((DOMAIN c \ {o}) \cup {k}) = max
    <3> DEFINE D == DOMAIN c \ {o}
    <3>1. k \notin D
      BY <1>5
    <3>2. IsFiniteSet(D) /\ Cardinality(D) = max - 1
      BY <2>5
    <3> HIDE DEF D
    <3>3. IsFiniteSet(D \cup {k}) /\ Cardinality(D \cup {k}) = Cardinality(D) + 1
      BY <3>1, <3>2, FS_AddElement
    <3>4. IsFiniteSet(D \cup {k}) /\ Cardinality(D \cup {k}) = max
      BY <3>2, <3>3
    <3> QED BY <3>4 DEF D
  <2> QED BY <1>1, <2>4, <2>6
<1> QED BY <1>2, <1>3, <1>4, <1>5

(* Deleting keys never exceeds the capacity.                               *)
LEMMA WithoutWithinCapacity ==
    ASSUME NEW c, NEW S, NEW max \in Nat,
           IsFiniteSet(DOMAIN c), Cardinality(DOMAIN c) <= max
    PROVE  /\ IsFiniteSet(DOMAIN Without(c, S))
           /\ Cardinality(DOMAIN Without(c, S)) <= max
<1>1. DOMAIN Without(c, S) \subseteq DOMAIN c
  BY DEF Without
<1>2. Cardinality(DOMAIN c) \in Nat
  BY FS_CardinalityType
<1> QED BY <1>1, <1>2, FS_Subset, FS_CardinalityType

=============================================================================
