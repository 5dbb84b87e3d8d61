------------------------------ MODULE TtlCache ------------------------------
(***************************************************************************)
(* The TtlCache of src/cache.ts as a machine of its own: every method, in  *)
(* every order, with the clock moving between the calls.                   *)
(***************************************************************************)
EXTENDS TtlMap

CONSTANTS
    Keys,
    Values,
    Prefixes,    \* the prefixes deletePrefix is called with: sets of keys
    Lifetimes,   \* the values of ttlMs ?? defaultTtlMs, in ticks
    MaxEntries,
    MaxTime      \* bound: when the clock stops

ASSUME CacheAssumption ==
    /\ IsFiniteSet(Keys)
    /\ Prefixes \subseteq SUBSET Keys
    /\ Lifetimes \subseteq Nat
    /\ MaxEntries \in Nat \ {0}
    /\ MaxTime \in Nat

VARIABLES cache, now

vars == <<cache, now>>

Init == cache = EmptyMap /\ now = 0

Get(k) ==
    /\ cache' = AfterGet(cache, k, now)
    /\ UNCHANGED now

Set(k, v, ttl) ==
    /\ cache' = Put(cache, k, v, now, ttl, MaxEntries)
    /\ UNCHANGED now

Delete(k) ==
    /\ cache' = Without(cache, {k})
    /\ UNCHANGED now

DeletePrefix(keys) ==
    /\ cache' = Without(cache, keys)
    /\ UNCHANGED now

Clear ==
    /\ cache' = EmptyMap
    /\ UNCHANGED now

Tick ==
    /\ now < MaxTime
    /\ now' = now + 1
    /\ UNCHANGED cache

Next ==
    \/ \E k \in Keys : Get(k) \/ Delete(k)
    \/ \E k \in Keys, v \in Values, ttl \in Lifetimes : Set(k, v, ttl)
    \/ \E keys \in Prefixes : DeletePrefix(keys)
    \/ Clear
    \/ Tick

Spec == Init /\ [][Next]_vars

-----------------------------------------------------------------------------
(* Properties                                                              *)

(* The cache is a partial function from keys to entries, and no entry is   *)
(* ranked after a key that delete or an eviction has removed (cache.ts).   *)
TypeOK ==
    /\ now \in 0..MaxTime
    /\ DOMAIN cache \subseteq Keys
    /\ \A k \in DOMAIN cache :
         /\ cache[k].value \in Values
         /\ cache[k].expiresAt \in Nat
         /\ cache[k].older \subseteq DOMAIN cache

(* The capacity holds after every sequence of calls, expired entries       *)
(* included: size never exceeds maxEntries (cache.ts, set).                *)
CapacityHeld == Cardinality(DOMAIN cache) <= MaxEntries

LiveKeys == {k \in DOMAIN cache : LiveAt(cache, k, now)}

LiveEntries ==
    [k \in LiveKeys |-> [value |-> cache[k].value, expiresAt |-> cache[k].expiresAt]]

InsertedBefore == {p \in (DOMAIN cache) \X (DOMAIN cache) : p[1] \in cache[p[2]].older}

Contract == INSTANCE CacheContract
    WITH live <- LiveEntries, held <- DOMAIN cache, order <- InsertedBefore

(* The cache behaves as its contract says, whatever is deleted, looked up  *)
(* in vain, overwritten or left to expire before: a set at capacity evicts *)
(* the key inserted first and no other, an overwrite or a set below        *)
(* capacity evicts none, a get drops only what is over, a delete only what *)
(* it names (cache.ts).                                                    *)
KeepsContract == Contract!Spec

=============================================================================
