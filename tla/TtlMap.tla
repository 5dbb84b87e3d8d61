------------------------------- MODULE TtlMap -------------------------------
(***************************************************************************)
(* The value of a TtlCache (src/cache.ts): a JavaScript Map from keys to   *)
(* entries, as a partial function.  A Map also remembers the order in      *)
(* which keys were first inserted; every entry carries that order as       *)
(* `older`, the keys inserted before it that are still present.  The       *)
(* oldest entry is the one with no older key.  The operators are pure:     *)
(* each takes a cache value and the current time and returns the cache     *)
(* value the method leaves behind.                                         *)
(***************************************************************************)
EXTENDS Integers, FiniteSets, Maps

-----------------------------------------------------------------------------

(* The comparison of get: an entry that expires now is already expired.    *)
MutLiveAt(c, k, t) == k \in DOMAIN c /\ c[k].expiresAt >= t
LiveAt(c, k, t) == k \in DOMAIN c /\ c[k].expiresAt > t

(* What delete and deletePrefix leave: the keys of S are gone.             *)
MutWithout(c, S) == [k \in DOMAIN c \ S |-> c[k]]
Without(c, S) ==
    [k \in DOMAIN c \ S |->
        [value |-> c[k].value, expiresAt |-> c[k].expiresAt, older |-> c[k].older \ S]]

(* What get(k) leaves: an expired entry is deleted, a live one stays.      *)
AfterGet(c, k, t) == IF LiveAt(c, k, t) THEN c ELSE Without(c, {k})

Oldest(c) == {k \in DOMAIN c : c[k].older = {}}

(* What the eviction at the head of set leaves.                            *)
MutMakeRoom(c, k, max) ==
    IF k \notin DOMAIN c /\ Cardinality(DOMAIN c) > max
    THEN Without(c, Oldest(c)) ELSE c
MakeRoom(c, k, max) ==
    IF k \notin DOMAIN c /\ Cardinality(DOMAIN c) >= max
    THEN Without(c, Oldest(c)) ELSE c

(* What set(k, v, ttl) leaves: a key already present keeps its place in    *)
(* the order, a new one goes last, and the lifetime starts at t.           *)
MutPut(c, k, v, t, ttl, max) ==
    LET room == Without(MakeRoom(c, k, max), {k}) IN
    Extend(room, k, [value |-> v, expiresAt |-> t + ttl, older |-> DOMAIN room])
Put(c, k, v, t, ttl, max) ==
    LET room == MakeRoom(c, k, max)
        rank == IF k \in DOMAIN room THEN room[k].older ELSE DOMAIN room
    IN  Extend(room, k, [value |-> v, expiresAt |-> t + ttl, older |-> rank])

(* `older` is a strict total order on the keys that are present.           *)
InOrder(c) ==
    /\ \A k \in DOMAIN c : c[k].older \subseteq DOMAIN c \ {k}
    /\ \A j, k \in DOMAIN c : j # k =>
         /\ j \in c[k].older <=> k \notin c[j].older
         /\ j \in c[k].older => c[j].older \subseteq c[k].older

=============================================================================
