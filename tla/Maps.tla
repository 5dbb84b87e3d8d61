-------------------------------- MODULE Maps --------------------------------
(***************************************************************************)
(* A JavaScript Map whose iteration order nobody reads, as a partial       *)
(* function.  (The operator @@ of TLC would do for Extend, but the provers *)
(* cannot expand it.)                                                      *)
(***************************************************************************)

EmptyMap == [k \in {} |-> {}]

(* Map.set *)
Extend(f, k, v) == [x \in DOMAIN f \cup {k} |-> IF x = k THEN v ELSE f[x]]

(* Map.delete *)
Drop(f, k) == [x \in DOMAIN f \ {k} |-> f[x]]

=============================================================================
