---------------------------- MODULE MCVentoClient ----------------------------
(* Instances of VentoClient for TLC: two boards, the id of one a prefix of *)
(* the other's, and the key of the list as well.                           *)
EXTENDS VentoClient, TLC

MCBoards == {ListKey, "list2"}
MCStartsWith == [b \in MCBoards |-> IF b = ListKey THEN MCBoards ELSE {b}]

Symmetry == Permutations(Readers) \cup Permutations(Actors)
=============================================================================
