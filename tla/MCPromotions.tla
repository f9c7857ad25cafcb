---------------------------- MODULE MCPromotions ----------------------------
(* Instances of Promotions for TLC. *)
EXTENDS Promotions, TLC

Symmetry == Permutations(Builds) \cup Permutations(Promos) \cup Permutations(Callers)
=============================================================================
