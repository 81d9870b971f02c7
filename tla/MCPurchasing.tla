---------------------------- MODULE MCPurchasing ----------------------------
(* Instances of Purchasing for TLC. *)
EXTENDS Purchasing, TLC

CONSTANTS q1, o1, o2, c1, k1, k2

Symmetry == Permutations(Order) \cup Permutations(Clerk)
=============================================================================
