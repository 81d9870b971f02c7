----------------------------- MODULE MCTaskLinks -----------------------------
(* Instances of TaskLinks for TLC. *)
EXTENDS TaskLinks, TLC

CONSTANTS t1, t2, t3, r1, r2, m1, m2, u1

Symmetry == Permutations(Task) \cup Permutations(Row) \cup Permutations(Merger)
=============================================================================
