----------------------------- MODULE MCTaskMerge -----------------------------
(* Instances of TaskMerge for TLC. *)
EXTENDS TaskMerge, TLC

CONSTANTS t1, t2, t3, c1, c2, k1

Symmetry == Permutations(Task) \cup Permutations(Call)
=============================================================================
