------------------------------ MODULE MCAccount ------------------------------
(* Instances of Account for TLC: a payable and a receivable. *)
EXTENDS Account, TLC

CONSTANTS p1, r1, c1, c2

Symmetry == Permutations(Call)
=============================================================================
