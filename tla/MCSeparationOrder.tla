-------------------------- MODULE MCSeparationOrder --------------------------
(* An instance of SeparationOrder for TLC. *)
EXTENDS SeparationOrder, TLC

CONSTANTS i1, i2, i3, r1, r2, r3
=============================================================================
