----------------------------- MODULE MCAutomation -----------------------------
(* Instances of Automation for TLC. *)
EXTENDS Automation, TLC

CONSTANTS a1, a2, u1, u2, l1, l2, k1, k2, j1, j2
=============================================================================
