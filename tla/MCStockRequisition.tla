------------------------- MODULE MCStockRequisition -------------------------
(* Instances of StockRequisition for TLC: two requisitions that use the     *)
(* same two products, so that their approvals can wait for each other.      *)
EXTENDS StockRequisition, TLC

CONSTANTS q1, q2, a1, a2, b1, b2, p1, p2, c1, c2

TwoReqs == {q1, q2}
FourItems == {a1, a2, b1, b2}
TwoProducts == {p1, p2}
TwoCalls == {c1, c2}

OfReq == [i \in FourItems |-> IF i \in {a1, a2} THEN q1 ELSE q2]
UsesProduct == [i \in FourItems |-> IF i \in {a1, b1} THEN p1 ELSE p2]
=============================================================================
