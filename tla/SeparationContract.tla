-------------------------- MODULE SeparationContract --------------------------
(***************************************************************************)
(* What the rest of the system sees of a separation order: one row, whose  *)
(* status is written by late requests in almost any order, but leaves      *)
(* PENDING by start alone and never returns to it.  SeparationOrder        *)
(* implements it, and OrderLifecycle lets the status of its order take any *)
(* course that it allows.                                                  *)
(***************************************************************************)
VARIABLES
    row,        \* absent, live, or deletedAt set
    status

Init ==
    /\ row = "absent"
    /\ status = "PENDING"

\* Once: the code of a deleted order is still taken.
Insert ==
    /\ row = "absent"
    /\ row' = "live"
    /\ UNCHANGED status

\* By id, whatever the status has become since it was read.
Start ==
    /\ row # "absent"
    /\ status' = "IN_PROGRESS"
    /\ UNCHANGED row

\* The automatic transitions: an order that was never started has none.
Settle ==
    /\ row # "absent"
    /\ status # "PENDING"
    /\ status' \in {"SEPARATED", "CHECKED"}
    /\ UNCHANGED row

Delete ==
    /\ row = "live"
    /\ row' = "deleted"
    /\ UNCHANGED status

Next == Insert \/ Start \/ Settle \/ Delete

Spec == Init /\ [][Next]_<<row, status>>
=============================================================================
