----------------------------- MODULE MCTaskOutbox -----------------------------
(* Instances of TaskOutbox for TLC.                                         *)
EXTENDS TaskOutbox

CONSTANTS n1, n2

\* The requests are served by one process, the second process only works.
BothFromN1 == [e \in Event |-> n1]

AllFaults == FaultKinds
NoFaults == {}
=============================================================================
