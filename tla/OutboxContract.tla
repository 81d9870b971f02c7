---------------------------- MODULE OutboxContract ----------------------------
(***************************************************************************)
(* What the task outbox promises a producer about one event: it is queued  *)
(* when the producer's transaction commits, projected at most MaxAttempts  *)
(* times while it is queued, settled once (done only after a projection),  *)
(* never touched again and only then deleted.                              *)
(***************************************************************************)
EXTENDS Naturals

CONSTANTS Event, MaxAttempts, SyncDev

VARIABLES
    stage,      \* of each event: absent, queued, done, dead or purged
    activity    \* projections of each event

vars == <<stage, activity>>

Init ==
    /\ stage = [e \in Event |-> "absent"]
    /\ activity = [e \in Event |-> 0]

Submit(e) ==
    /\ stage[e] = "absent"
    /\ stage' = [stage EXCEPT ![e] = IF SyncDev THEN "done" ELSE "queued"]
    /\ activity' = [activity EXCEPT ![e] = IF SyncDev THEN 1 ELSE 0]

Project(e) ==
    /\ stage[e] = "queued"
    /\ activity[e] < MaxAttempts
    /\ activity' = [activity EXCEPT ![e] = @ + 1]
    /\ UNCHANGED stage

Complete(e) ==
    /\ stage[e] = "queued"
    /\ activity[e] > 0
    /\ stage' = [stage EXCEPT ![e] = "done"]
    /\ UNCHANGED activity

GiveUp(e) ==
    /\ stage[e] = "queued"
    /\ stage' = [stage EXCEPT ![e] = "dead"]
    /\ UNCHANGED activity

Purge(S) ==
    /\ \A e \in S : stage[e] \in {"done", "dead"}
    /\ stage' = [e \in Event |-> IF e \in S THEN "purged" ELSE stage[e]]
    /\ UNCHANGED activity

Next ==
    \/ \E e \in Event : Submit(e) \/ Project(e) \/ Complete(e) \/ GiveUp(e)
    \/ \E S \in SUBSET Event : Purge(S)

Spec == Init /\ [][Next]_vars
=============================================================================
