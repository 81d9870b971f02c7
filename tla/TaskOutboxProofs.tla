--------------------------- MODULE TaskOutboxProofs ---------------------------
(***************************************************************************)
(* Proofs about TaskOutbox for any number of processes, events and         *)
(* failures: the inductive invariant, the safety properties that follow    *)
(* from it, and that the outbox implements its contract.                   *)
(***************************************************************************)
EXTENDS TaskOutbox, TLAPS

\* The invariant holds before the first event.
LEMMA InitIInv == Init => IInv
  BY ConstantsAssumption
  DEF Init, IInv, TypeOK, ExclusiveClaim, Owns, AttemptsBounded, SlotKnows,
      StatusSays, TxnState, RowState, JobState, PC, Claimed, NoEvent, Event

\* Nothing has happened to an event before its commit, and no slot owns it.
LEMMA BeforeCommit ==
  ASSUME IInv, NEW e \in Event, txn[e] # "committed"
  PROVE  /\ row[e] = "ABSENT"
         /\ attempts[e] = 0 /\ activity[e] = 0 /\ notice[e] = 0
         /\ \A n \in Node : ~Owns(n, e)
  BY ConstantsAssumption
  DEF IInv, TypeOK, StatusSays, AttemptsBounded, ExclusiveClaim

\* What a slot between its claim and the end of the claim can rely on.
LEMMA OwnerFacts ==
  ASSUME IInv, NEW n \in Node, pc[n] \in Claimed
  PROVE  /\ ev[n] \in Event
         /\ row[ev[n]] = "PROCESSING"
         /\ txn[ev[n]] = "committed"
         /\ ~SyncDev
         /\ attempts[ev[n]] <= MaxAttempts
         /\ activity[ev[n]] <= attempts[ev[n]]
         /\ notice[ev[n]] <= activity[ev[n]]
         /\ \A m \in Node \ {n} : pc[m] \in Claimed => ev[m] # ev[n]
<1>1. ev[n] \in Event /\ Owns(n, ev[n])
  BY DEF IInv, TypeOK, Owns, Claimed, NoEvent
<1>2. row[ev[n]] = "PROCESSING" /\ \A m \in Node : Owns(m, ev[n]) => m = n
  BY <1>1 DEF IInv, ExclusiveClaim
<1>3. txn[ev[n]] = "committed" /\ ~SyncDev
  BY <1>1, <1>2, ConstantsAssumption DEF IInv, StatusSays
<1>. QED
  BY <1>1, <1>2, <1>3 DEF IInv, AttemptsBounded, Owns

\* Adding a job changes nothing the invariant says, but the types.
LEMMA AddJobTypes ==
  ASSUME NEW e \in Event, AddJob(e),
         job \in [Event -> JobState], stalls \in [Event -> Nat]
  PROVE  /\ job' \in [Event -> JobState]
         /\ stalls' \in [Event -> Nat]
         /\ UNCHANGED <<lock, dlq>>
  BY DEF AddJob, JobState

\* A slot that leaves its job is idle, whatever becomes of the job.
LEMMA LeaveJobTypes ==
  ASSUME IInv, NEW n \in Node, NEW where \in JobState, pc[n] # "idle",
         LeaveJob(n, where)
  PROVE  /\ job' \in [Event -> JobState]
         /\ lock' \in [Event -> Node \cup {NoNode}]
         /\ pc' \in [Node -> PC]
         /\ ev' \in [Node -> Event \cup {NoEvent}]
         /\ att' \in [Node -> Nat]
         /\ \A m \in Node : ev'[m] = NoEvent <=> pc'[m] = "idle"
         /\ UNCHANGED <<stalls, dlq>>
<1>1. ev[n] \in Event
  BY DEF IInv, TypeOK
<1>2. job' \in [Event -> JobState] /\ lock' \in [Event -> Node \cup {NoNode}]
  BY <1>1 DEF LeaveJob, IInv, TypeOK
<1>3. /\ pc' \in [Node -> PC]
      /\ ev' \in [Node -> Event \cup {NoEvent}]
      /\ att' \in [Node -> Nat]
      /\ \A m \in Node : ev'[m] = NoEvent <=> pc'[m] = "idle"
  BY DEF LeaveJob, FreeSlot, IInv, TypeOK, PC
<1>. QED
  BY <1>2, <1>3 DEF LeaveJob

\* A row inserted in an open transaction is still invisible.
LEMMA EnqueueIInv ==
  ASSUME IInv, NEW e \in Event, Enqueue(e)
  PROVE  IInv'
<1>1. TypeOK'
  BY DEF IInv, TypeOK, dbVars, queueVars, slotVars, failVars, Enqueue, TxnState,
      RowState, JobState, PC, Claimed
<1>2. ExclusiveClaim'
  BY DEF IInv, TypeOK, ExclusiveClaim, Owns, dbVars, queueVars, slotVars, failVars,
      Enqueue, TxnState, RowState, JobState, PC, Claimed
<1>3. AttemptsBounded'
  BY DEF IInv, TypeOK, AttemptsBounded, dbVars, queueVars, slotVars, failVars,
      Enqueue, TxnState, RowState, JobState, PC, Claimed
<1>4. SlotKnows'
  BY DEF IInv, TypeOK, SlotKnows, ExclusiveClaim, Owns, dbVars, queueVars,
      slotVars, failVars, Enqueue, TxnState, RowState, JobState, PC, Claimed
<1>5. StatusSays'
  BY DEF IInv, TypeOK, StatusSays, dbVars, queueVars, slotVars, failVars, Enqueue,
      TxnState, RowState, JobState, PC, Claimed
<1>. QED  BY <1>1, <1>2, <1>3, <1>4, <1>5 DEF IInv

\* The commit makes a row visible that no slot has seen.
LEMMA CommitIInv ==
  ASSUME IInv, NEW e \in Event, Commit(e)
  PROVE  IInv'
<1>0. /\ row[e] = "ABSENT"
       /\ attempts[e] = 0 /\ activity[e] = 0 /\ notice[e] = 0
       /\ \A n \in Node : ~Owns(n, e)
  BY BeforeCommit DEF Commit
<1>1. TypeOK'
  BY <1>0, ConstantsAssumption DEF IInv, TypeOK, dbVars, queueVars,
      slotVars, failVars, Commit, CommittedStatus, TxnState, RowState, JobState, PC,
      Claimed
<1>2. ExclusiveClaim'
  BY <1>0, ConstantsAssumption DEF IInv, TypeOK, ExclusiveClaim, Owns,
      dbVars, queueVars, slotVars, failVars, Commit, CommittedStatus, TxnState,
      RowState, JobState, PC, Claimed
<1>3. AttemptsBounded'
  BY <1>0, ConstantsAssumption DEF IInv, TypeOK, AttemptsBounded, dbVars,
      queueVars, slotVars, failVars, Commit, CommittedStatus, TxnState, RowState,
      JobState, PC, Claimed
<1>4. SlotKnows'
  BY <1>0, ConstantsAssumption DEF IInv, TypeOK, SlotKnows, ExclusiveClaim,
      Owns, dbVars, queueVars, slotVars, failVars, Commit, CommittedStatus,
      TxnState,
      RowState, JobState, PC, Claimed
<1>5. StatusSays'
  BY <1>0, ConstantsAssumption DEF IInv, TypeOK, StatusSays, dbVars,
      queueVars, slotVars, failVars, Commit, CommittedStatus, TxnState, RowState,
      JobState, PC, Claimed
<1>. QED  BY <1>1, <1>2, <1>3, <1>4, <1>5 DEF IInv

\* A rolled back event stays absent.
LEMMA AbortIInv ==
  ASSUME IInv, NEW e \in Event, Abort(e)
  PROVE  IInv'
<1>1. TypeOK'
  BY DEF IInv, TypeOK, dbVars, queueVars, slotVars, failVars, Abort, TxnState,
      RowState, JobState, PC, Claimed
<1>2. ExclusiveClaim'
  BY DEF IInv, TypeOK, ExclusiveClaim, Owns, dbVars, queueVars, slotVars, failVars,
      Abort, TxnState, RowState, JobState, PC, Claimed
<1>3. AttemptsBounded'
  BY DEF IInv, TypeOK, AttemptsBounded, dbVars, queueVars, slotVars, failVars,
      Abort,
      TxnState, RowState, JobState, PC, Claimed
<1>4. SlotKnows'
  BY DEF IInv, TypeOK, SlotKnows, ExclusiveClaim, Owns, dbVars, queueVars,
      slotVars, failVars, Abort, TxnState, RowState, JobState, PC, Claimed
<1>5. StatusSays'
  BY DEF IInv, TypeOK, StatusSays, dbVars, queueVars, slotVars, failVars, Abort,
      TxnState, RowState, JobState, PC, Claimed
<1>. QED  BY <1>1, <1>2, <1>3, <1>4, <1>5 DEF IInv

\* Publishing touches the queue only.
LEMMA PublishJobIInv ==
  ASSUME IInv, NEW e \in Event, PublishJob(e)
  PROVE  IInv'
<1>1. TypeOK'
  BY AddJobTypes DEF IInv, TypeOK, dbVars, queueVars, slotVars, failVars,
      PublishJob,
      Fault, TxnState, RowState, JobState, PC, Claimed
<1>2. ExclusiveClaim'
  BY AddJobTypes DEF IInv, TypeOK, ExclusiveClaim, Owns, dbVars, queueVars,
      slotVars, failVars, PublishJob, Fault, TxnState, RowState, JobState, PC,
      Claimed
<1>3. AttemptsBounded'
  BY AddJobTypes DEF IInv, TypeOK, AttemptsBounded, dbVars, queueVars,
      slotVars, failVars, PublishJob, Fault, TxnState, RowState, JobState, PC,
      Claimed
<1>4. SlotKnows'
  BY AddJobTypes DEF IInv, TypeOK, SlotKnows, ExclusiveClaim, Owns, dbVars,
      queueVars, slotVars, failVars, PublishJob, Fault, TxnState, RowState,
      JobState,
      PC, Claimed
<1>5. StatusSays'
  BY AddJobTypes DEF IInv, TypeOK, StatusSays, dbVars, queueVars, slotVars,
      failVars,
      PublishJob, Fault, TxnState, RowState, JobState, PC, Claimed
<1>. QED  BY <1>1, <1>2, <1>3, <1>4, <1>5 DEF IInv

\* Taking a job claims nothing yet.
LEMMA TakeJobIInv ==
  ASSUME IInv, NEW n \in Node, NEW e \in Event, TakeJob(n, e)
  PROVE  IInv'
<1>0. e # NoEvent
  BY ConstantsAssumption DEF Event, NoEvent
<1>1. TypeOK'
  BY <1>0, ConstantsAssumption DEF IInv, TypeOK, dbVars, queueVars,
      slotVars, failVars, TakeJob, TxnState, RowState, JobState, PC, Claimed
<1>2. ExclusiveClaim'
  BY DEF IInv, TypeOK, ExclusiveClaim, Owns, dbVars, queueVars, slotVars, failVars,
      TakeJob, TxnState, RowState, JobState, PC, Claimed
<1>3. AttemptsBounded'
  BY DEF IInv, TypeOK, AttemptsBounded, dbVars, queueVars, slotVars, failVars,
      TakeJob, TxnState, RowState, JobState, PC, Claimed
<1>4. SlotKnows'
  BY DEF IInv, TypeOK, SlotKnows, ExclusiveClaim, Owns, dbVars, queueVars,
      slotVars, failVars, TakeJob, TxnState, RowState, JobState, PC, Claimed
<1>5. StatusSays'
  BY DEF IInv, TypeOK, StatusSays, dbVars, queueVars, slotVars, failVars, TakeJob,
      TxnState, RowState, JobState, PC, Claimed
<1>. QED  BY <1>1, <1>2, <1>3, <1>4, <1>5 DEF IInv

\* The claim takes a row that no slot owns and that has an attempt left.
LEMMA MarkProcessingIInv ==
  ASSUME IInv, NEW n \in Node, MarkProcessing(n)
  PROVE  IInv'
<1>0. ev[n] \in Event
  BY DEF IInv, TypeOK, MarkProcessing, NoEvent
<1>1. TypeOK'
  <2>1. row' \in [Event -> RowState] /\ attempts' \in [Event -> Nat]
    BY <1>0 DEF MarkProcessing, IInv, TypeOK, RowState
  <2>2. /\ pc' \in [Node -> PC]
        /\ pc'[n] # "idle" /\ pc[n] # "idle"
        /\ \A m \in Node \ {n} : pc'[m] = pc[m]
    BY DEF MarkProcessing, Goto, IInv, TypeOK, PC, Claimed
  <2>. QED
    BY <2>1, <2>2 DEF MarkProcessing, Goto, IInv, TypeOK, queueVars, failVars
<1>2. ExclusiveClaim'
  BY <1>0, ConstantsAssumption DEF IInv, TypeOK, ExclusiveClaim, Owns,
      dbVars, queueVars, slotVars, failVars, MarkProcessing, CanClaim, Stuck, Goto,
      TxnState, RowState, JobState, PC, Claimed
<1>3. AttemptsBounded'
  BY <1>0, ConstantsAssumption DEF IInv, TypeOK, AttemptsBounded,
      StatusSays, dbVars, queueVars, slotVars, failVars, MarkProcessing, CanClaim,
      Stuck, Goto, TxnState, RowState, JobState, PC, Claimed
<1>4. SlotKnows'
  BY <1>0, ConstantsAssumption DEF IInv, TypeOK, SlotKnows, ExclusiveClaim,
      Owns, AttemptsBounded, StatusSays, dbVars, queueVars, slotVars, failVars,
      MarkProcessing, CanClaim, Stuck, Goto, TxnState, RowState, JobState,
      PC, Claimed
<1>5. StatusSays'
  BY <1>0, ConstantsAssumption DEF IInv, TypeOK, StatusSays, dbVars,
      queueVars, slotVars, failVars, MarkProcessing, CanClaim, Stuck, Goto,
      TxnState,
      RowState, JobState, PC, Claimed
<1>. QED  BY <1>1, <1>2, <1>3, <1>4, <1>5 DEF IInv

\* Reading the row fixes the attempt the slot works on.
LEMMA LoadIInv ==
  ASSUME IInv, NEW n \in Node, Load(n)
  PROVE  IInv'
<1>1. TypeOK'
  BY DEF IInv, TypeOK, dbVars, queueVars, slotVars, failVars, Load, TxnState,
      RowState, JobState, PC, Claimed
<1>2. ExclusiveClaim'
  BY DEF IInv, TypeOK, ExclusiveClaim, Owns, dbVars, queueVars, slotVars, failVars,
      Load, TxnState, RowState, JobState, PC, Claimed
<1>3. AttemptsBounded'
  BY DEF IInv, TypeOK, AttemptsBounded, dbVars, queueVars, slotVars, failVars, Load,
      TxnState, RowState, JobState, PC, Claimed
<1>4. SlotKnows'
  BY DEF IInv, TypeOK, SlotKnows, ExclusiveClaim, Owns, dbVars, queueVars,
      slotVars, failVars, Load, TxnState, RowState, JobState, PC, Claimed
<1>5. StatusSays'
  BY DEF IInv, TypeOK, StatusSays, dbVars, queueVars, slotVars, failVars, Load,
      TxnState, RowState, JobState, PC, Claimed
<1>. QED  BY <1>1, <1>2, <1>3, <1>4, <1>5 DEF IInv

\* A query that throws before the try block leaves the row as it is.
LEMMA ClaimThrowsIInv ==
  ASSUME IInv, NEW n \in Node, ClaimThrows(n)
  PROVE  IInv'
<1>1. TypeOK'
  <2>1. \E where \in JobState : LeaveJob(n, where)
    BY DEF ClaimThrows, Fault, FailJob, JobState
  <2>2. pc[n] # "idle"
    BY DEF ClaimThrows
  <2>. QED
    BY <2>1, <2>2, LeaveJobTypes DEF ClaimThrows, Fault, IInv, TypeOK, dbVars,
        failVars
<1>2. ExclusiveClaim'
  BY DEF IInv, TypeOK, ExclusiveClaim, Owns, dbVars, queueVars, slotVars, failVars,
      ClaimThrows, Fault, FailJob, LeaveJob, FreeSlot, TxnState, RowState,
      JobState, PC, Claimed
<1>3. AttemptsBounded'
  BY DEF IInv, TypeOK, AttemptsBounded, dbVars, queueVars, slotVars, failVars,
      ClaimThrows, Fault, FailJob, LeaveJob, FreeSlot, TxnState, RowState,
      JobState, PC, Claimed
<1>4. SlotKnows'
  BY DEF IInv, TypeOK, SlotKnows, ExclusiveClaim, Owns, dbVars, queueVars,
      slotVars, failVars, ClaimThrows, Fault, FailJob, LeaveJob, FreeSlot, TxnState,
      RowState, JobState, PC, Claimed
<1>5. StatusSays'
  BY DEF IInv, TypeOK, StatusSays, dbVars, queueVars, slotVars, failVars,
      ClaimThrows,
      Fault, FailJob, LeaveJob, FreeSlot, TxnState, RowState, JobState, PC,
      Claimed
<1>. QED  BY <1>1, <1>2, <1>3, <1>4, <1>5 DEF IInv

\* The one projection of an attempt.
LEMMA DispatchIInv ==
  ASSUME IInv, NEW n \in Node, Dispatch(n)
  PROVE  IInv'
<1>0. /\ ev[n] \in Event
       /\ row[ev[n]] = "PROCESSING"
       /\ txn[ev[n]] = "committed"
       /\ ~SyncDev
       /\ attempts[ev[n]] <= MaxAttempts
       /\ activity[ev[n]] <= attempts[ev[n]]
       /\ notice[ev[n]] <= activity[ev[n]]
       /\ \A m \in Node \ {n} : pc[m] \in Claimed => ev[m] # ev[n]
  BY OwnerFacts DEF Dispatch, Claimed
<1>1. TypeOK'
  BY <1>0 DEF IInv, TypeOK, dbVars, queueVars, slotVars, failVars, Dispatch, Fault,
      Goto, AfterHandlerError, TxnState, RowState, JobState, PC, Claimed
<1>2. ExclusiveClaim'
  BY <1>0 DEF IInv, TypeOK, ExclusiveClaim, Owns, dbVars, queueVars,
      slotVars, failVars, Dispatch, Fault, Goto, AfterHandlerError, TxnState,
      RowState, JobState, PC, Claimed
<1>3. AttemptsBounded'
  BY <1>0 DEF IInv, TypeOK, AttemptsBounded, SlotKnows, dbVars, queueVars,
      slotVars, failVars, Dispatch, Fault, Goto, AfterHandlerError, TxnState,
      RowState, JobState, PC, Claimed
<1>4. SlotKnows'
  BY <1>0 DEF IInv, TypeOK, SlotKnows, ExclusiveClaim, Owns, dbVars,
      queueVars, slotVars, failVars, Dispatch, Fault, Goto, AfterHandlerError,
      TxnState, RowState, JobState, PC, Claimed
<1>5. StatusSays'
  BY <1>0 DEF IInv, TypeOK, StatusSays, SlotKnows, dbVars, queueVars,
      slotVars, failVars, Dispatch, Fault, Goto, AfterHandlerError, TxnState,
      RowState, JobState, PC, Claimed
<1>. QED  BY <1>1, <1>2, <1>3, <1>4, <1>5 DEF IInv

\* The notifications follow the projection of the same attempt.
LEMMA NotifyIInv ==
  ASSUME IInv, NEW n \in Node, Notify(n)
  PROVE  IInv'
<1>0. /\ ev[n] \in Event
       /\ row[ev[n]] = "PROCESSING"
       /\ txn[ev[n]] = "committed"
       /\ ~SyncDev
       /\ attempts[ev[n]] <= MaxAttempts
       /\ activity[ev[n]] <= attempts[ev[n]]
       /\ notice[ev[n]] <= activity[ev[n]]
       /\ \A m \in Node \ {n} : pc[m] \in Claimed => ev[m] # ev[n]
  BY OwnerFacts DEF Notify, Claimed
<1>1. TypeOK'
  BY <1>0 DEF IInv, TypeOK, dbVars, queueVars, slotVars, failVars, Notify, Fault,
      Goto, TxnState, RowState, JobState, PC, Claimed
<1>2. ExclusiveClaim'
  BY <1>0 DEF IInv, TypeOK, ExclusiveClaim, Owns, dbVars, queueVars,
      slotVars, failVars, Notify, Fault, Goto, TxnState, RowState, JobState, PC,
      Claimed
<1>3. AttemptsBounded'
  BY <1>0 DEF IInv, TypeOK, AttemptsBounded, SlotKnows, dbVars, queueVars,
      slotVars, failVars, Notify, Fault, Goto, TxnState, RowState, JobState, PC,
      Claimed
<1>4. SlotKnows'
  BY <1>0 DEF IInv, TypeOK, SlotKnows, ExclusiveClaim, Owns, dbVars,
      queueVars, slotVars, failVars, Notify, Fault, Goto, TxnState, RowState,
      JobState, PC, Claimed
<1>5. StatusSays'
  BY <1>0 DEF IInv, TypeOK, StatusSays, dbVars, queueVars, slotVars, failVars,
      Notify,
      Fault, Goto, TxnState, RowState, JobState, PC, Claimed
<1>. QED  BY <1>1, <1>2, <1>3, <1>4, <1>5 DEF IInv

\* Completing a row ends its ownership.
LEMMA MarkCompletedIInv ==
  ASSUME IInv, NEW n \in Node, MarkCompleted(n)
  PROVE  IInv'
<1>0. /\ ev[n] \in Event
       /\ row[ev[n]] = "PROCESSING"
       /\ txn[ev[n]] = "committed"
       /\ ~SyncDev
       /\ attempts[ev[n]] <= MaxAttempts
       /\ activity[ev[n]] <= attempts[ev[n]]
       /\ notice[ev[n]] <= activity[ev[n]]
       /\ \A m \in Node \ {n} : pc[m] \in Claimed => ev[m] # ev[n]
  BY OwnerFacts DEF MarkCompleted, Claimed
<1>1. TypeOK'
  BY <1>0 DEF IInv, TypeOK, dbVars, queueVars, slotVars, failVars, MarkCompleted,
      Fault, Goto, TxnState, RowState, JobState, PC, Claimed
<1>2. ExclusiveClaim'
  BY <1>0 DEF IInv, TypeOK, ExclusiveClaim, Owns, dbVars, queueVars,
      slotVars, failVars, MarkCompleted, Fault, Goto, TxnState, RowState, JobState,
      PC, Claimed
<1>3. AttemptsBounded'
  BY <1>0 DEF IInv, TypeOK, AttemptsBounded, dbVars, queueVars, slotVars, failVars,
      MarkCompleted, Fault, Goto, TxnState, RowState, JobState, PC, Claimed
<1>4. SlotKnows'
  BY <1>0 DEF IInv, TypeOK, SlotKnows, ExclusiveClaim, Owns, dbVars,
      queueVars, slotVars, failVars, MarkCompleted, Fault, Goto, TxnState, RowState,
      JobState, PC, Claimed
<1>5. StatusSays'
  BY <1>0 DEF IInv, TypeOK, StatusSays, SlotKnows, dbVars, queueVars,
      slotVars, failVars, MarkCompleted, Fault, Goto, TxnState, RowState, JobState,
      PC, Claimed
<1>. QED  BY <1>1, <1>2, <1>3, <1>4, <1>5 DEF IInv

\* A row is buried on its last attempt.
LEMMA MarkDeadIInv ==
  ASSUME IInv, NEW n \in Node, MarkDead(n)
  PROVE  IInv'
<1>0. /\ ev[n] \in Event
       /\ row[ev[n]] = "PROCESSING"
       /\ txn[ev[n]] = "committed"
       /\ ~SyncDev
       /\ attempts[ev[n]] <= MaxAttempts
       /\ activity[ev[n]] <= attempts[ev[n]]
       /\ notice[ev[n]] <= activity[ev[n]]
       /\ \A m \in Node \ {n} : pc[m] \in Claimed => ev[m] # ev[n]
  BY OwnerFacts DEF MarkDead, Claimed
<1>d. attempts[ev[n]] = MaxAttempts
  <2>1. att[n] = attempts[ev[n]]
    BY DEF MarkDead, IInv, SlotKnows
  <2>2. att[n] >= MaxAttempts
    BY DEF MarkDead, LastAttempt
  <2>3. attempts[ev[n]] \in Nat /\ MaxAttempts \in Nat
    BY <1>0, ConstantsAssumption DEF IInv, TypeOK
  <2>. QED
    BY <1>0, <2>1, <2>2, <2>3
<1>1. TypeOK'
  BY <1>0, ConstantsAssumption DEF IInv, TypeOK, dbVars, queueVars,
      slotVars, failVars, MarkDead, LastAttempt, AfterDead, Goto, TxnState,
      RowState,
      JobState, PC, Claimed
<1>2. ExclusiveClaim'
  BY <1>0, ConstantsAssumption DEF IInv, TypeOK, ExclusiveClaim, Owns,
      dbVars, queueVars, slotVars, failVars, MarkDead, LastAttempt, AfterDead, Goto,
      TxnState, RowState, JobState, PC, Claimed
<1>3. AttemptsBounded'
  BY <1>0, ConstantsAssumption, <1>d DEF IInv, TypeOK, AttemptsBounded,
      dbVars, queueVars, slotVars, failVars, MarkDead, LastAttempt, AfterDead, Goto,
      TxnState, RowState, JobState, PC, Claimed
<1>4. SlotKnows'
  BY <1>0, ConstantsAssumption DEF IInv, TypeOK, SlotKnows, ExclusiveClaim,
      Owns, dbVars, queueVars, slotVars, failVars, MarkDead, LastAttempt, AfterDead,
      Goto, TxnState, RowState, JobState, PC, Claimed
<1>5. StatusSays'
  BY <1>0, ConstantsAssumption DEF IInv, TypeOK, StatusSays, SlotKnows,
      dbVars, queueVars, slotVars, failVars, MarkDead, LastAttempt, AfterDead, Goto,
      TxnState, RowState, JobState, PC, Claimed
<1>. QED  BY <1>1, <1>2, <1>3, <1>4, <1>5 DEF IInv

\* A failed row has an attempt left.
LEMMA MarkFailedIInv ==
  ASSUME IInv, NEW n \in Node, MarkFailed(n)
  PROVE  IInv'
<1>0. /\ ev[n] \in Event
       /\ row[ev[n]] = "PROCESSING"
       /\ txn[ev[n]] = "committed"
       /\ ~SyncDev
       /\ attempts[ev[n]] <= MaxAttempts
       /\ activity[ev[n]] <= attempts[ev[n]]
       /\ notice[ev[n]] <= activity[ev[n]]
       /\ \A m \in Node \ {n} : pc[m] \in Claimed => ev[m] # ev[n]
  BY OwnerFacts DEF MarkFailed, Claimed
<1>1. TypeOK'
  BY <1>0, ConstantsAssumption DEF IInv, TypeOK, dbVars, queueVars,
      slotVars, failVars, MarkFailed, LastAttempt, Goto, TxnState, RowState,
      JobState,
      PC, Claimed
<1>2. ExclusiveClaim'
  BY <1>0, ConstantsAssumption DEF IInv, TypeOK, ExclusiveClaim, Owns,
      dbVars, queueVars, slotVars, failVars, MarkFailed, LastAttempt, Goto,
      TxnState,
      RowState, JobState, PC, Claimed
<1>3. AttemptsBounded'
  BY <1>0, ConstantsAssumption DEF IInv, TypeOK, AttemptsBounded, SlotKnows,
      dbVars, queueVars, slotVars, failVars, MarkFailed, LastAttempt, Goto,
      TxnState,
      RowState, JobState, PC, Claimed
<1>4. SlotKnows'
  BY <1>0, ConstantsAssumption DEF IInv, TypeOK, SlotKnows, ExclusiveClaim,
      Owns, dbVars, queueVars, slotVars, failVars, MarkFailed, LastAttempt, Goto,
      TxnState, RowState, JobState, PC, Claimed
<1>5. StatusSays'
  BY <1>0, ConstantsAssumption DEF IInv, TypeOK, StatusSays, SlotKnows,
      dbVars, queueVars, slotVars, failVars, MarkFailed, LastAttempt, Goto,
      TxnState,
      RowState, JobState, PC, Claimed
<1>. QED  BY <1>1, <1>2, <1>3, <1>4, <1>5 DEF IInv

\* A slot that throws in its catch block abandons the row.
LEMMA SettleThrowsIInv ==
  ASSUME IInv, NEW n \in Node, SettleThrows(n)
  PROVE  IInv'
<1>1. TypeOK'
  <2>1. \E where \in JobState : LeaveJob(n, where)
    BY DEF SettleThrows, Fault, FailJob, JobState
  <2>2. pc[n] # "idle"
    BY DEF SettleThrows
  <2>. QED
    BY <2>1, <2>2, LeaveJobTypes DEF SettleThrows, Fault, IInv, TypeOK, dbVars,
        failVars
<1>2. ExclusiveClaim'
  BY DEF IInv, TypeOK, ExclusiveClaim, Owns, dbVars, queueVars, slotVars, failVars,
      SettleThrows, Fault, FailJob, LeaveJob, FreeSlot, TxnState, RowState,
      JobState, PC, Claimed
<1>3. AttemptsBounded'
  BY DEF IInv, TypeOK, AttemptsBounded, dbVars, queueVars, slotVars, failVars,
      SettleThrows, Fault, FailJob, LeaveJob, FreeSlot, TxnState, RowState,
      JobState, PC, Claimed
<1>4. SlotKnows'
  BY DEF IInv, TypeOK, SlotKnows, ExclusiveClaim, Owns, dbVars, queueVars,
      slotVars, failVars, SettleThrows, Fault, FailJob, LeaveJob, FreeSlot,
      TxnState,
      RowState, JobState, PC, Claimed
<1>5. StatusSays'
  BY DEF IInv, TypeOK, StatusSays, dbVars, queueVars, slotVars, failVars,
      SettleThrows, Fault, FailJob, LeaveJob, FreeSlot, TxnState, RowState,
      JobState, PC, Claimed
<1>. QED  BY <1>1, <1>2, <1>3, <1>4, <1>5 DEF IInv

\* Burying touches the dead-letter queue only.
LEMMA BuryIInv ==
  ASSUME IInv, NEW n \in Node, Bury(n)
  PROVE  IInv'
<1>1. TypeOK'
  BY DEF IInv, TypeOK, dbVars, queueVars, slotVars, failVars, Bury, Fault, Goto,
      TxnState, RowState, JobState, PC, Claimed
<1>2. ExclusiveClaim'
  BY DEF IInv, TypeOK, ExclusiveClaim, Owns, dbVars, queueVars, slotVars, failVars,
      Bury, Fault, Goto, TxnState, RowState, JobState, PC, Claimed
<1>3. AttemptsBounded'
  BY DEF IInv, TypeOK, AttemptsBounded, dbVars, queueVars, slotVars, failVars, Bury,
      Fault, Goto, TxnState, RowState, JobState, PC, Claimed
<1>4. SlotKnows'
  BY DEF IInv, TypeOK, SlotKnows, ExclusiveClaim, Owns, dbVars, queueVars,
      slotVars, failVars, Bury, Fault, Goto, TxnState, RowState, JobState, PC,
      Claimed
<1>5. StatusSays'
  BY DEF IInv, TypeOK, StatusSays, dbVars, queueVars, slotVars, failVars, Bury,
      Fault,
      Goto, TxnState, RowState, JobState, PC, Claimed
<1>. QED  BY <1>1, <1>2, <1>3, <1>4, <1>5 DEF IInv

\* A retry frees the slot.
LEMMA MoveToDelayedIInv ==
  ASSUME IInv, NEW n \in Node, MoveToDelayed(n)
  PROVE  IInv'
<1>1. TypeOK'
  <2>1. \E where \in JobState : LeaveJob(n, where)
    BY DEF MoveToDelayed, Fault, FailJob, RetrySet, JobState
  <2>2. pc[n] # "idle"
    BY DEF MoveToDelayed
  <2>. QED
    BY <2>1, <2>2, LeaveJobTypes DEF MoveToDelayed, Fault, IInv, TypeOK, dbVars,
        failVars
<1>2. ExclusiveClaim'
  BY DEF IInv, TypeOK, ExclusiveClaim, Owns, dbVars, queueVars, slotVars, failVars,
      MoveToDelayed, Fault, FailJob, LeaveJob, FreeSlot, RetrySet, TxnState,
      RowState, JobState, PC, Claimed
<1>3. AttemptsBounded'
  BY DEF IInv, TypeOK, AttemptsBounded, dbVars, queueVars, slotVars, failVars,
      MoveToDelayed, Fault, FailJob, LeaveJob, FreeSlot, RetrySet, TxnState,
      RowState, JobState, PC, Claimed
<1>4. SlotKnows'
  BY DEF IInv, TypeOK, SlotKnows, ExclusiveClaim, Owns, dbVars, queueVars,
      slotVars, failVars, MoveToDelayed, Fault, FailJob, LeaveJob, FreeSlot,
      RetrySet,
      TxnState, RowState, JobState, PC, Claimed
<1>5. StatusSays'
  BY DEF IInv, TypeOK, StatusSays, dbVars, queueVars, slotVars, failVars,
      MoveToDelayed, Fault, FailJob, LeaveJob, FreeSlot, RetrySet, TxnState,
      RowState, JobState, PC, Claimed
<1>. QED  BY <1>1, <1>2, <1>3, <1>4, <1>5 DEF IInv

\* A finished job frees the slot.
LEMMA FinishIInv ==
  ASSUME IInv, NEW n \in Node, Finish(n)
  PROVE  IInv'
<1>1. TypeOK'
  <2>1. \E where \in JobState : LeaveJob(n, where)
    BY DEF Finish, JobState
  <2>2. pc[n] # "idle"
    BY DEF Finish
  <2>. QED
    BY <2>1, <2>2, LeaveJobTypes DEF Finish, IInv, TypeOK, dbVars, failVars
<1>2. ExclusiveClaim'
  BY DEF IInv, TypeOK, ExclusiveClaim, Owns, dbVars, queueVars, slotVars, failVars,
      Finish, LeaveJob, FreeSlot, TxnState, RowState, JobState, PC, Claimed
<1>3. AttemptsBounded'
  BY DEF IInv, TypeOK, AttemptsBounded, dbVars, queueVars, slotVars, failVars,
      Finish,
      LeaveJob, FreeSlot, TxnState, RowState, JobState, PC, Claimed
<1>4. SlotKnows'
  BY DEF IInv, TypeOK, SlotKnows, ExclusiveClaim, Owns, dbVars, queueVars,
      slotVars, failVars, Finish, LeaveJob, FreeSlot, TxnState, RowState, JobState,
      PC, Claimed
<1>5. StatusSays'
  BY DEF IInv, TypeOK, StatusSays, dbVars, queueVars, slotVars, failVars, Finish,
      LeaveJob, FreeSlot, TxnState, RowState, JobState, PC, Claimed
<1>. QED  BY <1>1, <1>2, <1>3, <1>4, <1>5 DEF IInv

\* A promoted job is waiting again.
LEMMA PromoteIInv ==
  ASSUME IInv, NEW e \in Event, Promote(e)
  PROVE  IInv'
<1>1. TypeOK'
  BY DEF IInv, TypeOK, dbVars, queueVars, slotVars, failVars, Promote, TxnState,
      RowState, JobState, PC, Claimed
<1>2. ExclusiveClaim'
  BY DEF IInv, TypeOK, ExclusiveClaim, Owns, dbVars, queueVars, slotVars, failVars,
      Promote, TxnState, RowState, JobState, PC, Claimed
<1>3. AttemptsBounded'
  BY DEF IInv, TypeOK, AttemptsBounded, dbVars, queueVars, slotVars, failVars,
      Promote, TxnState, RowState, JobState, PC, Claimed
<1>4. SlotKnows'
  BY DEF IInv, TypeOK, SlotKnows, ExclusiveClaim, Owns, dbVars, queueVars,
      slotVars, failVars, Promote, TxnState, RowState, JobState, PC, Claimed
<1>5. StatusSays'
  BY DEF IInv, TypeOK, StatusSays, dbVars, queueVars, slotVars, failVars, Promote,
      TxnState, RowState, JobState, PC, Claimed
<1>. QED  BY <1>1, <1>2, <1>3, <1>4, <1>5 DEF IInv

\* A stalled job may be taken twice; the rows do not change.
LEMMA StallIInv ==
  ASSUME IInv, NEW e \in Event, Stall(e)
  PROVE  IInv'
<1>1. TypeOK'
  BY ConstantsAssumption DEF IInv, TypeOK, dbVars, queueVars, slotVars, failVars,
      Stall, Fault, TxnState, RowState, JobState, PC, Claimed
<1>2. ExclusiveClaim'
  BY DEF IInv, TypeOK, ExclusiveClaim, Owns, dbVars, queueVars, slotVars, failVars,
      Stall, Fault, TxnState, RowState, JobState, PC, Claimed
<1>3. AttemptsBounded'
  BY DEF IInv, TypeOK, AttemptsBounded, dbVars, queueVars, slotVars, failVars,
      Stall,
      Fault, TxnState, RowState, JobState, PC, Claimed
<1>4. SlotKnows'
  BY DEF IInv, TypeOK, SlotKnows, ExclusiveClaim, Owns, dbVars, queueVars,
      slotVars, failVars, Stall, Fault, TxnState, RowState, JobState, PC, Claimed
<1>5. StatusSays'
  BY DEF IInv, TypeOK, StatusSays, dbVars, queueVars, slotVars, failVars, Stall,
      Fault, TxnState, RowState, JobState, PC, Claimed
<1>. QED  BY <1>1, <1>2, <1>3, <1>4, <1>5 DEF IInv

\* A forgotten job can be added again.
LEMMA EvictIInv ==
  ASSUME IInv, NEW e \in Event, Evict(e)
  PROVE  IInv'
<1>1. TypeOK'
  BY DEF IInv, TypeOK, dbVars, queueVars, slotVars, failVars, Evict, TxnState,
      RowState, JobState, PC, Claimed
<1>2. ExclusiveClaim'
  BY DEF IInv, TypeOK, ExclusiveClaim, Owns, dbVars, queueVars, slotVars, failVars,
      Evict, TxnState, RowState, JobState, PC, Claimed
<1>3. AttemptsBounded'
  BY DEF IInv, TypeOK, AttemptsBounded, dbVars, queueVars, slotVars, failVars,
      Evict,
      TxnState, RowState, JobState, PC, Claimed
<1>4. SlotKnows'
  BY DEF IInv, TypeOK, SlotKnows, ExclusiveClaim, Owns, dbVars, queueVars,
      slotVars, failVars, Evict, TxnState, RowState, JobState, PC, Claimed
<1>5. StatusSays'
  BY DEF IInv, TypeOK, StatusSays, dbVars, queueVars, slotVars, failVars, Evict,
      TxnState, RowState, JobState, PC, Claimed
<1>. QED  BY <1>1, <1>2, <1>3, <1>4, <1>5 DEF IInv

\* The poller reads committed rows.
LEMMA PollReadIInv ==
  ASSUME IInv, NEW n \in Node, NEW k \in Event, PollRead(n, k)
  PROVE  IInv'
<1>1. TypeOK'
  BY DEF IInv, TypeOK, dbVars, queueVars, slotVars, failVars, PollRead, Oldest,
      TxnState, RowState, JobState, PC, Claimed
<1>2. ExclusiveClaim'
  BY DEF IInv, TypeOK, ExclusiveClaim, Owns, dbVars, queueVars, slotVars, failVars,
      PollRead, Oldest, TxnState, RowState, JobState, PC, Claimed
<1>3. AttemptsBounded'
  BY DEF IInv, TypeOK, AttemptsBounded, dbVars, queueVars, slotVars, failVars,
      PollRead, Oldest, TxnState, RowState, JobState, PC, Claimed
<1>4. SlotKnows'
  BY DEF IInv, TypeOK, SlotKnows, ExclusiveClaim, Owns, dbVars, queueVars,
      slotVars, failVars, PollRead, Oldest, TxnState, RowState, JobState, PC,
      Claimed
<1>5. StatusSays'
  BY DEF IInv, TypeOK, StatusSays, dbVars, queueVars, slotVars, failVars, PollRead,
      Oldest, TxnState, RowState, JobState, PC, Claimed
<1>. QED  BY <1>1, <1>2, <1>3, <1>4, <1>5 DEF IInv

\* Re-publishing touches the queue only.
LEMMA PollAddIInv ==
  ASSUME IInv, NEW n \in Node, NEW e \in Event, PollAdd(n, e)
  PROVE  IInv'
<1>1. TypeOK'
  BY AddJobTypes DEF IInv, TypeOK, dbVars, queueVars, slotVars, failVars, PollAdd,
      Fault, TxnState, RowState, JobState, PC, Claimed
<1>2. ExclusiveClaim'
  BY AddJobTypes DEF IInv, TypeOK, ExclusiveClaim, Owns, dbVars, queueVars,
      slotVars, failVars, PollAdd, Fault, TxnState, RowState, JobState, PC, Claimed
<1>3. AttemptsBounded'
  BY AddJobTypes DEF IInv, TypeOK, AttemptsBounded, dbVars, queueVars,
      slotVars, failVars, PollAdd, Fault, TxnState, RowState, JobState, PC, Claimed
<1>4. SlotKnows'
  BY AddJobTypes DEF IInv, TypeOK, SlotKnows, ExclusiveClaim, Owns, dbVars,
      queueVars, slotVars, failVars, PollAdd, Fault, TxnState, RowState,
      JobState, PC,
      Claimed
<1>5. StatusSays'
  BY AddJobTypes DEF IInv, TypeOK, StatusSays, dbVars, queueVars, slotVars,
      failVars,
      PollAdd, Fault, TxnState, RowState, JobState, PC, Claimed
<1>. QED  BY <1>1, <1>2, <1>3, <1>4, <1>5 DEF IInv

\* The cleanup deletes rows nobody owns.
LEMMA RunCleanupIInv ==
  ASSUME IInv, RunCleanup
  PROVE  IInv'
<1>1. TypeOK'
  BY DEF IInv, TypeOK, dbVars, queueVars, slotVars, failVars, RunCleanup, Purge,
      TxnState, RowState, JobState, PC, Claimed
<1>2. ExclusiveClaim'
  BY DEF IInv, TypeOK, ExclusiveClaim, Owns, dbVars, queueVars, slotVars, failVars,
      RunCleanup, Purge, TxnState, RowState, JobState, PC, Claimed
<1>3. AttemptsBounded'
  BY DEF IInv, TypeOK, AttemptsBounded, dbVars, queueVars, slotVars, failVars,
      RunCleanup, Purge, TxnState, RowState, JobState, PC, Claimed
<1>4. SlotKnows'
  BY DEF IInv, TypeOK, SlotKnows, ExclusiveClaim, Owns, dbVars, queueVars,
      slotVars, failVars, RunCleanup, Purge, TxnState, RowState, JobState, PC,
      Claimed
<1>5. StatusSays'
  BY DEF IInv, TypeOK, StatusSays, dbVars, queueVars, slotVars, failVars,
      RunCleanup,
      Purge, TxnState, RowState, JobState, PC, Claimed
<1>. QED  BY <1>1, <1>2, <1>3, <1>4, <1>5 DEF IInv

\* A crash frees a slot and aborts open transactions.
LEMMA CrashIInv ==
  ASSUME IInv, NEW n \in Node, Crash(n)
  PROVE  IInv'
<1>1. TypeOK'
  BY DEF IInv, TypeOK, dbVars, queueVars, slotVars, failVars, Crash, Fault,
      FreeSlot,
      TxnState, RowState, JobState, PC, Claimed
<1>2. ExclusiveClaim'
  BY DEF IInv, TypeOK, ExclusiveClaim, Owns, dbVars, queueVars, slotVars, failVars,
      Crash, Fault, FreeSlot, TxnState, RowState, JobState, PC, Claimed
<1>3. AttemptsBounded'
  BY DEF IInv, TypeOK, AttemptsBounded, dbVars, queueVars, slotVars, failVars,
      Crash,
      Fault, FreeSlot, TxnState, RowState, JobState, PC, Claimed
<1>4. SlotKnows'
  BY DEF IInv, TypeOK, SlotKnows, ExclusiveClaim, Owns, dbVars, queueVars,
      slotVars, failVars, Crash, Fault, FreeSlot, TxnState, RowState, JobState, PC,
      Claimed
<1>5. StatusSays'
  BY DEF IInv, TypeOK, StatusSays, dbVars, queueVars, slotVars, failVars, Crash,
      Fault, FreeSlot, TxnState, RowState, JobState, PC, Claimed
<1>. QED  BY <1>1, <1>2, <1>3, <1>4, <1>5 DEF IInv

-----------------------------------------------------------------------------
LEMMA NextIInv == IInv /\ [Next]_vars => IInv'
<1>. SUFFICES ASSUME IInv, [Next]_vars PROVE IInv'
  OBVIOUS
<1>1. ASSUME NEW e \in Event, Produce(e) \/ Promote(e) \/ Stall(e) \/ Evict(e)
      PROVE  IInv'
  BY <1>1, EnqueueIInv, CommitIInv, AbortIInv, PublishJobIInv, PromoteIInv,
     StallIInv, EvictIInv DEF Produce
<1>2. ASSUME NEW n \in Node, Process(n)
      PROVE  IInv'
  BY <1>2, MarkProcessingIInv, LoadIInv, ClaimThrowsIInv, DispatchIInv,
     NotifyIInv, MarkCompletedIInv, MarkDeadIInv, MarkFailedIInv,
     SettleThrowsIInv, BuryIInv, MoveToDelayedIInv, FinishIInv DEF Process
<1>3. ASSUME NEW n \in Node, Poll(n) \/ Crash(n)
      PROVE  IInv'
  BY <1>3, PollReadIInv, PollAddIInv, CrashIInv DEF Poll
<1>4. ASSUME NEW n \in Node, NEW e \in Event, TakeJob(n, e)
      PROVE  IInv'
  BY <1>4, TakeJobIInv
<1>5. CASE UNCHANGED vars
  BY <1>5 DEF vars, dbVars, queueVars, slotVars, failVars, IInv, TypeOK,
      ExclusiveClaim,
              Owns, AttemptsBounded, SlotKnows, StatusSays
<1>. QED
  BY <1>1, <1>2, <1>3, <1>4, <1>5, RunCleanupIInv DEF Next

\* The inductive invariant of the outbox holds in every reachable state.
THEOREM OutboxInvariant == Spec => []IInv
  BY InitIInv, NextIInv, PTL DEF Spec

\* Type correctness.
THEOREM OutboxTypes == Spec => []TypeOK
<1>1. IInv => TypeOK
  BY DEF IInv
<1>. QED
  BY <1>1, OutboxInvariant, PTL

\* However jobs are delivered and whatever fails, no two workers are inside
\* process() for the same row.
THEOREM OutboxExclusive == Spec => []ExclusiveClaim
<1>1. IInv => ExclusiveClaim
  BY DEF IInv
<1>. QED
  BY <1>1, OutboxInvariant, PTL

\* At most MaxAttempts attempts and one projection per attempt.
THEOREM OutboxBounded == Spec => []AttemptsBounded
<1>1. IInv => AttemptsBounded
  BY DEF IInv
<1>. QED
  BY <1>1, OutboxInvariant, PTL

\* An event of an open or rolled back transaction is neither claimed nor
\* projected, although its job may run.
THEOREM OutboxCommitted == Spec => []OnlyCommittedProjected
<1>1. IInv => OnlyCommittedProjected
  BY BeforeCommit DEF OnlyCommittedProjected
<1>. QED
  BY <1>1, OutboxInvariant, PTL

-----------------------------------------------------------------------------
\* A worker step that writes the row or projects it is taken by its owner, so
\* the row was PROCESSING; only the claim, the commit and the cleanup write
\* other rows.
LEMMA StepOfRows ==
  ASSUME IInv, [Next]_vars, NEW e \in Event
  PROVE  \/ row'[e] = row[e] /\ activity'[e] = activity[e]
         \/ row[e] \in {"ABSENT", "PENDING", "FAILED", "PROCESSING"}
         \/ /\ row[e] \in {"COMPLETED", "DEAD"}
            /\ row'[e] = "PURGED"
            /\ activity'[e] = activity[e]
<1>. USE DEF dbVars, queueVars, slotVars
<1>t. /\ row \in [Event -> RowState] /\ activity \in [Event -> Nat]
  BY DEF IInv, TypeOK
<1>1. ASSUME NEW d \in Event, Produce(d) \/ Promote(d) \/ Stall(d) \/ Evict(d)
      PROVE  (row'[e] = row[e] /\ activity'[e] = activity[e]) \/ row[e] = "ABSENT"
  <2>1. CASE Commit(d)
    BY <1>t, <2>1, BeforeCommit DEF Commit
  <2>2. CASE Enqueue(d) \/ Abort(d) \/ PublishJob(d) \/ Promote(d) \/ Stall(d)
             \/ Evict(d)
    BY <2>2 DEF Enqueue, Abort, PublishJob, Promote, Stall, Evict
  <2>. QED
    BY <1>1, <2>1, <2>2 DEF Produce
<1>2. ASSUME NEW n \in Node, Process(n)
      PROVE  \/ row'[e] = row[e] /\ activity'[e] = activity[e]
             \/ row[e] \in {"PENDING", "FAILED", "PROCESSING"}
  <2>1. CASE MarkProcessing(n)
    BY <1>t, <2>1 DEF MarkProcessing, CanClaim, Stuck
  <2>2. CASE Dispatch(n) \/ MarkCompleted(n) \/ MarkDead(n) \/ MarkFailed(n)
    <3>1. row[ev[n]] = "PROCESSING"
      BY <2>2, OwnerFacts DEF Dispatch, MarkCompleted, MarkDead, MarkFailed, Claimed
    <3>. QED
      BY <1>t, <2>2, <3>1 DEF Dispatch, MarkCompleted, MarkDead, MarkFailed
  <2>3. CASE \/ Load(n) \/ ClaimThrows(n) \/ Notify(n) \/ SettleThrows(n)
             \/ Bury(n) \/ MoveToDelayed(n) \/ Finish(n)
    BY <2>3 DEF Load, ClaimThrows, Notify, SettleThrows, Bury, MoveToDelayed, Finish
  <2>. QED
    BY <1>2, <2>1, <2>2, <2>3 DEF Process
<1>3. ASSUME NEW n \in Node, Poll(n) \/ Crash(n) \/ \E d \in Event : TakeJob(n, d)
      PROVE  row'[e] = row[e] /\ activity'[e] = activity[e]
  BY <1>3 DEF Poll, PollRead, PollAdd, Crash, TakeJob
<1>4. CASE RunCleanup
  BY <1>t, <1>4 DEF RunCleanup, Purge
<1>5. CASE UNCHANGED vars
  BY <1>5 DEF vars
<1>. QED
  BY <1>1, <1>2, <1>3, <1>4, <1>5 DEF Next

\* A settled row is final: neither a replayed job nor a worker that lost its
\* lock changes it or projects its event again.
THEOREM OutboxSettled == Spec => SettledIsFinal
<1>1. IInv /\ [Next]_vars =>
        [\A e \in Event :
           row[e] \in {"COMPLETED", "DEAD", "PURGED"} =>
             /\ row'[e] \in {row[e], "PURGED"}
             /\ activity'[e] = activity[e]]_vars
  BY StepOfRows
<1>. QED
  BY <1>1, OutboxInvariant, PTL DEF Spec, SettledIsFinal

-----------------------------------------------------------------------------
(* What a repetition costs.                                                *)

\* A row that waits for another attempt, or a slot about to ask for one, has
\* seen a failure for every attempt so far.
AttemptsPaid ==
    \A e \in Event : kind[e] # "STATUS_CHANGED" =>
        /\ attempts[e] <= 1 + faults
        /\ row[e] = "FAILED" => attempts[e] <= faults
        /\ \A n \in Node : pc[n] = "settle" /\ ev[n] = e => attempts[e] <= faults

LEMMA AttemptsPaidInit == Init => AttemptsPaid
  BY DEF Init, AttemptsPaid

\* Steps that write neither a row nor its attempts, and let no slot settle.
LEMMA AttemptsPaidFrame ==
  ASSUME IInv, AttemptsPaid, UNCHANGED <<kind, row, attempts>>,
         faults' \in Nat, faults' >= faults,
         \A n \in Node : pc'[n] = "settle" => pc[n] = "settle" /\ ev'[n] = ev[n]
  PROVE  AttemptsPaid'
<1>1. faults \in Nat /\ attempts \in [Event -> Nat]
  BY DEF IInv, TypeOK
<1>. QED  BY <1>1 DEF AttemptsPaid

LEMMA AttemptsPaidProcess ==
  ASSUME IInv, AttemptsPaid, NEW n \in Node, Process(n)
  PROVE  AttemptsPaid'
<1>t. /\ faults \in Nat /\ attempts \in [Event -> Nat]
      /\ row \in [Event -> RowState] /\ pc \in [Node -> PC] /\ ev[n] \in Event
  BY DEF IInv, TypeOK, Process, MarkProcessing, Load, ClaimThrows, Dispatch, Notify,
         MarkCompleted, MarkDead, MarkFailed, SettleThrows, Bury, MoveToDelayed,
         Finish,
         NoEvent
<1>1. CASE MarkProcessing(n)
  <2>1. row[ev[n]] = "PENDING" => attempts[ev[n]] = 0
    BY <1>t DEF IInv, StatusSays
  <2>2. UNCHANGED <<kind, ev, faults>> /\ \A m \in Node : pc'[m] = "settle" => pc[m] = "settle"
    BY <1>t, <1>1 DEF MarkProcessing, Goto, failVars
  <2>3. CASE UNCHANGED <<row, attempts>>
    BY <1>t, <2>2, <2>3, AttemptsPaidFrame
  <2>4. CASE /\ row[ev[n]] \in Stuck
             /\ row' = [row EXCEPT ![ev[n]] = "PROCESSING"]
             /\ attempts' = [attempts EXCEPT ![ev[n]] = @ + 1]
    <3>1. \A m \in Node : pc[m] = "settle" => ev[m] # ev[n]
      BY <2>4, OwnerFacts DEF Claimed, Stuck
    <3>. QED  BY <1>t, <2>1, <2>2, <2>4, <3>1 DEF AttemptsPaid, Stuck
  <2>. QED  BY <1>1, <2>3, <2>4 DEF MarkProcessing, CanClaim
<1>2. CASE Dispatch(n) \/ MarkCompleted(n)
  <2>1. UNCHANGED <<kind, attempts, ev>> /\ faults' \in {faults, faults + 1}
        /\ \A m \in Node : m # n => pc'[m] = pc[m]
    BY <1>t, <1>2 DEF Dispatch, MarkCompleted, Goto, Fault, failVars
  <2>2. pc'[n] = "settle" => faults' = faults + 1 \/ kind[ev[n]] = "STATUS_CHANGED"
    BY <1>t, <1>2 DEF Dispatch, MarkCompleted, Goto, Fault, AfterHandlerError
  <2>. SUFFICES ASSUME NEW e \in Event, kind[e] # "STATUS_CHANGED"
       PROVE  /\ attempts[e] <= 1 + faults'
              /\ row'[e] = "FAILED" => attempts[e] <= faults'
              /\ \A m \in Node : pc'[m] = "settle" /\ ev[m] = e => attempts[e] <= faults'
    BY <2>1 DEF AttemptsPaid
  <2>3. /\ attempts[e] <= 1 + faults /\ attempts[e] \in Nat
        /\ row[e] = "FAILED" => attempts[e] <= faults
        /\ \A m \in Node : pc[m] = "settle" /\ ev[m] = e => attempts[e] <= faults
    BY <1>t DEF AttemptsPaid
  <2>4. row'[e] = "FAILED" => row[e] = "FAILED"
    BY <1>t, <1>2 DEF Dispatch, MarkCompleted
  <2>. QED  BY <1>t, <2>1, <2>2, <2>3, <2>4
<1>3. CASE MarkDead(n) \/ MarkFailed(n)
  BY <1>t, <1>3 DEF MarkDead, MarkFailed, AttemptsPaid, Goto, AfterDead, failVars
<1>4. CASE Load(n) \/ Notify(n) \/ Bury(n)
  BY <1>t, <1>4, AttemptsPaidFrame DEF Load, Notify, Bury, Goto, Fault, dbVars,
      failVars
<1>5. CASE ClaimThrows(n) \/ SettleThrows(n) \/ MoveToDelayed(n) \/ Finish(n)
  <2>1. UNCHANGED <<kind, row, attempts>> /\ faults' \in {faults, faults + 1}
    BY <1>5 DEF ClaimThrows, SettleThrows, MoveToDelayed, Finish, Fault, dbVars,
        failVars
  <2>2. \A m \in Node : pc'[m] = "settle" => pc[m] = "settle" /\ ev'[m] = ev[m]
    BY <1>t, <1>5 DEF ClaimThrows, SettleThrows, MoveToDelayed, Finish, FailJob,
                      LeaveJob, FreeSlot, IInv, TypeOK
  <2>. QED  BY <1>t, <2>1, <2>2, AttemptsPaidFrame
<1>. QED  BY <1>1, <1>2, <1>3, <1>4, <1>5 DEF Process

LEMMA AttemptsPaidNext == IInv /\ AttemptsPaid /\ [Next]_vars => AttemptsPaid'
<1>. SUFFICES ASSUME IInv, AttemptsPaid, [Next]_vars PROVE AttemptsPaid'
  OBVIOUS
<1>t. /\ faults \in Nat /\ attempts \in [Event -> Nat] /\ pc \in [Node -> PC]
      /\ ev \in [Node -> Event \cup {NoEvent}]
  BY DEF IInv, TypeOK
<1>1. ASSUME NEW e \in Event, Commit(e) PROVE AttemptsPaid'
  <2>1. row' = [row EXCEPT ![e] = CommittedStatus] /\ row \in [Event -> RowState]
        /\ CommittedStatus # "FAILED" /\ UNCHANGED <<kind, attempts, slotVars, faults>>
    BY <1>1 DEF Commit, CommittedStatus, IInv, TypeOK, failVars
  <2>. QED  BY <2>1 DEF AttemptsPaid, slotVars, failVars
<1>2. CASE RunCleanup
  <2>1. \A e \in Event : row'[e] = "FAILED" => row[e] = "FAILED"
    BY <1>2 DEF RunCleanup, Purge, failVars
  <2>2. UNCHANGED <<kind, attempts, slotVars, faults>>
    BY <1>2 DEF RunCleanup, Purge, failVars
  <2>. QED  BY <2>1, <2>2 DEF AttemptsPaid, slotVars, failVars
<1>3. ASSUME NEW e \in Event,
             \/ Enqueue(e) \/ Abort(e) \/ PublishJob(e) \/ Promote(e) \/ Stall(e)
             \/ Evict(e) \/ \E n \in Node : PollRead(n, e) \/ PollAdd(n, e)
      PROVE  AttemptsPaid'
  <2>1. UNCHANGED <<kind, row, attempts, slotVars>> /\ faults' \in {faults, faults + 1}
    BY <1>3 DEF Enqueue, Abort, PublishJob, Promote, Stall, Evict, PollRead,
        PollAdd,
                Fault, dbVars, failVars
  <2>. QED  BY <1>t, <2>1, AttemptsPaidFrame DEF slotVars, failVars
<1>4. ASSUME NEW n \in Node, NEW e \in Event, TakeJob(n, e) PROVE AttemptsPaid'
  BY <1>t, <1>4, AttemptsPaidFrame DEF TakeJob, dbVars, failVars
<1>5. ASSUME NEW n \in Node, Crash(n) PROVE AttemptsPaid'
  BY <1>t, <1>5, AttemptsPaidFrame DEF Crash, Fault, FreeSlot, dbVars, failVars
<1>6. CASE UNCHANGED vars
  BY <1>t, <1>6, AttemptsPaidFrame DEF vars, dbVars, slotVars, failVars
<1>. QED
  BY <1>1, <1>2, <1>3, <1>4, <1>5, <1>6, AttemptsPaidProcess DEF Next, Produce, Poll

\* While no database call fails, an event that will be tried again has not been
\* projected: the projection is followed by the completion of its row.
ProjectedLast ==
    /\ \A e \in Event : activity[e] <= 1 /\ (row[e] \in Stuck => activity[e] = 0)
    /\ \A n \in Node : pc[n] \in {"load", "dispatch", "settle"} => activity[ev[n]] = 0

LEMMA ProjectedLastInit == Init => ProjectedLast
  BY DEF Init, ProjectedLast, Stuck

LEMMA ProjectedLastFrame ==
  ASSUME ProjectedLast, UNCHANGED <<row, activity>>,
         \A n \in Node : pc'[n] \in {"load", "dispatch", "settle"} =>
             pc[n] \in {"load", "dispatch", "settle"} /\ ev'[n] = ev[n]
  PROVE  ProjectedLast'
  BY DEF ProjectedLast

LEMMA ProjectedLastProcess ==
  ASSUME "database" \notin failed', IInv, ProjectedLast, NEW n \in Node, Process(n)
  PROVE  ProjectedLast'
<1>t. /\ activity \in [Event -> Nat]
      /\ row \in [Event -> RowState] /\ pc \in [Node -> PC] /\ ev[n] \in Event
  BY DEF IInv, TypeOK, Process, MarkProcessing, Load, ClaimThrows, Dispatch, Notify,
         MarkCompleted, MarkDead, MarkFailed, SettleThrows, Bury, MoveToDelayed,
         Finish,
         NoEvent
<1>1. CASE MarkProcessing(n)
  BY <1>t, <1>1 DEF MarkProcessing, ProjectedLast, CanClaim, Stuck, Goto
<1>2. CASE Dispatch(n)
  <2>1. \A m \in Node \ {n} : pc[m] \in Claimed => ev[m] # ev[n]
    BY <1>2, OwnerFacts DEF Dispatch, Claimed
  <2>2. activity[ev[n]] = 0 /\ row[ev[n]] \notin Stuck
    BY <1>2, OwnerFacts DEF Dispatch, Claimed, ProjectedLast, Stuck
  <2>3. UNCHANGED <<row, ev>> /\ \A m \in Node : m # n => pc'[m] = pc[m]
    BY <1>t, <1>2 DEF Dispatch, Goto
  <2>4. \/ /\ activity' = [activity EXCEPT ![ev[n]] = @ + 1]
           /\ pc'[n] \in {"notify", "complete"}
        \/ UNCHANGED activity
    BY <1>t, <1>2 DEF Dispatch, Goto
  <2>5. \A e \in Event : row'[e] = row[e] /\ (e # ev[n] => activity'[e] = activity[e])
    BY <1>t, <2>3, <2>4
  <2>6. activity'[ev[n]] <= 1
    BY <1>t, <2>2, <2>4
  <2>7. \A m \in Node : pc'[m] \in {"load", "dispatch", "settle"} => activity'[ev'[m]] = 0
    <3>. SUFFICES ASSUME NEW m \in Node, pc'[m] \in {"load", "dispatch", "settle"}
         PROVE  activity'[ev[m]] = 0
      BY <2>3
    <3>1. CASE m = n
      BY <1>t, <2>2, <2>4, <3>1
    <3>2. CASE m # n
      <4>1. activity[ev[m]] = 0 /\ ev[m] # ev[n] /\ ev[m] \in Event
        BY <2>1, <2>3, <3>2, OwnerFacts DEF ProjectedLast, Claimed
      <4>. QED  BY <2>5, <4>1
    <3>. QED  BY <3>1, <3>2
  <2>. QED  BY <2>2, <2>5, <2>6, <2>7 DEF ProjectedLast
<1>3. CASE MarkCompleted(n)
  BY <1>t, <1>3 DEF MarkCompleted, ProjectedLast, Goto, Fault, Stuck
<1>4. CASE MarkDead(n) \/ MarkFailed(n)
  BY <1>t, <1>4 DEF MarkDead, MarkFailed, ProjectedLast, Goto, AfterDead, Stuck
<1>5. CASE Load(n) \/ Notify(n) \/ Bury(n)
  BY <1>t, <1>5, ProjectedLastFrame DEF Load, Notify, Bury, Goto, dbVars, failVars
<1>6. CASE ClaimThrows(n) \/ SettleThrows(n) \/ MoveToDelayed(n) \/ Finish(n)
  <2>1. UNCHANGED <<row, activity>>
    BY <1>6 DEF ClaimThrows, SettleThrows, MoveToDelayed, Finish, dbVars, failVars
  <2>2. \A m \in Node : pc'[m] # "idle" => pc'[m] = pc[m] /\ ev'[m] = ev[m]
    BY <1>t, <1>6 DEF ClaimThrows, SettleThrows, MoveToDelayed, Finish, FailJob,
                      LeaveJob, FreeSlot, IInv, TypeOK
  <2>. QED  BY <2>1, <2>2, ProjectedLastFrame
<1>. QED  BY <1>1, <1>2, <1>3, <1>4, <1>5, <1>6 DEF Process

LEMMA ProjectedLastNext ==
  ASSUME "database" \notin failed', IInv, ProjectedLast, [Next]_vars
  PROVE  ProjectedLast'
<1>1. ASSUME NEW e \in Event, Commit(e) PROVE ProjectedLast'
  <2>1. /\ row' = [row EXCEPT ![e] = CommittedStatus]
        /\ activity' = [activity EXCEPT ![e] = IF SyncDev THEN 1 ELSE 0]
        /\ row \in [Event -> RowState] /\ activity \in [Event -> Nat]
        /\ UNCHANGED slotVars
    BY <1>1 DEF Commit, IInv, TypeOK
  <2>2. \A n \in Node : pc[n] \in Claimed => ev[n] # e
    BY <1>1, BeforeCommit DEF Commit, Owns
  <2>. QED  BY <2>1, <2>2 DEF ProjectedLast, CommittedStatus, Stuck, Claimed,
      slotVars, failVars
<1>2. CASE RunCleanup
  BY <1>2 DEF RunCleanup, Purge, ProjectedLast, Stuck, slotVars, failVars
<1>3. ASSUME NEW e \in Event,
             \/ Enqueue(e) \/ Abort(e) \/ PublishJob(e) \/ Promote(e) \/ Stall(e)
             \/ Evict(e) \/ \E n \in Node : PollRead(n, e) \/ PollAdd(n, e)
      PROVE  ProjectedLast'
  BY <1>3, ProjectedLastFrame
     DEF Enqueue, Abort, PublishJob, Promote, Stall, Evict, PollRead, PollAdd,
         dbVars, slotVars, failVars
<1>4. ASSUME NEW n \in Node, NEW e \in Event, TakeJob(n, e) PROVE ProjectedLast'
  BY <1>4, ProjectedLastFrame DEF TakeJob, dbVars, failVars, IInv, TypeOK
<1>5. ASSUME NEW n \in Node, Crash(n) PROVE ProjectedLast'
  BY <1>5, ProjectedLastFrame DEF Crash, FreeSlot, dbVars, failVars, IInv, TypeOK
<1>6. CASE UNCHANGED vars
  BY <1>6, ProjectedLastFrame DEF vars, dbVars, slotVars, failVars
<1>. QED
  BY <1>1, <1>2, <1>3, <1>4, <1>5, <1>6, ProjectedLastProcess DEF Next, Produce,
      Poll

\* No failure is forgotten.
LEMMA FailedGrows == [Next]_vars => failed \subseteq failed'
  BY DEF Next, Produce, Process, Poll, Enqueue, Commit, Abort, PublishJob, TakeJob,
         MarkProcessing, Load, ClaimThrows, Dispatch, Notify, MarkCompleted, MarkDead,
         MarkFailed, SettleThrows, Bury, MoveToDelayed, Finish, Promote, Stall, Evict,
         PollRead, PollAdd, RunCleanup, Purge, Crash, Fault, failVars, vars

\* Every attempt after the first costs a failure, and before a database call has
\* failed an event is projected once at most, whatever else goes wrong.
THEOREM OutboxRepeatsHaveCause == Spec => []RepeatsHaveCause
<1>. DEFINE Unfailed == "database" \notin failed => ProjectedLast
<1>1. IInv /\ Unfailed /\ [Next]_vars => Unfailed'
  BY FailedGrows, ProjectedLastNext
<1>2. Init => Unfailed
  BY ProjectedLastInit
<1>3. AttemptsPaid /\ Unfailed => RepeatsHaveCause
  BY DEF AttemptsPaid, ProjectedLast, RepeatsHaveCause
<1>. QED
  BY <1>1, <1>2, <1>3, AttemptsPaidInit, AttemptsPaidNext, OutboxInvariant, PTL DEF Spec

-----------------------------------------------------------------------------
(* Which failures make a row or an event be forgotten.                     *)

\* A slot that keeps its place, or is still between claim and settlement.
LEMMA OwnerStays ==
  ASSUME "database" \notin Faults, IInv, NEW n \in Node, pc[n] \in Claimed,
         NEW m \in Node, Process(m)
  PROVE  \/ pc'[n] \in Claimed /\ ev'[n] = ev[n]
         \/ row'[ev[n]] # "PROCESSING"
<1>t. /\ row \in [Event -> RowState] /\ pc \in [Node -> PC]
      /\ ev \in [Node -> Event \cup {NoEvent}] /\ ev[n] \in Event
      /\ row[ev[n]] = "PROCESSING"
  BY OwnerFacts DEF IInv, TypeOK
<1>1. CASE m # n
  <2>1. pc'[n] = pc[n] /\ ev'[n] = ev[n]
    BY <1>t, <1>1
       DEF Process, MarkProcessing, Load, ClaimThrows, Dispatch, Notify,
       MarkCompleted,
           MarkDead, MarkFailed, SettleThrows, Bury, MoveToDelayed, Finish, FailJob,
           LeaveJob, FreeSlot, Goto
  <2>. QED  BY <2>1
<1>2. CASE m = n
  <2>1. CASE Load(n) \/ Dispatch(n) \/ Notify(n)
    BY <1>t, <2>1 DEF Load, Dispatch, Notify, Goto, Claimed, AfterHandlerError
  <2>2. CASE MarkCompleted(n) \/ MarkDead(n) \/ MarkFailed(n)
    BY <1>t, <2>2 DEF MarkCompleted, MarkDead, MarkFailed, Fault
  <2>3. ~ClaimThrows(n) /\ ~SettleThrows(n)
    BY DEF ClaimThrows, SettleThrows, Fault
  <2>4. pc[n] \notin {"claim", "bury", "delay", "finish"}
    BY DEF Claimed
  <2>. QED  BY <1>2, <2>1, <2>2, <2>3, <2>4
            DEF Process, MarkProcessing, Bury, MoveToDelayed, Finish
<1>. QED  BY <1>1, <1>2

LEMMA ClaimHasOwnerNext ==
  ASSUME Faults \cap {"crash", "database"} = {}, IInv, ClaimHasOwner, [Next]_vars
  PROVE  ClaimHasOwner'
<1>. SUFFICES ASSUME NEW e \in Event, row'[e] = "PROCESSING"
     PROVE  \E n \in Node : pc'[n] \in Claimed /\ ev'[n] = e
  BY DEF ClaimHasOwner, Owns
<1>t. /\ row \in [Event -> RowState] /\ pc \in [Node -> PC]
      /\ ev \in [Node -> Event \cup {NoEvent}]
  BY DEF IInv, TypeOK
<1>1. CASE row[e] = "PROCESSING"
  <2>1. PICK n \in Node : pc[n] \in Claimed /\ ev[n] = e
    BY <1>1 DEF ClaimHasOwner, Owns
  <2>2. ASSUME NEW m \in Node, Process(m) PROVE pc'[n] \in Claimed /\ ev'[n] = e
    BY <2>1, <2>2, OwnerStays
  <2>3. ASSUME NEW m \in Node, NEW d \in Event, TakeJob(m, d)
        PROVE  pc'[n] \in Claimed /\ ev'[n] = e
    <3>1. m # n
      BY <2>1, <2>3 DEF TakeJob, Claimed
    <3>. QED  BY <1>t, <2>1, <2>3, <3>1 DEF TakeJob
  <2>4. ASSUME NEW m \in Node PROVE ~Crash(m)
    BY DEF Crash, Fault
  <2>5. CASE UNCHANGED slotVars
    BY <2>1, <2>5 DEF slotVars, failVars
  <2>6. \/ UNCHANGED slotVars
        \/ \E m \in Node : Process(m) \/ Crash(m) \/ \E d \in Event : TakeJob(m, d)
    BY DEF Next, Produce, Enqueue, Commit, Abort, PublishJob, Promote, Stall, Evict,
           Poll, PollRead, PollAdd, RunCleanup, Purge, vars
  <2>. QED  BY <2>2, <2>3, <2>4, <2>5, <2>6
<1>2. CASE row[e] # "PROCESSING"
  <2>1. PICK n \in Node : MarkProcessing(n) /\ ev[n] = e
    <3>1. ASSUME NEW n \in Node, Process(n) PROVE MarkProcessing(n) /\ ev[n] = e
      BY <1>t, <1>2, <3>1
         DEF Process, MarkProcessing, Load, ClaimThrows, Dispatch, Notify,
         MarkCompleted,
             MarkDead, MarkFailed, SettleThrows, Bury, MoveToDelayed, Finish,
             dbVars, failVars
    <3>2. ASSUME NEW d \in Event, Commit(d) PROVE FALSE
      BY <1>t, <1>2, <3>2 DEF Commit, CommittedStatus
    <3>3. ~RunCleanup
      BY <1>2 DEF RunCleanup, Purge
    <3>4. row' # row
      BY <1>2
    <3>. QED  BY <3>1, <3>2, <3>3, <3>4
              DEF Next, Produce, Enqueue, Abort, PublishJob, Promote, Stall, Evict,
                  Poll, PollRead, PollAdd, Crash, TakeJob, vars, dbVars, failVars
  <2>. QED  BY <1>t, <1>2, <2>1 DEF MarkProcessing, Goto, Claimed
<1>. QED  BY <1>1, <1>2

\* Without a crash and a database failure a claimed row always has the slot
\* that will settle it: the premise of the liveness of claims.
THEOREM OutboxClaimHasOwner ==
  ASSUME Faults \cap {"crash", "database"} = {}
  PROVE  Spec => []ClaimHasOwner
<1>1. Init => ClaimHasOwner
  BY DEF Init, ClaimHasOwner
<1>2. IInv /\ ClaimHasOwner /\ [Next]_vars => ClaimHasOwner'
  BY ClaimHasOwnerNext
<1>. QED  BY <1>1, <1>2, OutboxInvariant, PTL DEF Spec

LEMMA DeadIsBuriedNext ==
  ASSUME Faults \cap {"crash", "queue"} = {}, IInv, DeadIsBuried, [Next]_vars
  PROVE  DeadIsBuried'
<1>. SUFFICES ASSUME NEW e \in Event, row'[e] = "DEAD"
     PROVE  e \in dlq' \/ \E n \in Node : pc'[n] = "bury" /\ ev'[n] = e
  BY DEF DeadIsBuried
<1>t. /\ row \in [Event -> RowState] /\ pc \in [Node -> PC]
      /\ ev \in [Node -> Event \cup {NoEvent}]
  BY DEF IInv, TypeOK
<1>d. dlq \subseteq dlq'
  BY DEF Next, Produce, Enqueue, Commit, Abort, PublishJob, AddJob, Promote,
      Stall, Evict,
         Process, MarkProcessing, Load, ClaimThrows, Dispatch, Notify,
         MarkCompleted,
         MarkDead, MarkFailed, SettleThrows, Bury, MoveToDelayed, Finish, FailJob,
         LeaveJob, Poll, PollRead, PollAdd, Crash, TakeJob, RunCleanup, Purge,
         vars, queueVars, failVars
<1>1. CASE row[e] = "DEAD"
  <2>1. CASE e \in dlq
    BY <1>d, <2>1
  <2>2. ASSUME NEW n \in Node, pc[n] = "bury", ev[n] = e
        PROVE  e \in dlq' \/ (pc'[n] = "bury" /\ ev'[n] = e)
    <3>1. CASE Bury(n)
      BY <2>2, <3>1 DEF Bury, Fault
    <3>2. ASSUME NEW m \in Node, Process(m) \/ \E d \in Event : TakeJob(m, d), m # n
          PROVE  pc'[n] = "bury" /\ ev'[n] = e
      BY <1>t, <2>2, <3>2
         DEF Process, MarkProcessing, Load, ClaimThrows, Dispatch, Notify,
         MarkCompleted,
             MarkDead, MarkFailed, SettleThrows, Bury, MoveToDelayed, Finish,
             FailJob,
             LeaveJob, FreeSlot, Goto, TakeJob
    <3>3. Process(n) => Bury(n)
      BY <2>2 DEF Process, MarkProcessing, Load, ClaimThrows, Dispatch, Notify,
             MarkCompleted, MarkDead, MarkFailed, SettleThrows, MoveToDelayed,
             Finish
    <3>4. ASSUME NEW d \in Event PROVE ~TakeJob(n, d)
      BY <2>2 DEF TakeJob
    <3>5. ASSUME NEW m \in Node PROVE ~Crash(m)
      BY DEF Crash, Fault
    <3>6. CASE UNCHANGED slotVars
      BY <2>2, <3>6 DEF slotVars, failVars
    <3>7. \/ UNCHANGED slotVars
          \/ \E m \in Node : Process(m) \/ Crash(m) \/ \E d \in Event : TakeJob(m, d)
      BY DEF Next, Produce, Enqueue, Commit, Abort, PublishJob, Promote, Stall,
          Evict,
             Poll, PollRead, PollAdd, RunCleanup, Purge, vars
    <3>. QED  BY <3>1, <3>2, <3>3, <3>4, <3>5, <3>6, <3>7
  <2>. QED  BY <1>1, <2>1, <2>2 DEF DeadIsBuried
<1>2. CASE row[e] # "DEAD"
  <2>1. PICK n \in Node : MarkDead(n) /\ ev[n] = e
    <3>1. ASSUME NEW n \in Node, Process(n) PROVE MarkDead(n) /\ ev[n] = e
      BY <1>t, <1>2, <3>1
         DEF Process, MarkProcessing, Load, ClaimThrows, Dispatch, Notify,
         MarkCompleted,
             MarkDead, MarkFailed, SettleThrows, Bury, MoveToDelayed, Finish,
             dbVars, failVars
    <3>2. ASSUME NEW d \in Event, Commit(d) PROVE FALSE
      BY <1>t, <1>2, <3>2 DEF Commit, CommittedStatus
    <3>3. ~RunCleanup
      BY <1>2 DEF RunCleanup, Purge
    <3>4. row' # row
      BY <1>2
    <3>. QED  BY <3>1, <3>2, <3>3, <3>4
              DEF Next, Produce, Enqueue, Abort, PublishJob, Promote, Stall, Evict,
                  Poll, PollRead, PollAdd, Crash, TakeJob, vars, dbVars, failVars
  <2>. QED  BY <1>t, <2>1 DEF MarkDead, Goto, AfterDead
<1>. QED  BY <1>1, <1>2

\* Without a crash and a failure of Redis every dead event is in the
\* dead-letter queue, or on its way there in the slot that buried it.
THEOREM OutboxDeadIsBuried ==
  ASSUME Faults \cap {"crash", "queue"} = {}
  PROVE  Spec => []DeadIsBuried
<1>1. Init => DeadIsBuried
  BY DEF Init, DeadIsBuried
<1>2. IInv /\ DeadIsBuried /\ [Next]_vars => DeadIsBuried'
  BY DeadIsBuriedNext
<1>. QED  BY <1>1, <1>2, OutboxInvariant, PTL DEF Spec

-----------------------------------------------------------------------------
(* Jobs published after the commit they announce.                          *)

\* Without failures a busy slot holds its job, an active job has its slot, and
\* a slot that is done with its job, or a finished job, leaves a settled row.
JobsHeld ==
  /\ \A n \in Node : pc[n] # "idle" => job[ev[n]] = "active" /\ lock[ev[n]] = n
  /\ \A e \in Event : job[e] = "active" => \E n \in Node : Holds(n, e)
  /\ \A n \in Node : pc[n] \in {"bury", "finish"} => row[ev[n]] \notin Stuck
  /\ \A e \in Event : job[e] \in {"completed", "failed"} => row[e] \notin Stuck

NoFailures == Faults \subseteq {"handler"}

\* Some slot is at work on the event of a row that is not settled.
LEMMA OneBusySlot ==
  ASSUME JobsHeld, NEW n \in Node, NEW m \in Node, pc[n] # "idle", pc[m] # "idle",
         ev[n] = ev[m]
  PROVE  n = m
BY DEF JobsHeld

\* A producer, or the poller, touches no job but to add one.
LEMMA JobsHeldProduce ==
  ASSUME IInv, JobsHeld, NoEarlyJob,
         \/ \E e \in Event : Produce(e)
         \/ \E n \in Node : Poll(n)
  PROVE  JobsHeld'
<1>t. /\ row \in [Event -> RowState] /\ job \in [Event -> JobState]
      /\ pc \in [Node -> PC] /\ ev \in [Node -> Event \cup {NoEvent}]
      /\ \A n \in Node : ev[n] = NoEvent <=> pc[n] = "idle"
  BY DEF IInv, TypeOK
<1>1. ASSUME NEW e \in Event, Enqueue(e) \/ Abort(e)
      PROVE  JobsHeld'
  BY <1>1 DEF Enqueue, Abort, dbVars, queueVars, slotVars, failVars, JobsHeld, Holds
<1>2. ASSUME NEW e \in Event, Commit(e)
      PROVE  JobsHeld'
  <2>1. job[e] = "none" /\ \A d \in Event \ {e} : row'[d] = row[d]
    BY <1>t, <1>2 DEF Commit, NoEarlyJob
  <2>2. \A n \in Node : pc[n] # "idle" => ev[n] \in Event \ {e}
    BY <1>t, <2>1 DEF JobsHeld
  <2>. QED  BY <1>2, <2>1, <2>2 DEF Commit, queueVars, slotVars, failVars,
      JobsHeld, Holds
<1>3. ASSUME NEW e \in Event, AddJob(e), UNCHANGED <<row, slotVars>>
      PROVE  JobsHeld'
  <2>1. \A d \in Event : job'[d] = job[d] \/ (job[d] = "none" /\ job'[d] = "waiting")
    BY <1>t, <1>3 DEF AddJob
  <2>2. \A n \in Node : pc[n] # "idle" => ev[n] \in Event
    BY <1>t
  <2>. QED  BY <1>3, <2>1, <2>2 DEF AddJob, slotVars, failVars, JobsHeld, Holds
<1>4. CASE UNCHANGED <<row, queueVars, slotVars>>
  BY <1>4 DEF queueVars, slotVars, failVars, JobsHeld, Holds
<1>. QED  BY <1>1, <1>2, <1>3, <1>4
          DEF Produce, PublishJob, Poll, PollRead, PollAdd, dbVars, failVars

\* The queue's own steps: without failures no lock expires.
LEMMA JobsHeldQueue ==
  ASSUME NoFailures, IInv, JobsHeld, NEW e \in Event,
         Promote(e) \/ Stall(e) \/ Evict(e)
  PROVE  JobsHeld'
<1>t. /\ job \in [Event -> JobState] /\ ev \in [Node -> Event \cup {NoEvent}]
      /\ \A n \in Node : ev[n] = NoEvent <=> pc[n] = "idle"
  BY DEF IInv, TypeOK
<1>1. ~Stall(e)
  BY DEF Stall, Fault, JobsHeld, NoFailures
<1>2. /\ job[e] # "active" /\ job'[e] \in {"waiting", "none"}
      /\ \A d \in Event \ {e} : job'[d] = job[d]
      /\ UNCHANGED <<row, lock, slotVars>>
  BY <1>t, <1>1 DEF Promote, Evict, dbVars, failVars
<1>3. \A n \in Node : pc[n] # "idle" => ev[n] \in Event \ {e}
  BY <1>t, <1>2 DEF JobsHeld
<1>. QED  BY <1>2, <1>3 DEF slotVars, failVars, JobsHeld, Holds

\* A free slot takes a waiting job.
LEMMA JobsHeldTake ==
  ASSUME IInv, JobsHeld, NEW n \in Node, NEW e \in Event, TakeJob(n, e)
  PROVE  JobsHeld'
<1>t. /\ job \in [Event -> JobState] /\ ev \in [Node -> Event \cup {NoEvent}]
      /\ lock \in [Event -> Node \cup {NoNode}] /\ pc \in [Node -> PC]
      /\ \A m \in Node : ev[m] = NoEvent <=> pc[m] = "idle"
  BY DEF IInv, TypeOK
<1>1. /\ job[e] = "waiting" /\ job'[e] = "active" /\ lock'[e] = n
      /\ pc[n] = "idle" /\ pc'[n] = "claim" /\ ev'[n] = e /\ UNCHANGED row
      /\ \A d \in Event \ {e} : job'[d] = job[d] /\ lock'[d] = lock[d]
      /\ \A m \in Node \ {n} : pc'[m] = pc[m] /\ ev'[m] = ev[m]
  BY <1>t DEF TakeJob, dbVars, failVars
<1>2. \A m \in Node \ {n} : pc[m] # "idle" => ev[m] \in Event \ {e}
  BY <1>t, <1>1 DEF JobsHeld
<1>3. \A d \in Event \ {e} : \A m \in Node : Holds(m, d) => m # n
  BY <1>t, <1>1 DEF Holds, NoEvent, Event
<1>4. \A d \in Event \ {e} : \A m \in Node : Holds(m, d) => Holds(m, d)'
  BY <1>1, <1>3 DEF Holds
<1>5. Holds(n, e)'
  BY <1>1 DEF Holds
<1>. QED  BY <1>1, <1>2, <1>4, <1>5 DEF JobsHeld

\* A step inside process(): the slot keeps its job, and gives a row back to
\* the queue only where its job will be delayed.
LEMMA JobsHeldProcess ==
  ASSUME NoFailures, IInv, ClaimHasOwner, JobsHeld, NEW n \in Node, Process(n)
  PROVE  JobsHeld'
<1>. DEFINE e == ev[n]
<1>t. /\ job \in [Event -> JobState] /\ ev \in [Node -> Event \cup {NoEvent}]
      /\ lock \in [Event -> Node \cup {NoNode}] /\ pc \in [Node -> PC]
      /\ row \in [Event -> RowState]
      /\ \A m \in Node : ev[m] = NoEvent <=> pc[m] = "idle"
  BY DEF IInv, TypeOK
<1>0. pc[n] # "idle"
  BY DEF Process, MarkProcessing, Load, ClaimThrows, Dispatch, Notify,
      MarkCompleted,
         MarkDead, MarkFailed, SettleThrows, Bury, MoveToDelayed, Finish, Claimed
<1>1. e \in Event /\ job[e] = "active" /\ lock[e] = n
  BY <1>t, <1>0 DEF JobsHeld
<1>2. \A m \in Node \ {n} : pc[m] # "idle" => ev[m] \in Event \ {e}
  BY <1>t, <1>0, OneBusySlot
<1>3. ~ClaimThrows(n) /\ ~SettleThrows(n) /\ ~(pc[n] = "delay" /\ Fault("queue"))
  BY DEF ClaimThrows, SettleThrows, Fault, NoFailures
<1>. HIDE DEF e
<1>4. ASSUME UNCHANGED <<job, lock, ev>>, pc'[n] # "idle",
             \A m \in Node \ {n} : pc'[m] = pc[m],
             \A d \in Event \ {e} : row'[d] = row[d],
             pc'[n] \in {"bury", "finish"} => row'[e] \notin Stuck
      PROVE  JobsHeld'
  <2>1. \A m \in Node \ {n} : pc'[m] # "idle" => row'[ev'[m]] = row[ev[m]]
    BY <1>2, <1>4
  <2>2. \A d \in Event : job[d] # "active" => row'[d] = row[d]
    BY <1>1, <1>4
  <2>3. ev'[n] = e
    BY <1>4 DEF e
  <2>4. \A m \in Node : pc'[m] # "idle" => job'[ev'[m]] = "active" /\ lock'[ev'[m]] = m
    BY <1>0, <1>4 DEF JobsHeld
  <2>5. \A d \in Event : job'[d] = "active" => \E m \in Node : Holds(m, d)'
    BY <1>4 DEF JobsHeld, Holds
  <2>6. \A m \in Node : pc'[m] \in {"bury", "finish"} => row'[ev'[m]] \notin Stuck
    BY <1>4, <2>1, <2>3 DEF JobsHeld
  <2>7. \A d \in Event : job'[d] \in {"completed", "failed"} => row'[d] \notin Stuck
    BY <1>4, <2>2 DEF JobsHeld
  <2>. QED  BY <2>4, <2>5, <2>6, <2>7 DEF JobsHeld
<1>5. ASSUME NEW where, LeaveJob(n, where), UNCHANGED row, where # "active",
             where \in {"completed", "failed"} => row[e] \notin Stuck
      PROVE  JobsHeld'
  <2>1. /\ job' = [job EXCEPT ![e] = where] /\ lock' = [lock EXCEPT ![e] = NoNode]
        /\ pc' = [pc EXCEPT ![n] = "idle"] /\ ev' = [ev EXCEPT ![n] = NoEvent]
    BY <1>1, <1>5 DEF LeaveJob, FreeSlot, e
  <2>2. /\ job'[e] = where /\ pc'[n] = "idle"
        /\ \A d \in Event \ {e} : job'[d] = job[d] /\ lock'[d] = lock[d]
        /\ \A m \in Node \ {n} : pc'[m] = pc[m] /\ ev'[m] = ev[m]
    BY <1>t, <1>1, <2>1
  <2>3. \A m \in Node : pc'[m] # "idle" => m # n /\ ev'[m] = ev[m] /\ ev[m] \in Event \ {e}
    BY <1>2, <2>2
  <2>4. \A d \in Event \ {e}, m \in Node : Holds(m, d) => Holds(m, d)'
    <3>1. \A d \in Event \ {e}, m \in Node : ev[m] = d => m # n
      BY DEF e
    <3>. QED  BY <2>2, <3>1 DEF Holds
  <2>5. \A m \in Node : pc'[m] # "idle" => job'[ev'[m]] = "active" /\ lock'[ev'[m]] = m
    BY <2>2, <2>3 DEF JobsHeld
  <2>6. \A d \in Event : job'[d] = "active" => \E m \in Node : Holds(m, d)'
    BY <1>5, <2>2, <2>4 DEF JobsHeld
  <2>7. \A m \in Node : pc'[m] \in {"bury", "finish"} => row'[ev'[m]] \notin Stuck
    BY <1>5, <2>2, <2>3 DEF JobsHeld
  <2>8. \A d \in Event : job'[d] \in {"completed", "failed"} => row'[d] \notin Stuck
    BY <1>5, <2>2 DEF JobsHeld
  <2>. QED  BY <2>5, <2>6, <2>7, <2>8 DEF JobsHeld
<1>6. CASE MarkProcessing(n)
  <2>1. /\ UNCHANGED <<job, lock, ev>> /\ pc'[n] \in {"load", "finish"}
        /\ \A m \in Node \ {n} : pc'[m] = pc[m]
        /\ \A d \in Event \ {e} : row'[d] = row[d]
    BY <1>t, <1>6 DEF MarkProcessing, Goto, queueVars, failVars, e
  <2>2. pc'[n] = "finish" => row'[e] = row[e] /\ row[e] \notin Stuck
    BY <1>t, <1>6 DEF MarkProcessing, Goto, CanClaim, e
  <2>. QED  BY <1>4, <2>1, <2>2
<1>7. CASE Load(n)
  <2>1. /\ UNCHANGED <<job, lock, ev, row>> /\ pc'[n] \in {"dispatch", "finish"}
        /\ \A m \in Node \ {n} : pc'[m] = pc[m]
        /\ pc'[n] = "finish" => row[e] \notin Stuck
    BY <1>t, <1>7 DEF Load, queueVars, dbVars, failVars, Stuck, e
  <2>. QED  BY <1>4, <2>1
<1>8. CASE Dispatch(n) \/ Notify(n)
  <2>1. /\ UNCHANGED <<job, lock, ev, row>> /\ pc'[n] \in {"notify", "complete", "settle"}
        /\ \A m \in Node \ {n} : pc'[m] = pc[m]
    BY <1>t, <1>8 DEF Dispatch, Notify, Goto, AfterHandlerError, queueVars, failVars
  <2>. QED  BY <1>4, <2>1
<1>9. CASE MarkCompleted(n) \/ MarkDead(n) \/ MarkFailed(n)
  <2>1. /\ UNCHANGED <<job, lock, ev>>
        /\ \A m \in Node \ {n} : pc'[m] = pc[m]
        /\ \A d \in Event \ {e} : row'[d] = row[d]
    BY <1>t, <1>9 DEF MarkCompleted, MarkDead, MarkFailed, Goto, queueVars,
        failVars, e
  <2>2. \/ pc'[n] \in {"finish", "bury"} /\ row'[e] \in {"COMPLETED", "DEAD"}
        \/ pc'[n] = "delay"
    BY <1>t, <1>1, <1>9
       DEF MarkCompleted, MarkDead, MarkFailed, Goto, AfterDead, Fault,
       NoFailures, e
  <2>3. {"COMPLETED", "DEAD"} \cap Stuck = {}
    BY DEF Stuck
  <2>. QED  BY <1>4, <2>1, <2>2, <2>3
<1>10. CASE Bury(n)
  <2>1. /\ UNCHANGED <<job, lock, ev, row>> /\ pc[n] = "bury" /\ pc'[n] = "finish"
        /\ \A m \in Node \ {n} : pc'[m] = pc[m]
    BY <1>t, <1>10 DEF Bury, Goto, dbVars, failVars
  <2>2. row[e] \notin Stuck
    BY <2>1 DEF JobsHeld, e
  <2>. QED  BY <1>4, <2>1, <2>2
<1>11. CASE MoveToDelayed(n)
  <2>1. LeaveJob(n, "delayed") /\ UNCHANGED row
    BY <1>3, <1>11 DEF MoveToDelayed, RetrySet, dbVars, failVars
  <2>. QED  BY <1>5, <2>1
<1>12. CASE Finish(n)
  <2>1. LeaveJob(n, "completed") /\ UNCHANGED row /\ row[e] \notin Stuck
    BY <1>12 DEF Finish, JobsHeld, dbVars, failVars, e
  <2>. QED  BY <1>5, <2>1
<1>. QED  BY <1>3, <1>6, <1>7, <1>8, <1>9, <1>10, <1>11, <1>12 DEF Process

LEMMA JobsHeldNext ==
  ASSUME NoFailures, IInv, ClaimHasOwner, NoEarlyJob, JobsHeld, [Next]_vars
  PROVE  JobsHeld'
<1>1. ASSUME NEW n \in Node PROVE ~Crash(n)
  BY DEF Crash, Fault, NoFailures
<1>2. CASE RunCleanup
  <2>1. /\ \A e \in Event : row'[e] \in {row[e], "PURGED"}
        /\ UNCHANGED <<job, lock, slotVars>>
    BY <1>2 DEF RunCleanup, Purge, queueVars, failVars, IInv, TypeOK
  <2>2. \A n \in Node : pc[n] # "idle" => ev[n] \in Event
    BY DEF IInv, TypeOK
  <2>3. "PURGED" \notin Stuck
    BY DEF Stuck
  <2>. QED  BY <2>1, <2>2, <2>3 DEF slotVars, failVars, JobsHeld, Holds
<1>3. CASE UNCHANGED vars
  BY <1>3 DEF vars, dbVars, queueVars, slotVars, failVars, JobsHeld, Holds
<1>. QED  BY <1>1, <1>2, <1>3, JobsHeldProduce, JobsHeldQueue, JobsHeldTake,
             JobsHeldProcess DEF Next

\* With jobs published after the commit, and only handlers failing, every
\* event that waits or is worked on is within the poller's or the queue's reach.
THEOREM OutboxNothingStranded ==
  ASSUME NoFailures
  PROVE  Spec /\ []NoEarlyJob => []NothingStranded
<1>1. Init => JobsHeld
  BY DEF Init, JobsHeld
<1>2. IInv /\ ClaimHasOwner /\ NoEarlyJob /\ JobsHeld /\ [Next]_vars => JobsHeld'
  BY JobsHeldNext
<1>3. Faults \cap {"crash", "database"} = {}
  BY DEF NoFailures
<1>4. Spec => []ClaimHasOwner
  BY <1>3, OutboxClaimHasOwner
<1>5. IInv /\ ClaimHasOwner /\ JobsHeld => NothingStranded
  <2>. SUFFICES ASSUME JobsHeld, ClaimHasOwner, NEW e \in Event,
                       job[e] \in {"completed", "failed"}
                PROVE  row[e] \notin Stuck \cup {"PROCESSING"}
    BY DEF NothingStranded
  <2>1. ASSUME NEW n \in Node PROVE ~Owns(n, e)
    BY DEF Owns, Claimed, JobsHeld
  <2>. QED  BY <2>1 DEF JobsHeld, ClaimHasOwner
<1>. QED  BY <1>1, <1>2, <1>4, <1>5, OutboxInvariant, PTL DEF Spec

-----------------------------------------------------------------------------
(* The outbox implements its contract.                                     *)

stage == [e \in Event |-> StageOf(row[e])]

LEMMA StageOfCases ==
  /\ StageOf("ABSENT") = "absent"
  /\ StageOf("PENDING") = "queued"
  /\ StageOf("PROCESSING") = "queued"
  /\ StageOf("FAILED") = "queued"
  /\ StageOf("COMPLETED") = "done"
  /\ StageOf("DEAD") = "dead"
  /\ StageOf("PURGED") = "purged"
  BY DEF StageOf

\* Writing a status writes its stage.
LEMMA StageUpdate ==
  ASSUME NEW e \in Event, NEW s, row \in [Event -> RowState],
         row' = [row EXCEPT ![e] = s]
  PROVE  stage' = [stage EXCEPT ![e] = StageOf(s)]
  BY DEF stage

\* ... and changes nothing when the stage is the same.
LEMMA StageStutter ==
  ASSUME NEW e \in Event, NEW s, row \in [Event -> RowState],
         row' = [row EXCEPT ![e] = s], StageOf(s) = StageOf(row[e])
  PROVE  stage' = stage
  BY DEF stage

LEMMA InitContract == Init => Contract!Init
  BY StageOfCases DEF Init, Contract!Init

\* The commit of a producer submits its event.
LEMMA CommitContract ==
  ASSUME IInv, NEW e \in Event, Commit(e)
  PROVE  Contract!Submit(e)
<1>1. row \in [Event -> RowState] /\ row[e] = "ABSENT"
  BY BeforeCommit DEF Commit, IInv, TypeOK
<1>2. stage[e] = "absent"
  BY <1>1, StageOfCases DEF stage
<1>3. stage' = [stage EXCEPT ![e] = StageOf(CommittedStatus)]
  BY <1>1, StageUpdate DEF Commit
<1>4. StageOf(CommittedStatus) = IF SyncDev THEN "done" ELSE "queued"
  BY StageOfCases DEF CommittedStatus
<1>. QED
  BY <1>2, <1>3, <1>4 DEF Commit, Contract!Submit, stage

\* A worker step projects, completes or gives up its own event, or is a retry
\* the contract does not see.
LEMMA ProcessContract ==
  ASSUME IInv, NEW n \in Node, Process(n)
  PROVE  \/ \E e \in Event : \/ Contract!Project(e)
                             \/ Contract!Complete(e)
                             \/ Contract!GiveUp(e)
         \/ UNCHANGED Contract!vars
<1>. USE DEF dbVars, queueVars, slotVars
<1>t. row \in [Event -> RowState]
  BY DEF IInv, TypeOK
<1>o. ASSUME pc[n] \in Claimed
      PROVE  /\ ev[n] \in Event
             /\ row[ev[n]] = "PROCESSING"
             /\ stage[ev[n]] = "queued"
  BY <1>o, <1>t, OwnerFacts, StageOfCases DEF stage
<1>1. CASE MarkProcessing(n)
  <2>1. ev[n] \in Event
    BY <1>1 DEF MarkProcessing, IInv, TypeOK, NoEvent
  <2>2. CASE CanClaim(ev[n]) /\ row' = [row EXCEPT ![ev[n]] = "PROCESSING"]
    <3>1. StageOf("PROCESSING") = StageOf(row[ev[n]])
      BY <2>2, StageOfCases DEF CanClaim, Stuck
    <3>2. stage' = stage
      BY <1>t, <2>1, <2>2, <3>1, StageStutter
    <3>. QED
      BY <1>1, <3>2 DEF MarkProcessing, Contract!vars, stage
  <2>. QED
    BY <1>1, <2>2 DEF MarkProcessing, Contract!vars, stage
<1>2. CASE Dispatch(n)
  <2>1. activity[ev[n]] < attempts[ev[n]] /\ attempts[ev[n]] <= MaxAttempts
    BY <1>2, OwnerFacts DEF Dispatch, Claimed, IInv, SlotKnows
  <2>2. activity[ev[n]] < MaxAttempts
    BY <1>2, <1>o, <2>1, ConstantsAssumption DEF Dispatch, Claimed, IInv, TypeOK
  <2>3. stage' = stage
    BY <1>2 DEF Dispatch, stage
  <2>. QED
    BY <1>2, <1>o, <2>2, <2>3
    DEF Dispatch, Claimed, Contract!Project, Contract!vars, stage
<1>3. CASE MarkCompleted(n)
  <2>1. activity[ev[n]] > 0
    BY <1>3 DEF MarkCompleted, IInv, SlotKnows
  <2>2. CASE row' = [row EXCEPT ![ev[n]] = "COMPLETED"]
    <3>1. stage' = [stage EXCEPT ![ev[n]] = "done"]
      <4>1. ev[n] \in Event
        BY <1>3, <1>o DEF MarkCompleted, Claimed
      <4>2. stage' = [stage EXCEPT ![ev[n]] = StageOf("COMPLETED")]
        BY <4>1, <1>t, <2>2, StageUpdate
      <4>. QED
        BY <4>2, StageOfCases
    <3>. QED
      BY <1>3, <1>o, <2>1, <3>1
      DEF MarkCompleted, Claimed, Contract!Complete, stage
  <2>. QED
    BY <1>3, <2>2 DEF MarkCompleted, Contract!vars, stage
<1>4. CASE MarkDead(n)
  <2>1. stage' = [stage EXCEPT ![ev[n]] = "dead"]
    <3>1. ev[n] \in Event
      BY <1>4, <1>o DEF MarkDead, Claimed
    <3>2. stage' = [stage EXCEPT ![ev[n]] = StageOf("DEAD")]
      BY <3>1, <1>4, <1>t, StageUpdate DEF MarkDead
    <3>. QED
      BY <3>2, StageOfCases
  <2>. QED
    BY <1>4, <1>o, <2>1 DEF MarkDead, Claimed, Contract!GiveUp, stage
<1>5. CASE MarkFailed(n)
  <2>1. stage' = stage
    BY <1>5, <1>t, <1>o, StageStutter, StageOfCases DEF MarkFailed, Claimed
  <2>. QED
    BY <1>5, <2>1 DEF MarkFailed, Contract!vars, stage
<1>6. CASE \/ Load(n) \/ ClaimThrows(n) \/ Notify(n) \/ SettleThrows(n)
           \/ Bury(n) \/ MoveToDelayed(n) \/ Finish(n)
  BY <1>6 DEF Load, ClaimThrows, Notify, SettleThrows, Bury, MoveToDelayed,
              Finish, Contract!vars
<1>. QED
  BY <1>1, <1>2, <1>3, <1>4, <1>5, <1>6 DEF Process

\* A DELETE of the cleanup purges settled events.
LEMMA CleanupContract ==
  ASSUME IInv, RunCleanup
  PROVE  \E S \in SUBSET Event : Contract!Purge(S)
<1>1. PICK S \in SUBSET Event :
        /\ \A e \in S : row[e] \in {"COMPLETED", "DEAD"}
        /\ row' = [e \in Event |-> IF e \in S THEN "PURGED" ELSE row[e]]
  BY DEF RunCleanup, Purge
<1>2. \A e \in S : stage[e] \in {"done", "dead"}
  BY <1>1, StageOfCases DEF stage
<1>3. stage' = [e \in Event |-> IF e \in S THEN "purged" ELSE stage[e]]
  BY <1>1, StageOfCases DEF stage
<1>4. activity' = activity
  BY DEF RunCleanup, Purge
<1>. QED
  BY <1>2, <1>3, <1>4 DEF Contract!Purge, stage

LEMMA NextContract ==
  ASSUME IInv, [Next]_vars
  PROVE  [Contract!Next]_(Contract!vars)
<1>. USE DEF dbVars, queueVars, slotVars
<1>1. ASSUME NEW e \in Event, Produce(e) \/ Promote(e) \/ Stall(e) \/ Evict(e)
      PROVE  Contract!Next \/ UNCHANGED Contract!vars
  <2>1. CASE Commit(e)
    BY <2>1, CommitContract DEF Contract!Next
  <2>2. CASE Enqueue(e) \/ Abort(e) \/ PublishJob(e) \/ Promote(e) \/ Stall(e)
             \/ Evict(e)
    BY <2>2 DEF Enqueue, Abort, PublishJob, Promote, Stall, Evict, Contract!vars
  <2>. QED
    BY <1>1, <2>1, <2>2 DEF Produce
<1>2. ASSUME NEW n \in Node, Process(n)
      PROVE  Contract!Next \/ UNCHANGED Contract!vars
  BY <1>2, ProcessContract DEF Contract!Next
<1>3. ASSUME NEW n \in Node, Poll(n) \/ Crash(n) \/ \E e \in Event : TakeJob(n, e)
      PROVE  UNCHANGED Contract!vars
  BY <1>3 DEF Poll, PollRead, PollAdd, Crash, TakeJob, Contract!vars
<1>4. CASE RunCleanup
  BY <1>4, CleanupContract DEF Contract!Next
<1>5. CASE UNCHANGED vars
  BY <1>5 DEF vars, Contract!vars
<1>. QED
  BY <1>1, <1>2, <1>3, <1>4, <1>5 DEF Next

\* Every behaviour of producers, workers, queue, poller, cleanup and failures
\* is a behaviour of the contract.
THEOREM OutboxImplementsContract == Spec => ImplementsContract
<1>1. IInv /\ [Next]_vars => [Contract!Next]_(Contract!vars)
  BY NextContract
<1>. QED
  BY <1>1, InitContract, OutboxInvariant, PTL
  DEF Spec, ImplementsContract, Contract!Spec
=============================================================================
