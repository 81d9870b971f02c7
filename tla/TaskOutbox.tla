------------------------------ MODULE TaskOutbox ------------------------------
(***************************************************************************)
(* The transactional outbox of the task module: producers insert a row in  *)
(* their own database transaction, a BullMQ job carrying the row's id is a *)
(* hint for the worker, the worker claims the row, projects it into        *)
(* work_item_activities and settles it, a poller re-publishes rows whose   *)
(* job was lost and a weekly job deletes settled rows.                     *)
(*                                                                         *)
(* A node is one process of the API.  It serves requests, runs one worker  *)
(* slot (TASK_OUTBOX_CONCURRENCY = 1; more slots are more nodes) and one   *)
(* poller.  PostgreSQL and Redis outlive it.  One action is the code       *)
(* between two awaits.                                                     *)
(***************************************************************************)
EXTENDS Naturals, FiniteSets

CONSTANTS
    Node,           \* API processes
    NoNode,         \* nobody holds the lock of a job
    NumEvents,      \* rows are numbered in the order of created_at
    Producer,       \* the node whose request enqueues each event
    MaxAttempts,    \* TASK_OUTBOX_RETRY.MAX_ATTEMPTS
    BatchSize,      \* POLL_BATCH_SIZE
    MaxStalled,     \* maxStalledCount of the BullMQ worker
    PollerEnabled,  \* TASKS_OUTBOX_POLLER_ENABLED
    SyncDev,        \* TASKS_OUTBOX_SYNC_DEV
    Faults,         \* the kinds of failure a run considers
    MaxFaults       \* bound: how many of them happen in a behaviour

Event == 1..NumEvents
NoEvent == 0

Kinds == {"ACTIVITY_ONLY", "NOTIFYING", "STATUS_CHANGED"}
FaultKinds == {"crash", "database", "queue", "lock", "handler"}

ASSUME ConstantsAssumption ==
    /\ NoNode \notin Node
    /\ NumEvents \in Nat
    /\ Producer \in [Event -> Node]
    /\ MaxAttempts \in Nat \ {0}
    /\ BatchSize \in Nat \ {0}
    /\ MaxStalled \in Nat
    /\ PollerEnabled \in BOOLEAN
    /\ SyncDev \in BOOLEAN
    /\ Faults \subseteq FaultKinds
    /\ MaxFaults \in Nat

VARIABLES
    kind,       \* the handler each event is dispatched to: its request's choice
    txn,        \* the producer's database transaction
    hint,       \* publishJob microtasks scheduled and not yet resolved
    row,        \* task_outbox_events.status of the committed row
    attempts,   \* task_outbox_events.attempts
    activity,   \* rows of work_item_activities projected from the event
    notice,     \* rounds of notifications sent for the event
    job,        \* state of the BullMQ job whose jobId is the event's id
    lock,       \* the node holding the lock of an active job
    stalls,     \* stalled counter of the job
    dlq,        \* events added to task-outbox-dlq
    pc,         \* where each node's worker slot is in process()
    ev,         \* the event of the slot's job
    att,        \* row.attempts as the slot read it
    batch,      \* rows the node's poller has read and not yet re-published
    faults,     \* failures so far
    failed      \* and their kinds

dbVars == <<row, attempts, activity, notice>>
queueVars == <<job, lock, stalls, dlq>>
slotVars == <<pc, ev, att>>
failVars == <<faults, failed>>
vars == <<kind, txn, hint, dbVars, queueVars, slotVars, batch, failVars>>

TxnState == {"none", "open", "committed", "aborted"}
RowState == {"ABSENT", "PENDING", "PROCESSING", "FAILED", "COMPLETED", "DEAD",
             "PURGED"}
JobState == {"none", "waiting", "active", "delayed", "completed", "failed"}
Stuck == {"PENDING", "FAILED"}

\* Between the claim and the write that gives the row up.
Claimed == {"load", "dispatch", "notify", "complete", "settle"}
PC == Claimed \cup {"idle", "claim", "bury", "delay", "finish"}

Init ==
    /\ kind \in [Event -> Kinds]
    /\ txn = [e \in Event |-> "none"]
    /\ hint = {}
    /\ row = [e \in Event |-> "ABSENT"]
    /\ attempts = [e \in Event |-> 0]
    /\ activity = [e \in Event |-> 0]
    /\ notice = [e \in Event |-> 0]
    /\ job = [e \in Event |-> "none"]
    /\ lock = [e \in Event |-> NoNode]
    /\ stalls = [e \in Event |-> 0]
    /\ dlq = {}
    /\ pc = [n \in Node |-> "idle"]
    /\ ev = [n \in Node |-> NoEvent]
    /\ att = [n \in Node |-> 0]
    /\ batch = [n \in Node |-> {}]
    /\ faults = 0
    /\ failed = {}

\* A failure of kind f strikes; only enabled while the bound allows it.
Fault(f) ==
    /\ f \in Faults
    /\ faults < MaxFaults
    /\ faults' = faults + 1
    /\ failed' = failed \cup {f}

-----------------------------------------------------------------------------
(* The job queue.  Job ids are event ids, and BullMQ ignores an add whose  *)
(* id it still knows, in whatever set the job is.                          *)

AddJob(e) ==
    /\ job' = [job EXCEPT ![e] = IF @ = "none" THEN "waiting" ELSE @]
    /\ stalls' = [stalls EXCEPT ![e] = IF job[e] = "none" THEN 0 ELSE @]
    /\ UNCHANGED <<lock, dlq>>

\* The slot of node n is empty again.
FreeSlot(n) ==
    /\ pc' = [pc EXCEPT ![n] = "idle"]
    /\ ev' = [ev EXCEPT ![n] = NoEvent]
    /\ att' = [att EXCEPT ![n] = 0]

\* process() ended on node n: the job moves to where, if n still owns it.
LeaveJob(n, where) ==
    LET e == ev[n] IN
    /\ IF lock[e] = n
       THEN /\ job' = [job EXCEPT ![e] = where]
            /\ lock' = [lock EXCEPT ![e] = NoNode]
       ELSE UNCHANGED <<job, lock>>
    /\ FreeSlot(n)
    /\ UNCHANGED <<stalls, dlq>>

\* process() threw: the job has no attempts option, so it is failed for good.
FailJob(n) == LeaveJob(n, "failed")

Goto(n, where) ==
    /\ pc' = [pc EXCEPT ![n] = where]
    /\ UNCHANGED <<ev, att>>

-----------------------------------------------------------------------------
(* Producers.                                                              *)

\* Mutant of Enqueue: the insert does not use the caller's transaction.
EnqueueOutsideTxn(e) ==
    /\ txn[e] = "none"
    /\ \A d \in Event : d < e => txn[d] # "none"
    /\ txn' = [txn EXCEPT ![e] = "open"]
    /\ hint' = IF SyncDev THEN hint ELSE hint \cup {e}
    /\ row' = [row EXCEPT ![e] = "PENDING"]
    /\ UNCHANGED <<kind, attempts, activity, notice, queueVars, slotVars, batch,
                   failVars>>

\* enqueue: the insert is invisible until the transaction commits, but the
\* microtask that publishes the job is already scheduled.
Enqueue(e) ==
    /\ txn[e] = "none"
    /\ \A d \in Event : d < e => txn[d] # "none"
    /\ txn' = [txn EXCEPT ![e] = "open"]
    /\ hint' = IF SyncDev THEN hint ELSE hint \cup {e}
    /\ UNCHANGED <<kind, dbVars, queueVars, slotVars, batch, failVars>>

\* The status the row has when it becomes visible.
CommittedStatus == IF SyncDev THEN "COMPLETED" ELSE "PENDING"

\* The caller's transaction commits.  With the development fallback the row is
\* projected and COMPLETED in the same transaction.
Commit(e) ==
    /\ txn[e] = "open"
    /\ txn' = [txn EXCEPT ![e] = "committed"]
    /\ row' = [row EXCEPT ![e] = CommittedStatus]
    /\ activity' = [activity EXCEPT ![e] = IF SyncDev THEN 1 ELSE 0]
    /\ UNCHANGED <<kind, hint, attempts, notice, queueVars, slotVars, batch,
                   failVars>>

\* A later statement of the caller's transaction fails.
Abort(e) ==
    /\ txn[e] = "open"
    /\ txn' = [txn EXCEPT ![e] = "aborted"]
    /\ UNCHANGED <<kind, hint, dbVars, queueVars, slotVars, batch, failVars>>

\* publishJob: add a job, or log a warning and leave the row to the poller.
PublishJob(e) ==
    /\ e \in hint
    /\ hint' = hint \ {e}
    /\ \/ AddJob(e) /\ UNCHANGED failVars
       \/ Fault("queue") /\ UNCHANGED queueVars
    /\ UNCHANGED <<kind, txn, dbVars, slotVars, batch>>

-----------------------------------------------------------------------------
(* The worker: process(job).                                               *)

TakeJob(n, e) ==
    /\ pc[n] = "idle"
    /\ job[e] = "waiting"
    /\ job' = [job EXCEPT ![e] = "active"]
    /\ lock' = [lock EXCEPT ![e] = n]
    /\ pc' = [pc EXCEPT ![n] = "claim"]
    /\ ev' = [ev EXCEPT ![n] = e]
    /\ UNCHANGED <<kind, txn, hint, dbVars, stalls, dlq, att, batch, failVars>>

\* Mutants of CanClaim: a row left PROCESSING can be taken over; a settled row
\* can be run again.
CanTakeOver(e) == row[e] \in Stuck \cup {"PROCESSING"}
CanReplay(e) == row[e] \in Stuck \cup {"COMPLETED", "DEAD"}

\* The status filter of markProcessing.
CanClaim(e) == row[e] \in Stuck

\* markProcessing: compare-and-set on the status.
MarkProcessing(n) ==
    LET e == ev[n] IN
    /\ pc[n] = "claim"
    /\ \/ /\ CanClaim(e)
          /\ row' = [row EXCEPT ![e] = "PROCESSING"]
          /\ attempts' = [attempts EXCEPT ![e] = @ + 1]
          /\ Goto(n, "load")
       \/ /\ ~CanClaim(e)
          /\ UNCHANGED <<row, attempts>>
          /\ Goto(n, "finish")
    /\ UNCHANGED <<kind, txn, hint, activity, notice, queueVars, batch,
                   failVars>>

\* findById and isAlreadyCompleted, before the try block.
Load(n) ==
    LET e == ev[n] IN
    /\ pc[n] = "load"
    /\ IF row[e] \in {"ABSENT", "PURGED", "COMPLETED"}
       THEN pc' = [pc EXCEPT ![n] = "finish"] /\ UNCHANGED att
       ELSE /\ pc' = [pc EXCEPT ![n] = "dispatch"]
            /\ att' = [att EXCEPT ![n] = attempts[e]]
    /\ UNCHANGED <<kind, txn, hint, dbVars, queueVars, ev, batch, failVars>>

\* A query before the try block throws: nothing gives the row up.
ClaimThrows(n) ==
    /\ pc[n] \in {"claim", "load"}
    /\ Fault("database")
    /\ FailJob(n)
    /\ UNCHANGED <<kind, txn, hint, dbVars, batch>>

\* Mutant of AfterHandlerError: the error is swallowed.
SwallowError == "complete"

\* Where process() continues when the handler throws.
AfterHandlerError == "settle"

\* dispatch: the handler commits one activity row.  The one of STATUS_CHANGED
\* names a column the status history does not have, so Prisma rejects its
\* transaction; the others fail when the database does.
Dispatch(n) ==
    LET e == ev[n] IN
    /\ pc[n] = "dispatch"
    /\ \/ /\ kind[e] # "STATUS_CHANGED"
          /\ activity' = [activity EXCEPT ![e] = @ + 1]
          /\ Goto(n, IF kind[e] = "NOTIFYING" THEN "notify" ELSE "complete")
          /\ UNCHANGED failVars
       \/ /\ kind[e] = "STATUS_CHANGED"
          /\ Goto(n, AfterHandlerError)
          /\ UNCHANGED <<activity, failVars>>
       \/ /\ Fault("handler")
          /\ Goto(n, AfterHandlerError)
          /\ UNCHANGED activity
    /\ UNCHANGED <<kind, txn, hint, row, attempts, notice, queueVars, batch>>

\* Notifications of DEPENDENCY_UNBLOCKED and MERGED_INTO are best effort.
Notify(n) ==
    LET e == ev[n] IN
    /\ pc[n] = "notify"
    /\ \/ notice' = [notice EXCEPT ![e] = @ + 1] /\ UNCHANGED failVars
       \/ Fault("handler") /\ UNCHANGED notice
    /\ Goto(n, "complete")
    /\ UNCHANGED <<kind, txn, hint, row, attempts, activity, queueVars, batch>>

\* markCompleted, an update by id alone; when it throws the catch block runs.
MarkCompleted(n) ==
    LET e == ev[n] IN
    /\ pc[n] = "complete"
    /\ \/ /\ row' = [row EXCEPT ![e] = "COMPLETED"]
          /\ Goto(n, "finish")
          /\ UNCHANGED failVars
       \/ /\ Fault("database")
          /\ Goto(n, "settle")
          /\ UNCHANGED row
    /\ UNCHANGED <<kind, txn, hint, attempts, activity, notice, queueVars,
                   batch>>

\* Mutant of LastAttempt: off by one.
PastLastAttempt(n) == att[n] > MaxAttempts

LastAttempt(n) == att[n] >= MaxAttempts

\* Mutant of AfterDead: the dead-letter queue is never told.
NotBuried == "finish"

AfterDead == "bury"

\* The catch block: the last attempt buries the event, the others retry.
MarkDead(n) ==
    /\ pc[n] = "settle"
    /\ LastAttempt(n)
    /\ row' = [row EXCEPT ![ev[n]] = "DEAD"]
    /\ Goto(n, AfterDead)
    /\ UNCHANGED <<kind, txn, hint, attempts, activity, notice, queueVars,
                   batch, failVars>>

MarkFailed(n) ==
    /\ pc[n] = "settle"
    /\ ~LastAttempt(n)
    /\ row' = [row EXCEPT ![ev[n]] = "FAILED"]
    /\ Goto(n, "delay")
    /\ UNCHANGED <<kind, txn, hint, attempts, activity, notice, queueVars,
                   batch, failVars>>

\* The update of the catch block throws too.
SettleThrows(n) ==
    /\ pc[n] = "settle"
    /\ Fault("database")
    /\ FailJob(n)
    /\ UNCHANGED <<kind, txn, hint, dbVars, batch>>

\* dlq.add; its failure is logged and swallowed.
Bury(n) ==
    /\ pc[n] = "bury"
    /\ \/ dlq' = dlq \cup {ev[n]} /\ UNCHANGED failVars
       \/ Fault("queue") /\ UNCHANGED dlq
    /\ Goto(n, "finish")
    /\ UNCHANGED <<kind, txn, hint, dbVars, job, lock, stalls, batch>>

\* Mutant of RetrySet: the error is rethrown without moveToDelayed.
NoRetry == "failed"

\* Where the job of a failed attempt ends up.
RetrySet == "delayed"

\* moveToDelayed, then rethrow.  A job that was moved has no lock left and
\* stays delayed; one that could not be moved is failed.
MoveToDelayed(n) ==
    /\ pc[n] = "delay"
    /\ \/ LeaveJob(n, RetrySet) /\ UNCHANGED failVars
       \/ Fault("queue") /\ FailJob(n)
    /\ UNCHANGED <<kind, txn, hint, dbVars, batch>>

\* process() returned.
Finish(n) ==
    /\ pc[n] = "finish"
    /\ LeaveJob(n, "completed")
    /\ UNCHANGED <<kind, txn, hint, dbVars, batch, failVars>>

-----------------------------------------------------------------------------
(* BullMQ on its own.                                                      *)

Promote(e) ==
    /\ job[e] = "delayed"
    /\ job' = [job EXCEPT ![e] = "waiting"]
    /\ UNCHANGED <<kind, txn, hint, dbVars, lock, stalls, dlq, slotVars, batch,
                   failVars>>

Holds(n, e) == ev[n] = e /\ lock[e] = n

\* The stalled checker finds an active job whose lock has expired: its node
\* died, or is alive and did not renew in time.
Stall(e) ==
    /\ job[e] = "active"
    /\ IF \E n \in Node : Holds(n, e)
       THEN Fault("lock")
       ELSE UNCHANGED failVars
    /\ lock' = [lock EXCEPT ![e] = NoNode]
    /\ IF stalls[e] < MaxStalled
       THEN /\ job' = [job EXCEPT ![e] = "waiting"]
            /\ stalls' = [stalls EXCEPT ![e] = @ + 1]
       ELSE /\ job' = [job EXCEPT ![e] = "failed"]
            /\ UNCHANGED stalls
    /\ UNCHANGED <<kind, txn, hint, dbVars, dlq, slotVars, batch>>

\* removeOnComplete and removeOnFail: a finished job is forgotten once enough
\* others have finished after it.
Evict(e) ==
    /\ job[e] \in {"completed", "failed"}
    /\ job' = [job EXCEPT ![e] = "none"]
    /\ UNCHANGED <<kind, txn, hint, dbVars, lock, stalls, dlq, slotVars, batch,
                   failVars>>

-----------------------------------------------------------------------------
(* Poller, cleanup and crashes.                                            *)

\* The BatchSize oldest members of S.
Oldest(S) == {e \in S : Cardinality({d \in S : d < e}) < BatchSize}

\* drainStuck reads PENDING and FAILED rows older than POLL_MIN_AGE_MS: row k
\* and the rows created before it.
PollRead(n, k) ==
    /\ PollerEnabled
    /\ batch[n] = {}
    /\ batch' = [batch EXCEPT ![n] =
                    Oldest({e \in Event : e <= k /\ row[e] \in Stuck})]
    /\ batch'[n] # {}
    /\ UNCHANGED <<kind, txn, hint, dbVars, queueVars, slotVars, failVars>>

PollAdd(n, e) ==
    /\ e \in batch[n]
    /\ \A d \in batch[n] : e <= d
    /\ batch' = [batch EXCEPT ![n] = @ \ {e}]
    /\ \/ AddJob(e) /\ UNCHANGED failVars
       \/ Fault("queue") /\ UNCHANGED queueVars
    /\ UNCHANGED <<kind, txn, hint, dbVars, slotVars>>

\* One DELETE of runCleanup: the rows S of a settled status past retention.
Purge(status) ==
    /\ \E S \in SUBSET {e \in Event : row[e] = status} :
          /\ S # {}
          /\ row' = [e \in Event |-> IF e \in S THEN "PURGED" ELSE row[e]]
    /\ UNCHANGED <<kind, txn, hint, attempts, activity, notice, queueVars,
                   slotVars, batch, failVars>>

RunCleanup == Purge("COMPLETED") \/ Purge("DEAD")

\* A node dies and restarts: its slot, its microtasks, its poller's batch and
\* its open transactions are gone; rows and jobs stay as they are.
Crash(n) ==
    /\ Fault("crash")
    /\ txn' = [e \in Event |-> IF txn[e] = "open" /\ Producer[e] = n
                               THEN "aborted" ELSE txn[e]]
    /\ hint' = {e \in hint : Producer[e] # n}
    /\ FreeSlot(n)
    /\ batch' = [batch EXCEPT ![n] = {}]
    /\ UNCHANGED <<kind, dbVars, queueVars>>

-----------------------------------------------------------------------------
Produce(e) == Enqueue(e) \/ Commit(e) \/ Abort(e) \/ PublishJob(e)

Process(n) ==
    \/ MarkProcessing(n) \/ Load(n) \/ ClaimThrows(n)
    \/ Dispatch(n) \/ Notify(n) \/ MarkCompleted(n)
    \/ MarkDead(n) \/ MarkFailed(n) \/ SettleThrows(n)
    \/ Bury(n) \/ MoveToDelayed(n) \/ Finish(n)

Poll(n) == \E e \in Event : PollRead(n, e) \/ PollAdd(n, e)

Next ==
    \/ \E e \in Event : Produce(e) \/ Promote(e) \/ Stall(e) \/ Evict(e)
    \/ \E n \in Node : Process(n) \/ Poll(n) \/ Crash(n)
    \/ \E n \in Node, e \in Event : TakeJob(n, e)
    \/ RunCleanup

Spec == Init /\ [][Next]_vars

(* A running node eventually runs each continuation it has scheduled and   *)
(* its interval timer; Redis hands out waiting jobs in order, promotes     *)
(* delayed ones and returns those of dead nodes.  Nothing makes a producer *)
(* enqueue or commit, a job be evicted or the cleanup delete.              *)
Fairness ==
    /\ \A n \in Node : WF_vars(Process(n))
    /\ \A n \in Node : WF_vars(\E e \in Event : PollAdd(n, e))
    /\ \A n \in Node : WF_vars(PollRead(n, NumEvents))
    /\ \A e \in Event : WF_vars(PublishJob(e)) /\ WF_vars(Promote(e))
    /\ \A e \in Event : WF_vars(Stall(e) /\ UNCHANGED failVars)
    /\ \A e \in Event : SF_vars(\E n \in Node : TakeJob(n, e))

FairSpec == Spec /\ Fairness

-----------------------------------------------------------------------------
(* Properties.                                                             *)

TypeOK ==
    /\ kind \in [Event -> Kinds]
    /\ txn \in [Event -> TxnState]
    /\ hint \subseteq Event
    /\ row \in [Event -> RowState]
    /\ attempts \in [Event -> Nat]
    /\ activity \in [Event -> Nat]
    /\ notice \in [Event -> Nat]
    /\ job \in [Event -> JobState]
    /\ lock \in [Event -> Node \cup {NoNode}]
    /\ stalls \in [Event -> Nat]
    /\ dlq \subseteq Event
    /\ pc \in [Node -> PC]
    /\ ev \in [Node -> Event \cup {NoEvent}]
    /\ \A n \in Node : ev[n] = NoEvent <=> pc[n] = "idle"
    /\ att \in [Node -> Nat]
    /\ batch \in [Node -> SUBSET Event]
    /\ faults \in Nat
    /\ failed \subseteq Faults

Owns(n, e) == pc[n] \in Claimed /\ ev[n] = e

\* The updates of the worker name the row by id alone, so two workers inside
\* process() for one event would overwrite each other.  The compare-and-set
\* of markProcessing keeps them apart even when BullMQ hands the job of a slow
\* worker to a second one: a row has at most one owner, and is PROCESSING
\* while it has one.
ExclusiveClaim ==
    \A n \in Node, e \in Event :
        Owns(n, e) => /\ row[e] = "PROCESSING"
                      /\ \A m \in Node : Owns(m, e) => m = n

\* Whatever fails or is delivered twice, an event is projected at most once
\* per attempt and has at most MaxAttempts attempts; a FAILED row has one
\* left, and a row is DEAD only after all of them.
AttemptsBounded ==
    \A e \in Event :
        /\ attempts[e] <= MaxAttempts
        /\ activity[e] <= IF SyncDev THEN 1 ELSE attempts[e]
        /\ notice[e] <= activity[e]
        /\ row[e] = "FAILED" => attempts[e] < MaxAttempts
        /\ row[e] = "DEAD" => attempts[e] = MaxAttempts

\* The job of an event may run before the producer's transaction commits, or
\* after it was rolled back: neither is ever projected or claimed.
OnlyCommittedProjected ==
    \A e \in Event :
        txn[e] # "committed" => /\ activity[e] = 0
                                /\ attempts[e] = 0
                                /\ \A n \in Node : ~Owns(n, e)

\* A settled row stays as it is until the cleanup deletes it: no worker that
\* lost its lock, no stalled job and no re-published one revives it, and it is
\* never projected again.
SettledIsFinal ==
    [][\A e \in Event :
          row[e] \in {"COMPLETED", "DEAD", "PURGED"} =>
              /\ row'[e] \in {row[e], "PURGED"}
              /\ activity'[e] = activity[e]]_vars

\* A repetition has a cause.  Every attempt after an event's first was paid for
\* by a failure (the handler of STATUS_CHANGED fails by itself), and only the
\* failure of a database call makes an event be projected again: crashes,
\* expired locks, lost jobs and re-published ones do not, however they combine.
RepeatsHaveCause ==
    \A e \in Event :
        /\ kind[e] # "STATUS_CHANGED" => attempts[e] <= 1 + faults
        /\ "database" \notin failed => activity[e] <= 1

\* Only a crash or a database failure leaves a claimed row without a slot that
\* will settle it: an expired lock, a lost job or a failing handler does not.
ClaimHasOwner ==
    \A e \in Event : row[e] = "PROCESSING" => \E n \in Node : Owns(n, e)

\* Only a crash or a failure of Redis keeps a DEAD row from the dead-letter
\* queue: it is there, or its slot is about to put it there.
DeadIsBuried ==
    \A e \in Event :
        row[e] = "DEAD" => e \in dlq \/ \E n \in Node : pc[n] = "bury" /\ ev[n] = e

\* Had every job been published after the commit it announces, nothing short of
\* a failure would keep an event from the poller: a job that BullMQ still knows
\* as finished, so that an add under its id is ignored, is never that of a row
\* that waits or is worked on.
NoEarlyJob == \A e \in Event : txn[e] = "open" => job[e] = "none"

NothingStranded ==
    \A e \in Event :
        job[e] \in {"completed", "failed"} => row[e] \notin Stuck \cup {"PROCESSING"}

\* Why the properties above hold: what a slot inside process() knows of its
\* row, what each status says of the attempts made, and that nothing happens to
\* an event before its commit.
SlotKnows ==
    \A n \in Node :
        LET e == ev[n] IN
        /\ pc[n] \in {"dispatch", "notify", "complete", "settle"} =>
               att[n] = attempts[e]
        /\ pc[n] \in {"load", "dispatch"} => activity[e] < attempts[e]
        /\ pc[n] = "notify" => notice[e] < activity[e]
        /\ pc[n] \in {"notify", "complete"} => activity[e] > 0

StatusSays ==
    \A e \in Event :
        /\ row[e] = "ABSENT" <=> txn[e] # "committed"
        /\ row[e] \in {"ABSENT", "PENDING"} => attempts[e] = 0
        /\ row[e] = "ABSENT" => activity[e] = 0
        /\ row[e] = "COMPLETED" => activity[e] > 0
        /\ SyncDev => row[e] \in {"ABSENT", "COMPLETED", "PURGED"}

\* The inductive invariant of the outbox.
IInv ==
    /\ TypeOK
    /\ ExclusiveClaim
    /\ AttemptsBounded
    /\ SlotKnows
    /\ StatusSays

\* The contract of the outbox, with PENDING, PROCESSING and FAILED all queued.
StageOf(status) ==
    CASE status \in {"PENDING", "PROCESSING", "FAILED"} -> "queued"
      [] status = "COMPLETED" -> "done"
      [] status = "DEAD" -> "dead"
      [] status = "PURGED" -> "purged"
      [] OTHER -> "absent"

Contract == INSTANCE OutboxContract
                WITH stage <- [e \in Event |-> StageOf(row[e])]

\* The worker, the poller, the queue and the failures together implement the
\* contract of the outbox.
ImplementsContract == Contract!Spec

\* A claimed event is settled: every failed handler leads to another attempt, up
\* to the last.  Only the death of a process, an expired lock or a PostgreSQL or
\* Redis that does not answer can leave it claimed or waiting for good.
ClaimedSettles ==
    \A e \in Event :
        row[e] = "PROCESSING" ~> \/ row[e] \in {"COMPLETED", "DEAD", "PURGED"}
                                \/ ~(failed \subseteq {"handler"})

\* ... and one that is given up reaches the dead-letter queue, expired locks and
\* database failures or not: only a crash or a Redis that does not answer keeps
\* it from there.
DeadReachesDlq ==
    \A e \in Event :
        row[e] = "DEAD" ~> e \in dlq \/ failed \cap {"crash", "queue"} # {}

\* What the producer is told: a committed event is consumed, by its job or
\* through the poller.
AtLeastOnce ==
    \A e \in Event :
        txn[e] = "committed" ~> row[e] \in {"COMPLETED", "DEAD", "PURGED"}
=============================================================================
