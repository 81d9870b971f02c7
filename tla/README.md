# Mundial ERP: models and proofs

TLA+ models of the API of Mundial ERP (`src/mundial-erp-api`, NestJS on
PostgreSQL through Prisma, BullMQ on Redis), their model checking with TLC and
theorems checked by TLAPS. Source paths below are relative to
`src/mundial-erp-api/src/modules/` unless they start with `src/`.

The API is one Node.js program, of which several processes may run. Inside a
process, code between two `await`s runs alone; everything else interleaves:
two requests, a request and the event listeners of an earlier one, a queue
worker and the poller, two processes. Most handlers follow one shape, *read a
row, decide, write by id*, without a transaction or with one at READ COMMITTED,
and this is where the properties aim.

## 1. Inventory

| Part | State it keeps | Operations | What is hard |
|---|---|---|---|
| **task-outbox** | `task_outbox_events`, BullMQ jobs, dead-letter queue, activities | enqueue in the producer's transaction, publish by microtask, claim, project, settle, poll, purge | publication before commit, lost locks, stalled jobs, process death, job id deduplication |
| **orders** + **bpm status machine** | `orders`, items, history, receivables, production and separation orders | changeStatus, update, remove, registerPayment, supplies; listeners of `order.status.changed` | writes by id after a stale read, listeners nobody awaits, several inserts without a transaction |
| **separation-orders** | order status, two marks per item | create, start, separateItem, checkItem, remove | automatic transitions decided on a re-read, late writes |
| **production-orders** | status, unique code | create, start, complete, cancel, remove | code unique over deleted rows |
| **stock-requisitions** | status, code, items, stock of products | create, approve, complete, cancel, remove | transactions at READ COMMITTED, row locks, deadlock |
| **accounts payable and receivable** | amount, paid amount, status | create, update, registerPayment, remove; receivables are also written by the order's listeners | sum of a stale read, absolute write |
| **purchasing** | quotation status and total, purchase order, its payable | state changes, compare-and-set of the quotation in the creation of an order | a late `select` after the compare-and-set |
| **tasks: merge, links, hierarchy** | `mergedIntoId`, `parentId`, `work_item_links`, results under an idempotency key | merge, change of parent, remove, create and remove a link | cycles made by two transactions, retries after a crash, links that change between the statements of a merge |
| **automations** | automations, a 30 s cache, the execution queue, `nextRunAt` | CRUD with invalidation, event listener, cron tick, execution | a load that stores after an invalidation, retries that repeat actions, a tick that overlaps an edit |
| tasks: move, bulk update, assignees | `work_items` | one transaction per request, with an outbox event | |
| workspaces and members | roles | updateRole, remove | count of owners, then write |
| cash-registers | open register | open, close | check, then create |
| kommo, chat, sync, CRUD modules, web client, deployment | | | see section 7 |

Interactions: task services enqueue outbox events inside their transactions;
the worker writes activities and notifications. `changeStatus` emits an
in-process event; the listeners of Faturar, Faturado (log only), Produzir,
Cancelado and Entregue write the tables of the finance, production and
separation modules directly. The guard of `PRODUZIDO` reads the statuses those
modules write. A purchase order opens an account payable in the transaction that
consumes its quotation. Automations are triggered by in-process task events and
by a cron tick and run in a queue of their own.

What makes each modelled part correct is stated as the properties of section 4.

## 2. Modules

| Module | Models | Theorems |
|---|---|---|
| `TaskOutbox` | producer, microtask, job, worker slot, poller, cleanup, failures | `TaskOutboxProofs` |
| `OutboxContract` | what the outbox promises of one event (abstract specification) | |
| `OrderLifecycle` | one order: status machine, requests, listeners, production order, receivables | `OrderLifecycleProofs` |
| `SeparationOrder` | one separation order and the requests that work on it | `SeparationOrderProofs` |
| `SeparationContract` | what the rest of the system sees of a separation order (abstract specification) | |
| `StockRequisition` | requisitions, their transactions and row locks | `StockRequisitionProofs` |
| `Account` | payables and receivables, and the order's listeners that write the latter | `PurchasingProofs` |
| `Purchasing` | quotations and purchase orders, composed with `Account` | `PurchasingProofs` |
| `TaskMerge` | merges, their retries and what overlaps with them | `TaskMergeProofs` |
| `TaskLinks` | the links of tasks under merges, one statement at a time | `TaskLinksProofs` |
| `Automation` | automations, cache, cron tick, execution queue | `AutomationProofs` |
| `MC*` | instances for TLC: small sets, symmetry | |

Definitions introduced by a "Mutant of" comment are wrong versions of a
definition of the code (`UnconsumedById` for `Unconsumed`, `ONextEarly` for
`ONext`); replacing the definition by its mutant makes TLC refute the property
the mutant belongs to. They take no part in any specification.

A variable commented *history* is not in the code: it remembers what a property
needs of the past and no guard of an action reads it.

### TaskOutbox

A `Node` is an API process; its one worker slot is at `pc[n]`, on event `ev[n]`.
PostgreSQL rows are `row`, `attempts`, `activity`, `notice`; Redis is `job`,
`lock`, `stalls`, `dlq`. Code and action:

| Code | Action |
|---|---|
| `TaskOutboxService.enqueue`, the caller's commit or rollback | `Enqueue`, `Commit`, `Abort` |
| `publishJob` in its microtask, which does not wait for the commit | `PublishJob` |
| BullMQ handing a job to the worker | `TakeJob` |
| `markProcessing` (compare-and-set on the status) | `MarkProcessing` |
| `process` up to the handler, the handler, its notifications | `Load`, `Dispatch`, `Notify` |
| `markCompleted`, `markFailed`, `markDead`, `dlq.add`, `moveToDelayed` | the actions of the same names, `Bury` |
| poller: `findStuckForRepublish`, then one `queue.add` per row | `PollRead`, `PollAdd` |
| weekly cleanup | `RunCleanup` |
| BullMQ: delayed set, stalled check, eviction of finished jobs | `Promote`, `Stall`, `Evict` (external) |

Failures are of five kinds (`Faults`): a process dies, a query is rejected, a
queue command is rejected, a lock expires under a slow worker, a handler throws.
`MaxFaults` bounds how many happen in a behaviour; nothing else is bounded by a
guard. `kind`, the handler of an event, is any and never changes. `failed` is
history: the kinds of failure that have happened. Row ages are abstracted: the poller's threshold splits the rows, ordered
by creation, at any point.

### OrderLifecycle

A slot (`Call`) runs one request and then the listener its event starts; `pc` is
its next statement, `want` what it will write, `from` the status its request
read, `seen` what its listener read. Requests that read and then write are two
actions (`ChangeStatus` then `WriteStatus` then `Record`; `AskEdit` then
`WriteEdit` or `WriteDelete`; `AskProduction` then `WriteProduction` or
`CreateProduction`); each listener is one action per statement. `held` is
history: every status the row ever had. `history` is the timeline: an order made
through the API starts with the row `CreationRow`, from EM_ORCAMENTO to itself,
that of the seed without one. The listeners of Cancelado and Entregue
start with a read whose result only decides whether the order exists; it is
merged with the statement after it. The checks of registerPayment and of the
checklist look only at existence, so that check and write are one action.
`bankReconciled`, `deliveryChecked` and the reason are fields of the request: a
request may always carry them, so they restrict nothing. `SeparationStep` stands
for all of module `SeparationOrder`: it is any step of `SeparationContract`, which
that module is proved to implement. `MaxFailures`
bounds how many handlers end half-way.

### SeparationOrder

`marked["separate"]` and `marked["check"]` are the items' flags. A request is
admitted by `Open` (order read, status checked), then `ReadItem`, `MarkItem`,
`Reread` and `WriteStatus` are the statements that follow. `Fail` drops the rest
of a handler, of the requests in `Failing` only.

### StockRequisition

`filled` (items with an `actualQuantity`) and `taken` (how often an item's
quantity was deducted from its product) are as committed; what an open
transaction has written so far is in `done`, and the rows it holds are its locks
(`HeldItems`, `HeldProducts`). An update of a row another request holds waits
(`Waits`).

| Code | Action |
|---|---|
| `create`: `generateCode` (the last code of the day, plus one), then the insert under the unique index | `AskCode`, `Insert` |
| `approve`: the read and check of the service, the re-check in the transaction, then per item, in any order, one update of the item and one of its product; status and commit | `Approve`, `Recheck`, `WriteItem`, `WriteProduct`, `CommitApproval` |
| `complete`: read, read of the items, write by id | `Complete`, `ReadItems`, `WriteStatus` |
| `cancel`: read, write by id | `Cancel`, `WriteStatus` |
| `remove`: transaction that deletes the items, then the row | `Remove`, `WriteItem`, `DropRow` |
| PostgreSQL aborting one of two transactions that wait for each other | `Victim` (external) |
| a rejected query or a dying process: rollback | `Fail` |

### Account

`AccountsPayableService` and `AccountsReceivableService` are the same code, so
that one module stands for both; `Receivable` are the accounts of an order,
`Payable` those that purchase orders open. Both of these may be of zero cents,
which `create` refuses.
`CreateAccount`, `EditAmount` and `RemoveAccount` are the CRUD writes;
`RegisterPayment`, `ReadAccount` and `Pay` are the check of the service, the read
inside the transaction and the absolute write; `FindPending` and `Settle` are
the listener of Entregue, `Reverse` that of Cancelado. `asked` and `received`
remember the amounts an account has had and the payments that committed; `raced`
marks the accounts that were written under another request's read.

### Purchasing

Extends `Account`: the payable of purchase order `o` is account `o`. Requests
read a quotation (`ReadQuotation`) or an order (`ReadOrder`), check the
transition table and write by id in a later step (`WriteQuotation`,
`WriteOrder`); `ReadDraft` and `RemoveQuotation` are remove. `CreateOrder` is the
one transaction with a compare-and-set: `ReadSelected` reads the quotation, then
`updateMany` with `SELECTED` in its condition (`Unconsumed`), the order and its
payable (`PlaceOrder`) commit together. Steps of the accounts interleave as
`AccountStep`. `ImplementsAccount` says that all of this drives the accounts only as
`Account` allows.

### TaskMerge

| Code | Action |
|---|---|
| `TasksService.merge`: lookup of the idempotency key; read of the tasks and its checks | `StartMerge`; `ReadRows` |
| the climb from the target, one query a level, up to `MAX_NODES` | `Climb` |
| the writes by id, visible at the commit: `mergedIntoId` and `deletedAt` of the sources, events | `CommitMerge` |
| the result stored under the key, after the commit | `StoreResult` |
| a rejected query, the unique key of the links, or the process dies | `CallFails` |
| other users: parent, removal | `Reparent`, `Remove` |
| Redis losing a key | `Forget` (external) |

History: `overtaken` are the requests whose reads another user or merge has made
untrue, `raced` the tasks such a request merged; `events`, `applied`, `clock` and
`when` count and date the commits, `asOf` and `based` the reads they rest on.

### TaskLinks

`link` is the committed table. `draft[m]` is what the open transaction of merge
`m` has written: what it sees on top of the table (`View`), and the rows it has
locked. Each end of the links has its own statement; `dir` says which one is next.

| Code | Action |
|---|---|
| `merge` up to the links | `StartMerge` |
| `moveEdgesForMerge`: `targetOut`, `targetIn`; `sourceOut`, `sourceIn` and the duplicates among them | `ReadTarget`; `ReadSource` (`Duplicate`) |
| `deleteMany` by id, once the rows are free | `DeleteRows` |
| each `updateMany`: the rows it finds when it begins; what it writes once they are free and still meet its condition | `FindRows`; `MoveRows` (`Moved`) |
| the rest of the transaction and its commit; a rollback, for the unique key for one | `CommitMerge`; `MergeFails` |
| `TaskLinksService.create`: tasks, then `findEdgePair`, then the insert | `AskLink`, `FindPair`, `InsertLink` |
| `TaskLinksService.remove`: `findEdgeById`, then the delete by id | `AskRemove`, `DeleteLink` |
| `addTaskLink` of the automations; removal of a task | `AddTaskLink`; `RemoveTask` |

History: `late[m][d]` are the rows that others committed since the update of `m`
for end `d` looked for its rows; `overwritten[m]` the links that others changed or
deleted since `m` began.

The two modules abstract from each other. `TaskMerge` sees of the links only that
a merge may fail; `TaskLinks` lets any merge begin, fail or commit, which includes
all that `TaskMerge` allows.

### Automation

One server process, with `Crash` (the cache and all handlers are lost, table and
queue stay).

| Code | Action |
|---|---|
| create, update, toggle, remove; `invalidateWorkspace` after the write | `Create`, `ReadAutomation`, `Update`, `Toggle`, `RemoveAutomation`, `InvalidateWorkspace` |
| listener: the active automations (from the cache, or queried and stored), their scope, `queue.add` | `HandleEvent`, `LoadActive`, `StoreList`, `MatchScope`, `Schedule`, `EndHandle` |
| cron: `findDue`, per automation `queue.add` then `nextRunAt` | `FindDue`, `AddCron`, `Advance`, `EndTick` |
| worker: read of the automation and its conditions, actions in order, `recordExecution` | `Take`, `ReadJob`, `RunAction`, `RecordExecution`, `Complete` |
| BullMQ: a failed attempt, a stalled job | `FailAttempt`, `Recover` (external) |

`offSince`, `onSince` and `fired` date the edits and the firings.

## 3. Runs

Every run is exhaustive within its constants. States are distinct states.

| Run | Instance | States | Shows |
|---|---|---|---|
| `outbox` | 1 event of any kind, 2 processes, 3 attempts, poller on, 3 failures of any kind, fair | 476,200 | all safety properties, what a repetition has cost, `ImplementsContract`; which failures leave an event unsettled or unburied |
| `orders_serial` | 1 slot, totals of 0, 2 and 3 cents, both classes, all operations, no failure | 1,465,164 | what the code promises when nothing overlaps and nothing fails |
| `orders_overlap` | 2 slots, payments and production, 1 failure anywhere | 2,623,634 | what survives overlap and a half-done handler |
| `separation_safety` | 3 requests on 3 items, two of which may be cut off, fair | 189,330 | status never ahead of the items, `ImplementsContract`; the order settles |
| `requisitions` | 2 requisitions of 2 items over the same 2 products, 2 requests, any of which may fail, fair | 36,801 | status against stock, whole deductions, waits that end |
| `accounts` | 1 payable, 1 receivable, 2 requests, amounts 0 to 2, payments 1 and 2, up to 3 received | 3,140,111 | status against paid amount; only races lose payments |
| `purchasing` | 1 quotation, 2 orders, 2 clerks, amounts 0 and 1, 2 selections | 354,971 | one order per selection, whole handoff, no step skipped, `ImplementsAccount` |
| `merges` | 3 tasks, 2 requests, 1 key, 3 starts, 2 edits | 814,560 | merged once, what a retry can repeat, live targets, climbs that end |
| `links` | 3 tasks, 2 links, 2 merges, 1 user, 1 edit, one type | 1,243,988 | which links are left behind, which are lost |
| `automations` | 1 automation, 1 user, 1 listener, 1 tick, 1 job with 2 attempts and 1 stall, time 0 to 2, 1 crash | 3,448,154 | staleness bound, counts, due runs fired |

Runs that are expected to find a violation, each of a statement the repository
makes about itself (PROJECT.json quotes it):

| Run | Statement refuted |
|---|---|
| `outbox_at_least_once` | with no failure at all, an early job makes the poller's re-publication a no-op |
| `requisition_twice` | two overlapping approvals both pass the re-check "to prevent race conditions" and deduct the stock twice |

**Bounds.** Two processes or slots are enough for every pairwise race, and the
stale writer and the fresh one are what the properties tell apart; the theorems
cover any number. Three attempts and three failures let a row fail, be retried,
be stalled and be buried in one behaviour. Totals 0, 2 and 3 are the guard's
special case, an even and an odd total (the parcels are halves rounded up and
down). Three requests on three items let one request finish between the two
statements of another while a third is pending. `orders_overlap` leaves edits and
supplies out, which `orders_serial` has, to stay small; its properties are proved
with all of them. The outbox is checked with one event, of each of the
three kinds, since two events share only the worker slots and the poller's batch;
the theorems hold for any number of events and in the synchronous development
mode too. Two requisitions of two items that use the same two products
are the smallest that deadlock. `MaxReceived`, `MaxSelections`,
`MaxStarts`, `MaxEdits`, `MaxNow` and `MaxCrashes` are guards that keep counters
finite: two payments, two selections, two merges and a retry, two edits and one
crash, each enough for a request to be overtaken and for the slot to be used
again. `purchasing` leaves the finance requests out (`Call` is empty; `accounts`
has them, and the theorem `PurchasingInvariant` all of both). `links` has links
of one type, the one that is looked up in both directions, and a table of two
rows, of any content to begin with: a link and its twin, or one that moves and one
that is written under it; two merges that share tasks wait for each other's rows
and read what the other has left. `automations` has one
handler of each kind: every property relates an edit to one reader of it, and two
readers share nothing but the cache, which one reader and a crash already find in
every state; again the theorem is for any number.

**No deadlock check.** Every run says `CHECK_DEADLOCK FALSE`: an order that is
delivered or removed, a settled outbox, requisitions that are all removed and a
checked separation order are legitimate ends, and nobody is obliged to send
another request. Where waiting for each other is possible, in
`StockRequisition`, its absence is a property of its own (`CallsEnd`).

## 4. Properties

*Outbox.*
- `ExclusiveClaim`: at most one worker is inside `process()` for a row, even
  after lost locks and stalls, although the later updates name the row by id.
- `AttemptsBounded`, `OnlyCommittedProjected`, `SettledIsFinal`: projections
  against attempts, transactions and final statuses.
- `RepeatsHaveCause`: every attempt after an event's first was paid for by a
  failure, and before a database call has failed (`failed` remembers which kinds
  have happened) no event is projected twice, whatever crashes, expired locks and
  lost jobs combine to.
- `ImplementsContract`: the outbox refines `OutboxContract` under the mapping of
  the row's status to a stage.
- `ClaimedSettles`, `DeadReachesDlq`: a claimed event is settled and a dead one is
  buried, unless one of the failures happened that can prevent it. They hold
  however often handlers fail, and the second with expired locks and database
  failures as well; what they exempt is real (section 8).

*Orders.*
- `NoStageSkipped`: a status was only ever reached from one that allows it.
  Overlapping requests can send an order *back* (section 8), which is why the
  stronger `FollowsMachine` is claimed only for `orders_serial`.
- `TimelineSound`: every history row but the one `create` inserts is a transition
  of the machine, between statuses really held, although it is written from a
  status that was read earlier.
- `BackedByRows`: receivables imply FATURAR, PRODUZIDO implies a production order.
- `ReceivablesCoverOrder`, `DeliveredIsSettled`, `CancelledIsReversed`,
  `TotalFrozen`: the money, when requests do not overlap.

*Separation.* `StatusBacked`, `ChecksFollowSeparation`: the status never runs
ahead of the items; `ImplementsContract`: the requests refine
`SeparationContract`; `SeparationSettles`: the separateItem that
marks the last item, unless it is cut off itself, takes the order out of
IN_PROGRESS, whatever the others leave half-done.

*Requisitions.* `StatusTellsStock`: PROCESSED means every item is filled,
PENDING means nothing was taken (of CANCELLED nothing follows, section 8);
`WholeDeduction`: all items of a requisition are deducted equally often;
`ApprovalKeepsRow`: a requisition is not deleted under an approval that holds its
items; `CallsEnd`: every wait for a lock ends.

*Accounts.* `StatusTellsPaid`: the status agrees with the paid amount and an
amount the account had, whatever overlaps; `LostOnlyByRace`: outside races the
account shows all that was paid.

*Purchasing.* `OneOrderPerSelection`, `HandoffWhole` (each order has its payable,
at a total its quotation had), `NoStepSkipped`; `ImplementsAccount`: purchasing
refines `Account`, so that what holds of accounts holds of its payables.

*Merges.* `MergedOnce`: a task is merged and announced once, unless the merge was
overtaken. `RetriesAreSafe`: a replayed result was committed, and a request whose
key was committed before gets past the checks only if it read its tasks before
that commit; two retries that overlap may both commit. `TargetWasLive`: a merged
task leads to another merged one only if the first merge read its tasks before the
second was committed. So merges that overlap can leave a chain that runs backwards,
or a circle, and nothing else can. `NotBelowSource`: a merge about to write has no
source above its target, unless overtaken. `ClimbAdvances`: the climb ends in a
cyclic hierarchy too.

*Links.* `LinksFollowMerge`: when a merge comes to its commit, no link is on its
sources but those that somebody else committed after its update looked for them;
such a late link does stay on the merged task. `NoLinkLost`: it deletes a link only
among its own tasks or when the target has the same one, although both are decided
on earlier reads; unless, since it began, somebody else changed the link or
took that of the target, and then a link can be lost.

*Automations.* `StaleWithinTtl`: what an event is matched with was the truth less
than `TTL_MS` before it, although a slow load may store its list after the
invalidation; `CountTellsRuns`: `executionCount` against complete runs, attempts
and stalls; `DueIsFired`: a tick moves `nextRunAt` only after the run is queued.

## 5. Fairness

`TaskOutbox!Fairness`: weak fairness of each process's continuations, of its poll
timer and of the microtask (Node.js runs what is scheduled), of BullMQ's delayed
and stalled scans, and strong fairness of handing a waiting job to a free worker:
the queue is first-in first-out, so a job whose turn keeps coming is taken.
Producers, evictions, cleanup and failures are not fair.

`SeparationOrder!FairSpec`: weak fairness of a handler that was admitted; no
request is obliged to arrive.

`StockRequisition!FairSpec`: strong fairness of the steps of each request, since
PostgreSQL grants a row lock in the order of the waiters, so that a request whose
lock keeps becoming free gets it; weak fairness of `Victim`, since the deadlock
detector runs after `deadlock_timeout`. Failures are not fair.

The other modules state no fairness and no liveness property: their handlers are
not retried, so that one lost statement is lost for good, and the invariants
say what holds at rest.

## 6. Theorems

Checked by TLAPS for every value of the constants that satisfies the module's
named assumption (`ConstantsAssumption`, `OrderAssumption`, ...): sets of any
size, any number of attempts, amounts, edits and failures.
`Spec /\ []H => ...` restricts a theorem to behaviours that keep `H`: those where
requests do not overlap in the way that `H` names or, for `NoEarlyJob`, where jobs
are published after the commit.

| Module | Theorems | Statement |
|---|---|---|
| outbox | `OutboxInvariant`, `OutboxTypes`, `OutboxExclusive`, `OutboxBounded`, `OutboxCommitted`, `OutboxSettled`, `OutboxRepeatsHaveCause` | `IInv` and what follows from it |
| | `OutboxClaimHasOwner` | no crash, no database failure: `ClaimHasOwner` |
| | `OutboxDeadIsBuried` | no crash, no queue failure: `DeadIsBuried` |
| | `OutboxNothingStranded` | handlers fail at most: `Spec /\ []NoEarlyJob => []NothingStranded` |
| | `OutboxImplementsContract` | `Spec => Contract!Spec` |
| orders | `OrderInvariant`, `OrderStages`, `OrderTimeline`, `OrderBacked` | `IInv`, `NoStageSkipped`, `TimelineSound`, `BackedByRows` |
| | `SerialFollowsMachine`, `SerialTotalFrozen`, `SerialNeverOverAsked` | `Spec /\ []OneAtATime =>` `FollowsMachine`, `TotalFrozen`, `[]NeverOverAsked` |
| | `SerialReceivables`, `SerialDelivered`, `SerialCancelled` | `Spec /\ []OneAtATime => [](failures = 0 => P)` with `P` one of `ReceivablesCoverOrder`, `DeliveredIsSettled`, `CancelledIsReversed` |
| separation | `SeparationInvariant`, `SeparationBacked`, `SeparationBeforeChecks`, `SeparationMarksGrow` | `IInv`, `StatusBacked`, `ChecksFollowSeparation`, and that no mark is taken back |
| | `SeparationImplements`, `OrderKeepsSeparation` | `SeparationOrder!Spec => Contract!Spec`, `OrderLifecycle!Spec => Separation!Spec` |
| | `SeparationStatusAdvances`, `SeparationNoneForgotten` | `Spec /\ []PhasesApart =>` `StatusAdvances`; `[]NoneForgotten` if no handler is cut off |
| requisitions | `RequisitionInvariant`, `RequisitionStatusTellsStock`, `RequisitionWholeDeduction`, `RequisitionApprovalKeepsRow` | `IInv` and three of the checked properties |
| | `RequisitionCodesUnique`, `RequisitionDeductedForGood` | no two requisitions share a code; deductions are never undone |
| | `RequisitionDeductedExactly` | `Spec /\ []OnePerRequisition => []DeductedExactly` |
| | `RequisitionWaitsAreSeen` | finitely many requests in flight: `WaitsAreSeen` |
| accounts | `AccountInvariant`, `AccountStatusTellsPaid`, `AccountLostOnlyByRace`, `AccountNothingInvented` | `AccIInv`, the checked properties, no payment counted twice |
| | `AccountNothingLost` | `AccSpec /\ []OnePerAccount => []NothingLost` |
| purchasing | `PurchasingInvariant`, `PurchasingOneOrderPerSelection`, `PurchasingHandoffWhole`, `PurchasingNoStepSkipped` | `IInv` and the checked invariants |
| | `PurchasingImplementsAccount` | `Spec => AccSpec` |
| | `PurchasingConsumedOnce`, `PurchasingFollowsMachines` | `Spec /\ []OnlyOrdersOverlap =>` `[]ConsumedOnce`, `FollowsMachines` |
| merges | `MergeInvariant`, `MergeOnce`, `MergeRetriesAreSafe`, `MergeTargetWasLive`, `MergeNotBelowSource`, `MergeClimbAdvances` | `IInv` and all five checked properties |
| | `MergeRunsForward` | `Spec /\ []OneMerge => []MergesRunForward`: no circle when merges do not overlap |
| | `MergeAppliedOnce` | `Spec /\ []OnePerKey => []AppliedOnce`: one commit per key when its requests do not overlap |
| links | `LinksInvariant`, `LinksMove`, `LinksNoneLost` | `IInv` and both checked properties |
| automations | `AutomationInvariant`, `AutomationStaleWithinTtl`, `AutomationCountTellsRuns`, `AutomationDueIsFired` | `IInv` and all three checked properties |

*Outbox.* `ExclusiveClaim` is not inductive alone: a slot must know that the row
it claimed carries the attempts it read (`SlotKnows`), and a status must say what
attempts and projections it can have (`StatusSays`), to exclude a second claim and
to bound the counters. The refinement maps each action to the contract's step of
the same effect or to a stutter; claiming, failing and everything in Redis stutter.
`RepeatsHaveCause` charges each new attempt to the failure before it. `ClaimHasOwner`
and `DeadIsBuried` are the safety cores of the two liveness properties: fairness
only has to move a slot that is known to be there; a crash, for one, breaks both.
`NothingStranded` is the other side of `outbox_at_least_once`: with jobs published
after the commit (`NoEarlyJob`), a job that BullMQ still remembers as finished is
never that of a row that waits, so that an add of the poller is not ignored.
`JobsHeld` carries it, by holding a busy slot to its job and an active job to its
slot. Any failure but that of a handler refutes it.

*Orders, overlapping.* A request validates a status that may be gone when it
writes. What does stay true is monotone: `held` grows, a production order's row
never becomes absent, receivables are never taken off the list. `SlotKnows` says
just that of each pending write, and it is what makes `NoStageSkipped` inductive.

*Orders, requests that do not overlap.* `OneAtATime` lets any number of slots
take turns, each with its request and the listener behind it. What a request read
is then still so when it writes (`StillSo`), whatever earlier handlers left
half-done, and each parcel is inserted once (`ParcelsBuilt`): the status follows
the table, the total is frozen and nothing is asked twice under any failures.
The other three are about money that a cut-off listener never asks for, settles or
reverses, so that they hold up to the first failure; `ParcelsFollow` says which
parcels go with which status: none before FATURAR, two halves of the total
afterwards, reversed from the listener of Cancelado on. The halves add up for any
total, odd or even.

*Separation.* Marks only grow, so a request that saw every item marked is right
to write SEPARATED or CHECKED however late (`RequestKnows`); the gate of checkItem
on the status is enough for `ChecksFollowSeparation`. Since start alone takes the
order out of PENDING, no automatic transition overtakes it: `SeparationContract`.
The two theorems about it compose the modules: the requests of a separation order
and the listeners of its order both keep to it. Requests of one handler may overlap
freely: while those of different handlers do not (`PhasesApart`), a request in
flight finds the status it asked for or the one it is to write
(`RequestIsCurrent`), and the late writes of section 8 are gone. If no handler is cut
off either, complete marks that the status lags behind always have a request in
flight that is about to find them complete (`NoneForgotten`): the safety core of
`SeparationSettles`.

*Requisitions.* `LocksExclude` (two open transactions hold no row in common) and
`CallKnows` (what an open transaction has written, and that the rows it has
written are still there) are the strengthening: the second approval of a
requisition waits for its item rows and then deducts all of them as well, which
is why deductions are whole although not single. They are single, and made
by PROCESSED requisitions only, while no two requests are about one requisition
(`OnePerRequisition`), whatever requests about others compete for the products:
the promise that `requisition_twice` refutes, under the condition it needs.
`WaitsAreSeen` is the safety core of `CallsEnd`: whoever waits, waits for somebody
who can go on or is in a circle that the database sees. Its proof takes the blocked
requests among those waited for and a smallest set of them that is closed under
waiting; that set exists since only finitely many requests are in flight.

*Accounts and purchasing.* `PayerKnows` ties the amounts a request has read to
what the account has had, and makes them current unless `raced`: with one request per
account (`OnePerAccount`) there is no race and nothing is lost (`NothingLost`). `DeskKnows` says
that a request about to write a status has seen one that allows it.
`PurchasingInvariant` uses the accounts' invariant: a step of the one leaves the
other's variables alone or opens a payable, which is also why purchasing
implements `Account`. The comparison in the creation of an order is enough for the
race it was written for: as long as nothing but creations overlap on one quotation
or order (`OnlyOrdersOverlap`), what the other requests read is current when they
write (`DeskIsCurrent`), so that a quotation is consumed once and for good
(`ConsumedOnce`) and both transition tables rule. A late select breaks it
(section 8).

*Merges.* The climb's `visited` set is closed upwards as far as it was read and
free of the sources unless overtaken (`CallKnows`): when the climb ends it is the
witness of `NotBelowSource`. `MergesKnown` counts the commits of a key in the events
of its tasks and dates each merge. A request notes the counter of commits when it
reads (`asOf`); what was live then is merged later, if at all, which gives
`TargetWasLive` and `RetriesAreSafe` with no exemption. Where nothing is between the
reads and the commit of a merge but itself (`OneMerge`), what it read is current
and `mergedIntoId` leads to ever later merges (`MergesRunForward`); where only the
requests of one key are kept apart (`OnePerKey`), the key is applied once.

*Links.* `Knows` follows a merge from statement to statement. What it has read of
the target is still there, in a row it will not touch since that row has no end at a
source (`Kept`); a row it dooms is among its own tasks or has such a twin
(`Justified`), and a row that others have changed is on record (`Changed`). After an
update no link it saw has that end at a source, and the second update keeps what the
first has done, because it starts from the merge's own view (`MovesKnown`).
`LocksHeld`, one writer for a row, makes the steps of others invisible until
they commit; then they are noted in `late` and `overwritten`.

*Automations.* `ListsKnown` carries the bound: a list in the cache was the truth
when its load began and expires within the time to live of that, whoever stored it. `JobsKnown` ties
steps, attempts and counts of a job; `TicksKnow` what a tick has read.

Only model-checked: `ClaimedSettles`, `DeadReachesDlq`, `SeparationSettles` and
`CallsEnd`. Liveness under fairness is outside the prover; `ClaimHasOwner`,
`DeadIsBuried`, `NoneForgotten` and `WaitsAreSeen` are what could be proved of
them.

## 7. Not modelled

Reference-data CRUD, read-side modules (dashboards, reports, search), chat and
realtime delivery, the sync import, the web client and deployment keep no state
that two steps of different actors could bring out of step, or are pure input and
output. They are also most of the repository's lines: the map covers the services
that hold the protocols, which are small beside the user interface and the
queries. The Kommo integration is half built: the controller that would enqueue
its jobs is not in the repository. Authentication keeps one last-writer-wins hash.

Left out as well, each for its own reason:

- *tasks*: moving, bulk updates, assignees, tags and watchers are one transaction
  each, with an outbox event; their rows are data. Assignees are kept twice (rows
  and a cached first assignee), see section 8.
- *workspaces and members*, *cash registers*: a count or a lookup, then a write,
  both of one statement; the races are those of the modules above with less
  around them.
- *attachments*: the scan worker is a retried job like those of `Automation`.

Inside the modelled parts: SSE notices of the outbox, overlapping ticks of one
poller, several worker slots in one process (they are further nodes), a batch of
stuck rows that are re-published in vain at the head of the poller's list; prices
of items, finance-side changes of receivables inside `OrderLifecycle` (module
`Account` has them), consumptions and losses of production orders; `processItem`
of requisitions, which asks for APPROVED, a status nothing writes, so that it
never gets past its check; the items of a quotation, which are its total, and
edits of a purchase order's links; comments, attachments, checklists, tags and
time totals that move in a merge's transaction; conditions and scopes of
automations, which are abstracted to whether they apply, and the depth guard,
which is never reached because no service an action calls emits automation events.

## 8. Known disagreements

Between code and comments, visible in the models (or in the source beside them)
without a run of their own. The change of a run that shows each is in brackets.

*Outbox*
- a row whose worker died after the claim is never consumed again, poller or not
  [`ClaimedSettles` with "crash" among the failures it allows];
- the job may be published before the commit of the row it names (`PublishJob`
  needs no `Commit`), although the service speaks of publishing afterwards;
- a projection whose `markCompleted` is rejected is made again by the replay
  [bound of one projection per event in `outbox`];
- `STATUS_CHANGED` always ends DEAD at this revision: its handler writes
  `enteredByUserId`, which the model in `schema.prisma` (1085-1099) does not have.

*Orders, production, separation*
- an order leaves CANCELADO again by a late write [`FollowsMachine` with two
  slots]; in the same way two changes to FATURAR leave four parcels, a change to
  CANCELADO overtaken by one to FATURAR leaves a live receivable, and an edit
  overtaken by FATURAR changes an invoiced total [the properties of
  `orders_serial` with a second slot];
- a failure between the two inserts of FATURAR leaves one parcel, which nothing
  repairs [`ReceivablesCoverOrder` with `MaxFailures = 1`];
- PRODUZIR creates nothing for orders made through the API: it reads
  `classificationSnapshot`, which no service writes;
- an update of freight, discount or tax without items leaves `totalCents` as it
  was (`orders/orders.service.ts:271`);
- a late `separateItem` writes SEPARATED over CHECKED, and a late `start` writes
  IN_PROGRESS over SEPARATED;
- the check for an existing production code ignores deleted rows, the unique
  index does not.

*Finance, stock, purchasing*
- two overlapping payments lose one, in spite of "Atomic read-update inside
  transaction to prevent race conditions"
  (`accounts-payable/accounts-payable.service.ts:145`) [`paid = received` in
  `accounts`];
- two creations of a requisition read the same last code and one fails on the
  unique index, although the comment speaks of `SELECT ... FOR UPDATE`
  (`stock-requisitions/stock-requisitions.repository.ts:93`) [the
  other branch of `Insert`]; a late cancel overwrites PROCESSED and the stock stays deducted;
- CANCELLED of a purchase order is overwritten by a late confirmation, and a
  quotation that was ordered becomes SELECTED again by a late select, for a
  second order [`selections` counts them].

*Tasks*
- two overlapping merges of one source both commit, where
  `src/mundial-erp-api/docs/threat-model-tasks.md` promises a lock in Redis and a
  serializable transaction [`MergedOnce` without `raced`]; two opposite ones leave two merged tasks that lead
  to each other [`MergesRunForward`], and two retries with one key that overlap both
  commit [`AppliedOnce`];
- a retry after a crash between commit and Redis is answered 404, not with the
  first result;
- a link that is committed on a source after `moveEdgesForMerge` has looked for it
  stays on the merged task, where no query finds it [`LinksFollowMerge` without
  `late`]; a link is lost when its twin at the target is removed while the merge
  runs [`NoLinkLost` without `overwritten`];
- a link between two sources of a merge is left as a link of the target to itself,
  although `moveEdgesForMerge` is said to work "deduplicando e removendo self-refs"
  (`task-links/task-links.repository.ts:150`): each `updateMany` moves one of its
  ends [`MoveRows` on a link whose ends are both sources];
- two sources linked to the same third task violate the unique key, and the merge
  fails (`MoveRows` is not possible then);
- two requests can create both directions of a RELATES_TO link, which `findEdgePair`
  means to exclude, and link a task that was removed after it was looked up;
- a bulk update writes `primaryAssigneeCache` (`tasks/tasks.service.ts:1284-1285`),
  which "nunca e escrito direto" (998); P2002 is caught and "ignored
  idempotently", but PostgreSQL has aborted the transaction by then.

*Automations and others*
- an update of the time zone alone clears `nextRunAt` of a CRON automation, which
  then never fires (`automations/automations.service.ts:168-186`);
- a workspace can lose its last owner through the removal of a member, whatever
  `workspaces/workspaces.repository.ts:19` says;
- after one failed lazy initialisation `getClam` keeps its rejected promise, so
  that every later scan of the process fails
  (`task-attachments/workers/clamav-scan.worker.ts`).
