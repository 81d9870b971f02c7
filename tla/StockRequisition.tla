-------------------------- MODULE StockRequisition --------------------------
(***************************************************************************)
(* Stock requisitions: concurrent requests create, approve, complete,      *)
(* cancel and remove them.  Approving one sets its items and deducts their *)
(* quantities from the products inside one READ COMMITTED transaction; the *)
(* other writes are single statements by id, made after a read.            *)
(*                                                                         *)
(* One action is one statement of a request.  A transaction's updates are  *)
(* seen by others when it commits (CommitApproval, DropRow); until then    *)
(* they are row locks, on which an update of another request waits.  Two   *)
(* requests can wait for each other; the database then aborts one.         *)
(***************************************************************************)
EXTENDS Integers

CONSTANTS
    Req,        \* requisitions, each created once at most
    Item,       \* items of all requisitions
    Product,    \* products in stock
    Of,         \* Of[i]: the requisition item i belongs to
    Uses,       \* Uses[i]: the product item i asks for
    Call,       \* requests in flight at the same time
    NoReq,      \* an idle slot is about no requisition
    NoItem,     \* a request is at no item
    Failures    \* whether a statement may fail or the process die

ASSUME RequisitionAssumption ==
    /\ Of \in [Item -> Req]
    /\ \A q \in Req : \E i \in Item : Of[i] = q     \* ArrayMinSize(1)
    /\ Uses \in [Item -> Product]
    /\ NoReq \notin Req
    /\ NoItem \notin Item
    /\ Failures \in BOOLEAN

VARIABLES
    row,        \* the stock_requisitions row: absent, live or gone (hard delete)
    status,     \* its status, as committed
    code,       \* its sequence number in the code REQ-<day>-<nnn>; 0 without one
    filled,     \* items whose actualQuantity is set, as committed
    taken,      \* how many times an item's quantity was deducted, as committed
    pc,         \* the next statement of each request
    op,         \* the handler it runs
    req,        \* the requisition it is about
    at,         \* the item of its current statement
    done,       \* the items its open transaction has written
    next        \* the sequence number generateCode returned to it

rows == <<row, status, code, filled, taken>>
calls == <<pc, op, req, at, done, next>>
vars == <<rows, calls>>

Status == {"PENDING", "PROCESSED", "CANCELLED"}
Op == {"none", "create", "approve", "complete", "cancel", "remove"}
PC == {"idle", "insert", "recheck", "item", "product", "finish", "items", "write"}

ItemsOf(q) == {i \in Item : Of[i] = q}

Init ==
    /\ row = [q \in Req |-> "absent"]
    /\ status = [q \in Req |-> "PENDING"]
    /\ code = [q \in Req |-> 0]
    /\ filled = {}
    /\ taken = [i \in Item |-> 0]
    /\ pc = [c \in Call |-> "idle"]
    /\ op = [c \in Call |-> "none"]
    /\ req = [c \in Call |-> NoReq]
    /\ at = [c \in Call |-> NoItem]
    /\ done = [c \in Call |-> {}]
    /\ next = [c \in Call |-> 0]

-----------------------------------------------------------------------------
(* Requests and their locks.                                               *)

Goto(c, p) == pc' = [pc EXCEPT ![c] = p]

\* The request is over; an open transaction is committed or rolled back and
\* its locks are released.  The slot takes another request later.
Return(c) ==
    /\ Goto(c, "idle")
    /\ op' = [op EXCEPT ![c] = "none"]
    /\ req' = [req EXCEPT ![c] = NoReq]
    /\ at' = [at EXCEPT ![c] = NoItem]
    /\ done' = [done EXCEPT ![c] = {}]
    /\ next' = [next EXCEPT ![c] = 0]

\* The request q is opened by a handler that goes on at statement p.
Enter(c, o, q, p) ==
    /\ pc[c] = "idle"
    /\ Goto(c, p)
    /\ op' = [op EXCEPT ![c] = o]
    /\ req' = [req EXCEPT ![c] = q]

\* Item rows and product rows an open transaction has locked.
HeldItems(c) == done[c] \cup (IF pc[c] = "product" THEN {at[c]} ELSE {})
HeldProducts(c) ==
    IF op[c] = "approve" THEN {Uses[i] : i \in done[c]} ELSE {}

\* The statement of c has to wait for the transaction of d.
Waits(c, d) ==
    /\ c # d
    /\ \/ pc[c] = "item" /\ at[c] \in HeldItems(d)
       \/ pc[c] = "product" /\ Uses[at[c]] \in HeldProducts(d)

Blocked(c) == \E d \in Call : Waits(c, d)

\* The loop over the items goes on with any of those that are left: the
\* query that reads them states no order.
NextItem(c, written) ==
    IF ItemsOf(req[c]) \subseteq written
      THEN Goto(c, "finish") /\ at' = [at EXCEPT ![c] = NoItem]
      ELSE /\ Goto(c, "item")
           /\ \E i \in ItemsOf(req[c]) \ written : at' = [at EXCEPT ![c] = i]

-----------------------------------------------------------------------------
(* create                                                                  *)

\* generateCode: one more than the last code among the existing rows.
AskCode(c) ==
    /\ \E q \in Req :
        /\ row[q] = "absent"
        /\ \A d \in Call : req[d] # q
        /\ Enter(c, "create", q, "insert")
    /\ \E last \in Req :
        /\ \A q \in Req : code[q] <= code[last]
        /\ next' = [next EXCEPT ![c] = code[last] + 1]
    /\ UNCHANGED <<rows, at, done>>

\* The unique index on code.
CodeIsFree(n) == \A q \in Req : code[q] # n

Insert(c) ==
    /\ pc[c] = "insert"
    /\ IF CodeIsFree(next[c])
         THEN /\ row' = [row EXCEPT ![req[c]] = "live"]
              /\ code' = [code EXCEPT ![req[c]] = next[c]]
         ELSE UNCHANGED <<row, code>>
    /\ Return(c)
    /\ UNCHANGED <<status, filled, taken>>

-----------------------------------------------------------------------------
(* approve: read, read again in the transaction, write item by item.       *)

Approve(c) ==
    /\ \E q \in Req :
        /\ row[q] = "live"
        /\ status[q] = "PENDING"
        /\ Enter(c, "approve", q, "recheck")
    /\ UNCHANGED <<rows, at, done, next>>

\* Mutant of Recheck: polls until the requisition is PENDING again.
RecheckRetries(c) ==
    /\ pc[c] = "recheck"
    /\ row[req[c]] = "live" /\ status[req[c]] = "PENDING"
    /\ NextItem(c, {})
    /\ UNCHANGED <<rows, op, req, done, next>>

\* The re-check takes no lock: another request may pass it as well.
Recheck(c) ==
    /\ pc[c] = "recheck"
    /\ IF row[req[c]] = "live" /\ status[req[c]] = "PENDING"
         THEN NextItem(c, {}) /\ UNCHANGED <<op, req, done, next>>
         ELSE Return(c)
    /\ UNCHANGED rows

\* UPDATE of an item row by id, or its deletion by hardDelete; the update of
\* a row that is gone throws.
WriteItem(c) ==
    /\ pc[c] = "item"
    /\ ~Blocked(c)
    /\ \/ /\ op[c] = "approve" /\ row[req[c]] = "live"
          /\ Goto(c, "product")
          /\ UNCHANGED <<op, req, at, done, next>>
       \/ /\ op[c] = "approve" /\ row[req[c]] # "live"
          /\ Return(c)
       \/ /\ op[c] = "remove"
          /\ done' = [done EXCEPT ![c] = @ \cup {at[c]}]
          /\ NextItem(c, done[c] \cup {at[c]})
          /\ UNCHANGED <<op, req, next>>
    /\ UNCHANGED rows

\* currentStock: { decrement } by id.
WriteProduct(c) ==
    /\ pc[c] = "product"
    /\ ~Blocked(c)
    /\ done' = [done EXCEPT ![c] = @ \cup {at[c]}]
    /\ NextItem(c, done[c] \cup {at[c]})
    /\ UNCHANGED <<rows, op, req, next>>

\* Mutant of CommitApproval: only the item updated last is deducted.
CommitApprovalOfOne(c) ==
    /\ pc[c] = "finish" /\ op[c] = "approve"
    /\ status' = [status EXCEPT ![req[c]] = "PROCESSED"]
    /\ filled' = filled \cup done[c]
    /\ \E i \in done[c] : taken' = [taken EXCEPT ![i] = @ + 1]
    /\ Return(c)
    /\ UNCHANGED <<row, code>>

\* The requisition's own update, by id, and the commit.
CommitApproval(c) ==
    /\ pc[c] = "finish" /\ op[c] = "approve"
    /\ status' = [status EXCEPT ![req[c]] = "PROCESSED"]
    /\ filled' = filled \cup done[c]
    /\ taken' = [i \in Item |-> IF i \in done[c] THEN taken[i] + 1 ELSE taken[i]]
    /\ Return(c)
    /\ UNCHANGED <<row, code>>

-----------------------------------------------------------------------------
(* complete and cancel: a status by id after a read.                       *)

Complete(c) ==
    /\ \E q \in Req :
        /\ row[q] = "live"
        /\ status[q] \notin {"PROCESSED", "CANCELLED"}
        /\ Enter(c, "complete", q, "items")
    /\ UNCHANGED <<rows, at, done, next>>

\* Mutant of NoItemPending: actualQuantity is compared with undefined, not null.
NoItemUndefined(q) == q \in Req

\* pendingItems is empty; so it is when the items have been deleted.
NoItemPending(q) == row[q] = "gone" \/ ItemsOf(q) \subseteq filled

\* The items are read by a query of their own, after the row's.
ReadItems(c) ==
    /\ pc[c] = "items"
    /\ IF NoItemPending(req[c])
         THEN Goto(c, "write") /\ UNCHANGED <<op, req, at, done, next>>
         ELSE Return(c)
    /\ UNCHANGED rows

Cancel(c) ==
    /\ \E q \in Req :
        /\ row[q] = "live"
        /\ status[q] # "PROCESSED"
        /\ Enter(c, "cancel", q, "write")
    /\ UNCHANGED <<rows, at, done, next>>

\* The update by id throws when the row is gone.
WriteStatus(c) ==
    /\ pc[c] = "write"
    /\ IF row[req[c]] = "live"
         THEN status' = [status EXCEPT ![req[c]] =
                  IF op[c] = "complete" THEN "PROCESSED" ELSE "CANCELLED"]
         ELSE UNCHANGED status
    /\ Return(c)
    /\ UNCHANGED <<row, code, filled, taken>>

-----------------------------------------------------------------------------
(* remove: hardDelete deletes the items, then the row, in a transaction.   *)

\* Mutant of Remove: only the row is deleted, and the items by the database.
RemoveRowOnly(c) ==
    /\ \E q \in Req :
        /\ row[q] = "live"
        /\ status[q] # "PROCESSED"
        /\ Enter(c, "remove", q, "finish")
    /\ UNCHANGED <<rows, at, done, next>>

Remove(c) ==
    /\ \E q \in Req :
        /\ row[q] = "live"
        /\ status[q] # "PROCESSED"
        /\ Enter(c, "remove", q, "item")
        /\ \E i \in ItemsOf(q) : at' = [at EXCEPT ![c] = i]
    /\ UNCHANGED <<rows, done, next>>

\* The code is free again with the row; deleting a row twice throws.
DropRow(c) ==
    /\ pc[c] = "finish" /\ op[c] = "remove"
    /\ row' = [row EXCEPT ![req[c]] = "gone"]
    /\ code' = [code EXCEPT ![req[c]] = 0]
    /\ Return(c)
    /\ UNCHANGED <<status, filled, taken>>

-----------------------------------------------------------------------------
(* The database and the process.                                           *)

\* Calls that wait for each other in a cycle.
Deadlocked(S) ==
    \A c \in S : (\E d \in S : Waits(c, d)) /\ (\E d \in S : Waits(d, c))

\* The database aborts one transaction of a deadlock.
Victim(c) ==
    /\ \E S \in SUBSET Call : c \in S /\ Deadlocked(S)
    /\ Return(c)
    /\ UNCHANGED rows

\* A statement throws, the transaction times out or the process dies.
Fail(c) ==
    /\ Failures
    /\ pc[c] # "idle"
    /\ Return(c)
    /\ UNCHANGED rows

Begin(c) == AskCode(c) \/ Approve(c) \/ Complete(c) \/ Cancel(c) \/ Remove(c)

Step(c) ==
    \/ Insert(c)
    \/ Recheck(c) \/ WriteItem(c) \/ WriteProduct(c) \/ CommitApproval(c)
    \/ ReadItems(c) \/ WriteStatus(c)
    \/ DropRow(c)

Next == \E c \in Call : Begin(c) \/ Step(c) \/ Victim(c) \/ Fail(c)

Spec == Init /\ [][Next]_vars

\* A statement that can run does, a row lock is granted in the order it was
\* asked for (hence strong fairness: a waiting statement is not overtaken for
\* ever), and the database looks for deadlocks.
FairSpec ==
    /\ Spec
    /\ \A c \in Call : SF_vars(Step(c))
    /\ WF_vars(\E c \in Call : Victim(c))

-----------------------------------------------------------------------------
(* Properties.                                                             *)

\* Types; APPROVED, which processItem waits for, is never written.
TypeOK ==
    /\ row \in [Req -> {"absent", "live", "gone"}]
    /\ status \in [Req -> Status]
    /\ code \in [Req -> Nat]
    /\ filled \in SUBSET Item
    /\ taken \in [Item -> Nat]
    /\ pc \in [Call -> PC]
    /\ op \in [Call -> Op]
    /\ req \in [Call -> Req \cup {NoReq}]
    /\ at \in [Call -> Item \cup {NoItem}]
    /\ done \in [Call -> SUBSET Item]
    /\ next \in [Call -> Nat]

\* The status tells what happened to the stock, whatever approvals,
\* completions, cancellations and removals overlapped: nothing was deducted
\* for a PENDING requisition, and all of it for a PROCESSED one.
StatusTellsStock ==
    \A i \in Item :
        /\ status[Of[i]] = "PENDING" => taken[i] = 0 /\ i \notin filled
        /\ status[Of[i]] = "PROCESSED" => taken[i] > 0 /\ i \in filled

\* approveAndDeductStock is all or nothing: the items of a requisition have
\* been deducted equally often, also when approvals wait for each other,
\* fail half-way or are aborted.
WholeDeduction ==
    \A i, j \in Item : Of[i] = Of[j] => taken[i] = taken[j]

\* Creations that read the same last code do not end up with one code.
CodesUnique ==
    \A p, q \in Req : p # q /\ row[p] = "live" /\ row[q] = "live" =>
        code[p] # code[q]

\* An approval that has updated an item still finds its requisition at the
\* end of its transaction, however a removal overlaps with it: the removal
\* has to lock every item before it deletes the row.
ApprovalKeepsRow ==
    \A c \in Call : op[c] = "approve" /\ HeldItems(c) # {} => row[req[c]] = "live"

\* An item row is locked by one transaction at a time.
LocksExclude ==
    \A c, d \in Call : c # d => HeldItems(c) \cap HeldItems(d) = {}

\* What a request in flight relies on: which statements belong to which
\* handler, what its transaction has written, and that a completion about to
\* write saw every item filled.
CallKnows ==
    \A c \in Call :
        /\ pc[c] # "idle" => req[c] \in Req
        /\ pc[c] = "idle" => req[c] = NoReq /\ op[c] = "none"
        /\ pc[c] = "insert" => row[req[c]] = "absent" /\ next[c] > 0
        /\ pc[c] \notin {"idle", "insert"} => row[req[c]] # "absent"
        /\ pc[c] \in {"item", "product"} => at[c] \in ItemsOf(req[c])
        /\ pc[c] \in {"item", "finish"} => op[c] \in {"approve", "remove"}
        /\ pc[c] = "product" => op[c] = "approve"
        /\ pc[c] = "recheck" => op[c] = "approve"
        /\ pc[c] = "items" => op[c] = "complete"
        /\ pc[c] \in {"insert", "recheck"} => done[c] = {}
        /\ done[c] \subseteq ItemsOf(req[c])
        /\ pc[c] = "finish" => done[c] = ItemsOf(req[c])
        /\ pc[c] = "write" => op[c] \in {"complete", "cancel"}
        /\ pc[c] = "write" /\ op[c] = "complete" /\ row[req[c]] = "live" =>
               ItemsOf(req[c]) \subseteq filled

\* A requisition gets one row at most, filled items are those deducted, and
\* only existing rows have codes and a history.
RowsKnow ==
    /\ \A c, d \in Call : c # d /\ pc[c] = "insert" => req[d] # req[c]
    /\ \A i \in Item : i \in filled <=> taken[i] > 0
    /\ \A q \in Req : row[q] = "absent" => status[q] = "PENDING"
    /\ \A q \in Req : row[q] = "live" <=> code[q] > 0

\* The inductive invariant.
IInv == TypeOK /\ StatusTellsStock /\ WholeDeduction /\ CodesUnique
          /\ ApprovalKeepsRow /\ LocksExclude /\ CallKnows /\ RowsKnow

\* Deductions are never undone, and a step deducts for one requisition.
DeductedForGood ==
    [][ /\ \A i \in Item : taken'[i] \in {taken[i], taken[i] + 1}
        /\ \A i, j \in Item : taken'[i] # taken[i] /\ taken'[j] # taken[j] =>
               Of[i] = Of[j] ]_vars

\* Whatever waits for whatever, every request comes to an end.
CallsEnd == \A c \in Call : pc[c] # "idle" ~> pc[c] = "idle"

\* No wait goes unseen.  Take a waiting request and whatever requests it waits
\* for, directly or through others (B): one of them can go on, or the database
\* finds a deadlock among them and aborts a transaction.  No request waits for
\* a row lock that an ended one left behind.
WaitsAreSeen ==
    \A c \in Call, B \in SUBSET Call :
        Blocked(c) /\ c \in B /\ (\A d \in B, e \in Call : Waits(d, e) => e \in B)
        => \/ \E d \in B : pc[d] # "idle" /\ ~Blocked(d)
           \/ \E S \in SUBSET B : S # {} /\ Deadlocked(S)

\* "Re-check status inside transaction to prevent race conditions": the
\* stock of an item is deducted once.
DeductedOnce == \A i \in Item : taken[i] <= 1

\* While no two requests are about one requisition, that comment is true, and
\* more: an item is deducted once when its requisition is PROCESSED and never
\* otherwise, also when requests about other requisitions compete for products.
OnePerRequisition ==
    \A c, d \in Call : c # d /\ req[c] # NoReq => req[c] # req[d]

DeductedExactly ==
    \A i \in Item : taken[i] = IF status[Of[i]] = "PROCESSED" THEN 1 ELSE 0
=============================================================================
