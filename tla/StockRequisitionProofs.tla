----------------------- MODULE StockRequisitionProofs -----------------------
(***************************************************************************)
(* Theorems about StockRequisition, for any number of requisitions, items, *)
(* products and requests.  The stock properties follow from two facts the  *)
(* invariant adds to them: a transaction that commits has written every    *)
(* item of its requisition (CallKnows), and an item is filled exactly when *)
(* it has been deducted (RowsKnow).  That the requisition is still there   *)
(* at the end of an approval follows from the exclusion of row locks.      *)
(***************************************************************************)
EXTENDS StockRequisition, FiniteSetTheorems, TLAPS

USE DEF rows, calls

\* The initial state satisfies the inductive invariant.
LEMMA InitIInv == Init => IInv
<1>. SUFFICES ASSUME Init PROVE IInv
  OBVIOUS
<1>1. TypeOK
  BY DEF Init, TypeOK, Status, PC, Op
<1>2. StatusTellsStock /\ WholeDeduction /\ CodesUnique
  BY RequisitionAssumption DEF Init, StatusTellsStock, WholeDeduction, CodesUnique
<1>3. ApprovalKeepsRow /\ LocksExclude
  BY DEF Init, ApprovalKeepsRow, LocksExclude, HeldItems
<1>4. CallKnows
  BY DEF Init, CallKnows
<1>5. RowsKnow
  BY DEF Init, RowsKnow
<1>. QED  BY <1>1, <1>2, <1>3, <1>4, <1>5 DEF IInv

\* What is said of the rows alone survives a step that leaves them alone.
LEMMA RowsUnchanged ==
  ASSUME IInv, UNCHANGED rows
  PROVE  StatusTellsStock' /\ WholeDeduction' /\ CodesUnique'
  BY DEF IInv, StatusTellsStock, WholeDeduction, CodesUnique

\* A request that ends has no locks and knows nothing any more.
LEMMA ReturnPreserves ==
  ASSUME IInv, NEW c \in Call, Return(c), UNCHANGED rows
  PROVE  IInv'
<1>. USE DEF Return, Goto
<1>1. TypeOK'
  BY DEF IInv, TypeOK, PC, Op
<1>2. ApprovalKeepsRow' /\ LocksExclude'
  BY DEF IInv, TypeOK, ApprovalKeepsRow, LocksExclude, HeldItems
<1>3. CallKnows'
  BY RequisitionAssumption DEF IInv, TypeOK, CallKnows, ItemsOf
<1>4. RowsKnow'
  BY RequisitionAssumption DEF IInv, TypeOK, CallKnows, RowsKnow
<1>. QED  BY <1>1, <1>2, <1>3, <1>4, RowsUnchanged DEF IInv

\* An idle request has written nothing.
LEMMA IdleIsEmpty ==
  ASSUME IInv, NEW c \in Call, pc[c] = "idle"
  PROVE  done[c] = {} /\ HeldItems(c) = {}
  BY RequisitionAssumption DEF IInv, TypeOK, CallKnows, ItemsOf, HeldItems

-----------------------------------------------------------------------------
\* A new creation: no other request is about the requisition.
LEMMA AskCodePreserves ==
  ASSUME IInv, NEW c \in Call, AskCode(c)
  PROVE  IInv'
<1>1. PICK q \in Req :
        /\ row[q] = "absent"
        /\ \A d \in Call : req[d] # q
        /\ Enter(c, "create", q, "insert")
  BY DEF AskCode
<1>2. PICK last \in Req : next' = [next EXCEPT ![c] = code[last] + 1]
  BY DEF AskCode
<1>3. UNCHANGED <<rows, at, done>>
  BY DEF AskCode
<1>4. pc[c] = "idle" /\ done[c] = {}
  BY <1>1, IdleIsEmpty DEF Enter
<1>5. TypeOK'
  BY <1>1, <1>2, <1>3 DEF IInv, TypeOK, Enter, Goto, PC, Op
<1>6. ApprovalKeepsRow' /\ LocksExclude'
  BY <1>1, <1>3, <1>4
     DEF IInv, TypeOK, ApprovalKeepsRow, LocksExclude, HeldItems, Enter, Goto
<1>7. CallKnows'
  <2>1. code[last] + 1 > 0
    BY DEF IInv, TypeOK
  <2>. QED  BY <1>1, <1>2, <1>3, <1>4, <2>1
            DEF IInv, TypeOK, CallKnows, ItemsOf, Enter, Goto
<1>8. RowsKnow'
  BY <1>1, <1>3 DEF IInv, TypeOK, RowsKnow, Enter, Goto
<1>. QED  BY <1>3, <1>5, <1>6, <1>7, <1>8, RowsUnchanged DEF IInv

\* The handlers that start by reading a live row.
LEMMA EnterPreserves ==
  ASSUME IInv, NEW c \in Call, NEW q \in Req, row[q] = "live",
         NEW o \in {"approve", "complete", "cancel", "remove"},
         NEW p \in {"recheck", "items", "write", "item"},
         Enter(c, o, q, p), UNCHANGED <<rows, done, next>>,
         o = "remove" <=> p = "item",
         o = "cancel" <=> p = "write",
         o = "approve" <=> p = "recheck",
         o = "complete" <=> p = "items",
         p = "item" => \E i \in ItemsOf(q) : at' = [at EXCEPT ![c] = i],
         p # "item" => UNCHANGED at
  PROVE  IInv'
<1>1. pc[c] = "idle" /\ done[c] = {} /\ HeldItems(c) = {}
  BY IdleIsEmpty DEF Enter
<1>2. at' \in [Call -> Item \cup {NoItem}]
  BY DEF IInv, TypeOK, ItemsOf
<1>3. TypeOK'
  BY <1>2 DEF IInv, TypeOK, Enter, Goto, PC, Op
<1>4. \A d \in Call : d # c => /\ pc'[d] = pc[d] /\ op'[d] = op[d]
                              /\ req'[d] = req[d] /\ at'[d] = at[d]
  BY DEF IInv, TypeOK, Enter, Goto
<1>5. pc'[c] = p /\ op'[c] = o /\ req'[c] = q /\ (p = "item" => at'[c] \in ItemsOf(q))
  BY DEF IInv, TypeOK, Enter, Goto
<1>6. ApprovalKeepsRow' /\ LocksExclude'
  BY <1>1, <1>4, <1>5 DEF IInv, ApprovalKeepsRow, LocksExclude, HeldItems
<1>7. CallKnows'
  BY <1>1, <1>4, <1>5 DEF IInv, CallKnows, ItemsOf
<1>8. RowsKnow'
  <2>1. \A d \in Call : pc[d] = "insert" => row[req[d]] = "absent"
    BY DEF IInv, CallKnows
  <2>. QED  BY <1>4, <1>5, <2>1 DEF IInv, RowsKnow
<1>. QED  BY <1>3, <1>6, <1>7, <1>8, RowsUnchanged DEF IInv

\* The first statement of every handler.
LEMMA BeginPreserves ==
  ASSUME IInv, NEW c \in Call, Begin(c)
  PROVE  IInv'
<1>1. CASE AskCode(c)
  BY <1>1, AskCodePreserves
<1>2. CASE Approve(c)
  BY <1>2, EnterPreserves DEF Approve
<1>3. CASE Complete(c)
  BY <1>3, EnterPreserves DEF Complete
<1>4. CASE Cancel(c)
  BY <1>4, EnterPreserves DEF Cancel
<1>5. CASE Remove(c)
  <2>1. PICK q \in Req :
          /\ row[q] = "live"
          /\ Enter(c, "remove", q, "item")
          /\ \E i \in ItemsOf(q) : at' = [at EXCEPT ![c] = i]
    BY <1>5 DEF Remove
  <2>. QED  BY <1>5, <2>1, EnterPreserves DEF Remove
<1>. QED  BY <1>1, <1>2, <1>3, <1>4, <1>5 DEF Begin

-----------------------------------------------------------------------------
\* The insert of a new row, under the unique index.
LEMMA InsertPreserves ==
  ASSUME IInv, NEW c \in Call, Insert(c)
  PROVE  IInv'
<1>1. CASE ~CodeIsFree(next[c])
  BY <1>1, ReturnPreserves DEF Insert
<1>2. CASE CodeIsFree(next[c])
  <2>1. /\ pc[c] = "insert" /\ req[c] \in Req /\ row[req[c]] = "absent"
        /\ next[c] > 0 /\ next[c] \in Nat /\ status[req[c]] = "PENDING"
    BY DEF Insert, IInv, TypeOK, CallKnows, RowsKnow
  <2>2. /\ row' = [row EXCEPT ![req[c]] = "live"]
        /\ code' = [code EXCEPT ![req[c]] = next[c]]
        /\ Return(c)
        /\ UNCHANGED <<status, filled, taken>>
    BY <1>2 DEF Insert
  <2>3. TypeOK'
    BY <2>1, <2>2 DEF IInv, TypeOK, Return, Goto, PC, Op
  <2>4. StatusTellsStock' /\ WholeDeduction'
    BY <2>2 DEF IInv, StatusTellsStock, WholeDeduction
  <2>5. CodesUnique'
    BY <1>2, <2>1, <2>2 DEF IInv, TypeOK, CodesUnique, CodeIsFree
  <2>6. ApprovalKeepsRow' /\ LocksExclude'
    BY <2>1, <2>2
       DEF IInv, TypeOK, ApprovalKeepsRow, LocksExclude, HeldItems, Return, Goto
  <2>7. \A d \in Call : pc[d] = "insert" /\ d # c => req[d] # req[c]
    BY <2>1 DEF IInv, RowsKnow
  <2>8. CallKnows'
    BY <2>1, <2>2, <2>7, RequisitionAssumption
       DEF IInv, TypeOK, CallKnows, ItemsOf, Return, Goto
  <2>9. RowsKnow'
    <3>1. /\ \A q \in Req : row'[q] = "absent" => status'[q] = "PENDING"
          /\ \A q \in Req : row'[q] = "live" <=> code'[q] > 0
          /\ \A i \in Item : i \in filled' <=> taken'[i] > 0
      BY <2>1, <2>2 DEF IInv, TypeOK, RowsKnow
    <3>2. \A d \in Call : pc[d] = "insert" => req[d] \in Req
      BY DEF IInv, CallKnows
    <3>3. \A d, e \in Call : d # e /\ pc'[d] = "insert" => req'[e] # req'[d]
      BY <2>2, <3>2, RequisitionAssumption DEF IInv, TypeOK, RowsKnow, Return, Goto
    <3>. QED  BY <3>1, <3>3 DEF RowsKnow
  <2>. QED  BY <2>3, <2>4, <2>5, <2>6, <2>8, <2>9 DEF IInv
<1>. QED  BY <1>1, <1>2

\* Going on with the next item, or with the end of the transaction.
LEMMA NextItemFacts ==
  ASSUME IInv, NEW c \in Call, NEW written \in SUBSET ItemsOf(req[c]),
         NextItem(c, written)
  PROVE  /\ pc' \in [Call -> PC] /\ at' \in [Call -> Item \cup {NoItem}]
         /\ \A d \in Call : d # c => pc'[d] = pc[d] /\ at'[d] = at[d]
         /\ \/ pc'[c] = "finish" /\ written = ItemsOf(req[c])
            \/ pc'[c] = "item" /\ at'[c] \in ItemsOf(req[c])
  BY DEF IInv, TypeOK, NextItem, Goto, PC, ItemsOf

\* The re-check opens the loop over the items; it locks nothing.
LEMMA RecheckPreserves ==
  ASSUME IInv, NEW c \in Call, Recheck(c)
  PROVE  IInv'
<1>1. CASE ~(row[req[c]] = "live" /\ status[req[c]] = "PENDING")
  BY <1>1, ReturnPreserves DEF Recheck
<1>2. CASE row[req[c]] = "live" /\ status[req[c]] = "PENDING"
  <2>1. /\ pc[c] = "recheck" /\ NextItem(c, {})
        /\ UNCHANGED <<rows, op, req, done, next>>
    BY <1>2 DEF Recheck
  <2>2. req[c] \in Req /\ done[c] = {} /\ ItemsOf(req[c]) # {}
    BY <2>1, RequisitionAssumption DEF IInv, CallKnows, ItemsOf
  <2>3. /\ pc' \in [Call -> PC] /\ at' \in [Call -> Item \cup {NoItem}]
        /\ \A d \in Call : d # c => pc'[d] = pc[d] /\ at'[d] = at[d]
        /\ pc'[c] = "item" /\ at'[c] \in ItemsOf(req[c])
    BY <2>1, <2>2, NextItemFacts
  <2>4. op[c] = "approve"
    BY <2>1 DEF IInv, CallKnows
  <2>5. TypeOK'
    BY <2>1, <2>3 DEF IInv, TypeOK
  <2>6. ApprovalKeepsRow' /\ LocksExclude'
    BY <2>1, <2>2, <2>3 DEF IInv, ApprovalKeepsRow, LocksExclude, HeldItems
  <2>7. CallKnows'
    BY <2>1, <2>2, <2>3, <2>4 DEF IInv, CallKnows, ItemsOf
  <2>8. RowsKnow'
    BY <2>1, <2>3 DEF IInv, RowsKnow
  <2>. QED  BY <2>1, <2>5, <2>6, <2>7, <2>8, RowsUnchanged DEF IInv
<1>. QED  BY <1>1, <1>2

-----------------------------------------------------------------------------
\* A transaction goes on after a write: HeldItems grows by the current item.
LEMMA WrittenPreserves ==
  ASSUME IInv, NEW c \in Call, at[c] \in ItemsOf(req[c]), req[c] \in Req,
         row[req[c]] # "absent",
         (op[c] = "approve" /\ row[req[c]] = "live") \/ op[c] = "remove",
         \A d \in Call : d # c => at[c] \notin HeldItems(d),
         done' = [done EXCEPT ![c] = @ \cup {at[c]}],
         NextItem(c, done[c] \cup {at[c]}),
         UNCHANGED <<rows, op, req, next>>
  PROVE  IInv'
<1>1. done[c] \subseteq ItemsOf(req[c])
  BY DEF IInv, CallKnows
<1>2. /\ pc' \in [Call -> PC] /\ at' \in [Call -> Item \cup {NoItem}]
      /\ \A d \in Call : d # c => pc'[d] = pc[d] /\ at'[d] = at[d]
      /\ \/ pc'[c] = "finish" /\ done[c] \cup {at[c]} = ItemsOf(req[c])
         \/ pc'[c] = "item" /\ at'[c] \in ItemsOf(req[c])
  BY <1>1, NextItemFacts
<1>3. /\ \A d \in Call : d # c => done'[d] = done[d]
      /\ done'[c] = done[c] \cup {at[c]}
  BY DEF IInv, TypeOK
<1>4. TypeOK'
  BY <1>2 DEF IInv, TypeOK, ItemsOf
<1>5. /\ \A d \in Call : d # c => HeldItems(d)' = HeldItems(d)
      /\ HeldItems(c)' = done[c] \cup {at[c]}
  BY <1>2, <1>3 DEF HeldItems
<1>6. LocksExclude'
  <2>1. \A d \in Call : d # c => done[c] \cap HeldItems(d) = {}
    BY DEF IInv, LocksExclude, HeldItems
  <2>. QED  BY <1>5, <2>1 DEF IInv, LocksExclude
<1>7. ApprovalKeepsRow'
  BY <1>5 DEF IInv, ApprovalKeepsRow
<1>8. CallKnows'
  BY <1>1, <1>2, <1>3 DEF IInv, CallKnows, ItemsOf
<1>9. RowsKnow'
  BY <1>2 DEF IInv, RowsKnow
<1>. QED  BY <1>4, <1>6, <1>7, <1>8, <1>9, RowsUnchanged DEF IInv

\* The update of an item waits for the transaction that holds its row.
LEMMA WriteItemPreserves ==
  ASSUME IInv, NEW c \in Call, WriteItem(c)
  PROVE  IInv'
<1>1. /\ pc[c] = "item" /\ at[c] \in ItemsOf(req[c]) /\ req[c] \in Req
      /\ row[req[c]] # "absent"
  BY DEF WriteItem, IInv, CallKnows
<1>2. \A d \in Call : d # c => at[c] \notin HeldItems(d)
  BY <1>1 DEF WriteItem, Blocked, Waits
<1>3. CASE op[c] = "approve" /\ row[req[c]] # "live"
  BY <1>3, ReturnPreserves DEF WriteItem
<1>4. CASE op[c] = "remove"
  BY <1>1, <1>2, <1>4, WrittenPreserves DEF WriteItem
<1>5. CASE op[c] = "approve" /\ row[req[c]] = "live"
  <2>1. pc' = [pc EXCEPT ![c] = "product"] /\ UNCHANGED <<rows, op, req, at, done, next>>
    BY <1>5 DEF WriteItem, Goto
  <2>2. TypeOK'
    BY <2>1 DEF IInv, TypeOK, PC
  <2>3. /\ \A d \in Call : d # c => HeldItems(d)' = HeldItems(d)
        /\ HeldItems(c)' = done[c] \cup {at[c]}
    BY <2>1 DEF HeldItems, IInv, TypeOK
  <2>4. LocksExclude'
    <3>1. \A d \in Call : d # c => done[c] \cap HeldItems(d) = {}
      BY DEF IInv, LocksExclude, HeldItems
    <3>. QED  BY <1>2, <2>3, <3>1 DEF IInv, LocksExclude
  <2>5. ApprovalKeepsRow'
    BY <1>5, <2>1, <2>3 DEF IInv, ApprovalKeepsRow
  <2>6. CallKnows'
    BY <1>1, <1>5, <2>1 DEF IInv, TypeOK, CallKnows, ItemsOf
  <2>7. RowsKnow'
    BY <2>1 DEF IInv, TypeOK, RowsKnow
  <2>. QED  BY <2>1, <2>2, <2>4, <2>5, <2>6, <2>7, RowsUnchanged DEF IInv
<1>. QED  BY <1>3, <1>4, <1>5 DEF WriteItem

\* The update of the product keeps the item's lock.
LEMMA WriteProductPreserves ==
  ASSUME IInv, NEW c \in Call, WriteProduct(c)
  PROVE  IInv'
<1>1. /\ pc[c] = "product" /\ at[c] \in ItemsOf(req[c]) /\ req[c] \in Req
      /\ row[req[c]] # "absent" /\ op[c] = "approve"
  BY DEF WriteProduct, IInv, CallKnows
<1>2. at[c] \in HeldItems(c)
  BY <1>1 DEF HeldItems
<1>3. row[req[c]] = "live" /\ \A d \in Call : d # c => at[c] \notin HeldItems(d)
  BY <1>1, <1>2 DEF IInv, ApprovalKeepsRow, LocksExclude
<1>. QED  BY <1>1, <1>3, WrittenPreserves DEF WriteProduct

\* The commit: every item of the requisition is filled and deducted.
LEMMA CommitApprovalPreserves ==
  ASSUME IInv, NEW c \in Call, CommitApproval(c)
  PROVE  IInv'
<1>1. /\ pc[c] = "finish" /\ req[c] \in Req /\ row[req[c]] # "absent"
      /\ done[c] = ItemsOf(req[c])
  BY DEF CommitApproval, IInv, CallKnows
<1>2. /\ status' = [status EXCEPT ![req[c]] = "PROCESSED"]
      /\ filled' = filled \cup done[c]
      /\ taken' = [i \in Item |-> IF i \in done[c] THEN taken[i] + 1 ELSE taken[i]]
      /\ Return(c)
      /\ UNCHANGED <<row, code>>
  BY DEF CommitApproval
<1>3. ASSUME NEW i \in Item, Of[i] = req[c]
      PROVE  taken'[i] = taken[i] + 1 /\ i \in filled' /\ taken'[i] > 0
  BY <1>1, <1>2, <1>3 DEF ItemsOf, IInv, TypeOK
<1>3a. ASSUME NEW i \in Item, Of[i] # req[c]
       PROVE  /\ taken'[i] = taken[i]
              /\ i \in filled' <=> i \in filled
              /\ status'[Of[i]] = status[Of[i]]
  BY <1>1, <1>2, <1>3a, RequisitionAssumption DEF ItemsOf, IInv, TypeOK
<1>4. TypeOK'
  BY <1>1, <1>2 DEF IInv, TypeOK, Return, Goto, PC, Op, Status
<1>5. StatusTellsStock'
  <2>. SUFFICES ASSUME NEW i \in Item
       PROVE  /\ status'[Of[i]] = "PENDING" => taken'[i] = 0 /\ i \notin filled'
              /\ status'[Of[i]] = "PROCESSED" => taken'[i] > 0 /\ i \in filled'
    BY DEF StatusTellsStock
  <2>1. CASE Of[i] = req[c]
    <3>1. status'[Of[i]] = "PROCESSED"
      BY <1>1, <1>2, <2>1 DEF IInv, TypeOK
    <3>. QED  BY <1>3, <2>1, <3>1
  <2>2. CASE Of[i] # req[c]
    BY <1>3a, <2>2 DEF IInv, StatusTellsStock
  <2>. QED  BY <2>1, <2>2
<1>6. WholeDeduction'
  <2>. SUFFICES ASSUME NEW i \in Item, NEW j \in Item, Of[i] = Of[j]
       PROVE  taken'[i] = taken'[j]
    BY DEF WholeDeduction
  <2>1. taken[i] = taken[j]
    BY DEF IInv, WholeDeduction
  <2>. QED  BY <1>3, <1>3a, <2>1
<1>7. CodesUnique'
  BY <1>2 DEF IInv, CodesUnique
<1>8. ApprovalKeepsRow' /\ LocksExclude'
  BY <1>2 DEF IInv, TypeOK, ApprovalKeepsRow, LocksExclude, HeldItems, Return, Goto
<1>9. CallKnows'
  BY <1>2, RequisitionAssumption DEF IInv, TypeOK, CallKnows, ItemsOf, Return, Goto
<1>10. RowsKnow'
  <2>1. \A d \in Call : pc[d] = "insert" => req[d] \in Req
    BY DEF IInv, CallKnows
  <2>2. \A d, e \in Call : d # e /\ pc'[d] = "insert" => req'[e] # req'[d]
    BY <1>2, <2>1, RequisitionAssumption DEF IInv, TypeOK, RowsKnow, Return, Goto
  <2>3. ASSUME NEW i \in Item PROVE i \in filled' <=> taken'[i] > 0
    BY <1>3, <1>3a DEF IInv, RowsKnow
  <2>4. \A q \in Req : row'[q] = "absent" => status'[q] = "PENDING"
    BY <1>1, <1>2 DEF IInv, TypeOK, RowsKnow
  <2>. QED  BY <1>2, <2>2, <2>3, <2>4 DEF IInv, RowsKnow
<1>. QED  BY <1>4, <1>5, <1>6, <1>7, <1>8, <1>9, <1>10 DEF IInv

\* complete reads the items after the row.
LEMMA ReadItemsPreserves ==
  ASSUME IInv, NEW c \in Call, ReadItems(c)
  PROVE  IInv'
<1>1. CASE ~NoItemPending(req[c])
  BY <1>1, ReturnPreserves DEF ReadItems
<1>2. CASE NoItemPending(req[c])
  <2>1. /\ pc[c] = "items" /\ pc' = [pc EXCEPT ![c] = "write"]
        /\ UNCHANGED <<rows, op, req, at, done, next>>
    BY <1>2 DEF ReadItems, Goto
  <2>2. TypeOK'
    BY <2>1 DEF IInv, TypeOK, PC
  <2>3. ApprovalKeepsRow' /\ LocksExclude'
    BY <2>1 DEF IInv, TypeOK, ApprovalKeepsRow, LocksExclude, HeldItems
  <2>4. CallKnows'
    BY <1>2, <2>1 DEF IInv, TypeOK, CallKnows, ItemsOf, NoItemPending
  <2>5. RowsKnow'
    BY <2>1 DEF IInv, TypeOK, RowsKnow
  <2>. QED  BY <2>1, <2>2, <2>3, <2>4, <2>5, RowsUnchanged DEF IInv
<1>. QED  BY <1>1, <1>2

\* The late write of a status: a completion saw every item filled, and a
\* cancellation claims nothing about the stock.
LEMMA WriteStatusPreserves ==
  ASSUME IInv, NEW c \in Call, WriteStatus(c)
  PROVE  IInv'
<1>1. CASE row[req[c]] # "live"
  BY <1>1, ReturnPreserves DEF WriteStatus
<1>2. CASE row[req[c]] = "live"
  <2>1. /\ pc[c] = "write" /\ req[c] \in Req
        /\ op[c] = "complete" => ItemsOf(req[c]) \subseteq filled
    BY <1>2 DEF WriteStatus, IInv, CallKnows
  <2>. DEFINE s == IF op[c] = "complete" THEN "PROCESSED" ELSE "CANCELLED"
  <2>2. /\ status' = [status EXCEPT ![req[c]] = s]
        /\ Return(c)
        /\ UNCHANGED <<row, code, filled, taken>>
    BY <1>2 DEF WriteStatus
  <2>3. TypeOK'
    BY <2>1, <2>2 DEF IInv, TypeOK, Return, Goto, PC, Op, Status
  <2>4. StatusTellsStock'
    BY <2>1, <2>2 DEF IInv, TypeOK, RowsKnow, StatusTellsStock, ItemsOf
  <2>5. WholeDeduction' /\ CodesUnique'
    BY <2>2 DEF IInv, WholeDeduction, CodesUnique
  <2>6. ApprovalKeepsRow' /\ LocksExclude'
    BY <2>2 DEF IInv, TypeOK, ApprovalKeepsRow, LocksExclude, HeldItems, Return, Goto
  <2>7. CallKnows'
    BY <2>2, RequisitionAssumption DEF IInv, TypeOK, CallKnows, ItemsOf, Return, Goto
  <2>8. RowsKnow'
    <3>1. \A d \in Call : pc[d] = "insert" => req[d] \in Req
      BY DEF IInv, CallKnows
    <3>2. \A d, e \in Call : d # e /\ pc'[d] = "insert" => req'[e] # req'[d]
      BY <2>2, <3>1, RequisitionAssumption DEF IInv, TypeOK, RowsKnow, Return, Goto
    <3>3. \A q \in Req : row'[q] = "absent" => status'[q] = "PENDING"
      BY <1>2, <2>1, <2>2 DEF IInv, TypeOK, RowsKnow
    <3>. QED  BY <2>2, <3>2, <3>3 DEF IInv, RowsKnow
  <2>. QED  BY <2>3, <2>4, <2>5, <2>6, <2>7, <2>8 DEF IInv
<1>. QED  BY <1>1, <1>2

\* The end of a removal: no approval holds an item of the requisition.
LEMMA DropRowPreserves ==
  ASSUME IInv, NEW c \in Call, DropRow(c)
  PROVE  IInv'
<1>1. /\ pc[c] = "finish" /\ op[c] = "remove" /\ req[c] \in Req
      /\ row[req[c]] # "absent" /\ done[c] = ItemsOf(req[c])
  BY DEF DropRow, IInv, CallKnows
<1>2. /\ row' = [row EXCEPT ![req[c]] = "gone"]
      /\ code' = [code EXCEPT ![req[c]] = 0]
      /\ Return(c)
      /\ UNCHANGED <<status, filled, taken>>
  BY DEF DropRow
<1>3. TypeOK'
  BY <1>1, <1>2 DEF IInv, TypeOK, Return, Goto, PC, Op
<1>4. StatusTellsStock' /\ WholeDeduction'
  BY <1>2 DEF IInv, StatusTellsStock, WholeDeduction
<1>5. CodesUnique'
  BY <1>1, <1>2 DEF IInv, TypeOK, CodesUnique
<1>6. \A d \in Call : d # c /\ op[d] = "approve" /\ HeldItems(d) # {} => req[d] # req[c]
  <2>. SUFFICES ASSUME NEW d \in Call, d # c, HeldItems(d) # {}, req[d] = req[c]
       PROVE FALSE
    OBVIOUS
  <2>1. HeldItems(d) \subseteq ItemsOf(req[c])
    BY DEF HeldItems, IInv, CallKnows
  <2>2. ItemsOf(req[c]) \subseteq HeldItems(c)
    BY <1>1 DEF HeldItems
  <2>. QED  BY <2>1, <2>2 DEF IInv, LocksExclude
<1>7. ApprovalKeepsRow' /\ LocksExclude'
  <2>1. HeldItems(c)' = {} /\ \A d \in Call : d # c => HeldItems(d)' = HeldItems(d)
    BY <1>2 DEF IInv, TypeOK, HeldItems, Return, Goto
  <2>2. \A d \in Call : d # c => op'[d] = op[d] /\ req'[d] = req[d]
    BY <1>2 DEF IInv, TypeOK, Return
  <2>3. \A q \in Req : q # req[c] => row'[q] = row[q]
    BY <1>2 DEF IInv, TypeOK
  <2>4. LocksExclude'
    BY <2>1 DEF IInv, LocksExclude
  <2>5. ApprovalKeepsRow'
    <3>. SUFFICES ASSUME NEW d \in Call, op'[d] = "approve", HeldItems(d)' # {}
         PROVE row'[req'[d]] = "live"
      BY DEF ApprovalKeepsRow
    <3>1. d # c /\ op[d] = "approve" /\ HeldItems(d) # {} /\ req'[d] = req[d]
      BY <2>1, <2>2
    <3>2. row[req[d]] = "live" /\ req[d] # req[c]
      BY <1>6, <3>1 DEF IInv, ApprovalKeepsRow
    <3>3. row'[req[d]] = row[req[d]]
      BY <1>2 , <3>2 DEF IInv, TypeOK
    <3>. QED  BY <3>1, <3>2, <3>3
  <2>. QED  BY <2>4, <2>5
<1>8. CallKnows'
  <2>1. \A d \in Call : pc[d] = "insert" => req[d] # req[c]
    BY <1>1 DEF IInv, CallKnows
  <2>. QED  BY <1>1, <1>2, <2>1, RequisitionAssumption
            DEF IInv, TypeOK, CallKnows, ItemsOf, Return, Goto
<1>9. RowsKnow'
  <2>1. \A d \in Call : pc[d] = "insert" => req[d] \in Req
    BY DEF IInv, CallKnows
  <2>2. \A d, e \in Call : d # e /\ pc'[d] = "insert" => req'[e] # req'[d]
    BY <1>2, <2>1, RequisitionAssumption DEF IInv, TypeOK, RowsKnow, Return, Goto
  <2>. QED  BY <1>1, <1>2, <2>2 DEF IInv, TypeOK, RowsKnow
<1>. QED  BY <1>3, <1>4, <1>5, <1>7, <1>8, <1>9 DEF IInv

-----------------------------------------------------------------------------
\* Every step preserves the invariant.
LEMMA NextIInv == IInv /\ [Next]_vars => IInv'
<1>. SUFFICES ASSUME IInv, [Next]_vars PROVE IInv'
  OBVIOUS
<1>1. CASE UNCHANGED vars
  <2>1. UNCHANGED rows /\ UNCHANGED calls
    BY <1>1 DEF vars
  <2>2. StatusTellsStock' /\ WholeDeduction' /\ CodesUnique'
    BY <2>1, RowsUnchanged
  <2>3. TypeOK' /\ ApprovalKeepsRow' /\ LocksExclude'
    BY <2>1 DEF IInv, TypeOK, ApprovalKeepsRow, LocksExclude, HeldItems
  <2>4. CallKnows' /\ RowsKnow'
    BY <2>1 DEF IInv, CallKnows, RowsKnow, ItemsOf
  <2>. QED  BY <2>2, <2>3, <2>4 DEF IInv
<1>2. ASSUME NEW c \in Call, Begin(c) \/ Step(c) \/ Victim(c) \/ Fail(c)
      PROVE  IInv'
  <2>1. CASE Begin(c)
    BY <2>1, BeginPreserves
  <2>2. CASE Step(c)
    BY <2>2, InsertPreserves, RecheckPreserves, WriteItemPreserves,
       WriteProductPreserves, CommitApprovalPreserves, ReadItemsPreserves,
       WriteStatusPreserves, DropRowPreserves DEF Step
  <2>3. CASE Victim(c)
    BY <2>3, ReturnPreserves DEF Victim
  <2>4. CASE Fail(c)
    BY <2>4, ReturnPreserves DEF Fail
  <2>. QED  BY <1>2, <2>1, <2>2, <2>3, <2>4
<1>. QED  BY <1>1, <1>2 DEF Next

\* The inductive invariant, for any number of requisitions and requests.
THEOREM RequisitionInvariant == Spec => []IInv
<1>. QED  BY InitIInv, NextIInv, PTL DEF Spec

\* Every variable keeps its type; APPROVED is never written.
THEOREM RequisitionTypes == Spec => []TypeOK
<1>1. IInv => TypeOK
  BY DEF IInv
<1>. QED  BY <1>1, RequisitionInvariant, PTL

\* The status of a requisition tells whether its stock has been deducted,
\* whatever approve, complete, cancel and remove overlap.
THEOREM RequisitionStatusTellsStock == Spec => []StatusTellsStock
<1>1. IInv => StatusTellsStock
  BY DEF IInv
<1>. QED  BY <1>1, RequisitionInvariant, PTL

\* A requisition's items have been deducted equally often: no failure and no
\* deadlock leaves half of an approval behind.
THEOREM RequisitionWholeDeduction == Spec => []WholeDeduction
<1>1. IInv => WholeDeduction
  BY DEF IInv
<1>. QED  BY <1>1, RequisitionInvariant, PTL

\* No two existing requisitions have the same code.
THEOREM RequisitionCodesUnique == Spec => []CodesUnique
<1>1. IInv => CodesUnique
  BY DEF IInv
<1>. QED  BY <1>1, RequisitionInvariant, PTL

\* A removal never takes the row from under an approval that has begun to
\* write: row locks on the items are enough.
THEOREM RequisitionApprovalKeepsRow == Spec => []ApprovalKeepsRow
<1>1. IInv => ApprovalKeepsRow
  BY DEF IInv
<1>. QED  BY <1>1, RequisitionInvariant, PTL

\* Deductions are never undone and each step deducts for one requisition.
THEOREM RequisitionDeductedForGood == Spec => DeductedForGood
<1>. DEFINE A == /\ \A i \in Item : taken'[i] \in {taken[i], taken[i] + 1}
                 /\ \A i, j \in Item :
                      taken'[i] # taken[i] /\ taken'[j] # taken[j] => Of[i] = Of[j]
<1>1. IInv /\ [Next]_vars => [A]_vars
  <2>. SUFFICES ASSUME IInv, [Next]_vars PROVE A
    OBVIOUS
  <2>1. CASE UNCHANGED taken
    BY <2>1 DEF IInv, TypeOK
  <2>2. ASSUME NEW c \in Call, CommitApproval(c) PROVE A
    <3>1. done[c] = ItemsOf(req[c])
      BY <2>2 DEF CommitApproval, IInv, CallKnows
    <3>2. taken' = [i \in Item |-> IF i \in done[c] THEN taken[i] + 1 ELSE taken[i]]
      BY <2>2 DEF CommitApproval
    <3>. QED  BY <3>1, <3>2 DEF ItemsOf
  <2>3. UNCHANGED taken \/ \E c \in Call : CommitApproval(c)
    BY DEF Next, vars, Begin, AskCode, Approve, Complete, Cancel, Remove, Step,
           Insert, Recheck, WriteItem, WriteProduct, ReadItems, WriteStatus,
           DropRow, Victim, Fail
  <2>. QED  BY <2>1, <2>2, <2>3
<1>. QED  BY <1>1, RequisitionInvariant, PTL DEF Spec, DeductedForGood

-----------------------------------------------------------------------------
(* Waiting.  A set of requests each of which waits for one of the set       *)
(* contains one that the database's deadlock search finds: in a smallest    *)
(* such set everybody is waited for as well.                                *)

\* T is not empty, and everybody in it waits for somebody in it.
Stuck(T) == T # {} /\ \A c \in T : \E d \in T : Waits(c, d)

LEMMA StuckIsDeadlocked ==
  ASSUME NEW T \in SUBSET Call, IsFiniteSet(T), Stuck(T)
  PROVE  \E S \in SUBSET T : S # {} /\ Deadlocked(S)
<1>. DEFINE F == {U \in SUBSET T : Stuck(U)}
<1>1. T \in F /\ F \subseteq FiniteSubsetsOf(T)
  BY FS_Subset DEF FiniteSubsetsOf
<1>2. PICK S \in F : \A U \in F : <<U, S>> \notin StrictSubsetOrdering(T)
  <2>. HIDE DEF F
  <2>1. IsWellFoundedOn(StrictSubsetOrdering(T), FiniteSubsetsOf(T))
    BY FS_StrictSubsetOrderingWellFounded
  <2>. QED  BY <1>1, <2>1, WFMin
<1>. DEFINE U == {d \in S : \E c \in S : Waits(c, d)}
<1>3. U \in F
  BY <1>2 DEF Stuck
<1>4. U \subseteq S /\ S \subseteq T
  BY <1>2
<1>5. U = S
  <2>1. <<U, S>> \in (SUBSET T) \X (SUBSET T)
    BY <1>4
  <2>. QED  BY <1>2, <1>3, <1>4, <2>1 DEF StrictSubsetOrdering
<1>6. Deadlocked(S) /\ S # {}
  BY <1>2, <1>5 DEF Deadlocked, Stuck
<1>. QED  BY <1>4, <1>6

\* Only a request in flight is waited for.
LEMMA HolderIsOpen ==
  ASSUME IInv, NEW c \in Call, NEW d \in Call, Waits(c, d)
  PROVE  pc[d] # "idle"
<1>1. CASE pc[c] = "item" /\ at[c] \in HeldItems(d)
  BY <1>1, IdleIsEmpty
<1>2. CASE pc[c] = "product" /\ Uses[at[c]] \in HeldProducts(d)
  BY <1>2 DEF HeldProducts, IInv, CallKnows
<1>. QED  BY <1>1, <1>2 DEF Waits

\* Among a waiting request and those it waits for, somebody can go on or the
\* database sees a deadlock and aborts a transaction; the number of requests
\* in flight is finite.
THEOREM RequisitionWaitsAreSeen ==
  ASSUME IsFiniteSet(Call)
  PROVE  Spec => []WaitsAreSeen
<1>1. IInv => WaitsAreSeen
  <2>. SUFFICES ASSUME IInv, NEW c \in Call, NEW B \in SUBSET Call,
                       Blocked(c), c \in B,
                       \A d \in B, e \in Call : Waits(d, e) => e \in B,
                       \A d \in B : pc[d] = "idle" \/ Blocked(d)
       PROVE  \E S \in SUBSET B : S # {} /\ Deadlocked(S)
    BY DEF WaitsAreSeen
  <2>. DEFINE T == {d \in B : Blocked(d)}
  <2>1. Stuck(T)
    <3>1. c \in T
      OBVIOUS
    <3>2. ASSUME NEW d \in T PROVE \E e \in T : Waits(d, e)
      <4>1. PICK e \in Call : Waits(d, e)
        BY DEF Blocked
      <4>2. e \in B /\ pc[e] # "idle"
        BY <4>1, HolderIsOpen
      <4>. QED  BY <4>1, <4>2
    <3>. QED  BY <3>1, <3>2 DEF Stuck
  <2>2. T \in SUBSET Call /\ IsFiniteSet(T)
    BY FS_Subset
  <2>3. PICK S \in SUBSET T : S # {} /\ Deadlocked(S)
    <3>. HIDE DEF T
    <3>. QED  BY <2>1, <2>2, StuckIsDeadlocked
  <2>. QED  BY <2>3
<1>. QED  BY <1>1, RequisitionInvariant, PTL

-----------------------------------------------------------------------------
(* What a request relies on while no other is about its requisition: the    *)
(* status it has read is still there when it writes.                        *)

StatusStands ==
    \A c \in Call :
        /\ op[c] = "approve" /\ pc[c] # "recheck" => status[req[c]] = "PENDING"
        /\ op[c] = "complete" => status[req[c]] = "PENDING"
        /\ op[c] = "cancel" => status[req[c]] # "PROCESSED"

Exact == DeductedExactly /\ StatusStands

LEMMA ExactInit == Init => Exact
  BY RequisitionAssumption DEF Init, Exact, DeductedExactly, StatusStands

\* Requests that begin, and those that end without writing.
LEMMA ExactBegin ==
  ASSUME IInv, Exact, NEW c \in Call, Begin(c)
  PROVE  Exact'
<1>. USE DEF Exact, DeductedExactly, StatusStands, Enter, Goto, IInv, TypeOK, Status
<1>1. CASE AskCode(c)
  BY <1>1 DEF AskCode
<1>2. CASE Approve(c)
  BY <1>2 DEF Approve
<1>3. CASE Complete(c)
  BY <1>3 DEF Complete
<1>4. CASE Cancel(c)
  BY <1>4 DEF Cancel
<1>5. CASE Remove(c)
  BY <1>5 DEF Remove
<1>. QED  BY <1>1, <1>2, <1>3, <1>4, <1>5 DEF Begin

LEMMA ExactReturn ==
  ASSUME IInv, Exact, NEW c \in Call, Return(c), UNCHANGED <<status, taken>>
  PROVE  Exact'
  BY DEF Exact, DeductedExactly, StatusStands, Return, Goto, IInv, TypeOK

\* A write of a status disturbs no other request.
LEMMA ExactWrite ==
  ASSUME IInv, StatusStands, OnePerRequisition, NEW c \in Call, Return(c),
         pc[c] # "idle", NEW s \in Status,
         status' = [status EXCEPT ![req[c]] = s]
  PROVE  StatusStands'
<1>1. req[c] # NoReq
  BY RequisitionAssumption DEF IInv, CallKnows
<1>2. \A d \in Call : d # c => req[d] # req[c] /\ status'[req[d]] = status[req[d]]
  BY <1>1 DEF OnePerRequisition, IInv, TypeOK
<1>3. \A d \in Call : d # c => pc'[d] = pc[d] /\ op'[d] = op[d] /\ req'[d] = req[d]
  BY DEF Return, Goto, IInv, TypeOK
<1>4. op'[c] = "none"
  BY DEF Return, IInv, TypeOK
<1>. QED  BY <1>2, <1>3, <1>4 DEF StatusStands

LEMMA ExactStep ==
  ASSUME IInv, Exact, OnePerRequisition, NEW c \in Call, Step(c)
  PROVE  Exact'
<1>1. CASE UNCHANGED <<status, taken, op, req>> /\ (pc[c] = "recheck" => status[req[c]] = "PENDING")
           /\ \A d \in Call : pc'[d] = "recheck" <=> d # c /\ pc[d] = "recheck"
  BY <1>1 DEF Exact, DeductedExactly, StatusStands
<1>2. CASE CommitApproval(c)
  <2>1. /\ pc[c] = "finish" /\ op[c] = "approve" /\ req[c] \in Req
        /\ done[c] = ItemsOf(req[c]) /\ status[req[c]] = "PENDING"
    BY <1>2 DEF CommitApproval, IInv, CallKnows, Exact, StatusStands
  <2>2. /\ status' = [status EXCEPT ![req[c]] = "PROCESSED"]
        /\ taken' = [i \in Item |-> IF i \in done[c] THEN taken[i] + 1 ELSE taken[i]]
        /\ Return(c)
    BY <1>2 DEF CommitApproval
  <2>3. DeductedExactly'
    <3>. SUFFICES ASSUME NEW i \in Item
         PROVE  taken'[i] = IF status'[Of[i]] = "PROCESSED" THEN 1 ELSE 0
      BY DEF DeductedExactly
    <3>1. taken[i] = IF status[Of[i]] = "PROCESSED" THEN 1 ELSE 0
      BY DEF Exact, DeductedExactly
    <3>2. CASE Of[i] = req[c]
      <4>1. i \in done[c] /\ status'[Of[i]] = "PROCESSED"
        BY <2>1, <2>2, <3>2 DEF ItemsOf, IInv, TypeOK
      <4>. QED  BY <2>1, <2>2, <3>1, <3>2, <4>1
    <3>3. CASE Of[i] # req[c]
      <4>1. i \notin done[c] /\ status'[Of[i]] = status[Of[i]]
        BY <2>1, <2>2, <3>3, RequisitionAssumption DEF ItemsOf, IInv, TypeOK
      <4>. QED  BY <2>2, <3>1, <4>1
    <3>. QED  BY <3>2, <3>3
  <2>. QED  BY <2>1, <2>2, <2>3, ExactWrite DEF Exact, Status
<1>3. CASE WriteStatus(c)
  <2>1. CASE row[req[c]] # "live"
    BY <1>3, <2>1, ExactReturn DEF WriteStatus
  <2>2. CASE row[req[c]] = "live"
    <3>1. /\ pc[c] = "write" /\ op[c] \in {"complete", "cancel"} /\ req[c] \in Req
          /\ op[c] = "complete" => ItemsOf(req[c]) \subseteq filled
      BY <1>3, <2>2 DEF WriteStatus, IInv, CallKnows
    <3>2. op[c] = "cancel"
      <4>1. PICK i \in Item : Of[i] = req[c]
        BY <3>1, RequisitionAssumption
      <4>2. status[req[c]] = "PENDING" => i \notin filled
        BY <4>1 DEF IInv, StatusTellsStock
      <4>. QED  BY <3>1, <4>1, <4>2 DEF Exact, StatusStands, ItemsOf
    <3>3. /\ status' = [status EXCEPT ![req[c]] = "CANCELLED"]
          /\ Return(c) /\ UNCHANGED taken
      BY <1>3, <2>2, <3>2 DEF WriteStatus
    <3>4. status[req[c]] # "PROCESSED"
      BY <3>2 DEF Exact, StatusStands
    <3>5. DeductedExactly'
      BY <3>1, <3>3, <3>4, RequisitionAssumption DEF Exact, DeductedExactly, IInv, TypeOK
    <3>. QED  BY <3>1, <3>3, <3>5, ExactWrite DEF Exact, Status
  <2>. QED  BY <2>1, <2>2
<1>4. CASE Insert(c) \/ DropRow(c)
  BY <1>4, ExactReturn DEF Insert, DropRow
<1>5. CASE Recheck(c)
  <2>1. CASE row[req[c]] = "live" /\ status[req[c]] = "PENDING"
    BY <1>1, <1>5, <2>1 DEF Recheck, NextItem, Goto, IInv, TypeOK
  <2>2. CASE ~(row[req[c]] = "live" /\ status[req[c]] = "PENDING")
    BY <1>5, <2>2, ExactReturn DEF Recheck
  <2>. QED  BY <2>1, <2>2
<1>6. CASE WriteItem(c)
  <2>1. CASE op[c] = "approve" /\ row[req[c]] # "live"
    BY <1>6, <2>1, ExactReturn DEF WriteItem
  <2>2. CASE ~(op[c] = "approve" /\ row[req[c]] # "live")
    BY <1>1, <1>6, <2>2 DEF WriteItem, NextItem, Goto, IInv, TypeOK
  <2>. QED  BY <2>1, <2>2
<1>7. CASE WriteProduct(c)
  BY <1>1, <1>7 DEF WriteProduct, NextItem, Goto, IInv, TypeOK
<1>8. CASE ReadItems(c)
  <2>1. CASE NoItemPending(req[c])
    BY <1>1, <1>8, <2>1 DEF ReadItems, Goto, IInv, TypeOK
  <2>2. CASE ~NoItemPending(req[c])
    BY <1>8, <2>2, ExactReturn DEF ReadItems
  <2>. QED  BY <2>1, <2>2
<1>. QED  BY <1>2, <1>3, <1>4, <1>5, <1>6, <1>7, <1>8 DEF Step

\* With one request per requisition at a time the stock of an item is deducted
\* once if its requisition is PROCESSED, and not at all otherwise: what the
\* comment in approve promises, under the condition it needs.
THEOREM RequisitionDeductedExactly ==
  Spec /\ []OnePerRequisition => []DeductedExactly
<1>1. IInv /\ OnePerRequisition /\ Exact /\ [Next]_vars => Exact'
  <2>. SUFFICES ASSUME IInv, OnePerRequisition, Exact, [Next]_vars PROVE Exact'
    OBVIOUS
  <2>1. CASE UNCHANGED vars
    BY <2>1 DEF vars, Exact, DeductedExactly, StatusStands
  <2>2. ASSUME NEW c \in Call, Victim(c) \/ Fail(c) PROVE Exact'
    BY <2>2, ExactReturn DEF Victim, Fail
  <2>. QED  BY <2>1, <2>2, ExactBegin, ExactStep DEF Next
<1>2. Exact => DeductedExactly
  BY DEF Exact
<1>. QED  BY <1>1, <1>2, ExactInit, RequisitionInvariant, PTL DEF Spec
=============================================================================
