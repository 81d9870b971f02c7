------------------------ MODULE SeparationOrderProofs ------------------------
(***************************************************************************)
(* Theorems about SeparationOrder, for any number of items and requests.   *)
(* The inductive invariant adds to the two properties what a request in    *)
(* flight knows: marks are never taken back, so a request that saw all of  *)
(* them may write its status any time later, over any status.              *)
(* While only requests of one handler overlap, the write comes in time: the *)
(* last two sections.                                                       *)
(***************************************************************************)
EXTENDS SeparationOrder, TLAPS

\* The initial state satisfies the inductive invariant.
LEMMA InitIInv == Init => IInv
  BY DEF Init, IInv, TypeOK, StatusBacked, ChecksFollowSeparation, RequestKnows,
         Status, ItemOp, Op, PC

\* A request that ends knows nothing any more.
LEMMA ReturnPreserves ==
  ASSUME IInv, NEW r \in Request, Return(r), UNCHANGED <<row, status, marked>>
  PROVE  IInv'
<1>1. TypeOK'
  BY DEF IInv, TypeOK, Return, Op, PC
<1>2. StatusBacked' /\ ChecksFollowSeparation'
  BY DEF IInv, StatusBacked, ChecksFollowSeparation
<1>3. RequestKnows'
  BY DEF IInv, TypeOK, RequestKnows, Return
<1>. QED  BY <1>1, <1>2, <1>3 DEF IInv

\* Admission: a check is admitted by a SEPARATED order only.
LEMMA OpenPreserves ==
  ASSUME IInv, NEW r \in Request, Open(r)
  PROVE  IInv'
<1>1. PICK o \in Op :
        /\ Admits(o)
        /\ op' = [op EXCEPT ![r] = o]
        /\ IF o = "start"
             THEN pc' = [pc EXCEPT ![r] = "write"] /\ UNCHANGED item
             ELSE /\ pc' = [pc EXCEPT ![r] = "item"]
                  /\ \E i \in Item : item' = [item EXCEPT ![r] = i]
  BY DEF Open
<1>2. UNCHANGED <<row, status, marked>>
  BY DEF Open
<1>3. o = "check" => marked["separate"] = Item
  BY <1>1 DEF IInv, StatusBacked, Admits, Requires
<1>4. TypeOK'
  BY <1>1, <1>2 DEF IInv, TypeOK, PC
<1>5. StatusBacked' /\ ChecksFollowSeparation'
  BY <1>2 DEF IInv, StatusBacked, ChecksFollowSeparation
<1>6. RequestKnows'
  BY <1>1, <1>2, <1>3 DEF IInv, TypeOK, RequestKnows, Op, ItemOp, Admits, Requires
<1>. QED  BY <1>4, <1>5, <1>6 DEF IInv

\* The check of the item.
LEMMA ReadItemPreserves ==
  ASSUME IInv, NEW r \in Request, ReadItem(r)
  PROVE  IInv'
<1>1. CASE MayMark(op[r], item[r])
  <2>1. /\ pc[r] = "item"
        /\ pc' = [pc EXCEPT ![r] = "mark"]
        /\ UNCHANGED <<row, status, marked, op, item>>
    BY <1>1 DEF ReadItem
  <2>2. TypeOK'
    BY <2>1 DEF IInv, TypeOK, PC
  <2>3. StatusBacked' /\ ChecksFollowSeparation'
    BY <2>1 DEF IInv, StatusBacked, ChecksFollowSeparation
  <2>4. RequestKnows'
    BY <2>1 DEF IInv, TypeOK, RequestKnows
  <2>. QED  BY <2>2, <2>3, <2>4 DEF IInv
<1>2. CASE ~MayMark(op[r], item[r])
  BY <1>2, ReturnPreserves DEF ReadItem
<1>. QED  BY <1>1, <1>2

\* Marking an item: complete sets of marks stay complete, and the marks of
\* a check are made while every item is separated.
LEMMA MarkItemPreserves ==
  ASSUME IInv, NEW r \in Request, MarkItem(r)
  PROVE  IInv'
<1>1. /\ pc[r] = "mark"
      /\ op[r] \in ItemOp
      /\ item[r] \in Item
      /\ op[r] = "check" => marked["separate"] = Item
  BY DEF MarkItem, IInv, RequestKnows
<1>2. /\ marked' = [marked EXCEPT ![op[r]] = @ \cup {item[r]}]
      /\ pc' = [pc EXCEPT ![r] = "reread"]
      /\ UNCHANGED <<row, status, op, item>>
  BY DEF MarkItem
<1>3. TypeOK'
  BY <1>1, <1>2 DEF IInv, TypeOK, PC
<1>4. \A o \in ItemOp : marked[o] = Item => marked'[o] = Item
  BY <1>1, <1>2 DEF IInv, TypeOK
<1>5. op[r] = "separate" => marked'["check"] = marked["check"]
  BY <1>2 DEF IInv, TypeOK, ItemOp
<1>6. StatusBacked'
  BY <1>2, <1>4 DEF IInv, StatusBacked, ItemOp
<1>7. ChecksFollowSeparation'
  BY <1>1, <1>4, <1>5 DEF IInv, ChecksFollowSeparation, ItemOp
<1>8. RequestKnows'
  <2>. SUFFICES ASSUME NEW q \in Request
       PROVE  /\ op'[q] = "check" /\ pc'[q] # "idle" => marked'["separate"] = Item
              /\ pc'[q] = "write" /\ op'[q] # "start" => marked'[op'[q]] = Item
              /\ pc'[q] \in {"item", "mark", "reread"} =>
                     op'[q] \in ItemOp /\ item'[q] \in Item
              /\ pc'[q] # "idle" => row' # "absent"
              /\ pc'[q] # "idle" /\ op'[q] \in ItemOp => status' # "PENDING"
    BY DEF RequestKnows
  <2>1. pc'[q] # pc[q] => q = r /\ pc'[q] = "reread"
    BY <1>2 DEF IInv, TypeOK
  <2>2. op[q] \in Op
    BY DEF IInv, TypeOK
  <2>. QED  BY <1>1, <1>2, <1>4, <2>1, <2>2 DEF IInv, RequestKnows, Op, ItemOp
<1>. QED  BY <1>3, <1>6, <1>7, <1>8 DEF IInv

\* The automatic transition is decided on a complete set of marks.
LEMMA RereadPreserves ==
  ASSUME IInv, NEW r \in Request, Reread(r)
  PROVE  IInv'
<1>1. CASE row = "live" /\ AllMarked(op[r])
  <2>1. /\ pc[r] = "reread"
        /\ pc' = [pc EXCEPT ![r] = "write"]
        /\ UNCHANGED <<row, status, marked, op, item>>
    BY <1>1 DEF Reread
  <2>2. TypeOK'
    BY <2>1 DEF IInv, TypeOK, PC
  <2>3. StatusBacked' /\ ChecksFollowSeparation'
    BY <2>1 DEF IInv, StatusBacked, ChecksFollowSeparation
  <2>4. RequestKnows'
    BY <1>1, <2>1 DEF IInv, TypeOK, RequestKnows, AllMarked
  <2>. QED  BY <2>2, <2>3, <2>4 DEF IInv
<1>2. CASE ~(row = "live" /\ AllMarked(op[r]))
  BY <1>2, ReturnPreserves DEF Reread
<1>. QED  BY <1>1, <1>2

\* The unconditional write of the status, however late it comes.
LEMMA WriteStatusPreserves ==
  ASSUME IInv, NEW r \in Request, WriteStatus(r)
  PROVE  IInv'
<1>1. /\ pc[r] = "write"
      /\ op[r] \in Op
      /\ op[r] = "check" => marked["separate"] = Item
      /\ op[r] # "start" => marked[op[r]] = Item
  BY DEF WriteStatus, IInv, TypeOK, RequestKnows
<1>2. status' = Writes(op[r]) /\ Return(r) /\ UNCHANGED <<row, marked>>
  BY DEF WriteStatus
<1>3. TypeOK'
  BY <1>1, <1>2 DEF IInv, TypeOK, Return, Writes, Op, ItemOp, PC, Status
<1>4. StatusBacked'
  BY <1>1, <1>2 DEF StatusBacked, Writes, Op, ItemOp
<1>5. ChecksFollowSeparation'
  BY <1>2 DEF IInv, ChecksFollowSeparation
<1>6. RequestKnows'
  BY <1>1, <1>2 DEF IInv, TypeOK, RequestKnows, Return, Writes, Op, ItemOp
<1>. QED  BY <1>3, <1>4, <1>5, <1>6 DEF IInv

\* Every step preserves the inductive invariant.
LEMMA NextIInv == IInv /\ [Next]_vars => IInv'
<1>. SUFFICES ASSUME IInv, [Next]_vars PROVE IInv'
  OBVIOUS
<1>1. CASE Create \/ Remove
  BY <1>1 DEF Create, Remove, IInv, TypeOK, StatusBacked, ChecksFollowSeparation,
              RequestKnows
<1>2. ASSUME NEW r \in Request, Open(r) PROVE IInv'
  BY <1>2, OpenPreserves
<1>3. ASSUME NEW r \in Request, Handler(r) PROVE IInv'
  BY <1>3, ReadItemPreserves, MarkItemPreserves, RereadPreserves,
     WriteStatusPreserves DEF Handler
<1>4. ASSUME NEW r \in Request, Fail(r) PROVE IInv'
  BY <1>4, ReturnPreserves DEF Fail
<1>5. CASE UNCHANGED vars
  BY <1>5 DEF vars, IInv, TypeOK, StatusBacked, ChecksFollowSeparation,
              RequestKnows
<1>. QED  BY <1>1, <1>2, <1>3, <1>4, <1>5 DEF Next

\* The inductive invariant holds in every reachable state.
THEOREM SeparationInvariant == Spec => []IInv
<1>. QED  BY InitIInv, NextIInv, PTL DEF Spec

\* Rows and slots hold what their types say.
THEOREM SeparationTypes == Spec => []TypeOK
<1>1. IInv => TypeOK
  BY DEF IInv
<1>. QED  BY <1>1, SeparationInvariant, PTL

\* SEPARATED and CHECKED are backed by the marks of every item, for every
\* interleaving of the requests and for every handler that stops half-way.
THEOREM SeparationBacked == Spec => []StatusBacked
<1>1. IInv => StatusBacked
  BY DEF IInv
<1>. QED  BY <1>1, SeparationInvariant, PTL

\* No item is checked before all are separated, although no handler looks at
\* the other items.
THEOREM SeparationBeforeChecks == Spec => []ChecksFollowSeparation
<1>1. IInv => ChecksFollowSeparation
  BY DEF IInv
<1>. QED  BY <1>1, SeparationInvariant, PTL

\* No step takes a mark back or revives a deleted order.
LEMMA NextKeepsMarks ==
  ASSUME TypeOK, [Next]_vars
  PROVE  /\ \A o \in ItemOp : marked[o] \subseteq marked'[o]
         /\ row = "deleted" => row' = "deleted"
<1>1. CASE Create \/ Remove
  BY <1>1 DEF Create, Remove
<1>2. ASSUME NEW r \in Request, Open(r) \/ Fail(r) \/ Handler(r)
      PROVE  /\ \A o \in ItemOp : marked[o] \subseteq marked'[o]
             /\ UNCHANGED row
  BY <1>2 DEF TypeOK, Open, Fail, Handler, ReadItem, MarkItem, Reread, WriteStatus
<1>3. CASE UNCHANGED vars
  BY <1>3 DEF vars
<1>. QED  BY <1>1, <1>2, <1>3 DEF Next

\* MarksOnlyGrow as a theorem: what StatusBacked says of an order is
\* never undone.
THEOREM SeparationMarksGrow == Spec => MarksOnlyGrow
<1>1. IInv /\ [Next]_vars =>
        [ /\ \A o \in ItemOp : marked[o] \subseteq marked'[o]
          /\ row = "deleted" => row' = "deleted" ]_vars
  BY NextKeepsMarks DEF IInv
<1>. QED  BY <1>1, SeparationInvariant, PTL DEF Spec, MarksOnlyGrow

\* Every step is one of the contract or leaves row and status alone: only
\* WriteStatus writes the status, of an order that exists and, unless it is
\* that of start, was started.
LEMMA StepKeepsContract ==
  ASSUME IInv, [Next]_vars
  PROVE  [Contract!Next]_<<row, status>>
<1>1. CASE Create \/ Remove
  BY <1>1 DEF Create, Remove, Contract!Next, Contract!Insert, Contract!Delete
<1>2. ASSUME NEW r \in Request, Open(r) \/ Fail(r) \/ ReadItem(r) \/ MarkItem(r) \/ Reread(r)
      PROVE  UNCHANGED <<row, status>>
  BY <1>2 DEF Open, Fail, ReadItem, MarkItem, Reread
<1>3. ASSUME NEW r \in Request, WriteStatus(r)
      PROVE  Contract!Start \/ Contract!Settle
  <2>1. /\ op[r] \in Op
        /\ row # "absent"
        /\ op[r] \in ItemOp => status # "PENDING"
    BY <1>3 DEF IInv, TypeOK, RequestKnows, WriteStatus
  <2>2. status' = Writes(op[r]) /\ UNCHANGED row
    BY <1>3 DEF WriteStatus
  <2>. QED
    BY <2>1, <2>2 DEF Writes, Op, ItemOp, Contract!Start, Contract!Settle
<1>4. CASE UNCHANGED vars
  BY <1>4 DEF vars
<1>. QED  BY <1>1, <1>2, <1>3, <1>4 DEF Next, Handler, Contract!Next

\* The requests of a separation order implement the contract that the rest
\* of the system relies on.
THEOREM SeparationImplements == Spec => ImplementsContract
<1>1. Init => Contract!Init
  BY DEF Init, Contract!Init
<1>2. IInv /\ [Next]_vars => [Contract!Next]_<<row, status>>
  BY StepKeepsContract
<1>. QED  BY <1>1, <1>2, SeparationInvariant, PTL DEF Spec, ImplementsContract, Contract!Spec

-----------------------------------------------------------------------------
(* Handlers of one kind at a time: what a late write takes back otherwise.  *)

\* A request that ends takes nothing with it that the others rely on.
LEMMA OthersGoOn ==
  ASSUME IInv, NEW r \in Request, Return(r)
  PROVE  /\ pc'[r] = "idle"
         /\ \A q \in Request \ {r} : pc'[q] = pc[q] /\ op'[q] = op[q]
  BY DEF Return, IInv, TypeOK

LEMMA CurrentOpen ==
  ASSUME IInv, RequestIsCurrent, NEW r \in Request, Open(r)
  PROVE  RequestIsCurrent'
<1>1. PICK o \in Op : Admits(o) /\ op' = [op EXCEPT ![r] = o]
  BY DEF Open
<1>2. /\ op'[r] = o /\ status = Requires(o)
      /\ \A q \in Request \ {r} : pc'[q] = pc[q] /\ op'[q] = op[q]
  BY <1>1 DEF Open, Admits, IInv, TypeOK
<1>3. UNCHANGED status
  BY DEF Open
<1>. QED  BY <1>2, <1>3 DEF RequestIsCurrent

\* The write lands on the status it was decided for, or on itself.
LEMMA CurrentWrite ==
  ASSUME IInv, PhasesApart, RequestIsCurrent, NEW r \in Request, WriteStatus(r)
  PROVE  RequestIsCurrent' /\ AdvancesOrStays
<1>1. /\ op[r] \in Op /\ pc[r] = "write" /\ status' = Writes(op[r])
      /\ status \in {Requires(op[r]), Writes(op[r])}
  BY DEF WriteStatus, IInv, TypeOK, RequestIsCurrent
<1>2. \A q \in Request : pc[q] # "idle" => op[q] = op[r]
  BY <1>1 DEF PhasesApart
<1>3. RequestIsCurrent'
  BY <1>1, <1>2, OthersGoOn DEF RequestIsCurrent, WriteStatus
<1>. QED  BY <1>1, <1>3 DEF AdvancesOrStays

LEMMA CurrentNext ==
  ASSUME IInv, PhasesApart, RequestIsCurrent, [Next]_vars
  PROVE  RequestIsCurrent' /\ AdvancesOrStays
<1>1. CASE Create \/ Remove \/ UNCHANGED vars
  BY <1>1 DEF Create, Remove, vars, RequestIsCurrent, AdvancesOrStays
<1>2. ASSUME NEW r \in Request, Open(r)
      PROVE  RequestIsCurrent' /\ AdvancesOrStays
  BY <1>2, CurrentOpen DEF Open, AdvancesOrStays
<1>3. ASSUME NEW r \in Request, WriteStatus(r)
      PROVE  RequestIsCurrent' /\ AdvancesOrStays
  BY <1>3, CurrentWrite
<1>4. ASSUME NEW r \in Request, ReadItem(r) \/ MarkItem(r) \/ Reread(r) \/ Fail(r)
      PROVE  RequestIsCurrent' /\ AdvancesOrStays
  <2>1. UNCHANGED status
    BY <1>4 DEF ReadItem, MarkItem, Reread, Fail
  <2>2. \A q \in Request : pc'[q] # "idle" => pc[q] # "idle" /\ op'[q] = op[q]
    <3>1. CASE Return(r)
      BY <1>4, <3>1, OthersGoOn DEF ReadItem, MarkItem, Reread, Fail
    <3>2. CASE ~Return(r)
      BY <1>4, <3>2 DEF ReadItem, MarkItem, Reread, Fail, IInv, TypeOK
    <3>. QED  BY <3>1, <3>2
  <2>. QED  BY <2>1, <2>2 DEF RequestIsCurrent, AdvancesOrStays
<1>. QED  BY <1>1, <1>2, <1>3, <1>4 DEF Next, Handler

LEMMA CurrentInvariant == Spec /\ []PhasesApart => []RequestIsCurrent
<1>1. Init => RequestIsCurrent
  BY DEF Init, RequestIsCurrent
<1>2. IInv /\ PhasesApart /\ RequestIsCurrent /\ [Next]_vars => RequestIsCurrent'
  BY CurrentNext
<1>. QED  BY <1>1, <1>2, SeparationInvariant, PTL DEF Spec

\* However many requests of one handler overlap, the status only advances.
THEOREM SeparationStatusAdvances == Spec /\ []PhasesApart => StatusAdvances
<1>1. IInv /\ PhasesApart /\ RequestIsCurrent /\ [Next]_vars => [AdvancesOrStays]_vars
  BY CurrentNext
<1>. QED  BY <1>1, CurrentInvariant, SeparationInvariant, PTL DEF Spec, StatusAdvances

-----------------------------------------------------------------------------
(* With no handler cut off, complete marks are acted upon.                  *)

\* An order that does not exist yet has no marks.
MarksNeedRow == row = "absent" => \A o \in ItemOp : marked[o] = {}

\* A request that finds the marks of its handler complete, and writes next.
Settling(o) == \E r \in Request : op[r] = o /\ pc[r] \in {"reread", "write"}

LEMMA RowNext ==
  ASSUME IInv, MarksNeedRow, [Next]_vars
  PROVE  MarksNeedRow'
<1>1. ASSUME NEW r \in Request, MarkItem(r)
      PROVE  MarksNeedRow'
  <2>1. row # "absent" /\ UNCHANGED row
    BY <1>1 DEF MarkItem, IInv, RequestKnows
  <2>. QED  BY <2>1 DEF MarksNeedRow
<1>2. ASSUME NEW r \in Request,
             Open(r) \/ ReadItem(r) \/ Reread(r) \/ WriteStatus(r) \/ Fail(r)
      PROVE  MarksNeedRow'
  BY <1>2 DEF Open, ReadItem, Reread, WriteStatus, Fail, MarksNeedRow
<1>3. CASE Create \/ Remove \/ UNCHANGED vars
  BY <1>3 DEF Create, Remove, vars, MarksNeedRow
<1>. QED  BY <1>1, <1>2, <1>3 DEF Next, Handler

\* A request that settles keeps at it unless it writes.
LEMMA SettlingStays ==
  ASSUME IInv, NEW r \in Request, Open(r) \/ ReadItem(r) \/ MarkItem(r),
         NEW o \in ItemOp, Settling(o)
  PROVE  Settling(o)'
<1>1. PICK q \in Request : op[q] = o /\ pc[q] \in {"reread", "write"}
  BY DEF Settling
<1>2. q # r
  BY <1>1 DEF Open, ReadItem, MarkItem
<1>3. pc'[q] = pc[q] /\ op'[q] = op[q]
  BY <1>2 DEF Open, ReadItem, MarkItem, Return, IInv, TypeOK
<1>. QED  BY <1>1, <1>3 DEF Settling

LEMMA ForgottenMark ==
  ASSUME IInv, NoneForgotten, NEW r \in Request, MarkItem(r)
  PROVE  NoneForgotten'
<1>. SUFFICES ASSUME NEW o \in ItemOp, row' = "live", AllMarked(o)', Item # {},
                     status' # "CHECKED", status' # Writes(o)
              PROVE  Settling(o)'
  BY DEF NoneForgotten, Settling
<1>1. UNCHANGED <<row, status, op>>
  BY DEF MarkItem
<1>2. CASE op[r] = o
  <2>1. pc'[r] = "reread"
    BY DEF MarkItem, IInv, TypeOK
  <2>. QED  BY <1>1, <1>2, <2>1 DEF Settling
<1>3. CASE op[r] # o
  <2>1. AllMarked(o)
    BY <1>3 DEF MarkItem, AllMarked, IInv, TypeOK
  <2>. QED  BY <1>1, <2>1, SettlingStays DEF NoneForgotten, Settling
<1>. QED  BY <1>2, <1>3

LEMMA ForgottenReread ==
  ASSUME IInv, NoneForgotten, NEW r \in Request, Reread(r)
  PROVE  NoneForgotten'
<1>. SUFFICES ASSUME NEW o \in ItemOp, row' = "live", AllMarked(o)', Item # {},
                     status' # "CHECKED", status' # Writes(o)
              PROVE  Settling(o)'
  BY DEF NoneForgotten, Settling
<1>1. UNCHANGED <<row, status, marked>> /\ pc[r] = "reread"
  BY DEF Reread
<1>2. PICK q \in Request : op[q] = o /\ pc[q] \in {"reread", "write"}
  BY <1>1 DEF NoneForgotten, AllMarked
<1>3. CASE q = r
  <2>1. pc'[r] = "write" /\ op'[r] = o
    BY <1>1, <1>2, <1>3 DEF Reread, AllMarked, IInv, TypeOK
  <2>. QED  BY <2>1 DEF Settling
<1>4. CASE q # r
  <2>1. pc'[q] = pc[q] /\ op'[q] = op[q]
    BY <1>4 DEF Reread, Return, IInv, TypeOK
  <2>. QED  BY <1>2, <2>1 DEF Settling
<1>. QED  BY <1>3, <1>4

\* While phases are apart the write is that of the marks that are complete.
LEMMA ForgottenWrite ==
  ASSUME IInv, PhasesApart, RequestIsCurrent, NoneForgotten,
         NEW r \in Request, WriteStatus(r)
  PROVE  NoneForgotten'
<1>. SUFFICES ASSUME NEW o \in ItemOp, row' = "live", AllMarked(o)', Item # {},
                     status' # "CHECKED", status' # Writes(o)
              PROVE  FALSE
  BY DEF NoneForgotten
<1>1. /\ op[r] \in Op /\ pc[r] = "write" /\ status' = Writes(op[r])
      /\ status \in {Requires(op[r]), Writes(op[r])}
      /\ UNCHANGED <<row, marked>>
  BY DEF WriteStatus, IInv, TypeOK, RequestIsCurrent
<1>2. op[r] # o /\ op[r] # "check"
  BY <1>1 DEF Writes
<1>3. status # "CHECKED" /\ status # Writes(o)
  BY <1>1, <1>2 DEF Requires, Writes, Op, ItemOp
<1>4. PICK q \in Request : op[q] = o /\ pc[q] \in {"reread", "write"}
  BY <1>1, <1>3 DEF NoneForgotten, AllMarked
<1>. QED  BY <1>1, <1>2, <1>4 DEF PhasesApart

LEMMA ForgottenNext ==
  ASSUME Failing = {}, IInv, PhasesApart, RequestIsCurrent, MarksNeedRow,
         NoneForgotten, [Next]_vars
  PROVE  NoneForgotten'
<1>1. ASSUME NEW r \in Request, Open(r) \/ ReadItem(r)
      PROVE  NoneForgotten'
  <2>1. UNCHANGED <<row, status, marked>>
    BY <1>1 DEF Open, ReadItem
  <2>2. \A o \in ItemOp : Settling(o) => Settling(o)'
    BY <1>1, SettlingStays
  <2>. QED  BY <2>1, <2>2 DEF NoneForgotten, AllMarked, Settling
<1>2. ASSUME NEW r \in Request, MarkItem(r) \/ Reread(r) \/ WriteStatus(r)
      PROVE  NoneForgotten'
  BY <1>2, ForgottenMark, ForgottenReread, ForgottenWrite
<1>3. CASE Create
  BY <1>3 DEF Create, NoneForgotten, AllMarked, MarksNeedRow
<1>4. CASE Remove \/ UNCHANGED vars
  BY <1>4 DEF Remove, vars, NoneForgotten, AllMarked
<1>. QED  BY <1>1, <1>2, <1>3, <1>4 DEF Next, Handler, Fail

\* An order whose items are all separated, or all checked, says so once the
\* handlers that marked them are through: the last of them always notices.
THEOREM SeparationNoneForgotten ==
  ASSUME Failing = {}
  PROVE  Spec /\ []PhasesApart => []NoneForgotten
<1>1. Init => MarksNeedRow /\ NoneForgotten
  BY DEF Init, MarksNeedRow, NoneForgotten
<1>2. IInv /\ MarksNeedRow /\ [Next]_vars => MarksNeedRow'
  BY RowNext
<1>3. IInv /\ PhasesApart /\ RequestIsCurrent /\ MarksNeedRow /\ NoneForgotten
        /\ [Next]_vars => NoneForgotten'
  BY ForgottenNext
<1>. QED  BY <1>1, <1>2, <1>3, CurrentInvariant, SeparationInvariant, PTL DEF Spec
=============================================================================
