--------------------------- MODULE SeparationOrder ---------------------------
(***************************************************************************)
(* One separation order: the row, its items and the requests that start    *)
(* it, separate its items and check them.  Every handler reads the row,    *)
(* decides, and writes by id alone in a later statement; none of them uses *)
(* a transaction.  One action is the code between two awaits, so requests  *)
(* interleave between the read that admits them and the write they make.   *)
(*                                                                         *)
(* order-status-machine.ts lets an order leave EM_PRODUCAO only when its   *)
(* separation order is CHECKED: what CHECKED implies about the items is    *)
(* what the rest of the system relies on.                                  *)
(***************************************************************************)
EXTENDS FiniteSets

CONSTANTS
    Item,       \* items of the order
    Request,    \* requests in flight at the same time
    NoItem,     \* the request is about the order, not about an item
    Failing     \* those that a rejected query or a dying process may end

ASSUME SeparationAssumption ==
    /\ NoItem \notin Item
    /\ Failing \subseteq Request

VARIABLES
    row,        \* the separation_orders row: absent, live or deletedAt set
    status,     \* its status
    marked,     \* marked["separate"]: isSeparated; marked["check"]: isChecked
    pc,         \* the next statement of each request
    op,         \* the handler it runs
    item        \* the item it is about

vars == <<row, status, marked, pc, op, item>>

Status == {"PENDING", "IN_PROGRESS", "SEPARATED", "CHECKED"}
ItemOp == {"separate", "check"}
Op == ItemOp \cup {"start"}
PC == {"idle", "item", "mark", "reread", "write"}

\* The status a handler asks for, and the one it writes.
Requires(o) ==
    CASE o = "start" -> "PENDING"
      [] o = "separate" -> "IN_PROGRESS"
      [] o = "check" -> "SEPARATED"

Writes(o) ==
    CASE o = "start" -> "IN_PROGRESS"
      [] o = "separate" -> "SEPARATED"
      [] o = "check" -> "CHECKED"

Init ==
    /\ row = "absent"
    /\ status = "PENDING"
    /\ marked = [o \in ItemOp |-> {}]
    /\ pc = [r \in Request |-> "idle"]
    /\ op = [r \in Request |-> "start"]
    /\ item = [r \in Request |-> NoItem]

-----------------------------------------------------------------------------
\* The request is over; its slot takes another one later.
Return(r) ==
    /\ pc' = [pc EXCEPT ![r] = "idle"]
    /\ op' = [op EXCEPT ![r] = "start"]
    /\ item' = [item EXCEPT ![r] = NoItem]

\* The code OS-<orderNumber> is unique, so an order gets one row at most.
Create ==
    /\ row = "absent"
    /\ row' = "live"
    /\ UNCHANGED <<status, marked, pc, op, item>>

\* Mutant of Admits: an item may be checked as soon as the order is started.
AdmitsEarlyCheck(o) ==
    /\ row = "live"
    /\ \/ status = Requires(o)
       \/ o = "check" /\ status = "IN_PROGRESS"

\* Mutant of Admits: items may be separated before the order is started.
AdmitsUnstarted(o) ==
    /\ row = "live"
    /\ \/ status = Requires(o)
       \/ o = "separate" /\ status = "PENDING"

\* The handler's first read admits the request.
Admits(o) == row = "live" /\ status = Requires(o)

Open(r) ==
    /\ pc[r] = "idle"
    /\ \E o \in Op :
        /\ Admits(o)
        /\ op' = [op EXCEPT ![r] = o]
        /\ IF o = "start"
             THEN /\ pc' = [pc EXCEPT ![r] = "write"]
                  /\ UNCHANGED item
             ELSE /\ pc' = [pc EXCEPT ![r] = "item"]
                  /\ \E i \in Item : item' = [item EXCEPT ![r] = i]
    /\ UNCHANGED <<row, status, marked>>

\* The second read: an item is separated once, and checked once and only
\* when it is separated.
MayMark(o, i) ==
    /\ i \notin marked[o]
    /\ o = "check" => i \in marked["separate"]

ReadItem(r) ==
    /\ pc[r] = "item"
    /\ IF MayMark(op[r], item[r])
         THEN pc' = [pc EXCEPT ![r] = "mark"] /\ UNCHANGED <<op, item>>
         ELSE Return(r)
    /\ UNCHANGED <<row, status, marked>>

MarkItem(r) ==
    /\ pc[r] = "mark"
    /\ marked' = [marked EXCEPT ![op[r]] = @ \cup {item[r]}]
    /\ pc' = [pc EXCEPT ![r] = "reread"]
    /\ UNCHANGED <<row, status, op, item>>

\* Mutant of AllMarked: the last item is not waited for.
AlmostAllMarked(o) == \E i \in Item : Item \ marked[o] \subseteq {i}

\* Every item carries the mark of handler o.
AllMarked(o) == marked[o] = Item

\* Mutant of Reread: decides on the items as they were read on admission.
RereadNothing(r) ==
    /\ pc[r] = "reread"
    /\ IF row = "live" /\ AllMarked(op[r]) /\ item[r] \notin marked[op[r]]
         THEN pc' = [pc EXCEPT ![r] = "write"] /\ UNCHANGED <<op, item>>
         ELSE Return(r)
    /\ UNCHANGED <<row, status, marked>>

\* The third read; the row may have been deleted meanwhile, which throws.
Reread(r) ==
    /\ pc[r] = "reread"
    /\ IF row = "live" /\ AllMarked(op[r])
         THEN pc' = [pc EXCEPT ![r] = "write"] /\ UNCHANGED <<op, item>>
         ELSE Return(r)
    /\ UNCHANGED <<row, status, marked>>

WriteStatus(r) ==
    /\ pc[r] = "write"
    /\ status' = Writes(op[r])
    /\ Return(r)
    /\ UNCHANGED <<row, marked>>

\* Deletes the row only; the items keep their marks.
Remove ==
    /\ row = "live"
    /\ row' = "deleted"
    /\ UNCHANGED <<status, marked, pc, op, item>>

\* A statement throws or the process dies: the rest of the handler is lost.
Fail(r) ==
    /\ r \in Failing
    /\ pc[r] # "idle"
    /\ Return(r)
    /\ UNCHANGED <<row, status, marked>>

Handler(r) == ReadItem(r) \/ MarkItem(r) \/ Reread(r) \/ WriteStatus(r)

Next ==
    \/ Create \/ Remove
    \/ \E r \in Request : Open(r) \/ Handler(r) \/ Fail(r)

Spec == Init /\ [][Next]_vars

\* A handler that was admitted runs to its end: Node.js resumes it when its
\* query returns.  Nobody is forced to send a request.
FairSpec == Spec /\ \A r \in Request : WF_vars(Handler(r))

-----------------------------------------------------------------------------
(* Properties.                                                             *)

TypeOK ==
    /\ row \in {"absent", "live", "deleted"}
    /\ status \in Status
    /\ marked \in [ItemOp -> SUBSET Item]
    /\ pc \in [Request -> PC]
    /\ op \in [Request -> Op]
    /\ item \in [Request -> Item \cup {NoItem}]

\* A SEPARATED order has every item separated and a CHECKED one has every
\* item checked as well, whatever the requests that raced for it: the
\* automatic transitions of separateItem and checkItem never run ahead of
\* the items.
StatusBacked ==
    /\ status \in {"SEPARATED", "CHECKED"} => marked["separate"] = Item
    /\ status = "CHECKED" => marked["check"] = Item

\* No item is checked before the whole order has been separated: the gate of
\* checkItem on the order's status stands in for a look at the other items.
ChecksFollowSeparation ==
    marked["check"] # {} => marked["separate"] = Item

\* What a request in flight knows: a check in flight was admitted by a
\* SEPARATED order, a request about to write a status saw every mark, and
\* the order of a request about an item was started.
RequestKnows ==
    \A r \in Request :
        /\ op[r] = "check" /\ pc[r] # "idle" => marked["separate"] = Item
        /\ pc[r] = "write" /\ op[r] # "start" => marked[op[r]] = Item
        /\ pc[r] \in {"item", "mark", "reread"} =>
               op[r] \in ItemOp /\ item[r] \in Item
        /\ pc[r] # "idle" => row # "absent"
        /\ pc[r] # "idle" /\ op[r] \in ItemOp => status # "PENDING"

\* The inductive invariant.
IInv == TypeOK /\ StatusBacked /\ ChecksFollowSeparation /\ RequestKnows

\* A mark is never taken back and a deleted order never comes back, so what
\* StatusBacked says of an order stays true of it.
MarksOnlyGrow ==
    [][ /\ \A o \in ItemOp : marked[o] \subseteq marked'[o]
        /\ row = "deleted" => row' = "deleted" ]_vars

\* The order as the rest of the system sees it: however requests overlap and
\* wherever they stop, the status leaves PENDING by start alone and never
\* returns, and a deleted order is not created again.
Contract == INSTANCE SeparationContract

ImplementsContract == Contract!Spec

\* Requests of different handlers do not overlap; those of one handler may.
PhasesApart ==
    \A q, r \in Request : pc[q] # "idle" /\ pc[r] # "idle" => op[q] = op[r]

\* A handler in flight finds the status it asked for, or the one it writes.
RequestIsCurrent ==
    \A r \in Request : pc[r] # "idle" => status \in {Requires(op[r]), Writes(op[r])}

\* PENDING, IN_PROGRESS, SEPARATED, CHECKED: one step at a time and none back.
AdvancesOrStays ==
    status' # status => \E o \in Op : status = Requires(o) /\ status' = Writes(o)

StatusAdvances == [][AdvancesOrStays]_vars

\* The status lags behind complete marks only as long as a handler that is
\* about to find them complete is in flight.
NoneForgotten ==
    \A o \in ItemOp :
        row = "live" /\ AllMarked(o) /\ Item # {} =>
            \/ status = "CHECKED"
            \/ status = Writes(o)
            \/ \E r \in Request : op[r] = o /\ pc[r] \in {"reread", "write"}

\* The last separation settles the order: a separateItem that is not cut off
\* and has marked its item while every item is separated takes the order out
\* of IN_PROGRESS, whatever the other requests do or leave half-done.
SeparationSettles ==
    \A r \in Request \ Failing :
        (row = "live" /\ op[r] = "separate" /\ pc[r] = "reread" /\ AllMarked("separate"))
            ~> (row # "live" \/ status # "IN_PROGRESS")
=============================================================================
