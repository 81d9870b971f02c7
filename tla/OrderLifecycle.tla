--------------------------- MODULE OrderLifecycle ---------------------------
(***************************************************************************)
(* One customer order: its status machine, the requests that drive it, the *)
(* listeners of order.status.changed and the rows they keep beside the     *)
(* order (receivables, the production order, the separation order).        *)
(*                                                                         *)
(* changeStatus reads the order, validates the transition, writes the      *)
(* status by id, inserts a history row and emits the event; nobody awaits  *)
(* the listeners, which issue their own statements one at a time.  There   *)
(* is no transaction around any of this.  One action is the code between   *)
(* two awaits.  A slot (Call) runs one request and then the listener its   *)
(* event started; with one slot requests and listeners never overlap.      *)
(***************************************************************************)
EXTENDS Naturals, Sequences, FiniteSets

CONSTANTS
    Call,       \* slots for requests and listeners that overlap
    Totals,     \* totals an order may have, in cents
    Payments,   \* amounts an operator may register, in cents
    Classes,    \* classifications of products: subset of Class
    Ops,        \* the other requests a run considers
    MaxFailures \* bound on how often a statement fails or the process dies

Class == {"own", "bought"}   \* FABRICACAO_PROPRIA; REVENDA or INSUMO
OtherOp == {"edit", "pay", "delete", "supply", "production", "separation"}

ASSUME OrderAssumption ==
    /\ Totals \subseteq Nat /\ Totals # {}
    /\ Payments \subseteq Nat
    /\ Classes \subseteq Class
    /\ Ops \subseteq OtherOp
    /\ MaxFailures \in Nat

VARIABLES
    status,     \* orders.status
    gone,       \* orders.deletedAt is set
    total,      \* orders.totalCents
    paid,       \* orders.paidAmountCents
    proof,      \* orders.paymentProofUrl is set
    priced,     \* there are items and each has a unit price
    class,      \* classifications of the items' products
    snap,       \* classificationSnapshot of the items
    ready,      \* every supply of the items is READY
    history,    \* order_status_history rows
    ar,         \* account_receivable rows of the order, oldest first
    poRow, po,  \* the production order's row and status
    soRow, so,  \* the separation order's row and status
    held,       \* every status the row ever had (not in the code)
    pc,         \* the next statement of each slot
    want,       \* what the slot is about to write
    from,       \* the status its request read
    seen,       \* what its listener read of the order
    failures    \* failures so far, for the bound

orderVars == <<status, gone, total, paid, proof, priced, class, snap, ready, held>>
poVars == <<poRow, po>>
soVars == <<soRow, so>>
slotVars == <<pc, want, from, seen, failures>>
vars == <<orderVars, history, ar, poVars, soVars, slotVars>>

Status == {"EM_ORCAMENTO", "FATURAR", "FATURADO", "PRODUZIR", "EM_PRODUCAO",
           "PRODUZIDO", "ENTREGUE", "CANCELADO"}
Invoiced == {"FATURAR", "FATURADO", "PRODUZIR", "EM_PRODUCAO", "PRODUZIDO",
             "ENTREGUE"}
Row == {"absent", "live", "deleted"}
PoStatus == {"PENDING", "IN_PROGRESS", "COMPLETED", "CANCELLED"}
SoStatus == {"PENDING", "IN_PROGRESS", "SEPARATED", "CHECKED"}
PoOp == {"start", "complete", "cancel"}

\* Writes a slot may have pending besides a status of the order.
OtherWrite == PoOp \cup {"edit", "delete", "create production"}

PC == {"idle", "write", "record",
       "read total", "find receivable", "first parcel", "second parcel",
       "read items", "find production", "split production", "split separation",
       "cancel receivables", "cancel production", "cancel separation",
       "find pending", "settle"}

\* The row that create inserts with the order ("Pedido criado").
CreationRow == <<"EM_ORCAMENTO", "EM_ORCAMENTO">>

Nothing == [total |-> 0, snap |-> {}, row |-> 0]

Init ==
    /\ status = "EM_ORCAMENTO" /\ held = {"EM_ORCAMENTO"}
    /\ gone = FALSE
    /\ total \in Totals
    /\ paid = 0 /\ proof = FALSE
    /\ priced \in BOOLEAN
    /\ class \in SUBSET Classes
    /\ \/ snap = class /\ history = {CreationRow}     \* orders of the API
       \/ snap = {} /\ history = {}                   \* orders of the seed
    /\ ready \in BOOLEAN /\ ("supply" \notin Ops => ready)
    /\ ar = << >>
    /\ poRow = "absent" /\ po = "PENDING"
    /\ soRow = "absent" /\ so = "PENDING"
    /\ pc = [c \in Call |-> "idle"]
    /\ want = [c \in Call |-> "edit"]
    /\ from = [c \in Call |-> "EM_ORCAMENTO"]
    /\ seen = [c \in Call |-> Nothing]
    /\ failures = 0

-----------------------------------------------------------------------------
(* Slots.                                                                  *)

Leave(c) ==
    /\ pc' = [pc EXCEPT ![c] = "idle"]
    /\ want' = [want EXCEPT ![c] = "edit"]
    /\ from' = [from EXCEPT ![c] = "EM_ORCAMENTO"]
    /\ seen' = [seen EXCEPT ![c] = Nothing]

Return(c) == Leave(c) /\ UNCHANGED failures

Goto(c, step) ==
    pc' = [pc EXCEPT ![c] = step] /\ UNCHANGED <<want, from, failures>>

\* An admitted request is about to write w.
Admit(c, w) ==
    /\ pc[c] = "idle"
    /\ pc' = [pc EXCEPT ![c] = "write"]
    /\ want' = [want EXCEPT ![c] = w]
    /\ from' = [from EXCEPT ![c] = status]
    /\ UNCHANGED <<seen, failures>>

Writing(c, w) == pc[c] = "write" /\ want[c] = w

-----------------------------------------------------------------------------
(* changeStatus.                                                           *)

Transitions == [s \in Status |->
    CASE s = "EM_ORCAMENTO" -> {"FATURAR", "CANCELADO"}
      [] s = "FATURAR" -> {"FATURADO", "CANCELADO"}
      [] s = "FATURADO" -> {"PRODUZIR", "CANCELADO"}
      [] s = "PRODUZIR" -> {"EM_PRODUCAO"}
      [] s = "EM_PRODUCAO" -> {"PRODUZIDO"}
      [] s = "PRODUZIDO" -> {"ENTREGUE"}
      [] OTHER -> {}]

\* Math.ceil(totalCents / 2)
HalfUp(n) == (n + 1) \div 2

\* Mutant of Guard: an order without production orders may be PRODUZIDO, as
\* it may without separation orders.
GuardIfAny(s) ==
    /\ s = "FATURAR" => priced /\ total > 0 /\ paid >= HalfUp(total) /\ proof
    /\ s = "PRODUZIDO" => (poRow = "live" => po = "COMPLETED") /\ ready
    /\ s = "ENTREGUE" => (total > 0 => paid >= total)

\* What the guards look at besides the flags of the request (bankReconciled,
\* deliveryChecked, reason), which a request may always carry.
Guard(s) ==
    /\ s = "FATURAR" =>
        priced /\ total > 0 /\ paid >= HalfUp(total) /\ proof
    /\ s = "PRODUZIDO" =>
        /\ poRow = "live" /\ po = "COMPLETED"
        /\ soRow = "live" => so = "CHECKED"
        /\ ready
    /\ s = "ENTREGUE" => (total > 0 => paid >= total)

\* Mutant of ChangeStatus: the guards are evaluated, the table is not.
ChangeAnyStatus(c) ==
    /\ ~gone
    /\ \E s \in Status : Guard(s) /\ Admit(c, s)
    /\ UNCHANGED <<orderVars, history, ar, poVars, soVars>>

ChangeStatus(c) ==
    /\ ~gone
    /\ \E s \in Transitions[status] : Guard(s) /\ Admit(c, s)
    /\ UNCHANGED <<orderVars, history, ar, poVars, soVars>>

WriteStatus(c) ==
    /\ \E s \in Status :
        /\ Writing(c, s)
        /\ status' = s
        /\ held' = held \cup {s}
    /\ Goto(c, "record")
    /\ UNCHANGED <<gone, total, paid, proof, priced, class, snap, ready>>
    /\ UNCHANGED <<history, ar, poVars, soVars, seen>>

\* The first statement of the listener that reacts to status s.
Reaction(s) ==
    CASE s = "FATURAR" -> "read total"
      [] s = "PRODUZIR" -> "read items"
      [] s = "CANCELADO" -> "cancel receivables"
      [] s = "ENTREGUE" -> "find pending"
      [] OTHER -> "idle"

\* Mutant of Record: fromStatus is what the row says by then.
RecordCurrent(c) ==
    /\ pc[c] = "record"
    /\ history' = history \cup {<<status, want[c]>>}
    /\ IF Reaction(want[c]) = "idle"
         THEN Return(c)
         ELSE Goto(c, Reaction(want[c])) /\ UNCHANGED seen
    /\ UNCHANGED <<orderVars, ar, poVars, soVars>>

\* The history row is inserted and the event emitted in the same turn.
Record(c) ==
    /\ pc[c] = "record"
    /\ history' = history \cup {<<from[c], want[c]>>}
    /\ IF Reaction(want[c]) = "idle"
         THEN Return(c)
         ELSE Goto(c, Reaction(want[c])) /\ UNCHANGED seen
    /\ UNCHANGED <<orderVars, ar, poVars, soVars>>

-----------------------------------------------------------------------------
(* The other requests on the order.                                        *)

\* Mutant of AskEdit: the status is not looked at.
AskEditAlways(c) ==
    /\ ~gone
    /\ \E w \in Ops \cap {"edit", "delete"} : Admit(c, w)
    /\ UNCHANGED <<orderVars, history, ar, poVars, soVars>>

\* update and remove read the status and write in a later statement.
AskEdit(c) ==
    /\ ~gone /\ status = "EM_ORCAMENTO"
    /\ \E w \in Ops \cap {"edit", "delete"} : Admit(c, w)
    /\ UNCHANGED <<orderVars, history, ar, poVars, soVars>>

\* The old items are replaced, with neither classification snapshots nor
\* supplies, and the total follows them.  An update without items changes nothing modelled.
WriteEdit(c) ==
    /\ Writing(c, "edit")
    /\ total' \in Totals
    /\ priced' \in BOOLEAN
    /\ class' \in SUBSET Classes
    /\ snap' = {}
    /\ ready' = TRUE
    /\ Return(c)
    /\ UNCHANGED <<status, gone, paid, proof, held>>
    /\ UNCHANGED <<history, ar, poVars, soVars>>

WriteDelete(c) ==
    /\ Writing(c, "delete")
    /\ gone' = TRUE
    /\ Return(c)
    /\ UNCHANGED <<status, total, paid, proof, priced, class, snap, ready, held>>
    /\ UNCHANGED <<history, ar, poVars, soVars>>

\* registerPayment: in any status, and the amount replaces the old one.
RegisterPayment ==
    /\ "pay" \in Ops
    /\ ~gone
    /\ paid' \in Payments
    /\ proof' \in {proof, TRUE}
    /\ UNCHANGED <<status, gone, total, priced, class, snap, ready, held>>
    /\ UNCHANGED <<history, ar, poVars, soVars, slotVars>>

\* addSupply and toggleSupply: in any status.
ChangeSupplies ==
    /\ "supply" \in Ops
    /\ ~gone
    /\ ready' = ~ready
    /\ UNCHANGED <<status, gone, total, paid, proof, priced, class, snap, held>>
    /\ UNCHANGED <<history, ar, poVars, soVars, slotVars>>

-----------------------------------------------------------------------------
(* Production orders.  The code OP-<orderNumber> is unique in the table,   *)
(* deleted rows included.                                                  *)

PoFrom(w) ==
    CASE w = "start" -> {"PENDING"}
      [] w = "complete" -> {"IN_PROGRESS"}
      [] w = "cancel" -> {"PENDING", "IN_PROGRESS"}

PoTo(w) ==
    CASE w = "start" -> "IN_PROGRESS"
      [] w = "complete" -> "COMPLETED"
      [] w = "cancel" -> "CANCELLED"

AskProduction(c) ==
    /\ "production" \in Ops
    /\ \/ \E w \in PoOp : poRow = "live" /\ po \in PoFrom(w) /\ Admit(c, w)
       \/ ~gone /\ poRow # "live" /\ Admit(c, "create production")
    /\ UNCHANGED <<orderVars, history, ar, poVars, soVars>>

WriteProduction(c) ==
    /\ \E w \in PoOp : Writing(c, w) /\ po' = PoTo(w)
    /\ Return(c)
    /\ UNCHANGED <<orderVars, history, ar, poRow, soVars>>

\* An insert whose code exists fails; otherwise the order has its row.
InsertProduction == IF poRow = "absent" THEN "live" ELSE poRow

CreateProduction(c) ==
    /\ Writing(c, "create production")
    /\ poRow' = InsertProduction
    /\ Return(c)
    /\ UNCHANGED <<orderVars, history, ar, po, soVars>>

RemoveProduction ==
    /\ "production" \in Ops
    /\ poRow = "live"
    /\ poRow' = "deleted"
    /\ UNCHANGED <<orderVars, history, ar, po, soVars, slotVars>>

-----------------------------------------------------------------------------
(* The separation order, whose handlers are module SeparationOrder: any    *)
(* course that its contract allows.                                        *)

Separation == INSTANCE SeparationContract WITH row <- soRow, status <- so

SeparationStep ==
    /\ "separation" \in Ops
    /\ soRow = "absent" => ~gone
    /\ Separation!Next
    /\ UNCHANGED <<orderVars, history, ar, poVars, slotVars>>

-----------------------------------------------------------------------------
(* OrderFaturarListener: two receivables, unless the order has some.       *)

LiveRows == {k \in DOMAIN ar : ar[k].live}

Parcel(part, amount, st) ==
    [part |-> part, amount |-> amount, st |-> st, live |-> TRUE]

ReadTotal(c) ==
    /\ pc[c] = "read total"
    /\ seen' = [seen EXCEPT ![c].total = total]
    /\ Goto(c, "find receivable")
    /\ UNCHANGED <<orderVars, history, ar, poVars, soVars>>

FindReceivable(c) ==
    /\ pc[c] = "find receivable"
    /\ IF LiveRows = {}
         THEN Goto(c, "first parcel") /\ UNCHANGED seen
         ELSE Return(c)
    /\ UNCHANGED <<orderVars, history, ar, poVars, soVars>>

FirstParcel(c) ==
    /\ pc[c] = "first parcel"
    /\ ar' = Append(ar, Parcel(1, HalfUp(seen[c].total), "PAID"))
    /\ Goto(c, "second parcel")
    /\ UNCHANGED <<orderVars, history, poVars, soVars, seen>>

\* Mutant of Rest: the second parcel is another half, rounded up as well.
OtherHalf(n) == HalfUp(n)

\* What is left of the total for the second parcel.
Rest(n) == n - HalfUp(n)

SecondParcel(c) ==
    /\ pc[c] = "second parcel"
    /\ ar' = Append(ar, Parcel(2, Rest(seen[c].total), "PENDING"))
    /\ Return(c)
    /\ UNCHANGED <<orderVars, history, poVars, soVars>>

-----------------------------------------------------------------------------
(* OrderProduzirListener: splits the items by their snapshot.              *)

ReadItems(c) ==
    /\ pc[c] = "read items"
    /\ seen' = [seen EXCEPT ![c].snap = snap]
    /\ Goto(c, "find production")
    /\ UNCHANGED <<orderVars, history, ar, poVars, soVars>>

FindProduction(c) ==
    /\ pc[c] = "find production"
    /\ IF poRow = "live"
         THEN Return(c)
         ELSE Goto(c, "split production") /\ UNCHANGED seen
    /\ UNCHANGED <<orderVars, history, ar, poVars, soVars>>

\* The insert of a code that exists throws, and the listener ends there.
SplitProduction(c) ==
    /\ pc[c] = "split production"
    /\ IF "own" \notin seen[c].snap
         THEN Goto(c, "split separation") /\ UNCHANGED <<seen, poRow>>
         ELSE /\ poRow' = InsertProduction
              /\ IF poRow = "absent"
                   THEN Goto(c, "split separation") /\ UNCHANGED seen
                   ELSE Return(c)
    /\ UNCHANGED <<orderVars, history, ar, po, soVars>>

SplitSeparation(c) ==
    /\ pc[c] = "split separation"
    /\ soRow' = IF "bought" \in seen[c].snap /\ soRow = "absent"
                  THEN "live" ELSE soRow
    /\ Return(c)
    /\ UNCHANGED <<orderVars, history, ar, poVars, so>>

-----------------------------------------------------------------------------
(* OrderCanceladoListener: reverses the receivables, then the pending      *)
(* production order, then the pending separation order.                    *)

\* Mutant of Reversed: only parcels still to be paid are reversed.
ReversedIfPending(r) ==
    IF r.live /\ r.st = "PENDING"
      THEN [r EXCEPT !.st = "CANCELLED", !.live = FALSE] ELSE r

Reversed(r) == IF r.live THEN [r EXCEPT !.st = "CANCELLED", !.live = FALSE] ELSE r

CancelReceivables(c) ==
    /\ pc[c] = "cancel receivables"
    /\ ar' = [k \in DOMAIN ar |-> Reversed(ar[k])]
    /\ Goto(c, "cancel production")
    /\ UNCHANGED <<orderVars, history, poVars, soVars, seen>>

CancelProduction(c) ==
    /\ pc[c] = "cancel production"
    /\ po' = IF poRow = "live" /\ po = "PENDING" THEN "CANCELLED" ELSE po
    /\ Goto(c, "cancel separation")
    /\ UNCHANGED <<orderVars, history, ar, poRow, soVars, seen>>

CancelSeparation(c) ==
    /\ pc[c] = "cancel separation"
    /\ soRow' = IF soRow = "live" /\ so = "PENDING" THEN "deleted" ELSE soRow
    /\ Return(c)
    /\ UNCHANGED <<orderVars, history, ar, poVars, so>>

-----------------------------------------------------------------------------
(* OrderEntregueListener: the latest pending receivable is paid.           *)

\* Mutant of Pending: the oldest receivable, whatever its status.
Oldest == {k \in LiveRows : \A j \in LiveRows : k <= j}

Pending == {k \in LiveRows : ar[k].st = "PENDING"}

FindPending(c) ==
    /\ pc[c] = "find pending"
    /\ IF Pending = {}
         THEN Return(c)
         ELSE /\ \E k \in Pending :
                   /\ \A j \in Pending : j <= k
                   /\ seen' = [seen EXCEPT ![c].row = k]
              /\ Goto(c, "settle")
    /\ UNCHANGED <<orderVars, history, ar, poVars, soVars>>

Settle(c) ==
    /\ pc[c] = "settle"
    /\ ar' = [ar EXCEPT ![seen[c].row].st = "PAID"]
    /\ Return(c)
    /\ UNCHANGED <<orderVars, history, poVars, soVars>>

-----------------------------------------------------------------------------
\* A statement throws or the process dies: the rest of the request and of
\* its listener is lost.  Listener errors are only logged.
Fail(c) ==
    /\ pc[c] # "idle"
    /\ failures < MaxFailures
    /\ failures' = failures + 1
    /\ Leave(c)
    /\ UNCHANGED <<orderVars, history, ar, poVars, soVars>>

Ask(c) == ChangeStatus(c) \/ AskEdit(c) \/ AskProduction(c)

Write(c) ==
    \/ WriteStatus(c) \/ WriteEdit(c) \/ WriteDelete(c)
    \/ WriteProduction(c) \/ CreateProduction(c)

Listen(c) ==
    \/ ReadTotal(c) \/ FindReceivable(c) \/ FirstParcel(c) \/ SecondParcel(c)
    \/ ReadItems(c) \/ FindProduction(c) \/ SplitProduction(c)
    \/ SplitSeparation(c)
    \/ CancelReceivables(c) \/ CancelProduction(c) \/ CancelSeparation(c)
    \/ FindPending(c) \/ Settle(c)

Next ==
    \/ \E c \in Call : Ask(c) \/ Write(c) \/ Record(c) \/ Listen(c) \/ Fail(c)
    \/ RegisterPayment \/ ChangeSupplies \/ RemoveProduction \/ SeparationStep

Spec == Init /\ [][Next]_vars

-----------------------------------------------------------------------------
(* Properties.                                                             *)

Receivable == [part : 1..2, amount : Nat, st : {"PENDING", "PAID", "CANCELLED"},
               live : BOOLEAN]

TypeOK ==
    /\ status \in Status /\ held \subseteq Status
    /\ gone \in BOOLEAN
    /\ total \in Nat /\ paid \in Nat
    /\ proof \in BOOLEAN /\ priced \in BOOLEAN /\ ready \in BOOLEAN
    /\ class \subseteq Class /\ snap \subseteq Class
    /\ history \subseteq Status \X Status
    /\ ar \in Seq(Receivable)
    /\ poRow \in Row /\ po \in PoStatus
    /\ soRow \in Row /\ so \in SoStatus
    /\ pc \in [Call -> PC]
    /\ want \in [Call -> Status \cup OtherWrite]
    /\ from \in [Call -> Status]
    /\ seen \in [Call -> [total : Nat, snap : SUBSET Class, row : Nat]]
    /\ failures \in Nat

\* No stage is skipped.  Requests that race can send an order back, or past a
\* cancellation, because every write is by id; still, an order that ever had
\* a status had a status before it from which the machine allows it, so an
\* order that was delivered had been invoiced, reconciled and produced.
NoStageSkipped ==
    \A s \in held \ {"EM_ORCAMENTO"} : \E p \in held : s \in Transitions[p]

\* The timeline tells no story that did not happen: each row but the one of
\* the order's creation is a transition of the machine, between statuses the
\* order really had.
TimelineSound ==
    \A h \in history :
        /\ h[1] \in held /\ h[2] \in held
        /\ h = CreationRow \/ h[2] \in Transitions[h[1]]

\* Receivables exist only for orders that were invoiced, and an order was
\* declared produced only if it has, or had, a production order: listeners
\* and requests that overlap never produce either out of nothing.
BackedByRows ==
    /\ ar # << >> => "FATURAR" \in held
    /\ "PRODUZIDO" \in held => poRow # "absent"

\* What a slot knows of the order: a pending write of a status follows a
\* status that was held, and a listener runs after the status it reacts to.
InvoiceSteps == {"read total", "find receivable", "first parcel", "second parcel"}

SlotKnows ==
    \A c \in Call :
        /\ pc[c] \in {"write", "record"} /\ want[c] \in Status =>
               from[c] \in held /\ want[c] \in Transitions[from[c]]
        /\ pc[c] \in {"write", "record"} /\ want[c] = "PRODUZIDO" => poRow # "absent"
        /\ pc[c] = "record" => want[c] \in Status /\ want[c] \in held
        /\ pc[c] \in InvoiceSteps => "FATURAR" \in held
        /\ pc[c] = "settle" => seen[c].row \in DOMAIN ar

\* The listeners of PRODUZIR and CANCELADO keep the contract of the separation
\* order that they create and delete behind its handlers' backs.
KeepsSeparation == Separation!Spec

\* The inductive invariant.
IInv ==
    /\ TypeOK /\ status \in held
    /\ NoStageSkipped /\ TimelineSound /\ BackedByRows /\ SlotKnows

\* No request is half-way and no listener is running.
Quiet == \A c \in Call : pc[c] = "idle"

\* The status moves along the table of the machine: ENTREGUE and CANCELADO
\* are terminal, nothing is cancelled from PRODUZIR on.
FollowsMachine == [][status' # status => status' \in Transitions[status]]_vars

\* update only touches orders in EM_ORCAMENTO, so the total that was half
\* paid and turned into receivables is the total of the order.
TotalFrozen == [][total' # total => status = "EM_ORCAMENTO"]_vars

\* Once its listener is done, an invoiced order has exactly its two parcels,
\* and they add up to its total, whatever the rounding.
ReceivablesCoverOrder ==
    Quiet /\ status \in Invoiced =>
        \E j, k \in LiveRows :
            /\ LiveRows = {j, k} /\ ar[j].part = 1 /\ ar[k].part = 2
            /\ ar[j].amount + ar[k].amount = total

\* A delivered order is settled: no live receivable is left to pay.
DeliveredIsSettled ==
    Quiet /\ status = "ENTREGUE" => \A k \in LiveRows : ar[k].st = "PAID"

\* A cancelled order has its receivables reversed, paid parcels included.
CancelledIsReversed == Quiet /\ status = "CANCELADO" => LiveRows = {}

\* Requests and listeners do not overlap: while one is under way, all other
\* slots are idle.
OneAtATime == \E c \in Call : \A d \in Call \ {c} : pc[d] = "idle"

\* Nothing is asked of the customer twice: a live parcel is within the total,
\* and two of them are the two parts of it.  Unlike ReceivablesCoverOrder, it
\* also holds of orders whose listeners were cut off half-way.
NeverOverAsked ==
    \A j, k \in LiveRows :
        /\ ar[j].amount <= total
        /\ j # k => ar[j].part # ar[k].part /\ ar[j].amount + ar[k].amount = total

\* The parcels that the listener of FATURAR inserts.
Parcels(st) ==
    <<Parcel(1, HalfUp(total), "PAID"), Parcel(2, Rest(total), st)>>

\* What a busy slot c, the others being idle, may find of them: it inserts
\* each of them once, wherever an earlier listener was cut off.
Built == {<< >>, <<Parcel(1, HalfUp(total), "PAID")>>, Parcels("PENDING"), Parcels("PAID")}

ParcelsBuilt(c) ==
    /\ status = "EM_ORCAMENTO" => ar = << >>
    /\ status = "FATURAR" /\ pc[c] \in {"record", "read total", "find receivable", "first parcel"}
           => ar = << >>
    /\ pc[c] = "second parcel" => ar = <<Parcel(1, HalfUp(total), "PAID")>>
    /\ pc[c] = "settle" => ar = Parcels("PENDING")
    /\ ar \in Built \/ (status = "CANCELADO" /\ LiveRows = {})

\* Unless a handler failed, the parcels follow the status: they are inserted
\* behind FATURAR, settled behind ENTREGUE, reversed behind CANCELADO.
ParcelsFollow(c) ==
    /\ status = "FATURAR" /\ pc[c] \in {"idle", "write"} => ar = Parcels("PENDING")
    /\ status \in {"FATURADO", "PRODUZIR", "EM_PRODUCAO", "PRODUZIDO"} => ar = Parcels("PENDING")
    /\ status = "ENTREGUE" =>
        ar = Parcels(IF pc[c] \in {"record", "find pending", "settle"} THEN "PENDING" ELSE "PAID")
    /\ status = "CANCELADO" => pc[c] \in {"record", "cancel receivables"} \/ LiveRows = {}

\* What the busy slot has read is still so.
SplitSteps == {"read items", "find production", "split production", "split separation"}
CancelSteps == {"cancel receivables", "cancel production", "cancel separation"}

StillSo(c) ==
    /\ pc[c] = "write" =>
        /\ want[c] \in Status => want[c] \in Transitions[status]
        /\ want[c] \in {"edit", "delete"} => status = "EM_ORCAMENTO"
    /\ pc[c] = "record" => status = want[c] /\ status # "EM_ORCAMENTO"
    /\ pc[c] \in InvoiceSteps => status = "FATURAR"
    /\ pc[c] \in InvoiceSteps \ {"read total"} => seen[c].total = total
    /\ pc[c] \in SplitSteps => status = "PRODUZIR"
    /\ pc[c] \in CancelSteps => status = "CANCELADO"
    /\ pc[c] \in {"find pending", "settle"} => status = "ENTREGUE"
    /\ pc[c] = "settle" => seen[c].row = 2

\* The inductive invariant of requests that do not overlap.
SlotSound(c) == ParcelsBuilt(c) /\ StillSo(c) /\ (failures = 0 => ParcelsFollow(c))

SerialInv ==
    /\ TypeOK
    /\ \E c \in Call : (\A d \in Call \ {c} : pc[d] = "idle") /\ SlotSound(c)
=============================================================================
