------------------------ MODULE OrderLifecycleProofs ------------------------
(***************************************************************************)
(* Theorems about OrderLifecycle, for any number of overlapping requests   *)
(* and listeners, any totals and payments, and any of them failing.        *)
(*                                                                         *)
(* The argument: held only grows, a production order's row never becomes   *)
(* absent again and receivables are never taken off the list, so what a    *)
(* slot read when its request was admitted (SlotKnows) is still true when  *)
(* it writes, although the order may have moved on.                        *)
(*                                                                         *)
(* While requests and listeners do not overlap (OneAtATime), what a busy   *)
(* slot has read is still so when it writes, and the receivables are as    *)
(* many as the statements it got to: SerialInv, from which the properties  *)
(* of serial use follow, those of the money unless a handler failed.       *)
(***************************************************************************)
EXTENDS OrderLifecycle, SequenceTheorems, TLAPS

\* The initial state satisfies the inductive invariant.
LEMMA InitIInv == Init => IInv
<1>. SUFFICES ASSUME Init PROVE IInv
  OBVIOUS
<1>1. TypeOK
  <2>1. /\ status \in Status /\ held \subseteq Status /\ gone \in BOOLEAN
        /\ total \in Nat /\ paid \in Nat
        /\ proof \in BOOLEAN /\ priced \in BOOLEAN /\ ready \in BOOLEAN
        /\ class \subseteq Class /\ snap \subseteq Class
    BY OrderAssumption DEF Init, Status
  <2>2. history \subseteq Status \X Status /\ ar \in Seq(Receivable)
    BY DEF Init, CreationRow, Status
  <2>3. poRow \in Row /\ po \in PoStatus /\ soRow \in Row /\ so \in SoStatus
    BY DEF Init, Row, PoStatus, SoStatus
  <2>4. /\ pc \in [Call -> PC] /\ from \in [Call -> Status]
        /\ want \in [Call -> Status \cup OtherWrite]
    BY DEF Init, PC, Status, OtherWrite
  <2>5. Nothing \in [total : Nat, snap : SUBSET Class, row : Nat]
    BY DEF Nothing
  <2>6. seen \in [Call -> [total : Nat, snap : SUBSET Class, row : Nat]]
    BY <2>5 DEF Init
  <2>7. failures \in Nat
    BY DEF Init
  <2>. QED  BY <2>1, <2>2, <2>3, <2>4, <2>6, <2>7 DEF TypeOK
<1>2. SlotKnows
  BY DEF Init, SlotKnows, InvoiceSteps
<1>3. TimelineSound
  BY DEF Init, TimelineSound, CreationRow
<1>. QED  BY <1>1, <1>2, <1>3 DEF Init, IInv, NoStageSkipped, BackedByRows

\* What never goes back: the facts slots rely on stay true.
Onward ==
    /\ held \subseteq held'
    /\ poRow # "absent" => poRow' # "absent"
    /\ DOMAIN ar \subseteq DOMAIN ar'

\* Steps that leave the slots alone keep what they know.
LEMMA IdleKnows ==
  ASSUME IInv, Onward, UNCHANGED slotVars
  PROVE  SlotKnows'
BY DEF IInv, SlotKnows, Onward, slotVars

\* A slot that is left knows nothing; the others keep what they know.
LEMMA LeaveKnows ==
  ASSUME IInv, Onward, NEW c \in Call, Leave(c)
  PROVE  SlotKnows'
BY DEF IInv, TypeOK, SlotKnows, Onward, Leave, InvoiceSteps

LEMMA ReturnKnows ==
  ASSUME IInv, Onward, NEW c \in Call, Return(c)
  PROVE  SlotKnows'
BY LeaveKnows DEF Return

\* A slot that moves on to a step of its listener.
LEMMA GotoKnows ==
  ASSUME IInv, Onward, NEW c \in Call, NEW step, Goto(c, step),
         step \notin {"write", "record"},
         step \in InvoiceSteps => "FATURAR" \in held',
         step = "settle" => seen'[c].row \in DOMAIN ar',
         \A d \in Call \ {c} : seen'[d] = seen[d]
  PROVE  SlotKnows'
BY DEF IInv, TypeOK, SlotKnows, Onward, Goto

\* Steps that write neither the status nor the timeline.
LEMMA HistoryFrame ==
  ASSUME IInv, UNCHANGED <<status, held, history>>
  PROVE  (status \in held)' /\ NoStageSkipped' /\ TimelineSound'
BY DEF IInv, NoStageSkipped, TimelineSound

\* Steps that write neither receivables nor statuses, and do not remove the
\* production order's row from the table.
LEMMA RowsFrame ==
  ASSUME IInv, Onward, UNCHANGED <<held, ar>>
  PROVE  BackedByRows'
BY DEF IInv, BackedByRows, Onward

\* The types of the slots, for the two ways a slot moves.
LEMMA LeaveTypes ==
  ASSUME TypeOK, NEW c \in Call, Leave(c)
  PROVE  /\ pc' \in [Call -> PC]
         /\ want' \in [Call -> Status \cup OtherWrite]
         /\ from' \in [Call -> Status]
         /\ seen' \in [Call -> [total : Nat, snap : SUBSET Class, row : Nat]]
BY DEF TypeOK, Leave, PC, Status, OtherWrite, Nothing

LEMMA ReturnTypes ==
  ASSUME TypeOK, NEW c \in Call, Return(c)
  PROVE  /\ pc' \in [Call -> PC]
         /\ want' \in [Call -> Status \cup OtherWrite]
         /\ from' \in [Call -> Status]
         /\ seen' \in [Call -> [total : Nat, snap : SUBSET Class, row : Nat]]
         /\ failures' \in Nat
BY LeaveTypes DEF TypeOK, Return

LEMMA GotoTypes ==
  ASSUME TypeOK, NEW c \in Call, NEW step \in PC, Goto(c, step)
  PROVE  /\ pc' \in [Call -> PC]
         /\ want' \in [Call -> Status \cup OtherWrite]
         /\ from' \in [Call -> Status]
         /\ failures' \in Nat
BY DEF TypeOK, Goto

-----------------------------------------------------------------------------
(* Admission.                                                              *)

\* A request is admitted to write w: a status is one the machine allows from
\* the status read, and PRODUZIDO needs a production order.
LEMMA AdmitPreserves ==
  ASSUME IInv, NEW c \in Call, NEW w \in Status \cup OtherWrite, Admit(c, w),
         UNCHANGED <<orderVars, history, ar, poVars, soVars>>,
         w \in Status => w \in Transitions[status],
         w = "PRODUZIDO" => poRow # "absent"
  PROVE  IInv'
<1>. USE DEF orderVars, poVars, soVars
<1>1. TypeOK'
  BY DEF IInv, TypeOK, Admit, PC
<1>2. SlotKnows'
  BY DEF IInv, TypeOK, SlotKnows, Admit, InvoiceSteps
<1>3. (status \in held)' /\ NoStageSkipped' /\ TimelineSound'
  BY HistoryFrame
<1>4. BackedByRows'
  BY RowsFrame DEF Onward
<1>. QED  BY <1>1, <1>2, <1>3, <1>4 DEF IInv

\* The status machine lets an order become PRODUZIDO only with a live,
\* completed production order.
LEMMA AskPreserves ==
  ASSUME IInv, NEW c \in Call, Ask(c)
  PROVE  IInv'
<1>1. ASSUME NEW s \in Transitions[status], Guard(s), Admit(c, s),
             UNCHANGED <<orderVars, history, ar, poVars, soVars>>
      PROVE  IInv'
  <2>1. s \in Status
    BY <1>1 DEF IInv, TypeOK, Transitions, Status
  <2>2. s = "PRODUZIDO" => poRow # "absent"
    BY <1>1 DEF Guard
  <2>. QED  BY <1>1, <2>1, <2>2, AdmitPreserves
<1>2. CASE ChangeStatus(c)
  BY <1>1, <1>2 DEF ChangeStatus
<1>3. ASSUME NEW w \in OtherWrite, Admit(c, w),
             UNCHANGED <<orderVars, history, ar, poVars, soVars>>
      PROVE  IInv'
  <2>1. w \notin Status
    BY DEF OtherWrite, PoOp, Status
  <2>. QED  BY <1>3, <2>1, AdmitPreserves DEF Status
<1>4. CASE AskEdit(c)
  BY <1>3, <1>4 DEF AskEdit, OtherWrite
<1>5. CASE AskProduction(c)
  BY <1>3, <1>5 DEF AskProduction, OtherWrite
<1>. QED  BY <1>2, <1>4, <1>5 DEF Ask

-----------------------------------------------------------------------------
(* Writes.                                                                 *)

\* The unconditional write of a status.
LEMMA WriteStatusPreserves ==
  ASSUME IInv, NEW c \in Call, WriteStatus(c)
  PROVE  IInv'
<1>1. PICK s \in Status :
        /\ pc[c] = "write" /\ want[c] = s
        /\ status' = s
        /\ held' = held \cup {s}
  BY DEF WriteStatus, Writing
<1>2. /\ pc' = [pc EXCEPT ![c] = "record"]
      /\ UNCHANGED <<want, from, seen, failures, gone, total, paid, proof, priced, class,
                     snap, ready, history, ar, poRow, po, soRow, so>>
  BY DEF WriteStatus, Goto, poVars, soVars
<1>3. /\ from[c] \in held /\ s \in Transitions[from[c]]
      /\ s = "PRODUZIDO" => poRow # "absent"
  BY <1>1 DEF IInv, SlotKnows
<1>4. TypeOK'
  BY <1>1, <1>2 DEF IInv, TypeOK, PC
<1>5. NoStageSkipped'
  BY <1>1, <1>3 DEF IInv, NoStageSkipped
<1>6. TimelineSound'
  BY <1>1, <1>2 DEF IInv, TimelineSound
<1>7. BackedByRows'
  BY <1>1, <1>2, <1>3 DEF IInv, BackedByRows
<1>8. SlotKnows'
  BY <1>1, <1>2, <1>3 DEF IInv, TypeOK, SlotKnows, InvoiceSteps
<1>. QED  BY <1>1, <1>4, <1>5, <1>6, <1>7, <1>8 DEF IInv

\* A write of a request that is not about the status.
LEMMA OtherWritePreserves ==
  ASSUME IInv, NEW c \in Call,
         WriteEdit(c) \/ WriteDelete(c) \/ WriteProduction(c) \/ CreateProduction(c)
  PROVE  IInv'
<1>. USE DEF poVars, soVars, orderVars
<1>1. /\ Return(c)
      /\ UNCHANGED <<status, held, history, ar, paid, proof, soRow, so>>
      /\ Onward
  BY DEF WriteEdit, WriteDelete, WriteProduction, CreateProduction,
         InsertProduction, Onward
<1>2. /\ gone' \in BOOLEAN /\ total' \in Nat
      /\ priced' \in BOOLEAN /\ ready' \in BOOLEAN
      /\ class' \subseteq Class /\ snap' \subseteq Class
      /\ poRow' \in Row /\ po' \in PoStatus
  BY OrderAssumption DEF IInv, TypeOK, WriteEdit, WriteDelete, WriteProduction,
     CreateProduction, InsertProduction, Row, PoStatus, PoOp, PoTo
<1>3. TypeOK'
  BY <1>1, <1>2, ReturnTypes DEF IInv, TypeOK
<1>. QED  BY <1>1, <1>3, ReturnKnows, HistoryFrame, RowsFrame DEF IInv

\* The history row, and the listener its event starts.
LEMMA RecordPreserves ==
  ASSUME IInv, NEW c \in Call, Record(c)
  PROVE  IInv'
<1>. USE DEF poVars, soVars, orderVars
<1>1. /\ pc[c] = "record"
      /\ history' = history \cup {<<from[c], want[c]>>}
      /\ UNCHANGED <<status, held, ar, poRow, po, soRow, so, gone, total, paid,
                     proof, priced, class, snap, ready>>
  BY DEF Record
<1>2. /\ from[c] \in held /\ want[c] \in held /\ want[c] \in Status
      /\ want[c] \in Transitions[from[c]] /\ from[c] \in Status
  BY <1>1 DEF IInv, TypeOK, SlotKnows
<1>3. Onward
  BY <1>1 DEF Onward
<1>4. (status \in held)' /\ NoStageSkipped'
  BY <1>1 DEF IInv, NoStageSkipped
<1>5. TimelineSound'
  BY <1>1, <1>2 DEF IInv, TimelineSound
<1>6. BackedByRows'
  BY <1>1, <1>3, RowsFrame
<1>7. history' \subseteq Status \X Status
  BY <1>1, <1>2 DEF IInv, TypeOK
<1>8. CASE Reaction(want[c]) = "idle"
  <2>1. Return(c)
    BY <1>8 DEF Record
  <2>2. TypeOK'
    BY <1>1, <1>7, <2>1, ReturnTypes DEF IInv, TypeOK
  <2>. QED  BY <1>3, <1>4, <1>5, <1>6, <2>1, <2>2, ReturnKnows DEF IInv
<1>9. CASE Reaction(want[c]) # "idle"
  <2>1. Goto(c, Reaction(want[c])) /\ UNCHANGED seen
    BY <1>9 DEF Record
  <2>2. /\ Reaction(want[c]) \in PC \ {"write", "record", "settle"}
        /\ Reaction(want[c]) \in InvoiceSteps => want[c] = "FATURAR"
    BY <1>2 DEF Reaction, PC, InvoiceSteps, Status
  <2>3. TypeOK'
    BY <1>1, <1>7, <2>1, <2>2, GotoTypes DEF IInv, TypeOK
  <2>4. SlotKnows'
    BY <1>1, <1>2, <1>3, <2>1, <2>2, GotoKnows
  <2>. QED  BY <1>4, <1>5, <1>6, <2>3, <2>4 DEF IInv
<1>. QED  BY <1>8, <1>9

-----------------------------------------------------------------------------
(* Listeners.                                                              *)

\* A listener's step never touches the order itself or the timeline.
LEMMA ListenerFrame ==
  ASSUME NEW c \in Call, Listen(c)
  PROVE  UNCHANGED <<orderVars, history>>
BY DEF Listen, ReadTotal, FindReceivable, FirstParcel, SecondParcel, ReadItems,
       FindProduction, SplitProduction, SplitSeparation, CancelReceivables,
       CancelProduction, CancelSeparation, FindPending, Settle

\* The listener of FATURAR appends receivables of an invoiced order.
LEMMA InvoicePreserves ==
  ASSUME IInv, NEW c \in Call,
         ReadTotal(c) \/ FindReceivable(c) \/ FirstParcel(c) \/ SecondParcel(c)
  PROVE  IInv'
<1>. USE DEF poVars, soVars, orderVars
<1>1. /\ pc[c] \in InvoiceSteps
      /\ UNCHANGED <<orderVars, history, poVars, soVars>>
      /\ \A d \in Call \ {c} : seen'[d] = seen[d]
  BY DEF ReadTotal, FindReceivable, FirstParcel, SecondParcel, InvoiceSteps, IInv,
         TypeOK, Return, Leave
<1>2. "FATURAR" \in held
  BY <1>1 DEF IInv, SlotKnows
<1>3. \/ Return(c)
      \/ /\ \E step \in InvoiceSteps : Goto(c, step)
         /\ seen' \in [Call -> [total : Nat, snap : SUBSET Class, row : Nat]]
  <2>. seen \in [Call -> [total : Nat, snap : SUBSET Class, row : Nat]] /\ total \in Nat
    BY DEF IInv, TypeOK
  <2>1. CASE ReadTotal(c)
    BY <2>1 DEF ReadTotal, InvoiceSteps
  <2>2. CASE FindReceivable(c)
    BY <2>2 DEF FindReceivable, InvoiceSteps
  <2>3. CASE FirstParcel(c)
    BY <2>3 DEF FirstParcel, InvoiceSteps
  <2>4. CASE SecondParcel(c)
    BY <2>4 DEF SecondParcel
  <2>. QED  BY <2>1, <2>2, <2>3, <2>4
<1>4. ar' \in Seq(Receivable) /\ DOMAIN ar \subseteq DOMAIN ar'
  <2>1. HalfUp(seen[c].total) \in Nat /\ Rest(seen[c].total) \in Nat
    <3>1. seen[c].total \in Nat
      BY DEF IInv, TypeOK
    <3>. QED  BY <3>1 DEF HalfUp, Rest
  <2>2. /\ Parcel(1, HalfUp(seen[c].total), "PAID") \in Receivable
        /\ Parcel(2, Rest(seen[c].total), "PENDING") \in Receivable
    BY <2>1 DEF Parcel, Receivable
  <2>3. ar \in Seq(Receivable)
    BY DEF IInv, TypeOK
  <2>4. \A r \in Receivable :
          Append(ar, r) \in Seq(Receivable) /\ DOMAIN ar \subseteq DOMAIN Append(ar, r)
    BY <2>3
  <2>. QED  BY <2>2, <2>3, <2>4 DEF ReadTotal, FindReceivable, FirstParcel, SecondParcel
<1>5. Onward
  BY <1>1, <1>4 DEF Onward
<1>6. TypeOK'
  BY <1>1, <1>3, <1>4, ReturnTypes, GotoTypes DEF IInv, TypeOK, InvoiceSteps, PC
<1>7. BackedByRows'
  BY <1>1, <1>2 DEF IInv, BackedByRows
<1>8. SlotKnows'
  BY <1>1, <1>2, <1>3, <1>5, ReturnKnows, GotoKnows DEF InvoiceSteps
<1>. QED  BY <1>1, <1>6, <1>7, <1>8, HistoryFrame DEF IInv

\* The other listeners: rows of the production and separation orders are
\* inserted or change status, receivables change status in place.
LEMMA OtherListenersPreserve ==
  ASSUME IInv, NEW c \in Call,
         \/ ReadItems(c) \/ FindProduction(c) \/ SplitProduction(c)
         \/ SplitSeparation(c)
         \/ CancelReceivables(c) \/ CancelProduction(c) \/ CancelSeparation(c)
         \/ FindPending(c) \/ Settle(c)
  PROVE  IInv'
<1>. USE DEF poVars, soVars, orderVars
<1>1. UNCHANGED <<orderVars, history>>
  BY ListenerFrame DEF Listen
<1>2. /\ ar' \in Seq(Receivable) /\ DOMAIN ar' = DOMAIN ar
      /\ ar' # << >> => ar # << >>
  <2>1. ar \in Seq(Receivable) /\ ar \in [1..Len(ar) -> Receivable]
    BY DEF IInv, TypeOK
  <2>2. CASE CancelReceivables(c)
    <3>1. \A k \in 1..Len(ar) : Reversed(ar[k]) \in Receivable
      BY <2>1 DEF Reversed, Receivable
    <3>2. /\ ar' = [k \in 1..Len(ar) |-> Reversed(ar[k])]
      BY <2>1, <2>2 DEF CancelReceivables
    <3>3. ar' \in [1..Len(ar) -> Receivable] /\ Len(ar) \in Nat
      BY <2>1, <3>1, <3>2
    <3>. QED  BY <2>1, <3>2, <3>3
  <2>3. CASE Settle(c)
    <3>1. seen[c].row \in DOMAIN ar
      BY <2>3 DEF Settle, IInv, SlotKnows
    <3>2. ar' = [ar EXCEPT ![seen[c].row].st = "PAID"]
      BY <2>3 DEF Settle
    <3>3. [ar[seen[c].row] EXCEPT !.st = "PAID"] \in Receivable
      <4>1. \A r \in Receivable : [r EXCEPT !.st = "PAID"] \in Receivable
        BY DEF Receivable
      <4>. QED  BY <2>1, <3>1, <4>1
    <3>4. \A r \in Receivable, k \in DOMAIN ar :
            [ar EXCEPT ![k] = r] \in Seq(Receivable)
            /\ DOMAIN [ar EXCEPT ![k] = r] = DOMAIN ar
      BY <2>1
    <3>5. ar' = [ar EXCEPT ![seen[c].row] = [ar[seen[c].row] EXCEPT !.st = "PAID"]]
      BY <3>2
    <3>. QED  BY <2>1, <3>1, <3>3, <3>4, <3>5
  <2>4. CASE UNCHANGED ar
    BY <2>1, <2>4
  <2>. QED  BY <2>2, <2>3, <2>4 DEF ReadItems, FindProduction, SplitProduction,
       SplitSeparation, CancelProduction, CancelSeparation, FindPending
<1>3. /\ poRow' \in Row /\ po' \in PoStatus /\ soRow' \in Row /\ so' \in SoStatus
      /\ poRow # "absent" => poRow' # "absent"
  BY DEF IInv, TypeOK, Row, PoStatus, ReadItems, FindProduction, SplitProduction,
     SplitSeparation, CancelReceivables, CancelProduction, CancelSeparation,
     FindPending, Settle, InsertProduction
<1>4. Onward
  BY <1>1, <1>2, <1>3 DEF Onward
<1>5. \/ Return(c)
      \/ /\ \E step \in {"find production", "split production",
                         "split separation", "cancel production",
                         "cancel separation", "settle"} :
                Goto(c, step) /\ (step = "settle" => seen'[c].row \in DOMAIN ar')
         /\ seen' \in [Call -> [total : Nat, snap : SUBSET Class, row : Nat]]
         /\ \A d \in Call \ {c} : seen'[d] = seen[d]
  <2>1. CASE FindPending(c)
    <3>1. Pending \subseteq DOMAIN ar /\ DOMAIN ar \subseteq Nat
      BY DEF Pending, LiveRows, IInv, TypeOK
    <3>2. CASE Pending = {}
      BY <2>1, <3>2 DEF FindPending
    <3>3. CASE Pending # {}
      <4>1. PICK k \in Pending : seen' = [seen EXCEPT ![c].row = k]
        BY <2>1, <3>3 DEF FindPending
      <4>2. Goto(c, "settle")
        BY <2>1, <3>3 DEF FindPending
      <4>3. k \in Nat /\ k \in DOMAIN ar'
        BY <1>2, <3>1
      <4>4. seen \in [Call -> [total : Nat, snap : SUBSET Class, row : Nat]]
        BY DEF IInv, TypeOK
      <4>5. /\ seen'[c].row = k
            /\ seen' \in [Call -> [total : Nat, snap : SUBSET Class, row : Nat]]
            /\ \A d \in Call \ {c} : seen'[d] = seen[d]
        BY <4>1, <4>3, <4>4
      <4>. QED  BY <4>2, <4>3, <4>5
    <3>. QED  BY <3>2, <3>3
  <2>2. CASE ReadItems(c)
    BY <2>2 DEF ReadItems, IInv, TypeOK
  <2>. QED  BY <2>1, <2>2 DEF IInv, TypeOK, FindProduction, SplitProduction,
       SplitSeparation, CancelReceivables, CancelProduction, CancelSeparation,
       Settle
<1>6. TypeOK'
  <2>1. /\ pc' \in [Call -> PC] /\ from' \in [Call -> Status]
        /\ want' \in [Call -> Status \cup OtherWrite]
        /\ seen' \in [Call -> [total : Nat, snap : SUBSET Class, row : Nat]]
        /\ failures' \in Nat
    BY <1>5, ReturnTypes, GotoTypes DEF IInv, PC
  <2>. QED  BY <1>1, <1>2, <1>3, <2>1 DEF IInv, TypeOK
<1>7. BackedByRows'
  BY <1>1, <1>2, <1>3 DEF IInv, BackedByRows
<1>8. SlotKnows'
  BY <1>4, <1>5, ReturnKnows, GotoKnows DEF InvoiceSteps
<1>. QED  BY <1>1, <1>6, <1>7, <1>8, HistoryFrame DEF IInv

-----------------------------------------------------------------------------
\* Requests of one step, which leave the slots alone.
LEMMA EnvironmentPreserves ==
  ASSUME IInv,
         RegisterPayment \/ ChangeSupplies \/ RemoveProduction \/ SeparationStep
  PROVE  IInv'
<1>. USE DEF poVars, soVars, orderVars
<1>1. /\ UNCHANGED <<status, held, history, ar, slotVars>>
      /\ Onward
  BY DEF RegisterPayment, ChangeSupplies, RemoveProduction, SeparationStep, Onward
<1>2. TypeOK'
  <2>1. CASE RegisterPayment
    BY <2>1, OrderAssumption DEF IInv, TypeOK, slotVars, RegisterPayment
  <2>2. CASE ChangeSupplies
    BY <2>2 DEF IInv, TypeOK, slotVars, ChangeSupplies
  <2>3. CASE RemoveProduction
    BY <2>3 DEF IInv, TypeOK, slotVars, RemoveProduction, Row
  <2>4. CASE SeparationStep
    <3>1. soRow' \in Row /\ so' \in SoStatus
      BY <2>4 DEF IInv, TypeOK, SeparationStep, Separation!Next, Separation!Insert,
         Separation!Start, Separation!Settle, Separation!Delete, Row, SoStatus
    <3>. QED  BY <2>4, <3>1 DEF IInv, TypeOK, slotVars, SeparationStep
  <2>. QED  BY <2>1, <2>2, <2>3, <2>4
<1>. QED  BY <1>1, <1>2, IdleKnows, HistoryFrame, RowsFrame DEF IInv

\* Whatever was under way in a slot may be lost.
LEMMA FailPreserves ==
  ASSUME IInv, NEW c \in Call, Fail(c)
  PROVE  IInv'
<1>. USE DEF poVars, soVars, orderVars
<1>1. Leave(c) /\ Onward
  BY DEF Fail, Onward
<1>2. TypeOK'
  BY <1>1, LeaveTypes DEF IInv, TypeOK, Fail
<1>. QED  BY <1>1, <1>2, LeaveKnows, HistoryFrame, RowsFrame DEF IInv, Fail

\* Every step preserves the inductive invariant.
LEMMA NextIInv == IInv /\ [Next]_vars => IInv'
<1>. SUFFICES ASSUME IInv, [Next]_vars PROVE IInv'
  OBVIOUS
<1>1. ASSUME NEW c \in Call, Ask(c) PROVE IInv'
  BY <1>1, AskPreserves
<1>2. ASSUME NEW c \in Call, Write(c) PROVE IInv'
  BY <1>2, WriteStatusPreserves, OtherWritePreserves DEF Write
<1>3. ASSUME NEW c \in Call, Record(c) PROVE IInv'
  BY <1>3, RecordPreserves
<1>4. ASSUME NEW c \in Call, Listen(c) PROVE IInv'
  BY <1>4, InvoicePreserves, OtherListenersPreserve DEF Listen
<1>5. ASSUME NEW c \in Call, Fail(c) PROVE IInv'
  BY <1>5, FailPreserves
<1>6. CASE RegisterPayment \/ ChangeSupplies \/ RemoveProduction \/ SeparationStep
  BY <1>6, EnvironmentPreserves
<1>7. CASE UNCHANGED vars
  <2>1. TypeOK'
    BY <1>7 DEF vars, orderVars, poVars, soVars, slotVars, IInv, TypeOK
  <2>2. Onward /\ UNCHANGED <<status, held, history, ar, slotVars>>
    BY <1>7 DEF vars, orderVars, poVars, soVars, slotVars, Onward
  <2>. QED  BY <2>1, <2>2, IdleKnows, HistoryFrame, RowsFrame DEF IInv
<1>. QED  BY <1>1, <1>2, <1>3, <1>4, <1>5, <1>6, <1>7 DEF Next

\* The inductive invariant holds in every reachable state.
THEOREM OrderInvariant == Spec => []IInv
<1>. QED  BY InitIInv, NextIInv, PTL DEF Spec

\* No order skips a stage, however requests race and listeners lag.
THEOREM OrderStages == Spec => []NoStageSkipped
<1>1. IInv => NoStageSkipped
  BY DEF IInv
<1>. QED  BY <1>1, OrderInvariant, PTL

\* Every row of the timeline but the first, of the order's creation, is a
\* transition between statuses really held.
THEOREM OrderTimeline == Spec => []TimelineSound
<1>1. IInv => TimelineSound
  BY DEF IInv
<1>. QED  BY <1>1, OrderInvariant, PTL

\* Receivables need an invoiced order, PRODUZIDO needs a production order.
THEOREM OrderBacked == Spec => []BackedByRows
<1>1. IInv => BackedByRows
  BY DEF IInv
<1>. QED  BY <1>1, OrderInvariant, PTL

-----------------------------------------------------------------------------
(* Requests and listeners that do not overlap.  Nothing the busy slot has  *)
(* read can change before it writes, so the status follows the machine;    *)
(* the parcels follow the status as far as the listeners got.              *)

\* The list of receivables, as the listener of FATURAR builds it.
LEMMA NoReceivables ==
  ASSUME NEW s, s = << >>
  PROVE  DOMAIN s = {}
OBVIOUS

LEMMA AppendToNone ==
  ASSUME NEW x
  PROVE  Append(<< >>, x) = <<x>>
<1>1. << >> \in Seq({x}) /\ x \in {x}
  OBVIOUS
<1>2. /\ Append(<< >>, x) \in Seq({x})
      /\ Len(Append(<< >>, x)) = 1 /\ Append(<< >>, x)[1] = x
  BY <1>1, AppendProperties
<1>3. <<x>> \in Seq({x}) /\ Len(<<x>>) = 1 /\ <<x>>[1] = x
  OBVIOUS
<1>. QED  BY <1>2, <1>3, SeqEqual

LEMMA AppendToOne ==
  ASSUME NEW x, NEW y
  PROVE  Append(<<x>>, y) = <<x, y>>
<1>. DEFINE s == Append(<<x>>, y)
<1>1. <<x>> \in Seq({x, y}) /\ y \in {x, y}
  OBVIOUS
<1>2. s \in Seq({x, y}) /\ Len(s) = 2 /\ s[1] = x /\ s[2] = y
  BY <1>1, AppendProperties
<1>3. /\ <<x, y>> \in Seq({x, y}) /\ Len(<<x, y>>) = 2
      /\ <<x, y>>[1] = x /\ <<x, y>>[2] = y
  OBVIOUS
<1>. HIDE DEF s
<1>4. \A i \in 1..2 : s[i] = <<x, y>>[i]
  BY <1>2, <1>3
<1>5. s = <<x, y>>
  BY <1>2, <1>3, <1>4, SeqEqual
<1>. QED  BY <1>5 DEF s

\* A parcel that is paid differs in its status only.
LEMMA PaidParcel ==
  ASSUME NEW n \in Nat
  PROVE  [Parcel(2, n, "PENDING") EXCEPT !.st = "PAID"] = Parcel(2, n, "PAID")
<1>. DEFINE r == Parcel(2, n, "PENDING")
<1>1. r \in Receivable /\ r.part = 2 /\ r.amount = n /\ r.live = TRUE
  BY DEF Parcel, Receivable
<1>. HIDE DEF r
<1>2. [r EXCEPT !.st = "PAID"] =
        [part |-> r.part, amount |-> r.amount, st |-> "PAID", live |-> r.live]
  BY <1>1 DEF Receivable
<1>3. [r EXCEPT !.st = "PAID"] = Parcel(2, n, "PAID")
  BY <1>1, <1>2 DEF Parcel
<1>. QED  BY <1>3 DEF r

\* What the list of receivables looks like to the listeners.
LEMMA PendingParcels ==
  ASSUME ar = Parcels("PENDING"), total \in Nat
  PROVE  /\ LiveRows = {1, 2}
         /\ Pending = {2}
         /\ [ar EXCEPT ![2].st = "PAID"] = Parcels("PAID")
<1>1. DOMAIN ar = 1..2
  BY DEF Parcels
<1>2. /\ ar[1] = Parcel(1, HalfUp(total), "PAID")
      /\ ar[2] = Parcel(2, Rest(total), "PENDING")
  BY DEF Parcels
<1>3. LiveRows = {1, 2}
  BY <1>1, <1>2 DEF LiveRows, Parcel
<1>4. Pending = {2}
  BY <1>2, <1>3 DEF Pending, Parcel
<1>5. [ar[2] EXCEPT !.st = "PAID"] = Parcel(2, Rest(total), "PAID")
  BY <1>2, PaidParcel DEF HalfUp, Rest
<1>6. [ar EXCEPT ![2] = Parcel(2, Rest(total), "PAID")] = Parcels("PAID")
  BY <1>1, <1>2 DEF Parcels
<1>. QED  BY <1>3, <1>4, <1>5, <1>6

\* Nothing is live once everything has been reversed.
LEMMA ReversedParcels ==
  ASSUME ar' = [k \in DOMAIN ar |-> Reversed(ar[k])], ar \in Seq(Receivable)
  PROVE  LiveRows' = {}
<1>1. \A r \in Receivable : ~ Reversed(r).live
  BY DEF Reversed, Receivable
<1>2. \A k \in DOMAIN ar : ar[k] \in Receivable
  OBVIOUS
<1>3. DOMAIN ar' = DOMAIN ar /\ \A k \in DOMAIN ar' : ~ ar'[k].live
  BY <1>1, <1>2
<1>. QED  BY <1>3 DEF LiveRows

\* Nothing happens to the parcels' amounts while the total stays.
LEMMA ParcelsFrame ==
  ASSUME total' = total
  PROVE  /\ \A st : Parcels(st)' = Parcels(st)
         /\ Built' = Built
         /\ Parcel(1, HalfUp(total), "PAID")' = Parcel(1, HalfUp(total), "PAID")
BY DEF Built, Parcels, Parcel, HalfUp, Rest

\* A step that leaves the order's row and the parcels alone.
LEMMA BuiltFrame ==
  ASSUME UNCHANGED <<status, total, ar>>
  PROVE  /\ ar \in Built \/ (status = "CANCELADO" /\ LiveRows = {})
              => (ar \in Built \/ (status = "CANCELADO" /\ LiveRows = {}))'
         /\ LiveRows' = LiveRows
BY ParcelsFrame DEF LiveRows

LEMMA InitSerial == Init /\ OneAtATime => SerialInv
<1>. SUFFICES ASSUME Init, OneAtATime PROVE SerialInv
  OBVIOUS
<1>1. TypeOK
  BY InitIInv DEF IInv
<1>2. PICK c \in Call : \A d \in Call \ {c} : pc[d] = "idle"
  BY DEF OneAtATime
<1>3. SlotSound(c)
  BY <1>2 DEF Init, SlotSound, ParcelsBuilt, ParcelsFollow, StillSo, Built,
     InvoiceSteps, SplitSteps, CancelSteps
<1>. QED  BY <1>1, <1>2, <1>3 DEF SerialInv

\* A request is admitted: what it read has only just been read.
LEMMA SerialAsk ==
  ASSUME IInv, NEW c \in Call, SlotSound(c), Ask(c)
  PROVE  SlotSound(c)'
<1>. USE DEF orderVars, poVars, soVars
<1>1. PICK w : /\ Admit(c, w)
               /\ w \in Status => w \in Transitions[status]
               /\ w \in {"edit", "delete"} => status = "EM_ORCAMENTO"
               /\ UNCHANGED <<status, total, ar>>
  <2>1. CASE ChangeStatus(c)
    <3>1. \A s \in Transitions[status] : s \in Status
      BY DEF IInv, TypeOK, Transitions, Status
    <3>. QED  BY <2>1, <3>1 DEF ChangeStatus, Status
  <2>2. CASE AskEdit(c)
    BY <2>2 DEF AskEdit, Status
  <2>3. CASE AskProduction(c)
    BY <2>3 DEF AskProduction, PoOp, Status
  <2>. QED  BY <2>1, <2>2, <2>3 DEF Ask
<1>2. /\ pc[c] = "idle" /\ pc'[c] = "write" /\ want'[c] = w /\ UNCHANGED failures
  BY <1>1 DEF Admit, IInv, TypeOK
<1>3. StillSo(c)'
  BY <1>1, <1>2 DEF StillSo, InvoiceSteps, SplitSteps, CancelSteps
<1>4. ParcelsBuilt(c)'
  BY <1>1, <1>2, BuiltFrame DEF SlotSound, ParcelsBuilt
<1>5. ParcelsFollow(c) => ParcelsFollow(c)'
  BY <1>1, <1>2, ParcelsFrame, BuiltFrame DEF ParcelsFollow
<1>. QED  BY <1>2, <1>3, <1>4, <1>5 DEF SlotSound

\* The write of a status is the transition that was checked.
LEMMA SerialWriteStatus ==
  ASSUME IInv, NEW c \in Call, SlotSound(c), WriteStatus(c)
  PROVE  /\ SlotSound(c)'
         /\ status' \in Transitions[status] /\ UNCHANGED total
<1>. USE DEF SlotSound
<1>1. /\ pc[c] = "write" /\ want[c] \in Status /\ status' = want[c]
      /\ pc' = [pc EXCEPT ![c] = "record"] /\ UNCHANGED <<want, total, ar, failures>>
  BY DEF WriteStatus, Writing, Goto
<1>2. pc'[c] = "record"
  BY <1>1 DEF IInv, TypeOK
<1>3. status' \in Transitions[status]
  BY <1>1 DEF StillSo
<1>4. status \in Status
  BY DEF IInv, TypeOK
<1>5. StillSo(c)'
  BY <1>1, <1>2, <1>3, <1>4
     DEF StillSo, InvoiceSteps, SplitSteps, CancelSteps, Transitions, Status
<1>6. status # "CANCELADO" /\ (status' = "FATURAR" => status = "EM_ORCAMENTO")
  BY <1>3, <1>4 DEF Transitions, Status
<1>7. ParcelsBuilt(c)'
  BY <1>1, <1>2, <1>3, <1>4, <1>6, ParcelsFrame DEF ParcelsBuilt, Transitions, Status
<1>8. ParcelsFollow(c) => ParcelsFollow(c)'
  BY <1>1, <1>2, <1>3, <1>4, ParcelsFrame DEF ParcelsFollow, Transitions, Status
<1>. QED  BY <1>1, <1>3, <1>5, <1>7, <1>8

\* The other writes; only an edit changes the total, of an order that has
\* no receivables yet.
LEMMA SerialOtherWrite ==
  ASSUME IInv, NEW c \in Call, SlotSound(c),
         WriteEdit(c) \/ WriteDelete(c) \/ WriteProduction(c) \/ CreateProduction(c)
  PROVE  /\ SlotSound(c)'
         /\ UNCHANGED status /\ (total' # total => status = "EM_ORCAMENTO")
<1>. USE DEF orderVars, poVars, soVars, SlotSound
<1>1. /\ pc[c] = "write" /\ pc'[c] = "idle"
      /\ UNCHANGED <<status, ar, failures>>
  BY DEF WriteEdit, WriteDelete, WriteProduction, CreateProduction, Writing, Return, Leave,
         IInv, TypeOK
<1>2. total' # total => status = "EM_ORCAMENTO"
  BY DEF WriteEdit, WriteDelete, WriteProduction, CreateProduction, Writing, StillSo
<1>3. StillSo(c)'
  BY <1>1 DEF StillSo, InvoiceSteps, SplitSteps, CancelSteps
<1>4. CASE total' = total
  BY <1>1, <1>2, <1>3, <1>4, ParcelsFrame, BuiltFrame DEF ParcelsBuilt, ParcelsFollow
<1>5. CASE total' # total
  <2>1. ar' = << >> /\ status' = "EM_ORCAMENTO"
    BY <1>1, <1>2, <1>5 DEF ParcelsBuilt
  <2>. QED  BY <1>1, <1>2, <1>3, <2>1 DEF ParcelsBuilt, ParcelsFollow, Built
<1>. QED  BY <1>4, <1>5

\* The listener that the recorded status starts.
LEMMA SerialRecord ==
  ASSUME IInv, NEW c \in Call, SlotSound(c), Record(c)
  PROVE  SlotSound(c)' /\ UNCHANGED <<status, total>>
<1>. USE DEF orderVars, poVars, soVars, SlotSound
<1>1. /\ pc[c] = "record" /\ pc'[c] = Reaction(want[c])
      /\ UNCHANGED <<status, total, ar, failures>>
  BY DEF Record, Return, Leave, Goto, IInv, TypeOK
<1>2. status = want[c] /\ status \in Status \ {"EM_ORCAMENTO"}
  BY <1>1 DEF StillSo, IInv, TypeOK
<1>3. pc'[c] = Reaction(status)
  BY <1>1, <1>2
<1>4. StillSo(c)'
  BY <1>1, <1>2, <1>3
     DEF StillSo, InvoiceSteps, SplitSteps, CancelSteps, Reaction, Status
<1>5. ParcelsBuilt(c)'
  BY <1>1, <1>2, <1>3, BuiltFrame DEF ParcelsBuilt, Reaction, Status
<1>6. ParcelsFollow(c) => ParcelsFollow(c)'
  BY <1>1, <1>2, <1>3, ParcelsFrame, BuiltFrame DEF ParcelsFollow, Reaction, Status
<1>. QED  BY <1>1, <1>4, <1>5, <1>6

\* The listener of FATURAR: the parcels are those of the total.
LEMMA SerialInvoice ==
  ASSUME IInv, NEW c \in Call, SlotSound(c),
         ReadTotal(c) \/ FindReceivable(c) \/ FirstParcel(c) \/ SecondParcel(c)
  PROVE  SlotSound(c)'
<1>. USE DEF orderVars, poVars, soVars, SlotSound
<1>0. /\ pc[c] \in InvoiceSteps /\ status = "FATURAR"
      /\ UNCHANGED <<status, total, failures>>
  BY DEF ReadTotal, FindReceivable, FirstParcel, SecondParcel, InvoiceSteps, StillSo, Return, Goto
<1>1. CASE ReadTotal(c)
  <2>1. /\ pc[c] = "read total" /\ pc'[c] = "find receivable" /\ seen'[c].total = total
        /\ UNCHANGED ar
    BY <1>1 DEF ReadTotal, Goto, IInv, TypeOK
  <2>. QED  BY <1>0, <2>1, BuiltFrame
       DEF ParcelsBuilt, ParcelsFollow, StillSo, InvoiceSteps, SplitSteps, CancelSteps
<1>2. CASE FindReceivable(c)
  <2>1. pc[c] = "find receivable" /\ ar = << >>
    BY <1>0, <1>2 DEF FindReceivable, ParcelsBuilt
  <2>2. LiveRows = {}
    <3>1. DOMAIN ar = {}
      BY <2>1, NoReceivables
    <3>. QED  BY <3>1 DEF LiveRows
  <2>3. /\ pc'[c] = "first parcel" /\ UNCHANGED <<seen, ar>>
    BY <1>2, <2>2 DEF FindReceivable, Goto, IInv, TypeOK
  <2>. QED  BY <1>0, <2>1, <2>3, BuiltFrame
       DEF ParcelsBuilt, ParcelsFollow, StillSo, InvoiceSteps, SplitSteps, CancelSteps
<1>3. CASE FirstParcel(c)
  <2>1. /\ pc[c] = "first parcel" /\ pc'[c] = "second parcel" /\ UNCHANGED seen
        /\ ar' = Append(ar, Parcel(1, HalfUp(seen[c].total), "PAID"))
    BY <1>3 DEF FirstParcel, Goto, IInv, TypeOK
  <2>2. ar = << >> /\ seen[c].total = total
    BY <1>0, <2>1 DEF ParcelsBuilt, StillSo, InvoiceSteps
  <2>3. ar' = <<Parcel(1, HalfUp(total), "PAID")>>
    BY <2>1, <2>2, AppendToNone
  <2>4. ar' = <<Parcel(1, HalfUp(total), "PAID")>>' /\ ar' \in Built'
    BY <1>0, <2>3, ParcelsFrame DEF Built
  <2>. QED  BY <1>0, <2>1, <2>2, <2>4
       DEF ParcelsBuilt, ParcelsFollow, StillSo, InvoiceSteps, SplitSteps, CancelSteps
<1>4. CASE SecondParcel(c)
  <2>1. /\ pc[c] = "second parcel" /\ pc'[c] = "idle"
        /\ ar' = Append(ar, Parcel(2, Rest(seen[c].total), "PENDING"))
    BY <1>4 DEF SecondParcel, Return, Leave, IInv, TypeOK
  <2>2. ar = <<Parcel(1, HalfUp(total), "PAID")>> /\ seen[c].total = total
    BY <1>0, <2>1 DEF ParcelsBuilt, StillSo, InvoiceSteps
  <2>3. ar' = Parcels("PENDING")
    BY <2>1, <2>2, AppendToOne DEF Parcels
  <2>4. ar' = Parcels("PENDING")' /\ ar' \in Built'
    BY <1>0, <2>3, ParcelsFrame DEF Built
  <2>. QED  BY <1>0, <2>1, <2>4
       DEF ParcelsBuilt, ParcelsFollow, StillSo, InvoiceSteps, SplitSteps, CancelSteps
<1>. QED  BY <1>1, <1>2, <1>3, <1>4

\* The listener of PRODUZIR does not look at the parcels.
LEMMA SerialSplit ==
  ASSUME IInv, NEW c \in Call, SlotSound(c),
         ReadItems(c) \/ FindProduction(c) \/ SplitProduction(c) \/ SplitSeparation(c)
  PROVE  SlotSound(c)'
<1>. USE DEF orderVars, poVars, soVars, SlotSound
<1>1. /\ pc[c] \in SplitSteps /\ pc'[c] \in (SplitSteps \ {"read items"}) \cup {"idle"}
      /\ UNCHANGED <<status, total, ar, failures>>
  BY DEF ReadItems, FindProduction, SplitProduction, SplitSeparation, SplitSteps, Return,
         Leave, Goto, IInv, TypeOK
<1>2. status = "PRODUZIR"
  BY <1>1 DEF StillSo
<1>. QED  BY <1>1, <1>2, ParcelsFrame, BuiltFrame
     DEF ParcelsBuilt, ParcelsFollow, StillSo, InvoiceSteps, SplitSteps, CancelSteps

\* The listener of CANCELADO reverses what FATURAR has inserted.
LEMMA SerialCancel ==
  ASSUME IInv, NEW c \in Call, SlotSound(c),
         CancelReceivables(c) \/ CancelProduction(c) \/ CancelSeparation(c)
  PROVE  SlotSound(c)'
<1>. USE DEF orderVars, poVars, soVars, SlotSound
<1>1. /\ pc[c] \in CancelSteps
      /\ pc'[c] \in {"cancel production", "cancel separation", "idle"}
      /\ UNCHANGED <<status, total, failures>>
  BY DEF CancelReceivables, CancelProduction, CancelSeparation, CancelSteps, Return, Leave,
         Goto, IInv, TypeOK
<1>2. status = "CANCELADO"
  BY <1>1 DEF StillSo
<1>3. StillSo(c)'
  BY <1>1, <1>2 DEF StillSo, InvoiceSteps, SplitSteps, CancelSteps
<1>4. CASE CancelReceivables(c)
  <2>1. LiveRows' = {}
    BY <1>4, ReversedParcels DEF CancelReceivables, IInv, TypeOK
  <2>. QED  BY <1>1, <1>2, <1>3, <2>1 DEF ParcelsBuilt, ParcelsFollow
<1>5. CASE CancelProduction(c) \/ CancelSeparation(c)
  <2>1. pc[c] \in {"cancel production", "cancel separation"} /\ UNCHANGED ar
    BY <1>5 DEF CancelProduction, CancelSeparation
  <2>. QED  BY <1>1, <1>2, <1>3, <2>1, BuiltFrame DEF ParcelsBuilt, ParcelsFollow
<1>. QED  BY <1>4, <1>5

\* The listener of ENTREGUE finds the second parcel, if it was inserted, and
\* settles it.
LEMMA SerialSettle ==
  ASSUME IInv, NEW c \in Call, SlotSound(c),
         FindPending(c) \/ Settle(c)
  PROVE  SlotSound(c)'
<1>. USE DEF orderVars, poVars, soVars, SlotSound
<1>0. /\ pc[c] \in {"find pending", "settle"} /\ status = "ENTREGUE"
      /\ UNCHANGED <<status, total, failures>>
  BY DEF FindPending, Settle, StillSo, Return, Goto
<1>1. total \in Nat /\ ar \in Built
  BY <1>0 DEF IInv, TypeOK, ParcelsBuilt
<1>2. CASE FindPending(c) /\ Pending = {}
  <2>1. pc'[c] = "idle" /\ UNCHANGED ar /\ pc[c] = "find pending"
    BY <1>2 DEF FindPending, Return, Leave, IInv, TypeOK
  <2>2. ar # Parcels("PENDING")
    BY <1>1, <1>2, PendingParcels
  <2>. QED  BY <1>0, <2>1, <2>2, BuiltFrame
       DEF ParcelsBuilt, ParcelsFollow, StillSo, InvoiceSteps, SplitSteps, CancelSteps
<1>3. CASE FindPending(c) /\ Pending # {}
  <2>1. ar = Parcels("PENDING")
    <3>1. ASSUME ar = << >> PROVE Pending = {}
      BY <3>1, NoReceivables DEF Pending, LiveRows
    <3>2. ASSUME ar = <<Parcel(1, HalfUp(total), "PAID")>> PROVE Pending = {}
      <4>1. DOMAIN ar = {1} /\ ar[1].st = "PAID"
        BY <3>2 DEF Parcel
      <4>. QED  BY <4>1 DEF Pending, LiveRows
    <3>3. ASSUME ar = Parcels("PAID") PROVE Pending = {}
      <4>1. DOMAIN ar = 1..2 /\ ar[1].st = "PAID" /\ ar[2].st = "PAID"
        BY <3>3 DEF Parcels, Parcel
      <4>. QED  BY <4>1 DEF Pending, LiveRows
    <3>. QED  BY <1>1, <1>3, <3>1, <3>2, <3>3 DEF Built
  <2>2. pc'[c] = "settle" /\ UNCHANGED ar /\ seen' = [seen EXCEPT ![c].row = 2]
    BY <1>1, <1>3, <2>1, PendingParcels DEF FindPending, Goto, IInv, TypeOK
  <2>3. seen'[c].row = 2
    BY <2>2 DEF IInv, TypeOK
  <2>4. pc[c] = "find pending"
    BY <1>3 DEF FindPending
  <2>. QED  BY <1>0, <2>1, <2>2, <2>3, <2>4, ParcelsFrame, BuiltFrame
       DEF ParcelsBuilt, ParcelsFollow, StillSo, InvoiceSteps, SplitSteps, CancelSteps
<1>4. CASE Settle(c)
  <2>1. pc'[c] = "idle" /\ seen[c].row = 2 /\ ar' = [ar EXCEPT ![2].st = "PAID"]
    BY <1>4 DEF Settle, Return, Leave, StillSo, IInv, TypeOK
  <2>2. ar = Parcels("PENDING")
    BY <1>4 DEF Settle, ParcelsBuilt
  <2>3. ar' = Parcels("PAID")' /\ ar' \in Built'
    <3>1. ar' = Parcels("PAID")
      BY <1>1, <2>1, <2>2, PendingParcels
    <3>. QED  BY <1>0, <3>1, ParcelsFrame DEF Built
  <2>. QED  BY <1>0, <2>1, <2>3
       DEF ParcelsBuilt, ParcelsFollow, StillSo, InvoiceSteps, SplitSteps, CancelSteps
<1>. QED  BY <1>2, <1>3, <1>4

\* A failure leaves the parcels as they are, and the rest of the handler
\* undone.
LEMMA SerialFail ==
  ASSUME IInv, NEW c \in Call, SlotSound(c), Fail(c)
  PROVE  SlotSound(c)' /\ UNCHANGED <<status, total>>
<1>. USE DEF orderVars, poVars, soVars, SlotSound
<1>1. /\ pc'[c] = "idle" /\ failures' # 0
      /\ UNCHANGED <<status, total, ar>>
  BY DEF Fail, Leave, IInv, TypeOK
<1>. QED  BY <1>1, BuiltFrame
     DEF ParcelsBuilt, StillSo, InvoiceSteps, SplitSteps, CancelSteps

\* Requests of one step touch neither the status, the total nor the parcels.
LEMMA SerialFrame ==
  ASSUME NEW c \in Call, SlotSound(c), UNCHANGED <<status, total, ar, slotVars>>
  PROVE  SlotSound(c)'
<1>1. ParcelsBuilt(c) => ParcelsBuilt(c)'
  BY ParcelsFrame, BuiltFrame DEF ParcelsBuilt, slotVars
<1>2. ParcelsFollow(c) => ParcelsFollow(c)'
  BY ParcelsFrame, BuiltFrame DEF ParcelsFollow, slotVars
<1>. QED  BY <1>1, <1>2 DEF SlotSound, StillSo, slotVars

\* All slots that are idle know the same.
LEMMA IdleSound ==
  ASSUME NEW c \in Call, NEW d \in Call, pc[c] = "idle", pc[d] = "idle", SlotSound(c)
  PROVE  SlotSound(d)
BY DEF SlotSound, ParcelsBuilt, ParcelsFollow, StillSo, InvoiceSteps, SplitSteps, CancelSteps

\* A step of slot c changes no other slot, and only an idle slot is admitted.
LEMMA OtherSlots ==
  ASSUME TypeOK, NEW c \in Call, Ask(c) \/ Write(c) \/ Record(c) \/ Listen(c) \/ Fail(c)
  PROVE  /\ \A d \in Call \ {c} : pc'[d] = pc[d]
         /\ pc[c] = "idle" => pc'[c] # "idle" /\ Ask(c)
<1>1. PICK step \in PC : pc' = [pc EXCEPT ![c] = step]
  <2>1. Reaction(want[c]) \in PC
    BY DEF Reaction, PC
  <2>. QED
    BY <2>1 DEF Ask, ChangeStatus, AskEdit, AskProduction, Admit, Write, WriteStatus, WriteEdit,
       WriteDelete, WriteProduction, CreateProduction, Record, Listen, ReadTotal,
       FindReceivable, FirstParcel, SecondParcel, ReadItems, FindProduction,
       SplitProduction, SplitSeparation, CancelReceivables, CancelProduction,
       CancelSeparation, FindPending, Settle, Fail, Goto, Return, Leave, PC
<1>2. Write(c) \/ Record(c) \/ Listen(c) \/ Fail(c) => pc[c] # "idle"
  BY DEF Write, WriteStatus, WriteEdit, WriteDelete, WriteProduction, CreateProduction,
     Writing, Record, Listen, ReadTotal, FindReceivable, FirstParcel, SecondParcel,
     ReadItems, FindProduction, SplitProduction, SplitSeparation, CancelReceivables,
     CancelProduction, CancelSeparation, FindPending, Settle, Fail
<1>3. Ask(c) => pc'[c] = "write"
  BY DEF Ask, ChangeStatus, AskEdit, AskProduction, Admit, TypeOK
<1>. QED  BY <1>1, <1>2, <1>3 DEF TypeOK

\* A step of the busy slot.
LEMMA SerialStep ==
  ASSUME IInv, NEW c \in Call, SlotSound(c),
         Ask(c) \/ Write(c) \/ Record(c) \/ Listen(c) \/ Fail(c)
  PROVE  /\ SlotSound(c)'
         /\ status' # status => status' \in Transitions[status]
         /\ total' # total => status = "EM_ORCAMENTO"
<1>. USE DEF orderVars, poVars, soVars
<1>1. CASE Ask(c)
  <2>1. UNCHANGED <<status, total>>
    BY <1>1 DEF Ask, ChangeStatus, AskEdit, AskProduction
  <2>. QED  BY <1>1, <2>1, SerialAsk
<1>2. CASE Write(c)
  BY <1>2, SerialWriteStatus, SerialOtherWrite DEF Write
<1>3. CASE Record(c)
  BY <1>3, SerialRecord
<1>4. CASE Listen(c)
  <2>1. UNCHANGED <<status, total>>
    BY <1>4, ListenerFrame
  <2>2. SlotSound(c)'
    BY <1>4, SerialInvoice, SerialSplit, SerialCancel, SerialSettle DEF Listen
  <2>. QED  BY <2>1, <2>2
<1>5. CASE Fail(c)
  BY <1>5, SerialFail
<1>. QED  BY <1>1, <1>2, <1>3, <1>4, <1>5

\* A step of some slot, or of nobody.
LEMMA SerialNext ==
  ASSUME IInv, IInv', SerialInv, OneAtATime', [Next]_vars
  PROVE  /\ SerialInv'
         /\ status' # status => status' \in Transitions[status]
         /\ total' # total => status = "EM_ORCAMENTO"
<1>. USE DEF orderVars, poVars, soVars
<1>1. PICK c \in Call : (\A d \in Call \ {c} : pc[d] = "idle") /\ SlotSound(c)
  BY DEF SerialInv
<1>2. TypeOK /\ TypeOK'
  BY DEF IInv
<1>3. ASSUME NEW d \in Call, Ask(d) \/ Write(d) \/ Record(d) \/ Listen(d) \/ Fail(d)
      PROVE  /\ SerialInv'
             /\ status' # status => status' \in Transitions[status]
             /\ total' # total => status = "EM_ORCAMENTO"
  <2>1. d # c => pc[d] = "idle" /\ pc'[d] # "idle" /\ pc'[c] = pc[c]
    BY <1>1, <1>2, <1>3, OtherSlots
  <2>2. d # c => pc[c] = "idle"
    BY <2>1 DEF OneAtATime
  <2>3. (\A e \in Call \ {d} : pc[e] = "idle") /\ SlotSound(d)
    BY <1>1, <2>1, <2>2, IdleSound
  <2>4. \A e \in Call \ {d} : pc'[e] = "idle"
    BY <1>2, <1>3, <2>3, OtherSlots
  <2>5. /\ SlotSound(d)'
        /\ status' # status => status' \in Transitions[status]
        /\ total' # total => status = "EM_ORCAMENTO"
    BY <1>3, <2>3, SerialStep
  <2>. QED  BY <1>2, <2>4, <2>5 DEF SerialInv
<1>4. CASE RegisterPayment \/ ChangeSupplies \/ RemoveProduction \/ SeparationStep \/ UNCHANGED vars
  <2>1. UNCHANGED <<status, total, ar, slotVars>>
    BY <1>4 DEF RegisterPayment, ChangeSupplies, RemoveProduction, SeparationStep, vars
  <2>2. SlotSound(c)'
    BY <1>1, <2>1, SerialFrame
  <2>3. \A d \in Call \ {c} : pc'[d] = "idle"
    BY <1>1, <2>1 DEF slotVars
  <2>. QED  BY <1>2, <2>1, <2>2, <2>3 DEF SerialInv
<1>. QED  BY <1>3, <1>4 DEF Next

\* The inductive invariant of requests that do not overlap.
LEMMA SerialInvariant == Spec /\ []OneAtATime => []SerialInv
<1>1. SerialInv /\ IInv /\ IInv' /\ OneAtATime' /\ [Next]_vars => SerialInv'
  BY SerialNext
<1>. QED  BY <1>1, InitSerial, OrderInvariant, PTL DEF Spec

\* Requests that do not overlap move the status along the machine's table,
\* wherever the earlier ones were cut off.
THEOREM SerialFollowsMachine == Spec /\ []OneAtATime => FollowsMachine
<1>1. SerialInv /\ IInv /\ IInv' /\ OneAtATime' /\ [Next]_vars =>
        [status' # status => status' \in Transitions[status]]_vars
  BY SerialNext
<1>. QED  BY <1>1, SerialInvariant, OrderInvariant, PTL DEF Spec, FollowsMachine

\* An invoiced total is not edited by requests that do not overlap.
THEOREM SerialTotalFrozen == Spec /\ []OneAtATime => TotalFrozen
<1>1. SerialInv /\ IInv /\ IInv' /\ OneAtATime' /\ [Next]_vars =>
        [total' # total => status = "EM_ORCAMENTO"]_vars
  BY SerialNext
<1>. QED  BY <1>1, SerialInvariant, OrderInvariant, PTL DEF Spec, TotalFrozen

\* The two parcels, their amounts and their sum, whatever the rounding.
LEMMA ParcelsAddUp ==
  ASSUME NEW st, ar = Parcels(st), total \in Nat
  PROVE  /\ LiveRows = {1, 2} /\ ar[1].part = 1 /\ ar[2].part = 2
         /\ ar[1].amount \in 0..total /\ ar[2].amount \in 0..total
         /\ ar[1].amount + ar[2].amount = total
<1>1. /\ DOMAIN ar = 1..2
      /\ ar[1] = Parcel(1, HalfUp(total), "PAID") /\ ar[2] = Parcel(2, Rest(total), st)
  BY DEF Parcels
<1>2. LiveRows = {1, 2} /\ ar[1].part = 1 /\ ar[2].part = 2
  BY <1>1 DEF LiveRows, Parcel
<1>3. ar[1].amount = HalfUp(total) /\ ar[2].amount = Rest(total)
  BY <1>1 DEF Parcel
<1>4. HalfUp(total) \in 0..total
  BY DEF HalfUp
<1>5. Rest(total) = total - HalfUp(total)
  BY DEF Rest
<1>. QED  BY <1>2, <1>3, <1>4, <1>5

\* Requests that do not overlap never ask the customer for a part of the total
\* twice, wherever a listener was cut off.
THEOREM SerialNeverOverAsked == Spec /\ []OneAtATime => []NeverOverAsked
<1>1. SerialInv => NeverOverAsked
  <2>. SUFFICES ASSUME SerialInv PROVE NeverOverAsked
    OBVIOUS
  <2>1. total \in Nat /\ (ar \in Built \/ LiveRows = {})
    BY DEF SerialInv, TypeOK, SlotSound, ParcelsBuilt
  <2>2. CASE ar = << >> \/ LiveRows = {}
    <3>1. LiveRows = {}
      BY <2>2, NoReceivables DEF LiveRows
    <3>. QED  BY <3>1 DEF NeverOverAsked
  <2>3. CASE ar = <<Parcel(1, HalfUp(total), "PAID")>>
    <3>1. DOMAIN ar = {1} /\ ar[1].amount = HalfUp(total)
      BY <2>3 DEF Parcel
    <3>2. HalfUp(total) <= total
      BY <2>1 DEF HalfUp
    <3>. QED  BY <3>1, <3>2 DEF NeverOverAsked, LiveRows
  <2>4. CASE ar \in {Parcels("PENDING"), Parcels("PAID")}
    <3>1. PICK st : ar = Parcels(st)
      BY <2>4
    <3>2. /\ LiveRows = {1, 2} /\ ar[1].part = 1 /\ ar[2].part = 2
          /\ ar[1].amount \in 0..total /\ ar[2].amount \in 0..total
          /\ ar[1].amount + ar[2].amount = total
      BY <2>1, <3>1, ParcelsAddUp
    <3>. QED  BY <3>2 DEF NeverOverAsked
  <2>. QED  BY <2>1, <2>2, <2>3, <2>4 DEF Built
<1>. QED  BY <1>1, SerialInvariant, PTL

\* Unless a handler failed, the two parcels of an invoiced order add up to any
\* total, odd or even.
THEOREM SerialReceivables ==
  Spec /\ []OneAtATime => [](failures = 0 => ReceivablesCoverOrder)
<1>1. SerialInv => (failures = 0 => ReceivablesCoverOrder)
  <2>. SUFFICES ASSUME SerialInv, failures = 0, Quiet, status \in Invoiced
                PROVE  ReceivablesCoverOrder
    BY DEF ReceivablesCoverOrder
  <2>1. PICK c \in Call : ParcelsFollow(c) /\ pc[c] = "idle"
    BY DEF SerialInv, SlotSound, Quiet
  <2>2. PICK st : ar = Parcels(st)
    BY <2>1 DEF ParcelsFollow, Invoiced
  <2>3. /\ LiveRows = {1, 2} /\ ar[1].part = 1 /\ ar[2].part = 2
        /\ ar[1].amount + ar[2].amount = total
    BY <2>2, ParcelsAddUp DEF SerialInv, TypeOK
  <2>. QED  BY <2>3 DEF ReceivablesCoverOrder
<1>. QED  BY <1>1, SerialInvariant, PTL

\* Unless a handler failed, nothing is left to pay of a delivered order.
THEOREM SerialDelivered ==
  Spec /\ []OneAtATime => [](failures = 0 => DeliveredIsSettled)
<1>1. SerialInv => (failures = 0 => DeliveredIsSettled)
  <2>. SUFFICES ASSUME SerialInv, failures = 0, Quiet, status = "ENTREGUE"
                PROVE  \A k \in LiveRows : ar[k].st = "PAID"
    BY DEF DeliveredIsSettled
  <2>1. PICK c \in Call : ParcelsFollow(c) /\ pc[c] = "idle"
    BY DEF SerialInv, SlotSound, Quiet
  <2>2. ar = Parcels("PAID")
    BY <2>1 DEF ParcelsFollow
  <2>3. DOMAIN ar = 1..2 /\ ar[1].st = "PAID" /\ ar[2].st = "PAID"
    BY <2>2 DEF Parcels, Parcel
  <2>. QED  BY <2>3 DEF LiveRows
<1>. QED  BY <1>1, SerialInvariant, PTL

\* Unless a handler failed, every receivable of a cancelled order is reversed,
\* paid parcels included.
THEOREM SerialCancelled ==
  Spec /\ []OneAtATime => [](failures = 0 => CancelledIsReversed)
<1>1. SerialInv => (failures = 0 => CancelledIsReversed)
  BY DEF SerialInv, SlotSound, CancelledIsReversed, Quiet, ParcelsFollow
<1>. QED  BY <1>1, SerialInvariant, PTL

-----------------------------------------------------------------------------
\* Every step of an order, listeners included, is one of the separation
\* order's contract or leaves it alone.
LEMMA StepKeepsSeparation ==
  ASSUME [Next]_vars
  PROVE  [Separation!Next]_<<soRow, so>>
<1>. USE DEF soVars, poVars, orderVars
<1>1. ASSUME NEW c \in Call, Ask(c) \/ Write(c) \/ Record(c) \/ Fail(c)
      PROVE  UNCHANGED soVars
  <2>1. CASE Ask(c)
    BY <2>1 DEF Ask, ChangeStatus, AskEdit, AskProduction
  <2>2. CASE Write(c)
    BY <2>2 DEF Write, WriteStatus, WriteEdit, WriteDelete, WriteProduction,
       CreateProduction
  <2>. QED  BY <1>1, <2>1, <2>2 DEF Record, Fail
<1>2. ASSUME NEW c \in Call, Listen(c)
      PROVE  UNCHANGED soVars \/ Separation!Insert \/ Separation!Delete
  <2>1. CASE SplitSeparation(c)
    BY <2>1 DEF SplitSeparation, Separation!Insert
  <2>2. CASE CancelSeparation(c)
    BY <2>2 DEF CancelSeparation, Separation!Delete
  <2>. QED
    BY <1>2, <2>1, <2>2 DEF Listen, ReadTotal, FindReceivable, FirstParcel,
       SecondParcel, ReadItems, FindProduction, SplitProduction, CancelReceivables,
       CancelProduction, FindPending, Settle
<1>3. CASE RegisterPayment \/ ChangeSupplies \/ RemoveProduction
  BY <1>3 DEF RegisterPayment, ChangeSupplies, RemoveProduction
<1>4. CASE SeparationStep
  BY <1>4 DEF SeparationStep
<1>5. CASE UNCHANGED vars
  BY <1>5 DEF vars
<1>. QED  BY <1>1, <1>2, <1>3, <1>4, <1>5 DEF Next, Separation!Next

\* The separation order of an order keeps its contract, although listeners of
\* the order's status create and delete it.
THEOREM OrderKeepsSeparation == Spec => KeepsSeparation
<1>1. Init => Separation!Init
  BY DEF Init, Separation!Init
<1>2. [Next]_vars => [Separation!Next]_<<soRow, so>>
  BY StepKeepsSeparation
<1>. QED  BY <1>1, <1>2, PTL DEF Spec, KeepsSeparation, Separation!Spec
=============================================================================
