----------------------------- MODULE Purchasing -----------------------------
(***************************************************************************)
(* Purchase quotations, the purchase orders made from them and the account *)
(* payable each order opens (Account: the payable of order o is account    *)
(* o).  Requests read a quotation or an order, check the transition and    *)
(* write the new status by id in a later statement; only the creation of   *)
(* an order compares the status in the write itself.                       *)
(***************************************************************************)
EXTENDS Account, FiniteSets

CONSTANTS
    Quotation,      \* quotations, each created once at most
    Order,          \* purchase orders, each created once at most
    Clerk,          \* purchasing requests in flight at the same time
    None,           \* no quotation, no order
    MaxSelections   \* bound on how often a quotation is selected

ASSUME PurchasingAssumption ==
    /\ Order \subseteq Payable
    /\ IsFiniteSet(Order)
    /\ None \notin Quotation \cup Order
    /\ MaxSelections \in Nat

VARIABLES
    qrow,       \* the purchase_quotations row: absent, live, deleted
    qstatus,    \* its status
    quoted,     \* its totalCents
    of,         \* the quotation an order was made from; None before
    ostatus,    \* the order's status
    total,      \* its totalCents
    kpc,        \* the next statement of each purchasing request
    to,         \* the status it asks for
    about,      \* the quotation or order it is about
    price,      \* the total it read with the quotation
    qbeen,      \* history: the statuses a quotation has had
    obeen,      \* history: the statuses an order has had
    quotes,     \* history: the totals a quotation has had
    selections  \* history: how often SELECTED was written

desk == <<qrow, qstatus, quoted, of, ostatus, total, qbeen, obeen, quotes, selections>>
clerks == <<kpc, to, about, price>>
vars == <<accVars, desk, clerks>>

QStatus == {"DRAFT", "SENT", "RECEIVED", "SELECTED", "REJECTED", "ORDERED"}
OStatus == {"PENDING", "CONFIRMED", "RECEIVED", "CANCELLED"}

\* VALID_TRANSITIONS of both services; ORDERED is written by an order only.
QNext(s) ==
    CASE s = "DRAFT" -> {"SENT"}
      [] s = "SENT" -> {"RECEIVED"}
      [] s = "RECEIVED" -> {"SELECTED", "REJECTED"}
      [] OTHER -> {}

\* Mutant of ONext: a pending order may be received.
ONextEarly(s) ==
    CASE s = "PENDING" -> {"CONFIRMED", "RECEIVED", "CANCELLED"}
      [] s = "CONFIRMED" -> {"RECEIVED", "CANCELLED"}
      [] OTHER -> {}

ONext(s) ==
    CASE s = "PENDING" -> {"CONFIRMED", "CANCELLED"}
      [] s = "CONFIRMED" -> {"RECEIVED", "CANCELLED"}
      [] OTHER -> {}

Init ==
    /\ AccInit
    /\ qrow = [q \in Quotation |-> "absent"]
    /\ qstatus = [q \in Quotation |-> "DRAFT"]
    /\ quoted = [q \in Quotation |-> 0]
    /\ of = [o \in Order |-> None]
    /\ ostatus = [o \in Order |-> "PENDING"]
    /\ total = [o \in Order |-> 0]
    /\ kpc = [k \in Clerk |-> "idle"]
    /\ to = [k \in Clerk |-> "none"]
    /\ about = [k \in Clerk |-> None]
    /\ price = [k \in Clerk |-> 0]
    /\ qbeen = [q \in Quotation |-> {}]
    /\ obeen = [o \in Order |-> {}]
    /\ quotes = [q \in Quotation |-> {}]
    /\ selections = [q \in Quotation |-> 0]

-----------------------------------------------------------------------------
Dismiss(k) ==
    /\ kpc' = [kpc EXCEPT ![k] = "idle"]
    /\ to' = [to EXCEPT ![k] = "none"]
    /\ about' = [about EXCEPT ![k] = None]
    /\ price' = [price EXCEPT ![k] = 0]

\* A request that has read x goes on at statement p.
Take(k, p, s, x, n) ==
    /\ kpc[k] = "idle"
    /\ kpc' = [kpc EXCEPT ![k] = p]
    /\ to' = [to EXCEPT ![k] = s]
    /\ about' = [about EXCEPT ![k] = x]
    /\ price' = [price EXCEPT ![k] = n]

CreateQuotation ==
    /\ \E q \in Quotation, n \in Amount :
        /\ qrow[q] = "absent"
        /\ qrow' = [qrow EXCEPT ![q] = "live"]
        /\ quoted' = [quoted EXCEPT ![q] = n]
        /\ qbeen' = [qbeen EXCEPT ![q] = {"DRAFT"}]
        /\ quotes' = [quotes EXCEPT ![q] = {n}]
    /\ UNCHANGED <<accVars, qstatus, of, ostatus, total, obeen, selections, clerks>>

\* update without a status: a new total, whatever the status is.
Requote ==
    /\ \E q \in Quotation, n \in Amount :
        /\ qrow[q] = "live"
        /\ quoted' = [quoted EXCEPT ![q] = n]
        /\ quotes' = [quotes EXCEPT ![q] = @ \cup {n}]
    /\ UNCHANGED <<accVars, qrow, qstatus, of, ostatus, total, qbeen, obeen,
                   selections, clerks>>

\* update with a status, select and reject: findById and validateTransition.
ReadQuotation(k) ==
    /\ \E q \in Quotation : \E s \in QNext(qstatus[q]) :
        /\ qrow[q] = "live"
        /\ Take(k, "quotation", s, q, 0)
    /\ UNCHANGED <<accVars, desk>>

\* The write by id; update may change the total along with the status.
WriteQuotation(k) ==
    /\ kpc[k] = "quotation"
    /\ to[k] = "SELECTED" => selections[about[k]] < MaxSelections
    /\ \E n \in Amount \cup {quoted[about[k]]} :
        /\ to[k] \in {"SELECTED", "REJECTED"} => n = quoted[about[k]]
        /\ qstatus' = [qstatus EXCEPT ![about[k]] = to[k]]
        /\ quoted' = [quoted EXCEPT ![about[k]] = n]
        /\ quotes' = [quotes EXCEPT ![about[k]] = @ \cup {n}]
    /\ qbeen' = [qbeen EXCEPT ![about[k]] = @ \cup {to[k]}]
    /\ selections' = IF to[k] = "SELECTED"
                       THEN [selections EXCEPT ![about[k]] = @ + 1]
                       ELSE selections
    /\ Dismiss(k)
    /\ UNCHANGED <<accVars, qrow, of, ostatus, total, obeen>>

\* remove: a draft, as read; the write by id comes later.
ReadDraft(k) ==
    /\ \E q \in Quotation :
        /\ qrow[q] = "live"
        /\ qstatus[q] = "DRAFT"
        /\ Take(k, "remove", "none", q, 0)
    /\ UNCHANGED <<accVars, desk>>

RemoveQuotation(k) ==
    /\ kpc[k] = "remove"
    /\ qrow' = [qrow EXCEPT ![about[k]] = "deleted"]
    /\ Dismiss(k)
    /\ UNCHANGED <<accVars, qstatus, quoted, of, ostatus, total, qbeen, obeen,
                   quotes, selections>>

-----------------------------------------------------------------------------
(* PurchaseOrdersService                                                   *)

\* create: the guard outside the transaction; the total is read here.
ReadSelected(k) ==
    /\ \E q \in Quotation :
        /\ qrow[q] = "live"
        /\ qstatus[q] = "SELECTED"
        /\ Take(k, "order", "ORDERED", q, quoted[q])
    /\ UNCHANGED <<accVars, desk>>

\* Mutant of Unconsumed: the update is by id alone.
UnconsumedById(q) == q \in Quotation

\* updateMany ... where status = SELECTED: the comparison in the write.
Unconsumed(q) == qrow[q] = "live" /\ qstatus[q] = "SELECTED"

\* Mutant of PlaceOrder: the payable takes the total the quotation has now.
PlaceOrderFresh(k, o) ==
    /\ OpenAccount(o, quoted[about[k]], "PENDING")
    /\ of' = [of EXCEPT ![o] = about[k]]
    /\ total' = [total EXCEPT ![o] = price[k]]
    /\ obeen' = [obeen EXCEPT ![o] = {"PENDING"}]

\* Mutant of PlaceOrder: the payable is opened as paid, like a first parcel.
PlaceOrderPaid(k, o) ==
    /\ OpenAccount(o, price[k], "PAID")
    /\ of' = [of EXCEPT ![o] = about[k]]
    /\ total' = [total EXCEPT ![o] = price[k]]
    /\ obeen' = [obeen EXCEPT ![o] = {"PENDING"}]

\* The order and its account payable are inserted together.
PlaceOrder(k, o) ==
    /\ OpenAccount(o, price[k], "PENDING")
    /\ of' = [of EXCEPT ![o] = about[k]]
    /\ total' = [total EXCEPT ![o] = price[k]]
    /\ obeen' = [obeen EXCEPT ![o] = {"PENDING"}]

CreateOrder(k) ==
    /\ kpc[k] = "order"
    /\ IF Unconsumed(about[k])
         THEN /\ \E o \in Order : of[o] = None /\ PlaceOrder(k, o)
              /\ qstatus' = [qstatus EXCEPT ![about[k]] = "ORDERED"]
              /\ qbeen' = [qbeen EXCEPT ![about[k]] = @ \cup {"ORDERED"}]
         ELSE UNCHANGED <<accVars, of, total, obeen, qstatus, qbeen>>
    /\ Dismiss(k)
    /\ UNCHANGED <<qrow, quoted, ostatus, quotes, selections>>

\* updateStatus: findById and validateTransition, then a write by id.
ReadOrder(k) ==
    /\ \E o \in Order : \E s \in ONext(ostatus[o]) :
        /\ of[o] # None
        /\ Take(k, "status", s, o, 0)
    /\ UNCHANGED <<accVars, desk>>

WriteOrder(k) ==
    /\ kpc[k] = "status"
    /\ ostatus' = [ostatus EXCEPT ![about[k]] = to[k]]
    /\ obeen' = [obeen EXCEPT ![about[k]] = @ \cup {to[k]}]
    /\ Dismiss(k)
    /\ UNCHANGED <<accVars, qrow, qstatus, quoted, of, total, qbeen, quotes, selections>>

\* A statement throws or the process dies; a transaction is rolled back.
ClerkFails(k) ==
    /\ kpc[k] # "idle"
    /\ Dismiss(k)
    /\ UNCHANGED <<accVars, desk>>

ClerkStep(k) ==
    \/ ReadQuotation(k) \/ WriteQuotation(k) \/ ReadDraft(k) \/ RemoveQuotation(k)
    \/ ReadSelected(k) \/ CreateOrder(k) \/ ReadOrder(k) \/ WriteOrder(k)
    \/ ClerkFails(k)

\* What Account does while purchasing stands still; the payable of an order
\* is opened by the order alone.
AccountStep ==
    /\ AccNext
    /\ \A o \in Order : row[o] = "absent" => row'[o] = "absent"
    /\ UNCHANGED <<desk, clerks>>

Next ==
    \/ CreateQuotation \/ Requote
    \/ \E k \in Clerk : ClerkStep(k)
    \/ AccountStep

Spec == Init /\ [][Next]_vars

-----------------------------------------------------------------------------
(* Properties.                                                             *)

OrdersOf(q) == {o \in Order : of[o] = q}

TypeOK ==
    /\ AccTypeOK
    /\ qrow \in [Quotation -> {"absent", "live", "deleted"}]
    /\ qstatus \in [Quotation -> QStatus]
    /\ quoted \in [Quotation -> Nat]
    /\ of \in [Order -> Quotation \cup {None}]
    /\ ostatus \in [Order -> OStatus]
    /\ total \in [Order -> Nat]
    /\ kpc \in [Clerk -> {"idle", "quotation", "remove", "order", "status"}]
    /\ to \in [Clerk -> QStatus \cup OStatus \cup {"none"}]
    /\ about \in [Clerk -> Quotation \cup Order \cup {None}]
    /\ price \in [Clerk -> Nat]
    /\ qbeen \in [Quotation -> SUBSET QStatus]
    /\ obeen \in [Order -> SUBSET OStatus]
    /\ quotes \in [Quotation -> SUBSET Nat]
    /\ selections \in [Quotation -> Nat]

\* A selection is consumed by one order ("Lock: mark quotation as consumed"):
\* however many requests try, there are no more orders of a quotation than
\* times it was selected, one more while it is SELECTED and unconsumed.
OneOrderPerSelection ==
    \A q \in Quotation :
        Cardinality(OrdersOf(q)) + (IF qstatus[q] = "SELECTED" THEN 1 ELSE 0)
            <= selections[q]

\* The handoff to finance is whole: every order has its account payable, was
\* made from a selected quotation and costs what that quotation has asked;
\* so was the payable, before anyone edited it.
HandoffWhole ==
    \A o \in Order : of[o] # None =>
        /\ row[o] # "absent"
        /\ total[o] \in quotes[of[o]] \cap asked[o]
        /\ {"SELECTED", "ORDERED"} \subseteq qbeen[of[o]]

\* Neither machine skips a step, although writes may land late and overwrite
\* each other: what is SELECTED, REJECTED or ORDERED was received before, and
\* a received order was confirmed.
NoStepSkipped ==
    /\ \A q \in Quotation :
        /\ "RECEIVED" \in qbeen[q] => "SENT" \in qbeen[q]
        /\ qbeen[q] \cap {"SELECTED", "REJECTED"} # {} => "RECEIVED" \in qbeen[q]
        /\ "ORDERED" \in qbeen[q] => "SELECTED" \in qbeen[q]
    /\ \A o \in Order : "RECEIVED" \in obeen[o] => "CONFIRMED" \in obeen[o]

\* Purchasing writes the accounts only in ways the accounts themselves allow:
\* with everything it does in between, it implements Account.
ImplementsAccount == AccSpec

\* Of the requests about one quotation or order only creations of an order
\* overlap, whose write compares the status.
OnlyOrdersOverlap ==
    \A k, l \in Clerk :
        k # l /\ about[k] # None /\ about[k] = about[l] =>
            kpc[k] = "order" /\ kpc[l] = "order"

\* While that is so, a quotation makes one order for good, however many try,
\* is ORDERED exactly when it has, and is not removed once it was sent.
ConsumedOnce ==
    \A q \in Quotation :
        /\ \A o, p \in OrdersOf(q) : o = p
        /\ OrdersOf(q) # {} <=> qstatus[q] = "ORDERED"
        /\ qrow[q] # "live" => qstatus[q] = "DRAFT"

\* The tables of both services rule: REJECTED, ORDERED, CANCELLED and the
\* RECEIVED of an order are final.
MachineStep ==
    /\ \A q \in Quotation :
        \/ qstatus'[q] \in {qstatus[q]} \cup QNext(qstatus[q])
        \/ qstatus[q] = "SELECTED" /\ qstatus'[q] = "ORDERED"
    /\ \A o \in Order : ostatus'[o] \in {ostatus[o]} \cup ONext(ostatus[o])

FollowsMachines == [][MachineStep]_vars

\* What a request has read is then still so when it writes.
DeskIsCurrent ==
    \A k \in Clerk :
        /\ kpc[k] = "quotation" =>
               qrow[about[k]] = "live" /\ to[k] \in QNext(qstatus[about[k]])
        /\ kpc[k] = "remove" => qstatus[about[k]] = "DRAFT"
        /\ kpc[k] = "status" => to[k] \in ONext(ostatus[about[k]])

\* What the rows and the requests in flight know: a request about to write a
\* status has read one from which the transition is valid.
DeskKnows ==
    /\ \A q \in Quotation :
        /\ qrow[q] = "absent" =>
               qstatus[q] = "DRAFT" /\ qbeen[q] = {} /\ selections[q] = 0
        /\ qrow[q] # "absent" => qstatus[q] \in qbeen[q] /\ quoted[q] \in quotes[q]
    /\ \A o \in Order :
        /\ of[o] = None =>
               row[o] = "absent" /\ ostatus[o] = "PENDING" /\ obeen[o] = {}
        /\ of[o] # None => qrow[of[o]] # "absent" /\ ostatus[o] \in obeen[o]
    /\ \A k \in Clerk :
        /\ kpc[k] \in {"quotation", "remove", "order"} =>
               about[k] \in Quotation /\ qrow[about[k]] # "absent"
        /\ kpc[k] = "quotation" => \E s \in qbeen[about[k]] : to[k] \in QNext(s)
        /\ kpc[k] = "order" =>
               price[k] \in quotes[about[k]] /\ "SELECTED" \in qbeen[about[k]]
        /\ kpc[k] = "status" =>
               /\ about[k] \in Order /\ of[about[k]] # None
               /\ \E s \in obeen[about[k]] : to[k] \in ONext(s)

\* The inductive invariant.
IInv ==
    /\ TypeOK /\ AccIInv
    /\ OneOrderPerSelection /\ HandoffWhole /\ NoStepSkipped /\ DeskKnows
=============================================================================
