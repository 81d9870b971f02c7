------------------------------- MODULE Account -------------------------------
(***************************************************************************)
(* Accounts payable and receivable: requests register payments, edit the   *)
(* amount and remove accounts, while the listeners of an order open, settle *)
(* and reverse its receivables.  The two services are the same code.       *)
(*                                                                         *)
(* A payment reads the row in a READ COMMITTED transaction, adds to what   *)
(* it read and writes the sum by id: the read and the write are two steps. *)
(***************************************************************************)
EXTENDS Integers

CONSTANTS
    Acc,            \* accounts, each opened once at most
    Receivable,     \* those that belong to an order
    Payable,        \* those that belong to a purchase order
    Amount,         \* amounts an account may be opened with or edited to
    Payment,        \* amounts of a registered payment
    Call,           \* requests in flight at the same time
    NoAcc,          \* an idle slot is about no account
    MaxReceived     \* bound on what is paid into one account

ASSUME AccountAssumption ==
    /\ Receivable \subseteq Acc
    /\ Payable \subseteq Acc \ Receivable
    /\ Amount \subseteq Nat
    /\ Payment \subseteq Nat \ {0}      \* @Min(1)
    /\ NoAcc \notin Acc
    /\ MaxReceived \in Nat

VARIABLES
    row,        \* the account row: absent, live or deletedAt set
    status,     \* PaymentStatus
    amount,     \* amountCents
    paid,       \* paidAmountCents
    pc,         \* the next statement of each request
    acc,        \* the account it is about
    sum,        \* the payment it registers
    seen,       \* the amounts it read inside its transaction
    asked,      \* history: the amounts an account has had
    received,   \* history: the payments whose transaction committed
    raced       \* history: accounts written under another request's read

table == <<row, status, amount, paid, asked, received, raced>>
payers == <<pc, acc, sum, seen>>
accVars == <<table, payers>>

AStatus == {"PENDING", "PARTIAL", "PAID", "CANCELLED"}

AccInit ==
    /\ row = [a \in Acc |-> "absent"]
    /\ status = [a \in Acc |-> "PENDING"]
    /\ amount = [a \in Acc |-> 0]
    /\ paid = [a \in Acc |-> 0]
    /\ pc = [c \in Call |-> "idle"]
    /\ acc = [c \in Call |-> NoAcc]
    /\ sum = [c \in Call |-> 0]
    /\ seen = [c \in Call |-> [paid |-> 0, amount |-> 0]]
    /\ asked = [a \in Acc |-> {}]
    /\ received = [a \in Acc |-> 0]
    /\ raced = {}

-----------------------------------------------------------------------------
\* The request is over; its slot takes another one later.
Finish(c) ==
    /\ pc' = [pc EXCEPT ![c] = "idle"]
    /\ acc' = [acc EXCEPT ![c] = NoAcc]
    /\ sum' = [sum EXCEPT ![c] = 0]
    /\ seen' = [seen EXCEPT ![c] = [paid |-> 0, amount |-> 0]]

\* The row of an account is inserted, with nothing paid or, for the first
\* parcel of an order, already paid.
OpenAccount(a, n, s) ==
    /\ row[a] = "absent"
    /\ row' = [row EXCEPT ![a] = "live"]
    /\ status' = [status EXCEPT ![a] = s]
    /\ amount' = [amount EXCEPT ![a] = n]
    /\ paid' = [paid EXCEPT ![a] = IF s = "PAID" THEN n ELSE 0]
    /\ asked' = [asked EXCEPT ![a] = {n}]
    /\ received' = [received EXCEPT ![a] = IF s = "PAID" THEN n ELSE 0]
    /\ UNCHANGED <<raced, payers>>

\* create asks for at least one cent; the parcels of an order and the payable
\* of a purchase order may be zero.
CreateAccount ==
    \E a \in Acc, n \in Amount :
        \/ (n > 0 \/ a \in Payable) /\ OpenAccount(a, n, "PENDING")
        \/ a \in Receivable /\ \E s \in {"PENDING", "PAID"} : OpenAccount(a, n, s)

\* update: the amount of a live account, whatever its status; a write by id
\* after a read that only asks whether the row exists.
EditAmount ==
    \E a \in Acc, n \in Amount \ {0} :
        /\ row[a] = "live"
        /\ amount' = [amount EXCEPT ![a] = n]
        /\ asked' = [asked EXCEPT ![a] = @ \cup {n}]
        /\ UNCHANGED <<row, status, paid, received, raced, payers>>

RemoveAccount ==
    \E a \in Acc :
        /\ row[a] = "live"
        /\ row' = [row EXCEPT ![a] = "deleted"]
        /\ UNCHANGED <<status, amount, paid, asked, received, raced, payers>>

\* OrderCanceladoListener: one updateMany over the order's live receivables.
Reverse ==
    \E a \in Receivable :
        /\ row[a] = "live"
        /\ row' = [row EXCEPT ![a] = "deleted"]
        /\ status' = [status EXCEPT ![a] = "CANCELLED"]
        /\ UNCHANGED <<amount, paid, asked, received, raced, payers>>

-----------------------------------------------------------------------------
(* registerPayment                                                         *)

\* The status check, before the transaction.
MayPay(a) == row[a] = "live" /\ status[a] \notin {"PAID", "CANCELLED"}

RegisterPayment(c) ==
    /\ pc[c] = "idle"
    /\ \E a \in Acc, n \in Payment :
        /\ MayPay(a)
        /\ received[a] + n <= MaxReceived
        /\ pc' = [pc EXCEPT ![c] = "read"]
        /\ acc' = [acc EXCEPT ![c] = a]
        /\ sum' = [sum EXCEPT ![c] = n]
    /\ UNCHANGED <<table, seen>>

\* findFirst in the transaction: no lock, and no second look at the status.
ReadAccount(c) ==
    /\ pc[c] = "read"
    /\ IF row[acc[c]] = "live"
         THEN /\ seen' = [seen EXCEPT ![c] =
                     [paid |-> paid[acc[c]], amount |-> amount[acc[c]]]]
              /\ pc' = [pc EXCEPT ![c] = "pay"]
              /\ UNCHANGED <<acc, sum>>
         ELSE Finish(c)
    /\ UNCHANGED table

\* Requests that are about to write what they read of account a.
Overtaken(c) == \E d \in Call \ {c} : acc[d] = acc[c] /\ pc[d] \in {"pay", "settle"}

\* Mutant of PaidStatus: PAID only when the amount is exceeded.
PaidStatusStrict(p, n) == IF p > n THEN "PAID" ELSE "PARTIAL"

\* isPaid
PaidStatus(p, n) == IF p >= n THEN "PAID" ELSE "PARTIAL"

\* What both late writes do: the status and the paid amount by id.
WritePaid(c, s, p, n) ==
    /\ status' = [status EXCEPT ![acc[c]] = s]
    /\ paid' = [paid EXCEPT ![acc[c]] = p]
    /\ received' = [received EXCEPT ![acc[c]] = @ + n]
    /\ raced' = IF Overtaken(c) THEN raced \cup {acc[c]} ELSE raced
    /\ Finish(c)
    /\ UNCHANGED <<row, amount, asked>>

\* Mutant of Pay: the amount that is paid replaces the amount paid so far.
PayReplaces(c) ==
    /\ pc[c] = "pay"
    /\ WritePaid(c, PaidStatus(sum[c], seen[c].amount), sum[c], sum[c])

\* The update by id, of a row that may have changed or been deleted since.
Pay(c) ==
    /\ pc[c] = "pay"
    /\ WritePaid(c, PaidStatus(seen[c].paid + sum[c], seen[c].amount),
                 seen[c].paid + sum[c], sum[c])

-----------------------------------------------------------------------------
(* OrderEntregueListener: finds the pending parcel and settles it.         *)

FindPending(c) ==
    /\ pc[c] = "idle"
    /\ \E a \in Receivable :
        /\ row[a] = "live"
        /\ status[a] = "PENDING"
        /\ received[a] + amount[a] <= MaxReceived
        /\ pc' = [pc EXCEPT ![c] = "settle"]
        /\ acc' = [acc EXCEPT ![c] = a]
        /\ seen' = [seen EXCEPT ![c] = [paid |-> paid[a], amount |-> amount[a]]]
    /\ UNCHANGED <<table, sum>>

Settle(c) ==
    /\ pc[c] = "settle"
    /\ WritePaid(c, "PAID", seen[c].amount, seen[c].amount)

AccCall(c) ==
    \/ RegisterPayment(c) \/ ReadAccount(c) \/ Pay(c)
    \/ FindPending(c) \/ Settle(c)

AccNext ==
    \/ CreateAccount \/ EditAmount \/ RemoveAccount \/ Reverse
    \/ \E c \in Call : AccCall(c)

AccSpec == AccInit /\ [][AccNext]_accVars

-----------------------------------------------------------------------------
(* Properties.                                                             *)

AccTypeOK ==
    /\ row \in [Acc -> {"absent", "live", "deleted"}]
    /\ status \in [Acc -> AStatus]
    /\ amount \in [Acc -> Nat]
    /\ paid \in [Acc -> Nat]
    /\ pc \in [Call -> {"idle", "read", "pay", "settle"}]
    /\ acc \in [Call -> Acc \cup {NoAcc}]
    /\ sum \in [Call -> Nat]
    /\ seen \in [Call -> [paid : Nat, amount : Nat]]
    /\ asked \in [Acc -> SUBSET Nat]
    /\ received \in [Acc -> Nat]
    /\ raced \subseteq Acc

\* The status agrees with the paid amount and an amount the account has had,
\* whatever payments, settlements, edits and reversals overlap: PENDING means
\* nothing paid, PARTIAL less than was asked, PAID all of it.
StatusTellsPaid ==
    \A a \in Acc : row[a] # "absent" =>
        /\ status[a] = "PENDING" => paid[a] = 0
        /\ status[a] = "PARTIAL" => paid[a] > 0 /\ \E n \in asked[a] : paid[a] < n
        /\ status[a] = "PAID" => \E n \in asked[a] : paid[a] >= n

\* No payment is counted twice: an account never shows more than was paid.
NothingInvented == \A a \in Acc : paid[a] <= received[a]

\* A payment is lost only when another request wrote the account between its
\* read and its write: otherwise the account shows all that was paid.
LostOnlyByRace == \A a \in Acc : a \notin raced => paid[a] = received[a]

\* What a request in flight has read: an amount the account has had, a paid
\* amount it has received, and the current one unless it has been overtaken.
PayerKnows ==
    \A c \in Call :
        /\ pc[c] # "idle" => acc[c] \in Acc /\ row[acc[c]] # "absent"
        /\ pc[c] \in {"read", "pay"} => sum[c] > 0
        /\ pc[c] \in {"pay", "settle"} =>
               /\ seen[c].amount \in asked[acc[c]]
               /\ seen[c].paid <= received[acc[c]]
               /\ acc[c] \notin raced => seen[c].paid = paid[acc[c]]
        /\ pc[c] = "settle" => seen[c].paid = 0

AmountsKnown ==
    \A a \in Acc :
        /\ row[a] # "absent" => amount[a] \in asked[a]
        /\ row[a] = "absent" => received[a] = 0 /\ paid[a] = 0

\* The inductive invariant.
AccIInv ==
    AccTypeOK /\ StatusTellsPaid /\ NothingInvented /\ LostOnlyByRace
      /\ PayerKnows /\ AmountsKnown

\* While no two requests are about one account, nothing is lost at all: every
\* account shows what was paid into it, whatever edits, removals and reversals
\* come in between.
OnePerAccount ==
    \A c, d \in Call : c # d /\ acc[c] # NoAcc => acc[c] # acc[d]

NothingLost == \A a \in Acc : paid[a] = received[a]
=============================================================================
