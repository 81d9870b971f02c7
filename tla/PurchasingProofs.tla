-------------------------- MODULE PurchasingProofs --------------------------
(***************************************************************************)
(* Theorems about Account and Purchasing, for any number of accounts,      *)
(* quotations, orders and requests and any amounts.                        *)
(*                                                                         *)
(* Account's inductive invariant says what a request has read: amounts the *)
(* account has had, and its current paid amount as long as no other        *)
(* request has written it since, which is what the history raced records.  *)
(*                                                                         *)
(* The accounts payable of Purchasing are Account's, so its lemmas carry   *)
(* over; Purchasing's inductive invariant adds what a request in flight    *)
(* still knows when it writes: its quotation or order has had a status     *)
(* from which the new one is allowed, even if another request has written  *)
(* since.                                                                  *)
(***************************************************************************)
EXTENDS Purchasing, FiniteSetTheorems, TLAPS

-----------------------------------------------------------------------------
(* Account.                                                                *)

USE DEF table, payers

\* The initial state satisfies the inductive invariant.
LEMMA AccInitIInv == AccInit => AccIInv
  BY DEF AccInit, AccIInv, AccTypeOK, StatusTellsPaid, NothingInvented,
         LostOnlyByRace, PayerKnows, AmountsKnown, AStatus

\* A request that ends leaves the accounts alone.
LEMMA FinishPreserves ==
  ASSUME AccIInv, NEW c \in Call, Finish(c), UNCHANGED table
  PROVE  AccIInv'
<1>1. AccTypeOK'
  BY DEF AccIInv, AccTypeOK, Finish
<1>2. StatusTellsPaid' /\ NothingInvented' /\ LostOnlyByRace' /\ AmountsKnown'
  BY DEF AccIInv, StatusTellsPaid, NothingInvented, LostOnlyByRace, AmountsKnown
<1>3. PayerKnows'
  BY DEF AccIInv, AccTypeOK, PayerKnows, Finish
<1>. QED  BY <1>1, <1>2, <1>3 DEF AccIInv

\* A new account shows what was paid with it.
LEMMA OpenAccountPreserves ==
  ASSUME AccIInv, NEW a \in Acc, NEW n \in Nat, NEW s \in {"PENDING", "PAID"},
         OpenAccount(a, n, s)
  PROVE  AccIInv'
<1>. USE DEF OpenAccount
<1>1. AccTypeOK'
  BY DEF AccIInv, AccTypeOK, AStatus
<1>2. NothingInvented' /\ LostOnlyByRace' /\ AmountsKnown'
  BY DEF AccIInv, AccTypeOK, NothingInvented, LostOnlyByRace, AmountsKnown
<1>3. StatusTellsPaid'
  <2>. SUFFICES ASSUME NEW b \in Acc, row'[b] # "absent"
       PROVE  /\ status'[b] = "PENDING" => paid'[b] = 0
              /\ status'[b] = "PARTIAL" =>
                     paid'[b] > 0 /\ \E m \in asked'[b] : paid'[b] < m
              /\ status'[b] = "PAID" => \E m \in asked'[b] : paid'[b] >= m
    BY DEF StatusTellsPaid
  <2>1. CASE b = a
    BY <2>1 DEF AccIInv, AccTypeOK
  <2>2. CASE b # a
    BY <2>2 DEF AccIInv, AccTypeOK, StatusTellsPaid
  <2>. QED  BY <2>1, <2>2
<1>4. PayerKnows'
  <2>. SUFFICES ASSUME NEW c \in Call, pc[c] # "idle"
       PROVE  acc[c] # a
    BY DEF AccIInv, AccTypeOK, PayerKnows
  <2>. QED  BY DEF AccIInv, PayerKnows
<1>. QED  BY <1>1, <1>2, <1>3, <1>4 DEF AccIInv

\* create, and the parcels of an order.
LEMMA CreateAccountPreserves ==
  ASSUME AccIInv, CreateAccount
  PROVE  AccIInv'
  BY AccountAssumption, OpenAccountPreserves DEF CreateAccount

\* A new amount is one more that the account has had.
LEMMA EditAmountPreserves ==
  ASSUME AccIInv, EditAmount
  PROVE  AccIInv'
<1>1. PICK a \in Acc, n \in Amount \ {0} :
        /\ row[a] = "live"
        /\ amount' = [amount EXCEPT ![a] = n]
        /\ asked' = [asked EXCEPT ![a] = @ \cup {n}]
        /\ UNCHANGED <<row, status, paid, received, raced, payers>>
  BY DEF EditAmount
<1>2. n \in Nat
  BY <1>1, AccountAssumption
<1>3. \A b \in Acc : asked[b] \subseteq asked'[b]
  BY <1>1 DEF AccIInv, AccTypeOK
<1>4. AccTypeOK'
  BY <1>1, <1>2 DEF AccIInv, AccTypeOK
<1>5. StatusTellsPaid' /\ NothingInvented' /\ LostOnlyByRace'
  BY <1>1, <1>3 DEF AccIInv, StatusTellsPaid, NothingInvented, LostOnlyByRace
<1>6. PayerKnows'
  BY <1>1, <1>3 DEF AccIInv, PayerKnows
<1>7. AmountsKnown'
  BY <1>1 DEF AccIInv, AccTypeOK, AmountsKnown
<1>. QED  BY <1>4, <1>5, <1>6, <1>7 DEF AccIInv

\* A removal, or the reversal of an order's receivables.
LEMMA ClosePreserves ==
  ASSUME AccIInv, NEW a \in Acc, row[a] = "live",
         row' = [row EXCEPT ![a] = "deleted"],
         \/ UNCHANGED status
         \/ status' = [status EXCEPT ![a] = "CANCELLED"],
         UNCHANGED <<amount, paid, asked, received, raced, payers>>
  PROVE  AccIInv'
<1>1. AccTypeOK'
  BY DEF AccIInv, AccTypeOK, AStatus
<1>2. \A b \in Acc : row'[b] = "absent" <=> row[b] = "absent"
  BY DEF AccIInv, AccTypeOK
<1>3. \A b \in Acc : status'[b] = status[b] \/ status'[b] = "CANCELLED"
  BY DEF AccIInv, AccTypeOK
<1>4. StatusTellsPaid'
  BY <1>2, <1>3 DEF AccIInv, StatusTellsPaid
<1>5. NothingInvented' /\ LostOnlyByRace' /\ AmountsKnown'
  BY <1>2 DEF AccIInv, NothingInvented, LostOnlyByRace, AmountsKnown
<1>6. PayerKnows'
  BY <1>2 DEF AccIInv, PayerKnows
<1>. QED  BY <1>1, <1>4, <1>5, <1>6 DEF AccIInv

\* The payment's status check.
LEMMA RegisterPaymentPreserves ==
  ASSUME AccIInv, NEW c \in Call, RegisterPayment(c)
  PROVE  AccIInv'
<1>1. PICK a \in Acc, n \in Payment :
        /\ MayPay(a)
        /\ pc' = [pc EXCEPT ![c] = "read"]
        /\ acc' = [acc EXCEPT ![c] = a]
        /\ sum' = [sum EXCEPT ![c] = n]
        /\ UNCHANGED <<table, seen>>
  BY DEF RegisterPayment
<1>2. n \in Nat /\ n > 0 /\ row[a] # "absent"
  BY <1>1, AccountAssumption DEF MayPay
<1>3. AccTypeOK'
  BY <1>1, <1>2 DEF AccIInv, AccTypeOK
<1>4. StatusTellsPaid' /\ NothingInvented' /\ LostOnlyByRace' /\ AmountsKnown'
  BY <1>1 DEF AccIInv, StatusTellsPaid, NothingInvented, LostOnlyByRace, AmountsKnown
<1>5. PayerKnows'
  BY <1>1, <1>2 DEF AccIInv, AccTypeOK, PayerKnows
<1>. QED  BY <1>3, <1>4, <1>5 DEF AccIInv

\* A read of the current amounts, by a payment or by the listener.
LEMMA ReadPreserves ==
  ASSUME AccIInv, NEW c \in Call, NEW a \in Acc, row[a] = "live",
         NEW p \in {"pay", "settle"},
         p = "pay" => sum[c] > 0,
         p = "settle" => paid[a] = 0,
         pc' = [pc EXCEPT ![c] = p],
         acc' = [acc EXCEPT ![c] = a],
         seen' = [seen EXCEPT ![c] = [paid |-> paid[a], amount |-> amount[a]]],
         UNCHANGED <<table, sum>>
  PROVE  AccIInv'
<1>1. AccTypeOK'
  BY DEF AccIInv, AccTypeOK
<1>2. StatusTellsPaid' /\ NothingInvented' /\ LostOnlyByRace' /\ AmountsKnown'
  BY DEF AccIInv, StatusTellsPaid, NothingInvented, LostOnlyByRace, AmountsKnown
<1>3. PayerKnows'
  <2>1. amount[a] \in asked[a] /\ paid[a] <= received[a]
    BY DEF AccIInv, AmountsKnown, NothingInvented
  <2>2. /\ pc'[c] = p /\ acc'[c] = a /\ sum'[c] = sum[c]
        /\ seen'[c].paid = paid[a] /\ seen'[c].amount = amount[a]
    BY DEF AccIInv, AccTypeOK
  <2>3. \A d \in Call : d # c => /\ pc'[d] = pc[d] /\ acc'[d] = acc[d]
                                /\ seen'[d] = seen[d] /\ sum'[d] = sum[d]
    BY DEF AccIInv, AccTypeOK
  <2>. QED  BY <2>1, <2>2, <2>3 DEF AccIInv, PayerKnows
<1>. QED  BY <1>1, <1>2, <1>3 DEF AccIInv

\* The write of what was read: unless another request is between its read
\* and its write, everybody else still knows the paid amount.
LEMMA WritePaidPreserves ==
  ASSUME AccIInv, NEW c \in Call, pc[c] \in {"pay", "settle"},
         NEW s \in {"PARTIAL", "PAID"}, NEW p \in Nat, NEW n \in Nat,
         p <= seen[c].paid + n,
         acc[c] \notin raced => p = seen[c].paid + n,
         s = "PARTIAL" => p > 0 /\ p < seen[c].amount,
         s = "PAID" => p >= seen[c].amount,
         WritePaid(c, s, p, n)
  PROVE  AccIInv'
<1>. DEFINE a == acc[c]
<1>1. /\ a \in Acc /\ row[a] # "absent"
      /\ seen[c].amount \in asked[a] /\ seen[c].paid <= received[a]
      /\ a \notin raced => seen[c].paid = paid[a] /\ paid[a] = received[a]
      /\ seen[c].paid \in Nat /\ received[a] \in Nat
  BY DEF AccIInv, AccTypeOK, PayerKnows, LostOnlyByRace
<1>2. /\ status' = [status EXCEPT ![a] = s]
      /\ paid' = [paid EXCEPT ![a] = p]
      /\ received' = [received EXCEPT ![a] = @ + n]
      /\ raced' = IF Overtaken(c) THEN raced \cup {a} ELSE raced
      /\ Finish(c)
      /\ UNCHANGED <<row, amount, asked>>
  BY DEF WritePaid
<1>3. AccTypeOK'
  BY <1>1, <1>2 DEF AccIInv, AccTypeOK, AStatus, Finish
<1>4. paid'[a] = p /\ received'[a] = received[a] + n /\ status'[a] = s
  BY <1>1, <1>2 DEF AccIInv, AccTypeOK
<1>4a. ASSUME NEW b \in Acc, b # a
       PROVE  /\ paid'[b] = paid[b] /\ received'[b] = received[b]
              /\ status'[b] = status[b]
              /\ b \in raced' <=> b \in raced
  BY <1>1, <1>2, <1>4a DEF AccIInv, AccTypeOK
<1>4b. raced \subseteq raced'
  BY <1>2
<1>5. StatusTellsPaid'
  <2>. SUFFICES ASSUME NEW b \in Acc, row[b] # "absent"
       PROVE  /\ status'[b] = "PENDING" => paid'[b] = 0
              /\ status'[b] = "PARTIAL" =>
                     paid'[b] > 0 /\ \E m \in asked[b] : paid'[b] < m
              /\ status'[b] = "PAID" => \E m \in asked[b] : paid'[b] >= m
    BY <1>2 DEF StatusTellsPaid
  <2>1. CASE b = a
    BY <1>1, <1>4, <2>1
  <2>2. CASE b # a
    BY <1>4a, <2>2 DEF AccIInv, StatusTellsPaid
  <2>. QED  BY <2>1, <2>2
<1>6. NothingInvented'
  BY <1>1, <1>4, <1>4a DEF AccIInv, NothingInvented
<1>7. LostOnlyByRace'
  BY <1>1, <1>4, <1>4a, <1>4b DEF AccIInv, LostOnlyByRace
<1>8. PayerKnows'
  <2>. SUFFICES ASSUME NEW d \in Call
       PROVE  /\ pc'[d] # "idle" => acc'[d] \in Acc /\ row[acc'[d]] # "absent"
              /\ pc'[d] \in {"read", "pay"} => sum'[d] > 0
              /\ pc'[d] \in {"pay", "settle"} =>
                     /\ seen'[d].amount \in asked[acc'[d]]
                     /\ seen'[d].paid <= received'[acc'[d]]
                     /\ acc'[d] \notin raced' => seen'[d].paid = paid'[acc'[d]]
              /\ pc'[d] = "settle" => seen'[d].paid = 0
    BY <1>2 DEF PayerKnows
  <2>1. CASE d = c
    BY <1>2, <2>1 DEF Finish, AccIInv, AccTypeOK
  <2>2. CASE d # c
    <3>1. /\ pc'[d] = pc[d] /\ acc'[d] = acc[d]
          /\ sum'[d] = sum[d] /\ seen'[d] = seen[d]
      BY <1>2, <2>2 DEF Finish, AccIInv, AccTypeOK
    <3>2. /\ pc[d] # "idle" => acc[d] \in Acc /\ row[acc[d]] # "absent"
          /\ pc[d] \in {"read", "pay"} => sum[d] > 0
          /\ pc[d] = "settle" => seen[d].paid = 0
      BY DEF AccIInv, PayerKnows
    <3>3. ASSUME pc[d] \in {"pay", "settle"}
          PROVE  /\ seen[d].amount \in asked[acc[d]]
                 /\ seen[d].paid <= received'[acc[d]]
                 /\ acc[d] \notin raced' => seen[d].paid = paid'[acc[d]]
      <4>1. /\ acc[d] \in Acc /\ seen[d].amount \in asked[acc[d]]
            /\ seen[d].paid <= received[acc[d]]
            /\ acc[d] \notin raced => seen[d].paid = paid[acc[d]]
            /\ seen[d].paid \in Nat
        BY <3>3 DEF AccIInv, AccTypeOK, PayerKnows
      <4>2. acc[d] = a => a \in raced'
        BY <1>2, <2>2, <3>3 DEF Overtaken
      <4>3. seen[d].paid <= received'[acc[d]]
        BY <1>1, <1>4, <1>4a, <4>1
      <4>. QED  BY <1>4a, <1>4b, <4>1, <4>2, <4>3
    <3>. QED  BY <3>1, <3>2, <3>3
  <2>. QED  BY <2>1, <2>2
<1>9. AmountsKnown'
  BY <1>1, <1>2, <1>4 DEF AccIInv, AmountsKnown
<1>. QED  BY <1>3, <1>5, <1>6, <1>7, <1>8, <1>9 DEF AccIInv

\* The late write of a payment.
LEMMA PayPreserves ==
  ASSUME AccIInv, NEW c \in Call, Pay(c)
  PROVE  AccIInv'
<1>. DEFINE p == seen[c].paid + sum[c]
            s == PaidStatus(p, seen[c].amount)
<1>1. /\ pc[c] = "pay" /\ sum[c] \in Nat /\ sum[c] > 0
      /\ seen[c].paid \in Nat /\ seen[c].amount \in Nat
  BY DEF Pay, AccIInv, AccTypeOK, PayerKnows
<1>2. /\ s \in {"PARTIAL", "PAID"} /\ p \in Nat /\ p > 0
      /\ s = "PARTIAL" => p < seen[c].amount
      /\ s = "PAID" => p >= seen[c].amount
  BY <1>1 DEF PaidStatus
<1>3. WritePaid(c, s, p, sum[c])
  BY DEF Pay
<1>. HIDE DEF p, s
<1>4. p = seen[c].paid + sum[c]
  BY DEF p
<1>. QED  BY <1>1, <1>2, <1>3, <1>4, WritePaidPreserves

\* The late write of the settlement.
LEMMA SettlePreserves ==
  ASSUME AccIInv, NEW c \in Call, Settle(c)
  PROVE  AccIInv'
<1>. DEFINE n == seen[c].amount
<1>1. /\ pc[c] = "settle" /\ n \in Nat /\ seen[c].paid = 0
      /\ WritePaid(c, "PAID", n, n)
  BY DEF Settle, AccIInv, AccTypeOK, PayerKnows
<1>2. n >= seen[c].amount
  BY <1>1
<1>. HIDE DEF n
<1>. QED  BY <1>1, <1>2, WritePaidPreserves

\* Every step of the accounts preserves the invariant.
LEMMA AccNextIInv ==
  ASSUME AccIInv, AccNext
  PROVE  AccIInv'
<1>1. CASE CreateAccount
  BY <1>1, CreateAccountPreserves
<1>2. CASE EditAmount
  BY <1>2, EditAmountPreserves
<1>3. CASE RemoveAccount
  BY <1>3, ClosePreserves DEF RemoveAccount
<1>4. CASE Reverse
  BY <1>4, ClosePreserves, AccountAssumption DEF Reverse
<1>5. ASSUME NEW c \in Call, AccCall(c) PROVE AccIInv'
  <2>1. CASE RegisterPayment(c)
    BY <2>1, RegisterPaymentPreserves
  <2>2. CASE ReadAccount(c)
    <3>1. pc[c] = "read" /\ acc[c] \in Acc /\ sum[c] > 0
      BY <2>2 DEF ReadAccount, AccIInv, PayerKnows
    <3>2. CASE row[acc[c]] = "live"
      <4>1. acc' = [acc EXCEPT ![c] = acc[c]] /\ UNCHANGED <<table, sum>>
        BY <2>2, <3>2 DEF ReadAccount, AccIInv, AccTypeOK
      <4>. QED  BY <2>2, <3>1, <3>2, <4>1, ReadPreserves DEF ReadAccount
    <3>3. CASE row[acc[c]] # "live"
      BY <2>2, <3>3, FinishPreserves DEF ReadAccount
    <3>. QED  BY <3>2, <3>3
  <2>3. CASE Pay(c)
    BY <2>3, PayPreserves
  <2>4. CASE FindPending(c)
    <3>1. PICK a \in Acc :
            /\ row[a] = "live" /\ status[a] = "PENDING"
            /\ pc' = [pc EXCEPT ![c] = "settle"]
            /\ acc' = [acc EXCEPT ![c] = a]
            /\ seen' = [seen EXCEPT ![c] = [paid |-> paid[a], amount |-> amount[a]]]
            /\ UNCHANGED <<table, sum>>
      BY <2>4, AccountAssumption DEF FindPending
    <3>2. paid[a] = 0
      BY <3>1 DEF AccIInv, StatusTellsPaid
    <3>. QED  BY <3>1, <3>2, ReadPreserves
  <2>5. CASE Settle(c)
    BY <2>5, SettlePreserves
  <2>. QED  BY <1>5, <2>1, <2>2, <2>3, <2>4, <2>5 DEF AccCall
<1>. QED  BY <1>1, <1>2, <1>3, <1>4, <1>5 DEF AccNext

\* A step that leaves the accounts alone.
LEMMA AccUnchanged ==
  ASSUME AccIInv, UNCHANGED accVars
  PROVE  AccIInv'
  BY DEF accVars, AccIInv, AccTypeOK, StatusTellsPaid, NothingInvented,
         LostOnlyByRace, PayerKnows, AmountsKnown

\* An account that was opened stays so, and keeps the amounts it has had.
LEMMA AccHistory ==
  ASSUME AccIInv, AccNext, NEW a \in Acc, row[a] # "absent"
  PROVE  row'[a] # "absent" /\ asked[a] \subseteq asked'[a]
<1>. USE DEF AccIInv, AccTypeOK
<1>1. CASE CreateAccount
  BY <1>1 DEF CreateAccount, OpenAccount
<1>2. CASE EditAmount
  BY <1>2 DEF EditAmount
<1>3. CASE RemoveAccount \/ Reverse
  BY <1>3 DEF RemoveAccount, Reverse
<1>4. ASSUME NEW c \in Call, AccCall(c)
      PROVE  UNCHANGED <<row, asked>>
  BY <1>4 DEF AccCall, RegisterPayment, ReadAccount, Pay, FindPending, Settle, WritePaid
<1>. QED  BY <1>1, <1>2, <1>3, <1>4 DEF AccNext

-----------------------------------------------------------------------------
\* The inductive invariant of the accounts.
THEOREM AccountInvariant == AccSpec => []AccIInv
<1>1. AccIInv /\ [AccNext]_accVars => AccIInv'
  BY AccNextIInv, AccUnchanged
<1>. QED  BY AccInitIInv, <1>1, PTL DEF AccSpec

\* The status of an account agrees with what is paid, for any overlap of
\* payments, settlements, edits, removals and reversals.
THEOREM AccountStatusTellsPaid == AccSpec => []StatusTellsPaid
<1>1. AccIInv => StatusTellsPaid
  BY DEF AccIInv
<1>. QED  BY <1>1, AccountInvariant, PTL

\* No payment is counted twice.
THEOREM AccountNothingInvented == AccSpec => []NothingInvented
<1>1. AccIInv => NothingInvented
  BY DEF AccIInv
<1>. QED  BY <1>1, AccountInvariant, PTL

\* Without an overlapping write no payment is lost.
THEOREM AccountLostOnlyByRace == AccSpec => []LostOnlyByRace
<1>1. AccIInv => LostOnlyByRace
  BY DEF AccIInv
<1>. QED  BY <1>1, AccountInvariant, PTL

\* While no two requests are about one account every payment is kept: the
\* transaction that registers it needs no lock then.
THEOREM AccountNothingLost == AccSpec /\ []OnePerAccount => []NothingLost
<1>. DEFINE NoRace == raced = {}
<1>1. AccInit => NoRace
  BY DEF AccInit
<1>2. AccIInv /\ OnePerAccount /\ NoRace /\ [AccNext]_accVars => NoRace'
  <2>. SUFFICES ASSUME AccIInv, OnePerAccount, NoRace, [AccNext]_accVars
       PROVE  NoRace'
    OBVIOUS
  <2>1. ASSUME NEW c \in Call, pc[c] \in {"pay", "settle"} PROVE ~Overtaken(c)
    <3>1. acc[c] # NoAcc
      BY <2>1, AccountAssumption DEF AccIInv, PayerKnows
    <3>. QED  BY <3>1 DEF OnePerAccount, Overtaken
  <2>2. ASSUME NEW c \in Call, AccCall(c) PROVE NoRace'
    BY <2>1, <2>2 DEF AccCall, RegisterPayment, ReadAccount, Pay, FindPending, Settle,
                      WritePaid
  <2>3. CASE CreateAccount \/ EditAmount \/ RemoveAccount \/ Reverse
    BY <2>3 DEF CreateAccount, OpenAccount, EditAmount, RemoveAccount, Reverse
  <2>. QED  BY <2>2, <2>3 DEF AccNext, accVars
<1>3. AccIInv /\ NoRace => NothingLost
  BY DEF AccIInv, LostOnlyByRace, NothingLost
<1>. HIDE DEF NoRace
<1>. QED  BY <1>1, <1>2, <1>3, AccountInvariant, PTL DEF AccSpec

-----------------------------------------------------------------------------
(* Purchasing.                                                             *)

HIDE DEF table, payers
USE DEF desk, clerks

\* What a status allows next.
LEMMA QNextFacts ==
  ASSUME NEW s, NEW t \in QNext(s)
  PROVE  /\ t \in {"SENT", "RECEIVED", "SELECTED", "REJECTED"}
         /\ t = "RECEIVED" => s = "SENT"
         /\ t \in {"SELECTED", "REJECTED"} => s = "RECEIVED"
<1>1. CASE s = "DRAFT"
  BY <1>1 DEF QNext
<1>2. CASE s = "SENT"
  BY <1>2 DEF QNext
<1>3. CASE s = "RECEIVED"
  BY <1>3 DEF QNext
<1>4. CASE s \notin {"DRAFT", "SENT", "RECEIVED"}
  BY <1>4 DEF QNext
<1>. QED  BY <1>1, <1>2, <1>3, <1>4

LEMMA ONextFacts ==
  ASSUME NEW s, NEW t \in ONext(s)
  PROVE  t \in OStatus /\ (t = "RECEIVED" => s = "CONFIRMED")
<1>1. CASE s = "PENDING"
  BY <1>1 DEF ONext, OStatus
<1>2. CASE s = "CONFIRMED"
  BY <1>2 DEF ONext, OStatus
<1>3. CASE s \notin {"PENDING", "CONFIRMED"}
  BY <1>3 DEF ONext
<1>. QED  BY <1>1, <1>2, <1>3

\* The number of orders of a quotation is a natural number, and one more once
\* an order that had no quotation takes it.
LEMMA OrdersCounted ==
  ASSUME NEW q \in Quotation
  PROVE  IsFiniteSet(OrdersOf(q)) /\ Cardinality(OrdersOf(q)) \in Nat
<1>1. IsFiniteSet(OrdersOf(q))
  BY PurchasingAssumption, FS_Subset DEF OrdersOf
<1>. QED  BY <1>1, FS_CardinalityType

LEMMA OneMoreOrder ==
  ASSUME NEW o \in Order, NEW q \in Quotation, of[o] = None,
         of \in [Order -> Quotation \cup {None}],
         of' = [of EXCEPT ![o] = q]
  PROVE  /\ Cardinality(OrdersOf(q)') = Cardinality(OrdersOf(q)) + 1
         /\ \A r \in Quotation : r # q => OrdersOf(r)' = OrdersOf(r)
<1>1. OrdersOf(q)' = OrdersOf(q) \cup {o}
  BY DEF OrdersOf
<1>2. o \notin OrdersOf(q)
  BY PurchasingAssumption DEF OrdersOf
<1>3. Cardinality(OrdersOf(q) \cup {o}) = Cardinality(OrdersOf(q)) + 1
  BY <1>2, OrdersCounted, FS_AddElement
<1>4. \A r \in Quotation : r # q => OrdersOf(r)' = OrdersOf(r)
  BY PurchasingAssumption DEF OrdersOf
<1>. QED  BY <1>1, <1>3, <1>4

\* The initial state satisfies the inductive invariant.
LEMMA InitIInv == Init => IInv
<1>. SUFFICES ASSUME Init PROVE IInv
  OBVIOUS
<1>. USE DEF Init
<1>1. AccIInv
  BY AccInitIInv
<1>2. TypeOK
  BY <1>1 DEF AccIInv, TypeOK, QStatus, OStatus
<1>3. OneOrderPerSelection
  <2>1. \A q \in Quotation : OrdersOf(q) = {}
    BY PurchasingAssumption DEF OrdersOf
  <2>2. \A q \in Quotation : Cardinality(OrdersOf(q)) = 0
    BY <2>1, FS_EmptySet
  <2>3. \A q \in Quotation : qstatus[q] = "DRAFT" /\ selections[q] = 0
    OBVIOUS
  <2>. QED  BY <2>2, <2>3 DEF OneOrderPerSelection
<1>4. HandoffWhole /\ NoStepSkipped
  BY DEF HandoffWhole, NoStepSkipped
<1>5. DeskKnows
  <2>1. \A o \in Order : row[o] = "absent"
    BY PurchasingAssumption, AccountAssumption DEF AccInit
  <2>. QED  BY <2>1 DEF DeskKnows
<1>. QED  BY <1>1, <1>2, <1>3, <1>4, <1>5 DEF IInv

\* While rows and accounts stand still, what is said of them still holds.
LEMMA DeskStands ==
  ASSUME IInv, UNCHANGED <<accVars, desk>>
  PROVE  AccIInv' /\ OneOrderPerSelection' /\ HandoffWhole' /\ NoStepSkipped'
<1>1. AccIInv'
  BY AccUnchanged DEF IInv
<1>2. \A q \in Quotation : OrdersOf(q)' = OrdersOf(q)
  BY DEF OrdersOf
<1>3. OneOrderPerSelection'
  BY <1>2 DEF IInv, OneOrderPerSelection
<1>4. HandoffWhole' /\ NoStepSkipped'
  BY DEF IInv, HandoffWhole, NoStepSkipped, accVars, table
<1>. QED  BY <1>1, <1>3, <1>4

\* A request reads a row and goes on.
LEMMA TakePreserves ==
  ASSUME IInv, NEW k \in Clerk,
         NEW p \in {"quotation", "remove", "order", "status"},
         NEW s \in QStatus \cup OStatus \cup {"none"},
         NEW x \in Quotation \cup Order, NEW n \in Nat,
         p # "status" => x \in Quotation /\ qrow[x] # "absent",
         p = "quotation" => s \in QNext(qstatus[x]),
         p = "order" => qstatus[x] = "SELECTED" /\ n = quoted[x],
         p = "status" => x \in Order /\ of[x] # None /\ s \in ONext(ostatus[x]),
         Take(k, p, s, x, n), UNCHANGED <<accVars, desk>>
  PROVE  IInv'
<1>1. TypeOK'
  <2>1. AccTypeOK'
    BY AccUnchanged DEF IInv, AccIInv
  <2>. QED  BY <2>1 DEF IInv, TypeOK, Take
<1>2. DeskKnows'
  <2>1. /\ kpc'[k] = p /\ to'[k] = s /\ about'[k] = x /\ price'[k] = n
        /\ \A l \in Clerk : l # k => /\ kpc'[l] = kpc[l] /\ to'[l] = to[l]
                                     /\ about'[l] = about[l] /\ price'[l] = price[l]
    BY DEF IInv, TypeOK, Take
  <2>2. /\ p # "status" => qstatus[x] \in qbeen[x] /\ quoted[x] \in quotes[x]
        /\ p = "status" => ostatus[x] \in obeen[x]
    BY DEF IInv, DeskKnows
  <2>. QED  BY <2>1, <2>2 DEF IInv, DeskKnows, accVars, table
<1>. QED  BY <1>1, <1>2, DeskStands DEF IInv

\* A request that fails leaves the rows alone.
LEMMA ClerkFailsPreserves ==
  ASSUME IInv, NEW k \in Clerk, ClerkFails(k)
  PROVE  IInv'
<1>. USE DEF ClerkFails, Dismiss
<1>1. TypeOK'
  <2>1. AccTypeOK'
    BY AccUnchanged DEF IInv, AccIInv
  <2>. QED  BY <2>1 DEF IInv, TypeOK
<1>2. DeskKnows'
  BY DEF IInv, TypeOK, DeskKnows, accVars, table
<1>. QED  BY <1>1, <1>2, DeskStands DEF IInv

\* A quotation is created, or gets a new total.
LEMMA QuotePreserves ==
  ASSUME IInv, CreateQuotation \/ Requote
  PROVE  IInv'
<1>1. AccIInv' /\ UNCHANGED <<accVars, row, asked>>
  BY AccUnchanged DEF IInv, CreateQuotation, Requote, accVars, table
<1>2. PICK q \in Quotation, n \in Amount :
        /\ quoted' = [quoted EXCEPT ![q] = n]
        /\ UNCHANGED <<qstatus, of, ostatus, total, obeen, selections, clerks>>
        /\ \/ /\ qrow[q] = "absent"
              /\ qrow' = [qrow EXCEPT ![q] = "live"]
              /\ qbeen' = [qbeen EXCEPT ![q] = {"DRAFT"}]
              /\ quotes' = [quotes EXCEPT ![q] = {n}]
           \/ /\ qrow[q] = "live"
              /\ quotes' = [quotes EXCEPT ![q] = @ \cup {n}]
              /\ UNCHANGED <<qrow, qbeen>>
  BY DEF CreateQuotation, Requote
<1>3. n \in Nat
  BY AccountAssumption
<1>4. TypeOK'
  BY <1>1, <1>2, <1>3 DEF IInv, AccIInv, TypeOK, QStatus
<1>5. \A r \in Quotation : qrow[r] # "absent" =>
        qrow'[r] # "absent" /\ qbeen'[r] = qbeen[r] /\ quotes[r] \subseteq quotes'[r]
  BY <1>2 DEF IInv, TypeOK
<1>6. OneOrderPerSelection'
  <2>1. \A r \in Quotation : OrdersOf(r)' = OrdersOf(r)
    BY <1>2 DEF OrdersOf
  <2>. QED  BY <1>2, <2>1 DEF IInv, OneOrderPerSelection
<1>7. HandoffWhole'
  BY <1>1, <1>2, <1>5 DEF IInv, TypeOK, HandoffWhole, DeskKnows
<1>8. NoStepSkipped'
  BY <1>2 DEF IInv, TypeOK, NoStepSkipped
<1>9. DeskKnows'
  <2>1. \A r \in Quotation :
          /\ qrow'[r] = "absent" =>
                 qstatus[r] = "DRAFT" /\ qbeen'[r] = {} /\ selections[r] = 0
          /\ qrow'[r] # "absent" => qstatus[r] \in qbeen'[r] /\ quoted'[r] \in quotes'[r]
    BY <1>2 DEF IInv, TypeOK, DeskKnows
  <2>2. \A o \in Order :
          /\ of[o] = None => row'[o] = "absent" /\ ostatus[o] = "PENDING" /\ obeen[o] = {}
          /\ of[o] # None => qrow'[of[o]] # "absent" /\ ostatus[o] \in obeen[o]
    BY <1>1, <1>5 DEF IInv, TypeOK, DeskKnows
  <2>. QED  BY <1>2, <1>5, <2>1, <2>2 DEF IInv, DeskKnows
<1>. QED  BY <1>1, <1>4, <1>6, <1>7, <1>8, <1>9 DEF IInv

\* A quotation's status lands late, over whatever it has become.
LEMMA WriteQuotationPreserves ==
  ASSUME IInv, NEW k \in Clerk, WriteQuotation(k)
  PROVE  IInv'
<1>. DEFINE q == about[k]
            t == to[k]
<1>1. /\ q \in Quotation /\ qrow[q] # "absent"
      /\ AccIInv' /\ UNCHANGED <<accVars, row, asked>>
  BY AccUnchanged DEF IInv, DeskKnows, WriteQuotation, accVars, table
<1>2. PICK s \in qbeen[q] : t \in QNext(s)
  BY DEF IInv, DeskKnows, WriteQuotation
<1>3. /\ t \in {"SENT", "RECEIVED", "SELECTED", "REJECTED"}
      /\ t = "RECEIVED" => "SENT" \in qbeen[q]
      /\ t \in {"SELECTED", "REJECTED"} => "RECEIVED" \in qbeen[q]
  BY <1>2, QNextFacts
<1>4. PICK n \in Amount \cup {quoted[q]} :
        /\ qstatus' = [qstatus EXCEPT ![q] = t]
        /\ quoted' = [quoted EXCEPT ![q] = n]
        /\ quotes' = [quotes EXCEPT ![q] = @ \cup {n}]
        /\ qbeen' = [qbeen EXCEPT ![q] = @ \cup {t}]
        /\ selections' = IF t = "SELECTED" THEN [selections EXCEPT ![q] = @ + 1]
                                           ELSE selections
        /\ Dismiss(k)
        /\ UNCHANGED <<qrow, of, ostatus, total, obeen>>
  BY DEF WriteQuotation
<1>5. n \in Nat
  BY <1>1, AccountAssumption DEF IInv, TypeOK
<1>6. TypeOK'
  BY <1>1, <1>3, <1>4, <1>5 DEF IInv, AccIInv, TypeOK, QStatus, Dismiss
<1>7. \A r \in Quotation : qbeen[r] \subseteq qbeen'[r] /\ quotes[r] \subseteq quotes'[r]
  BY <1>4 DEF IInv, TypeOK
<1>8. OneOrderPerSelection'
  <2>1. ASSUME NEW r \in Quotation
        PROVE  Cardinality(OrdersOf(r)') + (IF qstatus'[r] = "SELECTED" THEN 1 ELSE 0)
                   <= selections'[r]
    <3>1. OrdersOf(r)' = OrdersOf(r)
      BY <1>4 DEF OrdersOf
    <3>2. /\ Cardinality(OrdersOf(r)) \in Nat /\ selections[r] \in Nat
          /\ Cardinality(OrdersOf(r)) + (IF qstatus[r] = "SELECTED" THEN 1 ELSE 0)
                 <= selections[r]
      BY OrdersCounted DEF IInv, TypeOK, OneOrderPerSelection
    <3>3. CASE r = q
      <4>1. qstatus'[r] = t /\ selections'[r] = IF t = "SELECTED" THEN selections[r] + 1
                                                 ELSE selections[r]
        BY <1>4, <3>3 DEF IInv, TypeOK
      <4>. QED  BY <3>1, <3>2, <4>1
    <3>4. CASE r # q
      BY <1>4, <3>1, <3>2, <3>4 DEF IInv, TypeOK
    <3>. QED  BY <3>3, <3>4
  <2>. QED  BY <2>1 DEF OneOrderPerSelection
<1>9. HandoffWhole'
  BY <1>1, <1>4, <1>7 DEF IInv, TypeOK, HandoffWhole
<1>10. NoStepSkipped'
  BY <1>1, <1>3, <1>4 DEF IInv, TypeOK, NoStepSkipped
<1>11. DeskKnows'
  <2>1. \A r \in Quotation :
          /\ qrow[r] = "absent" =>
                 qstatus'[r] = "DRAFT" /\ qbeen'[r] = {} /\ selections'[r] = 0
          /\ qrow[r] # "absent" => qstatus'[r] \in qbeen'[r] /\ quoted'[r] \in quotes'[r]
    BY <1>1, <1>4 DEF IInv, TypeOK, DeskKnows
  <2>. QED  BY <1>1, <1>4, <1>7, <2>1 DEF IInv, TypeOK, DeskKnows, Dismiss
<1>. QED  BY <1>1, <1>6, <1>8, <1>9, <1>10, <1>11 DEF IInv

\* A removal, which may land after the quotation has been sent.
LEMMA RemoveQuotationPreserves ==
  ASSUME IInv, NEW k \in Clerk, RemoveQuotation(k)
  PROVE  IInv'
<1>. USE DEF RemoveQuotation, Dismiss
<1>1. AccIInv' /\ UNCHANGED <<accVars, row, asked>>
  BY AccUnchanged DEF IInv, accVars, table
<1>2. TypeOK'
  BY <1>1 DEF IInv, AccIInv, TypeOK
<1>3. about[k] \in Quotation /\ qrow[about[k]] # "absent"
  BY DEF IInv, DeskKnows
<1>4. \A r \in Quotation : qrow'[r] = "absent" <=> qrow[r] = "absent"
  BY <1>3 DEF IInv, TypeOK
<1>5. OneOrderPerSelection'
  <2>1. \A r \in Quotation : OrdersOf(r)' = OrdersOf(r)
    BY DEF OrdersOf
  <2>. QED  BY <2>1 DEF IInv, OneOrderPerSelection
<1>6. HandoffWhole' /\ NoStepSkipped'
  BY <1>1 DEF IInv, HandoffWhole, NoStepSkipped
<1>7. DeskKnows'
  BY <1>1, <1>4 DEF IInv, TypeOK, DeskKnows
<1>. QED  BY <1>1, <1>2, <1>5, <1>6, <1>7 DEF IInv

\* An order's status lands late, over whatever it has become.
LEMMA WriteOrderPreserves ==
  ASSUME IInv, NEW k \in Clerk, WriteOrder(k)
  PROVE  IInv'
<1>. DEFINE o == about[k]
            t == to[k]
<1>. USE DEF WriteOrder, Dismiss
<1>1. AccIInv' /\ UNCHANGED <<accVars, row, asked>>
  BY AccUnchanged DEF IInv, accVars, table
<1>2. o \in Order /\ of[o] # None
  BY DEF IInv, DeskKnows
<1>3. PICK s \in obeen[o] : t \in ONext(s)
  BY DEF IInv, DeskKnows
<1>4. t \in OStatus /\ (t = "RECEIVED" => "CONFIRMED" \in obeen[o])
  BY <1>3, ONextFacts
<1>5. TypeOK'
  BY <1>1, <1>4 DEF IInv, AccIInv, TypeOK
<1>6. \A r \in Order : obeen[r] \subseteq obeen'[r]
  BY DEF IInv, TypeOK
<1>7. OneOrderPerSelection'
  <2>1. \A r \in Quotation : OrdersOf(r)' = OrdersOf(r)
    BY DEF OrdersOf
  <2>. QED  BY <2>1 DEF IInv, OneOrderPerSelection
<1>8. HandoffWhole'
  BY <1>1 DEF IInv, HandoffWhole
<1>9. NoStepSkipped'
  BY <1>2, <1>4 DEF IInv, TypeOK, NoStepSkipped
<1>10. DeskKnows'
  <2>1. \A r \in Order :
          /\ of[r] = None => row[r] = "absent" /\ obeen'[r] = {}
          /\ of[r] # None => qrow[of[r]] # "absent" /\ ostatus'[r] \in obeen'[r]
    BY <1>2 DEF IInv, TypeOK, DeskKnows
  <2>. QED  BY <1>1, <1>6, <2>1 DEF IInv, TypeOK, DeskKnows
<1>. QED  BY <1>1, <1>5, <1>7, <1>8, <1>9, <1>10 DEF IInv

\* The creation of an order: the comparison in the write lets one request
\* through, whose order and account payable cost what it read.
LEMMA CreateOrderPreserves ==
  ASSUME IInv, NEW k \in Clerk, CreateOrder(k)
  PROVE  IInv'
<1>1. PICK q \in Quotation :
        /\ q = about[k] /\ qrow[q] # "absent" /\ "SELECTED" \in qbeen[q]
        /\ price[k] \in quotes[q] /\ price[k] \in Nat
  BY DEF IInv, TypeOK, DeskKnows, CreateOrder
<1>2. CASE ~Unconsumed(q)
  <2>1. Dismiss(k) /\ UNCHANGED <<accVars, desk>>
    BY <1>1, <1>2 DEF CreateOrder
  <2>2. ClerkFails(k)
    BY <2>1 DEF ClerkFails, CreateOrder
  <2>. QED  BY <2>2, ClerkFailsPreserves
<1>3. CASE Unconsumed(q)
  <2>1. PICK o \in Order : of[o] = None /\ PlaceOrder(k, o)
    BY <1>1, <1>3 DEF CreateOrder
  <2>2. /\ of' = [of EXCEPT ![o] = q]
        /\ total' = [total EXCEPT ![o] = price[k]]
        /\ obeen' = [obeen EXCEPT ![o] = {"PENDING"}]
        /\ qstatus' = [qstatus EXCEPT ![q] = "ORDERED"]
        /\ qbeen' = [qbeen EXCEPT ![q] = @ \cup {"ORDERED"}]
        /\ UNCHANGED <<qrow, quoted, ostatus, quotes, selections>>
        /\ Dismiss(k)
    BY <1>1, <1>3, <2>1 DEF CreateOrder, PlaceOrder
  <2>3. OpenAccount(o, price[k], "PENDING") /\ o \in Acc
    BY <2>1, PurchasingAssumption, AccountAssumption DEF PlaceOrder
  <2>4. AccIInv'
    BY <1>1, <2>3, OpenAccountPreserves DEF IInv
  <2>5. TypeOK'
    BY <1>1, <2>2, <2>4 DEF IInv, AccIInv, TypeOK, QStatus, OStatus, Dismiss
  <2>6. /\ row'[o] = "live" /\ asked'[o] = {price[k]}
        /\ \A a \in Acc : a # o => row'[a] = row[a] /\ asked'[a] = asked[a]
    BY <2>3 DEF IInv, AccIInv, AccTypeOK, OpenAccount
  <2>7. \A r \in Order : r \in Acc
    BY PurchasingAssumption, AccountAssumption
  <2>8. \A r \in Quotation : qbeen[r] \subseteq qbeen'[r]
    BY <2>2 DEF IInv, TypeOK
  <2>8a. \A r \in Order \ {o} : /\ of'[r] = of[r] /\ total'[r] = total[r]
                                /\ obeen'[r] = obeen[r]
    BY <2>2 DEF IInv, TypeOK
  <2>8b. /\ of'[o] = q /\ total'[o] = price[k] /\ obeen'[o] = {"PENDING"}
         /\ "ORDERED" \in qbeen'[q]
    BY <1>1, <2>2 DEF IInv, TypeOK
  <2>9. OneOrderPerSelection'
    <3>1. ASSUME NEW r \in Quotation
          PROVE  Cardinality(OrdersOf(r)') + (IF qstatus'[r] = "SELECTED" THEN 1 ELSE 0)
                     <= selections[r]
      <4>1. /\ Cardinality(OrdersOf(r)) \in Nat /\ selections[r] \in Nat
            /\ Cardinality(OrdersOf(r)) + (IF qstatus[r] = "SELECTED" THEN 1 ELSE 0)
                   <= selections[r]
        BY OrdersCounted DEF IInv, TypeOK, OneOrderPerSelection
      <4>2. /\ Cardinality(OrdersOf(q)') = Cardinality(OrdersOf(q)) + 1
            /\ r # q => OrdersOf(r)' = OrdersOf(r)
        BY <1>1, <2>1, <2>2, OneMoreOrder DEF IInv, TypeOK
      <4>3. CASE r = q
        <5>1. qstatus[q] = "SELECTED" /\ qstatus'[q] = "ORDERED"
          BY <1>1, <1>3, <2>2 DEF Unconsumed, IInv, TypeOK
        <5>. QED  BY <4>1, <4>2, <4>3, <5>1
      <4>4. CASE r # q
        <5>1. qstatus'[r] = qstatus[r]
          BY <2>2, <4>4 DEF IInv, TypeOK
        <5>. QED  BY <4>1, <4>2, <4>4, <5>1
      <4>. QED  BY <4>3, <4>4
    <3>. QED  BY <2>2, <3>1 DEF OneOrderPerSelection
  <2>10. HandoffWhole'
    <3>1. ASSUME NEW r \in Order, of'[r] # None
          PROVE  /\ row'[r] # "absent"
                 /\ total'[r] \in quotes[of'[r]] \cap asked'[r]
                 /\ {"SELECTED", "ORDERED"} \subseteq qbeen'[of'[r]]
      <4>1. CASE r = o
        <5>1. "SELECTED" \in qbeen'[q]
          BY <1>1, <2>8
        <5>2. row'[o] # "absent" /\ price[k] \in quotes[q] \cap asked'[o]
          BY <1>1, <2>6
        <5>. QED  BY <2>8b, <4>1, <5>1, <5>2
      <4>2. CASE r # o
        <5>1. of[r] # None /\ of[r] \in Quotation
          BY <2>8a, <3>1, <4>2 DEF IInv, TypeOK
        <5>. QED  BY <2>6, <2>7, <2>8, <2>8a, <4>2, <5>1 DEF IInv, HandoffWhole
      <4>. QED  BY <4>1, <4>2
    <3>. QED  BY <2>2, <3>1 DEF HandoffWhole
  <2>11. NoStepSkipped'
    BY <1>1, <2>2, <2>8a, <2>8b DEF IInv, TypeOK, NoStepSkipped
  <2>12. DeskKnows'
    <3>1. \A r \in Quotation :
            /\ qrow[r] = "absent" =>
                   qstatus'[r] = "DRAFT" /\ qbeen'[r] = {} /\ selections[r] = 0
            /\ qrow[r] # "absent" => qstatus'[r] \in qbeen'[r] /\ quoted[r] \in quotes[r]
      BY <1>1, <2>2 DEF IInv, TypeOK, DeskKnows
    <3>2. ASSUME NEW r \in Order
          PROVE  /\ of'[r] = None =>
                        row'[r] = "absent" /\ ostatus[r] = "PENDING" /\ obeen'[r] = {}
                 /\ of'[r] # None => qrow[of'[r]] # "absent" /\ ostatus[r] \in obeen'[r]
      <4>1. CASE r = o
        <5>1. ostatus[o] = "PENDING"
          BY <2>1 DEF IInv, DeskKnows
        <5>. QED  BY <1>1, <2>8b, <4>1, <5>1, PurchasingAssumption
      <4>2. CASE r # o
        BY <2>6, <2>7, <2>8a, <4>2 DEF IInv, DeskKnows
      <4>. QED  BY <4>1, <4>2
    <3>3. ASSUME NEW l \in Clerk, l # k
          PROVE  /\ kpc'[l] = kpc[l] /\ to'[l] = to[l]
                 /\ about'[l] = about[l] /\ price'[l] = price[l]
      BY <2>2, <3>3 DEF IInv, TypeOK, Dismiss
    <3>4. kpc'[k] = "idle"
      BY <2>2 DEF IInv, TypeOK, Dismiss
    <3>5. \A r \in Order : of[r] # None => of'[r] # None /\ obeen'[r] = obeen[r]
      BY <2>1, <2>8a
    <3>6. ASSUME NEW l \in Clerk, l # k
          PROVE  /\ kpc[l] \in {"quotation", "remove", "order"} =>
                        about[l] \in Quotation /\ qrow[about[l]] # "absent"
                 /\ kpc[l] = "quotation" => \E s \in qbeen'[about[l]] : to[l] \in QNext(s)
                 /\ kpc[l] = "order" =>
                        price[l] \in quotes[about[l]] /\ "SELECTED" \in qbeen'[about[l]]
                 /\ kpc[l] = "status" =>
                        /\ about[l] \in Order /\ of'[about[l]] # None
                        /\ \E s \in obeen'[about[l]] : to[l] \in ONext(s)
      BY <2>8, <3>5 DEF IInv, DeskKnows
    <3>. QED  BY <2>2, <3>1, <3>2, <3>3, <3>4, <3>6 DEF DeskKnows
  <2>. QED  BY <2>4, <2>5, <2>9, <2>10, <2>11, <2>12 DEF IInv
<1>. QED  BY <1>2, <1>3

\* A step of the accounts opens no payable of an order.
LEMMA AccountStepPreserves ==
  ASSUME IInv, AccountStep
  PROVE  IInv'
<1>. USE DEF AccountStep
<1>1. AccIInv'
  BY AccNextIInv DEF IInv
<1>2. TypeOK'
  BY <1>1 DEF IInv, AccIInv, TypeOK
<1>3. \A o \in Order : row[o] # "absent" =>
        row'[o] # "absent" /\ asked[o] \subseteq asked'[o]
  BY AccHistory, PurchasingAssumption, AccountAssumption DEF IInv
<1>4. OneOrderPerSelection'
  <2>1. \A r \in Quotation : OrdersOf(r)' = OrdersOf(r)
    BY DEF OrdersOf
  <2>. QED  BY <2>1 DEF IInv, OneOrderPerSelection
<1>5. HandoffWhole' /\ NoStepSkipped'
  BY <1>3 DEF IInv, HandoffWhole, NoStepSkipped
<1>6. DeskKnows'
  BY <1>3 DEF IInv, DeskKnows
<1>. QED  BY <1>1, <1>2, <1>4, <1>5, <1>6 DEF IInv

\* Every step preserves the inductive invariant.
LEMMA NextIInv == IInv /\ [Next]_vars => IInv'
<1>. SUFFICES ASSUME IInv, [Next]_vars PROVE IInv'
  OBVIOUS
<1>1. CASE CreateQuotation \/ Requote
  BY <1>1, QuotePreserves
<1>2. ASSUME NEW k \in Clerk, ClerkStep(k) PROVE IInv'
  <2>1. CASE ReadQuotation(k)
    <3>1. PICK q \in Quotation : \E s \in QNext(qstatus[q]) :
            qrow[q] = "live" /\ Take(k, "quotation", s, q, 0)
      BY <2>1 DEF ReadQuotation
    <3>2. PICK s \in QNext(qstatus[q]) :
            qrow[q] = "live" /\ Take(k, "quotation", s, q, 0)
      BY <3>1
    <3>3. s \in QStatus
      BY <3>2, QNextFacts DEF QStatus
    <3>. QED  BY <2>1, <3>2, <3>3, TakePreserves DEF ReadQuotation
  <2>2. CASE ReadDraft(k)
    BY <2>2, TakePreserves DEF ReadDraft
  <2>3. CASE ReadSelected(k)
    <3>1. PICK q \in Quotation : /\ qrow[q] = "live" /\ qstatus[q] = "SELECTED"
                                 /\ Take(k, "order", "ORDERED", q, quoted[q])
      BY <2>3 DEF ReadSelected
    <3>2. quoted[q] \in Nat /\ "ORDERED" \in QStatus
      BY DEF IInv, TypeOK, QStatus
    <3>. QED  BY <2>3, <3>1, <3>2, TakePreserves DEF ReadSelected
  <2>4. CASE ReadOrder(k)
    <3>1. PICK o \in Order : \E s \in ONext(ostatus[o]) :
            of[o] # None /\ Take(k, "status", s, o, 0)
      BY <2>4 DEF ReadOrder
    <3>2. PICK s \in ONext(ostatus[o]) : of[o] # None /\ Take(k, "status", s, o, 0)
      BY <3>1
    <3>3. s \in OStatus
      BY <3>2, ONextFacts
    <3>. QED  BY <2>4, <3>2, <3>3, TakePreserves DEF ReadOrder
  <2>5. CASE WriteQuotation(k)
    BY <2>5, WriteQuotationPreserves
  <2>6. CASE RemoveQuotation(k)
    BY <2>6, RemoveQuotationPreserves
  <2>7. CASE CreateOrder(k)
    BY <2>7, CreateOrderPreserves
  <2>8. CASE WriteOrder(k)
    BY <2>8, WriteOrderPreserves
  <2>9. CASE ClerkFails(k)
    BY <2>9, ClerkFailsPreserves
  <2>. QED  BY <1>2, <2>1, <2>2, <2>3, <2>4, <2>5, <2>6, <2>7, <2>8, <2>9 DEF ClerkStep
<1>3. CASE AccountStep
  BY <1>3, AccountStepPreserves
<1>4. CASE UNCHANGED vars
  <2>1. UNCHANGED <<accVars, desk>> /\ UNCHANGED clerks
    BY <1>4 DEF vars
  <2>2. AccTypeOK'
    BY <2>1, DeskStands DEF AccIInv
  <2>3. TypeOK' /\ DeskKnows'
    BY <2>1, <2>2 DEF IInv, TypeOK, DeskKnows, accVars, table
  <2>. QED  BY <2>1, <2>3, DeskStands DEF IInv
<1>. QED  BY <1>1, <1>2, <1>3, <1>4 DEF Next

-----------------------------------------------------------------------------
\* The inductive invariant of purchasing and its accounts.
THEOREM PurchasingInvariant == Spec => []IInv
  BY InitIInv, NextIInv, PTL DEF Spec

\* A selection is consumed by one order, whatever requests overlap: the
\* comparison in the write, not the guard before it, sees to that.
THEOREM PurchasingOneOrderPerSelection == Spec => []OneOrderPerSelection
<1>1. IInv => OneOrderPerSelection
  BY DEF IInv
<1>. QED  BY <1>1, PurchasingInvariant, PTL

\* Every order has its account payable, for what its quotation asked.
THEOREM PurchasingHandoffWhole == Spec => []HandoffWhole
<1>1. IInv => HandoffWhole
  BY DEF IInv
<1>. QED  BY <1>1, PurchasingInvariant, PTL

\* Late writes overwrite each other but never skip a step.
THEOREM PurchasingNoStepSkipped == Spec => []NoStepSkipped
<1>1. IInv => NoStepSkipped
  BY DEF IInv
<1>. QED  BY <1>1, PurchasingInvariant, PTL

-----------------------------------------------------------------------------
(* Requests about different quotations and orders.                         *)

\* Nobody else is at work on what a request other than an order is about.
LEMMA AloneOnIt ==
  ASSUME OnlyOrdersOverlap, NEW k \in Clerk, NEW l \in Clerk \ {k},
         about[k] # None, kpc[k] # "order" \/ kpc[l] # "order"
  PROVE  about[l] # about[k]
BY DEF OnlyOrdersOverlap

\* The others stay where they are when a request ends.
LEMMA OthersWait ==
  ASSUME TypeOK, NEW k \in Clerk, Dismiss(k)
  PROVE  /\ kpc'[k] = "idle"
         /\ \A l \in Clerk \ {k} : kpc'[l] = kpc[l] /\ to'[l] = to[l] /\ about'[l] = about[l]
BY DEF TypeOK, Dismiss

LEMMA CurrentWriteQuotation ==
  ASSUME IInv, OnlyOrdersOverlap, DeskIsCurrent, ConsumedOnce,
         NEW k \in Clerk, WriteQuotation(k)
  PROVE  DeskIsCurrent' /\ ConsumedOnce' /\ MachineStep
<1>. DEFINE q == about[k]
<1>1. /\ q \in Quotation /\ q # None /\ qrow[q] = "live" /\ to[k] \in QNext(qstatus[q])
      /\ kpc[k] = "quotation"
  BY PurchasingAssumption DEF WriteQuotation, DeskIsCurrent, IInv, DeskKnows
<1>2. qstatus'[q] = to[k] /\ \A r \in Quotation \ {q} : qstatus'[r] = qstatus[r]
  BY <1>1 DEF WriteQuotation, IInv, TypeOK
<1>3. /\ kpc'[k] = "idle" /\ UNCHANGED <<qrow, of, ostatus>>
      /\ \A l \in Clerk \ {k} : kpc'[l] = kpc[l] /\ to'[l] = to[l] /\ about'[l] = about[l]
  BY OthersWait DEF WriteQuotation, IInv
<1>4. \A l \in Clerk \ {k} : about[l] # q
  BY <1>1, AloneOnIt
<1>. HIDE DEF q
<1>5. \A l \in Clerk : kpc[l] \in {"quotation", "remove"} => about[l] \in Quotation
  BY DEF IInv, DeskKnows
<1>6. DeskIsCurrent'
  BY <1>2, <1>3, <1>4, <1>5 DEF DeskIsCurrent
<1>7. qstatus[q] # "ORDERED" /\ qstatus'[q] # "ORDERED"
  <2>1. QNext("ORDERED") = {}
    BY DEF QNext
  <2>. QED  BY <1>1, <1>2, <2>1, QNextFacts
<1>8. ConsumedOnce'
  BY <1>1, <1>2, <1>3, <1>7 DEF ConsumedOnce, OrdersOf
<1>9. MachineStep
  BY <1>1, <1>2, <1>3 DEF MachineStep
<1>. QED  BY <1>6, <1>8, <1>9

LEMMA CurrentRemove ==
  ASSUME IInv, OnlyOrdersOverlap, DeskIsCurrent, ConsumedOnce,
         NEW k \in Clerk, RemoveQuotation(k)
  PROVE  DeskIsCurrent' /\ ConsumedOnce' /\ MachineStep
<1>. DEFINE q == about[k]
<1>1. q \in Quotation /\ q # None /\ qstatus[q] = "DRAFT" /\ kpc[k] = "remove"
  BY PurchasingAssumption DEF RemoveQuotation, DeskIsCurrent, IInv, DeskKnows
<1>2. \A r \in Quotation \ {q} : qrow'[r] = qrow[r]
  BY DEF RemoveQuotation, IInv, TypeOK
<1>3. /\ kpc'[k] = "idle" /\ UNCHANGED <<qstatus, of, ostatus>>
      /\ \A l \in Clerk \ {k} : kpc'[l] = kpc[l] /\ to'[l] = to[l] /\ about'[l] = about[l]
  BY OthersWait DEF RemoveQuotation, IInv
<1>4. \A l \in Clerk \ {k} : about[l] # q
  BY <1>1, AloneOnIt
<1>. HIDE DEF q
<1>5. \A l \in Clerk : kpc[l] = "quotation" => about[l] \in Quotation
  BY DEF IInv, DeskKnows
<1>6. DeskIsCurrent'
  BY <1>2, <1>3, <1>4, <1>5 DEF DeskIsCurrent
<1>7. ConsumedOnce'
  BY <1>1, <1>2, <1>3 DEF ConsumedOnce, OrdersOf
<1>8. MachineStep
  BY <1>3 DEF MachineStep
<1>. QED  BY <1>6, <1>7, <1>8

\* The write that compares: it finds a selection that no order has consumed.
LEMMA CurrentCreateOrder ==
  ASSUME IInv, OnlyOrdersOverlap, DeskIsCurrent, ConsumedOnce,
         NEW k \in Clerk, CreateOrder(k)
  PROVE  DeskIsCurrent' /\ ConsumedOnce' /\ MachineStep
<1>1. PICK q \in Quotation : q = about[k] /\ q # None /\ kpc[k] = "order"
  BY PurchasingAssumption DEF CreateOrder, IInv, DeskKnows
<1>2. /\ kpc'[k] = "idle" /\ UNCHANGED <<qrow, ostatus>>
      /\ \A l \in Clerk \ {k} : kpc'[l] = kpc[l] /\ to'[l] = to[l] /\ about'[l] = about[l]
  BY OthersWait DEF CreateOrder, IInv
<1>3. \A l \in Clerk \ {k} : kpc[l] # "order" => about[l] # q
  BY <1>1, AloneOnIt
<1>4. \A r \in Quotation \ {q} : qstatus'[r] = qstatus[r]
  BY <1>1 DEF CreateOrder, IInv, TypeOK
<1>5. CASE Unconsumed(q)
  <2>1. PICK o \in Order : of[o] = None /\ of' = [of EXCEPT ![o] = q]
    BY <1>1, <1>5 DEF CreateOrder, PlaceOrder
  <2>2. qstatus[q] = "SELECTED" /\ qrow[q] = "live" /\ qstatus'[q] = "ORDERED"
    BY <1>1, <1>5 DEF Unconsumed, CreateOrder, IInv, TypeOK
  <2>3. of'[o] = q /\ \A p \in Order \ {o} : of'[p] = of[p]
    BY <2>1 DEF IInv, TypeOK
  <2>4. OrdersOf(q) = {}
    BY <1>1, <2>2 DEF ConsumedOnce
  <2>5. OrdersOf(q)' = {o}
    BY <2>3, <2>4 DEF OrdersOf
  <2>6. \A r \in Quotation \ {q} : OrdersOf(r)' = OrdersOf(r)
    BY <2>1, <2>3, PurchasingAssumption DEF OrdersOf
  <2>7. ConsumedOnce'
    <3>1. ASSUME NEW r \in Quotation \ {q}
          PROVE  qstatus'[r] = qstatus[r] /\ qrow'[r] = qrow[r] /\ OrdersOf(r)' = OrdersOf(r)
      BY <1>2, <1>4, <2>6
    <3>2. qstatus'[q] = "ORDERED" /\ qrow'[q] = "live" /\ OrdersOf(q)' = {o}
      BY <1>2, <2>2, <2>5
    <3>. QED  BY <3>1, <3>2 DEF ConsumedOnce
  <2>8. MachineStep
    BY <1>2, <1>4, <2>2 DEF MachineStep
  <2>9. \A l \in Clerk : kpc[l] \in {"quotation", "remove"} => about[l] \in Quotation
    BY DEF IInv, DeskKnows
  <2>10. DeskIsCurrent'
    BY <1>2, <1>3, <1>4, <2>9 DEF DeskIsCurrent
  <2>. QED  BY <2>7, <2>8, <2>10
<1>6. CASE ~Unconsumed(q)
  <2>1. UNCHANGED <<of, qstatus>>
    BY <1>1, <1>6 DEF CreateOrder
  <2>. QED  BY <1>2, <2>1 DEF DeskIsCurrent, ConsumedOnce, OrdersOf, MachineStep
<1>. QED  BY <1>5, <1>6

LEMMA CurrentWriteOrder ==
  ASSUME IInv, OnlyOrdersOverlap, DeskIsCurrent, ConsumedOnce,
         NEW k \in Clerk, WriteOrder(k)
  PROVE  DeskIsCurrent' /\ ConsumedOnce' /\ MachineStep
<1>. DEFINE x == about[k]
<1>1. x \in Order /\ x # None /\ to[k] \in ONext(ostatus[x]) /\ kpc[k] = "status"
  BY PurchasingAssumption DEF WriteOrder, DeskIsCurrent, IInv, DeskKnows
<1>2. ostatus'[x] = to[k] /\ \A o \in Order \ {x} : ostatus'[o] = ostatus[o]
  BY <1>1 DEF WriteOrder, IInv, TypeOK
<1>3. /\ kpc'[k] = "idle" /\ UNCHANGED <<qrow, qstatus, of>>
      /\ \A l \in Clerk \ {k} : kpc'[l] = kpc[l] /\ to'[l] = to[l] /\ about'[l] = about[l]
  BY OthersWait DEF WriteOrder, IInv
<1>4. \A l \in Clerk \ {k} : about[l] # x
  BY <1>1, AloneOnIt
<1>. HIDE DEF x
<1>5. \A l \in Clerk : kpc[l] = "status" => about[l] \in Order
  BY DEF IInv, DeskKnows
<1>6. DeskIsCurrent'
  BY <1>2, <1>3, <1>4, <1>5 DEF DeskIsCurrent
<1>. QED  BY <1>1, <1>2, <1>3, <1>6 DEF ConsumedOnce, OrdersOf, MachineStep

\* Reads and failures: the request that reads has only just read.
LEMMA CurrentRead ==
  ASSUME IInv, DeskIsCurrent, ConsumedOnce, NEW k \in Clerk,
         ReadQuotation(k) \/ ReadDraft(k) \/ ReadSelected(k) \/ ReadOrder(k) \/ ClerkFails(k)
  PROVE  DeskIsCurrent' /\ ConsumedOnce' /\ MachineStep
<1>1. UNCHANGED <<qrow, qstatus, of, ostatus>>
  BY DEF ReadQuotation, ReadDraft, ReadSelected, ReadOrder, ClerkFails
<1>2. ASSUME NEW p, NEW s, NEW x, NEW n, Take(k, p, s, x, n),
             p = "quotation" => qrow[x] = "live" /\ s \in QNext(qstatus[x]),
             p = "remove" => qstatus[x] = "DRAFT",
             p = "status" => s \in ONext(ostatus[x])
      PROVE  DeskIsCurrent'
  <2>1. /\ kpc'[k] = p /\ to'[k] = s /\ about'[k] = x
        /\ \A l \in Clerk \ {k} : kpc'[l] = kpc[l] /\ to'[l] = to[l] /\ about'[l] = about[l]
    BY <1>2 DEF Take, IInv, TypeOK
  <2>. QED  BY <1>1, <1>2, <2>1 DEF DeskIsCurrent
<1>3. ASSUME ReadQuotation(k) \/ ReadDraft(k) \/ ReadSelected(k) \/ ReadOrder(k)
      PROVE  DeskIsCurrent'
  <2>1. CASE ReadQuotation(k)
    BY <1>2, <2>1 DEF ReadQuotation
  <2>2. CASE ReadDraft(k)
    BY <1>2, <2>2 DEF ReadDraft
  <2>3. CASE ReadSelected(k)
    BY <1>2, <2>3 DEF ReadSelected
  <2>4. CASE ReadOrder(k)
    BY <1>2, <2>4 DEF ReadOrder
  <2>. QED  BY <1>3, <2>1, <2>2, <2>3, <2>4
<1>4. ASSUME ClerkFails(k)
      PROVE  DeskIsCurrent'
  <2>1. /\ kpc'[k] = "idle"
        /\ \A l \in Clerk \ {k} : kpc'[l] = kpc[l] /\ to'[l] = to[l] /\ about'[l] = about[l]
    BY <1>4, OthersWait DEF ClerkFails, IInv
  <2>. QED  BY <1>1, <2>1 DEF DeskIsCurrent
<1>5. ConsumedOnce' /\ MachineStep
  BY <1>1 DEF ConsumedOnce, OrdersOf, MachineStep
<1>. QED  BY <1>3, <1>4, <1>5

LEMMA CurrentNext ==
  ASSUME IInv, OnlyOrdersOverlap, DeskIsCurrent, ConsumedOnce, [Next]_vars
  PROVE  DeskIsCurrent' /\ ConsumedOnce' /\ MachineStep
<1>1. ASSUME NEW k \in Clerk, ClerkStep(k)
      PROVE  DeskIsCurrent' /\ ConsumedOnce' /\ MachineStep
  BY <1>1, CurrentWriteQuotation, CurrentRemove, CurrentCreateOrder, CurrentWriteOrder,
     CurrentRead DEF ClerkStep
<1>2. CASE CreateQuotation
  <2>1. /\ UNCHANGED <<qstatus, of, ostatus, clerks>>
        /\ \A q \in Quotation : qrow'[q] # qrow[q] => qrow'[q] = "live"
    BY <1>2 DEF CreateQuotation, IInv, TypeOK
  <2>2. \A k \in Clerk : kpc[k] = "quotation" => about[k] \in Quotation
    BY DEF IInv, DeskKnows
  <2>. QED  BY <2>1, <2>2 DEF DeskIsCurrent, ConsumedOnce, OrdersOf, MachineStep
<1>3. CASE Requote \/ AccountStep \/ UNCHANGED vars
  <2>1. UNCHANGED <<qrow, qstatus, of, ostatus, kpc, to, about>>
    BY <1>3 DEF Requote, AccountStep, vars
  <2>. QED  BY <2>1 DEF DeskIsCurrent, ConsumedOnce, OrdersOf, MachineStep
<1>. QED  BY <1>1, <1>2, <1>3 DEF Next

LEMMA CurrentInvariant ==
  Spec /\ []OnlyOrdersOverlap => [](DeskIsCurrent /\ ConsumedOnce)
<1>. DEFINE Inv == DeskIsCurrent /\ ConsumedOnce
<1>1. Init => Inv
  BY PurchasingAssumption DEF Init, DeskIsCurrent, ConsumedOnce, OrdersOf
<1>2. IInv /\ OnlyOrdersOverlap /\ Inv /\ [Next]_vars => Inv'
  BY CurrentNext
<1>. HIDE DEF Inv
<1>3. Spec /\ []OnlyOrdersOverlap => []Inv
  BY <1>1, <1>2, PurchasingInvariant, PTL DEF Spec
<1>. QED  BY <1>3 DEF Inv

\* A quotation makes one order for good, however many requests try to make one
\* at the same time.
THEOREM PurchasingConsumedOnce == Spec /\ []OnlyOrdersOverlap => []ConsumedOnce
BY CurrentInvariant, PTL

\* Quotations and orders move along the tables of their services.
THEOREM PurchasingFollowsMachines == Spec /\ []OnlyOrdersOverlap => FollowsMachines
<1>1. IInv /\ OnlyOrdersOverlap /\ DeskIsCurrent /\ ConsumedOnce /\ [Next]_vars
        => [MachineStep]_vars
  BY CurrentNext
<1>. QED  BY <1>1, CurrentInvariant, PurchasingInvariant, PTL DEF Spec, FollowsMachines

-----------------------------------------------------------------------------
(* Purchasing implements Account: whatever a clerk does, the accounts take  *)
(* a step of their own or none.                                             *)

\* A quotation only ever asks for amounts an account may have.
QuotesAreAmounts == \A q \in Quotation : quotes[q] \subseteq Amount

LEMMA QuotesInit == Init => QuotesAreAmounts
  BY DEF Init, QuotesAreAmounts

LEMMA QuotesNext == IInv /\ QuotesAreAmounts /\ [Next]_vars => QuotesAreAmounts'
<1>. SUFFICES ASSUME IInv, QuotesAreAmounts, [Next]_vars PROVE QuotesAreAmounts'
  OBVIOUS
<1>t. quotes \in [Quotation -> SUBSET Nat]
  BY DEF IInv, TypeOK
<1>1. CASE CreateQuotation \/ Requote
  BY <1>t, <1>1 DEF CreateQuotation, Requote, QuotesAreAmounts
<1>2. ASSUME NEW k \in Clerk, WriteQuotation(k) PROVE QuotesAreAmounts'
  <2>1. about[k] \in Quotation /\ quoted[about[k]] \in quotes[about[k]]
    BY <1>2 DEF WriteQuotation, IInv, DeskKnows
  <2>2. PICK n \in Amount \cup {quoted[about[k]]} :
          quotes' = [quotes EXCEPT ![about[k]] = @ \cup {n}]
    BY <1>2 DEF WriteQuotation
  <2>3. n \in Amount
    BY <2>1, <2>2 DEF QuotesAreAmounts
  <2>. QED  BY <1>t, <2>1, <2>2, <2>3 DEF QuotesAreAmounts
<1>3. CASE UNCHANGED quotes
  BY <1>3 DEF QuotesAreAmounts
<1>4. \/ CreateQuotation \/ Requote \/ UNCHANGED quotes
      \/ \E k \in Clerk : WriteQuotation(k)
  BY DEF Next, ClerkStep, ReadQuotation, ReadDraft, RemoveQuotation, ReadSelected,
         CreateOrder, ReadOrder, WriteOrder, ClerkFails, AccountStep, vars
<1>. QED  BY <1>1, <1>2, <1>3, <1>4

\* An order opens its payable as the accounts allow.
LEMMA CreateOrderOpens ==
  ASSUME IInv, QuotesAreAmounts, NEW k \in Clerk, CreateOrder(k)
  PROVE  CreateAccount \/ UNCHANGED accVars
<1>1. about[k] \in Quotation /\ price[k] \in Amount
  BY DEF CreateOrder, IInv, DeskKnows, QuotesAreAmounts
<1>2. CASE Unconsumed(about[k])
  <2>1. PICK o \in Order : PlaceOrder(k, o)
    BY <1>2 DEF CreateOrder
  <2>2. o \in Payable /\ o \in Acc /\ OpenAccount(o, price[k], "PENDING")
    BY <2>1, PurchasingAssumption, AccountAssumption DEF PlaceOrder
  <2>. QED  BY <1>1, <2>2 DEF CreateAccount
<1>3. CASE ~Unconsumed(about[k])
  BY <1>3 DEF CreateOrder
<1>. QED  BY <1>2, <1>3

\* Every step of purchasing is a step of the accounts or leaves them alone, so
\* what holds of the accounts by themselves holds of those of purchase orders.
THEOREM PurchasingImplementsAccount == Spec => ImplementsAccount
<1>1. Init => AccInit
  BY DEF Init
<1>2. IInv /\ QuotesAreAmounts /\ [Next]_vars => [AccNext]_accVars
  <2>. SUFFICES ASSUME IInv, QuotesAreAmounts, [Next]_vars
       PROVE  AccNext \/ UNCHANGED accVars
    OBVIOUS
  <2>1. ASSUME NEW k \in Clerk, ClerkStep(k) PROVE AccNext \/ UNCHANGED accVars
    <3>1. CASE CreateOrder(k)
      BY <3>1, CreateOrderOpens DEF AccNext
    <3>2. CASE ~CreateOrder(k)
      BY <2>1, <3>2
         DEF ClerkStep, ReadQuotation, WriteQuotation, ReadDraft, RemoveQuotation,
             ReadSelected, ReadOrder, WriteOrder, ClerkFails
    <3>. QED  BY <3>1, <3>2
  <2>2. CASE CreateQuotation \/ Requote \/ UNCHANGED vars
    BY <2>2 DEF CreateQuotation, Requote, vars
  <2>3. CASE AccountStep
    BY <2>3 DEF AccountStep
  <2>. QED  BY <2>1, <2>2, <2>3 DEF Next
<1>. QED
  BY <1>1, <1>2, QuotesInit, QuotesNext, PurchasingInvariant, PTL
     DEF Spec, AccSpec, ImplementsAccount
=============================================================================
