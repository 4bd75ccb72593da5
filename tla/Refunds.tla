------------------------------ MODULE Refunds ------------------------------
(***************************************************************************)
(* The order_refunds rows of one paid order and the three services that    *)
(* work on them: OrderRefundService (modules/orders/services/              *)
(* refunds.service.ts), PaymentRefundsService (modules/payments/services/  *)
(* payment-refunds.service.ts) and refund() of PaymentsService             *)
(* (services/payments.service.ts).                                         *)
(*                                                                         *)
(* The first two check a row's status in one statement and write it by id  *)
(* in another.  The first settles rows itself and turns the order REFUNDED *)
(* once they cover its total; the second pushes them to the payment        *)
(* provider; the third asks the provider first, inserts a PROCESSING row   *)
(* and turns the order REFUNDED whatever the amount.  PAID stands for      *)
(* every status of the order between payment and the final ones: no        *)
(* service tells them apart.                                               *)
(***************************************************************************)
EXTENDS Naturals, FiniteSets, Functions

CONSTANTS
  RefundIds,   \* order_refunds rows a behaviour may insert
  RefundCalls, \* calls of the three services that may overlap
  Total,       \* total of the order and amount of its payment
  NoRefund,    \* no row
  MaxRefundCrashes  \* bound: calls that die

ASSUME RefundAssumption ==
  /\ Total \in Nat \ {0} /\ MaxRefundCrashes \in Nat
  /\ NoRefund \notin RefundIds
  /\ IsFiniteSet(RefundIds) /\ IsFiniteSet(RefundCalls)

VARIABLES
  sale,      \* status of the order
  payment,   \* status of its payment, "OTHER" for all but SUCCEEDED
  refund,    \* status of each row; "none" before the insert, "removed" after a delete
  amount,    \* amount of each row
  pushes,    \* history: refunds of each row the provider accepted
  direct,    \* history: rows PaymentsService.refund() inserted
  undone,    \* history: a SUCCEEDED row was changed by a call that had read it PENDING
  refundCrashes,
  refunding  \* each call in flight: its next statement, its row, and what it read

refundVars ==
  <<sale, payment, refund, amount, pushes, direct, undone, refundCrashes, refunding>>

Open == {"PENDING", "PROCESSING", "SUCCEEDED"}
RefundStatuses == Open \cup {"none", "removed", "FAILED"}
Amounts == 1 .. Total
RefundFrame(step, r, arg) == [step |-> step, row |-> r, arg |-> arg]
NoFrame == RefundFrame("idle", NoRefund, 0)

RefundInit ==
  /\ sale = "PAID"
  /\ payment = "SUCCEEDED"
  /\ refund = [r \in RefundIds |-> "none"]
  /\ amount = [r \in RefundIds |-> 0]
  /\ pushes = [r \in RefundIds |-> 0]
  /\ direct = {}
  /\ undone = FALSE
  /\ refundCrashes = 0
  /\ refunding = [c \in RefundCalls |-> NoFrame]

Sum(statuses) ==
  SumFunctionOnSet(amount, {r \in RefundIds : refund[r] \in statuses})
\* succeededTotal() counts what reached the customer.
EveryOpenRow == Sum(Open)                                      \* mutant
succeededTotal == Sum({"SUCCEEDED"})

Resume(c, frame) == refunding' = [refunding EXCEPT ![c] = frame]
Step(c, step) == refunding[c].step = step
RowOf(c) == refunding[c].row

\* A write by id: it fails when the row is gone, whatever its status was when read.
Present(r) == refund[r] \notin {"none", "removed"}
Write(c, to) ==
  /\ Present(RowOf(c))
  /\ refund' = [refund EXCEPT ![RowOf(c)] = to]
  /\ undone' = (undone \/ (refund[RowOf(c)] = "SUCCEEDED" /\ to # "SUCCEEDED"))

-----------------------------------------------------------------------------
\* The order desk cancels the order meanwhile.
CancelSale ==
  /\ sale = "PAID"
  /\ sale' = "CANCELLED"
  /\ UNCHANGED <<payment, refund, amount, pushes, direct, undone, refundCrashes, refunding>>

\* PaymentsService.reconcile() records what the provider says of the payment.
Reconciles ==
  /\ payment' \in {"SUCCEEDED", "OTHER"}
  /\ UNCHANGED <<sale, refund, amount, pushes, direct, undone, refundCrashes, refunding>>

\* A call that will insert row r.
Inserters == {"balance", "insert", "repay", "book"}
AsksRefund(c, step, r, a) ==
  /\ Step(c, "idle")
  /\ refund[r] = "none"
  /\ \A d \in RefundCalls : refunding[d].step \in Inserters => RowOf(d) # r
  /\ Resume(c, RefundFrame(step, r, a))
  /\ UNCHANGED <<sale, payment, refund, amount, pushes, direct, undone, refundCrashes>>

\* OrderRefundService.create() leaves rows that are still open out of the balance.
createOrderRefund(c, r, a) == a + succeededTotal <= Total /\ AsksRefund(c, "insert", r, a)

\* PaymentRefundsService.create() reads the payment, then counts them.
createPaymentRefund(c, r, a) == payment = "SUCCEEDED" /\ AsksRefund(c, "balance", r, a)
CheckBalance(c) ==
  /\ Step(c, "balance")
  /\ Resume(c, IF refunding[c].arg + Sum(Open) <= Total
              THEN [refunding[c] EXCEPT !.step = "insert"] ELSE NoFrame)
  /\ UNCHANGED <<sale, payment, refund, amount, pushes, direct, undone, refundCrashes>>

InsertRefund(c) ==
  /\ Step(c, "insert")
  /\ refund' = [refund EXCEPT ![RowOf(c)] = "PENDING"]
  /\ amount' = [amount EXCEPT ![RowOf(c)] = refunding[c].arg]
  /\ Resume(c, NoFrame)
  /\ UNCHANGED <<sale, payment, pushes, direct, undone, refundCrashes>>

\* Every other handler of these two services begins by reading a PENDING row.
AnyStatus(c, r, step, a) ==                                    \* mutant
  /\ Step(c, "idle")
  /\ Present(r)
  /\ Resume(c, RefundFrame(step, r, a))
  /\ UNCHANGED <<sale, payment, refund, amount, pushes, direct, undone, refundCrashes>>
assertMutable(c, r, step, a) ==
  /\ Step(c, "idle")
  /\ refund[r] = "PENDING"
  /\ Resume(c, RefundFrame(step, r, a))
  /\ UNCHANGED <<sale, payment, refund, amount, pushes, direct, undone, refundCrashes>>

updateRefund(c, r, a) == assertMutable(c, r, "amend", a)
removeRefund(c, r)    == assertMutable(c, r, "remove", 0)
cancelRefund(c, r)    == assertMutable(c, r, "void", 0)
processOrderRefund(c, r)   == assertMutable(c, r, "claim", IF sale = "PAID" THEN 1 ELSE 0)
processPaymentRefund(c, r) == assertMutable(c, r, "push", 0)

AmendRefund(c) ==
  /\ Step(c, "amend")
  /\ Present(RowOf(c))
  /\ amount' = [amount EXCEPT ![RowOf(c)] = refunding[c].arg]
  /\ undone' = (undone \/ refund[RowOf(c)] = "SUCCEEDED")
  /\ Resume(c, NoFrame)
  /\ UNCHANGED <<sale, payment, refund, pushes, direct, refundCrashes>>

RemoveRow(c) ==
  /\ Step(c, "remove")
  /\ Write(c, "removed")
  /\ Resume(c, NoFrame)
  /\ UNCHANGED <<sale, payment, amount, pushes, direct, refundCrashes>>

VoidRefund(c) ==
  /\ Step(c, "void")
  /\ Write(c, "FAILED")
  /\ Resume(c, NoFrame)
  /\ UNCHANGED <<sale, payment, amount, pushes, direct, refundCrashes>>

-----------------------------------------------------------------------------
(* OrderRefundService.process().  The frame keeps whether the order read   *)
(* first may still become REFUNDED.                                        *)

ClaimRefund(c) ==
  /\ Step(c, "claim")
  /\ Write(c, "PROCESSING")
  /\ Resume(c, [refunding[c] EXCEPT !.step = "settle"])
  /\ UNCHANGED <<sale, payment, amount, pushes, direct, refundCrashes>>

\* The transport is a stub the environment can make fail.
SettleRefund(c) ==
  /\ Step(c, "settle")
  /\ \/ Write(c, "FAILED") /\ Resume(c, NoFrame)
     \/ Write(c, "SUCCEEDED") /\ Resume(c, [refunding[c] EXCEPT !.step = "sum"])
  /\ UNCHANGED <<sale, payment, amount, pushes, direct, refundCrashes>>

CheckCoverage(c) ==
  /\ Step(c, "sum")
  /\ Resume(c, IF succeededTotal >= Total /\ refunding[c].arg = 1
              THEN [refunding[c] EXCEPT !.step = "flip"] ELSE NoFrame)
  /\ UNCHANGED <<sale, payment, refund, amount, pushes, direct, undone, refundCrashes>>

TurnRefunded(c) ==
  /\ Step(c, "flip")
  /\ sale' = "REFUNDED"
  /\ Resume(c, NoFrame)
  /\ UNCHANGED <<payment, refund, amount, pushes, direct, undone, refundCrashes>>

-----------------------------------------------------------------------------
(* PaymentRefundsService.process().                                        *)

\* psp.refund(): the provider accepts or rejects; it has no key to recognise a repeat.
PushToProvider(c) ==
  /\ Step(c, "push")
  /\ \/ /\ pushes' = [pushes EXCEPT ![RowOf(c)] = @ + 1]
        /\ Resume(c, [refunding[c] EXCEPT !.step = "accepted"])
     \/ /\ UNCHANGED pushes
        /\ Resume(c, [refunding[c] EXCEPT !.step = "void"])
  /\ UNCHANGED <<sale, payment, refund, amount, direct, undone, refundCrashes>>

RecordPush(c) ==
  /\ Step(c, "accepted")
  /\ Write(c, "PROCESSING")
  /\ Resume(c, NoFrame)
  /\ UNCHANGED <<sale, payment, amount, pushes, direct, refundCrashes>>

-----------------------------------------------------------------------------
(* PaymentsService.refund(): the provider, the row, the payment and, by    *)
(* TurnRefunded, the order, in this order.                                 *)

refundPayment(c, r, a) == payment = "SUCCEEDED" /\ AsksRefund(c, "repay", r, a)

AskProvider(c) ==
  /\ Step(c, "repay")
  /\ \/ Resume(c, [refunding[c] EXCEPT !.step = "book"])
     \/ Resume(c, NoFrame)
  /\ UNCHANGED <<sale, payment, refund, amount, pushes, direct, undone, refundCrashes>>

BookRefund(c) ==
  /\ Step(c, "book")
  /\ refund' = [refund EXCEPT ![RowOf(c)] = "PROCESSING"]
  /\ amount' = [amount EXCEPT ![RowOf(c)] = refunding[c].arg]
  /\ direct' = direct \cup {RowOf(c)}
  /\ Resume(c, [refunding[c] EXCEPT !.step = "spend"])
  /\ UNCHANGED <<sale, payment, pushes, undone, refundCrashes>>

MarkRefunded(c) ==
  /\ Step(c, "spend")
  /\ payment' = "OTHER"
  /\ Resume(c, [refunding[c] EXCEPT !.step = "flip"])
  /\ UNCHANGED <<sale, refund, amount, pushes, direct, undone, refundCrashes>>

-----------------------------------------------------------------------------
\* The process dies, or a statement fails.
RefundCrash(c) ==
  /\ ~Step(c, "idle")
  /\ refundCrashes < MaxRefundCrashes
  /\ refundCrashes' = refundCrashes + 1
  /\ Resume(c, NoFrame)
  /\ UNCHANGED <<sale, payment, refund, amount, pushes, direct, undone>>
\* The row was deleted meanwhile: the write by id throws.
RefundGone(c) ==
  /\ Step(c, "amend") \/ Step(c, "remove") \/ Step(c, "void") \/ Step(c, "claim")
       \/ Step(c, "settle") \/ Step(c, "accepted")
  /\ ~Present(RowOf(c))
  /\ Resume(c, NoFrame)
  /\ UNCHANGED <<sale, payment, refund, amount, pushes, direct, undone, refundCrashes>>

-----------------------------------------------------------------------------
RefundStep(c) ==
  \/ InsertRefund(c) \/ AmendRefund(c) \/ RemoveRow(c) \/ VoidRefund(c)
  \/ ClaimRefund(c) \/ SettleRefund(c) \/ CheckCoverage(c) \/ TurnRefunded(c)
  \/ PushToProvider(c) \/ RecordPush(c) \/ RefundCrash(c) \/ RefundGone(c)
  \/ CheckBalance(c) \/ AskProvider(c) \/ BookRefund(c) \/ MarkRefunded(c)
  \/ \E r \in RefundIds :
       \/ removeRefund(c, r) \/ cancelRefund(c, r)
       \/ processOrderRefund(c, r) \/ processPaymentRefund(c, r)
       \/ \E a \in Amounts : \/ createOrderRefund(c, r, a) \/ createPaymentRefund(c, r, a)
                             \/ updateRefund(c, r, a) \/ refundPayment(c, r, a)

RefundNext == CancelSale \/ Reconciles \/ \E c \in RefundCalls : RefundStep(c)

RefundSpec == RefundInit /\ [][RefundNext]_refundVars

-----------------------------------------------------------------------------
(* Properties.                                                             *)

\* Rows and frames have the shapes the services give them.
RefundTypeOK ==
  /\ sale \in {"PAID", "CANCELLED", "REFUNDED"}
  /\ payment \in {"SUCCEEDED", "OTHER"}
  /\ direct \subseteq RefundIds
  /\ refund \in [RefundIds -> RefundStatuses]
  /\ amount \in [RefundIds -> 0 .. Total]
  /\ pushes \in [RefundIds -> Nat]
  /\ undone \in BOOLEAN
  /\ refundCrashes \in Nat
  /\ refunding \in [RefundCalls ->
       {NoFrame} \cup
       [step : Inserters \cup {"amend", "remove", "void", "claim", "settle", "sum", "flip",
                               "push", "accepted", "spend"}, row : RefundIds, arg : 0 .. Total]]

\* An order is REFUNDED only on rows that SUCCEEDED and cover its total, or on the PROCESSING
\* row of a refund the provider accepted for the payment, unless an overlapping call undid a
\* row that had succeeded.
RefundedIsBacked ==
  sale = "REFUNDED" /\ ~undone =>
    succeededTotal >= Total \/ \E r \in direct : refund[r] = "PROCESSING"

\* A row is refunded at the provider at most once per overlapping call and per crash: a
\* later call finds it no longer PENDING.
PushesBounded ==
  \A r \in RefundIds : pushes[r] <= Cardinality(RefundCalls) + refundCrashes
=============================================================================
