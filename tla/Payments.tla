------------------------------ MODULE Payments ------------------------------
(***************************************************************************)
(* Money for orders: checkout initialisation, the provider's webhook, the  *)
(* manual verify, reconciliation and the full refund                       *)
(* (services/payments.service.ts), over the orders of module Orders.       *)
(*                                                                         *)
(* The payment service provider (PSP) is external.  What the code sees of  *)
(* it: a checkout has a reference, verify() tells its state at that        *)
(* moment, a webhook may come any number of times and in any order, and a  *)
(* refund is accepted or rejected.  Every handler awaits the PSP between   *)
(* its reads and its writes, so jobs overlap with each other and with the  *)
(* calls of Orders.                                                        *)
(***************************************************************************)
EXTENDS Orders

CONSTANTS
  Jobs,          \* slots for payment handlers in flight at the same time
  MaxCheckouts,  \* bound: checkouts opened per order
  MaxRefunds     \* bound: refunds the PSP accepts per order

ASSUME PaymentBounds == MaxCheckouts \in Nat /\ MaxRefunds \in Nat /\ IsFiniteSet(Jobs)

VARIABLES
  psp,         \* the PSP's state of each checkout of each order
  reference,   \* payment.providerReference: the checkout the row points to, 0 if none
  credits,     \* reconciliations that credited the order: customer totals, the
               \* payment.succeeded outbox row and the commission, written together
  pushed,      \* refunds the PSP accepted
  refundRows,  \* order_refunds rows payments.refund() created
  job          \* frames of the payment handlers in flight

moneyRows == <<psp, reference, credits, pushed, refundRows>>
orderDesk == <<stock, listing, lines, history, announced, cancellation, returned,
               shelved, returns, call>>
allVars   == <<vars, psp, reference, credits, pushed, refundRows, job>>

Checkouts == 1..MaxCheckouts
Captured  == {"paid", "reversed"}
Verdicts  == {"SUCCEEDED", "PENDING", "FAILED"}

JobFrame ==
       [op : {"save", "ask", "push"}, order : OrderIds, checkout : Checkouts]
  \cup [op : {"reconcile"}, order : OrderIds, verdict : Verdicts]
  \cup [op : {"settle"}, order : OrderIds, verdict : Verdicts, seen : Statuses]
  \cup [op : {"recordRefund", "refundPayment", "refundOrder"}, order : OrderIds]

JobFree(j) == job[j] = Idle
JobGoto(j, frame) == job' = [job EXCEPT ![j] = frame]
JobReturn(j) == JobGoto(j, Idle)

MoneyInit ==
  /\ Init
  /\ psp = [o \in OrderIds |-> [k \in Checkouts |-> "absent"]]
  /\ reference = [o \in OrderIds |-> 0]
  /\ credits = [o \in OrderIds |-> 0]
  /\ pushed = [o \in OrderIds |-> 0]
  /\ refundRows = [o \in OrderIds |-> 0]
  /\ job = [j \in Jobs |-> Idle]

-----------------------------------------------------------------------------
(* The provider's side, external.                                          *)

\* The customer pays an open checkout, or the charge fails.
Charge(o, k) ==
  /\ psp[o][k] = "open"
  /\ \E outcome \in {"paid", "failed"} : psp' = [psp EXCEPT ![o][k] = outcome]
  /\ UNCHANGED <<vars, reference, credits, pushed, refundRows, job>>

PassedOnRaw(o, k) ==                                           \* mutant
  IF psp[o][k] = "paid" THEN {"SUCCEEDED"} ELSE {"PENDING", "FAILED", "ABANDONED"}
PendingIsPaid(o, k) ==                                         \* mutant
  IF psp[o][k] \in {"paid", "open"} THEN {"SUCCEEDED"} ELSE {"FAILED"}

\* verify() as reconcile() reads it: an abandoned checkout and a reversed charge both
\* count as FAILED.
verify(o, k) ==
  CASE psp[o][k] = "paid" -> {"SUCCEEDED"}
    [] psp[o][k] = "open" -> {"PENDING", "FAILED"}
    [] OTHER              -> {"FAILED"}

-----------------------------------------------------------------------------
(* initialize(): reads the order, opens a checkout, then upserts the       *)
(* payment row of the order.                                               *)

BeginInitialize(j, o, k) ==
  /\ JobFree(j)
  /\ Exists(o)
  /\ status[o] \notin {"PAID", "REFUNDED", "CANCELLED"}
  /\ psp[o][k] = "absent"
  /\ \A k2 \in 1..(k - 1) : psp[o][k2] # "absent"
  /\ psp' = [psp EXCEPT ![o][k] = "open"]
  /\ JobGoto(j, [op |-> "save", order |-> o, checkout |-> k])
  /\ UNCHANGED <<vars, reference, credits, pushed, refundRows>>

SaveCheckout(j) ==
  /\ job[j].op = "save"
  /\ payment' = [payment EXCEPT ![job[j].order] = "INITIALIZED"]
  /\ reference' = [reference EXCEPT ![job[j].order] = job[j].checkout]
  /\ JobReturn(j)
  /\ UNCHANGED <<orderDesk, status, psp, credits, pushed, refundRows>>

(* handleWebhook() and verify(): decide on the payment row, ask the PSP.   *)

\* A reference the row no longer points to is unknown, and a webhook for a payment
\* that is already SUCCEEDED or FAILED changes nothing.
HandleWebhook(j, o, k) ==
  /\ JobFree(j)
  /\ psp[o][k] \in {"paid", "failed", "reversed"}
  /\ reference[o] = k
  /\ payment[o] \notin {"SUCCEEDED", "FAILED"}
  /\ JobGoto(j, [op |-> "ask", order |-> o, checkout |-> k])
  /\ UNCHANGED <<vars, moneyRows>>

VerifyPayment(j, o) ==
  /\ JobFree(j)
  /\ payment[o] \notin {"none", "SUCCEEDED"}
  /\ JobGoto(j, [op |-> "ask", order |-> o, checkout |-> reference[o]])
  /\ UNCHANGED <<vars, moneyRows>>

AskProvider(j) ==
  /\ job[j].op = "ask"
  /\ \E v \in verify(job[j].order, job[j].checkout) :
       JobGoto(j, [op |-> "reconcile", order |-> job[j].order, verdict |-> v])
  /\ UNCHANGED <<vars, moneyRows>>

(* reconcile(): one transaction, which reads the payment with its order    *)
(* before it locks either row.                                             *)

BeginReconcile(j) ==
  /\ job[j].op = "reconcile"
  /\ JobGoto(j, [op |-> "settle", order |-> job[j].order,
                 verdict |-> job[j].verdict, seen |-> status[job[j].order]])
  /\ UNCHANGED <<vars, moneyRows>>

CreditsAnyOrder(f) == f.verdict = "SUCCEEDED"                  \* mutant
CreditsPendingPayment(f) ==                                    \* mutant
  f.verdict = "SUCCEEDED" /\ f.seen = "PENDING_PAYMENT" /\ payment[f.order] = "PENDING"
Credits(f) == f.verdict = "SUCCEEDED" /\ f.seen = "PENDING_PAYMENT"

Settle(j) ==
  /\ job[j].op = "settle"
  /\ LET o == job[j].order
         credit == Credits(job[j])
     IN /\ payment' = [payment EXCEPT ![o] = job[j].verdict]
        /\ status' = [status EXCEPT ![o] = IF credit THEN "PAID" ELSE @]
        /\ credits' = [credits EXCEPT ![o] = IF credit THEN @ + 1 ELSE @]
  /\ JobReturn(j)
  /\ UNCHANGED <<orderDesk, psp, reference, pushed, refundRows>>

(* refund(): four writes, the PSP's first, with nothing around them.       *)

RecordFirst(j, o) ==                                           \* mutant
  /\ JobFree(j)
  /\ payment[o] = "SUCCEEDED"
  /\ JobGoto(j, [op |-> "recordRefund", order |-> o])
  /\ UNCHANGED <<vars, moneyRows>>

BeginRefund(j, o) ==
  /\ JobFree(j)
  /\ payment[o] = "SUCCEEDED"
  /\ pushed[o] < MaxRefunds
  /\ JobGoto(j, [op |-> "push", order |-> o, checkout |-> reference[o]])
  /\ UNCHANGED <<vars, moneyRows>>

\* A partial refund leaves the charge paid at the PSP.
PushRefund(j) ==
  /\ job[j].op = "push"
  /\ LET o == job[j].order
         k == job[j].checkout
     IN \/ /\ psp[o][k] = "paid"
           /\ pushed[o] < MaxRefunds
           /\ \E left \in Captured : psp' = [psp EXCEPT ![o][k] = left]
           /\ pushed' = [pushed EXCEPT ![o] = @ + 1]
           /\ JobGoto(j, [op |-> "recordRefund", order |-> o])
        \/ /\ JobReturn(j)
           /\ UNCHANGED <<psp, pushed>>
  /\ UNCHANGED <<vars, reference, credits, refundRows>>

RecordRefund(j) ==
  /\ job[j].op = "recordRefund"
  /\ refundRows' = [refundRows EXCEPT ![job[j].order] = @ + 1]
  /\ JobGoto(j, [op |-> "refundPayment", order |-> job[j].order])
  /\ UNCHANGED <<vars, psp, reference, credits, pushed>>

RefundPayment(j) ==
  /\ job[j].op = "refundPayment"
  /\ payment' = [payment EXCEPT ![job[j].order] = "REFUNDED"]
  /\ JobGoto(j, [op |-> "refundOrder", order |-> job[j].order])
  /\ UNCHANGED <<orderDesk, status, moneyRows>>

RefundOrder(j) ==
  /\ job[j].op = "refundOrder"
  /\ status' = [status EXCEPT ![job[j].order] = "REFUNDED"]
  /\ JobReturn(j)
  /\ UNCHANGED <<orderDesk, payment, moneyRows>>

\* The process dies, or an await throws.
CrashJob(j) ==
  /\ ~JobFree(j)
  /\ JobReturn(j)
  /\ UNCHANGED <<vars, moneyRows>>

-----------------------------------------------------------------------------
JobStep(j) ==
  \/ \E o \in OrderIds, k \in Checkouts : BeginInitialize(j, o, k) \/ HandleWebhook(j, o, k)
  \/ \E o \in OrderIds : VerifyPayment(j, o) \/ BeginRefund(j, o)
  \/ SaveCheckout(j)
  \/ AskProvider(j)
  \/ BeginReconcile(j)
  \/ Settle(j)
  \/ PushRefund(j)
  \/ RecordRefund(j)
  \/ RefundPayment(j)
  \/ RefundOrder(j)
  \/ CrashJob(j)

MoneyNext ==
  \/ Next /\ UNCHANGED <<moneyRows, job>>
  \/ \E o \in OrderIds, k \in Checkouts : Charge(o, k)
  \/ \E j \in Jobs : JobStep(j)

MoneySpec == MoneyInit /\ [][MoneyNext]_allVars

-----------------------------------------------------------------------------
(* Properties.                                                             *)

\* Rows and frames have the types the handlers write.
MoneyTypeOK ==
  /\ TypeOK
  /\ psp \in [OrderIds -> [Checkouts -> {"absent", "open", "paid", "failed", "reversed"}]]
  /\ reference \in [OrderIds -> Checkouts \cup {0}]
  /\ credits \in [OrderIds -> Nat]
  /\ pushed \in [OrderIds -> Nat]
  /\ refundRows \in [OrderIds -> Nat]
  /\ job \in [Jobs -> JobFrame \cup {Idle}]

\* No order waits for money the books already show: whatever webhooks, verifications,
\* merchant moves and crashes overlap, the order of a SUCCEEDED or REFUNDED payment has
\* left PENDING_PAYMENT (reconcile()).
RecordedMoneyReleasesOrder ==
  \A o \in OrderIds :
    payment[o] \in {"SUCCEEDED", "REFUNDED"} => status[o] # "PENDING_PAYMENT"

\* The customer is credited, the commission charged and the payment shown as received
\* only for money the PSP captured (reconcile()).
BooksFollowProvider ==
  \A o \in OrderIds :
    credits[o] > 0 \/ payment[o] \in {"SUCCEEDED", "REFUNDED"}
      => \E k \in Checkouts : psp[o][k] \in Captured

\* No refund is recorded that the PSP did not accept (refund()).
RefundRowsAccepted == \A o \in OrderIds : refundRows[o] <= pushed[o]

\* "Duplicate events are idempotent": one order credits the customer and is charged
\* commission once.
CreditedOnce == \A o \in OrderIds : credits[o] <= 1

\* "Paid money never disappears through the bare endpoint: cancelling after payment
\* requires the cancellations sub-resource."
PaidLeavesByCancellationOnly ==
  [][\A o \in OrderIds :
       status[o] \in {"PAID", "PROCESSING", "SHIPPED"} /\ status'[o] = "CANCELLED"
         => cancellation[o] # "none"]_allVars
=============================================================================
