--------------------------- MODULE PaymentsProofs ---------------------------
(* Proofs about payments, for every shop and every number of calls, jobs,   *)
(* checkouts and refunds.                                                   *)
EXTENDS Payments, OrdersProofs, FiniteSetTheorems

JobOps == {"save", "ask", "push", "reconcile", "settle", "recordRefund",
           "refundPayment", "refundOrder"}

LEMMA JobShape ==
  ASSUME MoneyTypeOK, NEW j \in Jobs, job[j].op \in JobOps
  PROVE  /\ job[j] \in JobFrame
         /\ job[j].order \in OrderIds
         /\ job[j].op \in {"save", "ask", "push"} => job[j].checkout \in Checkouts
         /\ job[j].op \in {"reconcile", "settle"} => job[j].verdict \in Verdicts
         /\ job[j].op = "settle" => job[j].seen \in Statuses
  BY DEF MoneyTypeOK, JobFrame, JobOps, Idle

LEMMA verifyType ==
  ASSUME NEW o \in OrderIds, NEW k \in Checkouts
  PROVE  verify(o, k) \subseteq Verdicts
  BY DEF verify, Verdicts

\* Only the payment and the status of the order move.
LEMMA RowsTyped ==
  ASSUME TypeOK, UNCHANGED orderDesk,
         payment' \in [OrderIds -> PaymentStatuses \cup {"none"}],
         status' \in [OrderIds -> Statuses \cup {"none"}]
  PROVE  TypeOK'
  BY DEF TypeOK, orderDesk

LEMMA Untouched ==
  ASSUME TypeOK, UNCHANGED vars
  PROVE  TypeOK'
  BY TypeStep

\* What the payment handlers may do to the status of an order whose row exists is decided
\* by what their frame read; the invariant of frames needs an existing order throughout.
Known(o)  == status[o] \in Statuses
Beyond(o) == status[o] \in Statuses \ {"PENDING_PAYMENT"}

ReleaseInv ==
  /\ \A c \in Calls : call[c].op = "commit" => call[c].to # "PENDING_PAYMENT"
  /\ \A o \in OrderIds : reference[o] # 0 => Known(o)
  /\ \A o \in OrderIds : payment[o] # "none" => reference[o] # 0
  /\ \A o \in OrderIds : payment[o] \in {"SUCCEEDED", "REFUNDED"} => Beyond(o)
  /\ \A j \in Jobs, o \in OrderIds : job[j].op # "idle" /\ job[j].order = o =>
       /\ Known(o)
       /\ job[j].op # "save" => reference[o] # 0
       /\ job[j].op \in {"push", "recordRefund", "refundPayment"} => Beyond(o)
       /\ job[j].op = "settle" /\ job[j].seen # "PENDING_PAYMENT" => Beyond(o)

MInv == MoneyTypeOK /\ ReleaseInv

LEMMA MoneyTypeStep ==
  ASSUME MoneyTypeOK, ReleaseInv, [MoneyNext]_allVars
  PROVE  MoneyTypeOK'
<1> USE DEF moneyRows
<1>1. CASE Next /\ UNCHANGED <<moneyRows, job>>
  BY <1>1, TypeStep DEF MoneyTypeOK
<1>2. ASSUME NEW o \in OrderIds, NEW k \in Checkouts, Charge(o, k)
      PROVE  MoneyTypeOK'
  <2>1. TypeOK'
    BY <1>2, Untouched DEF Charge, MoneyTypeOK
  <2>2. QED
    BY <1>2, <2>1 DEF Charge, MoneyTypeOK
<1>3. ASSUME NEW j \in Jobs, JobStep(j)
      PROVE  MoneyTypeOK'
  <2>0. /\ TypeOK
        /\ job \in [Jobs -> JobFrame \cup {Idle}]
    BY DEF MoneyTypeOK
  <2>1. ASSUME NEW o \in OrderIds, NEW k \in Checkouts, BeginInitialize(j, o, k)
        PROVE  MoneyTypeOK'
    <3>1. [op |-> "save", order |-> o, checkout |-> k] \in JobFrame
      BY DEF JobFrame
    <3>2. TypeOK'
      BY <2>0, <2>1, Untouched DEF BeginInitialize
    <3>3. QED
      BY <2>1, <3>1, <3>2 DEF BeginInitialize, JobGoto, MoneyTypeOK
  <2>2. ASSUME NEW o \in OrderIds, NEW k \in Checkouts, HandleWebhook(j, o, k)
        PROVE  MoneyTypeOK'
    <3>1. [op |-> "ask", order |-> o, checkout |-> k] \in JobFrame
      BY DEF JobFrame
    <3>2. TypeOK'
      BY <2>0, <2>2, Untouched DEF HandleWebhook
    <3>3. QED
      BY <2>2, <3>1, <3>2 DEF HandleWebhook, JobGoto, MoneyTypeOK
  <2>3. ASSUME NEW o \in OrderIds, VerifyPayment(j, o)
        PROVE  MoneyTypeOK'
    <3>1. reference[o] \in Checkouts
      BY <2>3 DEF VerifyPayment, ReleaseInv, MoneyTypeOK, PaymentStatuses
    <3>2. [op |-> "ask", order |-> o, checkout |-> reference[o]] \in JobFrame
      BY <3>1 DEF JobFrame
    <3>3. TypeOK'
      BY <2>0, <2>3, Untouched DEF VerifyPayment
    <3>4. QED
      BY <2>3, <3>2, <3>3 DEF VerifyPayment, JobGoto, MoneyTypeOK
  <2>4. ASSUME NEW o \in OrderIds, BeginRefund(j, o)
        PROVE  MoneyTypeOK'
    <3>1. reference[o] \in Checkouts
      BY <2>4 DEF BeginRefund, ReleaseInv, MoneyTypeOK
    <3>2. [op |-> "push", order |-> o, checkout |-> reference[o]] \in JobFrame
      BY <3>1 DEF JobFrame
    <3>3. TypeOK'
      BY <2>0, <2>4, Untouched DEF BeginRefund
    <3>4. QED
      BY <2>4, <3>2, <3>3 DEF BeginRefund, JobGoto, MoneyTypeOK
  <2>5. CASE SaveCheckout(j)
    <3>1. job[j].order \in OrderIds /\ job[j].checkout \in Checkouts
      BY <2>5, JobShape DEF SaveCheckout, JobOps
    <3>2. TypeOK'
      BY <2>0, <2>5, <3>1, RowsTyped DEF SaveCheckout, TypeOK, PaymentStatuses
    <3>3. QED
      BY <2>5, <3>1, <3>2 DEF SaveCheckout, JobReturn, JobGoto, MoneyTypeOK
  <2>6. CASE AskProvider(j)
    <3>1. job[j].order \in OrderIds /\ job[j].checkout \in Checkouts
      BY <2>6, JobShape DEF AskProvider, JobOps
    <3>2. \A v \in verify(job[j].order, job[j].checkout) :
            [op |-> "reconcile", order |-> job[j].order, verdict |-> v] \in JobFrame
      BY <3>1, verifyType DEF JobFrame
    <3>3. TypeOK'
      BY <2>0, <2>6, Untouched DEF AskProvider
    <3>4. QED
      BY <2>6, <3>2, <3>3 DEF AskProvider, JobGoto, MoneyTypeOK
  <2>7. CASE BeginReconcile(j)
    <3>1. /\ job[j].order \in OrderIds
          /\ job[j].verdict \in Verdicts
          /\ status[job[j].order] \in Statuses
      BY <2>7, JobShape DEF BeginReconcile, JobOps, ReleaseInv, Known
    <3>2. [op |-> "settle", order |-> job[j].order, verdict |-> job[j].verdict,
           seen |-> status[job[j].order]] \in JobFrame
      BY <3>1 DEF JobFrame
    <3>3. TypeOK'
      BY <2>0, <2>7, Untouched DEF BeginReconcile
    <3>4. QED
      BY <2>7, <3>2, <3>3 DEF BeginReconcile, JobGoto, MoneyTypeOK
  <2>8. CASE Settle(j)
    <3>1. job[j].order \in OrderIds /\ job[j].verdict \in Verdicts
      BY <2>8, JobShape DEF Settle, JobOps
    <3>2. payment' \in [OrderIds -> PaymentStatuses \cup {"none"}]
      BY <2>0, <2>8, <3>1 DEF Settle, TypeOK, Verdicts, PaymentStatuses
    <3>3. status' \in [OrderIds -> Statuses \cup {"none"}]
      BY <2>0, <2>8, <3>1 DEF Settle, TypeOK, Statuses
    <3>4. TypeOK'
      BY <2>0, <2>8, <3>2, <3>3, RowsTyped DEF Settle
    <3>5. credits' \in [OrderIds -> Nat]
      BY <2>8, <3>1 DEF Settle, MoneyTypeOK
    <3>6. QED
      BY <2>8, <3>4, <3>5 DEF Settle, JobReturn, JobGoto, MoneyTypeOK
  <2>9. CASE PushRefund(j)
    <3>1. job[j].order \in OrderIds /\ job[j].checkout \in Checkouts
      BY <2>9, JobShape DEF PushRefund, JobOps
    <3>2. [op |-> "recordRefund", order |-> job[j].order] \in JobFrame
      BY <3>1 DEF JobFrame
    <3>3. TypeOK'
      BY <2>0, <2>9, Untouched DEF PushRefund
    <3>4. job' \in [Jobs -> JobFrame \cup {Idle}]
      BY <2>0, <2>9, <3>2 DEF PushRefund, JobReturn, JobGoto
    <3>5. pushed' \in [OrderIds -> Nat]
      BY <2>9, <3>1 DEF PushRefund, MoneyTypeOK
    <3>6. psp' \in [OrderIds -> [Checkouts -> {"absent", "open", "paid", "failed", "reversed"}]]
      <4> DEFINE PspStates == {"absent", "open", "paid", "failed", "reversed"}
      <4>1. psp \in [OrderIds -> [Checkouts -> PspStates]]
        BY DEF MoneyTypeOK
      <4>2. \/ UNCHANGED psp
            \/ \E left \in PspStates :
                 psp' = [psp EXCEPT ![job[j].order][job[j].checkout] = left]
        BY <2>9 DEF PushRefund, Captured
      <4>3. ASSUME NEW left \in PspStates,
                   psp' = [psp EXCEPT ![job[j].order][job[j].checkout] = left]
            PROVE  psp' \in [OrderIds -> [Checkouts -> PspStates]]
        <5>1. [psp[job[j].order] EXCEPT ![job[j].checkout] = left] \in [Checkouts -> PspStates]
          BY <3>1, <4>1
        <5> HIDE DEF PspStates
        <5>2. QED
          BY <3>1, <4>1, <4>3, <5>1
      <4>4. QED
        BY <4>1, <4>2, <4>3
    <3>7. QED
      BY <2>9, <3>3, <3>4, <3>5, <3>6 DEF PushRefund, MoneyTypeOK
  <2>10. CASE RecordRefund(j)
    <3>1. job[j].order \in OrderIds
      BY <2>10, JobShape DEF RecordRefund, JobOps
    <3>2. [op |-> "refundPayment", order |-> job[j].order] \in JobFrame
      BY <3>1 DEF JobFrame
    <3>3. TypeOK'
      BY <2>0, <2>10, Untouched DEF RecordRefund
    <3>4. QED
      BY <2>10, <3>1, <3>2, <3>3 DEF RecordRefund, JobGoto, MoneyTypeOK
  <2>11. CASE RefundPayment(j)
    <3>1. job[j].order \in OrderIds
      BY <2>11, JobShape DEF RefundPayment, JobOps
    <3>2. [op |-> "refundOrder", order |-> job[j].order] \in JobFrame
      BY <3>1 DEF JobFrame
    <3>3. TypeOK'
      BY <2>0, <2>11, RowsTyped DEF RefundPayment, TypeOK, PaymentStatuses
    <3>4. QED
      BY <2>11, <3>2, <3>3 DEF RefundPayment, JobGoto, MoneyTypeOK
  <2>12. CASE RefundOrder(j)
    <3>1. TypeOK'
      BY <2>0, <2>12, RowsTyped DEF RefundOrder, TypeOK, Statuses
    <3>2. QED
      BY <2>12, <3>1 DEF RefundOrder, JobReturn, JobGoto, MoneyTypeOK
  <2>13. CASE CrashJob(j)
    <3>1. TypeOK'
      BY <2>0, <2>13, Untouched DEF CrashJob
    <3>2. QED
      BY <2>13, <3>1 DEF CrashJob, JobReturn, JobGoto, MoneyTypeOK
  <2>14. QED
    BY <1>3, <2>1, <2>2, <2>3, <2>4, <2>5, <2>6, <2>7, <2>8, <2>9, <2>10, <2>11, <2>12, <2>13
       DEF JobStep
<1>4. CASE UNCHANGED allVars
  BY <1>4, Untouched DEF allVars, MoneyTypeOK
<1>5. QED
  BY <1>1, <1>2, <1>3, <1>4 DEF MoneyNext

-----------------------------------------------------------------------------
(* Recorded money releases the order.                                      *)

\* An order stays an order, and nothing takes one back to PENDING_PAYMENT.
LEMMA BeyondForGood ==
  ASSUME MoneyTypeOK, ReleaseInv, [MoneyNext]_allVars, NEW o \in OrderIds
  PROVE  /\ Known(o) => Known(o)'
         /\ Beyond(o) => Beyond(o)'
<1>0. status \in [OrderIds -> Statuses \cup {"none"}]
  BY DEF MoneyTypeOK, TypeOK
<1>1. ASSUME UNCHANGED status
      PROVE  (Known(o) => Known(o)') /\ (Beyond(o) => Beyond(o)')
  BY <1>1 DEF Known, Beyond
<1>2. ASSUME NEW x \in OrderIds, NEW s \in Statuses \ {"PENDING_PAYMENT"},
             status' = [status EXCEPT ![x] = s]
      PROVE  (Known(o) => Known(o)') /\ (Beyond(o) => Beyond(o)')
  BY <1>0, <1>2 DEF Known, Beyond
<1>3. ASSUME Next
      PROVE  (Known(o) => Known(o)') /\ (Beyond(o) => Beyond(o)')
  <2>1. ASSUME NEW x \in OrderIds, NEW cart \in Carts, Create(x, cart)
        PROVE  (Known(o) => Known(o)') /\ (Beyond(o) => Beyond(o)')
    BY <1>0, <2>1 DEF Create, Known, Beyond, Statuses
  <2>2. ASSUME NEW c \in Calls, CallStep(c)
        PROVE  (Known(o) => Known(o)') /\ (Beyond(o) => Beyond(o)')
    <3>1. CASE CommitTransition(c)
      <4>1. /\ call[c].order \in OrderIds
            /\ call[c].to \in Statuses \ {"PENDING_PAYMENT"}
        BY <3>1, FrameShape, BusyIsNotIdle DEF CommitTransition, ReleaseInv, MoneyTypeOK
      <4>2. QED
        BY <1>2, <3>1, <4>1 DEF CommitTransition
    <3>2. CASE MarkCancelled(c)
      <4>1. call[c].order \in OrderIds
        BY <3>2, FrameShape, BusyIsNotIdle DEF MarkCancelled, MoneyTypeOK
      <4>2. QED
        BY <1>2, <3>2, <4>1 DEF MarkCancelled, Statuses
    <3>3. QED
      BY <1>1, <2>2, <3>1, <3>2
         DEF CallStep, BeginTransition, BeginCancel, BeginCancellation, BeginProcess,
             restoreStock, FileCancellation, LogCancelled, ShelveLine, FlagRestocked,
             CrashCall
  <2>3. QED
    BY <1>1, <1>3, <2>1, <2>2 DEF Next, RemoveCancellation
<1>4. ASSUME NEW j \in Jobs, JobStep(j)
      PROVE  (Known(o) => Known(o)') /\ (Beyond(o) => Beyond(o)')
  <2>1. CASE Settle(j)
    <3>1. job[j].order \in OrderIds
      BY <2>1, JobShape DEF Settle, JobOps
    <3>2. \/ status' = [status EXCEPT ![job[j].order] = "PAID"]
          \/ status' = [status EXCEPT ![job[j].order] = @]
      BY <2>1 DEF Settle
    <3>3. QED
      BY <1>0, <1>1, <1>2, <3>1, <3>2 DEF Statuses
  <2>2. CASE RefundOrder(j)
    <3>1. job[j].order \in OrderIds
      BY <2>2, JobShape DEF RefundOrder, JobOps
    <3>2. QED
      BY <1>2, <2>2, <3>1 DEF RefundOrder, Statuses
  <2>3. QED
    BY <1>1, <1>4, <2>1, <2>2
       DEF JobStep, BeginInitialize, HandleWebhook, VerifyPayment, BeginRefund,
           SaveCheckout, AskProvider, BeginReconcile, PushRefund, RecordRefund,
           RefundPayment, CrashJob, vars, orderDesk
<1>5. QED
  BY <1>1, <1>3, <1>4 DEF MoneyNext, Charge, allVars, vars

\* Orders' own calls never ask for PENDING_PAYMENT.
LEMMA NoWayBack ==
  ASSUME MoneyTypeOK, ReleaseInv, [Next]_vars
  PROVE  \A c \in Calls : call'[c].op = "commit" => call'[c].to # "PENDING_PAYMENT"
<1>0. call \in [Calls -> Frame \cup {Idle}]
  BY DEF MoneyTypeOK, TypeOK
<1>1. ASSUME UNCHANGED call
      PROVE  \A c \in Calls : call'[c].op = "commit" => call'[c].to # "PENDING_PAYMENT"
  BY <1>1 DEF ReleaseInv
<1>2. ASSUME NEW c \in Calls, NEW f, call' = [call EXCEPT ![c] = f],
             f.op = "commit" => f.to # "PENDING_PAYMENT"
      PROVE  \A d \in Calls : call'[d].op = "commit" => call'[d].to # "PENDING_PAYMENT"
  BY <1>0, <1>2 DEF ReleaseInv
<1>3. ASSUME NEW o \in OrderIds, RemoveCancellation(o)
      PROVE  \A c \in Calls : call'[c].op = "commit" => call'[c].to # "PENDING_PAYMENT"
  BY <1>3 DEF RemoveCancellation, ReleaseInv
<1>4. ASSUME NEW c \in Calls, CallStep(c)
      PROVE  \A d \in Calls : call'[d].op = "commit" => call'[d].to # "PENDING_PAYMENT"
  <2>1. ASSUME NEW o \in OrderIds, NEW to \in transitionStatuses, BeginTransition(c, o, to)
        PROVE  \A d \in Calls : call'[d].op = "commit" => call'[d].to # "PENDING_PAYMENT"
    BY <1>2, <2>1 DEF BeginTransition, transitionStatuses, Goto
  <2>2. ASSUME NEW o \in OrderIds, BeginCancel(c, o)
        PROVE  \A d \in Calls : call'[d].op = "commit" => call'[d].to # "PENDING_PAYMENT"
    <3>1. CASE call' = [call EXCEPT ![c] = [op |-> "restock", order |-> o]]
      BY <1>2, <3>1
    <3>2. CASE call' = [call EXCEPT ![c] = [op |-> "commit", order |-> o,
                                            seen |-> status[o], to |-> "CANCELLED"]]
      BY <1>2, <3>2
    <3>3. QED
      BY <2>2, <3>1, <3>2 DEF BeginCancel, Goto
  <2>3. ASSUME NEW o \in OrderIds, BeginCancellation(c, o) \/ BeginProcess(c, o)
        PROVE  \A d \in Calls : call'[d].op = "commit" => call'[d].to # "PENDING_PAYMENT"
    BY <1>2, <2>3 DEF BeginCancellation, BeginProcess, Goto
  <2>4. CASE CommitTransition(c)
    <3>1. CASE call' = [call EXCEPT ![c] = [op |-> "restock", order |-> call[c].order]]
      BY <1>2, <3>1
    <3>2. CASE call' = [call EXCEPT ![c] = Idle]
      BY <1>2, <3>2 DEF Idle
    <3>3. QED
      BY <2>4, <3>1, <3>2 DEF CommitTransition, AfterCommit, Goto
  <2>5. CASE FileCancellation(c) \/ MarkCancelled(c)
    BY <1>2, <2>5 DEF FileCancellation, MarkCancelled, Return, Goto, Idle
  <2>6. CASE \/ restoreStock(c) \/ LogCancelled(c) \/ FlagRestocked(c) \/ CrashCall(c)
    BY <1>2, <2>6 DEF restoreStock, LogCancelled, FlagRestocked, CrashCall, Return, Goto, Idle
  <2>7. ASSUME NEW p \in Products, ShelveLine(c, p)
        PROVE  \A d \in Calls : call'[d].op = "commit" => call'[d].to # "PENDING_PAYMENT"
    BY <1>2, <2>7 DEF ShelveLine, Goto
  <2>8. QED
    BY <1>4, <2>1, <2>2, <2>3, <2>4, <2>5, <2>6, <2>7 DEF CallStep
<1>5. QED
  BY <1>1, <1>3, <1>4 DEF Next, Create, vars

\* A payment handler that moves on keeps the invariant when its new frame may do what it
\* is for, and the row it writes is that of an order ready for it.
LEMMA JobMove ==
  ASSUME MoneyTypeOK, ReleaseInv, [MoneyNext]_allVars, NEW j \in Jobs,
         \A i \in Jobs : i # j => job'[i] = job[i],
         \A o \in OrderIds : job'[j].op # "idle" /\ job'[j].order = o =>
           /\ Known(o)'
           /\ job'[j].op # "save" => reference'[o] # 0
           /\ job'[j].op \in {"push", "recordRefund", "refundPayment"} => Beyond(o)'
           /\ job'[j].op = "settle" /\ job'[j].seen # "PENDING_PAYMENT" => Beyond(o)',
         UNCHANGED call,
         \A o \in OrderIds :
           /\ reference'[o] = reference[o] \/ (reference'[o] # 0 /\ Known(o)')
           /\ \/ payment'[o] = payment[o] /\ reference'[o] = reference[o]
              \/ /\ reference'[o] # 0
                 /\ payment'[o] \in {"SUCCEEDED", "REFUNDED"} => Beyond(o)'
  PROVE  ReleaseInv'
<1>1. ASSUME NEW i \in Jobs, NEW o \in OrderIds, job'[i].op # "idle", job'[i].order = o
      PROVE  /\ Known(o)'
             /\ job'[i].op # "save" => reference'[o] # 0
             /\ job'[i].op \in {"push", "recordRefund", "refundPayment"} => Beyond(o)'
             /\ job'[i].op = "settle" /\ job'[i].seen # "PENDING_PAYMENT" => Beyond(o)'
  <2>1. CASE i = j
    BY <1>1, <2>1
  <2>2. CASE i # j
    BY <1>1, <2>2, BeyondForGood DEF ReleaseInv
  <2>3. QED
    BY <2>1, <2>2
<1>2. \A o \in OrderIds : reference'[o] # 0 => Known(o)'
  BY BeyondForGood DEF ReleaseInv
<1>3. \A o \in OrderIds : payment'[o] # "none" => reference'[o] # 0
  BY DEF ReleaseInv
<1>4. \A o \in OrderIds : payment'[o] \in {"SUCCEEDED", "REFUNDED"} => Beyond(o)'
  BY BeyondForGood DEF ReleaseInv
<1>5. QED
  BY <1>1, <1>2, <1>3, <1>4 DEF ReleaseInv

LEMMA ReleaseStep ==
  ASSUME MoneyTypeOK, ReleaseInv, [MoneyNext]_allVars
  PROVE  ReleaseInv'
<1>0. job \in [Jobs -> JobFrame \cup {Idle}] /\ reference \in [OrderIds -> Checkouts \cup {0}]
      /\ payment \in [OrderIds -> PaymentStatuses \cup {"none"}]
  BY DEF MoneyTypeOK, TypeOK
<1>1. ASSUME [Next]_vars, UNCHANGED <<reference, payment, job>>
      PROVE  ReleaseInv'
  BY <1>1, NoWayBack, BeyondForGood DEF ReleaseInv
<1>2. ASSUME NEW c \in Calls, CallStep(c)
      PROVE  UNCHANGED payment
  BY <1>2 DEF CallStep, BeginTransition, BeginCancel, BeginCancellation, BeginProcess,
             CommitTransition, restoreStock, FileCancellation, MarkCancelled, LogCancelled,
             ShelveLine, FlagRestocked, CrashCall
<1>3. CASE Next /\ UNCHANGED <<moneyRows, job>>
  <2>1. UNCHANGED payment
    BY <1>2, <1>3 DEF Next, Create, RemoveCancellation
  <2>2. QED
    BY <1>1, <1>3, <2>1 DEF moneyRows
<1>4. ASSUME NEW j \in Jobs, JobStep(j)
      PROVE  ReleaseInv'
  <2> DEFINE Rows == UNCHANGED <<call, reference, payment>>
  <2>1. ASSUME NEW o \in OrderIds, NEW k \in Checkouts, BeginInitialize(j, o, k)
        PROVE  ReleaseInv'
    <3>1. /\ Rows /\ Known(o)'
          /\ job' = [job EXCEPT ![j] = [op |-> "save", order |-> o, checkout |-> k]]
      BY <2>1 DEF BeginInitialize, JobGoto, Exists, Known, vars
    <3>2. QED
      BY <1>0, <3>1, JobMove
  <2>2. ASSUME NEW o \in OrderIds, NEW k \in Checkouts, HandleWebhook(j, o, k)
        PROVE  ReleaseInv'
    <3>1. /\ Rows /\ reference[o] # 0
          /\ job' = [job EXCEPT ![j] = [op |-> "ask", order |-> o, checkout |-> k]]
      BY <2>2 DEF HandleWebhook, JobGoto, vars, moneyRows, Checkouts
    <3>2. Known(o)'
      BY <3>1, BeyondForGood DEF ReleaseInv
    <3>3. QED
      BY <1>0, <3>1, <3>2, JobMove
  <2>3. ASSUME NEW o \in OrderIds, VerifyPayment(j, o)
        PROVE  ReleaseInv'
    <3>1. /\ Rows /\ payment[o] # "none"
          /\ job' = [job EXCEPT ![j] = [op |-> "ask", order |-> o, checkout |-> reference[o]]]
      BY <2>3 DEF VerifyPayment, JobGoto, vars, moneyRows
    <3>2. Known(o)' /\ reference[o] # 0
      BY <3>1, BeyondForGood DEF ReleaseInv
    <3>3. QED
      BY <1>0, <3>1, <3>2, JobMove
  <2>4. ASSUME NEW o \in OrderIds, BeginRefund(j, o)
        PROVE  ReleaseInv'
    <3>1. /\ Rows /\ payment[o] = "SUCCEEDED"
          /\ job' = [job EXCEPT ![j] = [op |-> "push", order |-> o, checkout |-> reference[o]]]
      BY <2>4 DEF BeginRefund, JobGoto, vars, moneyRows
    <3>2. Beyond(o)' /\ Known(o)' /\ reference[o] # 0
      BY <3>1, BeyondForGood DEF ReleaseInv, Known, Beyond
    <3>3. QED
      BY <1>0, <3>1, <3>2, JobMove
  <2>5. CASE SaveCheckout(j)
    <3> DEFINE o == job[j].order
    <3>1. /\ o \in OrderIds /\ job[j].checkout # 0
          /\ reference' = [reference EXCEPT ![o] = job[j].checkout]
          /\ payment' = [payment EXCEPT ![o] = "INITIALIZED"]
          /\ job' = [job EXCEPT ![j] = Idle]
          /\ UNCHANGED call
      BY <2>5, JobShape DEF SaveCheckout, JobReturn, JobGoto, JobOps, orderDesk, Checkouts
    <3>2. \A x \in OrderIds : x = o => Known(x)'
      BY <2>5, BeyondForGood DEF SaveCheckout, ReleaseInv
    <3>3. QED
      BY <1>0, <3>1, <3>2, JobMove DEF Idle
  <2>6. CASE AskProvider(j)
    <3> DEFINE o == job[j].order
    <3>1. PICK v \in verify(o, job[j].checkout) :
            job' = [job EXCEPT ![j] = [op |-> "reconcile", order |-> o, verdict |-> v]]
      BY <2>6 DEF AskProvider, JobGoto
    <3>2. \A x \in OrderIds : x = o => Known(x)' /\ reference[x] # 0
      BY <2>6, BeyondForGood DEF AskProvider, ReleaseInv
    <3>3. Rows
      BY <2>6 DEF AskProvider, vars, moneyRows
    <3>4. QED
      BY <1>0, <3>1, <3>2, <3>3, JobMove
  <2>7. CASE BeginReconcile(j)
    <3> DEFINE o == job[j].order
    <3>1. /\ job' = [job EXCEPT ![j] = [op |-> "settle", order |-> o, verdict |-> job[j].verdict,
                                        seen |-> status[o]]]
          /\ Rows /\ UNCHANGED status
      BY <2>7 DEF BeginReconcile, JobGoto, vars, moneyRows
    <3>2. \A x \in OrderIds : x = o =>
            Known(x)' /\ reference[x] # 0 /\ (status[o] # "PENDING_PAYMENT" => Beyond(x)')
      BY <2>7, <3>1 DEF BeginReconcile, ReleaseInv, Known, Beyond
    <3>3. QED
      BY <1>0, <3>1, <3>2, JobMove
  <2>8. CASE Settle(j)
    <3> DEFINE o == job[j].order
    <3>1. /\ o \in OrderIds
          /\ payment' = [payment EXCEPT ![o] = job[j].verdict]
          /\ status' = [status EXCEPT ![o] = IF Credits(job[j]) THEN "PAID" ELSE @]
          /\ job' = [job EXCEPT ![j] = Idle]
          /\ UNCHANGED <<call, reference>>
          /\ job[j].op = "settle"
      BY <2>8, JobShape DEF Settle, JobReturn, JobGoto, JobOps, orderDesk
    <3>2. job[j].verdict \in Verdicts
      BY <3>1, JobShape DEF JobOps
    <3>3. job[j].verdict \in {"SUCCEEDED", "REFUNDED"} => \A x \in OrderIds : x = o => Beyond(x)'
      <4>1. CASE Credits(job[j])
        BY <3>1, <4>1 DEF Beyond, Statuses, MoneyTypeOK, TypeOK
      <4>2. CASE ~Credits(job[j])
        BY <3>1, <3>2, <4>2, BeyondForGood DEF Credits, ReleaseInv, Verdicts
      <4>3. QED
        BY <4>1, <4>2
    <3>4. QED
      <4>1. reference[o] # 0
        BY <3>1 DEF ReleaseInv
      <4>2. QED
        BY <1>0, <3>1, <3>3, <4>1, JobMove DEF Idle
  <2>9. CASE PushRefund(j)
    <3> DEFINE o == job[j].order
    <3>1. /\ job[j].op = "push"
          /\ Rows
          /\ \/ job' = [job EXCEPT ![j] = [op |-> "recordRefund", order |-> o]]
             \/ job' = [job EXCEPT ![j] = Idle]
      BY <2>9 DEF PushRefund, JobReturn, JobGoto, vars
    <3>2. \A x \in OrderIds : x = o => Known(x)' /\ Beyond(x)' /\ reference[x] # 0
      BY <3>1, BeyondForGood DEF ReleaseInv
    <3>3. QED
      BY <1>0, <3>1, <3>2, JobMove DEF Idle
  <2>10. CASE RecordRefund(j)
    <3> DEFINE o == job[j].order
    <3>1. /\ job[j].op = "recordRefund"
          /\ Rows
          /\ job' = [job EXCEPT ![j] = [op |-> "refundPayment", order |-> o]]
      BY <2>10 DEF RecordRefund, JobGoto, vars
    <3>2. \A x \in OrderIds : x = o => Known(x)' /\ Beyond(x)' /\ reference[x] # 0
      BY <3>1, BeyondForGood DEF ReleaseInv
    <3>3. QED
      BY <1>0, <3>1, <3>2, JobMove
  <2>11. CASE RefundPayment(j)
    <3> DEFINE o == job[j].order
    <3>1. /\ job[j].op = "refundPayment" /\ o \in OrderIds
          /\ payment' = [payment EXCEPT ![o] = "REFUNDED"]
          /\ job' = [job EXCEPT ![j] = [op |-> "refundOrder", order |-> o]]
          /\ UNCHANGED <<call, reference>>
      BY <2>11, JobShape DEF RefundPayment, JobGoto, JobOps, orderDesk, moneyRows
    <3>2. \A x \in OrderIds : x = o => Known(x)' /\ Beyond(x)' /\ reference[x] # 0
      BY <3>1, BeyondForGood DEF ReleaseInv
    <3>3. QED
      <4>1. reference[o] # 0
        BY <3>1 DEF ReleaseInv
      <4>2. QED
        BY <1>0, <3>1, <3>2, <4>1, JobMove
  <2>12. CASE RefundOrder(j) \/ CrashJob(j)
    <3>1. Rows /\ job' = [job EXCEPT ![j] = Idle]
      BY <2>12 DEF RefundOrder, CrashJob, JobReturn, JobGoto, orderDesk, moneyRows, vars
    <3>2. QED
      BY <1>0, <3>1, JobMove DEF Idle
  <2>13. QED
    BY <1>4, <2>1, <2>2, <2>3, <2>4, <2>5, <2>6, <2>7, <2>8, <2>9, <2>10, <2>11, <2>12
       DEF JobStep
<1>5. CASE UNCHANGED allVars
  BY <1>1, <1>5 DEF allVars, vars
<1>6. ASSUME NEW o \in OrderIds, NEW k \in Checkouts, Charge(o, k)
      PROVE  ReleaseInv'
  BY <1>1, <1>6 DEF Charge, vars
<1>7. QED
  BY <1>3, <1>4, <1>5, <1>6 DEF MoneyNext

LEMMA MoneyInitHolds == MoneyInit => MoneyTypeOK /\ ReleaseInv
<1> SUFFICES ASSUME MoneyInit
             PROVE  MoneyTypeOK /\ ReleaseInv
  OBVIOUS
<1>1. TypeOK
  BY InitType DEF MoneyInit
<1>2. MoneyTypeOK
  BY <1>1 DEF MoneyInit, MoneyTypeOK
<1>3. ReleaseInv
  BY DEF MoneyInit, Init, ReleaseInv, Idle
<1>4. QED
  BY <1>2, <1>3

LEMMA MoneyStep == MoneyTypeOK /\ ReleaseInv /\ [MoneyNext]_allVars => MoneyTypeOK' /\ ReleaseInv'
  BY MoneyTypeStep, ReleaseStep

\* Payment rows, provider states and handler frames stay typed.
THEOREM MoneyTypeCorrect == MoneySpec => []MoneyTypeOK
  BY MoneyInitHolds, MoneyStep, PTL DEF MoneySpec

\* The order of a SUCCEEDED or REFUNDED payment never waits in PENDING_PAYMENT, however
\* webhooks, verifications, refunds, merchant moves and crashes overlap.
THEOREM RecordedMoneyReleased == MoneySpec => []RecordedMoneyReleasesOrder
<1>1. ReleaseInv => RecordedMoneyReleasesOrder
  BY DEF ReleaseInv, Beyond, RecordedMoneyReleasesOrder
<1>2. QED
  BY <1>1, MoneyInitHolds, MoneyStep, PTL DEF MoneySpec

-----------------------------------------------------------------------------
(* The books follow the provider.                                          *)

Paid(o) == \E k \in Checkouts : psp[o][k] \in Captured

BooksInv ==
  /\ BooksFollowProvider
  /\ \A j \in Jobs, o \in OrderIds : job[j].op # "idle" /\ job[j].order = o =>
       /\ job[j].op \in {"reconcile", "settle"} /\ job[j].verdict = "SUCCEEDED" => Paid(o)
       /\ job[j].op \in {"recordRefund", "refundPayment"} => Paid(o)

\* A captured charge can be reversed, never uncaptured.
LEMMA PaidForGood ==
  ASSUME MoneyTypeOK, [MoneyNext]_allVars, NEW o \in OrderIds, Paid(o)
  PROVE  Paid(o)'
<1>0. psp \in [OrderIds -> [Checkouts -> {"absent", "open", "paid", "failed", "reversed"}]]
  BY DEF MoneyTypeOK
<1>1. PICK k \in Checkouts : psp[o][k] \in Captured
  BY DEF Paid
<1>2. ASSUME NEW x \in OrderIds, NEW y \in Checkouts, NEW s,
             psp' = [psp EXCEPT ![x][y] = s],
             psp[x][y] \in Captured => s \in Captured
      PROVE  psp'[o][k] \in Captured
  <2>1. CASE x = o /\ y = k
    BY <1>0, <1>1, <1>2, <2>1
  <2>2. CASE x # o \/ y # k
    BY <1>0, <1>1, <1>2, <2>2
  <2>3. QED
    BY <2>1, <2>2
<1>3. ASSUME UNCHANGED psp
      PROVE  psp'[o][k] \in Captured
  BY <1>1, <1>3
<1>4. ASSUME NEW x \in OrderIds, NEW y \in Checkouts, Charge(x, y)
      PROVE  psp'[o][k] \in Captured
  BY <1>2, <1>4 DEF Charge, Captured
<1>5. ASSUME NEW j \in Jobs, JobStep(j)
      PROVE  psp'[o][k] \in Captured
  <2>1. ASSUME NEW x \in OrderIds, NEW y \in Checkouts, BeginInitialize(j, x, y)
        PROVE  psp'[o][k] \in Captured
    BY <1>2, <2>1 DEF BeginInitialize, Captured
  <2>2. CASE PushRefund(j)
    <3>1. job[j].order \in OrderIds /\ job[j].checkout \in Checkouts
      BY <2>2, JobShape DEF PushRefund, JobOps
    <3>2. \/ UNCHANGED psp
          \/ \E left \in Captured : psp' = [psp EXCEPT ![job[j].order][job[j].checkout] = left]
      BY <2>2 DEF PushRefund
    <3>3. QED
      BY <1>2, <1>3, <3>1, <3>2
  <2>3. QED
    BY <1>3, <1>5, <2>1, <2>2
       DEF JobStep, HandleWebhook, VerifyPayment, BeginRefund, SaveCheckout, AskProvider,
           BeginReconcile, Settle, RecordRefund, RefundPayment, RefundOrder, CrashJob,
           moneyRows
<1>6. psp'[o][k] \in Captured
  BY <1>3, <1>4, <1>5 DEF MoneyNext, moneyRows, allVars
<1>7. QED
  BY <1>6 DEF Paid

\* A payment handler keeps the books when what it writes, and what its new frame will
\* write, is about captured money.
LEMMA BooksMove ==
  ASSUME MoneyTypeOK, BooksInv, [MoneyNext]_allVars, NEW j \in Jobs,
         \A i \in Jobs : i # j => job'[i] = job[i],
         \A o \in OrderIds : job'[j].op # "idle" /\ job'[j].order = o =>
           /\ job'[j].op \in {"reconcile", "settle"} /\ job'[j].verdict = "SUCCEEDED" => Paid(o)'
           /\ job'[j].op \in {"recordRefund", "refundPayment"} => Paid(o)',
         \A o \in OrderIds :
           /\ credits'[o] = credits[o] \/ Paid(o)
           /\ payment'[o] = payment[o] \/ payment'[o] \notin {"SUCCEEDED", "REFUNDED"} \/ Paid(o)
  PROVE  BooksInv'
<1>1. ASSUME NEW o \in OrderIds
      PROVE  credits'[o] > 0 \/ payment'[o] \in {"SUCCEEDED", "REFUNDED"} => Paid(o)'
  BY PaidForGood DEF BooksInv, BooksFollowProvider, Paid
<1>2. ASSUME NEW i \in Jobs, NEW o \in OrderIds, job'[i].op # "idle", job'[i].order = o
      PROVE  /\ job'[i].op \in {"reconcile", "settle"} /\ job'[i].verdict = "SUCCEEDED" => Paid(o)'
             /\ job'[i].op \in {"recordRefund", "refundPayment"} => Paid(o)'
  <2>1. CASE i = j
    BY <1>2, <2>1
  <2>2. CASE i # j
    BY <1>2, <2>2, PaidForGood DEF BooksInv
  <2>3. QED
    BY <2>1, <2>2
<1>3. BooksFollowProvider'
  BY <1>1 DEF BooksFollowProvider, Paid
<1>4. QED
  BY <1>2, <1>3 DEF BooksInv

LEMMA CallsLeavePayments == Next => UNCHANGED payment
<1>1. ASSUME NEW c \in Calls, CallStep(c)
      PROVE  UNCHANGED payment
  BY <1>1 DEF CallStep, BeginTransition, BeginCancel, BeginCancellation, BeginProcess,
             CommitTransition, restoreStock, FileCancellation, MarkCancelled, LogCancelled,
             ShelveLine, FlagRestocked, CrashCall
<1>2. QED
  BY <1>1 DEF Next, Create, RemoveCancellation

LEMMA BooksStep ==
  ASSUME MoneyTypeOK, BooksInv, [MoneyNext]_allVars
  PROVE  BooksInv'
<1>0. job \in [Jobs -> JobFrame \cup {Idle}] /\ credits \in [OrderIds -> Nat]
      /\ payment \in [OrderIds -> PaymentStatuses \cup {"none"}]
  BY DEF MoneyTypeOK, TypeOK
<1>1. ASSUME UNCHANGED <<credits, payment, job>>
      PROVE  BooksInv'
  BY <1>1, PaidForGood DEF BooksInv, BooksFollowProvider, Paid
<1>2. ASSUME NEW j \in Jobs, JobStep(j)
      PROVE  BooksInv'
  <2> DEFINE Rows == UNCHANGED <<credits, payment>>
  <2>1. ASSUME NEW f, job' = [job EXCEPT ![j] = f], Rows,
               f.op \notin {"reconcile", "settle", "recordRefund", "refundPayment"}
        PROVE  BooksInv'
    BY <1>0, <2>1, BooksMove
  <2>2. ASSUME NEW o \in OrderIds, NEW k \in Checkouts,
               BeginInitialize(j, o, k) \/ HandleWebhook(j, o, k)
        PROVE  BooksInv'
    BY <2>1, <2>2 DEF BeginInitialize, HandleWebhook, JobGoto, vars, moneyRows
  <2>3. ASSUME NEW o \in OrderIds, VerifyPayment(j, o) \/ BeginRefund(j, o)
        PROVE  BooksInv'
    BY <2>1, <2>3 DEF VerifyPayment, BeginRefund, JobGoto, vars, moneyRows
  <2>4. CASE RefundOrder(j) \/ CrashJob(j)
    <3>1. job' = [job EXCEPT ![j] = Idle] /\ Rows
      BY <2>4 DEF RefundOrder, CrashJob, JobReturn, JobGoto, orderDesk, moneyRows, vars
    <3>2. QED
      BY <2>1, <3>1 DEF Idle
  <2>5. CASE SaveCheckout(j)
    <3>1. /\ job' = [job EXCEPT ![j] = Idle]
          /\ payment' = [payment EXCEPT ![job[j].order] = "INITIALIZED"]
          /\ UNCHANGED credits
      BY <2>5 DEF SaveCheckout, JobReturn, JobGoto
    <3>2. QED
      BY <1>0, <3>1, BooksMove DEF Idle
  <2>6. CASE AskProvider(j)
    <3> DEFINE o == job[j].order
    <3>1. PICK v \in verify(o, job[j].checkout) :
            job' = [job EXCEPT ![j] = [op |-> "reconcile", order |-> o, verdict |-> v]]
      BY <2>6 DEF AskProvider, JobGoto
    <3>2. job[j].checkout \in Checkouts
      BY <2>6, JobShape DEF AskProvider, JobOps
    <3>3. v = "SUCCEEDED" => psp[o][job[j].checkout] = "paid"
      BY <3>1 DEF verify
    <3>4. v = "SUCCEEDED" => \A x \in OrderIds : x = o => Paid(x)
      BY <3>2, <3>3 DEF Paid, Captured
    <3>5. v = "SUCCEEDED" => \A x \in OrderIds : x = o => Paid(x)'
      BY <3>4, PaidForGood
    <3>6. Rows
      BY <2>6 DEF AskProvider, vars, moneyRows
    <3>7. QED
      BY <1>0, <3>1, <3>5, <3>6, BooksMove
  <2>7. CASE BeginReconcile(j)
    <3> DEFINE o == job[j].order
    <3>1. /\ job' = [job EXCEPT ![j] = [op |-> "settle", order |-> o, verdict |-> job[j].verdict,
                                        seen |-> status[o]]]
          /\ Rows
      BY <2>7 DEF BeginReconcile, JobGoto, vars, moneyRows
    <3>2. job[j].verdict = "SUCCEEDED" => \A x \in OrderIds : x = o => Paid(x)'
      BY <2>7, PaidForGood DEF BeginReconcile, BooksInv
    <3>3. QED
      BY <1>0, <3>1, <3>2, BooksMove
  <2>8. CASE Settle(j)
    <3> DEFINE o == job[j].order
    <3>1. /\ job[j].op = "settle"
          /\ job' = [job EXCEPT ![j] = Idle]
          /\ payment' = [payment EXCEPT ![o] = job[j].verdict]
          /\ credits' = [credits EXCEPT ![o] = IF Credits(job[j]) THEN @ + 1 ELSE @]
      BY <2>8 DEF Settle, JobReturn, JobGoto
    <3>2. job[j].verdict \in Verdicts
      BY <3>1, JobShape DEF JobOps
    <3>3. job[j].verdict = "SUCCEEDED" => \A x \in OrderIds : x = o => Paid(x)
      BY <3>1 DEF BooksInv
    <3>4. \A x \in OrderIds : credits'[x] = credits[x] \/ Paid(x)
      BY <1>0, <3>1, <3>3 DEF Credits
    <3>5. \A x \in OrderIds :
            payment'[x] = payment[x] \/ payment'[x] \notin {"SUCCEEDED", "REFUNDED"} \/ Paid(x)
      BY <1>0, <3>1, <3>2, <3>3 DEF Verdicts
    <3>6. QED
      BY <1>0, <3>1, <3>4, <3>5, BooksMove DEF Idle
  <2>9. CASE PushRefund(j)
    <3> DEFINE o == job[j].order
    <3>1. CASE job' = [job EXCEPT ![j] = Idle]
      BY <2>1, <2>9, <3>1 DEF PushRefund, vars, Idle
    <3>2. CASE /\ psp[o][job[j].checkout] = "paid"
               /\ job' = [job EXCEPT ![j] = [op |-> "recordRefund", order |-> o]]
      <4>1. job[j].checkout \in Checkouts
        BY <2>9, JobShape DEF PushRefund, JobOps
      <4>2. \A x \in OrderIds : x = o => Paid(x)'
        BY <3>2, <4>1, PaidForGood DEF Paid, Captured
      <4>3. QED
        BY <1>0, <2>9, <3>2, <4>2, BooksMove DEF PushRefund, vars
    <3>3. QED
      BY <2>9, <3>1, <3>2 DEF PushRefund, JobReturn, JobGoto
  <2>10. CASE RecordRefund(j)
    <3> DEFINE o == job[j].order
    <3>1. /\ job' = [job EXCEPT ![j] = [op |-> "refundPayment", order |-> o]]
          /\ Rows
      BY <2>10 DEF RecordRefund, JobGoto, vars
    <3>2. \A x \in OrderIds : x = o => Paid(x)'
      BY <2>10, PaidForGood DEF RecordRefund, BooksInv
    <3>3. QED
      BY <1>0, <3>1, <3>2, BooksMove
  <2>11. CASE RefundPayment(j)
    <3> DEFINE o == job[j].order
    <3>1. /\ job' = [job EXCEPT ![j] = [op |-> "refundOrder", order |-> o]]
          /\ payment' = [payment EXCEPT ![o] = "REFUNDED"]
          /\ UNCHANGED credits
      BY <2>11 DEF RefundPayment, JobGoto, moneyRows
    <3>2. \A x \in OrderIds : x = o => Paid(x)
      BY <2>11 DEF RefundPayment, BooksInv
    <3>3. QED
      BY <1>0, <3>1, <3>2, BooksMove
  <2>12. QED
    BY <1>2, <2>2, <2>3, <2>4, <2>5, <2>6, <2>7, <2>8, <2>9, <2>10, <2>11 DEF JobStep
<1>3. QED
  BY <1>1, <1>2, CallsLeavePayments DEF MoneyNext, Charge, allVars, vars, moneyRows

\* The customer is credited, the commission charged and the payment shown as received
\* only for money the PSP captured, however the handlers overlap.
THEOREM BooksCorrect == MoneySpec => []BooksFollowProvider
<1>1. MoneyInit => BooksInv
  BY DEF MoneyInit, Init, BooksInv, BooksFollowProvider, Idle
<1>2. MoneyTypeOK /\ BooksInv /\ [MoneyNext]_allVars => BooksInv'
  BY BooksStep
<1>3. BooksInv => BooksFollowProvider
  BY DEF BooksInv
<1>4. QED
  BY <1>1, <1>2, <1>3, MoneyTypeCorrect, PTL DEF MoneySpec

-----------------------------------------------------------------------------
(* One credit per payment handler that overlaps.  A handler credits an     *)
(* order it read as PENDING_PAYMENT, and the first credit ends that status *)
(* for good: only handlers that read it before can credit it again.        *)

SawPending(o) ==
  {j \in Jobs : job[j].op = "settle" /\ job[j].order = o /\ job[j].seen = "PENDING_PAYMENT"}
Credited(o) == credits[o] + Cardinality(SawPending(o)) <= Cardinality(Jobs)

CreditInv ==
  \A o \in OrderIds : (credits[o] > 0 => Beyond(o)) /\ Credited(o)

LEMMA SawPendingCounted ==
  ASSUME NEW o
  PROVE  /\ IsFiniteSet(SawPending(o)) /\ Cardinality(SawPending(o)) \in Nat
         /\ Cardinality(SawPending(o)') \in Nat /\ Cardinality(Jobs) \in Nat
         /\ Cardinality(SawPending(o)') <= Cardinality(Jobs)
         /\ SawPending(o)' \subseteq SawPending(o) =>
              Cardinality(SawPending(o)') <= Cardinality(SawPending(o))
         /\ \A j \in SawPending(o) : SawPending(o)' \subseteq SawPending(o) \ {j} =>
              Cardinality(SawPending(o)') + 1 <= Cardinality(SawPending(o))
<1>1. SawPending(o) \subseteq Jobs /\ SawPending(o)' \subseteq Jobs
  BY DEF SawPending
<1>2. IsFiniteSet(SawPending(o)) /\ IsFiniteSet(SawPending(o)')
  BY <1>1, PaymentBounds, FS_Subset
<1>3. Cardinality(SawPending(o)') <= Cardinality(Jobs)
  BY <1>1, PaymentBounds, FS_Subset
<1>4. ASSUME NEW j \in SawPending(o), SawPending(o)' \subseteq SawPending(o) \ {j}
      PROVE  Cardinality(SawPending(o)') + 1 <= Cardinality(SawPending(o))
  <2>1. j \notin SawPending(o)' /\ SawPending(o)' \subseteq SawPending(o) \cup {j}
    BY <1>4
  <2>2. QED
    BY <1>2, <1>4, <2>1, CountMoves
<1>5. QED
  BY <1>1, <1>2, <1>3, <1>4, PaymentBounds, FS_Subset, FS_CardinalityType

\* What a handler does with one order's credits.
LEMMA CreditMoves ==
  ASSUME MoneyTypeOK, CreditInv, NEW o \in OrderIds,
         \/ credits'[o] = credits[o] /\ SawPending(o)' \subseteq SawPending(o)
         \/ credits'[o] = 0
         \/ /\ credits'[o] = credits[o] + 1
            /\ \E j \in SawPending(o) : SawPending(o)' \subseteq SawPending(o) \ {j}
  PROVE  Credited(o)'
<1>1. Credited(o) /\ credits[o] \in Nat
  BY DEF CreditInv, MoneyTypeOK
<1>2. credits'[o] + Cardinality(SawPending(o)') <= Cardinality(Jobs)
  BY <1>1, SawPendingCounted DEF Credited
<1>3. QED
  BY <1>2 DEF Credited

LEMMA CreditStep ==
  ASSUME MoneyTypeOK, ReleaseInv, CreditInv, [MoneyNext]_allVars
  PROVE  CreditInv'
<1>0. job \in [Jobs -> JobFrame \cup {Idle}] /\ credits \in [OrderIds -> Nat]
  BY DEF MoneyTypeOK
<1>1. ASSUME UNCHANGED credits, \A o \in OrderIds : Credited(o)'
      PROVE  CreditInv'
  BY <1>1, BeyondForGood DEF CreditInv
<1>2. ASSUME UNCHANGED <<credits, job>>
      PROVE  CreditInv'
  <2>1. \A o \in OrderIds : SawPending(o)' \subseteq SawPending(o)
    BY <1>2 DEF SawPending
  <2>2. QED
    BY <1>1, <1>2, <2>1, CreditMoves
<1>3. ASSUME NEW j \in Jobs, JobStep(j)
      PROVE  CreditInv'
  <2>1. ASSUME \A i \in Jobs : i # j => job'[i] = job[i], job'[j].op # "settle",
               UNCHANGED credits
        PROVE  CreditInv'
    <3>1. \A o \in OrderIds : SawPending(o)' \subseteq SawPending(o)
      BY <2>1 DEF SawPending
    <3>2. QED
      BY <1>1, <2>1, <3>1, CreditMoves
  <2>2. CASE Settle(j)
    <3>1. PICK p \in OrderIds :
            /\ p = job[j].order /\ job[j].op = "settle"
            /\ job' = [job EXCEPT ![j] = Idle]
            /\ credits' = [credits EXCEPT ![p] = IF Credits(job[j]) THEN @ + 1 ELSE @]
            /\ status' = [status EXCEPT ![p] = IF Credits(job[j]) THEN "PAID" ELSE @]
      BY <2>2, JobShape DEF Settle, JobReturn, JobGoto, JobOps
    <3>2. \A o \in OrderIds : SawPending(o)' \subseteq SawPending(o) \ {j}
      BY <1>0, <3>1 DEF SawPending, Idle
    <3>3. Credits(job[j]) => j \in SawPending(p)
      BY <3>1 DEF Credits, SawPending
    <3>4. ASSUME NEW o \in OrderIds
          PROVE  Credited(o)'
      <4>1. CASE o = p /\ Credits(job[j])
        <5>1. credits'[o] = credits[o] + 1
          BY <1>0, <3>1, <4>1
        <5>2. QED
          BY <3>2, <3>3, <4>1, <5>1, CreditMoves
      <4>2. CASE ~(o = p /\ Credits(job[j]))
        <5>1. credits'[o] = credits[o]
          BY <1>0, <3>1, <4>2
        <5>2. QED
          BY <3>2, <5>1, CreditMoves
      <4>3. QED
        BY <4>1, <4>2
    <3>5. \A x \in OrderIds : credits'[x] > 0 => Beyond(x)'
      BY <1>0, <3>1, BeyondForGood DEF CreditInv, Beyond, Statuses, MoneyTypeOK, TypeOK
    <3>6. QED
      BY <3>4, <3>5 DEF CreditInv
  <2>3. CASE BeginReconcile(j)
    <3>1. PICK p : /\ p = job[j].order
                   /\ job' = [job EXCEPT ![j] = [op |-> "settle", order |-> p,
                                                 verdict |-> job[j].verdict, seen |-> status[p]]]
                   /\ UNCHANGED credits
      BY <2>3 DEF BeginReconcile, JobGoto, moneyRows
    <3>2. ASSUME NEW o \in OrderIds
          PROVE  Credited(o)'
      <4>1. CASE o = p /\ status[p] = "PENDING_PAYMENT"
        <5>1. credits'[o] = 0
          BY <1>0, <3>1, <4>1 DEF CreditInv, Beyond
        <5>2. QED
          BY <5>1, CreditMoves
      <4>2. CASE ~(o = p /\ status[p] = "PENDING_PAYMENT")
        <5>1. SawPending(o)' \subseteq SawPending(o)
          BY <1>0, <3>1, <4>2 DEF SawPending
        <5>2. QED
          BY <3>1, <5>1, CreditMoves
      <4>3. QED
        BY <4>1, <4>2
    <3>3. QED
      BY <1>1, <3>1, <3>2
  <2>4. ASSUME NEW o \in OrderIds, NEW k \in Checkouts,
               BeginInitialize(j, o, k) \/ HandleWebhook(j, o, k)
        PROVE  CreditInv'
    <3>1. /\ UNCHANGED credits
          /\ \/ job' = [job EXCEPT ![j] = [op |-> "save", order |-> o, checkout |-> k]]
             \/ job' = [job EXCEPT ![j] = [op |-> "ask", order |-> o, checkout |-> k]]
      BY <2>4 DEF BeginInitialize, HandleWebhook, JobGoto, moneyRows
    <3>2. QED
      BY <1>0, <2>1, <3>1
  <2>5. ASSUME NEW o \in OrderIds, VerifyPayment(j, o) \/ BeginRefund(j, o)
        PROVE  CreditInv'
    <3>1. /\ UNCHANGED credits
          /\ \/ job' = [job EXCEPT ![j] = [op |-> "ask", order |-> o, checkout |-> reference[o]]]
             \/ job' = [job EXCEPT ![j] = [op |-> "push", order |-> o, checkout |-> reference[o]]]
      BY <2>5 DEF VerifyPayment, BeginRefund, JobGoto, moneyRows
    <3>2. QED
      BY <1>0, <2>1, <3>1
  <2>6. CASE \/ SaveCheckout(j) \/ RefundOrder(j) \/ CrashJob(j)
    <3>1. job' = [job EXCEPT ![j] = Idle] /\ UNCHANGED credits
      BY <2>6 DEF SaveCheckout, RefundOrder, CrashJob, JobReturn, JobGoto, moneyRows
    <3>2. Idle.op # "settle"
      BY DEF Idle
    <3>3. QED
      BY <1>0, <2>1, <3>1, <3>2
  <2>7. CASE AskProvider(j)
    <3>1. PICK v \in verify(job[j].order, job[j].checkout) :
            job' = [job EXCEPT ![j] = [op |-> "reconcile", order |-> job[j].order,
                                       verdict |-> v]]
      BY <2>7 DEF AskProvider, JobGoto
    <3>2. QED
      BY <1>0, <2>1, <2>7, <3>1 DEF AskProvider, moneyRows
  <2>8. CASE PushRefund(j)
    <3>1. \/ job' = [job EXCEPT ![j] = [op |-> "recordRefund", order |-> job[j].order]]
          \/ job' = [job EXCEPT ![j] = Idle]
      BY <2>8 DEF PushRefund, JobReturn, JobGoto
    <3>2. QED
      BY <1>0, <2>1, <2>8, <3>1 DEF PushRefund, Idle
  <2>9. CASE RecordRefund(j) \/ RefundPayment(j)
    BY <1>0, <2>1, <2>9 DEF RecordRefund, RefundPayment, JobGoto, moneyRows
  <2>10. QED
    BY <1>3, <2>2, <2>3, <2>4, <2>5, <2>6, <2>7, <2>8, <2>9 DEF JobStep
<1>4. QED
  BY <1>2, <1>3 DEF MoneyNext, Charge, allVars, moneyRows

LEMMA CreditInit == MoneyInit => CreditInv
<1> SUFFICES ASSUME MoneyInit, NEW o \in OrderIds PROVE Credited(o)
  BY DEF MoneyInit, CreditInv
<1>1. SawPending(o) = {}
  BY DEF MoneyInit, SawPending, Idle
<1>2. Cardinality(SawPending(o)) = 0 /\ Cardinality(Jobs) \in Nat
  BY <1>1, FS_EmptySet, SawPendingCounted
<1>3. QED
  BY <1>2 DEF MoneyInit, Credited

\* One payment handler at a time, and the bound that any number of them keeps.
OneJobAtATime == \A i, j \in Jobs : i = j
CreditsPerHandler == \A o \in OrderIds : credits[o] <= Cardinality(Jobs)

\* However often webhooks, verifications and crashes repeat a reconciliation, an order credits its
\* customer at most once per handler that overlaps: DoubleCredit's two credits need two handlers
\* at once, and a notice that comes later never adds a third (reconcile()).
THEOREM CreditsCorrect == MoneySpec => []CreditsPerHandler
<1>1. MoneyTypeOK /\ CreditInv => CreditsPerHandler
  <2>1. SUFFICES ASSUME MoneyTypeOK, CreditInv, NEW o \in OrderIds
                 PROVE  credits[o] <= Cardinality(Jobs)
    BY DEF CreditsPerHandler
  <2>2. QED
    BY <2>1, SawPendingCounted DEF CreditInv, Credited, MoneyTypeOK
<1>2. QED
  BY <1>1, MoneyInitHolds, CreditInit, MoneyStep, CreditStep, PTL DEF MoneySpec

\* With one payment handler at a time an order credits its customer once, whatever calls
\* of the order desk overlap it: it is two overlapping handlers that credit twice.
THEOREM SerialCreditedOnce == OneJobAtATime => (MoneySpec => []CreditedOnce)
<1> SUFFICES ASSUME OneJobAtATime PROVE MoneySpec => []CreditedOnce
  OBVIOUS
<1>1. Cardinality(Jobs) <= 1
  <2>1. CASE Jobs = {}
    BY <2>1, FS_EmptySet
  <2>2. ASSUME NEW j \in Jobs PROVE Cardinality(Jobs) <= 1
    <3>1. Jobs = {j}
      BY <2>2 DEF OneJobAtATime
    <3>2. Cardinality({j}) = 1
      BY FS_Singleton
    <3>3. QED
      BY <3>1, <3>2
  <2>3. QED
    BY <2>1, <2>2
<1>2. ASSUME MoneyTypeOK, CreditsPerHandler PROVE CreditedOnce
  <2>1. Cardinality(Jobs) \in Nat /\ \A o \in OrderIds : credits[o] \in Nat
    BY <1>2, PaymentBounds, FS_CardinalityType DEF MoneyTypeOK
  <2>2. QED
    BY <1>1, <1>2, <2>1 DEF CreditsPerHandler, CreditedOnce
<1>3. QED
  BY <1>2, CreditsCorrect, MoneyTypeCorrect, PTL

-----------------------------------------------------------------------------
(* Refund rows never outnumber the refunds the PSP accepted.               *)

\* Handlers the PSP has accepted a refund for and that are yet to record it.
Owed(o) == {j \in Jobs : job[j].op = "recordRefund" /\ job[j].order = o}

RowsInv == \A o \in OrderIds : refundRows[o] + Cardinality(Owed(o)) <= pushed[o]

LEMMA OwedFinite ==
  ASSUME NEW o
  PROVE  /\ IsFiniteSet(Owed(o)) /\ Cardinality(Owed(o)) \in Nat
         /\ IsFiniteSet(Owed(o)') /\ Cardinality(Owed(o)') \in Nat
<1>1. Owed(o) \subseteq Jobs /\ Owed(o)' \subseteq Jobs
  BY DEF Owed
<1>2. QED
  BY <1>1, PaymentBounds, FS_Subset, FS_CardinalityType

LEMMA RowsStep ==
  ASSUME MoneyTypeOK, RowsInv, [MoneyNext]_allVars
  PROVE  RowsInv'
<1>0. /\ job \in [Jobs -> JobFrame \cup {Idle}]
      /\ refundRows \in [OrderIds -> Nat] /\ pushed \in [OrderIds -> Nat]
  BY DEF MoneyTypeOK
<1>1. ASSUME UNCHANGED <<refundRows, pushed>>, \A o \in OrderIds : Owed(o)' \subseteq Owed(o)
      PROVE  RowsInv'
  <2>1. ASSUME NEW o \in OrderIds
        PROVE  (refundRows[o] + Cardinality(Owed(o)) <= pushed[o])'
    <3>1. Cardinality(Owed(o)') <= Cardinality(Owed(o))
      BY <1>1, OwedFinite, FS_Subset
    <3>2. refundRows[o] \in Nat /\ pushed[o] \in Nat
      BY <1>0
    <3>3. QED
      BY <1>1, <3>1, <3>2, OwedFinite DEF RowsInv
  <2>2. QED
    BY <2>1 DEF RowsInv
<1>2. ASSUME NEW j \in Jobs, JobStep(j)
      PROVE  RowsInv'
  <2>1. CASE RecordRefund(j)
    <3> DEFINE p == job[j].order
    <3>1. /\ p \in OrderIds /\ job[j].op = "recordRefund"
          /\ job' = [job EXCEPT ![j] = [op |-> "refundPayment", order |-> p]]
          /\ refundRows' = [refundRows EXCEPT ![p] = @ + 1]
          /\ UNCHANGED pushed
      BY <2>1, JobShape DEF RecordRefund, JobGoto, JobOps
    <3>2. ASSUME NEW o \in OrderIds
          PROVE  (refundRows[o] + Cardinality(Owed(o)) <= pushed[o])'
      <4>1. Owed(o)' \subseteq Owed(o) \ {j}
        BY <1>0, <3>1 DEF Owed
      <4>2. Cardinality(Owed(o)') <= Cardinality(Owed(o) \ {j})
        BY <4>1, OwedFinite, FS_Subset, FS_RemoveElement
      <4>3. refundRows[o] + Cardinality(Owed(o)) <= pushed[o]
            /\ refundRows[o] \in Nat /\ pushed[o] \in Nat
        BY <1>0 DEF RowsInv
      <4>4. CASE o = p
        <5>1. j \in Owed(o)
          BY <3>1, <4>4 DEF Owed
        <5>2. Cardinality(Owed(o) \ {j}) = Cardinality(Owed(o)) - 1
          BY <5>1, OwedFinite, FS_RemoveElement
        <5>3. refundRows'[o] = refundRows[o] + 1
          BY <1>0, <3>1, <4>4
        <5>4. QED
          BY <3>1, <4>2, <4>3, <5>2, <5>3, OwedFinite
      <4>5. CASE o # p
        <5>1. Owed(o)' \subseteq Owed(o)
          BY <4>1
        <5>2. Cardinality(Owed(o)') <= Cardinality(Owed(o))
          BY <5>1, OwedFinite, FS_Subset
        <5>3. refundRows'[o] = refundRows[o]
          BY <1>0, <3>1, <4>5
        <5>4. QED
          BY <3>1, <4>3, <5>2, <5>3, OwedFinite
      <4>6. QED
        BY <4>4, <4>5
    <3>3. QED
      BY <3>2 DEF RowsInv
  <2>2. CASE PushRefund(j)
    <3> DEFINE p == job[j].order
    <3>1. p \in OrderIds /\ UNCHANGED refundRows
      BY <2>2, JobShape DEF PushRefund, JobOps
    <3>2. CASE UNCHANGED pushed /\ job' = [job EXCEPT ![j] = Idle]
      <4>1. \A o \in OrderIds : Owed(o)' \subseteq Owed(o)
        BY <1>0, <3>2 DEF Owed, Idle
      <4>2. QED
        BY <1>1, <3>1, <3>2, <4>1
    <3>3. CASE /\ pushed' = [pushed EXCEPT ![p] = @ + 1]
               /\ job' = [job EXCEPT ![j] = [op |-> "recordRefund", order |-> p]]
      <4>1. ASSUME NEW o \in OrderIds
            PROVE  (refundRows[o] + Cardinality(Owed(o)) <= pushed[o])'
        <5>1. /\ refundRows[o] + Cardinality(Owed(o)) <= pushed[o]
              /\ refundRows[o] \in Nat /\ pushed[o] \in Nat
          BY <1>0 DEF RowsInv
        <5>2. CASE o = p
          <6>1. Owed(o)' \subseteq Owed(o) \cup {j}
            BY <1>0, <3>3 DEF Owed
          <6>2. /\ IsFiniteSet(Owed(o) \cup {j})
                /\ Cardinality(Owed(o) \cup {j}) \in Nat
                /\ Cardinality(Owed(o) \cup {j}) <= Cardinality(Owed(o)) + 1
            <7>1. IsFiniteSet(Owed(o)) /\ Cardinality(Owed(o)) \in Nat
              BY OwedFinite
            <7>2. /\ IsFiniteSet(Owed(o) \cup {j})
                  /\ Cardinality(Owed(o) \cup {j}) \in
                       {Cardinality(Owed(o)), Cardinality(Owed(o)) + 1}
              BY <7>1, FS_AddElement
            <7>3. QED
              BY <7>1, <7>2
          <6>3. Cardinality(Owed(o)') <= Cardinality(Owed(o) \cup {j})
            BY <6>1, <6>2, FS_Subset
          <6>4. pushed'[o] = pushed[o] + 1
            BY <1>0, <3>3, <5>2
          <6>5. QED
            BY <3>1, <5>1, <6>2, <6>3, <6>4, OwedFinite
        <5>3. CASE o # p
          <6>1. Owed(o)' \subseteq Owed(o)
            BY <1>0, <3>3, <5>3 DEF Owed
          <6>2. Cardinality(Owed(o)') <= Cardinality(Owed(o))
            BY <6>1, OwedFinite, FS_Subset
          <6>3. pushed'[o] = pushed[o]
            BY <1>0, <3>3, <5>3
          <6>4. QED
            BY <3>1, <5>1, <6>2, <6>3, OwedFinite
        <5>4. QED
          BY <5>2, <5>3
      <4>2. QED
        BY <4>1 DEF RowsInv
    <3>4. QED
      BY <2>2, <3>2, <3>3 DEF PushRefund, JobReturn, JobGoto
  <2>3. ASSUME job'[j].op # "recordRefund", \A i \in Jobs : i # j => job'[i] = job[i],
               UNCHANGED <<refundRows, pushed>>
        PROVE  RowsInv'
    <3>1. \A o \in OrderIds : Owed(o)' \subseteq Owed(o)
      BY <2>3 DEF Owed
    <3>2. QED
      BY <1>1, <2>3, <3>1
  <2>4. ASSUME NEW o \in OrderIds, NEW k \in Checkouts,
               BeginInitialize(j, o, k) \/ HandleWebhook(j, o, k)
        PROVE  RowsInv'
    BY <1>0, <2>3, <2>4 DEF BeginInitialize, HandleWebhook, JobGoto, moneyRows
  <2>5. ASSUME NEW o \in OrderIds, VerifyPayment(j, o) \/ BeginRefund(j, o)
        PROVE  RowsInv'
    BY <1>0, <2>3, <2>5 DEF VerifyPayment, BeginRefund, JobGoto, moneyRows
  <2>6. CASE SaveCheckout(j) \/ Settle(j) \/ RefundOrder(j) \/ CrashJob(j)
    <3>1. job' = [job EXCEPT ![j] = Idle] /\ UNCHANGED <<refundRows, pushed>>
      BY <2>6 DEF SaveCheckout, Settle, RefundOrder, CrashJob, JobReturn, JobGoto, moneyRows
    <3>2. QED
      BY <1>0, <2>3, <3>1 DEF Idle
  <2>7. CASE AskProvider(j)
    <3>1. PICK v \in verify(job[j].order, job[j].checkout) :
            job' = [job EXCEPT ![j] = [op |-> "reconcile", order |-> job[j].order,
                                       verdict |-> v]]
      BY <2>7 DEF AskProvider, JobGoto
    <3>2. QED
      BY <1>0, <2>3, <2>7, <3>1 DEF AskProvider, moneyRows
  <2>8. CASE BeginReconcile(j) \/ RefundPayment(j)
    BY <1>0, <2>3, <2>8 DEF BeginReconcile, RefundPayment, JobGoto, moneyRows
  <2>9. QED
    BY <1>2, <2>1, <2>2, <2>4, <2>5, <2>6, <2>7, <2>8 DEF JobStep
<1>3. ASSUME UNCHANGED <<refundRows, pushed, job>>
      PROVE  RowsInv'
  BY <1>1, <1>3 DEF Owed
<1>4. QED
  BY <1>2, <1>3 DEF MoneyNext, Charge, allVars, moneyRows

\* refund() records no refund that the PSP did not accept, for any number of handlers.
THEOREM RefundRowsCorrect == MoneySpec => []RefundRowsAccepted
<1>1. MoneyInit => RowsInv
  <2> SUFFICES ASSUME MoneyInit
               PROVE  RowsInv
    OBVIOUS
  <2>1. \A o \in OrderIds : Owed(o) = {}
    BY DEF MoneyInit, Owed, Idle
  <2>2. QED
    BY <2>1, FS_EmptySet DEF MoneyInit, RowsInv
<1>2. MoneyTypeOK /\ RowsInv /\ [MoneyNext]_allVars => RowsInv'
  BY RowsStep
<1>3. MoneyTypeOK /\ RowsInv => RefundRowsAccepted
  BY OwedFinite DEF RowsInv, RefundRowsAccepted, MoneyTypeOK
<1>4. QED
  BY <1>1, <1>2, <1>3, MoneyTypeCorrect, PTL DEF MoneySpec

-----------------------------------------------------------------------------
(* The order desk in the composition.  A payment handler moves the payment *)
(* and the status of an order that exists, and only to PAID or REFUNDED,   *)
(* so it can undo nothing the desk promises about its stock.               *)

MovedByMoney(o) == status'[o] = status[o] \/ status'[o] \in {"PAID", "REFUNDED"}

LEMMA DeskSteps ==
  ASSUME MoneyTypeOK, ReleaseInv, [MoneyNext]_allVars
  PROVE  \/ [Next]_vars
         \/ UNCHANGED orderDesk /\ \A o \in OrderIds : MovedByMoney(o) /\ (Known(o) => Known(o)')
<1>0. status \in [OrderIds -> Statuses \cup {"none"}]
  BY DEF MoneyTypeOK, TypeOK
<1>1. \A o \in OrderIds : Known(o) => Known(o)'
  BY BeyondForGood
<1>2. ASSUME NEW j \in Jobs, Settle(j)
      PROVE  UNCHANGED orderDesk /\ \A o \in OrderIds : MovedByMoney(o)
  <2>1. job[j].order \in OrderIds
    BY <1>2, JobShape DEF Settle, JobOps
  <2>2. UNCHANGED orderDesk /\ (\/ status' = [status EXCEPT ![job[j].order] = "PAID"]
                                \/ status' = [status EXCEPT ![job[j].order] = @])
    BY <1>2 DEF Settle
  <2>3. QED
    BY <1>0, <2>1, <2>2 DEF MovedByMoney
<1>3. ASSUME NEW j \in Jobs, RefundOrder(j)
      PROVE  UNCHANGED orderDesk /\ \A o \in OrderIds : MovedByMoney(o)
  <2>1. job[j].order \in OrderIds
    BY <1>3, JobShape DEF RefundOrder, JobOps
  <2>2. QED
    BY <1>0, <1>3, <2>1 DEF RefundOrder, MovedByMoney
<1>4. ASSUME NEW j \in Jobs, SaveCheckout(j) \/ RefundPayment(j)
      PROVE  UNCHANGED orderDesk /\ \A o \in OrderIds : MovedByMoney(o)
  BY <1>4 DEF SaveCheckout, RefundPayment, MovedByMoney
<1>5. ASSUME NEW j \in Jobs, JobStep(j)
      PROVE  \/ UNCHANGED vars
             \/ UNCHANGED orderDesk /\ \A o \in OrderIds : MovedByMoney(o)
  BY <1>2, <1>3, <1>4, <1>5
     DEF JobStep, BeginInitialize, HandleWebhook, VerifyPayment, BeginRefund,
         AskProvider, BeginReconcile, PushRefund, RecordRefund, CrashJob
<1>6. QED
  BY <1>1, <1>5 DEF MoneyNext, Charge, allVars

DeskInv ==
  ListingMatchesStock /\ FreshInv /\ StockAccounted /\ AttemptInv /\ RestockInv

LEMMA DeskUntouched ==
  ASSUME MoneyTypeOK, DeskInv, UNCHANGED orderDesk,
         \A o \in OrderIds : MovedByMoney(o) /\ (Known(o) => Known(o)')
  PROVE  DeskInv'
<1>0. status \in [OrderIds -> Statuses \cup {"none"}] /\ "none" \notin Statuses
  BY DEF MoneyTypeOK, TypeOK, Statuses
<1>1. ListingMatchesStock' /\ StockAccounted' /\ AttemptInv'
  <2>1. ListingMatchesStock'
    BY DEF DeskInv, ListingMatchesStock, orderDesk
  <2>2. StockAccounted'
    BY DEF DeskInv, StockAccounted, orderDesk
  <2>3. AttemptInv'
    BY DEF DeskInv, AttemptInv, Owing, Owes, orderDesk
  <2>4. QED
    BY <2>1, <2>2, <2>3
<1>2. FreshInv'
  <2>1. \A o \in OrderIds : status'[o] = "none" => status[o] = "none"
    BY <1>0 DEF Known
  <2>2. QED
    BY <2>1 DEF DeskInv, FreshInv, Pristine, orderDesk
<1>3. RestockInv'
  <2>1. \A o \in OrderIds : status'[o] = "CANCELLED" => status[o] = "CANCELLED"
    BY DEF MovedByMoney
  <2>2. RestockNeedsCancellation'
    BY DEF DeskInv, RestockInv, RestockNeedsCancellation, WasCancelled, orderDesk
  <2>3. QED
    BY <2>1, <2>2 DEF DeskInv, RestockInv, Cancelled, WasCancelled, Recorded, orderDesk
<1>4. QED
  BY <1>1, <1>2, <1>3 DEF DeskInv

LEMMA DeskStep ==
  ASSUME MoneyTypeOK, ReleaseInv, DeskInv, [MoneyNext]_allVars
  PROVE  DeskInv'
<1>1. CASE [Next]_vars
  BY <1>1, ListingStep, FreshStep, StockStep, AttemptStep, RestockStep DEF MoneyTypeOK, DeskInv
<1>2. QED
  BY <1>1, DeskSteps, DeskUntouched

\* With payments, webhooks and refunds at work the desk still accounts for every unit, lists what
\* it has, and puts a line back only for a cancellation and once per return begun: nothing
\* services/payments.service.ts writes takes back what services/orders.service.ts promises.
THEOREM DeskKept ==
  MoneySpec => [](/\ ListingMatchesStock /\ StockAccounted
                  /\ RestockPerAttempt /\ RestockNeedsCancellation)
<1>1. MoneyInit => DeskInv
  BY ListingInit, StockInit, FreshInit, AttemptInit, RestockInit DEF MoneyInit, DeskInv
<1>2. MInv /\ DeskInv /\ [MoneyNext]_allVars => DeskInv'
  BY DeskStep DEF MInv
<1>3. MInv /\ DeskInv => /\ ListingMatchesStock /\ StockAccounted
                         /\ RestockPerAttempt /\ RestockNeedsCancellation
  BY AttemptBounds DEF MInv, MoneyTypeOK, DeskInv, RestockInv
<1>4. QED
  BY <1>1, <1>2, <1>3, MoneyInitHolds, MoneyStep, PTL DEF MInv, MoneySpec

-----------------------------------------------------------------------------
(* Where paid money gets lost.                                             *)

\* The step PaidLeavesByCancellationOnly forbids, and the call that takes it.
LosesPaid(o) ==
  /\ status[o] \in {"PAID", "PROCESSING", "SHIPPED"} /\ status'[o] = "CANCELLED"
  /\ cancellation[o] = "none"
StaleCancel(o) ==
  \E c \in Calls : /\ call[c].op = "commit" /\ call[c].order = o
                   /\ call[c].to = "CANCELLED" /\ call[c].seen = "PENDING_PAYMENT"

LEMMA ReadAsLegalKept ==
  ASSUME MoneyTypeOK, ReleaseInv, ReadAsLegal, [MoneyNext]_allVars
  PROVE  ReadAsLegal'
<1>1. CASE UNCHANGED orderDesk
  BY <1>1 DEF ReadAsLegal, Recorded, orderDesk
<1>2. QED
  BY <1>1, ReadAsLegalStep, DeskSteps DEF MoneyTypeOK

LEMMA LostStep ==
  ASSUME MoneyTypeOK, ReleaseInv, ReadAsLegal, [MoneyNext]_allVars, NEW o \in OrderIds, LosesPaid(o)
  PROVE  StaleCancel(o)
<1>0. TypeOK /\ status \in [OrderIds -> Statuses \cup {"none"}]
  BY DEF MoneyTypeOK, TypeOK
<1>1. status'[o] # status[o] /\ ~MovedByMoney(o)
  BY DEF LosesPaid, MovedByMoney
<1>2. Next
  BY <1>1, DeskSteps DEF vars
<1>3. ASSUME NEW x \in OrderIds, NEW cart \in Carts, Create(x, cart)
      PROVE  FALSE
  BY <1>0, <1>1, <1>3 DEF Create, LosesPaid
<1>4. ASSUME NEW c \in Calls, CommitTransition(c)
      PROVE  StaleCancel(o)
  <2>1. call[c].op = "commit" /\ status' = [status EXCEPT ![call[c].order] = call[c].to]
    BY <1>4 DEF CommitTransition
  <2>2. call[c].order = o /\ call[c].to = "CANCELLED"
    BY <1>0, <1>1, <2>1 DEF LosesPaid
  <2>3. call[c].seen = "PENDING_PAYMENT"
    BY <2>1, <2>2, CancelledIsFinal DEF ReadAsLegal
  <2>4. QED
    BY <2>1, <2>2, <2>3 DEF StaleCancel
<1>5. ASSUME NEW c \in Calls, MarkCancelled(c)
      PROVE  FALSE
  <2>1. call[c].op = "mark" /\ status' = [status EXCEPT ![call[c].order] = "CANCELLED"]
    BY <1>5 DEF MarkCancelled
  <2>2. call[c].order = o
    BY <1>0, <1>1, <2>1
  <2>3. QED
    BY <2>1, <2>2 DEF ReadAsLegal, Recorded, LosesPaid
<1>6. QED
  BY <1>1, <1>2, <1>3, <1>4, <1>5
     DEF Next, CallStep, RemoveCancellation, BeginTransition, BeginCancel, BeginCancellation,
         BeginProcess, restoreStock, FileCancellation, LogCancelled, ShelveLine, FlagRestocked,
         CrashCall

\* The one way a paid order is cancelled without a cancellation record: the bare endpoint read it
\* as PENDING_PAYMENT, and the payment came between its check and its commit (transition() updates
\* by id alone).  PaidCancelled shows the trace; no other call and no payment handler does it.
THEOREM PaidLostByStaleCancel ==
  MoneySpec => [][\A o \in OrderIds : LosesPaid(o) => StaleCancel(o)]_allVars
<1> DEFINE Lost == \A o \in OrderIds : LosesPaid(o) => StaleCancel(o)
<1>1. MoneyInit => ReadAsLegal
  BY ReadAsLegalInit DEF MoneyInit
<1>2. MInv /\ ReadAsLegal /\ [MoneyNext]_allVars => ReadAsLegal'
  BY ReadAsLegalKept DEF MInv
<1>3. MInv /\ ReadAsLegal /\ [MoneyNext]_allVars => [Lost]_allVars
  BY LostStep DEF MInv
<1>4. QED
  BY <1>1, <1>2, <1>3, MoneyInitHolds, MoneyStep, PTL DEF MInv, MoneySpec
=============================================================================
