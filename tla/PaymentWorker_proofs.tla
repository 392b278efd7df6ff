------------------------- MODULE PaymentWorker_proofs -------------------------
(***************************************************************************)
(* Proofs about PaymentWorker for any orders, payments and notifications.  *)
(*                                                                         *)
(* What a running job still has to do tells what it has found out          *)
(* (JobInv): the status it has fetched was MercadoPago's at some time, its *)
(* lock is held while it works out the order's status, and the shipping is *)
(* there when it says so.  The properties of the orders follow, because    *)
(* only the job that holds an order's row writes the status it has worked  *)
(* out, and only from rows nobody else can have changed since.             *)
(***************************************************************************)
EXTENDS PaymentWorker, TLAPS

Acts(j) == ctxStatus[j] \in {"APPROVED", "PENDING"} /\ ~skipped[j]

Shipped(o) == shipping[o] \/ cancels[o] > 0

\* What a job knows at the step it has reached.
JobInv(j) ==
  job[j] = "active" =>
    /\ jobStep[j] # "FetchPaymentDetails" => fetched[j] \in MpStatus
    /\ jobStep[j] # "FetchPaymentDetails" /\ fetched[j] = "approved" => jobPayment[j] \in everApproved
    /\ jobStep[j] \in {"FetchPaymentDetails", "FindPayment", "LockOrder", "UpsertPayment"} =>
         ctxStatus[j] = "none"
    /\ ctxStatus[j] = "APPROVED" /\ ~skipped[j] => fetched[j] = "approved"
    /\ orderResume[j] => ctxStatus[j] = "APPROVED" /\ ~skipped[j]
    /\ jobStep[j] \in {"UpsertPayment", "UpdateOrder"} => orderLock[JobOrder(j)] = j
    /\ jobStep[j] = "UpdateOrder" =>
         ctxStatus[j] = Resolved(JobOrder(j), [payment EXCEPT ![jobPayment[j]] = JobStatus(j)])
    /\ jobStep[j] = "MarkCompleted" /\ Acts(j) => Shipped(JobOrder(j))

\* What is known of payments and of the attempts of a job.
KnownInv ==
  /\ \A p \in Payments : mp[p] = "approved" => p \in everApproved
  /\ \A j \in Jobs : job[j] # "unused" => mp[jobPayment[j]] # "none"
  /\ \A j \in Jobs : job[j] # "failed" => attemptsMade[j] < Attempts

\* What a client is told, and will be told by an entry that is written back.
ToldInv ==
  \A p \in Payments :
    status[p] = "completed" \/ statusRead[p] = "completed" => Shipped(OrderOf[p])

IInv ==
  /\ TypeOK
  /\ KnownInv
  /\ \A j \in Jobs : JobInv(j)
  /\ OrderStatusFollowsPayments
  /\ ShippedOnlyIfEverApproved
  /\ ToldInv

-----------------------------------------------------------------------------
(* Statuses.                                                               *)

LEMMA FormatFacts ==
  /\ "none" \notin MpStatus
  /\ \A s \in MpStatus : Format[s] \in DbStatus /\ (Format[s] = "APPROVED" => s = "approved")
  BY DEF MpStatus, Format, DbStatus

LEMMA ResolvedFacts ==
  ASSUME NEW o, NEW pay
  PROVE  /\ Resolved(o, pay) \in DbStatus \ {"none"}
         /\ \A p \in Payments : OrderOf[p] = o /\ pay[p] # "none" /\ Resolved(o, pay) = "APPROVED"
              => pay[p] = "APPROVED"
  BY DEF Resolved, Recorded, DbStatus

\* Payments of other orders do not matter.
LEMMA ResolvedSame ==
  ASSUME NEW o, NEW pay, NEW other,
         \A p \in Payments : OrderOf[p] = o => pay[p] = other[p]
  PROVE  Resolved(o, pay) = Resolved(o, other)
<1>1. Recorded(o, pay) = Recorded(o, other)
  BY DEF Recorded
<1> QED
  BY <1>1 DEF Resolved

-----------------------------------------------------------------------------
(* Types.                                                                  *)

LEMMA JobTypes ==
  ASSUME TypeOK, NEW j \in Jobs
  PROVE  /\ jobPayment[j] \in Payments /\ JobOrder(j) \in Orders
         /\ fetched[j] \in MpStatus => JobStatus(j) \in DbStatus
  BY WorkerAssumption, FormatFacts DEF TypeOK, JobOrder, JobStatus

LEMMA TypeInit ==
  ASSUME Init
  PROVE  TypeOK
<1>1. (CHOOSE p \in Payments : TRUE) \in Payments
  BY WorkerAssumption
<1> QED
  BY <1>1, WorkerAssumption DEF Init, TypeOK, DbStatus, StepNames

LEMMA ThrowsTypes ==
  ASSUME TypeOK, KnownInv, NEW j \in Jobs, job[j] = "active", Throws(j)
  PROVE  TypeOK'
<1>1. attemptsMade[j] + 1 \in 0 .. Attempts
  BY WorkerAssumption DEF TypeOK, KnownInv
<1> QED
  BY <1>1 DEF TypeOK, Throws, pollVars, mpVars, ctxVars

LEMMA TypeStep ==
  ASSUME TypeOK, KnownInv, \A j \in Jobs : JobInv(j), [Next]_vars
  PROVE  TypeOK'
<1> USE DEF TypeOK, dbVars, pollVars, queueVars, ctxVars, mpVars, GoTo, At
<1>1. ASSUME NEW p \in Payments, PaymentMoves(p)
      PROVE  TypeOK'
  BY <1>1 DEF PaymentMoves
<1>2. ASSUME NEW p \in Payments, PollStatus(p) \/ RewriteStatus(p)
      PROVE  TypeOK'
  BY <1>2 DEF PollStatus, RewriteStatus
<1>3. ASSUME NEW p \in Payments, NEW j \in Jobs, Webhook(j, p)
      PROVE  TypeOK'
  BY <1>3 DEF Webhook
<1>4. ASSUME NEW j \in Jobs, Enqueue(j)
      PROVE  TypeOK'
  BY <1>4 DEF Enqueue
<1>5. ASSUME NEW j \in Jobs, Start(j)
      PROVE  TypeOK'
  BY <1>5 DEF Start, StepNames
<1>6. ASSUME NEW j \in Jobs, StepThrows(j)
      PROVE  TypeOK'
  BY <1>6, ThrowsTypes DEF StepThrows
<1>7. ASSUME NEW j \in Jobs, FetchPaymentDetails(j)
      PROVE  TypeOK'
  BY <1>7 DEF FetchPaymentDetails, StepNames
<1>8. ASSUME NEW j \in Jobs, FindPayment(j)
      PROVE  TypeOK'
  <2>1. JobStatus(j) \in DbStatus
    BY <1>8, JobTypes DEF FindPayment, JobInv
  <2> QED
    BY <1>8, <2>1 DEF FindPayment, StepNames
<1>9. ASSUME NEW j \in Jobs, LockOrder(j)
      PROVE  TypeOK'
  BY <1>9 DEF LockOrder, StepNames
<1>10. ASSUME NEW j \in Jobs, UpsertPayment(j)
       PROVE  TypeOK'
  BY <1>10, ResolvedFacts DEF UpsertPayment, StepNames
<1>11. ASSUME NEW j \in Jobs, UpdateOrder(j)
       PROVE  TypeOK'
  <2>1. JobStatus(j) \in DbStatus /\ ctxStatus[j] \in DbStatus
    BY <1>11, JobTypes, ResolvedFacts DEF UpdateOrder, JobInv
  <2> QED
    BY <1>11, <2>1 DEF UpdateOrder, StepNames
<1>12. ASSUME NEW j \in Jobs, RestoreStock(j)
       PROVE  TypeOK'
  <2>1. restored' \in [Orders -> Nat]
    BY <1>12, JobTypes DEF RestoreStock
  <2> QED
    BY <1>12, <2>1 DEF RestoreStock, StepNames
<1>13. ASSUME NEW j \in Jobs, SendNotification(j)
       PROVE  TypeOK'
  BY <1>13 DEF SendNotification, StepNames
<1>14. ASSUME NEW j \in Jobs, CreateShipping(j)
       PROVE  TypeOK'
  <2>1. CASE Throws(j)
    BY <1>14, <2>1, ThrowsTypes DEF CreateShipping
  <2>2. CASE ~Throws(j)
    BY <1>14, <2>2 DEF CreateShipping, StepNames
  <2> QED
    BY <2>1, <2>2
<1>15. ASSUME NEW j \in Jobs, MarkCompleted(j)
       PROVE  TypeOK'
  BY <1>15 DEF MarkCompleted, StepNames
<1>16. ASSUME NEW j \in Jobs, InvalidateDetails(j)
       PROVE  TypeOK'
  BY <1>16 DEF InvalidateDetails
<1>17. ASSUME NEW o \in Orders, PollReads(o) \/ PollCaches(o) \/ ViewDetails(o)
       PROVE  TypeOK'
  BY <1>17 DEF PollReads, PollCaches, ViewDetails
<1>18. ASSUME NEW o \in Orders, OverrideReads(o) \/ OverrideUpdates(o)
       PROVE  TypeOK'
  <2>1. CASE OverrideReads(o)
    BY <2>1 DEF OverrideReads
  <2>2. CASE OverrideUpdates(o)
    <3>1. orderStatus' \in [Orders -> DbStatus]
      BY <2>2, WorkerAssumption DEF OverrideUpdates
    <3> QED
      BY <2>2, <3>1 DEF OverrideUpdates
  <2> QED
    BY <1>18, <2>1, <2>2
<1>19. ASSUME NEW o \in Orders, CancelOrder(o)
       PROVE  TypeOK'
  BY <1>19 DEF CancelOrder, DbStatus
<1>20. CASE Crash
  BY <1>20 DEF Crash
<1>21. CASE UNCHANGED vars
  BY <1>21 DEF vars
<1> QED
  BY <1>1, <1>2, <1>3, <1>4, <1>5, <1>6, <1>7, <1>8, <1>9, <1>10, <1>11, <1>12, <1>13, <1>14,
     <1>15, <1>16, <1>17, <1>18, <1>19, <1>20, <1>21 DEF Next, JobStepAction

-----------------------------------------------------------------------------
(* What is known of payments and attempts.                                 *)

LEMMA KnownInit ==
  ASSUME Init
  PROVE  KnownInv /\ (\A j \in Jobs : JobInv(j)) /\ ToldInv
  BY WorkerAssumption DEF Init, KnownInv, JobInv, ToldInv

LEMMA KnownStep ==
  ASSUME TypeOK, KnownInv, [Next]_vars
  PROVE  KnownInv'
<1> USE DEF KnownInv, TypeOK, queueVars, mpVars
<1>1. ASSUME NEW p \in Payments, PaymentMoves(p)
      PROVE  KnownInv'
  <2>1. PICK s \in MpStatus :
          /\ mp' = [mp EXCEPT ![p] = s]
          /\ everApproved' = IF s = "approved" THEN everApproved \cup {p} ELSE everApproved
    BY <1>1 DEF PaymentMoves
  <2>2. UNCHANGED queueVars /\ s # "none"
    BY <1>1, FormatFacts DEF PaymentMoves
  <2> QED
    BY <2>1, <2>2
<1>2. ASSUME NEW p \in Payments, NEW j \in Jobs, Webhook(j, p)
      PROVE  KnownInv'
  BY <1>2 DEF Webhook
<1>3. ASSUME NEW j \in Jobs, Throws(j), job[j] = "active"
      PROVE  KnownInv'
  <2>1. /\ attemptsMade' = [attemptsMade EXCEPT ![j] = attemptsMade[j] + 1]
        /\ job' = [job EXCEPT ![j] = IF attemptsMade[j] + 1 < Attempts
                                     THEN "waiting" ELSE "failed"]
        /\ UNCHANGED <<mp, everApproved, jobPayment>>
    BY <1>3 DEF Throws
  <2>2. ASSUME NEW k \in Jobs, job'[k] # "failed"
        PROVE  attemptsMade'[k] < Attempts
    <3>1. CASE k = j
      <4>1. attemptsMade'[k] = attemptsMade[j] + 1
        BY <2>1, <3>1
      <4>2. job'[k] # "failed" => attemptsMade[j] + 1 < Attempts
        BY <2>1, <3>1
      <4> QED
        BY <2>2, <4>1, <4>2
    <3>2. CASE k # j
      BY <2>1, <2>2, <3>2
    <3> QED
      BY <3>1, <3>2
  <2> QED
    BY <1>3, <2>1, <2>2
<1>4. ASSUME UNCHANGED <<mp, everApproved, jobPayment, attemptsMade>>,
             \A j \in Jobs : job'[j] # "unused" => job[j] # "unused",
             \A j \in Jobs : job'[j] # "failed" => job[j] # "failed"
      PROVE  KnownInv'
  BY <1>4
<1>5. ASSUME NEW j \in Jobs, Enqueue(j) \/ Start(j)
      PROVE  KnownInv'
  BY <1>4, <1>5 DEF Enqueue, Start
<1>6. ASSUME NEW j \in Jobs, JobStepAction(j)
      PROVE  KnownInv'
  <2>1. CASE MarkCompleted(j) \/ InvalidateDetails(j)
    BY <1>4, <2>1 DEF MarkCompleted, InvalidateDetails, At
  <2>2. CASE CreateShipping(j)
    BY <1>3, <1>4, <2>2 DEF CreateShipping, At
  <2>3. CASE \/ FetchPaymentDetails(j) \/ FindPayment(j) \/ LockOrder(j) \/ UpsertPayment(j)
             \/ UpdateOrder(j) \/ RestoreStock(j) \/ SendNotification(j)
    BY <1>4, <2>3 DEF FetchPaymentDetails, FindPayment, LockOrder, UpsertPayment, UpdateOrder,
                      RestoreStock, SendNotification
  <2> QED
    BY <1>6, <2>1, <2>2, <2>3 DEF JobStepAction
<1>7. CASE Crash
  BY <1>4, <1>7 DEF Crash
<1>8. ASSUME NEW p \in Payments, PollStatus(p) \/ RewriteStatus(p)
      PROVE  KnownInv'
  BY <1>4, <1>8 DEF PollStatus, RewriteStatus
<1>9. ASSUME NEW o \in Orders,
             \/ PollReads(o) \/ PollCaches(o) \/ ViewDetails(o)
             \/ OverrideReads(o) \/ OverrideUpdates(o) \/ CancelOrder(o)
      PROVE  KnownInv'
  BY <1>4, <1>9 DEF PollReads, PollCaches, ViewDetails, OverrideReads, OverrideUpdates, CancelOrder
<1>10. CASE UNCHANGED vars
  BY <1>4, <1>10 DEF vars
<1> QED
  BY <1>1, <1>2, <1>3, <1>5, <1>6, <1>7, <1>8, <1>9, <1>10 DEF Next, StepThrows

-----------------------------------------------------------------------------
(* What a running job knows.                                               *)

SameJob(j) ==
  /\ job'[j] = job[j] /\ jobStep'[j] = jobStep[j] /\ jobPayment'[j] = jobPayment[j]
  /\ fetched'[j] = fetched[j] /\ ctxStatus'[j] = ctxStatus[j]
  /\ skipped'[j] = skipped[j] /\ orderResume'[j] = orderResume[j]

StaysShipped == \A o \in Orders : Shipped(o) => Shipped(o)'

\* A job still knows what it knew after a step that leaves it alone, its lock
\* and the payments of the order it has locked.
LEMMA OtherJob ==
  ASSUME TypeOK, NEW j \in Jobs, JobInv(j), SameJob(j),
         everApproved \subseteq everApproved', StaysShipped,
         job[j] = "active" /\ jobStep[j] \in {"UpsertPayment", "UpdateOrder"} =>
           orderLock'[JobOrder(j)] = orderLock[JobOrder(j)],
         job[j] = "active" /\ jobStep[j] = "UpdateOrder" =>
           \A p \in Payments : OrderOf[p] = JobOrder(j) => payment'[p] = payment[p],
         payment' \in [Payments -> DbStatus \cup {"none"}]
  PROVE  JobInv(j)'
<1> SUFFICES ASSUME job[j] = "active"
             PROVE  JobInv(j)'
  BY DEF SameJob, JobInv
<1>1. /\ JobOrder(j)' = JobOrder(j) /\ JobStatus(j)' = JobStatus(j) /\ Acts(j)' = Acts(j)
      /\ JobOrder(j) \in Orders
  BY JobTypes DEF SameJob, JobOrder, JobStatus, Acts
<1>2. ASSUME jobStep[j] = "UpdateOrder"
      PROVE  ctxStatus'[j] = Resolved(JobOrder(j)', [payment' EXCEPT ![jobPayment'[j]] = JobStatus(j)'])
  <2> DEFINE a == [payment EXCEPT ![jobPayment[j]] = JobStatus(j)]
             b == [payment' EXCEPT ![jobPayment[j]] = JobStatus(j)]
  <2>1. \A p \in Payments : OrderOf[p] = JobOrder(j) => a[p] = b[p]
    BY <1>2 DEF TypeOK
  <2> HIDE DEF a, b
  <2>2. Resolved(JobOrder(j), a) = Resolved(JobOrder(j), b)
    BY <2>1, ResolvedSame
  <2>3. ctxStatus[j] = Resolved(JobOrder(j), a)
    BY <1>2 DEF JobInv, a
  <2>4. ctxStatus'[j] = Resolved(JobOrder(j), b)
    BY <2>2, <2>3 DEF SameJob
  <2> QED
    BY <1>1, <2>4 DEF b, SameJob
<1>3. jobStep[j] = "MarkCompleted" /\ Acts(j) =>
        shipping'[JobOrder(j)] \/ cancels'[JobOrder(j)] > 0
  BY <1>1 DEF JobInv, StaysShipped, Shipped
<1> QED
  BY <1>1, <1>2, <1>3 DEF SameJob, JobInv, Shipped

\* Steps of clients, of MercadoPago and of nobody.
LEMMA QuietStep ==
  ASSUME TypeOK, \A j \in Jobs : JobInv(j),
         UNCHANGED <<queueVars, jobStep, ctxVars, payment, orderLock>>,
         everApproved \subseteq everApproved', StaysShipped
  PROVE  \A j \in Jobs : JobInv(j)'
<1> SUFFICES ASSUME NEW j \in Jobs
             PROVE  JobInv(j)'
  OBVIOUS
<1>1. SameJob(j)
  BY DEF SameJob, queueVars, ctxVars
<1>2. payment' \in [Payments -> DbStatus \cup {"none"}] /\ payment' = payment /\ orderLock' = orderLock
  BY DEF TypeOK
<1> QED
  BY <1>1, <1>2, OtherJob

\* A step of job j leaves the other jobs alone if it takes nobody's lock, and
\* touches an order's payments only under its lock.
LEMMA OtherJobs ==
  ASSUME TypeOK, \A k \in Jobs : JobInv(k), NEW j \in Jobs,
         \A k \in Jobs \ {j} : SameJob(k),
         UNCHANGED everApproved, StaysShipped,
         \A o \in Orders : orderLock[o] \notin {j, NoJob} => orderLock'[o] = orderLock[o],
         \A p \in Payments : orderLock[OrderOf[p]] # j => payment'[p] = payment[p],
         payment' \in [Payments -> DbStatus \cup {"none"}],
         JobInv(j)'
  PROVE  \A k \in Jobs : JobInv(k)'
<1> SUFFICES ASSUME NEW k \in Jobs, k # j
             PROVE  JobInv(k)'
  OBVIOUS
<1>1. JobOrder(k) \in Orders
  BY JobTypes
<1>2. ASSUME job[k] = "active", jobStep[k] \in {"UpsertPayment", "UpdateOrder"}
      PROVE  orderLock[JobOrder(k)] = k /\ k # NoJob
  BY <1>2, WorkerAssumption DEF JobInv
<1>3. ASSUME job[k] = "active", jobStep[k] \in {"UpsertPayment", "UpdateOrder"}
      PROVE  orderLock'[JobOrder(k)] = orderLock[JobOrder(k)]
  BY <1>1, <1>2, <1>3
<1>4. ASSUME job[k] = "active", jobStep[k] = "UpdateOrder"
      PROVE  \A p \in Payments : OrderOf[p] = JobOrder(k) => payment'[p] = payment[p]
  BY <1>2, <1>4
<1>5. SameJob(k) /\ JobInv(k)
  OBVIOUS
<1> QED
  BY <1>3, <1>4, <1>5, OtherJob

\* Most steps leave everything of the database alone.
LEMMA JobAlone ==
  ASSUME TypeOK, \A k \in Jobs : JobInv(k), NEW j \in Jobs,
         \A k \in Jobs \ {j} : SameJob(k),
         UNCHANGED <<everApproved, orderLock, payment, shipping, cancels>>,
         JobInv(j)'
  PROVE  \A k \in Jobs : JobInv(k)'
<1>1. StaysShipped /\ payment' \in [Payments -> DbStatus \cup {"none"}]
  BY DEF StaysShipped, Shipped, TypeOK
<1>2. \A o \in Orders : orderLock[o] \notin {j, NoJob} => orderLock'[o] = orderLock[o]
  OBVIOUS
<1>3. \A p \in Payments : orderLock[OrderOf[p]] # j => payment'[p] = payment[p]
  OBVIOUS
<1> QED
  BY <1>1, <1>2, <1>3, OtherJobs

LEMMA ThrowsJobs ==
  ASSUME TypeOK, \A k \in Jobs : JobInv(k), NEW j \in Jobs, job[j] = "active", Throws(j)
  PROVE  \A k \in Jobs : JobInv(k)'
<1>1. /\ UNCHANGED <<everApproved, payment, shipping, cancels, jobPayment, jobStep, ctxVars>>
      /\ orderLock' = [o \in Orders |-> IF orderLock[o] = j THEN NoJob ELSE orderLock[o]]
      /\ \A k \in Jobs \ {j} : job'[k] = job[k]
      /\ job'[j] # "active"
  BY DEF Throws, mpVars, TypeOK
<1>2. \A k \in Jobs \ {j} : SameJob(k)
  BY <1>1 DEF SameJob, ctxVars
<1>3. JobInv(j)'
  BY <1>1 DEF JobInv
<1>4. StaysShipped /\ payment' \in [Payments -> DbStatus \cup {"none"}]
  BY <1>1 DEF StaysShipped, Shipped, TypeOK
<1>5. \A o \in Orders : orderLock[o] \notin {j, NoJob} => orderLock'[o] = orderLock[o]
  BY <1>1
<1>6. \A p \in Payments : orderLock[OrderOf[p]] # j => payment'[p] = payment[p]
  BY <1>1
<1>7. UNCHANGED everApproved
  BY <1>1
<1> QED
  BY <1>2, <1>3, <1>4, <1>5, <1>6, <1>7, OtherJobs

LEMMA JobStepKnows ==
  ASSUME TypeOK, KnownInv, \A k \in Jobs : JobInv(k), NEW j \in Jobs, JobStepAction(j)
  PROVE  \A k \in Jobs : JobInv(k)'
<1> USE DEF GoTo, At, queueVars, ctxVars, dbVars, mpVars
<1>1. JobOrder(j) \in Orders /\ JobInv(j) /\ jobPayment[j] \in Payments
  BY JobTypes
<1>2. CASE FetchPaymentDetails(j)
  <2>1. fetched'[j] = mp[jobPayment[j]] /\ fetched'[j] \in MpStatus
    BY <1>1, <1>2 DEF FetchPaymentDetails, KnownInv, TypeOK
  <2>2. JobInv(j)'
    BY <1>1, <1>2, <2>1 DEF FetchPaymentDetails, JobInv, KnownInv, TypeOK
  <2> QED
    BY <1>2, <2>2, JobAlone DEF FetchPaymentDetails, SameJob, TypeOK
<1>3. CASE FindPayment(j)
  <2>1. fetched[j] \in MpStatus /\ JobStatus(j) \in DbStatus
    BY <1>1, <1>3, JobTypes DEF FindPayment, JobInv
  <2>2. /\ ctxStatus[j] = "none" /\ ~orderResume[j] /\ job[j] = "active"
        /\ UNCHANGED <<job, fetched, jobPayment, orderResume, everApproved>>
        /\ fetched[j] = "approved" => jobPayment[j] \in everApproved
    BY <1>1, <1>3 DEF FindPayment, JobInv, TypeOK
  <2>3. ASSUME payment[jobPayment[j]] = JobStatus(j)
        PROVE  JobInv(j)'
    <3>1. skipped'[j] = (payment[jobPayment[j]] = JobStatus(j)) /\ jobStep'[j] = "RestoreStock"
      BY <1>3, <2>3 DEF FindPayment, TypeOK
    <3>2. skipped'[j]
      BY <2>3, <3>1
    <3> QED
      BY <2>1, <2>2, <3>1, <3>2 DEF JobInv
  <2>4. ASSUME payment[jobPayment[j]] # JobStatus(j)
        PROVE  JobInv(j)'
    <3>1. ctxStatus'[j] = "none" /\ jobStep'[j] = "LockOrder"
      BY <1>3, <2>4 DEF FindPayment, TypeOK
    <3> QED
      BY <2>1, <2>2, <3>1 DEF JobInv
  <2>5. JobInv(j)'
    BY <2>3, <2>4
  <2> QED
    BY <1>3, <2>5, JobAlone DEF FindPayment, SameJob, TypeOK
<1>4. CASE LockOrder(j)
  <2>1. JobInv(j)'
    BY <1>1, <1>4 DEF LockOrder, JobInv, TypeOK, JobOrder
  <2>2. StaysShipped /\ payment' \in [Payments -> DbStatus \cup {"none"}]
    BY <1>4 DEF LockOrder, StaysShipped, Shipped, TypeOK
  <2> QED
    BY <1>4, <2>1, <2>2, OtherJobs DEF LockOrder, SameJob, TypeOK
<1>5. CASE UpsertPayment(j)
  <2> DEFINE new == [payment EXCEPT ![jobPayment[j]] = JobStatus(j)]
  <2>1. /\ ctxStatus'[j] = Resolved(JobOrder(j), new) /\ jobStep'[j] = "UpdateOrder"
        /\ UNCHANGED <<payment, jobPayment, fetched, skipped, orderResume, orderLock, job,
                       everApproved>>
        /\ job[j] = "active" /\ jobStep[j] = "UpsertPayment"
    BY <1>1, <1>5 DEF UpsertPayment, TypeOK
  <2>2. fetched[j] \in MpStatus /\ JobStatus(j) \in DbStatus /\ new[jobPayment[j]] = JobStatus(j)
    BY <1>1, <2>1, JobTypes DEF JobInv, TypeOK
  <2>3. JobStatus(j) # "none"
    BY <2>2 DEF DbStatus
  <2>4. ctxStatus'[j] = "APPROVED" => fetched[j] = "approved"
    <3>1. ctxStatus'[j] = "APPROVED" => new[jobPayment[j]] = "APPROVED"
      <4> HIDE DEF new
      <4> QED
        BY <1>1, <2>1, <2>2, <2>3, ResolvedFacts DEF JobOrder
    <3> QED
      BY <2>2, <3>1, FormatFacts DEF JobStatus
  <2>5. ~orderResume[j]
    BY <1>1, <2>1 DEF JobInv
  <2>6. (ctxStatus[j] = Resolved(JobOrder(j), new))'
    BY <2>1 DEF JobOrder, JobStatus
  <2>7. JobInv(j)'
    BY <1>1, <2>1, <2>2, <2>4, <2>5, <2>6 DEF JobInv, JobOrder
  <2> QED
    BY <1>5, <2>7, JobAlone DEF UpsertPayment, SameJob, TypeOK
<1>6. CASE UpdateOrder(j)
  <2>1. JobStatus(j) \in DbStatus /\ orderLock[JobOrder(j)] = j
    BY <1>1, <1>6, JobTypes DEF UpdateOrder, JobInv
  <2>2. payment' \in [Payments -> DbStatus \cup {"none"}] /\ StaysShipped /\ UNCHANGED everApproved
    BY <1>6, <2>1 DEF UpdateOrder, TypeOK, StaysShipped, Shipped
  <2>3. JobInv(j)'
    BY <1>1, <1>6 DEF UpdateOrder, JobInv, TypeOK
  <2>4. \A o \in Orders : orderLock[o] \notin {j, NoJob} => orderLock'[o] = orderLock[o]
    BY <1>6, <2>1 DEF UpdateOrder, TypeOK
  <2>5. \A p \in Payments : orderLock[OrderOf[p]] # j => payment'[p] = payment[p]
    BY <1>6, <2>1 DEF UpdateOrder, TypeOK, JobOrder
  <2>6. \A k \in Jobs \ {j} : SameJob(k)
    BY <1>6 DEF UpdateOrder, SameJob, TypeOK
  <2> QED
    BY <2>2, <2>3, <2>4, <2>5, <2>6, OtherJobs
<1>7. CASE RestoreStock(j)
  <2>1. JobInv(j)'
    BY <1>1, <1>7 DEF RestoreStock, JobInv, TypeOK
  <2> QED
    BY <1>7, <2>1, JobAlone DEF RestoreStock, SameJob, TypeOK
<1>8. CASE SendNotification(j)
  <2>1. JobInv(j)'
    BY <1>1, <1>8 DEF SendNotification, JobInv, TypeOK
  <2> QED
    BY <1>8, <2>1, JobAlone DEF SendNotification, SameJob, TypeOK
<1>9. CASE CreateShipping(j) /\ ~Throws(j)
  <2>1. /\ shipping' = [shipping EXCEPT ![JobOrder(j)] = shipping[JobOrder(j)] \/ Acts(j)]
        /\ jobStep' = [jobStep EXCEPT ![j] = "MarkCompleted"]
        /\ UNCHANGED <<everApproved, payment, orderLock, cancels, queueVars, ctxVars>>
        /\ job[j] = "active" /\ jobStep[j] = "CreateShipping"
    BY <1>9 DEF CreateShipping, Acts, TypeOK
  <2>2. StaysShipped
    BY <1>1, <2>1 DEF StaysShipped, Shipped, TypeOK
  <2>3. Acts(j) => shipping'[JobOrder(j)]
    BY <1>1, <2>1 DEF TypeOK
  <2>4. JobInv(j)'
    BY <1>1, <2>1, <2>3 DEF JobInv, TypeOK, Shipped, Acts, JobOrder
  <2>5. payment' \in [Payments -> DbStatus \cup {"none"}]
    BY <2>1 DEF TypeOK
  <2>6. \A k \in Jobs \ {j} : SameJob(k)
    BY <2>1 DEF SameJob, TypeOK
  <2> QED
    BY <2>1, <2>2, <2>4, <2>5, <2>6, OtherJobs
<1>10. CASE CreateShipping(j) /\ Throws(j)
  BY <1>10, ThrowsJobs DEF CreateShipping
<1>11. CASE MarkCompleted(j)
  <2>1. JobInv(j)'
    BY <1>1, <1>11 DEF MarkCompleted, JobInv, TypeOK
  <2> QED
    BY <1>11, <2>1, JobAlone DEF MarkCompleted, SameJob, TypeOK
<1>12. CASE InvalidateDetails(j)
  <2>1. JobInv(j)'
    BY <1>1, <1>12 DEF InvalidateDetails, JobInv, TypeOK
  <2> QED
    BY <1>12, <2>1, JobAlone DEF InvalidateDetails, SameJob, TypeOK
<1> QED
  BY <1>2, <1>3, <1>4, <1>5, <1>6, <1>7, <1>8, <1>9, <1>10, <1>11, <1>12 DEF JobStepAction

LEMMA JobsStep ==
  ASSUME TypeOK, KnownInv, \A k \in Jobs : JobInv(k), [Next]_vars
  PROVE  \A k \in Jobs : JobInv(k)'
<1> USE DEF queueVars, ctxVars, dbVars, mpVars
<1>1. ASSUME NEW p \in Payments, PaymentMoves(p)
      PROVE  \A k \in Jobs : JobInv(k)'
  <2>1. everApproved \subseteq everApproved' /\ StaysShipped
    BY <1>1 DEF PaymentMoves, StaysShipped, Shipped
  <2> QED
    BY <1>1, <2>1, QuietStep DEF PaymentMoves
<1>2. ASSUME NEW p \in Payments, PollStatus(p) \/ RewriteStatus(p)
      PROVE  \A k \in Jobs : JobInv(k)'
  <2>1. StaysShipped
    BY <1>2 DEF PollStatus, RewriteStatus, StaysShipped, Shipped
  <2> QED
    BY <1>2, <2>1, QuietStep DEF PollStatus, RewriteStatus
<1>3. ASSUME NEW o \in Orders, \/ PollReads(o) \/ PollCaches(o) \/ ViewDetails(o)
                               \/ OverrideReads(o) \/ OverrideUpdates(o)
      PROVE  \A k \in Jobs : JobInv(k)'
  <2>1. StaysShipped
    BY <1>3 DEF PollReads, PollCaches, ViewDetails, OverrideReads, OverrideUpdates,
                StaysShipped, Shipped
  <2> QED
    BY <1>3, <2>1, QuietStep DEF PollReads, PollCaches, ViewDetails, OverrideReads, OverrideUpdates
<1>4. ASSUME NEW o \in Orders, CancelOrder(o)
      PROVE  \A k \in Jobs : JobInv(k)'
  <2>1. StaysShipped
    BY <1>4 DEF CancelOrder, StaysShipped, Shipped, TypeOK
  <2> QED
    BY <1>4, <2>1, QuietStep DEF CancelOrder
<1>5. ASSUME NEW j \in Jobs, NEW p \in Payments, Webhook(j, p)
      PROVE  \A k \in Jobs : JobInv(k)'
  <2>1. JobInv(j)' /\ \A k \in Jobs \ {j} : SameJob(k)
    BY <1>5 DEF Webhook, JobInv, SameJob, TypeOK
  <2> QED
    BY <1>5, <2>1, JobAlone DEF Webhook
<1>6. ASSUME NEW j \in Jobs, Enqueue(j)
      PROVE  \A k \in Jobs : JobInv(k)'
  <2>1. JobInv(j)' /\ \A k \in Jobs \ {j} : SameJob(k)
    BY <1>6 DEF Enqueue, JobInv, SameJob, TypeOK
  <2> QED
    BY <1>6, <2>1, JobAlone DEF Enqueue
<1>7. ASSUME NEW j \in Jobs, Start(j)
      PROVE  \A k \in Jobs : JobInv(k)'
  <2>1. JobInv(j)' /\ \A k \in Jobs \ {j} : SameJob(k)
    BY <1>7 DEF Start, GoTo, JobInv, SameJob, TypeOK
  <2> QED
    BY <1>7, <2>1, JobAlone DEF Start
<1>8. ASSUME NEW j \in Jobs, JobStepAction(j)
      PROVE  \A k \in Jobs : JobInv(k)'
  BY <1>8, JobStepKnows
<1>9. ASSUME NEW j \in Jobs, StepThrows(j)
      PROVE  \A k \in Jobs : JobInv(k)'
  BY <1>9, ThrowsJobs DEF StepThrows
<1>10. CASE Crash
  BY <1>10 DEF Crash, JobInv
<1>11. CASE UNCHANGED vars
  BY <1>11, QuietStep DEF vars, StaysShipped, Shipped
<1> QED
  BY <1>1, <1>2, <1>3, <1>4, <1>5, <1>6, <1>7, <1>8, <1>9, <1>10, <1>11 DEF Next

-----------------------------------------------------------------------------
(* The orders.                                                             *)

LEMMA StatusFollows ==
  ASSUME TypeOK, \A j \in Jobs : JobInv(j), OrderStatusFollowsPayments, [Next]_vars
  PROVE  OrderStatusFollowsPayments'
<1> USE DEF dbVars
<1>1. ASSUME UNCHANGED payment,
             \A o \in Orders : statusWriter'[o] = "worker" =>
               statusWriter[o] = "worker" /\ orderStatus'[o] = orderStatus[o]
      PROVE  OrderStatusFollowsPayments'
  BY <1>1 DEF OrderStatusFollowsPayments
<1>2. ASSUME NEW j \in Jobs, UpdateOrder(j)
      PROVE  OrderStatusFollowsPayments'
  <2> DEFINE new == [payment EXCEPT ![jobPayment[j]] = JobStatus(j)]
  <2>1. /\ payment' = new
        /\ orderStatus' = [orderStatus EXCEPT ![JobOrder(j)] = ctxStatus[j]]
        /\ statusWriter' = [statusWriter EXCEPT ![JobOrder(j)] = "worker"]
        /\ JobOrder(j) \in Orders /\ jobPayment[j] \in Payments
    BY <1>2, JobTypes DEF UpdateOrder
  <2>2. ctxStatus[j] = Resolved(JobOrder(j), new)
    BY <1>2 DEF UpdateOrder, At, JobInv
  <2>3. \A p \in Payments : OrderOf[p] # JobOrder(j) => new[p] = payment[p]
    BY DEF TypeOK, JobOrder
  <2> HIDE DEF new
  <2>4. ASSUME NEW o \in Orders, statusWriter'[o] = "worker"
        PROVE  orderStatus'[o] = Resolved(o, payment')
    <3>1. CASE o = JobOrder(j)
      BY <2>1, <2>2, <3>1 DEF TypeOK
    <3>2. CASE o # JobOrder(j)
      <4>1. Resolved(o, payment) = Resolved(o, new)
        BY <2>3, <3>2, ResolvedSame
      <4>2. orderStatus[o] = Resolved(o, payment) /\ orderStatus'[o] = orderStatus[o]
        BY <2>1, <2>4, <3>2 DEF TypeOK, OrderStatusFollowsPayments
      <4> QED
        BY <2>1, <4>1, <4>2
    <3> QED
      BY <3>1, <3>2
  <2> QED
    BY <2>4 DEF OrderStatusFollowsPayments
<1>3. ASSUME NEW p \in Payments, \/ PaymentMoves(p) \/ PollStatus(p) \/ RewriteStatus(p)
                                 \/ \E j \in Jobs : Webhook(j, p)
      PROVE  OrderStatusFollowsPayments'
  BY <1>1, <1>3 DEF PaymentMoves, PollStatus, RewriteStatus, Webhook
<1>4. ASSUME NEW j \in Jobs, Enqueue(j) \/ Start(j) \/ Throws(j)
      PROVE  OrderStatusFollowsPayments'
  BY <1>1, <1>4 DEF Enqueue, Start, Throws
<1>5. ASSUME NEW j \in Jobs,
             \/ FetchPaymentDetails(j) \/ FindPayment(j) \/ LockOrder(j) \/ UpsertPayment(j)
             \/ RestoreStock(j) \/ SendNotification(j) \/ MarkCompleted(j) \/ InvalidateDetails(j)
      PROVE  OrderStatusFollowsPayments'
  BY <1>1, <1>5 DEF FetchPaymentDetails, FindPayment, LockOrder, UpsertPayment, RestoreStock,
                    SendNotification, MarkCompleted, InvalidateDetails
<1>6. ASSUME NEW j \in Jobs, CreateShipping(j)
      PROVE  OrderStatusFollowsPayments'
  BY <1>1, <1>4, <1>6 DEF CreateShipping
<1>7. ASSUME NEW o \in Orders, PollReads(o) \/ PollCaches(o) \/ ViewDetails(o) \/ OverrideReads(o)
      PROVE  OrderStatusFollowsPayments'
  BY <1>1, <1>7 DEF PollReads, PollCaches, ViewDetails, OverrideReads
<1>8. ASSUME NEW o \in Orders, OverrideUpdates(o) \/ CancelOrder(o)
      PROVE  OrderStatusFollowsPayments'
  BY <1>1, <1>8 DEF OverrideUpdates, CancelOrder, TypeOK
<1>9. CASE Crash
  BY <1>1, <1>9 DEF Crash
<1>10. CASE UNCHANGED vars
  BY <1>1, <1>10 DEF vars
<1> QED
  BY <1>2, <1>3, <1>4, <1>5, <1>6, <1>7, <1>8, <1>9, <1>10 DEF Next, JobStepAction, StepThrows

\* A shipping appears only in CreateShipping, for a job that has fetched an
\* approved payment of the order.
LEMMA ShippingStep ==
  ASSUME TypeOK, \A j \in Jobs : JobInv(j), ShippedOnlyIfEverApproved, [Next]_vars
  PROVE  ShippedOnlyIfEverApproved'
<1> USE DEF dbVars, mpVars
<1>1. ASSUME everApproved \subseteq everApproved', \A o \in Orders : shipping'[o] => shipping[o]
      PROVE  ShippedOnlyIfEverApproved'
  BY <1>1 DEF ShippedOnlyIfEverApproved
<1>2. ASSUME NEW j \in Jobs, CreateShipping(j), ~Throws(j)
      PROVE  ShippedOnlyIfEverApproved'
  <2>1. /\ shipping' = [shipping EXCEPT ![JobOrder(j)] = shipping[JobOrder(j)] \/ Acts(j)]
        /\ everApproved' = everApproved
        /\ job[j] = "active" /\ jobStep[j] = "CreateShipping" /\ orderResume[j]
    BY <1>2 DEF CreateShipping, Acts, At, TypeOK
  <2>2. jobPayment[j] \in everApproved /\ jobPayment[j] \in PaymentsOf(JobOrder(j))
    BY <2>1, JobTypes DEF JobInv, PaymentsOf, JobOrder
  <2>3. ASSUME NEW o \in Orders, shipping'[o]
        PROVE  PaymentsOf(o) \cap everApproved # {}
    <3>1. CASE o = JobOrder(j)
      BY <2>2, <3>1
    <3>2. CASE o # JobOrder(j)
      BY <2>1, <2>3, <3>2 DEF TypeOK, ShippedOnlyIfEverApproved
    <3> QED
      BY <3>1, <3>2
  <2> QED
    BY <2>1, <2>3 DEF ShippedOnlyIfEverApproved, PaymentsOf
<1>3. ASSUME NEW p \in Payments, \/ PaymentMoves(p) \/ PollStatus(p) \/ RewriteStatus(p)
                                 \/ \E j \in Jobs : Webhook(j, p)
      PROVE  ShippedOnlyIfEverApproved'
  BY <1>1, <1>3 DEF PaymentMoves, PollStatus, RewriteStatus, Webhook
<1>4. ASSUME NEW j \in Jobs, Enqueue(j) \/ Start(j) \/ Throws(j)
      PROVE  ShippedOnlyIfEverApproved'
  BY <1>1, <1>4 DEF Enqueue, Start, Throws
<1>5. ASSUME NEW j \in Jobs,
             \/ FetchPaymentDetails(j) \/ FindPayment(j) \/ LockOrder(j) \/ UpsertPayment(j)
             \/ UpdateOrder(j) \/ RestoreStock(j) \/ SendNotification(j) \/ MarkCompleted(j)
             \/ InvalidateDetails(j)
      PROVE  ShippedOnlyIfEverApproved'
  BY <1>1, <1>5 DEF FetchPaymentDetails, FindPayment, LockOrder, UpsertPayment, UpdateOrder,
                    RestoreStock, SendNotification, MarkCompleted, InvalidateDetails
<1>6. ASSUME NEW o \in Orders, \/ PollReads(o) \/ PollCaches(o) \/ ViewDetails(o)
                               \/ OverrideReads(o) \/ OverrideUpdates(o)
      PROVE  ShippedOnlyIfEverApproved'
  BY <1>1, <1>6 DEF PollReads, PollCaches, ViewDetails, OverrideReads, OverrideUpdates
<1>7. ASSUME NEW o \in Orders, CancelOrder(o)
      PROVE  ShippedOnlyIfEverApproved'
  BY <1>1, <1>7 DEF CancelOrder, TypeOK
<1>8. CASE Crash
  BY <1>1, <1>8 DEF Crash
<1>9. CASE UNCHANGED vars
  BY <1>1, <1>9 DEF vars
<1> QED
  BY <1>2, <1>3, <1>4, <1>5, <1>6, <1>7, <1>8, <1>9 DEF Next, JobStepAction, StepThrows

\* No step un-ships an order without cancelling it.
LEMMA ShippedStays ==
  ASSUME TypeOK, [Next]_vars
  PROVE  StaysShipped
<1> USE DEF dbVars, StaysShipped, Shipped
<1>1. ASSUME NEW p \in Payments, \/ PaymentMoves(p) \/ PollStatus(p) \/ RewriteStatus(p)
                                 \/ \E j \in Jobs : Webhook(j, p)
      PROVE  StaysShipped
  BY <1>1 DEF PaymentMoves, PollStatus, RewriteStatus, Webhook
<1>2. ASSUME NEW j \in Jobs, Enqueue(j) \/ Start(j) \/ Throws(j)
      PROVE  StaysShipped
  BY <1>2 DEF Enqueue, Start, Throws
<1>3. ASSUME NEW j \in Jobs,
             \/ FetchPaymentDetails(j) \/ FindPayment(j) \/ LockOrder(j) \/ UpsertPayment(j)
             \/ UpdateOrder(j) \/ RestoreStock(j) \/ SendNotification(j) \/ MarkCompleted(j)
             \/ InvalidateDetails(j)
      PROVE  StaysShipped
  BY <1>3 DEF FetchPaymentDetails, FindPayment, LockOrder, UpsertPayment, UpdateOrder,
              RestoreStock, SendNotification, MarkCompleted, InvalidateDetails
<1>4. ASSUME NEW j \in Jobs, CreateShipping(j)
      PROVE  StaysShipped
  BY <1>2, <1>4 DEF CreateShipping, TypeOK
<1>5. ASSUME NEW o \in Orders, \/ PollReads(o) \/ PollCaches(o) \/ ViewDetails(o)
                               \/ OverrideReads(o) \/ OverrideUpdates(o)
      PROVE  StaysShipped
  BY <1>5 DEF PollReads, PollCaches, ViewDetails, OverrideReads, OverrideUpdates
<1>6. ASSUME NEW o \in Orders, CancelOrder(o)
      PROVE  StaysShipped
  BY <1>6 DEF CancelOrder, TypeOK
<1>7. CASE Crash
  BY <1>7 DEF Crash
<1>8. CASE UNCHANGED vars
  BY <1>8 DEF vars
<1> QED
  BY <1>1, <1>2, <1>3, <1>4, <1>5, <1>6, <1>7, <1>8 DEF Next, JobStepAction, StepThrows

LEMMA ToldStep ==
  ASSUME TypeOK, \A j \in Jobs : JobInv(j), ToldInv, [Next]_vars
  PROVE  ToldInv'
<1>1. \A p \in Payments : Shipped(OrderOf[p]) => Shipped(OrderOf[p])'
  BY ShippedStays, WorkerAssumption DEF StaysShipped, Shipped
<1>2. ASSUME \A p \in Payments : status'[p] = "completed" =>
               status[p] = "completed" \/ statusRead[p] = "completed",
             \A p \in Payments : statusRead'[p] = "completed" =>
               status[p] = "completed" \/ statusRead[p] = "completed"
      PROVE  ToldInv'
  BY <1>1, <1>2 DEF ToldInv, Shipped
<1> USE DEF pollVars
<1>3. ASSUME NEW j \in Jobs, MarkCompleted(j)
      PROVE  ToldInv'
  <2>1. CASE ~Acts(j)
    BY <1>2, <1>3, <2>1 DEF MarkCompleted, Acts
  <2>2. CASE Acts(j)
    <3>1. /\ status' = [status EXCEPT ![jobPayment[j]] = "completed"]
          /\ statusRead' = statusRead
      BY <1>3, <2>2 DEF MarkCompleted, Acts
    <3>2. Shipped(OrderOf[jobPayment[j]])
      BY <1>3, <2>2 DEF MarkCompleted, At, JobInv, JobOrder
    <3>3. ASSUME NEW p \in Payments, status'[p] = "completed" \/ statusRead'[p] = "completed"
          PROVE  Shipped(OrderOf[p])
      BY <3>1, <3>2, <3>3 DEF ToldInv, TypeOK
    <3> QED
      BY <1>1, <3>3 DEF ToldInv, Shipped
  <2> QED
    BY <2>1, <2>2
<1>4. ASSUME NEW p \in Payments, \/ PaymentMoves(p) \/ PollStatus(p) \/ RewriteStatus(p)
                                 \/ \E j \in Jobs : Webhook(j, p)
      PROVE  ToldInv'
  <2>1. CASE PaymentMoves(p)
    BY <1>2, <2>1 DEF PaymentMoves
  <2>2. CASE PollStatus(p) \/ RewriteStatus(p)
    BY <1>2, <2>2 DEF PollStatus, RewriteStatus, TypeOK
  <2>3. ASSUME NEW j \in Jobs, Webhook(j, p)
        PROVE  ToldInv'
    BY <1>2, <2>3 DEF Webhook, TypeOK
  <2> QED
    BY <1>4, <2>1, <2>2, <2>3
<1>5. ASSUME NEW j \in Jobs, Enqueue(j) \/ Start(j) \/ Throws(j)
      PROVE  ToldInv'
  BY <1>2, <1>5 DEF Enqueue, Start, Throws, TypeOK
<1>6. ASSUME NEW j \in Jobs,
             \/ FetchPaymentDetails(j) \/ FindPayment(j) \/ LockOrder(j) \/ UpsertPayment(j)
             \/ UpdateOrder(j) \/ RestoreStock(j) \/ SendNotification(j) \/ InvalidateDetails(j)
      PROVE  ToldInv'
  BY <1>2, <1>6 DEF FetchPaymentDetails, FindPayment, LockOrder, UpsertPayment, UpdateOrder,
                    RestoreStock, SendNotification, InvalidateDetails
<1>7. ASSUME NEW j \in Jobs, CreateShipping(j)
      PROVE  ToldInv'
  BY <1>2, <1>5, <1>7 DEF CreateShipping
<1>8. ASSUME NEW o \in Orders, \/ PollReads(o) \/ PollCaches(o) \/ ViewDetails(o) \/ CancelOrder(o)
                               \/ OverrideReads(o) \/ OverrideUpdates(o)
      PROVE  ToldInv'
  BY <1>2, <1>8 DEF PollReads, PollCaches, ViewDetails, OverrideReads, OverrideUpdates, CancelOrder
<1>9. CASE Crash \/ UNCHANGED vars
  BY <1>2, <1>9 DEF Crash, vars
<1> QED
  BY <1>3, <1>4, <1>5, <1>6, <1>7, <1>8, <1>9 DEF Next, JobStepAction, StepThrows

Noted(j) ==
  \/ status'[jobPayment[j]] = "failed" /\ attemptsMade'[j] = Attempts
  \/ stalls'[j] > MaxStalls

\* Only a job that throws in its last attempt is given up, or one that stalls
\* once more than it is forgiven.
LEMMA GivenUpByThrowingOrStalling ==
  ASSUME TypeOK, KnownInv, [Next]_vars, NEW j \in Jobs, job[j] # "failed", job'[j] = "failed"
  PROVE  Noted(j)
<1> USE DEF queueVars, TypeOK
<1>1. ASSUME NEW k \in Jobs, Throws(k)
      PROVE  Noted(j)
  <2>1. /\ attemptsMade' = [attemptsMade EXCEPT ![k] = attemptsMade[k] + 1]
        /\ job' = [job EXCEPT ![k] = IF attemptsMade[k] + 1 < Attempts
                                     THEN "waiting" ELSE "failed"]
        /\ status' = IF IsLastAttempt(k)
                     THEN [status EXCEPT ![jobPayment[k]] = "failed"] ELSE status
    BY <1>1 DEF Throws
  <2>2. j = k /\ ~(attemptsMade[k] + 1 < Attempts)
    BY <2>1
  <2>3. attemptsMade[k] >= Attempts - 1 /\ attemptsMade[k] + 1 <= Attempts
    <3>1. job[k] # "failed" /\ attemptsMade[k] \in Nat
      BY <2>2
    <3>2. attemptsMade[k] < Attempts
      BY <3>1 DEF KnownInv
    <3> QED
      BY <2>2, <3>1, <3>2, WorkerAssumption
  <2>4. attemptsMade'[k] = Attempts
    BY <2>1, <2>2, <2>3, WorkerAssumption
  <2> QED
    BY <2>1, <2>2, <2>3, <2>4 DEF IsLastAttempt, Noted
<1>2. ASSUME NEW k \in Jobs, JobStepAction(k)
      PROVE  Noted(j)
  <2>1. CASE CreateShipping(k)
    BY <1>1, <2>1 DEF CreateShipping
  <2>2. CASE MarkCompleted(k) \/ InvalidateDetails(k)
    BY <2>2 DEF MarkCompleted, InvalidateDetails
  <2>3. CASE \/ FetchPaymentDetails(k) \/ FindPayment(k) \/ LockOrder(k) \/ UpsertPayment(k)
             \/ UpdateOrder(k) \/ RestoreStock(k) \/ SendNotification(k)
    BY <2>3 DEF FetchPaymentDetails, FindPayment, LockOrder, UpsertPayment, UpdateOrder,
                RestoreStock, SendNotification
  <2> QED
    BY <1>2, <2>1, <2>2, <2>3 DEF JobStepAction
<1>3. ASSUME NEW p \in Payments, \/ PaymentMoves(p) \/ PollStatus(p) \/ RewriteStatus(p)
                                 \/ \E k \in Jobs : Webhook(k, p)
      PROVE  FALSE
  <2>1. CASE PaymentMoves(p) \/ PollStatus(p) \/ RewriteStatus(p)
    BY <2>1 DEF PaymentMoves, PollStatus, RewriteStatus
  <2>2. ASSUME NEW k \in Jobs, Webhook(k, p)
        PROVE  FALSE
    BY <2>2 DEF Webhook
  <2> QED
    BY <1>3, <2>1, <2>2
<1>4. ASSUME NEW k \in Jobs, Enqueue(k) \/ Start(k)
      PROVE  FALSE
  BY <1>4 DEF Enqueue, Start
<1>5. ASSUME NEW o \in Orders, \/ PollReads(o) \/ PollCaches(o) \/ ViewDetails(o) \/ CancelOrder(o)
                               \/ OverrideReads(o) \/ OverrideUpdates(o)
      PROVE  FALSE
  BY <1>5 DEF PollReads, PollCaches, ViewDetails, OverrideReads, OverrideUpdates, CancelOrder
<1>6. CASE Crash
  <2>1. stalls'[j] = stalls[j] + 1 /\ ~(stalls[j] < MaxStalls)
    BY <1>6 DEF Crash
  <2> QED
    BY <2>1, WorkerAssumption DEF Noted
<1>7. CASE UNCHANGED vars
  BY <1>7 DEF vars
<1> QED
  BY <1>1, <1>2, <1>3, <1>4, <1>5, <1>6, <1>7 DEF Next, StepThrows

-----------------------------------------------------------------------------
(* Theorems.                                                               *)

\* The strengthened invariant is inductive.
THEOREM Invariance == Spec => []IInv
<1>1. Init => IInv
  <2> SUFFICES ASSUME Init PROVE IInv
    OBVIOUS
  <2>1. OrderStatusFollowsPayments /\ ShippedOnlyIfEverApproved
    BY DEF Init, OrderStatusFollowsPayments, ShippedOnlyIfEverApproved
  <2> QED
    BY <2>1, TypeInit, KnownInit DEF IInv
<1>2. IInv /\ [Next]_vars => IInv'
  <2> SUFFICES ASSUME IInv, [Next]_vars PROVE IInv'
    OBVIOUS
  <2>1. /\ TypeOK /\ KnownInv /\ \A j \in Jobs : JobInv(j)
        /\ OrderStatusFollowsPayments /\ ShippedOnlyIfEverApproved /\ ToldInv
    BY DEF IInv
  <2>2. TypeOK' /\ KnownInv' /\ (\A j \in Jobs : JobInv(j)')
    BY <2>1, TypeStep, KnownStep, JobsStep
  <2>3. OrderStatusFollowsPayments' /\ ShippedOnlyIfEverApproved' /\ ToldInv'
    BY <2>1, StatusFollows, ShippingStep, ToldStep
  <2> QED
    BY <2>2, <2>3 DEF IInv
<1> QED
  BY <1>1, <1>2, PTL DEF Spec

\* The variables keep their types, for any number of notifications.
THEOREM TypeCorrect == Spec => []TypeOK
<1>1. IInv => TypeOK
  BY DEF IInv
<1> QED
  BY <1>1, Invariance, PTL

\* Whoever else handles a payment of the order at the same time, the status
\* the worker writes is the one the recorded payments add up to.
THEOREM StatusIsResolved == Spec => []OrderStatusFollowsPayments
<1>1. IInv => OrderStatusFollowsPayments
  BY DEF IInv
<1> QED
  BY <1>1, Invariance, PTL

\* No interleaving of duplicates, retries, polls, overrides and crashes ships
\* an order none of whose payments MercadoPago has ever approved.
THEOREM NothingShippedUnapproved == Spec => []ShippedOnlyIfEverApproved
<1>1. IInv => ShippedOnlyIfEverApproved
  BY DEF IInv
<1> QED
  BY <1>1, Invariance, PTL

\* A client is told "completed" only about an order that has a shipping or was
\* cancelled, also by an entry a poll has written back late.
THEOREM CompletedIsTrue == Spec => []CompletedMeansShipped
<1>1. IInv => CompletedMeansShipped
  BY DEF IInv, ToldInv, CompletedMeansShipped, Shipped
<1> QED
  BY <1>1, Invariance, PTL

\* A job that is given up has told its client so after its last attempt, unless
\* it has stalled more often than BullMQ forgives: for any number of attempts,
\* stalls and crashes.
THEOREM FailureNoted == Spec => GivenUpNotedUnlessStalled
<1>1. IInv /\ [Next]_vars =>
        [\A j \in Jobs : job[j] # "failed" /\ job'[j] = "failed" =>
           \/ status'[jobPayment[j]] = "failed" /\ attemptsMade'[j] = Attempts
           \/ stalls'[j] > MaxStalls]_vars
  BY GivenUpByThrowingOrStalling DEF IInv, Noted
<1> QED
  BY <1>1, Invariance, PTL DEF Spec, GivenUpNotedUnlessStalled

=============================================================================
