---------------------------- MODULE PaymentWorker ----------------------------
(***************************************************************************)
(* The road of a payment notification: MercadoPago calls the webhook, the  *)
(* webhook notes "processing" in the cache and queues a job, and a BullMQ  *)
(* worker runs the job's steps one after the other, each with database     *)
(* transactions of its own; a job whose steps throw is retried from the    *)
(* first step.  Several jobs are active at once, jobs of the same payment  *)
(* and of the same order among them.                                       *)
(*                                                                         *)
(* PostgreSQL is modelled at read committed: a statement sees what has     *)
(* been committed, and its transaction's own writes; an UPDATE takes the   *)
(* row's lock until the transaction ends.                                  *)
(***************************************************************************)
EXTENDS Integers, FiniteSets

CONSTANTS
  Orders,       \* orders that exist
  Payments,     \* MercadoPago payments
  OrderOf,      \* OrderOf[p]: the order in the payment's external_reference
  MpFlow,       \* MpFlow[p]: pairs <<from, to>> of statuses MercadoPago moves p along
  Jobs,         \* bound: notifications delivered, duplicates included
  Attempts,     \* attempts of a job
  Concurrency,  \* jobs a worker runs at once
  MaxStalls,    \* BullMQ's maxStalledCount: stalls it forgives a job
  MaxCrashes,   \* bound: crashes of the process
  MaxCancels,   \* bound: cancellations by the customer
  StatusPolled, \* payments whose processing status a client polls
  DetailsPolled, \* orders whose details a client asks for
  Overrides,    \* statuses an administrator sets by hand
  NoJob

\* formatMercadoPagoOrderStatus: provider's status to the database's.
Format ==
  [approved   |-> "APPROVED",   rejected     |-> "REJECTED",
   in_process |-> "IN_PROCESS", cancelled    |-> "CANCELLED",
   authorized |-> "AUTHORIZED", pending      |-> "PENDING",
   refunded   |-> "REFUNDED",   in_mediation |-> "IN_MEDIATION",
   charged_back |-> "CHARGED_BACK"]

MpStatus == DOMAIN Format

DbStatus == {"APPROVED", "REJECTED", "IN_PROCESS", "CANCELLED", "AUTHORIZED",
             "PENDING", "REFUNDED", "IN_MEDIATION", "CHARGED_BACK", "ABANDONED"}

ASSUME WorkerAssumption ==
  /\ Payments # {}
  /\ OrderOf \in [Payments -> Orders]
  /\ MpFlow \in [Payments -> SUBSET ((MpStatus \cup {"none"}) \X MpStatus)]
  /\ StatusPolled \subseteq Payments /\ DetailsPolled \subseteq Orders
  /\ Attempts \in Nat \ {0} /\ Concurrency \in Nat \ {0}
  /\ MaxStalls \in Nat /\ MaxCrashes \in Nat /\ MaxCancels \in Nat
  /\ Overrides \subseteq DbStatus
  /\ NoJob \notin Jobs

VARIABLES
  mp,            \* MercadoPago's own status of a payment, "none" before it exists
  everApproved,  \* history: payments MercadoPago has at some time approved
  payment,       \* order_payment_details.payment_status, "none" without a row
  orderStatus,   \* order.status
  statusWriter,  \* history: who wrote order.status last
  orderLock,     \* the job whose transaction has locked the order's row
  shipping,      \* the order has a shipping row
  restored,      \* times the order's quantities were added back to the stock
  cancels,       \* times the order was cancelled by its customer
  adminRead,     \* status an administrator's request has read, "none" if there is none
  status,        \* cached payment:status of a payment
  statusRead,    \* entry a status poll has read and will write back, "none" if no poll
  details,       \* status field of the cached client:payment:details of an order
  polled,        \* order status a details poll has read, "none" if no poll
  job,           \* state of a job
  jobPayment,    \* the payment a job is about
  attemptsMade,  \* failed attempts of a job
  stalls,        \* times BullMQ has found a job stalled
  jobStep,       \* the step an active job executes
  fetched,       \* context.payment.status
  ctxStatus,     \* context.orderStatus
  skipped,       \* context.skipped
  orderResume,   \* context.orderResume is set
  crashes        \* crashes so far

dbVars == <<payment, orderStatus, statusWriter, orderLock, shipping, restored,
            cancels>>
pollVars == <<statusRead, polled, adminRead>>
queueVars == <<job, jobPayment, attemptsMade, stalls, crashes>>
ctxVars == <<fetched, ctxStatus, skipped, orderResume>>
mpVars == <<mp, everApproved>>
vars == <<mpVars, dbVars, pollVars, status, details, queueVars, jobStep, ctxVars>>

-----------------------------------------------------------------------------
(* Helpers.                                                                *)

JobOrder(j) == OrderOf[jobPayment[j]]

\* Mutant: the provider's status is stored as it is.
JobStatusRaw(j) == fetched[j]

JobStatus(j) == Format[fetched[j]]

StepNames == {"FetchPaymentDetails", "FindPayment", "LockOrder", "UpsertPayment",
              "UpdateOrder", "RestoreStock", "SendNotification", "CreateShipping",
              "MarkCompleted", "InvalidateDetails"}

ActiveJobs == {j \in Jobs : job[j] = "active"}

At(j, name) == job[j] = "active" /\ jobStep[j] = name

GoTo(j, name) == jobStep' = [jobStep EXCEPT ![j] = name]

\* The statuses of the payments recorded for order o, when pay are the rows.
Recorded(o, pay) == {pay[p] : p \in {q \in Payments : OrderOf[q] = o}} \ {"none"}

\* The order's status that its payments' rows add up to.
Resolved(o, pay) ==
  LET seen == Recorded(o, pay) IN
  IF seen \subseteq {"APPROVED"} THEN "APPROVED"
  ELSE IF "REJECTED" \in seen THEN "REJECTED"
  ELSE IF "CANCELLED" \in seen THEN "CANCELLED"
  ELSE IF "PENDING" \in seen THEN "PENDING"
  ELSE "IN_PROCESS"

-----------------------------------------------------------------------------
(* MercadoPago and the webhook.                                            *)

PaymentMoves(p) ==
  \E s \in MpStatus :
    /\ <<mp[p], s>> \in MpFlow[p]
    /\ mp' = [mp EXCEPT ![p] = s]
    /\ everApproved' = IF s = "approved" THEN everApproved \cup {p} ELSE everApproved
    /\ UNCHANGED <<pollVars, dbVars, status, details, queueVars, jobStep, ctxVars>>

\* A notification, possibly repeated and possibly late, reaches the webhook,
\* which first notes that the payment is being processed.  (A notification
\* the crashed process did not answer is delivered again.)
Webhook(j, p) ==
  /\ job[j] = "unused"
  /\ mp[p] # "none"
  /\ status' = [status EXCEPT ![p] = "processing"]
  /\ job' = [job EXCEPT ![j] = "received"]
  /\ jobPayment' = [jobPayment EXCEPT ![j] = p]
  /\ UNCHANGED <<pollVars, mpVars, dbVars, details, attemptsMade, stalls, crashes,
                 jobStep, ctxVars>>

\* It then queues a job, whatever is queued already for the same payment.
Enqueue(j) ==
  /\ job[j] = "received"
  /\ job' = [job EXCEPT ![j] = "waiting"]
  /\ UNCHANGED <<pollVars, mpVars, dbVars, status, details, jobPayment, attemptsMade,
                 stalls, crashes, jobStep, ctxVars>>

-----------------------------------------------------------------------------
(* The worker.                                                             *)

\* An attempt starts with a fresh context.
Start(j) ==
  /\ job[j] = "waiting"
  /\ Cardinality(ActiveJobs) < Concurrency
  /\ job' = [job EXCEPT ![j] = "active"]
  /\ GoTo(j, "FetchPaymentDetails")
  /\ ctxStatus' = [ctxStatus EXCEPT ![j] = "none"]
  /\ skipped' = [skipped EXCEPT ![j] = FALSE]
  /\ orderResume' = [orderResume EXCEPT ![j] = FALSE]
  /\ UNCHANGED <<pollVars, mpVars, dbVars, status, details, jobPayment, attemptsMade,
                 stalls, crashes, fetched>>

\* Mutant: attemptsMade taken to count the running attempt as well.
IsLastAttemptLate(j) == attemptsMade[j] >= Attempts

\* attemptsMade does not count the attempt that is running.
IsLastAttempt(j) == attemptsMade[j] >= Attempts - 1

\* Mutant: a failed attempt is queued anew without being counted.
ThrowsRequeued(j) ==
  /\ orderLock' = [o \in Orders |-> IF orderLock[o] = j THEN NoJob ELSE orderLock[o]]
  /\ job' = [job EXCEPT ![j] = "waiting"]
  /\ UNCHANGED <<pollVars, mpVars, payment, orderStatus, statusWriter, shipping,
                 restored, cancels, status, details, attemptsMade, jobPayment,
                 stalls, crashes, jobStep, ctxVars>>

\* The attempt ends with an error: its open transaction rolls back, the
\* consumer notes a failure in what it takes for the last attempt, and BullMQ
\* retries until the attempts are used up.
Throws(j) ==
  /\ orderLock' = [o \in Orders |-> IF orderLock[o] = j THEN NoJob ELSE orderLock[o]]
  /\ status' = IF IsLastAttempt(j)
               THEN [status EXCEPT ![jobPayment[j]] = "failed"] ELSE status
  /\ attemptsMade' = [attemptsMade EXCEPT ![j] = @ + 1]
  /\ job' = [job EXCEPT ![j] = IF attemptsMade[j] + 1 < Attempts
                               THEN "waiting" ELSE "failed"]
  /\ UNCHANGED <<pollVars, mpVars, payment, orderStatus, statusWriter, shipping,
                 restored, cancels, details, jobPayment, stalls, crashes,
                 jobStep, ctxVars>>

\* Any step may throw: each talks to MercadoPago, PostgreSQL or Redis.
StepThrows(j) == job[j] = "active" /\ Throws(j)

FetchPaymentDetails(j) ==
  /\ At(j, "FetchPaymentDetails")
  /\ fetched' = [fetched EXCEPT ![j] = mp[jobPayment[j]]]
  /\ GoTo(j, "FindPayment")
  /\ UNCHANGED <<pollVars, mpVars, dbVars, status, details, queueVars, ctxStatus, skipped,
                 orderResume>>

\* UpdateOrderStatus, first statement: a payment already recorded with this
\* status is skipped.  Nothing is locked yet.
FindPayment(j) ==
  LET known == payment[jobPayment[j]] = JobStatus(j) IN
  /\ At(j, "FindPayment")
  /\ skipped' = [skipped EXCEPT ![j] = known]
  /\ ctxStatus' = [ctxStatus EXCEPT ![j] = IF known THEN JobStatus(j) ELSE "none"]
  /\ GoTo(j, IF known THEN "RestoreStock" ELSE "LockOrder")
  /\ UNCHANGED <<pollVars, mpVars, dbVars, status, details, queueVars, fetched, orderResume>>

\* Mutant: the order's row is first written at the end of the transaction.
LockOrderLate(j) ==
  /\ At(j, "LockOrder")
  /\ GoTo(j, "UpsertPayment")
  /\ UNCHANGED <<pollVars, mpVars, dbVars, status, details, queueVars, ctxVars>>

\* The update of aditional_resource_url locks the order's row.
LockOrder(j) ==
  /\ At(j, "LockOrder")
  /\ orderLock[JobOrder(j)] = NoJob
  /\ orderLock' = [orderLock EXCEPT ![JobOrder(j)] = j]
  /\ GoTo(j, "UpsertPayment")
  /\ UNCHANGED <<pollVars, mpVars, payment, orderStatus, statusWriter, shipping, restored, cancels,
                 status, details, queueVars, ctxVars>>

\* Mutant: the payments are read before this payment's row is written.
UpsertPaymentAfterRead(j) ==
  /\ At(j, "UpsertPayment")
  /\ ctxStatus' = [ctxStatus EXCEPT ![j] = Resolved(JobOrder(j), payment)]
  /\ GoTo(j, "UpdateOrder")
  /\ UNCHANGED <<pollVars, mpVars, dbVars, status, details, queueVars, fetched, skipped,
                 orderResume>>

\* The payment's row is written, not yet visible to others, and the order's
\* payments are read with it.
UpsertPayment(j) ==
  /\ At(j, "UpsertPayment")
  /\ ctxStatus' = [ctxStatus EXCEPT ![j] =
       Resolved(JobOrder(j), [payment EXCEPT ![jobPayment[j]] = JobStatus(j)])]
  /\ GoTo(j, "UpdateOrder")
  /\ UNCHANGED <<pollVars, mpVars, dbVars, status, details, queueVars, fetched, skipped,
                 orderResume>>

\* The order gets the resolved status and the transaction commits.
UpdateOrder(j) ==
  /\ At(j, "UpdateOrder")
  /\ payment' = [payment EXCEPT ![jobPayment[j]] = JobStatus(j)]
  /\ orderStatus' = [orderStatus EXCEPT ![JobOrder(j)] = ctxStatus[j]]
  /\ statusWriter' = [statusWriter EXCEPT ![JobOrder(j)] = "worker"]
  /\ orderLock' = [orderLock EXCEPT ![JobOrder(j)] = NoJob]
  /\ GoTo(j, "RestoreStock")
  /\ UNCHANGED <<pollVars, mpVars, shipping, restored, cancels, status, details,
                 queueVars, ctxVars>>

\* The quantities go back to the stock unless the order was cancelled.
RestoreStock(j) ==
  /\ At(j, "RestoreStock")
  /\ restored' = IF ctxStatus[j] \in {"CANCELLED", "ABANDONED"} \/ skipped[j]
                 THEN restored
                 ELSE [restored EXCEPT ![JobOrder(j)] = @ + 1]
  /\ GoTo(j, "SendNotification")
  /\ UNCHANGED <<pollVars, mpVars, payment, orderStatus, statusWriter, orderLock, shipping, cancels,
                 status, details, queueVars, ctxVars>>

\* The details are looked up without polling: a miss, or a stale hit's
\* refresh, caches them without a status.  Only a cached status APPROVED lets
\* the step send the mail and fill in the order's summary.
SendNotification(j) ==
  LET o == JobOrder(j)
      looks == ctxStatus[j] = "APPROVED" /\ ~skipped[j] IN
  /\ At(j, "SendNotification")
  /\ orderResume' = [orderResume EXCEPT ![j] = looks /\ details[o] = "APPROVED"]
  /\ \/ details' = IF looks /\ details[o] = "none"
                   THEN [details EXCEPT ![o] = "undefined"] ELSE details
     \/ /\ looks /\ details[o] # "none"
        /\ details' = [details EXCEPT ![o] = "undefined"]
  /\ GoTo(j, "CreateShipping")
  /\ UNCHANGED <<pollVars, mpVars, dbVars, status, queueVars, fetched, ctxStatus, skipped>>

\* Mutant: without a summary the step returns instead of throwing.
CreateShippingLenient(j) ==
  LET o == JobOrder(j) IN
  /\ At(j, "CreateShipping")
  /\ shipping' = [shipping EXCEPT ![o] = @ \/ orderResume[j]]
  /\ GoTo(j, "MarkCompleted")
  /\ UNCHANGED <<pollVars, mpVars, payment, orderStatus, statusWriter, orderLock, restored, cancels,
                 status, details, queueVars, ctxVars>>

\* Without a summary the step throws; a second shipping row for the same
\* address row violates a unique index, and the step throws.
CreateShipping(j) ==
  LET o == JobOrder(j)
      acts == ctxStatus[j] \in {"APPROVED", "PENDING"} /\ ~skipped[j] IN
  /\ At(j, "CreateShipping")
  /\ IF ~orderResume[j] \/ (acts /\ shipping[o]) THEN Throws(j)
     ELSE /\ shipping' = [shipping EXCEPT ![o] = @ \/ acts]
          /\ GoTo(j, "MarkCompleted")
          /\ UNCHANGED <<pollVars, mpVars, payment, orderStatus, statusWriter, orderLock, restored,
                         cancels, status, details, queueVars, ctxVars>>

\* InvalidateCache: nothing for skipped payments and other statuses ...
MarkCompleted(j) ==
  LET acts == ctxStatus[j] \in {"APPROVED", "PENDING"} /\ ~skipped[j] IN
  /\ At(j, "MarkCompleted")
  /\ status' = IF acts THEN [status EXCEPT ![jobPayment[j]] = "completed"] ELSE status
  /\ job' = IF acts THEN job ELSE [job EXCEPT ![j] = "done"]
  /\ GoTo(j, "InvalidateDetails")
  /\ UNCHANGED <<pollVars, mpVars, dbVars, details, jobPayment, attemptsMade, stalls,
                 crashes, ctxVars>>

\* ... then the cached details are dropped and the job is done.
InvalidateDetails(j) ==
  /\ At(j, "InvalidateDetails")
  /\ details' = [details EXCEPT ![JobOrder(j)] = "none"]
  /\ job' = [job EXCEPT ![j] = "done"]
  /\ UNCHANGED <<pollVars, mpVars, dbVars, status, jobPayment, attemptsMade, stalls, crashes,
                 jobStep, ctxVars>>

-----------------------------------------------------------------------------
(* The clients, the administrator and the process.                         *)

\* GET details, polling: the order's status is read ...
PollReads(o) ==
  /\ o \in DetailsPolled
  /\ polled' = [polled EXCEPT ![o] = orderStatus[o]]
  /\ UNCHANGED <<statusRead, adminRead, mpVars, dbVars, status, details, queueVars,
                 jobStep, ctxVars>>

\* ... and a miss, or a stale hit's refresh, caches the details with it.
PollCaches(o) ==
  /\ polled[o] # "none"
  /\ details' = [details EXCEPT ![o] = polled[o]]
  /\ polled' = [polled EXCEPT ![o] = "none"]
  /\ UNCHANGED <<statusRead, adminRead, mpVars, dbVars, status, queueVars, jobStep,
                 ctxVars>>

\* GET details without polling caches no status; and the entry expires.
ViewDetails(o) ==
  /\ o \in DetailsPolled
  /\ \E d \in {"undefined", "none"} : details' = [details EXCEPT ![o] = d]
  /\ UNCHANGED <<pollVars, mpVars, dbVars, status, queueVars, jobStep, ctxVars>>

\* The client polls the processing status: getData reads the entry ...
PollStatus(p) ==
  /\ p \in StatusPolled
  /\ status[p] # "none"
  /\ statusRead' = [statusRead EXCEPT ![p] = status[p]]
  /\ UNCHANGED <<polled, adminRead, mpVars, dbVars, status, details, queueVars,
                 jobStep, ctxVars>>

\* ... and, to count the hit, writes back what it has read.
RewriteStatus(p) ==
  /\ statusRead[p] # "none"
  /\ status' = [status EXCEPT ![p] = statusRead[p]]
  /\ statusRead' = [statusRead EXCEPT ![p] = "none"]
  /\ UNCHANGED <<polled, adminRead, mpVars, dbVars, details, queueVars, jobStep,
                 ctxVars>>

\* PATCH orders, by an administrator: the status is read and compared ...
OverrideReads(o) ==
  /\ Overrides # {}
  /\ adminRead' = [adminRead EXCEPT ![o] = orderStatus[o]]
  /\ UNCHANGED <<statusRead, polled, mpVars, dbVars, status, details, queueVars,
                 jobStep, ctxVars>>

\* ... and then updated in a statement of its own.
OverrideUpdates(o) ==
  /\ adminRead[o] # "none"
  /\ orderLock[o] = NoJob
  /\ \E s \in Overrides \ {adminRead[o]} :
       orderStatus' = [orderStatus EXCEPT ![o] = s]
  /\ statusWriter' = [statusWriter EXCEPT ![o] = "admin"]
  /\ adminRead' = [adminRead EXCEPT ![o] = "none"]
  /\ UNCHANGED <<statusRead, polled, mpVars, payment, orderLock, shipping, restored,
                 cancels, status, details, queueVars, jobStep, ctxVars>>

\* cancelOrder, one transaction: it deletes the order's shipping, and throws
\* when there is none.
CancelOrder(o) ==
  /\ orderLock[o] = NoJob
  /\ shipping[o]
  /\ cancels[o] < MaxCancels
  /\ orderStatus' = [orderStatus EXCEPT ![o] = "ABANDONED"]
  /\ statusWriter' = [statusWriter EXCEPT ![o] = "customer"]
  /\ shipping' = [shipping EXCEPT ![o] = FALSE]
  /\ restored' = [restored EXCEPT ![o] = @ + 1]
  /\ cancels' = [cancels EXCEPT ![o] = @ + 1]
  /\ UNCHANGED <<pollVars, mpVars, payment, orderLock, status, details, queueVars, jobStep,
                 ctxVars>>

\* The process dies: open transactions roll back, and BullMQ finds the active
\* jobs stalled.  It queues them again, their attempts as they were, and gives
\* up those that have stalled too often, without asking the consumer.
Crash ==
  /\ crashes < MaxCrashes
  /\ ActiveJobs # {}
  /\ crashes' = crashes + 1
  /\ orderLock' = [o \in Orders |-> NoJob]
  /\ stalls' = [j \in Jobs |-> IF job[j] = "active" THEN stalls[j] + 1 ELSE stalls[j]]
  /\ job' = [j \in Jobs |-> IF job[j] # "active" THEN job[j]
                            ELSE IF stalls[j] < MaxStalls THEN "waiting" ELSE "failed"]
  /\ UNCHANGED <<pollVars, mpVars, payment, orderStatus, statusWriter, shipping, restored, cancels,
                 status, details, jobPayment, attemptsMade, jobStep, ctxVars>>

-----------------------------------------------------------------------------
Init ==
  /\ mp = [p \in Payments |-> "none"]
  /\ everApproved = {}
  /\ payment = [p \in Payments |-> "none"]
  /\ orderStatus = [o \in Orders |-> "IN_PROCESS"]
  /\ statusWriter = [o \in Orders |-> "created"]
  /\ orderLock = [o \in Orders |-> NoJob]
  /\ shipping = [o \in Orders |-> FALSE]
  /\ restored = [o \in Orders |-> 0]
  /\ cancels = [o \in Orders |-> 0]
  /\ status = [p \in Payments |-> "none"]
  /\ statusRead = [p \in Payments |-> "none"]
  /\ details = [o \in Orders |-> "none"]
  /\ polled = [o \in Orders |-> "none"]
  /\ adminRead = [o \in Orders |-> "none"]
  /\ job = [j \in Jobs |-> "unused"]
  /\ jobPayment = [j \in Jobs |-> CHOOSE p \in Payments : TRUE]
  /\ attemptsMade = [j \in Jobs |-> 0]
  /\ stalls = [j \in Jobs |-> 0]
  /\ jobStep = [j \in Jobs |-> "FetchPaymentDetails"]
  /\ fetched = [j \in Jobs |-> "none"]
  /\ ctxStatus = [j \in Jobs |-> "none"]
  /\ skipped = [j \in Jobs |-> FALSE]
  /\ orderResume = [j \in Jobs |-> FALSE]
  /\ crashes = 0

JobStepAction(j) ==
  \/ FetchPaymentDetails(j) \/ FindPayment(j) \/ LockOrder(j)
  \/ UpsertPayment(j) \/ UpdateOrder(j) \/ RestoreStock(j)
  \/ SendNotification(j) \/ CreateShipping(j) \/ MarkCompleted(j)
  \/ InvalidateDetails(j)

Next ==
  \/ \E p \in Payments :
       \/ PaymentMoves(p) \/ PollStatus(p) \/ RewriteStatus(p)
       \/ \E j \in Jobs : Webhook(j, p)
  \/ \E j \in Jobs : Enqueue(j) \/ Start(j) \/ JobStepAction(j) \/ StepThrows(j)
  \/ \E o \in Orders :
       \/ PollReads(o) \/ PollCaches(o) \/ ViewDetails(o)
       \/ OverrideReads(o) \/ OverrideUpdates(o) \/ CancelOrder(o)
  \/ Crash

Spec == Init /\ [][Next]_vars

\* The web handler and BullMQ's worker keep going; a step's promise settles.
Fairness == \A j \in Jobs :
  /\ WF_vars(Enqueue(j))
  /\ WF_vars(Start(j))
  /\ WF_vars(JobStepAction(j) \/ StepThrows(j))

FairSpec == Spec /\ Fairness

-----------------------------------------------------------------------------
(* Properties.                                                             *)

PaymentsOf(o) == {p \in Payments : OrderOf[p] = o}

\* Every variable keeps its type.
TypeOK ==
  /\ mp \in [Payments -> MpStatus \cup {"none"}]
  /\ everApproved \subseteq Payments
  /\ payment \in [Payments -> DbStatus \cup {"none"}]
  /\ orderStatus \in [Orders -> DbStatus]
  /\ statusWriter \in [Orders -> {"created", "worker", "customer", "admin"}]
  /\ orderLock \in [Orders -> Jobs \cup {NoJob}]
  /\ shipping \in [Orders -> BOOLEAN]
  /\ restored \in [Orders -> Nat]
  /\ cancels \in [Orders -> Nat]
  /\ status \in [Payments -> {"none", "processing", "completed", "failed"}]
  /\ statusRead \in [Payments -> {"none", "processing", "completed", "failed"}]
  /\ details \in [Orders -> DbStatus \cup {"none", "undefined"}]
  /\ polled \in [Orders -> DbStatus \cup {"none"}]
  /\ adminRead \in [Orders -> DbStatus \cup {"none"}]
  /\ job \in [Jobs -> {"unused", "received", "waiting", "active", "done", "failed"}]
  /\ jobPayment \in [Jobs -> Payments]
  /\ attemptsMade \in [Jobs -> 0 .. Attempts]
  /\ stalls \in [Jobs -> Nat]
  /\ jobStep \in [Jobs -> StepNames]
  /\ fetched \in [Jobs -> MpStatus \cup {"none"}]
  /\ ctxStatus \in [Jobs -> DbStatus \cup {"none"}]
  /\ skipped \in [Jobs -> BOOLEAN]
  /\ orderResume \in [Jobs -> BOOLEAN]
  /\ crashes \in Nat

\* An order whose status the worker has written last has the status that the
\* payments recorded for it add up to, although the jobs of its payments run
\* at the same time and each computes the status from the rows it sees: the
\* update of aditional_resource_url orders them (update-order-status.step.ts).
OrderStatusFollowsPayments ==
  \A o \in Orders :
    statusWriter[o] = "worker" => orderStatus[o] = Resolved(o, payment)

\* An order is shipped only if MercadoPago has approved a payment of it at
\* some time, whatever stale status a job has fetched, a poll has cached or an
\* administrator has set.
ShippedOnlyIfEverApproved ==
  \A o \in Orders : shipping[o] => PaymentsOf(o) \cap everApproved # {}

\* A client that is told "completed" has a shipping, unless the order was
\* cancelled since, however duplicates, retries and the polls' delayed
\* rewrites of the entry interleave.
CompletedMeansShipped ==
  \A p \in Payments : status[p] = "completed" =>
    shipping[OrderOf[p]] \/ cancels[OrderOf[p]] > 0

\* A job is given up in two ways: it throws exactly in the attempt the consumer
\* takes for the last, and the client is told, or the process dies under it more
\* often than BullMQ forgives, which the consumer never learns: only then does
\* the client keep being told what it was told before.
GivenUpNotedUnlessStalled ==
  [][\A j \in Jobs : job[j] # "failed" /\ job'[j] = "failed" =>
       \/ status'[jobPayment[j]] = "failed" /\ attemptsMade'[j] = Attempts
       \/ stalls'[j] > MaxStalls]_vars

\* A notification that was received is worked off, by a job that completes or
\* is given up, although jobs wait for each other's row locks and the process
\* may crash.
JobsFinish ==
  \A j \in Jobs : job[j] = "received" ~> job[j] \in {"done", "failed"}

\* RestoreStockStep hands the order's quantities back only for an order that
\* was cancelled.
StockRestoredOnlyOnCancel ==
  [][\A o \in Orders : restored'[o] > restored[o]
       => orderStatus'[o] \in {"CANCELLED", "ABANDONED"}]_vars

=============================================================================
