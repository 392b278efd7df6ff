---------------------------- MODULE OrderPipeline ----------------------------
(***************************************************************************)
(* POST /orders/v2: CreateOrderHandler runs the steps of OrderPipeline     *)
(* inside one interactive Prisma transaction; when a step throws, the      *)
(* pipeline runs the compensations ("sagas") recorded so far, on           *)
(* connections of their own, and rethrows, which rolls the transaction     *)
(* back.  The pipeline is a singleton: its list of recorded sagas belongs  *)
(* to all requests together and is never emptied.                          *)
(*                                                                         *)
(* A request is one call of CreateOrderHandler.execute.  PostgreSQL is     *)
(* modelled at its default isolation, read committed: an UPDATE takes the  *)
(* row's lock until its transaction ends and applies its increment to the  *)
(* latest committed value.                                                 *)
(***************************************************************************)
EXTENDS Integers, Sequences, FiniteSets, SequencesExt

CONSTANTS
  Requests,       \* order requests
  Skus,           \* product versions; a row's counter is its stock
  Offers,         \* offers; a row's counter is its current_uses
  CartLines,      \* CartLines[r]: lines of the built cart of r, <<SKU, position>>
  Cart,           \* Cart[r][s]: quantity of each line of r with SKU s
  OfferLists,     \* OfferLists[r]: what r may find, offers by SKU
  Client,         \* Client[r]: what the request says about the buyer
  InitialCount,   \* InitialCount[x]: the counters when the shop opens
  MaxActive       \* bound: requests inside the handler at the same time

Rows == Skus \cup Offers

ClientData == [customerUUID : BOOLEAN, addressUUID : BOOLEAN,
               guestForm : BOOLEAN, emailHasAccount : BOOLEAN]

ASSUME PipelineAssumption ==
  /\ IsFiniteSet(Skus) /\ IsFiniteSet(Offers) /\ IsFiniteSet(Requests)
  /\ Skus \cap Offers = {}
  /\ CartLines \in [Requests -> SUBSET (Skus \X Nat)]
  /\ \A r \in Requests : IsFiniteSet(CartLines[r])
  /\ Cart \in [Requests -> [Skus -> Nat]]
  /\ OfferLists \in [Requests -> SUBSET [Skus -> SUBSET Offers]]
  /\ Client \in [Requests -> ClientData]
  /\ InitialCount \in [Rows -> Nat]
  /\ MaxActive \in Nat \ {0}

VARIABLES
  db,                  \* committed counters: stock and current_uses
  order,               \* committed order rows, one per request
  phase,               \* where CreateOrderHandler.execute stands
  step,                \* the pipeline step a running request executes
  todo,                \* rows the current loop has still to visit
  tx,                  \* the request's interactive transaction
  held,                \* rows its transaction has updated, hence locked
  lineOffers,          \* context.productVersionOfferMap: the offers found by SKU
  orderId,             \* context.orderId is set
  reservedOfferUsages, \* context.reservedOfferUsages is set
  completedSagaSteps,  \* the pipeline's shared list of recorded sagas
  cursor,              \* position of the request's rollback loop in that list
  overtaken            \* history: <<r, q, s>> when q has committed an order of s
                       \* after r had validated the stock of s

vars == <<db, order, phase, step, todo, tx, held, lineOffers, orderId,
          reservedOfferUsages, completedSagaSteps, cursor, overtaken>>

NoOffers == [s \in Skus |-> {}]

-----------------------------------------------------------------------------
(* The carts.  Merging two carts concatenates them, so a SKU may have       *)
(* several lines; the builder looks their quantity up by SKU and gives all *)
(* of them the same one.                                                   *)

SkusOf(r) == {line[1] : line \in CartLines[r]}

\* The offers that r has found for its SKUs.  The list of a SKU comes from the
\* cache, where it stays for minutes under the SKU alone, or from the database
\* as of now: two requests may find different lists for the same SKU.
OfferRowsIn(r, found) == UNION {found[s] : s \in SkusOf(r)}

OfferRows(r) == OfferRowsIn(r, lineOffers[r])

RowsIn(r, found) == SkusOf(r) \cup OfferRowsIn(r, found)

RowsOf(r) == RowsIn(r, lineOffers[r])

\* Lines of r with SKU s.
Copies(r, s) == Cardinality({line \in CartLines[r] : line[1] = s})

\* One line with an offer is one use, whatever its quantity.
Uses(r, found, o) == Cardinality({line \in CartLines[r] : o \in found[line[1]]})

\* What the reservation steps of r add to the counter of row x, taking the
\* lines with the same SKU together.
DeltaIn(r, found, x) ==
  IF x \in Skus THEN -(Copies(r, x) * Cart[r][x]) ELSE Uses(r, found, x)

Delta(r, x) == DeltaIn(r, lineOffers[r], x)

-----------------------------------------------------------------------------
(* The pipeline's configuration.                                           *)

NextStep ==
  [ValidateCustomer       |-> "GetShoppingCart",
   GetShoppingCart        |-> "GetProductsData",
   GetProductsData        |-> "BuildOrderShoppingCart",
   BuildOrderShoppingCart |-> "ReserveDiscount",
   ReserveDiscount        |-> "CalcOrderResume",
   CalcOrderResume        |-> "CreatePayment",
   CreatePayment          |-> "ValidateStock",
   ValidateStock          |-> "ReserveStock",
   ReserveStock           |-> "CreateOrder",
   CreateOrder            |-> "AddItems",
   AddItems               |-> "SaveShipmentInfo",
   SaveShipmentInfo       |-> "Return"]

Sagas == {"ReleaseDiscount", "ReleaseStock", "CancelOrder"}

SagaOf == [ReserveDiscount |-> "ReleaseDiscount",
           ReserveStock    |-> "ReleaseStock",
           CreateOrder     |-> "CancelOrder"]

\* Mutant: ReserveStock forgets to decrement the stock it has validated.
StepRowsNoReserve(r, name) ==
  CASE name = "ReserveDiscount" -> OfferRows(r)
    [] name = "ValidateStock" -> SkusOf(r)
    [] OTHER -> {}

\* The rows the loop of a step visits.
StepRows(r, name) ==
  CASE name = "ReserveDiscount" -> OfferRows(r)
    [] name \in {"ValidateStock", "ReserveStock"} -> SkusOf(r)
    [] OTHER -> {}

\* Steps that end before the cart has been built leave it undefined.
CartBuilt(r) ==
  step[r] \notin {"ValidateCustomer", "GetShoppingCart", "GetProductsData",
                  "BuildOrderShoppingCart"}

\* The handler's inverted test: a request counts as a guest's when it does
\* carry a customer.
IsGuest(r) == Client[r].customerUUID

-----------------------------------------------------------------------------
(* How a step ends.                                                        *)

Active == {r \in Requests : phase[r] \in {"running", "rollback"}}

At(r, name) == phase[r] = "running" /\ step[r] = name

LockedByOthers(r) == UNION {held[q] : q \in Requests \ {r}}

\* Mutant: the step itself is recorded in place of its saga.
CompletesRecordingStep(r) ==
  /\ step' = [step EXCEPT ![r] = NextStep[step[r]]]
  /\ todo' = [todo EXCEPT ![r] = StepRows(r, NextStep[step[r]])]
  /\ completedSagaSteps' = IF step[r] \in DOMAIN SagaOf
                           THEN Append(completedSagaSteps, step[r])
                           ELSE completedSagaSteps
  /\ UNCHANGED <<db, order, phase, tx, cursor, overtaken>>

\* The step returns: its saga, if it has one, is recorded, and the loop goes
\* on with the next step.
Completes(r) ==
  /\ step' = [step EXCEPT ![r] = NextStep[step[r]]]
  /\ todo' = [todo EXCEPT ![r] = StepRows(r, NextStep[step[r]])]
  /\ completedSagaSteps' = IF step[r] \in DOMAIN SagaOf
                           THEN Append(completedSagaSteps, SagaOf[step[r]])
                           ELSE completedSagaSteps
  /\ UNCHANGED <<db, order, phase, tx, cursor, overtaken>>

\* The step throws: the shared list is reversed in place and the rollback
\* loop starts at its head.
Throws(r) ==
  /\ phase' = [phase EXCEPT ![r] = "rollback"]
  /\ todo' = [todo EXCEPT ![r] = {}]
  /\ completedSagaSteps' = Reverse(completedSagaSteps)
  /\ cursor' = [cursor EXCEPT ![r] = 1]
  /\ UNCHANGED <<db, order, step, tx, held, lineOffers, orderId,
                 reservedOfferUsages, overtaken>>

\* A step without a statement that changes a row.
ReadOnlyStep(r, name) ==
  /\ At(r, name)
  /\ Completes(r)
  /\ UNCHANGED <<held, lineOffers, orderId, reservedOfferUsages>>

\* Mutant: a reservation goes through the pool instead of the transaction.
UpdateRowOutsideTx(r, x) ==
  /\ x \notin LockedByOthers(r)
  /\ db' = [db EXCEPT ![x] = @ + Delta(r, x)]
  /\ todo' = [todo EXCEPT ![r] = @ \ {x}]
  /\ UNCHANGED <<order, phase, step, tx, held, lineOffers, orderId,
                 reservedOfferUsages, completedSagaSteps, cursor, overtaken>>

\* One UPDATE ... SET counter = counter + n inside the transaction.
UpdateRow(r, x) ==
  /\ tx[r] = "open"
  /\ x \notin LockedByOthers(r)
  /\ held' = [held EXCEPT ![r] = @ \cup {x}]
  /\ todo' = [todo EXCEPT ![r] = @ \ {x}]
  /\ UNCHANGED <<db, order, phase, step, tx, lineOffers, orderId,
                 reservedOfferUsages, completedSagaSteps, cursor, overtaken>>

-----------------------------------------------------------------------------
(* The handler and the steps, in pipeline order.                           *)

Begin(r) ==
  /\ phase[r] = "idle"
  /\ Cardinality(Active) < MaxActive
  /\ phase' = [phase EXCEPT ![r] = "running"]
  /\ tx' = [tx EXCEPT ![r] = "open"]
  /\ UNCHANGED <<db, order, step, todo, held, lineOffers, orderId,
                 reservedOfferUsages, completedSagaSteps, cursor, overtaken>>

CustomerAccepted(r) ==
  IF IsGuest(r)
  THEN Client[r].guestForm /\ ~Client[r].emailHasAccount
  ELSE Client[r].customerUUID /\ Client[r].addressUUID

ValidateCustomer(r) ==
  /\ tx[r] = "open"
  /\ CustomerAccepted(r)
  /\ ReadOnlyStep(r, "ValidateCustomer")

GetShoppingCart(r) == SkusOf(r) # {} /\ ReadOnlyStep(r, "GetShoppingCart")

GetProductsData(r) ==
  /\ At(r, "GetProductsData")
  /\ \E found \in OfferLists[r] : lineOffers' = [lineOffers EXCEPT ![r] = found]
  /\ Completes(r)
  /\ UNCHANGED <<held, orderId, reservedOfferUsages>>

BuildOrderShoppingCart(r) == ReadOnlyStep(r, "BuildOrderShoppingCart")

ReserveDiscount(r) ==
  /\ At(r, "ReserveDiscount")
  /\ \/ \E o \in todo[r] : UpdateRow(r, o)
     \/ /\ todo[r] = {}
        /\ reservedOfferUsages' = [reservedOfferUsages EXCEPT ![r] = OfferRows(r) # {}]
        /\ Completes(r)
        /\ UNCHANGED <<held, lineOffers, orderId>>

CalcOrderResume(r) == ReadOnlyStep(r, "CalcOrderResume")

CreatePayment(r) == ReadOnlyStep(r, "CreatePayment")

\* Mutant: the stock read is not compared with the quantity.
ValidateStockUnchecked(r) ==
  /\ At(r, "ValidateStock")
  /\ tx[r] = "open"
  /\ ReadOnlyStep(r, "ValidateStock")

\* The stock column is read, row by row, without a lock, and compared with
\* the quantity of one line.
ValidateStock(r) ==
  /\ At(r, "ValidateStock")
  /\ \/ \E s \in todo[r] :
          /\ tx[r] = "open"
          /\ db[s] >= Cart[r][s]
          /\ todo' = [todo EXCEPT ![r] = @ \ {s}]
          /\ UNCHANGED <<db, order, phase, step, tx, held, lineOffers, orderId,
                         reservedOfferUsages, completedSagaSteps, cursor, overtaken>>
     \/ /\ todo[r] = {}
        /\ ReadOnlyStep(r, "ValidateStock")

ReserveStock(r) ==
  /\ At(r, "ReserveStock")
  /\ \/ \E s \in todo[r] : UpdateRow(r, s)
     \/ /\ todo[r] = {}
        /\ ReadOnlyStep(r, "ReserveStock")

CreateOrder(r) ==
  /\ At(r, "CreateOrder")
  /\ tx[r] = "open"
  /\ orderId' = [orderId EXCEPT ![r] = TRUE]
  /\ Completes(r)
  /\ UNCHANGED <<held, lineOffers, reservedOfferUsages>>

AddItems(r) == tx[r] = "open" /\ ReadOnlyStep(r, "AddItems")

SaveShipmentInfo(r) == tx[r] = "open" /\ ReadOnlyStep(r, "SaveShipmentInfo")

\* Every step but the summary's arithmetic can throw: a rejected request, a
\* missing product, insufficient stock, a failed call to MercadoPago, a
\* failed statement, or any statement of a transaction that has timed out.
StepThrows(r) ==
  /\ phase[r] = "running"
  /\ step[r] \notin {"CalcOrderResume", "Return"}
  /\ Throws(r)

-----------------------------------------------------------------------------
(* The end of the transaction.                                             *)

\* Mutant: no timeout once the callback has begun to compensate.
TxTimeoutWhileRunning(r) ==
  /\ tx[r] = "open"
  /\ phase[r] = "running"
  /\ tx' = [tx EXCEPT ![r] = "closed"]
  /\ held' = [held EXCEPT ![r] = {}]
  /\ UNCHANGED <<db, order, phase, step, todo, lineOffers, orderId,
                 reservedOfferUsages, completedSagaSteps, cursor, overtaken>>

\* Prisma closes an interactive transaction that outlives its timeout.
TxTimeout(r) ==
  /\ tx[r] = "open"
  /\ tx' = [tx EXCEPT ![r] = "closed"]
  /\ held' = [held EXCEPT ![r] = {}]
  /\ UNCHANGED <<db, order, phase, step, todo, lineOffers, orderId,
                 reservedOfferUsages, completedSagaSteps, cursor, overtaken>>

\* The request has seen that there is enough stock of s.
Checked(r, s) ==
  \/ step[r] = "ValidateStock" /\ s \notin todo[r]
  \/ step[r] \in {"ReserveStock", "CreateOrder", "AddItems", "SaveShipmentInfo", "Return"}

Open(r) == phase[r] = "running" /\ tx[r] = "open"

\* The requests that have validated a stock which r takes from, and that may
\* still commit.
Overtakes(r) ==
  {o \in (Requests \ {r}) \X {r} \X SkusOf(r) :
     Open(o[1]) /\ o[3] \in SkusOf(o[1]) /\ Checked(o[1], o[3])}

Commit(r) ==
  /\ At(r, "Return")
  /\ tx[r] = "open"
  /\ db' = [x \in Rows |-> IF x \in held[r] THEN db[x] + Delta(r, x) ELSE db[x]]
  /\ order' = [order EXCEPT ![r] = "IN_PROCESS"]
  /\ phase' = [phase EXCEPT ![r] = "created"]
  /\ tx' = [tx EXCEPT ![r] = "closed"]
  /\ held' = [held EXCEPT ![r] = {}]
  /\ overtaken' = overtaken \cup Overtakes(r)
  /\ UNCHANGED <<step, todo, lineOffers, orderId, reservedOfferUsages,
                 completedSagaSteps, cursor>>

\* The handler rejects, and with it the transaction.
Fails(r) ==
  /\ phase' = [phase EXCEPT ![r] = "failed"]
  /\ tx' = [tx EXCEPT ![r] = "closed"]
  /\ held' = [held EXCEPT ![r] = {}]
  /\ UNCHANGED <<db, order, step, todo, lineOffers, orderId,
                 reservedOfferUsages, completedSagaSteps, overtaken>>

\* The commit of a closed transaction rejects outside the pipeline's catch:
\* nothing is compensated.
CommitFails(r) ==
  /\ At(r, "Return")
  /\ tx[r] = "closed"
  /\ Fails(r)
  /\ UNCHANGED cursor

-----------------------------------------------------------------------------
(* OrderPipeline.rollback: a for-of loop over the live, shared list.       *)

\* The loop takes the next recorded saga.
TakesSaga(r, saga) ==
  /\ phase[r] = "rollback"
  /\ todo[r] = {}
  /\ cursor[r] <= Len(completedSagaSteps)
  /\ completedSagaSteps[cursor[r]] = saga
  /\ cursor' = [cursor EXCEPT ![r] = @ + 1]

\* A compensation starts its loop over the given rows.
Compensates(r, rows) ==
  /\ todo' = [todo EXCEPT ![r] = rows]
  /\ UNCHANGED <<db, order, phase, step, tx, held, lineOffers, orderId,
                 reservedOfferUsages, completedSagaSteps, overtaken>>

ReleaseDiscountSaga(r) ==
  /\ TakesSaga(r, "ReleaseDiscount")
  /\ Compensates(r, IF reservedOfferUsages[r] THEN OfferRows(r) ELSE {})

\* orderShoppingCart! is undefined when the failing step came before it was
\* built: the loop over it throws and ends the rollback.
ReleaseStockSaga(r) ==
  /\ TakesSaga(r, "ReleaseStock")
  /\ IF CartBuilt(r) THEN Compensates(r, SkusOf(r)) ELSE Fails(r)

\* Mutant: an undefined context.orderId selects every order.
CancelOrderSagaUnguarded(r) ==
  /\ TakesSaga(r, "CancelOrder")
  /\ order' = [q \in Requests |-> IF order[q] = "absent" THEN "absent" ELSE "CANCELLED"]
  /\ UNCHANGED <<db, phase, step, todo, tx, held, lineOffers, orderId,
                 reservedOfferUsages, completedSagaSteps, overtaken>>

\* The order was inserted by the request's own uncommitted transaction: the
\* update, on another connection, does not find it and throws.
CancelOrderSaga(r) ==
  /\ TakesSaga(r, "CancelOrder")
  /\ IF ~orderId[r] THEN Compensates(r, {})
     ELSE IF order[r] = "absent" THEN Fails(r)
     ELSE /\ order' = [order EXCEPT ![r] = "CANCELLED"]
          /\ UNCHANGED <<db, phase, step, todo, tx, held, lineOffers, orderId,
                         reservedOfferUsages, completedSagaSteps, overtaken>>

\* One UPDATE of a compensation, in a transaction of its own: it waits for the
\* row's lock, which the failing request itself may hold.
CompensateRow(r, x) ==
  /\ phase[r] = "rollback"
  /\ x \in todo[r]
  /\ \A q \in Requests : x \notin held[q]
  /\ db' = [db EXCEPT ![x] = @ - Delta(r, x)]
  /\ todo' = [todo EXCEPT ![r] = @ \ {x}]
  /\ UNCHANGED <<order, phase, step, tx, held, lineOffers, orderId,
                 reservedOfferUsages, completedSagaSteps, cursor, overtaken>>

RollbackEnds(r) ==
  /\ phase[r] = "rollback"
  /\ todo[r] = {}
  /\ cursor[r] > Len(completedSagaSteps)
  /\ Fails(r)
  /\ UNCHANGED cursor

-----------------------------------------------------------------------------
Init ==
  /\ db = InitialCount
  /\ order = [r \in Requests |-> "absent"]
  /\ phase = [r \in Requests |-> "idle"]
  /\ step = [r \in Requests |-> "ValidateCustomer"]
  /\ todo = [r \in Requests |-> {}]
  /\ tx = [r \in Requests |-> "none"]
  /\ held = [r \in Requests |-> {}]
  /\ lineOffers = [r \in Requests |-> NoOffers]
  /\ orderId = [r \in Requests |-> FALSE]
  /\ reservedOfferUsages = [r \in Requests |-> FALSE]
  /\ completedSagaSteps = <<>>
  /\ cursor = [r \in Requests |-> 0]
  /\ overtaken = {}

\* What Node and PostgreSQL do for a request without being asked.
Progress(r) ==
  \/ ValidateCustomer(r) \/ GetShoppingCart(r) \/ GetProductsData(r)
  \/ BuildOrderShoppingCart(r) \/ ReserveDiscount(r) \/ CalcOrderResume(r)
  \/ CreatePayment(r) \/ ValidateStock(r) \/ ReserveStock(r)
  \/ CreateOrder(r) \/ AddItems(r) \/ SaveShipmentInfo(r)
  \/ Commit(r) \/ CommitFails(r)
  \/ ReleaseDiscountSaga(r) \/ ReleaseStockSaga(r) \/ CancelOrderSaga(r)
  \/ \E x \in Rows : CompensateRow(r, x)
  \/ RollbackEnds(r)

Next == \E r \in Requests :
  Begin(r) \/ Progress(r) \/ StepThrows(r) \/ TxTimeout(r)

Spec == Init /\ [][Next]_vars

\* A step that cannot complete throws: its promise settles either way.
Fairness == \A r \in Requests :
  /\ WF_vars(Progress(r) \/ StepThrows(r))
  /\ WF_vars(TxTimeout(r))

FairSpec == Spec /\ Fairness

-----------------------------------------------------------------------------
(* Properties.                                                             *)

Placed == {r \in Requests : order[r] # "absent"}

\* What the placed orders together add to a counter.
NetPlaced(x) == MapThenSumSet(LAMBDA r : Delta(r, x), Placed)

\* Every variable keeps its type; in particular the rollback loop never
\* meets anything but a recorded saga (pipeline.ts 9-39).
TypeOK ==
  /\ db \in [Rows -> Int]
  /\ order \in [Requests -> {"absent", "IN_PROCESS", "CANCELLED"}]
  /\ phase \in [Requests -> {"idle", "running", "rollback", "created", "failed"}]
  /\ step \in [Requests -> DOMAIN NextStep \cup {"Return"}]
  /\ todo \in [Requests -> SUBSET Rows]
  /\ tx \in [Requests -> {"none", "open", "closed"}]
  /\ held \in [Requests -> SUBSET Rows]
  /\ lineOffers \in [Requests -> [Skus -> SUBSET Offers]]
  /\ orderId \in [Requests -> BOOLEAN]
  /\ reservedOfferUsages \in [Requests -> BOOLEAN]
  /\ completedSagaSteps \in Seq(Sagas)
  /\ cursor \in [Requests -> Nat]
  /\ overtaken \subseteq Requests \X Requests \X Skus

\* However steps, timeouts, commits and compensations of several requests
\* interleave, a failed request never leaves stock missing or an offer use
\* counted that no placed order accounts for: rolling the transaction back
\* and compensating can only give back too much, never too little.
NothingLost ==
  /\ \A s \in Skus : db[s] >= InitialCount[s] + NetPlaced(s)
  /\ \A o \in Offers : db[o] <= InitialCount[o] + NetPlaced(o)

\* As long as no request has failed after the pipeline started, stock and
\* offer uses are exactly what the placed orders explain: concurrent
\* increments of the same row are never lost (read committed row locks).
BooksBalanceWithoutFailures ==
  (\A r \in Requests : phase[r] \notin {"rollback", "failed"})
    => \A x \in Rows : db[x] = InitialCount[x] + NetPlaced(x)

\* The order of a committed transaction is never cancelled by a compensation,
\* although the shared list makes every failing request run the CancelOrder
\* sagas recorded for other requests' orders.
CommittedOrdersStand ==
  [][\A r \in Requests : order[r] = "IN_PROCESS" => order'[r] = "IN_PROCESS"]_vars

\* A request that has entered the handler is answered, created or failed: the
\* compensation that waits for a row locked by its own transaction is freed
\* by the transaction's timeout, and rollback loops over the growing shared
\* list end.
RequestsAnswered ==
  \A r \in Requests : phase[r] = "running" ~> phase[r] \in {"created", "failed"}

\* The pipeline places an order in one visible step, with every counter of
\* its cart, and only requests that never place one give quantities back.
Placement == INSTANCE OrderPlacement WITH
  placed <- Placed,
  refused <- {r \in Requests : phase[r] \in {"rollback", "failed"}},
  found <- lineOffers

ImplementsPlacement == Placement!Spec

\* Stock falls below zero in two ways only.  ValidateStock reads it in one
\* statement and ReserveStock decrements it in another, and what keeps two
\* carts apart in between is the row of an offer that both have found, locked
\* from ReserveDiscount on.  So either a placed order has two lines of the
\* product version, each validated alone, or its stock was taken by another
\* order after it had been validated, and the two have no offer in common:
\* there is none, or one list came from the cache and the other from the
\* database.
OversoldOnlyWhenOvertaken ==
  \A s \in Skus : db[s] < 0 =>
    \E r \in Placed :
      /\ s \in SkusOf(r)
      /\ \/ Copies(r, s) > 1
         \/ \E q \in Placed \ {r} :
              <<r, q, s>> \in overtaken /\ OfferRows(r) \cap OfferRows(q) = {}

\* Offer uses are those of the placed orders once nobody is in the handler:
\* what ReserveDiscountStep notes for ReleaseDiscountSaga undoes exactly the
\* failed request's reservation.
OfferUsesReleasedOnce ==
  Active = {} => \A o \in Offers : db[o] = InitialCount[o] + NetPlaced(o)

=============================================================================
