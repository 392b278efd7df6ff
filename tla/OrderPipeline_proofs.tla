------------------------ MODULE OrderPipeline_proofs ------------------------
(***************************************************************************)
(* Theorems about OrderPipeline, for any requests, carts, offers and       *)
(* clients.  The argument: a step of the system is one of eleven kinds     *)
(* (StepKinds), and each kind preserves the type invariant and the five    *)
(* parts of the inductive invariant IInv; the safety properties and the    *)
(* refinement of OrderPlacement follow from IInv.  What the counters say   *)
(* of the orders is a sum over requests, which FoldCounts turns into a     *)
(* number of elements: the facts about finite sets then replace induction. *)
(***************************************************************************)
EXTENDS OrderPipeline, FiniteSetTheorems, TLAPS

(***************************************************************************)
(* The steps after the reservations.                                       *)
(***************************************************************************)
AfterStock == {"CreateOrder", "AddItems", "SaveShipmentInfo", "Return"}

AfterDiscount ==
  {"CalcOrderResume", "CreatePayment", "ValidateStock", "ReserveStock"} \cup AfterStock

LoopSteps == {"ReserveDiscount", "ValidateStock", "ReserveStock"}

\* Steps before the cart's offers are known.
Early == {"ValidateCustomer", "GetShoppingCart", "GetProductsData"}

Lists == [Skus -> SUBSET Offers]

(***************************************************************************)
(* The inductive invariant.                                                *)
(***************************************************************************)
\* Loops and locks stay within the rows of the request's cart.
RowsInv == \A r \in Requests : held[r] \subseteq RowsOf(r) /\ todo[r] \subseteq RowsOf(r)

\* A row is locked by one transaction at most.
LockInv == \A q, r \in Requests : q # r => held[q] \cap held[r] = {}

\* Only a committed request has an order.
OrderInv == \A r \in Requests : order[r] # "absent" => phase[r] = "created"

\* A request that has not been received is at the first step.
IdleInv == \A r \in Requests : phase[r] = "idle" => step[r] = "ValidateCustomer"

\* Nothing is locked before the offers are known.
EarlyInv == \A r \in Requests : step[r] \in Early => held[r] = {}

\* What a request's open transaction has locked, by step.
CoverInv == \A r \in Requests : Open(r) =>
  /\ step[r] = "ReserveDiscount" => OfferRows(r) \ todo[r] \subseteq held[r]
  /\ step[r] \in AfterDiscount => OfferRows(r) \subseteq held[r]
  /\ step[r] = "ReserveStock" => SkusOf(r) \ todo[r] \subseteq held[r]
  /\ step[r] \in AfterStock => SkusOf(r) \subseteq held[r]

\* The stock that an open transaction has validated is still there, or another
\* request has taken it meanwhile.
StockInv == \A r \in Requests : Open(r) =>
  \A s \in SkusOf(r) : Checked(r, s) =>
    db[s] >= Cart[r][s] \/ \E q \in Requests : <<r, q, s>> \in overtaken

\* Who has overtaken another has placed an order, and shares no offer with it:
\* both had locked the rows of theirs.
OvertakenInv == \A r, q \in Requests, s \in Skus : <<r, q, s>> \in overtaken =>
  /\ r # q
  /\ step[r] \in AfterDiscount
  /\ order[q] # "absent"
  /\ OfferRows(r) \cap OfferRows(q) = {}

IInv ==
  /\ TypeOK
  /\ RowsInv
  /\ LockInv
  /\ OrderInv
  /\ IdleInv
  /\ CoverInv
  /\ EarlyInv
  /\ StockInv
  /\ OvertakenInv
  /\ OversoldOnlyWhenOvertaken

(***************************************************************************)
(* The kinds of steps.                                                     *)
(***************************************************************************)
\* A pipeline step returns.
Advance(r) ==
  /\ phase[r] = "running"
  /\ step[r] \in DOMAIN NextStep
  /\ step[r] \in LoopSteps => todo[r] = {}
  /\ Completes(r)
  /\ orderId' \in [Requests -> BOOLEAN]
  /\ reservedOfferUsages' \in [Requests -> BOOLEAN]
  /\ IF step[r] = "GetProductsData"
     THEN \E found \in OfferLists[r] : lineOffers' = [lineOffers EXCEPT ![r] = found]
     ELSE UNCHANGED lineOffers
  /\ UNCHANGED held

\* A reservation updates a row.
Reserve(r, x) ==
  /\ phase[r] = "running"
  /\ step[r] \in {"ReserveDiscount", "ReserveStock"}
  /\ x \in todo[r]
  /\ UpdateRow(r, x)

\* ValidateStock reads a row.
Check(r, x) ==
  /\ At(r, "ValidateStock")
  /\ x \in todo[r]
  /\ db[x] >= Cart[r][x]
  /\ todo' = [todo EXCEPT ![r] = @ \ {x}]
  /\ UNCHANGED <<db, order, phase, step, tx, held, lineOffers, orderId,
                 reservedOfferUsages, completedSagaSteps, cursor, overtaken>>

\* A request ends with an error.
Rejects(r) ==
  /\ phase[r] \in {"running", "rollback"}
  /\ Fails(r)
  /\ cursor' \in [Requests -> Nat]

\* A compensation begins its loop, or has nothing to do.
Compensation(r) ==
  /\ phase[r] = "rollback"
  /\ \E rows \in SUBSET RowsOf(r) : Compensates(r, rows)
  /\ cursor' \in [Requests -> Nat]

\* An order is cancelled.
Cancellation(r) ==
  /\ phase[r] = "rollback"
  /\ order[r] # "absent"
  /\ order' = [order EXCEPT ![r] = "CANCELLED"]
  /\ cursor' \in [Requests -> Nat]
  /\ UNCHANGED <<db, phase, step, todo, tx, held, lineOffers, orderId,
                 reservedOfferUsages, completedSagaSteps, overtaken>>

StepKind(r) ==
  \/ Begin(r)
  \/ Advance(r)
  \/ \E x \in Rows : Reserve(r, x) \/ Check(r, x) \/ CompensateRow(r, x)
  \/ StepThrows(r)
  \/ TxTimeout(r)
  \/ Commit(r)
  \/ Rejects(r)
  \/ Compensation(r)
  \/ Cancellation(r)

-----------------------------------------------------------------------------
(* Lemmas about the operators the model is built from.                     *)

LEMMA CartRowsIn ==
  ASSUME NEW r \in Requests, NEW f \in Lists
  PROVE  /\ SkusOf(r) \subseteq Skus
         /\ OfferRowsIn(r, f) \subseteq Offers
         /\ RowsIn(r, f) \subseteq Rows
<1>1. SkusOf(r) \subseteq Skus
  <2>1. CartLines[r] \subseteq Skus \X Nat
    BY PipelineAssumption
  <2> QED
    BY <2>1 DEF SkusOf
<1>2. OfferRowsIn(r, f) \subseteq Offers
  BY <1>1 DEF OfferRowsIn, Lists
<1>3. RowsIn(r, f) \subseteq Rows
  BY <1>1, <1>2 DEF RowsIn, Rows
<1> QED
  BY <1>1, <1>2, <1>3

LEMMA CartRows ==
  ASSUME TypeOK, NEW r \in Requests
  PROVE  /\ SkusOf(r) \subseteq Skus
         /\ OfferRows(r) \subseteq Offers
         /\ RowsOf(r) \subseteq Rows
         /\ RowsOf(r) = SkusOf(r) \cup OfferRows(r)
         /\ \A n : StepRows(r, n) \subseteq RowsOf(r)
<1>1. lineOffers[r] \in Lists
  BY DEF TypeOK, Lists
<1>2. RowsOf(r) = SkusOf(r) \cup OfferRows(r)
  BY DEF RowsOf, RowsIn, OfferRows
<1>3. \A n : StepRows(r, n) \subseteq RowsOf(r)
  BY <1>2 DEF StepRows
<1> QED
  BY <1>1, <1>2, <1>3, CartRowsIn DEF OfferRows, RowsOf

\* The lines that a predicate selects are counted by a natural number.
LEMMA LinesCount ==
  ASSUME NEW r \in Requests, NEW L \in SUBSET CartLines[r]
  PROVE  Cardinality(L) \in Nat
<1>1. IsFiniteSet(L)
  BY FS_Subset, PipelineAssumption
<1> QED
  BY <1>1, FS_CardinalityType

\* A reservation takes a whole number of pieces off a stock, and adds one to
\* an offer's uses.
LEMMA DeltaInType ==
  ASSUME NEW r \in Requests, NEW f, NEW x \in Rows
  PROVE  /\ DeltaIn(r, f, x) \in Int
         /\ x \in Skus => /\ Cart[r][x] \in Nat
                          /\ Copies(r, x) \in Nat
                          /\ DeltaIn(r, f, x) = -(Copies(r, x) * Cart[r][x])
                          /\ DeltaIn(r, f, x) <= 0
<1>1. Copies(r, x) \in Nat
  BY LinesCount DEF Copies
<1>2. Uses(r, f, x) \in Nat
  BY LinesCount DEF Uses
<1>3. x \in Skus => Cart[r][x] \in Nat
  BY PipelineAssumption
<1>4. \A m, n \in Nat : m * n \in Nat
  OBVIOUS
<1> QED
  BY <1>1, <1>2, <1>3, <1>4 DEF DeltaIn

LEMMA DeltaType ==
  ASSUME NEW r \in Requests, NEW x \in Rows
  PROVE  /\ Delta(r, x) \in Int
         /\ x \in Skus => /\ Cart[r][x] \in Nat
                          /\ Copies(r, x) \in Nat
                          /\ Delta(r, x) = -(Copies(r, x) * Cart[r][x])
                          /\ Delta(r, x) <= 0
  BY DeltaInType DEF Delta

\* Reversing the list in place keeps it a list of sagas.
LEMMA ReverseType ==
  ASSUME NEW S, NEW s \in Seq(S)
  PROVE  Reverse(s) \in Seq(S)
<1>1. Len(s) \in Nat
  OBVIOUS
<1>2. ASSUME NEW i \in 1 .. Len(s)
      PROVE  s[(Len(s) - i) + 1] \in S
  <2>1. (Len(s) - i) + 1 \in 1 .. Len(s)
    BY <1>1
  <2> QED
    BY <2>1
<1> QED
  BY <1>1, <1>2 DEF Reverse

\* The pipeline's order: which step leads to which.
LEMMA NextSteps ==
  ASSUME NEW n \in DOMAIN NextStep
  PROVE  /\ NextStep[n] \in DOMAIN NextStep \cup {"Return"}
         /\ NextStep[n] \in AfterStock => n \in {"ReserveStock"} \cup AfterStock
         /\ NextStep[n] \in AfterDiscount => n \in {"ReserveDiscount"} \cup AfterDiscount
         /\ NextStep[n] = "ReserveStock" => n = "ValidateStock"
         /\ NextStep[n] \in Early => n \in Early
         /\ n \in AfterDiscount => NextStep[n] \in AfterDiscount
         /\ n \in DOMAIN SagaOf => SagaOf[n] \in Sagas
  BY DEF NextStep, AfterStock, AfterDiscount, Early, SagaOf, Sagas

-----------------------------------------------------------------------------
(* Every step is of one of the kinds.                                      *)

\* A step without a statement that changes a row.
LEMMA ReadOnlyAdvances ==
  ASSUME TypeOK, NEW r \in Requests, NEW n \in DOMAIN NextStep,
         n \in LoopSteps => todo[r] = {}, n # "GetProductsData",
         ReadOnlyStep(r, n)
  PROVE  Advance(r)
  BY DEF TypeOK, ReadOnlyStep, At, Advance

LEMMA StepKinds ==
  ASSUME TypeOK, Next
  PROVE  \E r \in Requests : StepKind(r)
<1>1. PICK r \in Requests : Begin(r) \/ Progress(r) \/ StepThrows(r) \/ TxTimeout(r)
  BY DEF Next
<1> SUFFICES StepKind(r)
  OBVIOUS
<1> USE DEF StepKind
<1>2. CASE Begin(r) \/ StepThrows(r) \/ TxTimeout(r)
  BY <1>2
<1>3. CASE ValidateCustomer(r)
  BY <1>3, ReadOnlyAdvances DEF ValidateCustomer, NextStep, LoopSteps
<1>4. CASE GetShoppingCart(r)
  BY <1>4, ReadOnlyAdvances DEF GetShoppingCart, NextStep, LoopSteps
<1>5. CASE GetProductsData(r)
  BY <1>5 DEF GetProductsData, At, Advance, NextStep, LoopSteps, TypeOK
<1>6. CASE BuildOrderShoppingCart(r)
  BY <1>6, ReadOnlyAdvances DEF BuildOrderShoppingCart, NextStep, LoopSteps
<1>7. CASE CalcOrderResume(r)
  BY <1>7, ReadOnlyAdvances DEF CalcOrderResume, NextStep, LoopSteps
<1>8. CASE CreatePayment(r)
  BY <1>8, ReadOnlyAdvances DEF CreatePayment, NextStep, LoopSteps
<1>9. CASE AddItems(r)
  BY <1>9, ReadOnlyAdvances DEF AddItems, NextStep, LoopSteps
<1>10. CASE SaveShipmentInfo(r)
  BY <1>10, ReadOnlyAdvances DEF SaveShipmentInfo, NextStep, LoopSteps
<1>11. CASE ReserveDiscount(r)
  <2>1. ASSUME NEW x \in todo[r], UpdateRow(r, x)
        PROVE  \E y \in Rows : Reserve(r, y)
    BY <1>11, <2>1 DEF ReserveDiscount, At, Reserve, TypeOK
  <2>2. ASSUME todo[r] = {}, Completes(r), UNCHANGED <<held, lineOffers, orderId>>,
               reservedOfferUsages' =
                 [reservedOfferUsages EXCEPT ![r] = OfferRows(r) # {}]
        PROVE  Advance(r)
    BY <1>11, <2>2 DEF ReserveDiscount, At, Advance, NextStep, TypeOK
  <2> QED
    BY <1>11, <2>1, <2>2 DEF ReserveDiscount
<1>12. CASE ValidateStock(r)
  <2>1. ASSUME NEW x \in todo[r], db[x] >= Cart[r][x],
               todo' = [todo EXCEPT ![r] = @ \ {x}],
               UNCHANGED <<db, order, phase, step, tx, held, lineOffers, orderId,
                           reservedOfferUsages, completedSagaSteps, cursor, overtaken>>
        PROVE  \E y \in Rows : Check(r, y)
    BY <1>12, <2>1 DEF ValidateStock, Check, TypeOK
  <2>2. CASE todo[r] = {} /\ ReadOnlyStep(r, "ValidateStock")
    BY <2>2, ReadOnlyAdvances DEF NextStep
  <2> QED
    BY <1>12, <2>1, <2>2 DEF ValidateStock
<1>13. CASE ReserveStock(r)
  <2>1. ASSUME NEW x \in todo[r], UpdateRow(r, x)
        PROVE  \E y \in Rows : Reserve(r, y)
    BY <1>13, <2>1 DEF ReserveStock, At, Reserve, TypeOK
  <2>2. CASE todo[r] = {} /\ ReadOnlyStep(r, "ReserveStock")
    BY <2>2, ReadOnlyAdvances DEF NextStep
  <2> QED
    BY <1>13, <2>1, <2>2 DEF ReserveStock
<1>14. CASE CreateOrder(r)
  BY <1>14 DEF CreateOrder, At, Advance, NextStep, LoopSteps, TypeOK
<1>15. CASE Commit(r)
  BY <1>15
<1>16. CASE CommitFails(r)
  BY <1>16 DEF CommitFails, At, Rejects, TypeOK
<1>17. CASE ReleaseDiscountSaga(r)
  <2>1. /\ phase[r] = "rollback"
        /\ cursor' \in [Requests -> Nat]
        /\ \E rows \in SUBSET RowsOf(r) : Compensates(r, rows)
    BY <1>17, CartRows DEF ReleaseDiscountSaga, TakesSaga, TypeOK
  <2> QED
    BY <2>1 DEF Compensation
<1>18. CASE ReleaseStockSaga(r)
  <2>1. phase[r] = "rollback" /\ cursor' \in [Requests -> Nat]
    BY <1>18 DEF ReleaseStockSaga, TakesSaga, TypeOK
  <2>2. Fails(r) \/ \E rows \in SUBSET RowsOf(r) : Compensates(r, rows)
    BY <1>18, CartRows DEF ReleaseStockSaga
  <2> QED
    BY <2>1, <2>2 DEF Compensation, Rejects
<1>19. CASE CancelOrderSaga(r)
  <2>1. phase[r] = "rollback" /\ cursor' \in [Requests -> Nat]
    BY <1>19 DEF CancelOrderSaga, TakesSaga, TypeOK
  <2>2. CASE ~orderId[r]
    <3>1. Compensates(r, {})
      BY <1>19, <2>2 DEF CancelOrderSaga
    <3> QED
      BY <2>1, <3>1 DEF Compensation
  <2>3. CASE orderId[r] /\ order[r] = "absent"
    BY <1>19, <2>1, <2>3 DEF CancelOrderSaga, Rejects
  <2>4. CASE orderId[r] /\ order[r] # "absent"
    BY <1>19, <2>1, <2>4 DEF CancelOrderSaga, Cancellation
  <2> QED
    BY <2>2, <2>3, <2>4
<1>20. CASE \E x \in Rows : CompensateRow(r, x)
  BY <1>20
<1>21. CASE RollbackEnds(r)
  BY <1>21 DEF RollbackEnds, Rejects, TypeOK
<1> QED
  BY <1>1, <1>2, <1>3, <1>4, <1>5, <1>6, <1>7, <1>8, <1>9, <1>10, <1>11, <1>12,
     <1>13, <1>14, <1>15, <1>16, <1>17, <1>18, <1>19, <1>20, <1>21 DEF Progress

-----------------------------------------------------------------------------
(* Type correctness.                                                       *)

LEMMA TypeInit == Init => TypeOK
  BY PipelineAssumption DEF Init, TypeOK, NextStep, Rows, NoOffers

LEMMA TypeStep ==
  ASSUME TypeOK, [Next]_vars
  PROVE  TypeOK'
<1>1. CASE UNCHANGED vars
  BY <1>1 DEF TypeOK, vars
<1>2. CASE Next
  <2>1. PICK r \in Requests : StepKind(r)
    BY <1>2, StepKinds
  <2>2. CASE Begin(r)
    BY <2>2 DEF TypeOK, Begin
  <2>3. CASE Advance(r)
    <3>1. /\ NextStep[step[r]] \in DOMAIN NextStep \cup {"Return"}
          /\ step[r] \in DOMAIN SagaOf => SagaOf[step[r]] \in Sagas
      BY <2>3, NextSteps DEF Advance
    <3>2. step' \in [Requests -> DOMAIN NextStep \cup {"Return"}]
      BY <2>3, <3>1 DEF TypeOK, Advance, Completes
    <3>3. completedSagaSteps' \in Seq(Sagas)
      BY <2>3, <3>1 DEF TypeOK, Advance, Completes
    <3>4. StepRows(r, NextStep[step[r]]) \subseteq Rows
      BY CartRows
    <3>5. todo' \in [Requests -> SUBSET Rows]
      BY <2>3, <3>4 DEF TypeOK, Advance, Completes
    <3>6. lineOffers' \in [Requests -> [Skus -> SUBSET Offers]]
      <4>1. ASSUME NEW f \in OfferLists[r], lineOffers' = [lineOffers EXCEPT ![r] = f]
            PROVE  lineOffers' \in [Requests -> [Skus -> SUBSET Offers]]
        <5>1. f \in [Skus -> SUBSET Offers]
          BY PipelineAssumption
        <5> QED
          BY <4>1, <5>1 DEF TypeOK
      <4> QED
        BY <2>3, <4>1 DEF TypeOK, Advance
    <3> QED
      BY <2>3, <3>2, <3>3, <3>5, <3>6 DEF TypeOK, Advance, Completes
  <2>4. ASSUME NEW x \in Rows, Reserve(r, x)
        PROVE  TypeOK'
    BY <2>4 DEF TypeOK, Reserve, UpdateRow
  <2>5. ASSUME NEW x \in Rows, Check(r, x)
        PROVE  TypeOK'
    BY <2>5 DEF TypeOK, Check
  <2>6. ASSUME NEW x \in Rows, CompensateRow(r, x)
        PROVE  TypeOK'
    <3>1. Delta(r, x) \in Int
      BY DeltaType
    <3>2. db' \in [Rows -> Int]
      BY <2>6, <3>1 DEF TypeOK, CompensateRow
    <3> QED
      BY <2>6, <3>2 DEF TypeOK, CompensateRow
  <2>7. CASE StepThrows(r)
    <3>1. completedSagaSteps' \in Seq(Sagas)
      BY <2>7, ReverseType DEF TypeOK, StepThrows, Throws
    <3> QED
      BY <2>7, <3>1 DEF TypeOK, StepThrows, Throws
  <2>8. CASE TxTimeout(r)
    BY <2>8 DEF TypeOK, TxTimeout
  <2>9. CASE Commit(r)
    <3>1. \A x \in Rows : db[x] \in Int /\ Delta(r, x) \in Int
      BY DeltaType DEF TypeOK
    <3>2. db' \in [Rows -> Int]
      BY <2>9, <3>1 DEF Commit
    <3>3. overtaken' \subseteq Requests \X Requests \X Skus
      BY <2>9, CartRows DEF TypeOK, Commit, Overtakes
    <3> QED
      BY <2>9, <3>2, <3>3 DEF TypeOK, Commit
  <2>10. CASE Rejects(r)
    BY <2>10 DEF TypeOK, Rejects, Fails
  <2>11. CASE Compensation(r)
    <3>1. RowsOf(r) \subseteq Rows
      BY CartRows
    <3> QED
      BY <2>11, <3>1 DEF TypeOK, Compensation, Compensates
  <2>12. CASE Cancellation(r)
    BY <2>12 DEF TypeOK, Cancellation
  <2> QED
    BY <2>1, <2>2, <2>3, <2>4, <2>5, <2>6, <2>7, <2>8, <2>9, <2>10, <2>11, <2>12
       DEF StepKind
<1> QED
  BY <1>1, <1>2

\* Whatever the requests, carts and offers, every variable keeps its type: in
\* particular no failure makes the rollback loop meet anything but one of the
\* three compensations (pipeline.ts).
THEOREM TypeCorrect == Spec => []TypeOK
<1>1. Init => TypeOK
  BY TypeInit
<1>2. TypeOK /\ [Next]_vars => TypeOK'
  BY TypeStep
<1> QED
  BY <1>1, <1>2, PTL DEF Spec

-----------------------------------------------------------------------------
(* The inductive invariant, one part at a time.                            *)

LEMMA InvInit == Init => IInv
<1> SUFFICES ASSUME Init PROVE IInv
  OBVIOUS
<1>1. TypeOK
  BY TypeInit
<1>2. RowsInv /\ LockInv /\ OrderInv /\ IdleInv
  BY DEF Init, RowsInv, LockInv, OrderInv, IdleInv
<1>3. CoverInv /\ StockInv /\ EarlyInv /\ OvertakenInv
  BY DEF Init, CoverInv, StockInv, EarlyInv, OvertakenInv, Open
<1>4. OversoldOnlyWhenOvertaken
  BY PipelineAssumption DEF Init, OversoldOnlyWhenOvertaken, Rows
<1> QED
  BY <1>1, <1>2, <1>3, <1>4 DEF IInv

\* Only the step GetProductsData finds offers, for its own request.
LEMMA FoundOnce ==
  ASSUME TypeOK, NEW r \in Requests, StepKind(r)
  PROVE  /\ \/ UNCHANGED lineOffers
            \/ /\ phase[r] = "running" /\ step[r] = "GetProductsData"
               /\ Advance(r)
               /\ \E f \in OfferLists[r] : lineOffers' = [lineOffers EXCEPT ![r] = f]
         /\ \A q \in Requests :
              phase[q] # "running" \/ step[q] # "GetProductsData" =>
                /\ lineOffers'[q] = lineOffers[q]
                /\ OfferRows(q)' = OfferRows(q)
                /\ RowsOf(q)' = RowsOf(q)
                /\ \A x : Delta(q, x)' = Delta(q, x)
<1>1. \/ UNCHANGED lineOffers
      \/ /\ phase[r] = "running" /\ step[r] = "GetProductsData"
         /\ Advance(r)
         /\ \E f \in OfferLists[r] : lineOffers' = [lineOffers EXCEPT ![r] = f]
  BY DEF StepKind, Begin, Advance, Reserve, UpdateRow, Check, CompensateRow,
         StepThrows, Throws, TxTimeout, Commit, Rejects, Fails, Compensation,
         Compensates, Cancellation
<1>2. ASSUME NEW q \in Requests, phase[q] # "running" \/ step[q] # "GetProductsData"
      PROVE  lineOffers'[q] = lineOffers[q]
  BY <1>1, <1>2 DEF TypeOK
<1> QED
  BY <1>1, <1>2 DEF OfferRows, RowsOf, Delta

LEMMA EarlyStep ==
  ASSUME TypeOK, EarlyInv, NEW r \in Requests, StepKind(r)
  PROVE  EarlyInv'
<1>1. CASE Advance(r)
  BY <1>1, NextSteps DEF EarlyInv, Advance, Completes, TypeOK
<1>2. ASSUME NEW x \in Rows, Reserve(r, x)
      PROVE  EarlyInv'
  BY <1>2 DEF EarlyInv, Early, Reserve, UpdateRow, TypeOK
<1>3. CASE UNCHANGED step /\ (UNCHANGED held \/ held' = [held EXCEPT ![r] = {}])
  BY <1>3 DEF EarlyInv, TypeOK
<1>4. \/ Advance(r)
      \/ \E x \in Rows : Reserve(r, x)
      \/ UNCHANGED step /\ (UNCHANGED held \/ held' = [held EXCEPT ![r] = {}])
  BY DEF StepKind, Begin, Check, CompensateRow, StepThrows, Throws, TxTimeout,
         Commit, Rejects, Fails, Compensation, Compensates, Cancellation
<1> QED
  BY <1>1, <1>2, <1>3, <1>4

LEMMA RowsStep ==
  ASSUME TypeOK, RowsInv, EarlyInv, NEW r \in Requests, StepKind(r)
  PROVE  RowsInv'
<1> USE DEF TypeOK
<1>0. CASE step[r] = "GetProductsData" /\ Advance(r)
  <2>1. held'[r] = {} /\ todo'[r] = {}
    BY <1>0 DEF Advance, Completes, EarlyInv, Early, NextStep, StepRows
  <2>2. ASSUME NEW q \in Requests, q # r
        PROVE  held'[q] = held[q] /\ todo'[q] = todo[q] /\ RowsOf(q)' = RowsOf(q)
    BY <1>0, <2>2 DEF Advance, Completes, RowsOf
  <2> QED
    BY <2>1, <2>2 DEF RowsInv
<1>00. CASE ~(step[r] = "GetProductsData" /\ Advance(r))
  <2>0. UNCHANGED lineOffers
   BY <1>00, FoundOnce
  <2>00. \A q \in Requests : RowsOf(q)' = RowsOf(q)
   BY <2>0 DEF RowsOf
  <2> USE DEF RowsInv
  <2>1. CASE Begin(r)
   BY <2>1, <2>00 DEF Begin
  <2>2. CASE Advance(r)
   <3>1. StepRows(r, NextStep[step[r]]) \subseteq RowsOf(r)
     BY CartRows
   <3> QED
     BY <2>2, <3>1, <2>00 DEF Advance, Completes
  <2>3. ASSUME NEW x \in Rows, Reserve(r, x)
       PROVE  RowsInv'
   BY <2>3, <2>00 DEF Reserve, UpdateRow
  <2>4. ASSUME NEW x \in Rows, Check(r, x)
       PROVE  RowsInv'
   BY <2>4, <2>00 DEF Check
  <2>5. ASSUME NEW x \in Rows, CompensateRow(r, x)
       PROVE  RowsInv'
   BY <2>5, <2>00 DEF CompensateRow
  <2>6. CASE StepThrows(r)
   BY <2>6, <2>00 DEF StepThrows, Throws
  <2>7. CASE TxTimeout(r)
   BY <2>7, <2>00 DEF TxTimeout
  <2>8. CASE Commit(r)
   BY <2>8, <2>00 DEF Commit
  <2>9. CASE Rejects(r)
   BY <2>9, <2>00 DEF Rejects, Fails
  <2>10. CASE Compensation(r)
   BY <2>10, <2>00 DEF Compensation, Compensates
  <2>11. CASE Cancellation(r)
   BY <2>11, <2>00 DEF Cancellation
  <2> QED
   BY <2>1, <2>2, <2>3, <2>4, <2>5, <2>6, <2>7, <2>8, <2>9, <2>10, <2>11 DEF StepKind
<1> QED
  BY <1>0, <1>00

LEMMA LockStep ==
  ASSUME TypeOK, LockInv, NEW r \in Requests, StepKind(r)
  PROVE  LockInv'
<1>1. ASSUME NEW x \in Rows, Reserve(r, x)
      PROVE  LockInv'
  <2>1. \A q \in Requests \ {r} : x \notin held[q]
    BY <1>1 DEF Reserve, UpdateRow, LockedByOthers
  <2>2. held' = [held EXCEPT ![r] = @ \cup {x}]
    BY <1>1 DEF Reserve, UpdateRow
  <2> QED
    BY <2>1, <2>2 DEF LockInv, TypeOK
<1>2. CASE held' = [held EXCEPT ![r] = {}]
  BY <1>2 DEF LockInv, TypeOK
<1>3. CASE UNCHANGED held
  BY <1>3 DEF LockInv
<1>4. \/ held' = [held EXCEPT ![r] = {}]
      \/ UNCHANGED held
      \/ \E x \in Rows : Reserve(r, x)
  BY DEF StepKind, Begin, Advance, Check, CompensateRow, StepThrows, Throws,
         TxTimeout, Commit, Rejects, Fails, Compensation, Compensates, Cancellation
<1> QED
  BY <1>1, <1>2, <1>3, <1>4

LEMMA OrderStep ==
  ASSUME TypeOK, OrderInv, NEW r \in Requests, StepKind(r)
  PROVE  OrderInv'
<1>1. CASE UNCHANGED <<order, phase>>
  BY <1>1 DEF OrderInv
<1>2. CASE /\ phase[r] # "created"
           /\ UNCHANGED order
           /\ \E p \in {"running", "rollback", "failed"} :
                phase' = [phase EXCEPT ![r] = p]
  BY <1>2 DEF OrderInv, TypeOK
<1>3. CASE Commit(r)
  BY <1>3 DEF Commit, OrderInv, TypeOK
<1>4. CASE Cancellation(r)
  BY <1>4 DEF Cancellation, OrderInv
<1>5. \/ UNCHANGED <<order, phase>>
      \/ /\ phase[r] # "created"
         /\ UNCHANGED order
         /\ \E p \in {"running", "rollback", "failed"} :
              phase' = [phase EXCEPT ![r] = p]
      \/ Commit(r)
      \/ Cancellation(r)
  BY DEF StepKind, Begin, Advance, Completes, Reserve, UpdateRow, Check,
         CompensateRow, StepThrows, Throws, TxTimeout, Rejects, Fails,
         Compensation, Compensates
<1> QED
  BY <1>1, <1>2, <1>3, <1>4, <1>5

LEMMA IdleStep ==
  ASSUME TypeOK, IdleInv, NEW r \in Requests, StepKind(r)
  PROVE  IdleInv'
<1>1. CASE UNCHANGED <<step, phase>>
  BY <1>1 DEF IdleInv
<1>2. CASE /\ UNCHANGED step
           /\ \E p \in {"running", "rollback", "created", "failed"} :
                phase' = [phase EXCEPT ![r] = p]
  BY <1>2 DEF IdleInv, TypeOK
<1>3. CASE Advance(r)
  BY <1>3 DEF Advance, Completes, IdleInv, TypeOK
<1>4. \/ UNCHANGED <<step, phase>>
      \/ /\ UNCHANGED step
         /\ \E p \in {"running", "rollback", "created", "failed"} :
              phase' = [phase EXCEPT ![r] = p]
      \/ Advance(r)
  BY DEF StepKind, Begin, Reserve, UpdateRow, Check, CompensateRow, StepThrows,
         Throws, TxTimeout, Commit, Rejects, Fails, Compensation, Compensates,
         Cancellation
<1> QED
  BY <1>1, <1>2, <1>3, <1>4

LEMMA CoverStep ==
  ASSUME TypeOK, RowsInv, IdleInv, CoverInv, NEW r \in Requests, StepKind(r)
  PROVE  CoverInv'
<1> DEFINE Covered(q) ==
      /\ step[q] = "ReserveDiscount" => OfferRows(q) \ todo[q] \subseteq held[q]
      /\ step[q] \in AfterDiscount => OfferRows(q) \subseteq held[q]
      /\ step[q] = "ReserveStock" => SkusOf(q) \ todo[q] \subseteq held[q]
      /\ step[q] \in AfterStock => SkusOf(q) \subseteq held[q]
<1>1. SUFFICES ASSUME NEW q \in Requests, Open(q)'
               PROVE  Covered(q)'
  BY DEF CoverInv
<1>2. CASE q # r
  <2>1. /\ step'[q] = step[q] /\ todo'[q] = todo[q] /\ held'[q] = held[q]
        /\ phase'[q] = phase[q] /\ tx'[q] = tx[q]
    BY <1>2 DEF StepKind, Begin, Advance, Completes, Reserve, UpdateRow, Check,
       CompensateRow, StepThrows, Throws, TxTimeout, Commit, Rejects, Fails,
       Compensation, Compensates, Cancellation, TypeOK
  <2>2. Open(q) /\ Covered(q)
    BY <1>1, <2>1 DEF Open, CoverInv
  <2>3. OfferRows(q)' = OfferRows(q)
    BY <1>2, FoundOnce DEF TypeOK, OfferRows
  <2> QED
    BY <2>1, <2>2, <2>3
<1>3. CASE q = r
  <2>1. CASE Begin(r)
    <3>1. step'[r] = "ValidateCustomer"
      BY <2>1 DEF Begin, IdleInv
    <3> QED
      BY <1>3, <3>1 DEF AfterDiscount, AfterStock
  <2>2. CASE Advance(r)
    <3> DEFINE n == NextStep[step[r]]
    <3>1. /\ step'[r] = n
          /\ todo'[r] = StepRows(r, n)
          /\ held'[r] = held[r]
      BY <2>2 DEF Advance, Completes, TypeOK
    <3>2. Open(r) /\ Covered(r)
      BY <1>1, <1>3, <2>2 DEF Advance, Completes, Open, CoverInv
    <3>3. n = "ReserveDiscount" => OfferRows(r) \subseteq todo'[r]
      BY <3>1 DEF StepRows
    <3>4. n = "ReserveStock" => SkusOf(r) \subseteq todo'[r]
      BY <3>1 DEF StepRows
    <3>5. step[r] \in LoopSteps => todo[r] = {}
      BY <2>2 DEF Advance
    <3>6. n \in AfterDiscount => OfferRows(r) \subseteq held[r]
      <4>1. n \in AfterDiscount => step[r] \in {"ReserveDiscount"} \cup AfterDiscount
        BY <2>2, NextSteps DEF Advance
      <4> QED
        BY <3>2, <3>5, <4>1 DEF LoopSteps
    <3>7. n \in AfterStock => SkusOf(r) \subseteq held[r]
      <4>1. n \in AfterStock => step[r] \in {"ReserveStock"} \cup AfterStock
        BY <2>2, NextSteps DEF Advance
      <4> QED
        BY <3>2, <3>5, <4>1 DEF LoopSteps
    <3>8. CASE step[r] = "GetProductsData"
      <4>1. n = "BuildOrderShoppingCart"
        BY <3>8 DEF NextStep
      <4> HIDE DEF n
      <4> QED
        BY <1>3, <3>1, <4>1 DEF AfterDiscount, AfterStock
    <3>9. CASE step[r] # "GetProductsData"
      <4>1. OfferRows(r)' = OfferRows(r)
        BY <3>9, FoundOnce
      <4> HIDE DEF n
      <4> QED
        BY <1>3, <3>1, <3>3, <3>4, <3>6, <3>7, <4>1
    <3> QED
      BY <3>8, <3>9
  <2>3. ASSUME NEW x \in Rows, Reserve(r, x)
        PROVE  Covered(q)'
    <3>1. Open(r) /\ Covered(r)
      BY <2>3 DEF Reserve, UpdateRow, Open, CoverInv
    <3>2. /\ step'[r] = step[r]
          /\ held'[r] = held[r] \cup {x}
          /\ todo'[r] = todo[r] \ {x}
          /\ OfferRows(r)' = OfferRows(r)
      BY <2>3 DEF Reserve, UpdateRow, OfferRows, TypeOK
    <3> QED
      BY <1>3, <3>1, <3>2
  <2>4. ASSUME NEW x \in Rows, Check(r, x)
        PROVE  Covered(q)'
    <3>1. Open(r) /\ Covered(r)
      BY <1>1, <1>3, <2>4 DEF Check, Open, CoverInv
    <3>2. /\ step'[r] = "ValidateStock" /\ step[r] = "ValidateStock" /\ held'[r] = held[r]
          /\ OfferRows(r)' = OfferRows(r)
      BY <2>4 DEF Check, At, OfferRows
    <3> QED
      BY <1>3, <3>1, <3>2 DEF AfterStock
  <2>5. CASE \/ phase'[r] # "running"
             \/ tx'[r] # "open"
    BY <1>1, <1>3, <2>5 DEF Open
  <2>6. \/ Begin(r) \/ Advance(r) \/ \E x \in Rows : Reserve(r, x) \/ Check(r, x)
        \/ phase'[r] # "running"
        \/ tx'[r] # "open"
    BY DEF StepKind, CompensateRow, StepThrows, Throws, TxTimeout, Commit, Rejects,
       Fails, Compensation, Compensates, Cancellation, TypeOK
  <2> QED
    BY <2>1, <2>2, <2>3, <2>4, <2>5, <2>6
<1> QED
  BY <1>2, <1>3

\* A single line moves the stock of its SKU by its quantity.
LEMMA StockDelta ==
  ASSUME NEW r \in Requests, NEW s \in SkusOf(r), Copies(r, s) <= 1
  PROVE  Delta(r, s) = -Cart[r][s] /\ Cart[r][s] \in Nat
<1> DEFINE L == {line \in CartLines[r] : line[1] = s}
<1>1. s \in Skus /\ s \in Rows
  BY PipelineAssumption DEF SkusOf, Rows
<1>2. L # {} /\ IsFiniteSet(L)
  BY FS_Subset, PipelineAssumption DEF SkusOf
<1>3. Copies(r, s) # 0
  BY <1>2, FS_EmptySet DEF Copies
<1>4. Copies(r, s) = 1
  BY <1>1, <1>3, DeltaType
<1> QED
  BY <1>1, <1>4, DeltaType

\* What a committing request takes off a stock.
LEMMA CommitTakes ==
  ASSUME TypeOK, RowsInv, CoverInv, NEW r \in Requests, Commit(r),
         NEW s \in Skus, db'[s] # db[s]
  PROVE  /\ s \in SkusOf(r)
         /\ Checked(r, s)
         /\ db'[s] = db[s] + Delta(r, s)
         /\ OfferRows(r) \subseteq held[r]
         /\ Open(r)
<1>1. s \in held[r] /\ db'[s] = db[s] + Delta(r, s)
  BY DEF Commit, Rows
<1>2. s \in SkusOf(r)
  <2>1. s \notin OfferRows(r)
    BY CartRows, PipelineAssumption
  <2> QED
    BY <1>1, <2>1, CartRows DEF RowsInv
<1>3. step[r] = "Return" /\ Open(r)
  BY DEF Commit, At, Open
<1>4. db[s] \in Int
  BY DEF TypeOK, Rows
<1> QED
  BY <1>1, <1>2, <1>3, <1>4
     DEF Checked, CoverInv, AfterStock, AfterDiscount

\* A compensation never lowers a stock.
LEMMA CompensationGives ==
  ASSUME TypeOK, NEW r \in Requests, NEW x \in Rows, CompensateRow(r, x),
         NEW s \in Skus
  PROVE  db'[s] >= db[s] /\ db'[s] \in Int
<1>1. db[s] \in Int /\ s \in Rows
  BY DEF TypeOK, Rows
<1>2. CASE x = s
  <2>1. db'[s] = db[s] - Delta(r, s)
    BY <1>1, <1>2 DEF CompensateRow, TypeOK
  <2>2. Delta(r, s) \in Int /\ Delta(r, s) <= 0
    BY <1>1, DeltaType
  <2> QED
    BY <1>1, <2>1, <2>2
<1>3. CASE x # s
  BY <1>1, <1>3 DEF CompensateRow, TypeOK
<1> QED
  BY <1>2, <1>3

LEMMA StockStep ==
  ASSUME TypeOK, RowsInv, LockInv, IdleInv, CoverInv, StockInv,
         NEW r \in Requests, StepKind(r)
  PROVE  StockInv'
<1> DEFINE Overtaken(q, s) == \E p \in Requests : <<q, p, s>> \in overtaken
<1>1. SUFFICES ASSUME NEW q \in Requests, Open(q)', NEW s \in SkusOf(q), Checked(q, s)'
               PROVE  db'[s] >= Cart[q][s] \/ Overtaken(q, s)'
  BY DEF StockInv, SkusOf
<1>0. Overtaken(q, s) => Overtaken(q, s)'
  <2>1. overtaken \subseteq overtaken'
    BY DEF StepKind, Begin, Advance, Completes, Reserve, UpdateRow, Check, CompensateRow,
           StepThrows, Throws, TxTimeout, Commit, Rejects, Fails, Compensation,
           Compensates, Cancellation
  <2> QED
    BY <2>1
<1>2. s \in Skus /\ s \in Rows /\ db[s] \in Int /\ Cart[q][s] \in Nat
  BY PipelineAssumption DEF SkusOf, Rows, TypeOK
\* The kinds that leave the counters alone.
<1>3. CASE UNCHANGED db
  <2>1. CASE Open(q) /\ Checked(q, s)
    BY <1>0, <1>1, <1>3, <2>1 DEF StockInv
  <2>2. CASE ~(Open(q) /\ Checked(q, s))
    <3>1. CASE Begin(r)
      <4>1. q # r => Open(q) /\ Checked(q, s)
        BY <1>1, <3>1 DEF Begin, Open, Checked, TypeOK
      <4>2. step'[r] = "ValidateCustomer"
        BY <3>1 DEF Begin, IdleInv
      <4> QED
        BY <1>1, <2>2, <4>1, <4>2 DEF Checked, AfterStock
    <3>2. CASE Advance(r)
      <4>1. Open(q)
        BY <1>1, <3>2 DEF Advance, Completes, Open
      <4>2. q = r
        BY <1>1, <2>2, <3>2, <4>1 DEF Advance, Completes, Checked, TypeOK
      <4> DEFINE n == NextStep[step[r]]
      <4>3. step'[r] = n /\ todo'[r] = StepRows(r, n)
        BY <3>2 DEF Advance, Completes, TypeOK
      <4>4. n # "ValidateStock"
        BY <1>1, <4>2, <4>3 DEF Checked, StepRows, AfterStock
      <4>5. n \in {"ReserveStock"} \cup AfterStock
        BY <1>1, <4>2, <4>3, <4>4 DEF Checked, AfterStock
      <4>6. step[r] \in {"ValidateStock", "ReserveStock"} \cup AfterStock
        BY <3>2, <4>5, NextSteps DEF Advance
      <4>7. Checked(r, s)
        BY <3>2, <4>6 DEF Advance, Checked, LoopSteps, AfterStock
      <4> QED
        BY <2>2, <4>1, <4>2, <4>7
    <3>3. ASSUME NEW x \in Rows, Reserve(r, x)
          PROVE  db'[s] >= Cart[q][s] \/ Overtaken(q, s)'
      <4>1. step' = step /\ phase' = phase /\ tx' = tx
        BY <3>3 DEF Reserve, UpdateRow
      <4>2. q # r => todo'[q] = todo[q]
        BY <3>3 DEF Reserve, UpdateRow, TypeOK
      <4>3. step[r] # "ValidateStock"
        BY <3>3 DEF Reserve
      <4> QED
        BY <1>1, <2>2, <4>1, <4>2, <4>3 DEF Open, Checked
    <3>4. ASSUME NEW x \in Rows, Check(r, x)
          PROVE  db'[s] >= Cart[q][s] \/ Overtaken(q, s)'
      <4>1. step' = step /\ phase' = phase /\ tx' = tx /\ step[r] = "ValidateStock"
        BY <3>4 DEF Check, At
      <4>2. CASE q = r /\ x = s
        BY <1>3, <3>4, <4>2 DEF Check
      <4>3. CASE ~(q = r /\ x = s)
        <5>1. s \in todo[q] => s \in todo'[q]
          BY <3>4, <4>3 DEF Check, TypeOK
        <5> QED
          BY <1>1, <2>2, <4>1, <5>1 DEF Open, Checked
      <4> QED
        BY <4>2, <4>3
    <3>5. CASE StepThrows(r)
      BY <1>1, <2>2, <3>5 DEF StepThrows, Throws, Open, Checked, TypeOK
    <3>6. CASE TxTimeout(r)
      BY <1>1, <2>2, <3>6 DEF TxTimeout, Open, Checked, TypeOK
    <3>7. CASE Rejects(r)
      BY <1>1, <2>2, <3>7 DEF Rejects, Fails, Open, Checked, TypeOK
    <3>8. CASE Compensation(r)
      BY <1>1, <2>2, <3>8 DEF Compensation, Compensates, Open, Checked, TypeOK
    <3>9. CASE Cancellation(r)
      BY <1>1, <2>2, <3>9 DEF Cancellation, Open, Checked
    <3>10. ASSUME NEW x \in Rows, CompensateRow(r, x)
           PROVE  db'[s] >= Cart[q][s] \/ Overtaken(q, s)'
      BY <1>1, <2>2, <3>10 DEF CompensateRow, Open, Checked, TypeOK
    <3>11. CASE Commit(r)
      BY <1>1, <2>2, <3>11 DEF Commit, Open, Checked, TypeOK
    <3> QED
      BY <3>1, <3>2, <3>3, <3>4, <3>5, <3>6, <3>7, <3>8, <3>9, <3>10, <3>11
         DEF StepKind
  <2> QED
    BY <2>1, <2>2
\* A compensation gives back.
<1>4. ASSUME NEW x \in Rows, CompensateRow(r, x)
      PROVE  db'[s] >= Cart[q][s] \/ Overtaken(q, s)'
  <2>1. Open(q) /\ Checked(q, s)
    BY <1>1, <1>4 DEF CompensateRow, Open, Checked, TypeOK
  <2>2. db[s] >= Cart[q][s] \/ Overtaken(q, s)
    BY <1>1, <2>1 DEF StockInv
  <2>3. db'[s] >= db[s] /\ db'[s] \in Int
    BY <1>2, <1>4, CompensationGives
  <2> QED
    BY <1>0, <1>2, <2>2, <2>3
\* The committing request takes none of s, or overtakes q.
<1>5. CASE Commit(r)
  <2>1. q # r
    BY <1>1, <1>5 DEF Commit, Open, TypeOK
  <2>2. Open(q) /\ Checked(q, s)
    BY <1>1, <1>5, <2>1 DEF Commit, Open, Checked, TypeOK
  <2>3. CASE db'[s] = db[s]
    BY <1>0, <1>1, <2>2, <2>3 DEF StockInv
  <2>4. CASE db'[s] # db[s]
    <3>1. s \in SkusOf(r)
      BY <1>2, <1>5, <2>4, CommitTakes
    <3>2. <<q, r, s>> \in Overtakes(r)
      BY <1>1, <2>1, <2>2, <3>1 DEF Overtakes
    <3> QED
      BY <1>5, <3>2 DEF Commit
  <2> QED
    BY <2>3, <2>4
<1>6. UNCHANGED db \/ Commit(r) \/ \E x \in Rows : CompensateRow(r, x)
  BY DEF StepKind, Begin, Advance, Completes, Reserve, UpdateRow, Check,
     StepThrows, Throws, TxTimeout, Rejects, Fails, Compensation, Compensates,
     Cancellation
<1> QED
  BY <1>3, <1>4, <1>5, <1>6

\* An order, and the offers it has found, stay.
LEMMA PlacedStays ==
  ASSUME TypeOK, OrderInv, NEW r \in Requests, StepKind(r), NEW q \in Placed
  PROVE  /\ q \in Requests /\ q \in Placed' /\ order'[q] # "absent"
         /\ OfferRows(q)' = OfferRows(q)
         /\ \A x : Delta(q, x)' = Delta(q, x)
<1>1. q \in Requests /\ order[q] # "absent" /\ phase[q] = "created"
  BY DEF Placed, OrderInv
<1>2. order'[q] # "absent"
  BY <1>1 DEF StepKind, Begin, Advance, Completes, Reserve, UpdateRow, Check, CompensateRow,
     StepThrows, Throws, TxTimeout, Commit, Rejects, Fails, Compensation, Compensates,
     Cancellation, TypeOK
<1> QED
  BY <1>1, <1>2, FoundOnce DEF Placed

LEMMA OvertakenStep ==
  ASSUME TypeOK, LockInv, OrderInv, CoverInv, OvertakenInv, NEW r \in Requests, StepKind(r)
  PROVE  OvertakenInv'
<1>1. SUFFICES ASSUME NEW p \in Requests, NEW q \in Requests, NEW s \in Skus,
                      <<p, q, s>> \in overtaken'
               PROVE  /\ p # q
                      /\ step'[p] \in AfterDiscount
                      /\ order'[q] # "absent"
                      /\ OfferRows(p)' \cap OfferRows(q)' = {}
  BY DEF OvertakenInv
<1>2. CASE <<p, q, s>> \in overtaken
  <2>1. /\ p # q /\ step[p] \in AfterDiscount /\ q \in Placed
        /\ OfferRows(p) \cap OfferRows(q) = {}
    BY <1>2 DEF OvertakenInv, Placed
  <2>2. order'[q] # "absent" /\ OfferRows(q)' = OfferRows(q)
    BY <2>1, PlacedStays
  <2>3. OfferRows(p)' = OfferRows(p)
    BY <2>1, FoundOnce DEF AfterDiscount, AfterStock
  <2>4. step'[p] = step[p] \/ (p = r /\ Advance(r))
    BY DEF StepKind, Begin, Advance, Completes, Reserve, UpdateRow, Check, CompensateRow,
       StepThrows, Throws, TxTimeout, Commit, Rejects, Fails, Compensation, Compensates,
       Cancellation, TypeOK
  <2>5. p = r /\ Advance(r) => step'[p] \in AfterDiscount
    BY <2>1, NextSteps DEF Advance, Completes, TypeOK
  <2> QED
    BY <2>1, <2>2, <2>3, <2>4, <2>5
<1>3. CASE <<p, q, s>> \notin overtaken
  <2>1. Commit(r) /\ <<p, q, s>> \in Overtakes(r)
    BY <1>1, <1>3 DEF StepKind, Begin, Advance, Completes, Reserve, UpdateRow, Check,
       CompensateRow, StepThrows, Throws, TxTimeout, Commit, Rejects, Fails, Compensation,
       Compensates, Cancellation
  <2>2. q = r /\ p # r /\ Open(p) /\ Checked(p, s)
    BY <2>1 DEF Overtakes
  <2>3. step[p] \in AfterDiscount /\ step'[p] = step[p]
    BY <2>1, <2>2 DEF Checked, AfterDiscount, AfterStock, Commit
  <2>4. OfferRows(p) \subseteq held[p]
    BY <2>2, <2>3 DEF CoverInv
  <2>5. OfferRows(r) \subseteq held[r] /\ order'[r] # "absent"
    BY <2>1 DEF Commit, At, Open, CoverInv, AfterDiscount, AfterStock, TypeOK
  <2>6. OfferRows(p)' = OfferRows(p) /\ OfferRows(r)' = OfferRows(r)
    BY <2>1 DEF Commit, OfferRows
  <2> QED
    BY <2>2, <2>3, <2>4, <2>5, <2>6 DEF LockInv
<1> QED
  BY <1>2, <1>3

LEMMA OversoldStep ==
  ASSUME TypeOK, RowsInv, OrderInv, CoverInv, StockInv, OvertakenInv, OvertakenInv',
         OversoldOnlyWhenOvertaken, NEW r \in Requests, StepKind(r)
  PROVE  OversoldOnlyWhenOvertaken'
<1>1. SUFFICES ASSUME NEW s \in Skus, db'[s] < 0
               PROVE  (\E p \in Placed :
                         /\ s \in SkusOf(p)
                         /\ \/ Copies(p, s) > 1
                            \/ \E q \in Placed \ {p} :
                                 /\ <<p, q, s>> \in overtaken
                                 /\ OfferRows(p) \cap OfferRows(q) = {})'
  BY DEF OversoldOnlyWhenOvertaken
<1>2. db[s] \in Int /\ s \in Rows
  BY DEF TypeOK, Rows
<1>3. overtaken \subseteq overtaken'
  BY DEF StepKind, Begin, Advance, Completes, Reserve, UpdateRow, Check, CompensateRow,
         StepThrows, Throws, TxTimeout, Commit, Rejects, Fails, Compensation,
         Compensates, Cancellation
\* The culprit of before is still one.
<1>4. CASE db[s] < 0
  <2>1. PICK p \in Placed :
          /\ s \in SkusOf(p)
          /\ \/ Copies(p, s) > 1
             \/ \E q \in Placed \ {p} :
                  <<p, q, s>> \in overtaken /\ OfferRows(p) \cap OfferRows(q) = {}
    BY <1>4 DEF OversoldOnlyWhenOvertaken
  <2>2. p \in Placed' /\ OfferRows(p)' = OfferRows(p)
    BY PlacedStays
  <2>3. CASE Copies(p, s) > 1
    BY <2>1, <2>2, <2>3 DEF Copies, SkusOf
  <2>4. ASSUME NEW q \in Placed \ {p}, <<p, q, s>> \in overtaken,
               OfferRows(p) \cap OfferRows(q) = {}
        PROVE  \E o \in Placed' \ {p} : /\ <<p, o, s>> \in overtaken'
                                       /\ OfferRows(p)' \cap OfferRows(o)' = {}
    <3>1. q \in Placed' /\ OfferRows(q)' = OfferRows(q)
      BY PlacedStays
    <3> QED
      BY <1>3, <2>2, <2>4, <3>1
  <2>5. s \in SkusOf(p)'
    BY <2>1 DEF SkusOf
  <2> QED
    BY <2>1, <2>2, <2>3, <2>4, <2>5
\* The order that is placed now has two lines, or has been overtaken.
<1>5. CASE db[s] >= 0
  <2>1. ASSUME NEW x \in Rows, CompensateRow(r, x)
        PROVE  FALSE
    <3>1. db'[s] >= db[s] /\ db'[s] \in Int
      BY <2>1, CompensationGives
    <3> QED
      BY <1>1, <1>2, <1>5, <3>1
  <2>2. Commit(r) /\ db'[s] # db[s]
    <3>1. UNCHANGED db \/ Commit(r) \/ \E x \in Rows : CompensateRow(r, x)
      BY DEF StepKind, Begin, Advance, Completes, Reserve, UpdateRow, Check,
         StepThrows, Throws, TxTimeout, Rejects, Fails, Compensation, Compensates,
         Cancellation
    <3>2. db'[s] # db[s]
      BY <1>1, <1>2, <1>5
    <3> QED
      BY <2>1, <3>1, <3>2
  <2>3. /\ s \in SkusOf(r) /\ Checked(r, s) /\ Open(r)
        /\ db'[s] = db[s] + Delta(r, s)
    BY <2>2, CommitTakes
  <2>4. r \in Placed'
    BY <2>2 DEF Commit, Placed, TypeOK
  <2>5. CASE Copies(r, s) > 1
    BY <2>3, <2>4, <2>5 DEF Copies, SkusOf
  <2>6. CASE ~(Copies(r, s) > 1)
    <3>1. Copies(r, s) <= 1
      BY <1>2, <2>6, DeltaType
    <3>2. Delta(r, s) = -Cart[r][s] /\ Cart[r][s] \in Nat
      BY <2>3, <3>1, StockDelta
    <3>3. ~(db[s] >= Cart[r][s])
      BY <1>1, <1>2, <2>3, <3>2
    <3>4. PICK q \in Requests : <<r, q, s>> \in overtaken
      BY <2>3, <3>3 DEF StockInv
    <3>5. r # q /\ order[q] # "absent"
      BY <3>4 DEF OvertakenInv
    <3>6. q \in Placed'
      BY <3>5, PlacedStays DEF Placed
    <3>7. OfferRows(r)' \cap OfferRows(q)' = {} /\ <<r, q, s>> \in overtaken'
      BY <1>3, <3>4 DEF OvertakenInv
    <3>8. s \in SkusOf(r)'
      BY <2>3 DEF SkusOf
    <3> QED
      BY <2>4, <3>5, <3>6, <3>7, <3>8
  <2> QED
    BY <2>5, <2>6
<1> QED
  BY <1>2, <1>4, <1>5

LEMMA InvStep ==
  ASSUME IInv, [Next]_vars
  PROVE  IInv'
<1> USE DEF IInv
<1>1. TypeOK'
  BY TypeStep
<1>2. CASE Next
  <2>1. PICK r \in Requests : StepKind(r)
    BY <1>2, StepKinds
  <2>2. RowsInv' /\ LockInv' /\ OrderInv' /\ IdleInv' /\ EarlyInv'
    BY <2>1, RowsStep, LockStep, OrderStep, IdleStep, EarlyStep
  <2>3. CoverInv' /\ StockInv' /\ OvertakenInv'
    BY <2>1, CoverStep, StockStep, OvertakenStep
  <2>4. OversoldOnlyWhenOvertaken'
    BY <2>1, <2>3, OversoldStep
  <2> QED
    BY <1>1, <2>2, <2>3, <2>4
<1>3. CASE UNCHANGED vars
  <2>1. RowsInv' /\ LockInv' /\ OrderInv' /\ IdleInv' /\ EarlyInv'
    BY <1>3 DEF vars, RowsInv, RowsOf, LockInv, OrderInv, IdleInv, EarlyInv
  <2>2. CoverInv'
    BY <1>3 DEF vars, CoverInv, OfferRows, Open
  <2>3. StockInv' /\ OvertakenInv'
    BY <1>3 DEF vars, StockInv, OvertakenInv, OfferRows, Open, Checked
  <2>4. OversoldOnlyWhenOvertaken'
    BY <1>3 DEF vars, OversoldOnlyWhenOvertaken, Placed, OfferRows
  <2> QED
    BY <1>1, <2>1, <2>2, <2>3, <2>4
<1> QED
  BY <1>2, <1>3

LEMMA Invariance == Spec => []IInv
<1>1. Init => IInv
  BY InvInit
<1>2. IInv /\ [Next]_vars => IInv'
  BY InvStep
<1> QED
  BY <1>1, <1>2, PTL DEF Spec

-----------------------------------------------------------------------------
(* The theorems.                                                           *)

\* Whatever lists of offers the requests find, a stock falls below zero only
\* through a cart with two lines of it, or through two orders that share no
\* offer: between ValidateStock and the commit, no order that shares one
\* commits, since the two lock the same row.
THEOREM OversoldExplained == Spec => []OversoldOnlyWhenOvertaken
<1>1. IInv => OversoldOnlyWhenOvertaken
  BY DEF IInv
<1> QED
  BY <1>1, Invariance, PTL

\* No compensation, of this request or of another one that runs the sagas this
\* one has recorded, cancels the order of a committed transaction.
THEOREM CommittedSafe == Spec => CommittedOrdersStand
<1>1. ASSUME IInv, [Next]_vars, NEW q \in Requests, order[q] = "IN_PROCESS"
      PROVE  order'[q] = "IN_PROCESS"
  <2>1. CASE UNCHANGED vars
    BY <1>1, <2>1 DEF vars
  <2>2. CASE Next
    <3>1. PICK r \in Requests : StepKind(r)
      BY <1>1, <2>2, StepKinds DEF IInv
    <3>2. CASE Cancellation(r)
      <4>1. r # q
        BY <1>1, <3>2 DEF Cancellation, IInv, OrderInv
      <4> QED
        BY <1>1, <3>2, <4>1 DEF Cancellation, IInv, TypeOK
    <3>3. CASE Commit(r)
      BY <1>1, <3>3 DEF Commit, IInv, TypeOK
    <3>4. UNCHANGED order \/ Cancellation(r) \/ Commit(r)
      BY <3>1 DEF StepKind, Begin, Advance, Completes, Reserve, UpdateRow, Check,
         CompensateRow, StepThrows, Throws, TxTimeout, Rejects, Fails,
         Compensation, Compensates
    <3> QED
      BY <1>1, <3>2, <3>3, <3>4
  <2> QED
    BY <1>1, <2>1, <2>2
<1>2. IInv /\ [Next]_vars =>
        \A r \in Requests : order[r] = "IN_PROCESS" => order'[r] = "IN_PROCESS"
  BY <1>1
<1> QED
  BY <1>2, Invariance, PTL DEF Spec, CommittedOrdersStand

Refused == {r \in Requests : phase[r] \in {"rollback", "failed"}}

LEMMA PlacementInit == Init => Placement!Init
  BY DEF Init, Placement!Init, Placed, NoOffers

LEMMA PlacementStep ==
  ASSUME IInv, [Next]_vars
  PROVE  [Placement!Next]_(Placement!vars)
<1> USE DEF IInv
<1>1. CASE UNCHANGED vars
  BY <1>1 DEF vars, Placement!vars, Placed
<1>2. CASE Next
  <2>1. PICK r \in Requests : StepKind(r)
    BY <1>2, StepKinds
  <2>2. CASE UNCHANGED <<db, lineOffers, Placed, Refused>>
    BY <2>2 DEF Placement!vars, Refused
  <2>3. CASE Commit(r)
    <3>1. r \notin Placed \cup Refused
      BY <2>3 DEF Commit, At, OrderInv, Placed, Refused
    <3>2. Placed' = Placed \cup {r}
      BY <2>3 DEF Commit, Placed, TypeOK
    <3>3. Refused' = Refused
      BY <2>3 DEF Commit, At, Refused, TypeOK
    <3>4. held[r] = RowsOf(r)
      BY <2>3, CartRows DEF Commit, At, Open, CoverInv, RowsInv, AfterStock,
                         AfterDiscount
    <3>5. db' = [x \in Rows |-> IF x \in RowsIn(r, lineOffers[r])
                                THEN db[x] + DeltaIn(r, lineOffers[r], x) ELSE db[x]]
      BY <2>3, <3>4 DEF Commit, RowsOf, Delta
    <3>6. Placement!Place(r)
      BY <2>3, <3>1, <3>2, <3>3, <3>5 DEF Placement!Place, Refused, Commit
    <3> QED
      BY <3>6 DEF Placement!Next
  <2>4. CASE /\ phase[r] = "running" /\ Refused' = Refused \cup {r}
             /\ UNCHANGED <<db, lineOffers, order>>
    <3>1. r \notin Placed \cup Refused
      BY <2>4 DEF OrderInv, Placed, Refused
    <3>2. UNCHANGED <<db, Placed>>
      BY <2>4 DEF Placed
    <3>3. Placement!Refuse(r)
      BY <2>4, <3>1, <3>2 DEF Placement!Refuse, Refused
    <3> QED
      BY <3>3 DEF Placement!Next
  <2>5. ASSUME NEW x \in Rows, CompensateRow(r, x)
        PROVE  Placement!Next
    <3>1. r \in Refused /\ x \in RowsOf(r) /\ UNCHANGED <<Placed, Refused>>
      BY <2>5 DEF CompensateRow, RowsInv, Placed, Refused
    <3>2. Placement!GiveBack(r, x)
      BY <2>5, <3>1 DEF CompensateRow, Placement!GiveBack, Refused, RowsOf, Delta
    <3> QED
      BY <3>2 DEF Placement!Next
  <2>6. CASE StepThrows(r)
    <3>1. Refused' = Refused \cup {r}
      BY <2>6 DEF StepThrows, Throws, Refused, TypeOK
    <3> QED
      BY <2>4, <2>6, <3>1 DEF StepThrows, Throws
  <2>7. CASE Rejects(r)
    <3>1. Refused' = Refused \cup {r}
      BY <2>7 DEF Rejects, Fails, Refused, TypeOK
    <3>2. CASE phase[r] = "running"
      BY <2>4, <2>7, <3>1, <3>2 DEF Rejects, Fails
    <3>3. CASE phase[r] = "rollback"
      BY <2>2, <2>7, <3>1, <3>3 DEF Rejects, Fails, Placed, Refused
    <3> QED
      BY <2>7, <3>2, <3>3 DEF Rejects
  <2>8. CASE Cancellation(r)
    BY <2>2, <2>8 DEF Cancellation, Placed, Refused, TypeOK
  <2>9. CASE Begin(r)
    BY <2>2, <2>9 DEF Begin, Placed, Refused, TypeOK
  <2>10. CASE UNCHANGED <<db, lineOffers, order, phase>>
    BY <2>2, <2>10 DEF Placed, Refused
  <2>12. CASE Advance(r)
    <3>1. UNCHANGED <<db, order, phase, Placed, Refused>>
      BY <2>12 DEF Advance, Completes, Placed, Refused
    <3>2. CASE UNCHANGED lineOffers
      BY <2>10, <3>1, <3>2
    <3>3. ASSUME NEW f \in OfferLists[r], lineOffers' = [lineOffers EXCEPT ![r] = f]
          PROVE  Placement!Next
      <4>1. r \notin Placed \cup Refused
        BY <2>12 DEF Advance, OrderInv, Placed, Refused
      <4>2. Placement!Find(r)
        BY <3>1, <3>3, <4>1 DEF Placement!Find, Refused
      <4> QED
        BY <4>2 DEF Placement!Next
    <3> QED
      BY <2>12, <3>2, <3>3 DEF Advance
  <2>11. \/ Commit(r) \/ StepThrows(r) \/ Rejects(r) \/ Cancellation(r) \/ Begin(r)
         \/ \E x \in Rows : CompensateRow(r, x)
         \/ Advance(r)
         \/ UNCHANGED <<db, lineOffers, order, phase>>
    BY <2>1 DEF StepKind, Reserve, UpdateRow, Check, TxTimeout, Compensation, Compensates
  <2> QED
    BY <2>3, <2>5, <2>6, <2>7, <2>8, <2>9, <2>10, <2>11, <2>12
<1> QED
  BY <1>1, <1>2

\* CreateOrderHandler implements OrderPlacement: a request's order appears in
\* one step together with every stock decrement and offer use of its cart, and
\* only refused requests hand anything back.
THEOREM Refinement == Spec => ImplementsPlacement
<1>1. Init => Placement!Init
  BY PlacementInit
<1>2. IInv /\ [Next]_vars => [Placement!Next]_(Placement!vars)
  BY PlacementStep
<1> QED
  BY <1>1, <1>2, Invariance, PTL DEF Spec, ImplementsPlacement, Placement!Spec

-----------------------------------------------------------------------------
(* Sums.                                                                   *)

\* The well-foundedness of finite sets, as a minimal counterexample.
LEMMA MinimalSubset ==
  ASSUME NEW S, IsFiniteSet(S), NEW C \in SUBSET SUBSET S, C # {}
  PROVE  \E T \in C : \A U \in C : U \subseteq T => U = T
<1>1. IsWellFoundedOn(StrictSubsetOrdering(S), SUBSET S)
  BY FS_StrictSubsetOrderingWellFounded, FS_FiniteSubsetsOfFinite
<1>2. PICK T \in C : \A U \in C : <<U, T>> \notin StrictSubsetOrdering(S)
  BY <1>1, WFMin
<1>3. \A U \in C : U \in SUBSET S  OBVIOUS
<1> QED  BY <1>2, <1>3 DEF StrictSubsetOrdering

\* What f says of the elements of T, laid out as a set of counters.
Units(f, T) == {p \in T \X (Nat \ {0}) : p[2] <= f[p[1]]}

LEMMA UnitsOfNone ==
  ASSUME NEW f
  PROVE  IsFiniteSet(Units(f, {})) /\ Cardinality(Units(f, {})) = 0
<1>1. Units(f, {}) = {}  BY DEF Units
<1> QED  BY <1>1, FS_EmptySet

LEMMA UnitsOfOneMore ==
  ASSUME NEW T, NEW x, x \notin T, NEW f, f[x] \in Int, IsFiniteSet(Units(f, T))
  PROVE  /\ IsFiniteSet(Units(f, T \cup {x}))
         /\ Cardinality(Units(f, T \cup {x})) =
              Cardinality(Units(f, T)) + (IF f[x] > 0 THEN f[x] ELSE 0)
<1> DEFINE U == {x} \X (1 .. f[x])
<1>1. IsFiniteSet({x}) /\ Cardinality({x}) = 1  BY FS_Singleton
<1>2. IsFiniteSet(1 .. f[x]) /\ Cardinality(1 .. f[x]) = IF f[x] > 0 THEN f[x] ELSE 0
  <2>1. /\ IsFiniteSet(1 .. f[x])
        /\ Cardinality(1 .. f[x]) = IF 1 > f[x] THEN 0 ELSE f[x] - 1 + 1
    BY FS_Interval
  <2> QED  BY <2>1
<1> DEFINE n == IF f[x] > 0 THEN f[x] ELSE 0
<1>3. n \in Nat /\ IsFiniteSet(U) /\ Cardinality(U) = n
  <2>1. IsFiniteSet(U) /\ Cardinality(U) = Cardinality({x}) * Cardinality(1 .. f[x])
    BY <1>1, <1>2, FS_Product
  <2> HIDE DEF U
  <2>2. n \in Nat /\ Cardinality(1 .. f[x]) = n  BY <1>2
  <2> HIDE DEF n
  <2>3. 1 * n = n  BY <2>2
  <2> QED  BY <1>1, <2>1, <2>2, <2>3
<1>4. Units(f, T \cup {x}) = Units(f, T) \cup U  BY DEF Units
<1>5. Units(f, T) \cap U = {}  BY DEF Units
<1>6. Cardinality({}) = 0  BY FS_EmptySet
<1>7. Cardinality(Units(f, T)) \in Nat /\ Cardinality(U) \in Nat  BY <1>3, FS_CardinalityType
<1> HIDE DEF U, n
<1>8. /\ IsFiniteSet(Units(f, T) \cup U)
      /\ Cardinality(Units(f, T) \cup U) =
           Cardinality(Units(f, T)) + Cardinality(U) - Cardinality(Units(f, T) \cap U)
  BY <1>3, FS_Union
<1>9. /\ IsFiniteSet(Units(f, T \cup {x}))
      /\ Cardinality(Units(f, T \cup {x})) = Cardinality(Units(f, T)) + n - 0
  BY <1>3, <1>4, <1>5, <1>6, <1>8
<1>10. Cardinality(Units(f, T)) + n - 0 = Cardinality(Units(f, T)) + n  BY <1>3, <1>7
<1> QED  BY <1>9, <1>10 DEF n

LEMMA UnitsAreFinite ==
  ASSUME NEW S, IsFiniteSet(S), NEW f, \A x \in S : f[x] \in Int
  PROVE  \A T \in SUBSET S : IsFiniteSet(Units(f, T))
<1> DEFINE C == {T \in SUBSET S : ~IsFiniteSet(Units(f, T))}
<1>1. SUFFICES ASSUME C # {}
               PROVE  FALSE
  OBVIOUS
<1>2. PICK T \in C : \A U \in C : U \subseteq T => U = T
  <2>1. C \in SUBSET SUBSET S  OBVIOUS
  <2> HIDE DEF C
  <2> QED  BY <1>1, <2>1, MinimalSubset
<1>3. T # {}  BY <1>2, UnitsOfNone
<1>4. PICK x \in T : TRUE  BY <1>3
<1>5. IsFiniteSet(Units(f, T \ {x}))  BY <1>2, <1>4
<1>6. T = (T \ {x}) \cup {x} /\ f[x] \in Int  BY <1>4
<1>7. IsFiniteSet(Units(f, T))  BY <1>5, <1>6, UnitsOfOneMore
<1> QED  BY <1>2, <1>7

\* The sum of f over T, counted.
Opposite(f) == [x \in DOMAIN f |-> -f[x]]

Counted(f, T) == Cardinality(Units(f, T)) - Cardinality(Units(Opposite(f), T))

LEMMA CountedSum ==
  ASSUME NEW S, IsFiniteSet(S), NEW f \in [S -> Int]
  PROVE  /\ Counted(f, {}) = 0
         /\ \A T \in SUBSET S : /\ Counted(f, T) \in Int
                                /\ \A x \in T : Counted(f, T) = f[x] + Counted(f, T \ {x})
<1> DEFINE g == Opposite(f)
<1>1. g \in [S -> Int] /\ \A x \in S : g[x] = -f[x]  BY DEF Opposite
<1> HIDE DEF g
<1>2. \A T \in SUBSET S : IsFiniteSet(Units(f, T)) /\ IsFiniteSet(Units(g, T))
  BY <1>1, UnitsAreFinite
<1>3. \A T \in SUBSET S : Cardinality(Units(f, T)) \in Nat /\ Cardinality(Units(g, T)) \in Nat
  BY <1>2, FS_CardinalityType
<1>4. Counted(f, {}) = 0  BY UnitsOfNone DEF Counted
<1>5. ASSUME NEW T \in SUBSET S, NEW x \in T
      PROVE  Counted(f, T) = f[x] + Counted(f, T \ {x})
  <2>1. T \ {x} \in SUBSET S /\ x \notin T \ {x} /\ T = (T \ {x}) \cup {x}  OBVIOUS
  <2>2. f[x] \in Int /\ g[x] \in Int /\ g[x] = -f[x]  BY <1>1
  <2>3. Cardinality(Units(f, T)) =
          Cardinality(Units(f, T \ {x})) + (IF f[x] > 0 THEN f[x] ELSE 0)
    BY <1>2, <2>1, <2>2, UnitsOfOneMore
  <2>4. Cardinality(Units(g, T)) =
          Cardinality(Units(g, T \ {x})) + (IF g[x] > 0 THEN g[x] ELSE 0)
    BY <1>2, <2>1, <2>2, UnitsOfOneMore
  <2> QED  BY <1>3, <2>1, <2>2, <2>3, <2>4 DEF Counted, g
<1>6. \A T \in SUBSET S : Counted(f, T) \in Int  BY <1>3 DEF Counted, g
<1> QED  BY <1>4, <1>5, <1>6

\* The function that MapThenSumSet folds S with is the counted sum.
Folds(iter, f, S) ==
  iter = [T \in SUBSET S |->
            IF T = {} THEN 0 ELSE f[CHOOSE x \in T : TRUE] + iter[T \ {CHOOSE x \in T : TRUE}]]

LEMMA FoldCounts ==
  ASSUME NEW R, IsFiniteSet(R), NEW f \in [R -> Int], NEW S \in SUBSET R
  PROVE  /\ Folds([T \in SUBSET S |-> Counted(f, T)], f, S)
         /\ \A iter : Folds(iter, f, S) => iter[S] = Counted(f, S)
<1>0. /\ Counted(f, {}) = 0
      /\ \A T \in SUBSET S : \A x \in T : Counted(f, T) = f[x] + Counted(f, T \ {x})
  BY CountedSum
<1>01. IsFiniteSet(S)  BY FS_Subset
<1>1. ASSUME NEW T \in SUBSET S, T # {}
      PROVE  (CHOOSE x \in T : TRUE) \in T
  BY <1>1
<1>2. Folds([T \in SUBSET S |-> Counted(f, T)], f, S)
  <2> DEFINE iter == [T \in SUBSET S |-> Counted(f, T)]
  <2>1. ASSUME NEW T \in SUBSET S, T # {}
        PROVE  iter[T] = f[CHOOSE x \in T : TRUE] + iter[T \ {CHOOSE x \in T : TRUE}]
    <3>1. PICK x \in T : x = CHOOSE y \in T : TRUE  BY <1>1, <2>1
    <3>2. Counted(f, T) = f[x] + Counted(f, T \ {x})  BY <1>0
    <3> QED  BY <3>1, <3>2
  <2>2. iter[{}] = 0  BY <1>0
  <2> QED  BY <2>1, <2>2 DEF Folds
<1>3. ASSUME NEW iter, Folds(iter, f, S)
      PROVE  iter[S] = Counted(f, S)
  <2> DEFINE C == {T \in SUBSET S : iter[T] # Counted(f, T)}
  <2>1. SUFFICES ASSUME C # {}
                 PROVE  FALSE
    OBVIOUS
  <2>2. PICK T \in C : \A U \in C : U \subseteq T => U = T
    <3>1. C \in SUBSET SUBSET S  OBVIOUS
    <3> HIDE DEF C
    <3> QED  BY <1>01, <2>1, <3>1, MinimalSubset
  <2>3. iter[T] = IF T = {} THEN 0
                  ELSE f[CHOOSE x \in T : TRUE] + iter[T \ {CHOOSE x \in T : TRUE}]
    BY <1>3, Zenon DEF Folds
  <2>4. T # {}  BY <1>0, <2>2, <2>3
  <2>5. PICK x \in T : x = CHOOSE y \in T : TRUE  BY <1>1, <2>4
  <2>6. iter[T \ {x}] = Counted(f, T \ {x})  BY <2>2, <2>5
  <2>7. iter[T] = f[x] + iter[T \ {x}]  BY <2>3, <2>4, <2>5
  <2>8. Counted(f, T) = f[x] + Counted(f, T \ {x})  BY <1>0, <2>2
  <2> QED  BY <2>2, <2>6, <2>7, <2>8
<1> QED  BY <1>2, <1>3

-----------------------------------------------------------------------------
(* The ledger: what a set of orders adds to a counter.                     *)

\* F tells what offers each request has found.
NetOf(F, P, x) == MapThenSumSet(LAMBDA r : DeltaIn(r, F[r], x), P)

Deltas(F, x) == [r \in Requests |-> DeltaIn(r, F[r], x)]

LEMMA NetCounts ==
  ASSUME NEW F, NEW P \in SUBSET Requests, NEW x \in Rows
  PROVE  NetOf(F, P, x) = Counted(Deltas(F, x), P)
<1> DEFINE f == Deltas(F, x)
           Body(iter) ==
             iter = [s \in SUBSET P |->
                       IF s = {} THEN 0
                       ELSE DeltaIn(CHOOSE r \in s : TRUE, F[CHOOSE r \in s : TRUE], x) + iter[s \ {CHOOSE r \in s : TRUE}]]
<1>1. NetOf(F, P, x) = (CHOOSE iter : Body(iter))[P]
  BY DEF NetOf, MapThenSumSet, MapThenFoldSet
<1>2. IsFiniteSet(Requests) /\ f \in [Requests -> Int]
  BY PipelineAssumption, DeltaInType DEF Deltas
<1>3. ASSUME NEW iter
      PROVE  Body(iter) <=> Folds(iter, f, P)
  <2>1. \A s \in SUBSET P : s # {} => f[CHOOSE r \in s : TRUE] = DeltaIn(CHOOSE r \in s : TRUE, F[CHOOSE r \in s : TRUE], x)
    BY DEF Deltas
  <2> HIDE DEF f
  <2>2. [s \in SUBSET P |->
           IF s = {} THEN 0
           ELSE DeltaIn(CHOOSE r \in s : TRUE, F[CHOOSE r \in s : TRUE], x) + iter[s \ {CHOOSE r \in s : TRUE}]] =
        [s \in SUBSET P |->
           IF s = {} THEN 0 ELSE f[CHOOSE r \in s : TRUE] + iter[s \ {CHOOSE r \in s : TRUE}]]
    BY <2>1
  <2> QED  BY <2>2 DEF Folds
<1> HIDE DEF f
<1>4. Folds([s \in SUBSET P |-> Counted(f, s)], f, P)  BY <1>2, FoldCounts
<1>5. \E iter : Body(iter)  BY <1>3, <1>4, Zenon
<1>6. Body(CHOOSE iter : Body(iter))  BY <1>5, Zenon
<1>7. Folds(CHOOSE iter : Body(iter), f, P)  BY <1>3, <1>6, Zenon
<1> HIDE DEF Body
<1>8. (CHOOSE iter : Body(iter))[P] = Counted(f, P)  BY <1>2, <1>7, FoldCounts
<1> QED  BY <1>1, <1>8 DEF f

\* One order more adds what it moves the counter by.
LEMMA NetGrows ==
  ASSUME NEW F, NEW x \in Rows
  PROVE  /\ NetOf(F, {}, x) = 0
         /\ \A P \in SUBSET Requests :
              /\ NetOf(F, P, x) \in Int
              /\ \A r \in Requests \ P : NetOf(F, P \cup {r}, x) = NetOf(F, P, x) + DeltaIn(r, F[r], x)
<1> DEFINE f == Deltas(F, x)
<1>1. /\ IsFiniteSet(Requests) /\ f \in [Requests -> Int]
      /\ \A r \in Requests : f[r] = DeltaIn(r, F[r], x) /\ DeltaIn(r, F[r], x) \in Int
  BY PipelineAssumption, DeltaInType DEF Deltas
<1> HIDE DEF f
<1>2. /\ Counted(f, {}) = 0
      /\ \A P \in SUBSET Requests :
           /\ Counted(f, P) \in Int
           /\ \A r \in P : Counted(f, P) = f[r] + Counted(f, P \ {r})
  BY <1>1, CountedSum
<1>3. \A P \in SUBSET Requests : NetOf(F, P, x) = Counted(f, P)  BY NetCounts DEF f
<1>4. ASSUME NEW P \in SUBSET Requests, NEW r \in Requests \ P
      PROVE  NetOf(F, P \cup {r}, x) = NetOf(F, P, x) + DeltaIn(r, F[r], x)
  <2>1. P \cup {r} \in SUBSET Requests /\ (P \cup {r}) \ {r} = P /\ r \in P \cup {r}
    OBVIOUS
  <2>2. Counted(f, P \cup {r}) = f[r] + Counted(f, P)  BY <1>2, <2>1
  <2> QED  BY <1>1, <1>2, <1>3, <2>1, <2>2
<1> QED  BY <1>2, <1>3, <1>4

\* Only the offers of the requests in P count.
LEMMA NetDepends ==
  ASSUME NEW F, NEW G, NEW P \in SUBSET Requests, NEW x \in Rows,
         \A r \in P : DeltaIn(r, F[r], x) = DeltaIn(r, G[r], x)
  PROVE  NetOf(F, P, x) = NetOf(G, P, x)
<1> DEFINE f == Deltas(F, x)
           g == Deltas(G, x)
<1>1. /\ \A r \in P : f[r] = g[r] /\ Opposite(f)[r] = Opposite(g)[r]
      /\ NetOf(F, P, x) = Counted(f, P) /\ NetOf(G, P, x) = Counted(g, P)
  BY NetCounts DEF Deltas, Opposite
<1> HIDE DEF f, g
<1>2. Units(f, P) = Units(g, P) /\ Units(Opposite(f), P) = Units(Opposite(g), P)
  BY <1>1 DEF Units
<1> QED
  BY <1>1, <1>2 DEF Counted

LEMMA NetIsNetOf ==
  /\ \A x : NetPlaced(x) = NetOf(lineOffers, Placed, x)
  /\ \A x : (NetPlaced(x) = NetOf(lineOffers, Placed, x))'
BY DEF NetPlaced, NetOf, Delta, MapThenSumSet, MapThenFoldSet

\* What a step does to the orders and to the counters.
LEMMA LedgerSteps ==
  ASSUME IInv, NEW r \in Requests, StepKind(r)
  PROVE  \/ UNCHANGED <<db, Placed>>
         \/ /\ \E x \in Rows : CompensateRow(r, x)
            /\ UNCHANGED Placed
         \/ /\ Commit(r)
            /\ r \in Requests \ Placed /\ Placed' = Placed \cup {r}
            /\ held[r] = RowsOf(r)
<1> USE DEF IInv
<1>1. CASE Commit(r)
  <2>1. r \notin Placed
    BY <1>1 DEF Commit, At, OrderInv, Placed
  <2>2. Placed' = Placed \cup {r}
    BY <1>1 DEF Commit, Placed, TypeOK
  <2>3. held[r] = RowsOf(r)
    BY <1>1, CartRows DEF Commit, At, Open, CoverInv, RowsInv, AfterStock, AfterDiscount
  <2> QED
    BY <1>1, <2>1, <2>2, <2>3
<1>2. CASE Cancellation(r)
  <2>1. UNCHANGED <<db, Placed>>
    BY <1>2 DEF Cancellation, Placed, TypeOK
  <2> QED
    BY <2>1
<1>3. ASSUME NEW x \in Rows, CompensateRow(r, x)
      PROVE  UNCHANGED Placed
  BY <1>3 DEF CompensateRow, Placed
<1>4. CASE UNCHANGED <<db, order>>
  BY <1>4 DEF Placed
<1>5. \/ Commit(r) \/ Cancellation(r)
      \/ \E x \in Rows : CompensateRow(r, x)
      \/ UNCHANGED <<db, order>>
  BY DEF StepKind, Begin, Advance, Completes, Reserve, UpdateRow, Check, StepThrows, Throws,
         TxTimeout, Rejects, Fails, Compensation, Compensates
<1> QED
  BY <1>1, <1>2, <1>3, <1>4, <1>5

\* Rows outside of a cart are not moved by it.
LEMMA DeltaOutside ==
  ASSUME TypeOK, NEW r \in Requests, NEW x \in Rows \ RowsOf(r)
  PROVE  Delta(r, x) = 0
<1>1. CASE x \in Skus
  <2>1. {line \in CartLines[r] : line[1] = x} = {}
    BY DEF RowsOf, RowsIn, SkusOf
  <2>2. Copies(r, x) = 0
    BY <2>1, FS_EmptySet DEF Copies
  <2>3. Cart[r][x] \in Nat /\ Delta(r, x) = -(Copies(r, x) * Cart[r][x])
    BY <1>1, DeltaType
  <2> QED
    BY <2>2, <2>3
<1>2. CASE x \notin Skus
  <2>1. {line \in CartLines[r] : x \in lineOffers[r][line[1]]} = {}
    BY DEF RowsOf, RowsIn, OfferRowsIn, SkusOf
  <2>2. Uses(r, lineOffers[r], x) = 0
    BY <2>1, FS_EmptySet DEF Uses
  <2> QED
    BY <1>2, <2>2 DEF Delta, DeltaIn
<1> QED
  BY <1>1, <1>2

\* A placed order moves every counter by what the ledger notes of it.
LEMMA CommitBooks ==
  ASSUME IInv, NEW r \in Requests, Commit(r), held[r] = RowsOf(r), NEW x \in Rows
  PROVE  db'[x] = db[x] + Delta(r, x) /\ db[x] \in Int /\ Delta(r, x) \in Int
<1>1. db[x] \in Int /\ Delta(r, x) \in Int
  BY DeltaType DEF IInv, TypeOK
<1>2. CASE x \in RowsOf(r)
  BY <1>1, <1>2 DEF Commit
<1>3. CASE x \notin RowsOf(r)
  <2>1. Delta(r, x) = 0
    BY <1>3, DeltaOutside DEF IInv
  <2>2. db'[x] = db[x]
    BY <1>3 DEF Commit
  <2> QED
    BY <1>1, <2>1, <2>2
<1> QED
  BY <1>1, <1>2, <1>3

\* Uses are counted upwards, pieces downwards.
LEMMA DeltaSigns ==
  ASSUME NEW r \in Requests
  PROVE  /\ \A s \in Skus : s \in Rows /\ Delta(r, s) <= 0
         /\ \A o \in Offers : o \in Rows /\ Delta(r, o) >= 0
<1>1. \A o \in Offers : o \in Rows /\ o \notin Skus
  BY PipelineAssumption DEF Rows
<1>2. \A o \in Offers : Uses(r, lineOffers[r], o) \in Nat
  BY LinesCount DEF Uses
<1> QED
  BY <1>1, <1>2, DeltaType DEF Rows, Delta, DeltaIn

LEMMA LedgerTypes ==
  ASSUME TypeOK, NEW x \in Rows
  PROVE  db[x] \in Int /\ InitialCount[x] \in Int /\ NetPlaced(x) \in Int
<1>1. db[x] \in Int
  BY DEF TypeOK
<1>2. InitialCount[x] \in Nat
  BY PipelineAssumption
<1>3. NetOf(lineOffers, Placed, x) \in Int
  BY NetGrows DEF Placed
<1> QED
  BY <1>1, <1>2, <1>3, NetIsNetOf

\* A step without a new order leaves what the orders explain, whatever offers
\* it finds.
LEMMA NetStays ==
  ASSUME IInv, NEW r \in Requests, StepKind(r), UNCHANGED Placed, NEW x \in Rows
  PROVE  NetPlaced(x)' = NetPlaced(x)
<1>1. \A q \in Placed : DeltaIn(q, lineOffers'[q], x) = DeltaIn(q, lineOffers[q], x)
  BY PlacedStays DEF IInv, Delta
<1>2. Placed \in SUBSET Requests
  BY DEF Placed
<1>3. NetOf(lineOffers', Placed, x) = NetOf(lineOffers, Placed, x)
  BY <1>1, <1>2, NetDepends
<1> QED
  BY <1>3, NetIsNetOf

\* A new order adds what it moves the counter by.
LEMMA NetCommit ==
  ASSUME NEW r \in Requests, Commit(r), r \in Requests \ Placed,
         Placed' = Placed \cup {r}, NEW x \in Rows
  PROVE  NetPlaced(x)' = NetPlaced(x) + Delta(r, x)
<1>1. Placed \in SUBSET Requests
  BY DEF Placed
<1>2. lineOffers' = lineOffers
  BY DEF Commit
<1>3. NetOf(lineOffers, Placed', x) = NetOf(lineOffers, Placed, x) + Delta(r, x)
  BY <1>1, NetGrows DEF Delta
<1> QED
  BY <1>2, <1>3, NetIsNetOf

LEMMA NothingLostStep ==
  ASSUME IInv, NothingLost, [Next]_vars
  PROVE  NothingLost'
<1>1. \A x \in Rows : db[x] \in Int /\ InitialCount[x] \in Int /\ NetPlaced(x) \in Int
  BY LedgerTypes DEF IInv
<1>2. CASE UNCHANGED <<db, lineOffers, Placed>>
  BY <1>2, NetIsNetOf DEF NothingLost
<1>3. ASSUME NEW r \in Requests, Commit(r), r \in Requests \ Placed,
             Placed' = Placed \cup {r}, held[r] = RowsOf(r), NEW x \in Rows
      PROVE  db'[x] = db[x] + Delta(r, x) /\ NetPlaced(x)' = NetPlaced(x) + Delta(r, x)
             /\ Delta(r, x) \in Int
  BY <1>3, CommitBooks, NetCommit
<1>4. ASSUME NEW r \in Requests, NEW x \in Rows, CompensateRow(r, x), UNCHANGED Placed,
             NEW y \in Rows
      PROVE  /\ db'[y] = IF y = x THEN db[y] - Delta(r, y) ELSE db[y]
             /\ NetPlaced(y)' = NetPlaced(y) /\ Delta(r, y) \in Int
  <2>1. StepKind(r)
    BY <1>4 DEF StepKind
  <2> QED
    BY <1>4, <2>1, NetStays, DeltaType DEF CompensateRow, IInv, TypeOK
<1>5. ASSUME NEW r \in Requests, StepKind(r)
      PROVE  NothingLost'
  <2>1. CASE Commit(r) /\ r \in Requests \ Placed /\ Placed' = Placed \cup {r}
             /\ held[r] = RowsOf(r)
    BY <1>1, <1>3, <2>1 DEF NothingLost, Rows
  <2>2. ASSUME NEW x \in Rows, CompensateRow(r, x), UNCHANGED Placed
        PROVE  NothingLost'
    BY <1>1, <1>4, <2>2, DeltaSigns DEF NothingLost, Rows
  <2>3. CASE UNCHANGED <<db, Placed>>
    <3>1. \A x \in Rows : NetPlaced(x)' = NetPlaced(x)
      BY <1>5, <2>3, NetStays
    <3> QED
      BY <2>3, <3>1 DEF NothingLost, Rows
  <2> QED
    BY <1>5, <2>1, <2>2, <2>3, LedgerSteps
<1>6. UNCHANGED vars => UNCHANGED <<db, lineOffers, Placed>>
  BY DEF vars, Placed
<1> QED
  BY <1>2, <1>5, <1>6, StepKinds DEF IInv

LEMMA BooksStep ==
  ASSUME IInv, BooksBalanceWithoutFailures, [Next]_vars
  PROVE  BooksBalanceWithoutFailures'
<1> SUFFICES ASSUME (\A q \in Requests : phase[q] \notin {"rollback", "failed"})', NEW x \in Rows
             PROVE  db'[x] = InitialCount[x] + NetPlaced(x)'
  BY DEF BooksBalanceWithoutFailures
<1>1. \A y \in Rows : /\ db[y] \in Int /\ InitialCount[y] \in Int /\ NetPlaced(y) \in Int
  BY LedgerTypes DEF IInv
<1>2. ASSUME UNCHANGED db, NetPlaced(x)' = NetPlaced(x),
             \A q \in Requests : phase[q] \notin {"rollback", "failed"}
      PROVE  db'[x] = InitialCount[x] + NetPlaced(x)'
  BY <1>2 DEF BooksBalanceWithoutFailures
<1>3. ASSUME NEW r \in Requests, StepKind(r)
      PROVE  db'[x] = InitialCount[x] + NetPlaced(x)'
  <2>1. phase[r] \notin {"rollback", "failed"} /\ ~StepThrows(r) /\ ~Rejects(r)
    BY <1>3 DEF StepKind, Begin, Advance, Completes, Reserve, UpdateRow, Check, CompensateRow,
       StepThrows, Throws, TxTimeout, Commit, At, Rejects, Fails, Compensation, Compensates,
       Cancellation, IInv, TypeOK
  <2>2. ASSUME NEW q \in Requests, q # r
        PROVE  phase'[q] = phase[q]
    BY <1>3, <2>2 DEF StepKind, Begin, Advance, Completes, Reserve, UpdateRow, Check, CompensateRow,
       StepThrows, Throws, TxTimeout, Commit, At, Rejects, Fails, Compensation, Compensates,
       Cancellation, IInv, TypeOK
  <2>3. \A q \in Requests : phase[q] \notin {"rollback", "failed"}
    BY <2>1, <2>2
  <2>4. ~(\E y \in Rows : CompensateRow(r, y))
    BY <2>1 DEF CompensateRow
  <2>5. CASE Commit(r) /\ r \in Requests \ Placed /\ Placed' = Placed \cup {r}
             /\ held[r] = RowsOf(r)
    <3>2. db[x] = InitialCount[x] + NetPlaced(x)
      BY <2>3 DEF BooksBalanceWithoutFailures
    <3>3. db'[x] = db[x] + Delta(r, x) /\ Delta(r, x) \in Int
      BY <2>5, CommitBooks
    <3>4. NetPlaced(x)' = NetPlaced(x) + Delta(r, x)
      BY <2>5, NetCommit
    <3>5. InitialCount[x] \in Int /\ NetPlaced(x) \in Int
      BY <1>1
    <3> QED
      BY <3>2, <3>3, <3>4, <3>5
  <2>6. UNCHANGED Placed => NetPlaced(x)' = NetPlaced(x)
    BY <1>3, NetStays
  <2> QED
    BY <1>2, <1>3, <2>3, <2>4, <2>5, <2>6, LedgerSteps
<1>4. CASE UNCHANGED vars
  <2>1. UNCHANGED <<db, lineOffers, Placed, phase>>
    BY <1>4 DEF vars, Placed
  <2> QED
    BY <1>2, <2>1, NetIsNetOf
<1> QED
  BY <1>3, <1>4, StepKinds DEF IInv

LEMMA LedgerInit == Init => NothingLost /\ BooksBalanceWithoutFailures
<1> SUFFICES ASSUME Init
             PROVE  NothingLost /\ BooksBalanceWithoutFailures
  OBVIOUS
<1>1. Placed = {}
  BY DEF Init, Placed
<1>2. \A x \in Rows : NetPlaced(x) = 0 /\ InitialCount[x] \in Int
  BY <1>1, NetGrows, NetIsNetOf, PipelineAssumption
<1> QED
  BY <1>2 DEF Init, NothingLost, BooksBalanceWithoutFailures, Rows

\* No stock is missing and no use counted that a placed order does not account
\* for: a commit moves every counter by what its order notes (CoverInv), and a
\* compensation only gives back.
THEOREM NoStockLost == Spec => []NothingLost
<1>1. Init => NothingLost
  BY LedgerInit
<1>2. IInv /\ NothingLost /\ [Next]_vars => NothingLost'
  BY NothingLostStep
<1> QED
  BY <1>1, <1>2, Invariance, PTL DEF Spec

\* Until the first request fails, the counters are what the orders explain.
THEOREM BooksBalance == Spec => []BooksBalanceWithoutFailures
<1>1. Init => BooksBalanceWithoutFailures
  BY LedgerInit
<1>2. IInv /\ BooksBalanceWithoutFailures /\ [Next]_vars => BooksBalanceWithoutFailures'
  BY BooksStep
<1> QED
  BY <1>1, <1>2, Invariance, PTL DEF Spec

=============================================================================
