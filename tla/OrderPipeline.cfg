\* Two concurrent requests whose carts overlap in a product version and an
\* offer, found by both or by one only.  The system stops when both are answered.
SPECIFICATION FairSpec
CONSTANTS
  r1 = r1
  r2 = r2
  s1 = s1
  s2 = s2
  o1 = o1
  Requests = {r1, r2}
  Skus = {s1, s2}
  Offers = {o1}
  CartLines <- LinesTwo
  Cart <- CartsTwo
  OfferLists <- OfferOrStaleList
  Client <- AllAccepted
  InitialCount <- CountTwo
  MaxActive = 2
INVARIANTS TypeOK NothingLost BooksBalanceWithoutFailures OversoldOnlyWhenOvertaken
PROPERTIES CommittedOrdersStand RequestsAnswered ImplementsPlacement
CHECK_DEADLOCK FALSE
