\* Two requests with the same offer: what a failed one hands back.
SPECIFICATION Spec
CONSTANTS
  r1 = r1
  r2 = r2
  s1 = s1
  s2 = s2
  o1 = o1
  Requests = {r1, r2}
  Skus = {s1}
  Offers = {o1}
  CartLines <- LinesOne
  Cart <- CartsOne
  OfferLists <- SharedOffer
  Client <- AllAccepted
  InitialCount <- CountOne
  MaxActive = 2
INVARIANTS OfferUsesReleasedOnce
CHECK_DEADLOCK FALSE
