SPECIFICATION Spec
CONSTANTS
  a = a
  b = b
  o1 = o1
  o2 = o2
  o3 = o3
  viewer = viewer
  buyer = buyer
  Nothing = Nothing
  Skus = {a, b}
  Offers = {o1, o2, o3}
  Readers = {viewer, buyer}
  Products = {"helmet", "visor"}
  ProductOf <- OwnProduct
  About <- TwoProducts
  Terms <- ThreeOffers
  Prices <- FirstPrices
  NewPrices = {1500}
  Turns <- OneTurnEach
  Expiring <- PriceAndList
  Jobs <- ViewAndBuy
  Running = {o1, o3}
  MaxChanges = 1
  MaxExpiries = 1
INVARIANT ShippingCharged
CHECK_DEADLOCK FALSE
