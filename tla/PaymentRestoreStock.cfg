\* One payment and one notification of it: what happens to the order's stock.
SPECIFICATION FairSpec
CONSTANTS
  o1 = o1
  p1 = p1
  p2 = p2
  NoJob = NoJob
  Orders = {o1}
  Payments = {p1}
  OrderOf <- OneOrder
  MpFlow <- ApprovalOnly
  Jobs = {j1}
  Attempts = 2
  Concurrency = 2
  MaxStalls = 1
  MaxCrashes = 1
  MaxCancels = 1
  StatusPolled = {p1}
  DetailsPolled = {o1}
  Overrides = {}
PROPERTIES StockRestoredOnlyOnCancel
CHECK_DEADLOCK FALSE
