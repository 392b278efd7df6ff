\* One payment, two notifications of it.  The system stops when they are used up.
SPECIFICATION Spec
CONSTANTS
  o1 = o1
  p1 = p1
  p2 = p2
  NoJob = NoJob
  Orders = {o1}
  Payments = {p1}
  OrderOf <- OneOrder
  MpFlow <- Approval
  Jobs = {j1, j2}
  Attempts = 2
  Concurrency = 2
  MaxStalls = 1
  MaxCrashes = 2
  MaxCancels = 1
  StatusPolled = {p1}
  DetailsPolled = {o1}
  Overrides = {}
INVARIANTS TypeOK ShippedOnlyIfEverApproved CompletedMeansShipped
PROPERTIES GivenUpNotedUnlessStalled
CHECK_DEADLOCK FALSE
