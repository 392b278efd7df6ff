\* Two payments of one order and two notifications, without polling clients.
\* The system stops when the notifications are used up.
SPECIFICATION FairSpec
CONSTANTS
  o1 = o1
  p1 = p1
  p2 = p2
  NoJob = NoJob
  Orders = {o1}
  Payments = {p1, p2}
  OrderOf <- OneOrder
  MpFlow <- ApprovalAndRefusal
  Jobs = {j1, j2}
  Attempts = 2
  Concurrency = 2
  MaxStalls = 1
  MaxCrashes = 1
  MaxCancels = 1
  StatusPolled = {}
  DetailsPolled = {}
  Overrides = {"APPROVED"}
INVARIANTS OrderStatusFollowsPayments
PROPERTIES JobsFinish
CHECK_DEADLOCK FALSE
