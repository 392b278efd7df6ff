\* Three requests.  The system stops when they are answered.
SPECIFICATION Spec
CONSTANTS
  r1 = r1
  r2 = r2
  r3 = r3
  Requests = {r1, r2, r3}
  Rows <- RowsOfShop
  KindOf <- KindOfRows
  OwnerOf <- OwnerOfRows
  Refs <- RefsOfRows
  Initially <- AtFirst
  Detailed = "p"
  MaxExpiries = 1
  Jobs <- JobsThree
INVARIANTS TypeOK AtMostOneUnlessOutrun FlagSurvives ChangesShow
CHECK_DEADLOCK FALSE
