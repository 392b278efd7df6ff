\* A guest, who is a customer, too; three requests at once.  The system stops
\* when they are answered.
SPECIFICATION Spec
CONSTANTS
  g = g
  k = k
  s1 = s1
  s2 = s2
  r1 = r1
  r2 = r2
  r3 = r3
  NoCustomer = NoCustomer
  Nobody = Nobody
  Sessions = {g}
  Customers = {k}
  Skus = {s1, s2}
  Requests = {r1, r2, r3}
  Stocks <- StocksOf
  Who <- WhoThree
  Jobs <- JobsThree
INVARIANTS TypeOK DuplicatesOnlyByMerge QuantitiesWithinStock LinesAskedFor SequentialChangesKept
CHECK_DEADLOCK FALSE
