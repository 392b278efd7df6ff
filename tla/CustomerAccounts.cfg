\* Four requests about two addresses.  The system stops when they are
\* answered and the codes have expired.
SPECIFICATION Spec
CONSTANTS
  e1 = e1
  e2 = e2
  s1 = s1
  p1 = p1
  p2 = p2
  r1 = r1
  r2 = r2
  r3 = r3
  r4 = r4
  Emails = {e1, e2}
  Sessions = {s1}
  Passwords = {p1, p2}
  Requests = {r1, r2, r3, r4}
  Jobs <- JobsFour
  MaxCode = 2
  MaxVersion = 2
  MaxExpiries = 1
INVARIANTS TypeOK AcceptedWasMailed CustomersOwnTheirAddress SpentUnlessRevived LastPasswordCounts
CHECK_DEADLOCK FALSE
