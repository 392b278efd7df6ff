\* Two calls of different strategies, two invalidations of the entity and a deletion.
\* The system stops when they are done.
SPECIFICATION Spec
CONSTANTS
  c1 = c1
  c2 = c2
  c3 = c3
  w1 = w1
  w2 = w2
  w3 = w3
  Calls = {c1, c2}
  Strategy <- LockAndSimple
  Writers = {w1, w2, w3}
  Kind <- TwoAndRemove
  MaxHitRenewals = 1
  MaxVersion = 3
  MaxVersionExpiries = 1
INVARIANTS TypeOK FreshUnlessSetBack
CHECK_DEADLOCK FALSE
