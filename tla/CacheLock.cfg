\* Three calls for a key.  The system stops when they are answered.
SPECIFICATION FairSpec
CONSTANTS
  c1 = c1
  c2 = c2
  c3 = c3
  NoThread = NoThread
  Calls = {c1, c2, c3}
  Method <- Mixed
  MaxCrashes = 1
  MaxRedisErrors = 1
INVARIANTS TypeOK OneLeader
PROPERTIES CallsAnswered LocksFreed
CHECK_DEADLOCK FALSE
