SPECIFICATION Spec
CONSTANTS
  v1 = v1
  v2 = v2
  MaxRequests = 3
  RingSize = 3
  Vectors <- OneVector
  SettlePolls = 0
  Env <- CacheEnv
INVARIANT RingHoldsPending
PROPERTY ResultsInOrder
CHECK_DEADLOCK FALSE
