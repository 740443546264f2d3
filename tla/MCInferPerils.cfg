SPECIFICATION Spec
CONSTANTS
  v1 = v1
  v2 = v2
  Vectors <- OneVector
  MaxRequests = 2
  RingSize = 3
  SettlePolls = 0
  Env <- PerilEnv
INVARIANTS CleanInv CleanCallIsComplete
CHECK_DEADLOCK FALSE
