SPECIFICATION Spec
CONSTANTS
  v1 = v1
  v2 = v2
  MaxRequests = 2
  RingSize = 5
  Vectors <- OneVector
  SettlePolls = 1
  Env <- Exe1Env
INVARIANT SuccessIsComplete
CHECK_DEADLOCK FALSE
