SPECIFICATION Spec
CONSTANTS
  v1 = v1
  v2 = v2
  Vectors <- TwoVectors
  MaxRequests = 2
  RingSize = 2
  SettlePolls = 1
  Env <- CalmEnv
SYMMETRY VectorOrder
INVARIANTS TypeOK SuccessIsComplete OneCallInFlight
PROPERTY ImplementsService
CHECK_DEADLOCK FALSE
