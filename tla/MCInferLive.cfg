SPECIFICATION FairSpec
CONSTANTS
  v1 = v1
  v2 = v2
  MaxRequests = 3
  RingSize = 3
  Vectors <- TwoVectors
  SettlePolls = 1
  Env = {}
PROPERTY EveryCallAnswered
CHECK_DEADLOCK FALSE
