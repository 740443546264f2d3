SPECIFICATION Spec
CONSTANTS
  SlotCount = 2
  SimplePages = 3
  Regions = 1
  SubPages = 2
  MaxExtras = 1
  MaxBuffers = 4
  MaxHandles = 1
  MapRanges <- AnyRanges
  BitstreamSizes = {0, 2}
  AllocRequests <- SlotRequests
  Use = {"map", "param", "alloc"}
INVARIANTS TypeOK SlotInv OneOwner NoFreedSlotEntry GrantedSlotMapped CloseReleasesAll CachesClearedFirst
CHECK_DEADLOCK FALSE
