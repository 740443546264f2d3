SPECIFICATION LifecycleSpec
CONSTANTS
  Blocks <- MCBlocks
  NoBlock = 0
  Pick <- MCPick
  Messages = {m1, m2}
  NoMessage = none
  RingSize = 2
  Overlap = FALSE
INVARIANTS LifecycleTypeOK EveryBlockAccounted StoppedHoldsNothing StartedIsReady NoStrayEntry TouchesMapped
