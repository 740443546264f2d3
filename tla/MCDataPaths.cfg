SPECIFICATION DataSpec
CONSTANTS
  PageBytes = 2
  SubPages = 2
  Regions = 2
  IndexSpan = 4
  SimplePages = 2
  RegisterSpan = 5
  UintSpan = 40
  Firsts = {0, 1, 2, 3, 4, 5, 6, 7, 39, 41}
  MaxBytes = 9
  MaxCalls = 2
  Layers <- MCLayers
  Anchors = {a1, a2, a3}
  Classes = {c1, c2}
  Scores = {0, 1, 2}
  ScoreThreshold = 1
  Limits <- MCLimits
  OutMax = 2
  MaxCandidates = 3
  ByteBits = 2
  WordBytes = 2
  Lengths = {5}
  Offsets <- MCOffsets
  MaxFields = 2
  Outputs <- MCOutputs
  Files <- MCFiles
INVARIANTS DataTypeOK WalkExact WalkStaysInside BufferCovered TensorExact KeptApart NothingLost PatchExact PatchInside ShownIsWritten EveryAddressBacked
CHECK_DEADLOCK FALSE
