SPECIFICATION Spec
CONSTANTS
  LiteralMax = 3
  FillMax = 2
  Window = 4
  Pad = 3
  VarintRange = 4
  HeaderLimit = 3
  VarintBytes = 2
  MinAlloc = 2
  MaxData = 7
  MaxStream = 4
  Inputs <- Mixes
  Streams <- OddStreams
  OldOutputs <- Used
  OldCapacities = {0, 5}
INVARIANT WritesStayReserved
CHECK_DEADLOCK FALSE
