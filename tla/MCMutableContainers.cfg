SPECIFICATION Spec
CONSTANTS
  Types <- MCTypes
  Plain <- MCPlain
  MaxItems = 2
  MaxEdits = 3
  MaxUnits = 2
  ContainerLimit = 10
  ByteRange = 16
  ByteLimit = 14
  IndexTail <- Tail1
  Position <- Reversed
INVARIANTS DirtyIsConservative DetectsOwnWords UnitsReadBack
CHECK_DEADLOCK FALSE
