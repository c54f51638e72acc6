SPECIFICATION Spec
CONSTANTS
  Shapes <- AllShapes
  Counts = {0, 1, 2, 3, 4}
  Contents <- SlotContents
  Lengths = {1, 2, 3, 5}
  Fourth = {2, 4}
  Stale = 14
  SizeLimit = 17
  IndexTail <- Index
  StartBuffers <- Buffers
INVARIANTS ReadsBack UnitsIntact SegmentsLaidOut TailCoversUnpicked SizeIsExact
PROPERTIES EarlierWordsKept ImplementsContainer
CHECK_DEADLOCK FALSE
