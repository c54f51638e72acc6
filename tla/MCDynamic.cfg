SPECIFICATION Spec
CONSTANTS
  HeadFields = 2
  SectionFields = 3
  SectionRange = 3
  HalfRange = 4096
  CountRange = 256
  SizeLimit = 20
  ContainerLimit = 20
  MaxCalls = 2
  ByteRange = 16
  ByteLimit = 14
  Schema <- Types
  Values <- ValuesOf
  Roots <- TheRoots
  IndexTail <- Tail1
  Position <- Reversed
INVARIANTS IgnoresEarlierUse ReadsBack DetectsExactExtent
CHECK_DEADLOCK FALSE
