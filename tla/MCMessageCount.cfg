SPECIFICATION Spec
CONSTANTS
  HeadFields = 1
  SectionFields = 2
  SectionRange = 3
  HalfRange = 16
  CountRange = 4
  SizeLimit = 18
  Counts = {0, 6}
  Scalars <- FieldScalars
  Objects <- FieldObjects
  Lengths = {1, 3, 4}
  ScalarLengths = {2}
  Stale = 7
  StartBuffers <- Buffers
INVARIANTS EveryMessageReads
CHECK_DEADLOCK FALSE
