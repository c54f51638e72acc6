SPECIFICATION Spec
CONSTANTS
  HeadFields = 1
  SectionFields = 2
  SectionRange = 3
  HalfRange = 16
  CountRange = 16
  SizeLimit = 18
  Counts = {0, 6}
  Scalars <- FieldScalars
  Objects <- FieldObjects
  Lengths = {1, 3, 4}
  ScalarLengths = {2}
  Stale = 7
  StartBuffers <- Buffers
INVARIANTS ReadsBack DetectsExactExtent
PROPERTIES EarlierWordsKept
CHECK_DEADLOCK FALSE
