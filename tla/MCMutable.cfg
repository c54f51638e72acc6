SPECIFICATION MutableSpec
CONSTANTS
  HeadFields = 2
  SectionFields = 3
  SectionRange = 4
  HalfRange = 64
  CountRange = 64
  SizeLimit = 1000
  Kinds <- Mixed
  NestedKinds <- Inner
  Values <- FieldValues
  NestedValues <- InnerValues
  TextRange = 8
  TextLengths = {1, 5}
  NestedTextLengths = {2, 4}
  MaxLoads = 2
INVARIANTS GettersReturnContent RoundTrips OutputIsCanonical
