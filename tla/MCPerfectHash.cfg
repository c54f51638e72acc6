SPECIFICATION Spec
CONSTANTS
  k1 = k1
  k2 = k2
  k3 = k3
  k4 = k4
  Key = {k1, k2, k3, k4}
  KeyLists <- Lists
  Section <- SectionFor
  BlockSlots = 4
  TableRange <- RangeFor
  MaxKeys = 5
  MaxSeeds = 2
INVARIANTS SelectsOwnSlot FindsExactly DuplicatesRefused
CHECK_DEADLOCK FALSE
