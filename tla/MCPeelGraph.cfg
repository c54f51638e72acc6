SPECIFICATION Spec
CONSTANTS
  Section = 2
  EdgeCounts = {2, 3, 4}
  SlotCount <- Slots
  Graphs <- AllGraphs
INVARIANTS ListsMirrorGraph QueueCoversSingles
PROPERTIES ImplementsPeeling
CHECK_DEADLOCK FALSE
