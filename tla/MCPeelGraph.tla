----------------------------- MODULE MCPeelGraph -----------------------------
(***************************************************************************)
(* Graphs for PeelGraph, whose edges have one end in each section.         *)
(***************************************************************************)
EXTENDS PeelGraph

CONSTANTS
  Section,     \* slots in a section
  EdgeCounts   \* sizes of the graphs

Slots == 3 * Section

Edges == (1..Section) \X (Section + 1..2 * Section) \X (2 * Section + 1..3 * Section)

AllGraphs == UNION {[1..n -> Edges] : n \in EdgeCounts}
=============================================================================
