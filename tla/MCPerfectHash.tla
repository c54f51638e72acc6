---------------------------- MODULE MCPerfectHash ----------------------------
(***************************************************************************)
(* Small values for PerfectHash: sections of two slots, blocks of four, so *)
(* that an index of three keys or more needs a table, and table entries    *)
(* just wide enough for their number of keys.                              *)
(***************************************************************************)
EXTENDS PerfectHash

CONSTANTS k1, k2, k3, k4

Lists ==
  {<<>>, <<k1>>, <<k1, k2>>, <<k1, k2, k3>>, <<k1, k2, k3, k4>>, <<k1, k1>>, <<k1, k2, k1>>,
   <<k1, k2, k3, k4, k1>>}

SectionFor(n) == IF n <= 2 THEN 1 ELSE 2

RangeFor(n) == IF n <= 2 THEN 0 ELSE n + 1
=============================================================================
