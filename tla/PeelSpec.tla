------------------------------ MODULE PeelSpec ------------------------------
(***************************************************************************)
(* What peel_graph (protocache-core serialize.rs) promises, whatever order *)
(* its queue imposes.                                                      *)
(*                                                                         *)
(* Every key of a map is an edge that joins three slots.  An edge that is  *)
(* alone in one of its slots can be peeled off, which may free others.     *)
(* The graph is peeled when no edge is left; it is stuck when every slot   *)
(* of every edge left is shared.  The order of peeling is what the caller  *)
(* needs: read backwards, each edge brings a slot no earlier one has.      *)
(***************************************************************************)
EXTENDS Naturals, Sequences, FiniteSets

CONSTANTS
  Slot,     \* slots of the graph
  Graphs    \* sequences of edges, an edge being a triple of distinct slots

VARIABLES
  edges,      \* the graph
  remaining,  \* indices of the edges not peeled yet
  order,      \* indices of those peeled, in order
  outcome     \* "peeling", then "peeled" or "stuck"

vars == <<edges, remaining, order, outcome>>

Ends(e) == {e[1], e[2], e[3]}

\* The edges of `rest` that meet at `slot`.
Incident(es, rest, slot) == {i \in rest : slot \in Ends(es[i])}

Leaf(es, rest, i) == \E slot \in Ends(es[i]) : Incident(es, rest, slot) = {i}

Init ==
  /\ edges \in Graphs
  /\ remaining = 1..Len(edges)
  /\ order = <<>>
  /\ outcome = "peeling"

Peel(i) ==
  /\ outcome = "peeling"
  /\ i \in remaining
  /\ Leaf(edges, remaining, i)
  /\ order' = Append(order, i)
  /\ remaining' = remaining \ {i}
  /\ UNCHANGED <<edges, outcome>>

Finish ==
  /\ outcome = "peeling"
  /\ \A i \in remaining : ~Leaf(edges, remaining, i)
  /\ outcome' = IF remaining = {} THEN "peeled" ELSE "stuck"
  /\ UNCHANGED <<edges, remaining, order>>

Next == (\E i \in remaining : Peel(i)) \/ Finish

Spec == Init /\ [][Next]_vars

-----------------------------------------------------------------------------
TypeOK ==
  /\ edges \in Graphs
  /\ remaining \subseteq 1..Len(edges)
  /\ order \in Seq(1..Len(edges))
  /\ outcome \in {"peeling", "peeled", "stuck"}

(***************************************************************************)
(* Each peeled edge has a slot that neither the edges peeled after it nor  *)
(* those left over touch.  The assignment of build_perfect_hash_index,     *)
(* which goes backwards, takes its third branch without looking whether    *)
(* that slot is free: this is why it may.                                  *)
(***************************************************************************)
Later(p) == {order[q] : q \in (p + 1)..Len(order)} \cup remaining

BringsFreeSlot ==
  \A p \in 1..Len(order) :
    \E slot \in Ends(edges[order[p]]) : Incident(edges, Later(p), slot) = {}

(***************************************************************************)
(* The outcome does not depend on the order: edges that share all their    *)
(* slots among themselves are never peeled, so that a graph that contains  *)
(* any (two equal keys, for instance) is always stuck, and one that is     *)
(* stuck does contain some: no seed is given up without need.              *)
(***************************************************************************)
Core(es, set) == \A i \in set : ~Leaf(es, set, i)

CoreStays ==
  /\ \A set \in SUBSET (1..Len(edges)) : Core(edges, set) => set \subseteq remaining
  /\ outcome = "stuck" => remaining # {} /\ Core(edges, remaining)
=============================================================================
