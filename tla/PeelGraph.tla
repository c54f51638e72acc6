------------------------------ MODULE PeelGraph ------------------------------
(***************************************************************************)
(* peel_graph of protocache-core serialize.rs, with its data structures.   *)
(*                                                                         *)
(* Three vertices stand for the three ends of an edge; the vertices that   *)
(* meet in a slot form a doubly linked list that starts at heads[slot].  A *)
(* slot whose list has one vertex is queued; a slot may have lost that     *)
(* vertex by the time it comes to the front.  Vertices, slots and edges    *)
(* are numbered from 1 and NONE is 0 (the code numbers them from 0 and has *)
(* usize::MAX for NONE).                                                   *)
(***************************************************************************)
EXTENDS Naturals, Sequences, FiniteSets

CONSTANTS
  SlotCount,  \* slots of the graph
  Graphs      \* sequences of edges, an edge being a triple of distinct slots

ASSUME GraphsAssumption ==
  /\ SlotCount \in Nat \ {0}
  /\ Graphs \subseteq Seq((1..SlotCount) \X (1..SlotCount) \X (1..SlotCount))

\* Each end of an edge lies in a section of its own.
ASSUME EndsAssumption ==
  \A graph \in Graphs : \A i \in 1..Len(graph) :
    LET e == graph[i] IN e[1] # e[2] /\ e[1] # e[3] /\ e[2] # e[3]

VARIABLES
  edges,
  heads,     \* first vertex of each slot's list
  vertices,  \* [slot, prev, next] of each vertex
  queue,     \* slots to look at
  order,     \* edges peeled
  pc,        \* "link", "queue", "peel", "unlink", then "peeled" or "stuck"
  at         \* link: vertices linked so far; queue: slots looked at so far;
             \* unlink: the vertex unlinked next

vars == <<edges, heads, vertices, queue, order, pc, at>>

NONE == 0

EdgeOf(node) == ((node - 1) \div 3) + 1

EndOf(node) == edges[EdgeOf(node)][((node - 1) % 3) + 1]

\* The slot's list has exactly one vertex.
Single(hs, vs, slot) == hs[slot] # NONE /\ vs[hs[slot]].next = NONE

Init ==
  /\ edges \in Graphs
  /\ heads = [slot \in 1..SlotCount |-> NONE]
  /\ vertices = [node \in 1..3 * Len(edges) |-> [slot |-> NONE, prev |-> NONE, next |-> NONE]]
  /\ queue = <<>>
  /\ order = <<>>
  /\ pc = "link"
  /\ at = 0

\* A vertex becomes the head of its slot's list.
Link ==
  LET node == at + 1
      slot == EndOf(node)
      head == heads[slot]
  IN  /\ pc = "link" /\ at < 3 * Len(edges)
      /\ vertices' = [n \in DOMAIN vertices |->
                        CASE n = node -> [slot |-> slot, prev |-> NONE, next |-> head]
                          [] n = head -> [vertices[n] EXCEPT !.prev = node]
                          [] OTHER    -> vertices[n]]
      /\ heads' = [heads EXCEPT ![slot] = node]
      /\ at' = node
      /\ UNCHANGED <<edges, queue, order, pc>>

StartQueue ==
  /\ pc = "link" /\ at = 3 * Len(edges)
  /\ pc' = "queue"
  /\ at' = 0
  /\ UNCHANGED <<edges, heads, vertices, queue, order>>

\* The slots are queued that have one vertex, in ascending order.
FillQueue ==
  LET slot == at + 1 IN
  /\ pc = "queue"
  /\ queue' = IF Single(heads, vertices, slot) THEN Append(queue, slot) ELSE queue
  /\ pc' = IF slot = SlotCount THEN "peel" ELSE "queue"
  /\ at' = slot
  /\ UNCHANGED <<edges, heads, vertices, order>>

\* A slot that has lost its vertex since it was queued.
Skip ==
  /\ pc = "peel" /\ queue # <<>>
  /\ ~Single(heads, vertices, Head(queue))
  /\ queue' = Tail(queue)
  /\ UNCHANGED <<edges, heads, vertices, order, pc, at>>

Take ==
  LET edge == EdgeOf(heads[Head(queue)]) IN
  /\ pc = "peel" /\ queue # <<>>
  /\ Single(heads, vertices, Head(queue))
  /\ order' = Append(order, edge)
  /\ queue' = Tail(queue)
  /\ pc' = "unlink"
  /\ at' = 3 * edge - 2
  /\ UNCHANGED <<edges, heads, vertices>>

\* Seeded fault: the successor keeps pointing back at the vertex removed.
UnlinkedKeepsPrev(node) ==
  LET v == vertices[node] IN
  [n \in DOMAIN vertices |->
     CASE n = node   -> [v EXCEPT !.slot = NONE]
       [] n = v.prev -> [vertices[n] EXCEPT !.next = v.next]
       [] OTHER      -> vertices[n]]

Unlinked(node) ==
  LET v == vertices[node] IN
  [n \in DOMAIN vertices |->
     CASE n = node   -> [v EXCEPT !.slot = NONE]
       [] n = v.prev -> [vertices[n] EXCEPT !.next = v.next]
       [] n = v.next -> [vertices[n] EXCEPT !.prev = v.prev]
       [] OTHER      -> vertices[n]]

\* Seeded fault: a slot that becomes single again is not queued.
UnlinkQuietly ==
  LET v == vertices[at] IN
  /\ pc = "unlink"
  /\ vertices' = Unlinked(at)
  /\ heads' = IF v.prev = NONE THEN [heads EXCEPT ![v.slot] = v.next] ELSE heads
  /\ pc' = IF at % 3 = 0 THEN "peel" ELSE "unlink"
  /\ at' = at + 1
  /\ UNCHANGED <<edges, queue, order>>

\* One round of the loop over the ends of the peeled edge; an end unlinked
\* already would be passed over.
Unlink ==
  LET v == vertices[at] IN
  /\ pc = "unlink"
  /\ IF v.slot = NONE
     THEN UNCHANGED <<heads, vertices, queue>>
     ELSE /\ vertices' = Unlinked(at)
          /\ heads' = IF v.prev = NONE THEN [heads EXCEPT ![v.slot] = v.next] ELSE heads
          /\ queue' = IF Single(heads', vertices', v.slot) THEN Append(queue, v.slot) ELSE queue
  /\ pc' = IF at % 3 = 0 THEN "peel" ELSE "unlink"
  /\ at' = at + 1
  /\ UNCHANGED <<edges, order>>

\* Seeded fault: the edges peeled are not counted.
FinishUncounted ==
  /\ pc = "peel" /\ queue = <<>>
  /\ pc' = "peeled"
  /\ UNCHANGED <<edges, heads, vertices, queue, order, at>>

Finish ==
  /\ pc = "peel" /\ queue = <<>>
  /\ pc' = IF Len(order) = Len(edges) THEN "peeled" ELSE "stuck"
  /\ UNCHANGED <<edges, heads, vertices, queue, order, at>>

Next == Link \/ StartQueue \/ FillQueue \/ Skip \/ Take \/ Unlink \/ Finish

Spec == Init /\ [][Next]_vars

-----------------------------------------------------------------------------
NodeOrNone == 0..3 * Len(edges)

TypeOK ==
  /\ edges \in Graphs
  /\ heads \in [1..SlotCount -> NodeOrNone]
  /\ vertices \in [1..3 * Len(edges) -> [slot : 0..SlotCount, prev : NodeOrNone, next : NodeOrNone]]
  /\ queue \in Seq(1..SlotCount)
  /\ order \in Seq(1..Len(edges))
  /\ pc \in {"link", "queue", "peel", "unlink", "peeled", "stuck"}
  /\ at \in Nat

Taken == {order[p] : p \in 1..Len(order)}

\* The vertex is in its slot's list: added, and not yet removed with its edge.
Linked(node) ==
  /\ pc = "link" => node <= at
  /\ EdgeOf(node) \in Taken =>
       pc = "unlink" /\ EdgeOf(node) = order[Len(order)] /\ node >= at

\* The vertices in the list of a slot.
Here(slot) == {n \in 1..3 * Len(edges) : EndOf(n) = slot /\ Linked(n)}

(***************************************************************************)
(* The lists mirror the graph through every insertion and removal, also    *)
(* between the removals of one edge's three vertices: a slot's list runs,  *)
(* from heads[slot] on and in descending order, over exactly the vertices  *)
(* linked and not yet unlinked there, and prev is the inverse of next.     *)
(* (The variables have their types.)                                       *)
(***************************************************************************)
Threaded(head, vs, slot, here) ==
  /\ head \in here \cup {NONE}
  /\ \A n \in here :
       LET v == vs[n] IN
       /\ v.slot = slot
       /\ n <= head
       /\ n = head <=> v.prev = NONE
       /\ v.prev # NONE => v.prev \in here /\ vs[v.prev].next = n
       /\ v.next = NONE => \A m \in here : n <= m
       /\ v.next # NONE => /\ v.next \in here /\ v.next < n
                           /\ vs[v.next].prev = n
                           /\ \A m \in here : m < n => m <= v.next

ListsMirrorGraph ==
  TypeOK /\ \A slot \in 1..SlotCount : Threaded(heads[slot], vertices, slot, Here(slot))

(***************************************************************************)
(* The queue never loses a slot that can be peeled: whatever was skipped,  *)
(* every single slot is still ahead in the queue.                          *)
(***************************************************************************)
QueueCoversSingles ==
  pc = "peel" =>
    \A slot \in 1..SlotCount :
      Single(heads, vertices, slot) => \E p \in 1..Len(queue) : queue[p] = slot

(***************************************************************************)
(* The queue and the lists implement peeling: each edge taken is a leaf of *)
(* the graph that is left, none is taken twice, and the search ends only   *)
(* when there is no leaf.  What follows from it for every graph (the slot  *)
(* each edge brings, the core that stays) is proved in PeelGraphProofs.    *)
(***************************************************************************)
Peeling == INSTANCE PeelSpec WITH
  Slot      <- 1..SlotCount,
  remaining <- (1..Len(edges)) \ Taken,
  outcome   <- IF pc \in {"peeled", "stuck"} THEN pc ELSE "peeling"

ImplementsPeeling == Peeling!Spec
=============================================================================
