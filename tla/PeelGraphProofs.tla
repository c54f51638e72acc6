--------------------------- MODULE PeelGraphProofs ---------------------------
(***************************************************************************)
(* Theorems about PeelGraph, for every graph: the linked lists mirror the  *)
(* graph, the queue loses no slot, and the whole implements PeelSpec.      *)
(***************************************************************************)
EXTENDS PeelGraph, FiniteSetTheorems, SequenceTheorems, TLAPS

\* A slot with one vertex is queued, has not been looked at yet, or still
\* has its vertices from the edge just taken.
Covered(slot) ==
  \/ \E p \in 1..Len(queue) : queue[p] = slot
  \/ pc = "queue" /\ slot > at
  \/ pc = "unlink" /\ \E n \in 1..3 * Len(edges) : n >= at /\ EdgeOf(n) = EdgeOf(at) /\ EndOf(n) = slot

\* No slot with a single vertex escapes the queue.
QueueInv ==
  pc \in {"queue", "peel", "unlink"} =>
    \A slot \in 1..SlotCount : Single(heads, vertices, slot) => Covered(slot)

\* What `at` counts, and that no edge is taken twice.
PhaseInv ==
  /\ pc = "link" => at <= 3 * Len(edges)
  /\ pc \in {"link", "queue"} => order = <<>>
  /\ pc = "queue" => at < SlotCount
  /\ pc = "unlink" => /\ at \in 1..3 * Len(edges)
                      /\ order # <<>> /\ EdgeOf(at) = order[Len(order)]
  /\ \A p, q \in 1..Len(order) : order[p] = order[q] => p = q

\* The inductive invariant.
IInv == ListsMirrorGraph /\ QueueInv /\ PhaseInv

-----------------------------------------------------------------------------
(* Vertices and edges *)

\* Division with remainder.
LEMMA Divided ==
  ASSUME NEW m \in Nat, NEW b \in Nat \ {0}, NEW q, NEW r, q = m \div b, r = m % b
  PROVE  m = b * q + r /\ r \in 0..(b - 1) /\ q \in Nat
<1>1. m = b * q + r
  BY SMTT(30)
<1>2. r \in 0..(b - 1)
  BY SMTT(30)
<1>3. q \in Nat
  BY SMTT(30)
<1> QED BY <1>1, <1>2, <1>3

\* Which of its edge's vertices a vertex is.
Part(node) == ((node - 1) % 3) + 1

\* The three vertices of each edge.
LEMMA Nodes ==
  ASSUME NEW k \in Nat, NEW n \in 1..3 * k
  PROVE  /\ EdgeOf(n) \in 1..k
         /\ Part(n) \in 1..3
         /\ n = 3 * EdgeOf(n) - 3 + Part(n)
<1>1. PICK q, r : q = (n - 1) \div 3 /\ r = (n - 1) % 3
  OBVIOUS
<1>2. n - 1 = 3 * q + r /\ r \in 0..2 /\ q \in Nat
  <2>1. n - 1 \in Nat /\ 3 \in Nat \ {0}
    OBVIOUS
  <2>2. n - 1 = 3 * q + r /\ r \in 0..(3 - 1) /\ q \in Nat
    BY <1>1, <2>1, Divided
  <2> QED BY <2>2
<1>3. q + 1 \in 1..k /\ n = 3 * (q + 1) - 3 + (r + 1)
  BY <1>2
<1>4. EdgeOf(n) = q + 1 /\ Part(n) = r + 1
  BY <1>1 DEF EdgeOf, Part
<1>5. r + 1 \in 1..3
  BY <1>2
<1> QED BY <1>3, <1>4, <1>5

\* An edge has three vertices, one per end.
LEMMA NodesOfEdge ==
  ASSUME NEW k \in Nat, NEW e \in 1..k, NEW c \in 1..3
  PROVE  /\ 3 * e - 3 + c \in 1..3 * k
         /\ EdgeOf(3 * e - 3 + c) = e
         /\ Part(3 * e - 3 + c) = c
<1>1. /\ 3 * e - 3 + c \in 1..3 * k
      /\ (3 * e - 3 + c - 1) \div 3 = e - 1 /\ (3 * e - 3 + c - 1) % 3 = c - 1
  BY SMT
<1> QED BY <1>1 DEF EdgeOf, Part

\* Both, for the graph at hand; ends of an edge are apart.
LEMMA GraphFacts ==
  ASSUME edges \in Graphs
  PROVE  /\ Len(edges) \in Nat
         /\ \A i \in 1..Len(edges) : \A c \in 1..3 : edges[i][c] \in 1..SlotCount
         /\ \A n \in 1..3 * Len(edges) :
              /\ EdgeOf(n) \in 1..Len(edges) /\ Part(n) \in 1..3
              /\ EndOf(n) = edges[EdgeOf(n)][Part(n)] /\ EndOf(n) \in 1..SlotCount
         /\ \A m, n \in 1..3 * Len(edges) :
              EdgeOf(m) = EdgeOf(n) /\ EndOf(m) = EndOf(n) => m = n
<1>1. edges \in Seq((1..SlotCount) \X (1..SlotCount) \X (1..SlotCount)) /\ Len(edges) \in Nat
  BY GraphsAssumption
<1>2. ASSUME NEW i \in 1..Len(edges)
      PROVE  /\ \A c \in 1..3 : edges[i][c] \in 1..SlotCount
             /\ \A c, d \in 1..3 : edges[i][c] = edges[i][d] => c = d
  <2>1. edges[i] \in (1..SlotCount) \X (1..SlotCount) \X (1..SlotCount)
    BY <1>1
  <2>2. edges[i][1] # edges[i][2] /\ edges[i][1] # edges[i][3] /\ edges[i][2] # edges[i][3]
    BY EndsAssumption
  <2>3. \A c \in 1..3 : c = 1 \/ c = 2 \/ c = 3
    OBVIOUS
  <2> QED BY <2>1, <2>2, <2>3
<1>3. ASSUME NEW n \in 1..3 * Len(edges)
      PROVE  /\ EdgeOf(n) \in 1..Len(edges) /\ Part(n) \in 1..3
             /\ n = 3 * EdgeOf(n) - 3 + Part(n)
             /\ EndOf(n) = edges[EdgeOf(n)][Part(n)] /\ EndOf(n) \in 1..SlotCount
  <2>1. EdgeOf(n) \in 1..Len(edges) /\ Part(n) \in 1..3 /\ n = 3 * EdgeOf(n) - 3 + Part(n)
    BY <1>1, Nodes
  <2>2. EndOf(n) = edges[EdgeOf(n)][Part(n)]
    BY DEF EndOf, Part
  <2> QED BY <1>2, <2>1, <2>2
<1>4. ASSUME NEW m \in 1..3 * Len(edges), NEW n \in 1..3 * Len(edges),
             EdgeOf(m) = EdgeOf(n), EndOf(m) = EndOf(n)
      PROVE  m = n
  <2>1. Part(m) = Part(n)
    BY <1>2, <1>3, <1>4
  <2>2. m = 3 * EdgeOf(m) - 3 + Part(m) /\ n = 3 * EdgeOf(n) - 3 + Part(n)
    BY <1>3
  <2> QED BY <1>4, <2>1, <2>2
<1> QED BY <1>1, <1>2, <1>3, <1>4

-----------------------------------------------------------------------------
(* One list *)

\* The records the vertices of k edges may hold.
VertexSet(k) == [1..k -> [slot : 0..SlotCount, prev : 0..k, next : 0..k]]

\* A list does not depend on vertices outside it.
LEMMA ThreadedElsewhere ==
  ASSUME NEW head, NEW slot, NEW here, NEW vs, NEW vs2,
         Threaded(head, vs, slot, here), \A n \in here : vs2[n] = vs[n]
  PROVE  Threaded(head, vs2, slot, here)
BY DEF Threaded

\* A vertex behind all others becomes the head.
LEMMA ThreadedLink ==
  ASSUME NEW k \in Nat, NEW head, NEW slot \in 1..SlotCount, NEW here \in SUBSET (1..k),
         NEW vs \in VertexSet(k), NEW vs2 \in VertexSet(k),
         Threaded(head, vs, slot, here),
         NEW node \in 1..k, \A n \in here : n < node,
         vs2[node] = [slot |-> slot, prev |-> NONE, next |-> head],
         \A n \in here : vs2[n] = IF n = head THEN [vs[n] EXCEPT !.prev = node] ELSE vs[n]
  PROVE  Threaded(node, vs2, slot, here \cup {node})
<1> DEFINE all == here \cup {node}
<1>1. head \in here \cup {NONE} /\ node \notin here /\ NONE \notin here /\ node # NONE /\ head # node
  BY DEF Threaded, NONE
<1>2. /\ vs2[node].slot = slot /\ vs2[node].prev = NONE /\ vs2[node].next = head
      /\ \A n \in here : n = head => /\ vs2[n].slot = vs[n].slot /\ vs2[n].prev = node
                                     /\ vs2[n].next = vs[n].next
      /\ \A n \in here : n # head => vs2[n] = vs[n]
  <2>1. ASSUME NEW n \in here, n = head
        PROVE  vs2[n].slot = vs[n].slot /\ vs2[n].prev = node /\ vs2[n].next = vs[n].next
    <3>1. vs[n] \in [slot : 0..SlotCount, prev : 0..k, next : 0..k]
      BY DEF VertexSet
    <3> QED BY <2>1, <3>1
  <2>2. vs2[node].slot = slot /\ vs2[node].prev = NONE /\ vs2[node].next = head
    OBVIOUS
  <2>3. \A n \in here : n # head => vs2[n] = vs[n]
    OBVIOUS
  <2> QED BY <2>1, <2>2, <2>3
<1>3. ASSUME NEW n \in here
      PROVE  /\ vs2[n].slot = slot /\ n <= node /\ n # node /\ vs2[n].prev # NONE
             /\ vs2[n].prev \in all /\ vs2[vs2[n].prev].next = n
  <2>1. vs[n].slot = slot /\ (n = head <=> vs[n].prev = NONE)
        /\ (vs[n].prev # NONE => vs[n].prev \in here /\ vs[vs[n].prev].next = n)
    BY DEF Threaded
  <2>2. CASE n = head
    BY <1>1, <1>2, <2>1, <2>2
  <2>3. CASE n # head
    <3>1. vs2[n] = vs[n] /\ vs[n].prev \in here /\ vs[vs[n].prev].next = n
      BY <1>2, <2>1, <2>3
    <3>2. vs2[vs[n].prev].next = vs[vs[n].prev].next
      BY <1>2, <3>1
    <3> QED BY <1>1, <2>1, <2>3, <3>1, <3>2
  <2> QED BY <2>2, <2>3
<1>4. ASSUME NEW n \in here
      PROVE  /\ vs2[n].next = NONE => \A m \in all : n <= m
             /\ vs2[n].next # NONE => /\ vs2[n].next \in all /\ vs2[n].next < n
                                      /\ vs2[vs2[n].next].prev = n
                                      /\ \A m \in all : m < n => m <= vs2[n].next
  <2>1. vs2[n].next = vs[n].next
    BY <1>2
  <2>2. /\ vs[n].next = NONE => \A m \in here : n <= m
        /\ vs[n].next # NONE => /\ vs[n].next \in here /\ vs[n].next < n
                                /\ vs[vs[n].next].prev = n
                                /\ \A m \in here : m < n => m <= vs[n].next
    BY DEF Threaded
  <2>3. n < node /\ ~(node < n) /\ n <= node /\ n # NONE
    BY DEF NONE
  <2>4. ASSUME vs[n].next # NONE PROVE vs2[vs[n].next].prev = n
    <3>1. vs[n].next # head
      <4>1. n <= head /\ vs[n].next < n
        BY <2>2, <2>4 DEF Threaded
      <4>2. vs[n].next \in Nat /\ n \in Nat /\ head \in Nat
        BY <1>1, <2>2, <2>4 DEF NONE
      <4> QED BY <4>1, <4>2
    <3> QED BY <1>2, <2>2, <2>4, <3>1
  <2> QED BY <2>1, <2>2, <2>3, <2>4
<1>5. /\ vs2[node].next = NONE => \A m \in all : node <= m
      /\ vs2[node].next # NONE => /\ vs2[node].next \in all /\ vs2[node].next < node
                                  /\ vs2[vs2[node].next].prev = node
                                  /\ \A m \in all : m < node => m <= vs2[node].next
  <2>1. CASE head = NONE
    <3>1. here = {}
      BY <2>1 DEF Threaded, NONE
    <3> QED BY <1>2, <2>1, <3>1
  <2>2. CASE head # NONE
    BY <1>1, <1>2, <2>2 DEF Threaded
  <2> QED BY <2>1, <2>2
<1>6. node \in all \cup {NONE} /\ node <= node
  OBVIOUS
<1> HIDE DEF all
<1>7. all = here \cup {node}
  BY DEF all
<1>8. ASSUME NEW n \in all
      PROVE  LET v == vs2[n] IN
       /\ v.slot = slot
       /\ n <= node
       /\ n = node <=> v.prev = NONE
       /\ v.prev # NONE => v.prev \in all /\ vs2[v.prev].next = n
       /\ v.next = NONE => \A m \in all : n <= m
       /\ v.next # NONE => /\ v.next \in all /\ v.next < n
                           /\ vs2[v.next].prev = n
                           /\ \A m \in all : m < n => m <= v.next
  BY <1>2, <1>3, <1>4, <1>5, <1>6, <1>7
<1> QED BY <1>6, <1>7, <1>8 DEF Threaded

\* The links of vs2 pass vertex a by.
Bypassed(vs, vs2, a, here) ==
  \A n \in here \ {a} :
    /\ vs2[n].slot = vs[n].slot
    /\ vs2[n].next = IF n = vs[a].prev THEN vs[a].next ELSE vs[n].next
    /\ vs2[n].prev = IF n = vs[a].next THEN vs[a].prev ELSE vs[n].prev

\* A vertex leaves: its neighbours take over from it.
LEMMA ThreadedUnlink ==
  ASSUME NEW k \in Nat, NEW head, NEW slot, NEW here \in SUBSET (1..k),
         NEW vs \in VertexSet(k), NEW vs2 \in VertexSet(k),
         Threaded(head, vs, slot, here), NEW a \in here, Bypassed(vs, vs2, a, here),
         NEW head2, head2 = IF vs[a].prev = NONE THEN vs[a].next ELSE head
  PROVE  Threaded(head2, vs2, slot, here \ {a})
<1> USE DEF Bypassed
<1> DEFINE rest == here \ {a}
           above == vs[a].prev
           below == vs[a].next
<1>1. /\ a <= head /\ head \in here /\ (a = head <=> above = NONE)
      /\ above # NONE => above \in here /\ vs[above].next = a
      /\ below = NONE => \A m \in here : a <= m
      /\ below # NONE => /\ below \in here /\ below < a /\ vs[below].prev = a
                        /\ \A m \in here : m < a => m <= below
  <2>1. a <= head /\ head \in here \cup {0} /\ a \in 1..k
    BY DEF Threaded, NONE
  <2> QED BY <2>1 DEF Threaded
<1>2. ASSUME NEW n \in here
      PROVE  /\ n \in Nat /\ n # NONE /\ vs[n].slot = slot /\ n <= head
             /\ n = head <=> vs[n].prev = NONE
             /\ vs[n].prev # NONE => vs[n].prev \in here /\ vs[vs[n].prev].next = n
             /\ vs[n].next = NONE => \A m \in here : n <= m
             /\ vs[n].next # NONE => /\ vs[n].next \in here /\ vs[n].next < n
                                     /\ vs[vs[n].next].prev = n
                                     /\ \A m \in here : m < n => m <= vs[n].next
  BY DEF Threaded, NONE
<1>3. above # NONE => a < above
  <2> SUFFICES ASSUME above # NONE PROVE a < above
    OBVIOUS
  <2>1. above \in here /\ vs[above].next = a /\ a # NONE
    BY <1>1, <1>2
  <2> HIDE DEF above
  <2> QED BY <1>2, <2>1
<1>4. \A n \in rest :
           /\ vs2[n].slot = slot
           /\ vs2[n].next = IF n = above THEN below ELSE vs[n].next
           /\ vs2[n].prev = IF n = below THEN above ELSE vs[n].prev
  BY <1>2
<1>5. head2 = IF above = NONE THEN below ELSE head
  OBVIOUS
<1> HIDE DEF above, below
<1>6. head2 \in rest \cup {NONE}
  <2>1. CASE above = NONE
    BY <1>1, <1>2, <1>5, <2>1
  <2>2. CASE above # NONE
    BY <1>1, <1>5, <2>2
  <2> QED BY <2>1, <2>2
<1>7. ASSUME NEW n \in rest
      PROVE  n <= head2 /\ (n = head2 <=> vs2[n].prev = NONE)
  <2>1. CASE above = NONE
    <3>1. n < a
      BY <1>1, <1>2, <2>1
    <3>2. below # NONE /\ n <= below /\ head2 = below
      BY <1>1, <1>2, <1>5, <2>1, <3>1
    <3>3. n # head /\ vs[n].prev # NONE
      BY <1>1, <1>2, <2>1
    <3> QED BY <1>4, <2>1, <3>2, <3>3
  <2>2. CASE above # NONE
    <3>1. head2 = head /\ n <= head
      BY <1>2, <1>5, <2>2
    <3>2. CASE n = below
      <4>1. n # head
        BY <1>1, <1>2, <3>2
      <4> QED BY <1>4, <2>2, <3>1, <3>2, <4>1
    <3>3. CASE n # below
      BY <1>2, <1>4, <3>1, <3>3
    <3> QED BY <3>2, <3>3
  <2> QED BY <2>1, <2>2
<1>8. ASSUME NEW n \in rest, vs2[n].prev # NONE
      PROVE  vs2[n].prev \in rest /\ vs2[vs2[n].prev].next = n
  <2>1. CASE n = below
    <3>1. vs2[n].prev = above /\ above \in here /\ above # a
      BY <1>1, <1>2, <1>3, <1>4, <1>8, <2>1
    <3> QED BY <1>4, <2>1, <3>1
  <2>2. CASE n # below
    <3>1. vs2[n].prev = vs[n].prev /\ vs[n].prev \in here /\ vs[vs[n].prev].next = n
      BY <1>2, <1>4, <1>8, <2>2
    <3>2. vs[n].prev # a
      BY <2>2, <3>1 DEF below
    <3>3. vs[n].prev # above
      BY <1>1, <1>2, <3>1
    <3> QED BY <1>4, <3>1, <3>2, <3>3
  <2> QED BY <2>1, <2>2
<1>9. ASSUME NEW n \in rest
      PROVE  /\ vs2[n].next = NONE => \A m \in rest : n <= m
             /\ vs2[n].next # NONE => /\ vs2[n].next \in rest /\ vs2[n].next < n
                                      /\ vs2[vs2[n].next].prev = n
                                      /\ \A m \in rest : m < n => m <= vs2[n].next
  <2>1. CASE n = above
    <3>1. vs2[n].next = below /\ a < n /\ vs[n].next = a /\ a # NONE
      BY <1>1, <1>2, <1>3, <1>4, <2>1
    <3>2. \A m \in rest : m < n => m < a
      BY <1>2, <3>1
    <3>3. CASE below = NONE
      BY <1>1, <1>2, <3>1, <3>2, <3>3
    <3>4. CASE below # NONE
      <4>1. below \in rest /\ below < n /\ vs2[below].prev = n
        <5>1. below \in here /\ below < a /\ below \in Nat /\ a \in Nat /\ n \in Nat
          BY <1>1, <1>2, <3>4
        <5>2. below < n /\ below # a
          BY <3>1, <5>1
        <5> QED BY <1>4, <2>1, <5>1, <5>2
      <4>2. \A m \in rest : m < n => m <= below
        BY <1>1, <3>2, <3>4
      <4> QED BY <3>1, <3>4, <4>1, <4>2
    <3> QED BY <3>3, <3>4
  <2>2. CASE n # above
    <3>1. vs2[n].next = vs[n].next
      BY <1>4, <2>2
    <3>2. ASSUME vs[n].next # NONE
          PROVE  vs[n].next \in rest /\ vs2[vs[n].next].prev = n
      <4>1. vs[n].next \in here /\ vs[vs[n].next].prev = n
        BY <1>2, <3>2
      <4>2. vs[n].next # a
        BY <2>2, <4>1 DEF above
      <4>3. vs[n].next # below
        BY <1>1, <3>2, <4>1
      <4> QED BY <1>4, <4>1, <4>2, <4>3
    <3> QED BY <1>2, <3>1, <3>2
  <2> QED BY <2>1, <2>2
<1> HIDE DEF rest
<1>10. Threaded(head2, vs2, slot, rest)
  BY <1>4, <1>6, <1>7, <1>8, <1>9 DEF Threaded
<1> QED BY <1>10 DEF rest

-----------------------------------------------------------------------------
(* The steps *)

\* Vertices in lists are vertices, each in the list of its own slot.
LEMMA HereFacts ==
  ASSUME TypeOK
  PROVE  /\ Len(edges) \in Nat /\ 3 * Len(edges) \in Nat
         /\ vertices \in VertexSet(3 * Len(edges))
         /\ \A slot : Here(slot) \in SUBSET (1..3 * Len(edges))
         /\ \A s, t : \A n \in Here(s) : n \in Here(t) => s = t
BY GraphFacts DEF TypeOK, Here, VertexSet, NodeOrNone

\* The lists stay while vertices and what is linked do.
LEMMA ListsSame ==
  ASSUME ListsMirrorGraph, TypeOK', UNCHANGED <<edges, heads, vertices>>,
         \A n \in 1..3 * Len(edges) : Linked(n)' <=> Linked(n)
  PROVE  ListsMirrorGraph'
<1>1. ASSUME NEW slot PROVE Here(slot)' = Here(slot)
  BY DEF Here, EndOf, EdgeOf
<1>2. ASSUME NEW slot \in 1..SlotCount
      PROVE  Threaded(heads[slot], vertices, slot, Here(slot))'
  <2>1. Threaded(heads[slot], vertices, slot, Here(slot))
    BY DEF ListsMirrorGraph
  <2>2. Threaded(heads'[slot], vertices', slot, Here(slot)')
    BY <1>1, <2>1
  <2> QED BY <2>2 DEF Threaded
<1> QED BY <1>2 DEF ListsMirrorGraph

\* The graph starts without lists.
LEMMA InitInv == Init => IInv
<1> SUFFICES ASSUME Init PROVE IInv
  OBVIOUS
<1>1. edges \in Graphs /\ Len(edges) \in Nat
  BY GraphFacts DEF Init
<1>2. TypeOK
  BY <1>1, GraphsAssumption DEF Init, TypeOK, NodeOrNone, NONE
<1>3. \A slot : Here(slot) = {}
  BY <1>1 DEF Init, Here, Linked
<1>4. ListsMirrorGraph
  BY <1>2, <1>3 DEF ListsMirrorGraph, Threaded, Init
<1>5. QueueInv /\ PhaseInv
  BY <1>1 DEF Init, QueueInv, PhaseInv
<1> QED BY <1>4, <1>5 DEF IInv

\* Linking a vertex puts it in front of its slot's list.
LEMMA LinkInv ==
  ASSUME IInv, Link
  PROVE  IInv'
<1> DEFINE node == at + 1
           slot == EndOf(node)
           head == heads[slot]
<1>1. /\ TypeOK /\ PhaseInv /\ order = <<>> /\ Len(edges) \in Nat
      /\ pc = "link" /\ at \in Nat /\ at < 3 * Len(edges)
      /\ UNCHANGED <<edges, queue, order, pc>> /\ at' = node
      /\ heads' = [heads EXCEPT ![slot] = node]
      /\ vertices' = [n \in DOMAIN vertices |->
                        CASE n = node -> [slot |-> slot, prev |-> NONE, next |-> head]
                          [] n = head -> [vertices[n] EXCEPT !.prev = node]
                          [] OTHER    -> vertices[n]]
  BY HereFacts DEF IInv, ListsMirrorGraph, PhaseInv, Link, TypeOK
<1>2. node \in 1..3 * Len(edges) /\ slot \in 1..SlotCount /\ edges \in Graphs
  <2>1. node \in 1..3 * Len(edges) /\ edges \in Graphs
    BY <1>1 DEF TypeOK
  <2> QED BY <2>1, GraphFacts
<1> HIDE DEF node, slot, head
<1>3. \A n \in 1..3 * Len(edges) : (Linked(n) <=> n <= at) /\ (Linked(n)' <=> n <= node)
  BY <1>1 DEF Linked, Taken, node
<1>4. \A s : Here(s)' = IF s = slot THEN Here(s) \cup {node} ELSE Here(s)
  <2>1. \A n \in 1..3 * Len(edges) : EndOf(n)' = EndOf(n) /\ (Linked(n)' <=> Linked(n) \/ n = node)
    BY <1>1, <1>3 DEF EndOf, EdgeOf, node
  <2> QED BY <1>1, <1>2, <2>1 DEF Here, slot
<1>5. TypeOK'
  <2>1. /\ heads' \in [1..SlotCount -> NodeOrNone']
        /\ at' \in Nat
    BY <1>1, <1>2 DEF TypeOK, NodeOrNone
  <2>2. vertices' \in [1..3 * Len(edges') -> [slot : 0..SlotCount, prev : NodeOrNone', next : NodeOrNone']]
    <3>1. ASSUME NEW n \in 1..3 * Len(edges)
          PROVE  vertices'[n] \in [slot : 0..SlotCount, prev : NodeOrNone, next : NodeOrNone]
      <4>1. /\ vertices[n] \in [slot : 0..SlotCount, prev : NodeOrNone, next : NodeOrNone]
            /\ head \in NodeOrNone /\ node \in NodeOrNone /\ NONE \in NodeOrNone /\ slot \in 0..SlotCount
            /\ DOMAIN vertices = 1..3 * Len(edges)
        BY <1>1, <1>2 DEF TypeOK, NodeOrNone, NONE, head
      <4> QED BY <1>1, <4>1
    <3>2. vertices' = [n \in 1..3 * Len(edges) |-> vertices'[n]]
      BY <1>1 DEF TypeOK
    <3> QED BY <1>1, <3>1, <3>2 DEF NodeOrNone
  <2> QED BY <1>1, <2>1, <2>2 DEF TypeOK
<1>6. ASSUME NEW s \in 1..SlotCount
      PROVE  Threaded(heads'[s], vertices', s, Here(s)')
  <2>1. Threaded(heads[s], vertices, s, Here(s)) /\ Threaded(head, vertices, slot, Here(slot))
    BY <1>2 DEF IInv, ListsMirrorGraph, head
  <2>2. head \in Here(slot) \cup {NONE} /\ DOMAIN vertices = 1..3 * Len(edges)
    BY <1>1, <2>1 DEF Threaded, TypeOK
  <2>3. vertices \in VertexSet(3 * Len(edges)) /\ vertices' \in VertexSet(3 * Len(edges))
    BY <1>1, <1>5 DEF TypeOK, VertexSet, NodeOrNone
  <2>4. \A n \in Here(slot) : n \in 1..3 * Len(edges) /\ n < node
    BY <1>1, <1>3 DEF Here, node
  <2>5. CASE s = slot
    <3>1. heads'[s] = node /\ Here(s)' = Here(slot) \cup {node}
      BY <1>1, <1>2, <1>4, <2>5 DEF TypeOK
    <3>2. /\ vertices'[node] = [slot |-> slot, prev |-> NONE, next |-> head]
          /\ \A n \in Here(slot) :
               vertices'[n] = IF n = head THEN [vertices[n] EXCEPT !.prev = node] ELSE vertices[n]
      <4>1. vertices'[node] = [slot |-> slot, prev |-> NONE, next |-> head]
        <5>1. node \in DOMAIN vertices
          BY <1>2, <2>2
        <5>2. vertices'[node] = CASE node = node -> [slot |-> slot, prev |-> NONE, next |-> head]
                                  [] node = head -> [vertices[node] EXCEPT !.prev = node]
                                  [] OTHER    -> vertices[node]
          BY <1>1, <5>1, Zenon
        <5>3. node # head
          BY <1>2, <2>2, <2>4 DEF NONE
        <5> QED BY <5>2, <5>3
      <4>2. \A n \in Here(slot) : n # node
        BY <1>1, <2>4
      <4> QED BY <1>1, <2>2, <2>4, <4>1, <4>2
    <3>3. 3 * Len(edges) \in Nat /\ Here(slot) \in SUBSET (1..3 * Len(edges))
      BY <1>1, <2>4
    <3>4. Threaded(node, vertices', slot, Here(slot) \cup {node})
      BY <1>2, <2>1, <2>3, <2>4, <3>2, <3>3, ThreadedLink, ZenonT(30)
    <3> QED BY <2>5, <3>1, <3>4
  <2>6. CASE s # slot
    <3>1. heads'[s] = heads[s] /\ Here(s)' = Here(s)
      BY <1>1, <1>2, <1>4, <2>6 DEF TypeOK
    <3>2. \A n \in Here(s) : n # node /\ n # head /\ n \in 1..3 * Len(edges)
      <4>1. \A n \in Here(s) : n \in 1..3 * Len(edges) /\ EndOf(n) = s
        BY DEF Here
      <4>2. head # NONE => EndOf(head) = slot
        BY <2>2 DEF Here
      <4>3. node \notin Here(s)
        BY <2>6, <4>1 DEF slot
      <4> QED BY <2>6, <4>1, <4>2, <4>3 DEF NONE
    <3>3. \A n \in Here(s) : vertices'[n] = vertices[n]
      BY <1>1, <2>2, <3>2
    <3> QED BY <2>1, <3>1, <3>3, ThreadedElsewhere
  <2> QED BY <2>5, <2>6
<1>7. ListsMirrorGraph'
  BY <1>5, <1>6 DEF ListsMirrorGraph
<1>8. QueueInv' /\ PhaseInv'
  BY <1>1, <1>2 DEF QueueInv, PhaseInv
<1> QED BY <1>7, <1>8 DEF IInv

\* Once all are linked the queue is filled.
LEMMA StartQueueInv ==
  ASSUME IInv, StartQueue
  PROVE  IInv'
<1>1. /\ TypeOK /\ PhaseInv /\ order = <<>> /\ pc = "link" /\ at = 3 * Len(edges) /\ pc' = "queue" /\ at' = 0
      /\ UNCHANGED <<edges, heads, vertices, queue, order>>
  BY DEF IInv, ListsMirrorGraph, PhaseInv, StartQueue
<1>2. TypeOK'
  BY <1>1 DEF TypeOK, NodeOrNone
<1>3. \A n \in 1..3 * Len(edges) : Linked(n)' <=> Linked(n)
  BY <1>1, HereFacts DEF Linked, Taken
<1>4. ListsMirrorGraph'
  BY <1>1, <1>2, <1>3, ListsSame DEF IInv
<1>5. QueueInv'
  <2>1. \A slot \in 1..SlotCount : slot > at'
    BY <1>1, GraphsAssumption
  <2> QED BY <1>1, <2>1 DEF QueueInv, Covered
<1>6. PhaseInv'
  BY <1>1, GraphsAssumption DEF PhaseInv
<1> QED BY <1>4, <1>5, <1>6 DEF IInv

\* A slot that is queued has its place; the others keep theirs.
LEMMA QueuedSlots ==
  ASSUME NEW q \in Seq(1..SlotCount), NEW s \in 1..SlotCount
  PROVE  /\ Append(q, s) \in Seq(1..SlotCount)
         /\ \E p \in 1..Len(Append(q, s)) : Append(q, s)[p] = s
         /\ \A t : (\E p \in 1..Len(q) : q[p] = t) => \E p \in 1..Len(Append(q, s)) : Append(q, s)[p] = t
<1>1. /\ Len(q) \in Nat /\ Len(Append(q, s)) = Len(q) + 1 /\ Append(q, s)[Len(q) + 1] = s
      /\ Append(q, s) \in Seq(1..SlotCount)
      /\ \A p \in 1..Len(q) : Append(q, s)[p] = q[p]
  OBVIOUS
<1>2. Len(q) + 1 \in 1..Len(Append(q, s)) /\ \A p \in 1..Len(q) : p \in 1..Len(Append(q, s))
  BY <1>1
<1> QED BY <1>1, <1>2

\* A slot with a single vertex is queued as it is looked at.
LEMMA FillQueueInv ==
  ASSUME IInv, FillQueue
  PROVE  IInv'
<1> DEFINE slot == at + 1
<1>1. /\ TypeOK /\ PhaseInv /\ QueueInv /\ order = <<>> /\ pc = "queue" /\ at \in Nat /\ at < SlotCount
      /\ queue' = IF Single(heads, vertices, slot) THEN Append(queue, slot) ELSE queue
      /\ pc' = IF slot = SlotCount THEN "peel" ELSE "queue"
      /\ at' = slot /\ UNCHANGED <<edges, heads, vertices, order>>
      /\ slot \in 1..SlotCount /\ queue \in Seq(1..SlotCount)
  BY GraphsAssumption DEF IInv, ListsMirrorGraph, PhaseInv, TypeOK, FillQueue
<1> HIDE DEF slot
<1>2. TypeOK'
  <2>1. queue' \in Seq(1..SlotCount) /\ pc' \in {"queue", "peel"} /\ at' \in Nat
    <3>1. Append(queue, slot) \in Seq(1..SlotCount)
      BY <1>1, QueuedSlots
    <3>2. queue' \in Seq(1..SlotCount)
      BY <1>1, <3>1
    <3>3. pc' \in {"queue", "peel"} /\ at' \in Nat
      BY <1>1
    <3> QED BY <3>2, <3>3
  <2> QED BY <1>1, <2>1 DEF TypeOK, NodeOrNone
<1>3. \A n \in 1..3 * Len(edges) : Linked(n)' <=> Linked(n)
  BY <1>1 DEF Linked, Taken
<1>4. ListsMirrorGraph'
  BY <1>1, <1>2, <1>3, ListsSame DEF IInv
<1>5. QueueInv'
  <2> SUFFICES ASSUME NEW s \in 1..SlotCount, Single(heads, vertices, s)
               PROVE  Covered(s)'
    BY <1>1 DEF QueueInv, Single
  <2>1. CASE \E p \in 1..Len(queue) : queue[p] = s
    <3>1. \E p \in 1..Len(queue') : queue'[p] = s
      BY <1>1, <2>1, QueuedSlots
    <3> QED BY <3>1 DEF Covered
  <2>2. CASE s = slot
    <3>1. \E p \in 1..Len(queue') : queue'[p] = s
      BY <1>1, <2>2, QueuedSlots
    <3> QED BY <3>1 DEF Covered
  <2>3. CASE s > at /\ s # slot
    <3>1. s > slot /\ slot # SlotCount
      BY <1>1, <2>3, GraphsAssumption DEF slot
    <3> QED BY <1>1, <3>1 DEF Covered
  <2> QED BY <1>1, <2>1, <2>2, <2>3 DEF QueueInv, Covered
<1>6. PhaseInv'
  <2>1. pc' = "queue" => at' < SlotCount
    BY <1>1, GraphsAssumption
  <2> QED BY <1>1, <2>1 DEF PhaseInv
<1> QED BY <1>4, <1>5, <1>6 DEF IInv

\* The slots behind the first in the queue stay where they are.
LEMMA QueueTail ==
  ASSUME NEW q \in Seq(1..SlotCount), q # <<>>, NEW t, t # Head(q),
         \E p \in 1..Len(q) : q[p] = t
  PROVE  \E p \in 1..Len(Tail(q)) : Tail(q)[p] = t
<1>1. /\ Len(q) \in Nat \ {0} /\ Head(q) = q[1] /\ Len(Tail(q)) = Len(q) - 1
      /\ \A i \in 1..Len(Tail(q)) : Tail(q)[i] = q[i + 1]
  OBVIOUS
<1>2. PICK p \in 1..Len(q) : q[p] = t
  OBVIOUS
<1>3. p # 1 /\ p - 1 \in 1..Len(Tail(q)) /\ (p - 1) + 1 = p
  BY <1>1, <1>2
<1> QED BY <1>1, <1>2, <1>3

\* A slot that lost its vertex meanwhile can be left out.
LEMMA SkipInv ==
  ASSUME IInv, Skip
  PROVE  IInv'
<1>1. /\ TypeOK /\ PhaseInv /\ QueueInv /\ pc = "peel" /\ queue # <<>>
      /\ ~Single(heads, vertices, Head(queue)) /\ queue' = Tail(queue)
      /\ UNCHANGED <<edges, heads, vertices, order, pc, at>>
      /\ queue \in Seq(1..SlotCount)
  BY DEF IInv, ListsMirrorGraph, TypeOK, Skip
<1>2. TypeOK'
  <2>1. queue' \in Seq(1..SlotCount)
    BY <1>1
  <2> QED BY <1>1, <2>1 DEF TypeOK, NodeOrNone
<1>3. \A n \in 1..3 * Len(edges) : Linked(n)' <=> Linked(n)
  BY <1>1 DEF Linked, Taken, EdgeOf
<1>4. ListsMirrorGraph'
  BY <1>1, <1>2, <1>3, ListsSame DEF IInv
<1>5. QueueInv'
  <2> SUFFICES ASSUME NEW s \in 1..SlotCount, Single(heads, vertices, s)
               PROVE  Covered(s)'
    BY <1>1 DEF QueueInv, Single
  <2>1. s # Head(queue) /\ \E p \in 1..Len(queue) : queue[p] = s
    BY <1>1 DEF QueueInv, Covered
  <2>2. \E p \in 1..Len(queue') : queue'[p] = s
    BY <1>1, <2>1, QueueTail
  <2> QED BY <2>2 DEF Covered
<1>6. PhaseInv'
  BY <1>1 DEF PhaseInv
<1> QED BY <1>4, <1>5, <1>6 DEF IInv

\* The edges taken, before and after another one.
LEMMA TakenGrows ==
  ASSUME NEW e, order \in Seq(1..Len(edges)), order' = Append(order, e)
  PROVE  /\ Len(order) \in Nat /\ Len(order') = Len(order) + 1 /\ order'[Len(order')] = e
         /\ \A p \in 1..Len(order) : order'[p] = order[p]
         /\ Taken' = Taken \cup {e}
<1>1. /\ Len(order) \in Nat /\ Len(order') = Len(order) + 1 /\ order'[Len(order) + 1] = e
      /\ \A p \in 1..Len(order) : order'[p] = order[p]
  OBVIOUS
<1>2. Len(order) + 1 \in 1..Len(order') /\ \A p \in 1..Len(order') : p \in 1..Len(order) \/ p = Len(order) + 1
  BY <1>1
<1>3. \A p \in 1..Len(order) : p \in 1..Len(order')
  BY <1>1
<1> QED BY <1>1, <1>2, <1>3 DEF Taken

\* The edge taken is a new one.
LEMMA TakeInv ==
  ASSUME IInv, Take
  PROVE  IInv'
<1> DEFINE slot == Head(queue)
           e == EdgeOf(heads[slot])
<1>1. /\ TypeOK /\ PhaseInv /\ QueueInv /\ pc = "peel" /\ queue # <<>> /\ Single(heads, vertices, slot)
      /\ order' = Append(order, e) /\ queue' = Tail(queue) /\ pc' = "unlink" /\ at' = 3 * e - 2
      /\ UNCHANGED <<edges, heads, vertices>>
      /\ queue \in Seq(1..SlotCount) /\ order \in Seq(1..Len(edges)) /\ edges \in Graphs /\ slot \in 1..SlotCount
  <2>1. queue \in Seq(1..SlotCount) /\ queue # <<>>
    BY DEF IInv, ListsMirrorGraph, TypeOK, Take
  <2>2. slot \in 1..SlotCount
    BY <2>1, HeadTailProperties
  <2> QED BY <2>1, <2>2 DEF IInv, ListsMirrorGraph, TypeOK, Take
<1>2. heads[slot] \in Here(slot) /\ heads[slot] \in 1..3 * Len(edges) /\ EndOf(heads[slot]) = slot
      /\ Linked(heads[slot])
  BY <1>1 DEF IInv, ListsMirrorGraph, Threaded, Single, Here
<1>3. e \in 1..Len(edges) /\ e \notin Taken /\ Len(edges) \in Nat
  BY <1>1, <1>2, GraphFacts DEF Linked
<1>4. /\ 3 * e - 2 \in 1..3 * Len(edges) /\ EdgeOf(3 * e - 2) = e
      /\ \A n \in 1..3 * Len(edges) : EdgeOf(n) = e => n >= 3 * e - 2
  <2> HIDE DEF e
  <2>1. 3 * e - 3 + 1 \in 1..3 * Len(edges) /\ EdgeOf(3 * e - 3 + 1) = e
    <3>1. 1 \in 1..3
      OBVIOUS
    <3> QED BY <1>3, <3>1, NodesOfEdge
  <2>2. 3 * e - 3 + 1 = 3 * e - 2
    BY <1>3
  <2>3. ASSUME NEW n \in 1..3 * Len(edges), EdgeOf(n) = e PROVE n >= 3 * e - 2
    <3>1. n = 3 * EdgeOf(n) - 3 + Part(n) /\ Part(n) \in 1..3
      BY <1>3, Nodes
    <3> QED BY <1>3, <2>3, <3>1
  <2> QED BY <2>1, <2>2, <2>3
<1>5. /\ Len(order) \in Nat /\ Len(order') = Len(order) + 1 /\ order'[Len(order')] = e
      /\ \A p \in 1..Len(order) : order'[p] = order[p]
      /\ Taken' = Taken \cup {e}
  BY <1>1, TakenGrows
<1>6. EdgeOf(heads[slot]) = e
  OBVIOUS
<1> HIDE DEF slot, e
<1>12. EdgeOf(at)' = e
  <2>1. EdgeOf(at)' = EdgeOf(at')
    BY DEF EdgeOf
  <2> QED BY <1>1, <1>4, <2>1
<1>7. TypeOK'
  <2>1. order' \in Seq(1..Len(edges)) /\ queue' \in Seq(1..SlotCount) /\ at' \in Nat
    BY <1>1, <1>3, <1>4
  <2> QED BY <1>1, <2>1 DEF TypeOK, NodeOrNone
<1>8. \A n \in 1..3 * Len(edges) : Linked(n)' <=> Linked(n)
  <2> SUFFICES ASSUME NEW n \in 1..3 * Len(edges) PROVE Linked(n)' <=> Linked(n)
    OBVIOUS
  <2>1. EdgeOf(n)' = EdgeOf(n)
    BY DEF EdgeOf
  <2>2. Linked(n) <=> EdgeOf(n) \notin Taken
    BY <1>1 DEF Linked
  <2>3. Linked(n)' <=> (EdgeOf(n) \in Taken \cup {e} => EdgeOf(n) = e /\ n >= 3 * e - 2)
    BY <1>1, <1>5, <2>1 DEF Linked
  <2> QED BY <1>3, <1>4, <2>2, <2>3
<1>9. ListsMirrorGraph'
  BY <1>1, <1>7, <1>8, ListsSame DEF IInv
<1>10. QueueInv'
  <2> SUFFICES ASSUME NEW s \in 1..SlotCount, Single(heads, vertices, s)
               PROVE  Covered(s)'
    BY <1>1 DEF QueueInv, Single
  <2>1. CASE s = slot
    <3> DEFINE h == heads[slot]
    <3>1. h \in 1..3 * Len(edges') /\ h >= at' /\ EdgeOf(h) = e /\ EndOf(h) = s
      BY <1>1, <1>2, <1>4, <1>6, <2>1
    <3> HIDE DEF h
    <3>2. \E n \in 1..3 * Len(edges') : n >= at' /\ EdgeOf(n)' = EdgeOf(at)' /\ EndOf(n)' = s
      <4>1. \A n : EdgeOf(n)' = EdgeOf(n) /\ EndOf(n)' = EndOf(n)
        BY <1>1 DEF EndOf, EdgeOf
      <4> QED BY <1>12, <3>1, <4>1
    <3> QED BY <1>1, <3>2 DEF Covered
  <2>2. CASE s # slot
    <3>1. \E p \in 1..Len(queue) : queue[p] = s
      BY <1>1 DEF QueueInv, Covered
    <3>2. \E p \in 1..Len(queue') : queue'[p] = s
      BY <1>1, <2>2, <3>1, QueueTail DEF slot
    <3> QED BY <3>2 DEF Covered
  <2> QED BY <2>1, <2>2
<1>11. PhaseInv'
  <2>1. \A p, q \in 1..Len(order') : order'[p] = order'[q] => p = q
    <3>1. \A p \in 1..Len(order') : p \in 1..Len(order) \/ p = Len(order')
      BY <1>5
    <3>2. \A p \in 1..Len(order) : order[p] # e
      BY <1>3 DEF Taken
    <3>3. \A p, q \in 1..Len(order) : order[p] = order[q] => p = q
      BY <1>1 DEF PhaseInv
    <3> QED BY <1>5, <3>1, <3>2, <3>3
  <2>2. order' # <<>> /\ EdgeOf(at)' = order'[Len(order')] /\ at' \in 1..3 * Len(edges)
    <3>1. order' # <<>>
      BY <1>1, <1>3, AppendProperties
    <3> QED BY <1>1, <1>4, <1>5, <1>12, <3>1
  <2> QED BY <1>1, <2>1, <2>2 DEF PhaseInv
<1> QED BY <1>9, <1>10, <1>11 DEF IInv

\* Finishing changes no list.
LEMMA FinishInv ==
  ASSUME IInv, Finish
  PROVE  IInv'
<1>1. /\ TypeOK /\ PhaseInv /\ pc = "peel" /\ pc' \in {"peeled", "stuck"}
      /\ UNCHANGED <<edges, heads, vertices, queue, order, at>>
  BY DEF IInv, ListsMirrorGraph, Finish
<1>2. TypeOK'
  BY <1>1 DEF TypeOK, NodeOrNone
<1>3. \A n \in 1..3 * Len(edges) : Linked(n)' <=> Linked(n)
  BY <1>1 DEF Linked, Taken, EdgeOf
<1>4. ListsMirrorGraph'
  BY <1>1, <1>2, <1>3, ListsSame DEF IInv
<1>5. QueueInv' /\ PhaseInv'
  BY <1>1 DEF QueueInv, PhaseInv
<1> QED BY <1>4, <1>5 DEF IInv

\* Nor does a step that changes nothing.
LEMMA StutterInv ==
  ASSUME IInv, UNCHANGED vars
  PROVE  IInv'
<1>1. UNCHANGED <<edges, heads, vertices, queue, order, pc, at>>
  BY DEF vars
<1>2. TypeOK'
  BY <1>1 DEF IInv, ListsMirrorGraph, TypeOK, NodeOrNone
<1>3. \A n \in 1..3 * Len(edges) : Linked(n)' <=> Linked(n)
  BY <1>1 DEF Linked, Taken, EdgeOf
<1>4. ListsMirrorGraph'
  BY <1>1, <1>2, <1>3, ListsSame DEF IInv
<1>5. QueueInv' /\ PhaseInv'
  BY <1>1 DEF IInv, QueueInv, PhaseInv, Covered, Single, EndOf, EdgeOf
<1> QED BY <1>4, <1>5 DEF IInv

\* After an edge's third vertex come those of the next edge.
LEMMA NextNode ==
  ASSUME NEW k \in Nat, NEW n \in 1..3 * k
  PROVE  /\ n % 3 = 0 => \A m \in 1..3 * k : EdgeOf(m) = EdgeOf(n) => m <= n
         /\ n % 3 # 0 => n + 1 \in 1..3 * k /\ EdgeOf(n + 1) = EdgeOf(n)
<1> DEFINE e == EdgeOf(n)
           c == Part(n)
<1>1. e \in 1..k /\ c \in 1..3 /\ n = 3 * e - 3 + c
  BY Nodes
<1> HIDE DEF e, c
<1>2. CASE c = 3
  <2>1. n % 3 = 0
    <3>1. n = 3 * e
      BY <1>1, <1>2
    <3> QED BY <1>1, <3>1, SMT
  <2>2. ASSUME NEW m \in 1..3 * k, EdgeOf(m) = e PROVE m <= n
    <3>1. m = 3 * EdgeOf(m) - 3 + Part(m) /\ Part(m) \in 1..3
      BY Nodes
    <3> QED BY <1>1, <1>2, <2>2, <3>1
  <2> QED BY <2>1, <2>2 DEF e
<1>3. CASE c # 3
  <2>1. c + 1 \in 1..3 /\ n + 1 = 3 * e - 3 + (c + 1)
    BY <1>1, <1>3
  <2>2. n + 1 \in 1..3 * k /\ EdgeOf(n + 1) = e
    BY <1>1, <2>1, NodesOfEdge
  <2>3. n % 3 # 0
    <3>1. c = 1 \/ c = 2
      BY <1>1, <1>3
    <3>2. n = 3 * (e - 1) + c /\ e - 1 \in Nat
      BY <1>1
    <3> QED BY <3>1, <3>2, SMT
  <2> QED BY <2>2, <2>3 DEF e
<1> QED BY <1>2, <1>3

\* Unlinking a vertex joins its neighbours and queues a slot left with one.
LEMMA UnlinkInv ==
  ASSUME IInv, Unlink
  PROVE  IInv'
<1> DEFINE slot == EndOf(at)
           edge == EdgeOf(at)
           v == vertices[at]
           nodes == 1..3 * Len(edges)
<1>1. /\ TypeOK /\ PhaseInv /\ QueueInv /\ pc = "unlink" /\ Len(edges) \in Nat /\ edges \in Graphs
      /\ at \in nodes /\ order # <<>> /\ edge = order[Len(order)]
      /\ order \in Seq(1..Len(edges)) /\ queue \in Seq(1..SlotCount)
      /\ vertices \in VertexSet(3 * Len(edges)) /\ DOMAIN vertices = nodes
      /\ pc' = IF at % 3 = 0 THEN "peel" ELSE "unlink"
      /\ at' = at + 1 /\ UNCHANGED <<edges, order>>
  BY HereFacts DEF IInv, ListsMirrorGraph, PhaseInv, TypeOK, Unlink, VertexSet
<1>2. slot \in 1..SlotCount /\ Linked(at) /\ at \in Here(slot)
  <2>1. Linked(at)
    BY <1>1 DEF Linked
  <2> QED BY <1>1, <2>1, GraphFacts DEF Here
<1>3. \A s \in 1..SlotCount : Threaded(heads[s], vertices, s, Here(s))
  BY DEF IInv, ListsMirrorGraph
<1>4. v.slot = slot /\ v.prev \in Here(slot) \cup {NONE} /\ v.next \in Here(slot) \cup {NONE}
      /\ (v.prev = NONE \/ v.prev # v.next) /\ v.prev # at /\ v.next # at
  <2>1. /\ v.slot = slot
        /\ v.prev # NONE => v.prev \in Here(slot) /\ vertices[v.prev].next = at
        /\ v.next # NONE => v.next \in Here(slot) /\ v.next < at
    BY <1>2, <1>3 DEF Threaded
  <2>2. v.prev # NONE => at < v.prev
    <3> SUFFICES ASSUME v.prev # NONE PROVE at < v.prev
      OBVIOUS
    <3>1. v.prev \in Here(slot) /\ vertices[v.prev].next = at /\ at # NONE
      BY <1>1, <2>1 DEF NONE
    <3> HIDE DEF v, slot
    <3> QED BY <1>2, <1>3, <3>1 DEF Threaded
  <2>3. \A n \in Here(slot) : n \in Nat /\ n # NONE
    BY DEF Here, NONE
  <2> HIDE DEF v, slot
  <2> QED BY <1>2, <2>1, <2>2, <2>3 DEF NONE
<1>5. /\ vertices' = Unlinked(at)
      /\ heads' = IF v.prev = NONE THEN [heads EXCEPT ![slot] = v.next] ELSE heads
      /\ queue' = IF Single(heads', vertices', slot) THEN Append(queue, slot) ELSE queue
  <2>1. v.slot # NONE
    BY <1>2, <1>4 DEF NONE
  <2> QED BY <1>4, <2>1 DEF Unlink
<1> HIDE DEF slot, v, edge
<1>6. \A n \in nodes :
        vertices'[n] = IF n = at THEN [v EXCEPT !.slot = NONE]
                       ELSE IF n = v.prev THEN [vertices[n] EXCEPT !.next = v.next]
                       ELSE IF n = v.next THEN [vertices[n] EXCEPT !.prev = v.prev]
                       ELSE vertices[n]
  <2> SUFFICES ASSUME NEW n \in nodes
               PROVE  vertices'[n] = IF n = at THEN [v EXCEPT !.slot = NONE]
                       ELSE IF n = v.prev THEN [vertices[n] EXCEPT !.next = v.next]
                       ELSE IF n = v.next THEN [vertices[n] EXCEPT !.prev = v.prev]
                       ELSE vertices[n]
    OBVIOUS
  <2>1. vertices'[n] = CASE n = at     -> [v EXCEPT !.slot = NONE]
                         [] n = v.prev -> [vertices[n] EXCEPT !.next = v.next]
                         [] n = v.next -> [vertices[n] EXCEPT !.prev = v.prev]
                         [] OTHER      -> vertices[n]
    BY <1>1, <1>5, Zenon DEF Unlinked, v
  <2>2. n # NONE
    BY DEF NONE
  <2> QED BY <1>4, <2>1, <2>2
<1>7. \A s \in 1..SlotCount : Here(s) \in SUBSET nodes /\ (s # slot => Here(s) \cap Here(slot) = {})
  BY <1>1, <1>2, HereFacts
<1>8. \A n \in nodes : Linked(n)' <=> Linked(n) /\ n # at
  <2> SUFFICES ASSUME NEW n \in nodes PROVE Linked(n)' <=> Linked(n) /\ n # at
    OBVIOUS
  <2>1. Linked(n) <=> (EdgeOf(n) \in Taken => EdgeOf(n) = edge /\ n >= at)
    BY <1>1 DEF Linked
  <2>2. Taken' = Taken /\ edge \in Taken /\ EdgeOf(n)' = EdgeOf(n)
    <3>1. Len(order) \in 1..Len(order)
      BY <1>1, EmptySeq
    <3> QED BY <1>1, <3>1 DEF Taken, EdgeOf
  <2>3. CASE at % 3 = 0
    <3>1. Linked(n)' <=> EdgeOf(n) \notin Taken
      BY <1>1, <2>2, <2>3 DEF Linked
    <3>2. EdgeOf(n) = edge => n <= at
      BY <1>1, <2>3, NextNode DEF edge
    <3>3. n = at => EdgeOf(n) = edge
      BY DEF edge
    <3> QED BY <1>1, <2>1, <2>2, <3>1, <3>2, <3>3
  <2>4. CASE at % 3 # 0
    <3>1. Linked(n)' <=> (EdgeOf(n) \in Taken => EdgeOf(n) = edge /\ n >= at + 1)
      BY <1>1, <2>2, <2>4 DEF Linked
    <3>2. n = at => EdgeOf(n) = edge
      BY DEF edge
    <3> QED BY <1>1, <2>1, <2>2, <3>1, <3>2
  <2> QED BY <2>3, <2>4
<1>9. \A s \in 1..SlotCount : Here(s)' = IF s = slot THEN Here(s) \ {at} ELSE Here(s)
  <2>1. \A n : EndOf(n)' = EndOf(n)
    BY <1>1 DEF EndOf, EdgeOf
  <2>2. EndOf(at) = slot
    BY DEF slot
  <2>3. \A s : Here(s)' = {n \in nodes : EndOf(n) = s /\ Linked(n) /\ n # at}
    BY <1>1, <1>8, <2>1 DEF Here
  <2> QED BY <2>2, <2>3 DEF Here
<1>10. vertices' \in VertexSet(3 * Len(edges))
  <2>1. ASSUME NEW n \in nodes
        PROVE  vertices'[n] \in [slot : 0..SlotCount, prev : 0..3 * Len(edges), next : 0..3 * Len(edges)]
    <3>1. /\ vertices[n] \in [slot : 0..SlotCount, prev : 0..3 * Len(edges), next : 0..3 * Len(edges)]
          /\ v \in [slot : 0..SlotCount, prev : 0..3 * Len(edges), next : 0..3 * Len(edges)]
          /\ NONE \in 0..SlotCount
      <4>1. \A m \in nodes :
              vertices[m] \in [slot : 0..SlotCount, prev : 0..3 * Len(edges), next : 0..3 * Len(edges)]
        BY <1>1 DEF VertexSet
      <4>2. NONE \in 0..SlotCount
        BY GraphsAssumption DEF NONE
      <4> QED BY <1>1, <4>1, <4>2 DEF v
    <3> QED BY <1>6, <3>1, ZenonT(30)
  <2>2. vertices' = [n \in nodes |-> vertices'[n]]
    BY <1>1, <1>5 DEF Unlinked
  <2> QED BY <2>1, <2>2 DEF VertexSet
<1>11. TypeOK'
  <2>1. heads' \in [1..SlotCount -> NodeOrNone]
    <3>1. v.next \in NodeOrNone /\ heads \in [1..SlotCount -> NodeOrNone]
      <4>1. Here(slot) \subseteq nodes
        BY <1>2, <1>7
      <4>2. v.next \in nodes \/ v.next = 0
        BY <1>4, <4>1 DEF NONE
      <4> QED BY <1>1, <4>2 DEF TypeOK, NodeOrNone
    <3> QED BY <1>2, <1>5, <3>1
  <2>2. queue' \in Seq(1..SlotCount)
    BY <1>1, <1>2, <1>5, QueuedSlots
  <2>3. pc' \in {"peel", "unlink"} /\ at' \in Nat
    BY <1>1
  <2> QED BY <1>1, <1>10, <2>1, <2>2, <2>3 DEF TypeOK, NodeOrNone, VertexSet
<1>12. ASSUME NEW s \in 1..SlotCount, s # slot
       PROVE  /\ heads'[s] = heads[s] /\ Here(s)' = Here(s)
              /\ \A n \in Here(s) : vertices'[n] = vertices[n]
  <2>1. \A n \in Here(s) : n \in nodes /\ n # at /\ n \notin Here(slot) \cup {NONE}
    BY <1>2, <1>7, <1>12 DEF NONE
  <2>2. \A n \in Here(s) : n # v.prev /\ n # v.next
    BY <1>4, <2>1
  <2>3. heads'[s] = heads[s]
    BY <1>1, <1>2, <1>5, <1>12 DEF TypeOK
  <2> QED BY <1>6, <1>9, <1>12, <2>1, <2>2, <2>3
<1>13. ASSUME NEW s \in 1..SlotCount
       PROVE  Threaded(heads'[s], vertices', s, Here(s)')
  <2>1. CASE s # slot
    BY <1>3, <1>12, <2>1, ThreadedElsewhere
  <2>2. CASE s = slot
    <3>1. heads'[slot] = IF v.prev = NONE THEN v.next ELSE heads[slot]
      BY <1>1, <1>2, <1>5 DEF TypeOK
    <3>2. ASSUME NEW n \in Here(slot) \ {at}
          PROVE  /\ vertices'[n].slot = vertices[n].slot
                 /\ vertices'[n].next = IF n = v.prev THEN v.next ELSE vertices[n].next
                 /\ vertices'[n].prev = IF n = v.next THEN v.prev ELSE vertices[n].prev
      <4>1. /\ n \in nodes /\ n # at /\ n # NONE
            /\ vertices[n] \in [slot : 0..SlotCount, prev : 0..3 * Len(edges), next : 0..3 * Len(edges)]
        BY <1>1, <1>2, <1>7 DEF VertexSet, NONE
      <4>2. n = v.prev => n # v.next
        BY <1>4, <4>1
      <4> QED BY <1>6, <4>1, <4>2
    <3>3. Threaded(heads'[slot], vertices', slot, Here(slot) \ {at})
      <4>1. 3 * Len(edges) \in Nat /\ Here(slot) \in SUBSET (1..3 * Len(edges)) /\ at \in Here(slot)
        BY <1>1, <1>2, <1>7
      <4>2. \A n \in Here(slot) \ {at} :
              /\ vertices'[n].slot = vertices[n].slot
              /\ vertices'[n].next = IF n = vertices[at].prev THEN vertices[at].next ELSE vertices[n].next
              /\ vertices'[n].prev = IF n = vertices[at].next THEN vertices[at].prev ELSE vertices[n].prev
        BY <3>2 DEF v
      <4>3. heads'[slot] = IF vertices[at].prev = NONE THEN vertices[at].next ELSE heads[slot]
        BY <3>1 DEF v
      <4>4. Threaded(heads[slot], vertices, slot, Here(slot)) /\ vertices \in VertexSet(3 * Len(edges))
        BY <1>1, <1>2, <1>3
      <4> DEFINE k == 3 * Len(edges)
                 head == heads[slot]
                 head2 == heads'[slot]
                 here == Here(slot)
                 vs2 == vertices'
      <4>5. /\ k \in Nat /\ here \in SUBSET (1..k) /\ at \in here
            /\ vertices \in VertexSet(k) /\ vs2 \in VertexSet(k) /\ Threaded(head, vertices, slot, here)
            /\ head2 = IF vertices[at].prev = NONE THEN vertices[at].next ELSE head
            /\ Bypassed(vertices, vs2, at, here)
        BY <1>10, <4>1, <4>2, <4>3, <4>4 DEF Bypassed
      <4> HIDE DEF k, head, head2, here, vs2
      <4>6. Threaded(head2, vs2, slot, here \ {at})
        BY ONLY <4>5, ThreadedUnlink
      <4> QED BY <4>6 DEF head2, vs2, here
    <3> QED BY <1>2, <1>9, <2>2, <3>3
  <2> QED BY <2>1, <2>2
<1>14. ListsMirrorGraph'
  BY <1>11, <1>13 DEF ListsMirrorGraph
<1>15. QueueInv'
  <2> SUFFICES ASSUME NEW s \in 1..SlotCount, Single(heads', vertices', s)
               PROVE  Covered(s)'
    BY DEF QueueInv, Single
  <2>1. CASE s = slot
    <3>1. \E p \in 1..Len(queue') : queue'[p] = s
      BY <1>1, <1>2, <1>5, <2>1, QueuedSlots
    <3> QED BY <3>1 DEF Covered
  <2>2. CASE s # slot
    <3>1. Single(heads, vertices, s)
      BY <1>3, <1>12, <2>2 DEF Single, Threaded
    <3>2. CASE \E p \in 1..Len(queue) : queue[p] = s
      <4>1. \E p \in 1..Len(queue') : queue'[p] = s
        BY <1>1, <1>2, <1>5, <3>2, QueuedSlots, SMTT(30)
      <4> QED BY <4>1 DEF Covered
    <3>3. CASE \E n \in nodes : n >= at /\ EdgeOf(n) = edge /\ EndOf(n) = s
      <4>1. PICK n \in nodes : n >= at /\ EdgeOf(n) = edge /\ EndOf(n) = s
        BY <3>3
      <4>2. n # at
        BY <2>2, <4>1 DEF slot
      <4>3. n >= at + 1 /\ n \in nodes /\ at \in nodes
        BY <1>1, <4>1, <4>2
      <4>4. at % 3 # 0 /\ EdgeOf(at + 1) = edge
        <5>1. ~(n <= at)
          BY <4>3
        <5>2. at % 3 # 0
          BY <1>1, <4>1, <5>1, NextNode DEF edge
        <5> QED BY <1>1, <5>2, NextNode DEF edge
      <4>5. /\ \A m : EdgeOf(m)' = EdgeOf(m) /\ EndOf(m)' = EndOf(m)
            /\ EdgeOf(at)' = EdgeOf(at')
        BY <1>1 DEF EndOf, EdgeOf
      <4>6. pc' = "unlink" /\ EdgeOf(at)' = edge /\ n >= at' /\ n \in 1..3 * Len(edges')
        BY <1>1, <4>3, <4>4, <4>5
      <4> QED BY <4>1, <4>5, <4>6 DEF Covered
    <3> QED BY <1>1, <3>1, <3>2, <3>3 DEF QueueInv, Covered, edge
  <2> QED BY <2>1, <2>2
<1>16. PhaseInv'
  <2>1. pc' = "unlink" => at' \in 1..3 * Len(edges) /\ EdgeOf(at') = edge
    BY <1>1, NextNode DEF edge
  <2>2. EdgeOf(at)' = EdgeOf(at')
    BY DEF EdgeOf
  <2> QED BY <1>1, <2>1, <2>2 DEF PhaseInv
<1> QED BY <1>14, <1>15, <1>16 DEF IInv

\* Every step keeps the invariant.
LEMMA NextInv ==
  ASSUME IInv, [Next]_vars
  PROVE  IInv'
BY LinkInv, StartQueueInv, FillQueueInv, SkipInv, TakeInv, UnlinkInv, FinishInv, StutterInv DEF Next

\* The invariant that the theorems are read off.
LEMMA AlwaysIInv == Spec => []IInv
<1> QED BY InitInv, NextInv, PTL DEF Spec

-----------------------------------------------------------------------------
(* Peeling *)

\* The edges that are not taken.
Left == (1..Len(edges)) \ Taken

\* What the lists say of the edges that are left.
LEMMA EdgesHere ==
  ASSUME IInv, pc = "peel", NEW slot \in 1..SlotCount
  PROVE  /\ \A n \in Here(slot) : n \in 1..3 * Len(edges) /\ EdgeOf(n) \in Peeling!Incident(edges, Left, slot)
         /\ \A i \in Peeling!Incident(edges, Left, slot) : \E n \in Here(slot) : EdgeOf(n) = i
<1>1. edges \in Graphs /\ Len(edges) \in Nat
  BY HereFacts DEF IInv, ListsMirrorGraph, TypeOK
<1>2. ASSUME NEW n \in Here(slot)
      PROVE  n \in 1..3 * Len(edges) /\ EdgeOf(n) \in Peeling!Incident(edges, Left, slot)
  <2>1. n \in 1..3 * Len(edges) /\ EndOf(n) = slot /\ EdgeOf(n) \notin Taken
    BY DEF Here, Linked
  <2>2. EdgeOf(n) \in 1..Len(edges) /\ Part(n) \in 1..3 /\ edges[EdgeOf(n)][Part(n)] = slot
    BY <1>1, <2>1, GraphFacts
  <2>3. Part(n) = 1 \/ Part(n) = 2 \/ Part(n) = 3
    BY <2>2
  <2> QED BY <2>1, <2>2, <2>3 DEF Peeling!Incident, Peeling!Ends, Left
<1>3. ASSUME NEW i \in Peeling!Incident(edges, Left, slot)
      PROVE  \E n \in Here(slot) : EdgeOf(n) = i
  <2>1. i \in 1..Len(edges) /\ i \notin Taken
        /\ (edges[i][1] = slot \/ edges[i][2] = slot \/ edges[i][3] = slot)
    BY DEF Peeling!Incident, Peeling!Ends, Left
  <2>2. PICK c \in 1..3 : edges[i][c] = slot
    BY <2>1
  <2> DEFINE n == 3 * i - 3 + c
  <2>3. n \in 1..3 * Len(edges) /\ EdgeOf(n) = i /\ Part(n) = c
    BY <1>1, <2>1, NodesOfEdge
  <2> HIDE DEF n
  <2>4. EndOf(n) = slot /\ Linked(n)
    BY <1>1, <2>1, <2>2, <2>3, GraphFacts DEF Linked
  <2> QED BY <2>3, <2>4 DEF Here
<1> QED BY <1>2, <1>3

\* A slot's list has one vertex if and only if one edge that is left has it.
LEMMA SingleIsLeaf ==
  ASSUME IInv, pc = "peel", NEW slot \in 1..SlotCount
  PROVE  /\ Single(heads, vertices, slot) =>
              Peeling!Incident(edges, Left, slot) = {EdgeOf(heads[slot])}
         /\ \A i : Peeling!Incident(edges, Left, slot) = {i} => Single(heads, vertices, slot)
<1> DEFINE head == heads[slot]
<1>1. /\ edges \in Graphs
      /\ head \in Here(slot) \cup {NONE}
      /\ \A n \in Here(slot) :
           /\ n <= head
           /\ vertices[n].next = NONE => \A m \in Here(slot) : n <= m
           /\ vertices[n].next # NONE => vertices[n].next \in Here(slot) /\ vertices[n].next < n
  BY DEF IInv, ListsMirrorGraph, TypeOK, Threaded
<1>2. \A n \in Here(slot) : n \in 1..3 * Len(edges) /\ n # NONE /\ EndOf(n) = slot
  BY DEF Here, NONE
<1>3. ASSUME Single(heads, vertices, slot)
      PROVE  Peeling!Incident(edges, Left, slot) = {EdgeOf(head)}
  <2>1. head \in Here(slot) /\ vertices[head].next = NONE
    BY <1>1, <1>3 DEF Single
  <2>2. \A n \in Here(slot) : n = head
    <3> SUFFICES ASSUME NEW n \in Here(slot) PROVE n = head
      OBVIOUS
    <3>1. n <= head /\ head <= n /\ n \in 1..3 * Len(edges) /\ head \in 1..3 * Len(edges)
      BY <1>1, <1>2, <2>1
    <3> HIDE DEF head
    <3> QED BY <3>1
  <2> QED BY <2>1, <2>2, EdgesHere
<1>4. ASSUME NEW i, Peeling!Incident(edges, Left, slot) = {i}
      PROVE  Single(heads, vertices, slot)
  <2>1. \A n \in Here(slot) : EdgeOf(n) = i
    BY <1>4, EdgesHere
  <2>2. PICK n \in Here(slot) : EdgeOf(n) = i
    BY <1>4, EdgesHere
  <2>3. \A m \in Here(slot) : m = n
    BY <1>1, <1>2, <2>1, <2>2, GraphFacts
  <2>4. n <= head /\ head # NONE
    <3>1. n <= head /\ n \in 1..3 * Len(edges)
      BY <1>1, <1>2, <2>2
    <3> HIDE DEF head
    <3> QED BY <3>1 DEF NONE
  <2>5. head = n /\ ~(n < n)
    BY <1>1, <1>2, <2>3, <2>4
  <2> QED BY <1>1, <2>3, <2>4, <2>5 DEF Single
<1> QED BY <1>3, <1>4

\* Every edge is taken once as many are taken as there are.
LEMMA AllTaken ==
  ASSUME IInv
  PROVE  Len(order) = Len(edges) <=> Left = {}
<1>1. /\ order \in Seq(1..Len(edges)) /\ Len(edges) \in Nat /\ Len(order) \in Nat
      /\ \A p, q \in 1..Len(order) : order[p] = order[q] => p = q
  BY HereFacts DEF IInv, ListsMirrorGraph, TypeOK, PhaseInv
<1>2. order \in Injection(1..Len(order), 1..Len(edges))
  BY <1>1 DEF Injection, IsInjective
<1>3. /\ IsFiniteSet(1..Len(edges)) /\ Cardinality(1..Len(edges)) = Len(edges)
      /\ Cardinality(1..Len(order)) = Len(order)
  <2>1. \A k \in Nat : IsFiniteSet(1..k) /\ Cardinality(1..k) = k
    BY FS_Interval
  <2> QED BY <1>1, <2>1
<1>4. Len(order) = Len(edges) <=> order \in Surjection(1..Len(order), 1..Len(edges))
  BY <1>2, <1>3, FS_Injection
<1>5. order \in Surjection(1..Len(order), 1..Len(edges)) <=> Left = {}
  <2>1. order \in [1..Len(order) -> 1..Len(edges)]
    BY <1>1
  <2>2. order \in Surjection(1..Len(order), 1..Len(edges)) <=>
          \A i \in 1..Len(edges) : \E p \in 1..Len(order) : order[p] = i
    BY <2>1 DEF Surjection
  <2> QED BY <2>2 DEF Left, Taken
<1> QED BY <1>4, <1>5

\* Taking an edge peels it: its slot has no other edge left.
LEMMA TakePeels ==
  ASSUME IInv, Take
  PROVE  \E i \in Left : Peeling!Peel(i)
<1> DEFINE slot == Head(queue)
           e == EdgeOf(heads[slot])
<1>1. /\ pc = "peel" /\ pc' = "unlink" /\ Single(heads, vertices, slot) /\ order' = Append(order, e)
      /\ UNCHANGED edges /\ order \in Seq(1..Len(edges)) /\ queue \in Seq(1..SlotCount) /\ queue # <<>>
  BY DEF IInv, ListsMirrorGraph, TypeOK, Take
<1>2. slot \in 1..SlotCount
  BY <1>1, HeadTailProperties
<1>3. Peeling!Incident(edges, Left, slot) = {e}
  BY <1>1, <1>2, SingleIsLeaf
<1> HIDE DEF slot, e
<1>4. e \in Left /\ slot \in Peeling!Ends(edges[e])
  BY <1>3 DEF Peeling!Incident
<1>5. Peeling!Leaf(edges, Left, e)
  BY <1>3, <1>4 DEF Peeling!Leaf
<1>6. Left' = Left \ {e}
  BY <1>1, TakenGrows DEF Left
<1>7. Peeling!Peel(e)
  BY <1>1, <1>4, <1>5, <1>6 DEF Peeling!Peel, Left
<1> QED BY <1>4, <1>7

\* The peeling has finished when the queue is empty.
LEMMA FinishFinishes ==
  ASSUME IInv, Finish
  PROVE  Peeling!Finish
<1>1. /\ pc = "peel" /\ queue = <<>> /\ pc' = IF Len(order) = Len(edges) THEN "peeled" ELSE "stuck"
      /\ UNCHANGED <<edges, order>> /\ edges \in Graphs
  BY DEF IInv, ListsMirrorGraph, TypeOK, Finish
<1>2. \A slot \in 1..SlotCount : ~Single(heads, vertices, slot)
  BY <1>1 DEF IInv, QueueInv, Covered
<1>3. ASSUME NEW i \in Left PROVE ~Peeling!Leaf(edges, Left, i)
  <2>1. \A slot \in Peeling!Ends(edges[i]) : slot \in 1..SlotCount
    <3>1. \A c \in 1..3 : edges[i][c] \in 1..SlotCount
      BY <1>1, GraphFacts DEF Left
    <3> QED BY <3>1 DEF Peeling!Ends
  <2> QED BY <1>1, <1>2, <2>1, SingleIsLeaf DEF Peeling!Leaf
<1>4. Taken' = Taken /\ (Len(order) = Len(edges) <=> Left = {})
  BY <1>1, AllTaken DEF Taken
<1> QED BY <1>1, <1>3, <1>4 DEF Peeling!Finish, Left

(***************************************************************************)
(* The linked lists hold what the graph holds, for every graph and at      *)
(* every step of peel_graph.                                               *)
(***************************************************************************)
THEOREM ListsAreThreaded == Spec => []ListsMirrorGraph
<1> QED BY AlwaysIInv, PTL DEF IInv

(***************************************************************************)
(* No slot that can be peeled is lost from peel_graph's queue.             *)
(***************************************************************************)
THEOREM QueueIsComplete == Spec => []QueueCoversSingles
<1>1. IInv => QueueCoversSingles
  BY DEF IInv, QueueInv, Covered, QueueCoversSingles
<1> QED BY <1>1, AlwaysIInv, PTL

(***************************************************************************)
(* peel_graph, with its lists and its queue, implements peeling: a step    *)
(* takes a leaf, ends the search when there is none, or changes nothing    *)
(* that PeelSpec sees.                                                     *)
(***************************************************************************)
THEOREM PeelGraphPeels == Spec => ImplementsPeeling
<1>1. Init => Peeling!Init
  <2> SUFFICES ASSUME Init PROVE Peeling!Init
    OBVIOUS
  <2>1. Taken = {}
    BY DEF Init, Taken
  <2> QED BY <2>1 DEF Init, Peeling!Init
<1>2. ASSUME IInv, [Next]_vars
      PROVE  [Peeling!Next]_(Peeling!vars)
  <2>1. CASE Take
    BY <2>1, TakePeels, <1>2 DEF Peeling!Next, Left
  <2>2. CASE Finish
    BY <2>2, FinishFinishes, <1>2 DEF Peeling!Next
  <2>3. CASE Link \/ StartQueue \/ FillQueue \/ Skip \/ Unlink \/ UNCHANGED vars
    <3>1. edges' = edges /\ order' = order
      BY <2>3 DEF Link, StartQueue, FillQueue, Skip, Unlink, vars
    <3>2. pc' \in {"peeled", "stuck"} \/ pc \in {"peeled", "stuck"} => pc' = pc
      BY <2>3 DEF Link, StartQueue, FillQueue, Skip, Unlink, vars
    <3>3. Taken' = Taken
      BY <3>1 DEF Taken
    <3> QED BY <3>1, <3>2, <3>3 DEF Peeling!vars
  <2> QED BY <1>2, <2>1, <2>2, <2>3 DEF Next
<1> QED BY <1>1, <1>2, AlwaysIInv, PTL DEF Spec, ImplementsPeeling, Peeling!Spec

-----------------------------------------------------------------------------
(* What peeling promises *)

\* The edges peeled after position p, and those of `rest`.
After(ord, rest, p) == {ord[q] : q \in (p + 1)..Len(ord)} \cup rest

\* BringsFreeSlot for a graph, the order so far and the edges left.
SlotsToSpare(es, ord, rest) ==
  \A p \in 1..Len(ord) :
    \E slot \in Peeling!Ends(es[ord[p]]) : Peeling!Incident(es, After(ord, rest, p), slot) = {}

\* The edges after a position are the same when one more is peeled.
LEMMA AfterSame ==
  ASSUME NEW n \in Nat, NEW ord \in Seq(1..n), NEW rest, NEW i \in rest, i \in 1..n,
         NEW p \in 1..Len(ord)
  PROVE  After(Append(ord, i), rest \ {i}, p) = After(ord, rest, p)
<1> DEFINE longer == Append(ord, i)
<1>1. /\ Len(ord) \in Nat /\ Len(longer) = Len(ord) + 1
      /\ \A q \in 1..Len(ord) : longer[q] = ord[q]
      /\ longer[Len(ord) + 1] = i
  OBVIOUS
<1>0. p \in Nat
  BY <1>1
<1> HIDE DEF longer
<1>2. ASSUME NEW q \in (p + 1)..Len(longer)
      PROVE  longer[q] \in {ord[r] : r \in (p + 1)..Len(ord)} \cup {i}
  <2>1. CASE q = Len(ord) + 1
    BY <1>1, <2>1
  <2>2. CASE q # Len(ord) + 1
    <3>1. q \in (p + 1)..Len(ord) /\ q \in 1..Len(ord)
      BY ONLY <1>0, <1>1, <2>2, q \in (p + 1)..Len(longer), SMTT(30)
    <3> QED BY <1>1, <3>1
  <2> QED BY <2>1, <2>2
<1>3. ASSUME NEW q \in (p + 1)..Len(ord)
      PROVE  ord[q] \in {longer[r] : r \in (p + 1)..Len(longer)}
  <2>1. q \in 1..Len(ord) /\ q \in (p + 1)..Len(longer)
    BY <1>1
  <2> QED BY <1>1, <2>1
<1>4. i \in {longer[r] : r \in (p + 1)..Len(longer)}
  <2>1. Len(ord) + 1 \in (p + 1)..Len(longer)
    BY <1>1
  <2> QED BY <1>1, <2>1
<1>5. After(longer, rest \ {i}, p) = After(ord, rest, p)
  BY <1>2, <1>3, <1>4 DEF After
<1> QED BY <1>5 DEF longer

\* A peeled edge had a slot of its own, and older ones keep theirs.
LEMMA PeelKeepsFreeSlots ==
  ASSUME NEW es, NEW n \in Nat, NEW ord \in Seq(1..n), NEW rest, NEW i \in rest, i \in 1..n,
         SlotsToSpare(es, ord, rest), Peeling!Leaf(es, rest, i)
  PROVE  SlotsToSpare(es, Append(ord, i), rest \ {i})
<1>1. /\ Len(ord) \in Nat /\ Len(Append(ord, i)) = Len(ord) + 1
      /\ \A q \in 1..Len(ord) : Append(ord, i)[q] = ord[q]
      /\ Append(ord, i)[Len(ord) + 1] = i
  OBVIOUS
<1> SUFFICES ASSUME NEW p \in 1..(Len(ord) + 1)
             PROVE  \E slot \in Peeling!Ends(es[Append(ord, i)[p]]) :
                      Peeling!Incident(es, After(Append(ord, i), rest \ {i}, p), slot) = {}
  BY <1>1 DEF SlotsToSpare
<1>2. CASE p = Len(ord) + 1
  <2>1. After(Append(ord, i), rest \ {i}, p) = rest \ {i}
    BY <1>1, <1>2 DEF After
  <2>2. PICK slot \in Peeling!Ends(es[i]) : Peeling!Incident(es, rest, slot) = {i}
    BY DEF Peeling!Leaf
  <2>3. Peeling!Incident(es, rest \ {i}, slot) = {}
    BY <2>2 DEF Peeling!Incident
  <2> QED BY <1>1, <1>2, <2>1, <2>2, <2>3
<1>3. CASE p \in 1..Len(ord)
  <2>1. After(Append(ord, i), rest \ {i}, p) = After(ord, rest, p)
    BY <1>3, AfterSame
  <2>2. \E slot \in Peeling!Ends(es[ord[p]]) : Peeling!Incident(es, After(ord, rest, p), slot) = {}
    BY <1>3 DEF SlotsToSpare
  <2> QED BY <1>1, <1>3, <2>1, <2>2
<1>4. p = Len(ord) + 1 \/ p \in 1..Len(ord)
  BY ONLY <1>1, p \in 1..(Len(ord) + 1)
<1> QED BY <1>2, <1>3, <1>4

\* A leaf of the graph left is in no core: there it would be a leaf, too.
LEMMA LeafOutsideCores ==
  ASSUME NEW es, NEW rest, NEW i \in rest, Peeling!Leaf(es, rest, i),
         NEW core \in SUBSET rest, Peeling!Core(es, core)
  PROVE  i \notin core
<1> SUFFICES ASSUME i \in core PROVE FALSE
  OBVIOUS
<1>1. PICK slot \in Peeling!Ends(es[i]) : Peeling!Incident(es, rest, slot) = {i}
  BY DEF Peeling!Leaf
<1>2. Peeling!Incident(es, core, slot) = {i}
  BY <1>1 DEF Peeling!Incident
<1> QED BY <1>1, <1>2 DEF Peeling!Core, Peeling!Leaf

\* How far a search that implements PeelSpec has come.
Outcome == IF pc \in {"peeled", "stuck"} THEN pc ELSE "peeling"

\* The properties of PeelSpec are inductive together.
PeelInv ==
  /\ edges \in Graphs /\ Left \subseteq 1..Len(edges) /\ order \in Seq(1..Len(edges))
  /\ SlotsToSpare(edges, order, Left)
  /\ \A set \in SUBSET (1..Len(edges)) : Peeling!Core(edges, set) => set \subseteq Left
  /\ Outcome = "stuck" => Left # {} /\ Peeling!Core(edges, Left)

\* The search starts with every edge left, so that no core is peeled.
LEMMA PeelingStarts ==
  ASSUME Peeling!Init PROVE PeelInv
<1>1. edges \in Graphs /\ order = <<>> /\ Left = 1..Len(edges) /\ Outcome = "peeling"
  BY DEF Peeling!Init, Left, Outcome
<1>2. Len(order) = 0 /\ order \in Seq(1..Len(edges))
  BY <1>1
<1>3. SlotsToSpare(edges, order, Left)
  BY <1>2 DEF SlotsToSpare
<1> QED BY <1>1, <1>2, <1>3 DEF PeelInv

\* Every step that PeelSpec allows preserves the invariant.
LEMMA PeelingGoesOn ==
  ASSUME PeelInv, [Peeling!Next]_(Peeling!vars) PROVE PeelInv'
<1>0. Len(edges) \in Nat
  BY GraphsAssumption DEF PeelInv
<1>1. ASSUME NEW i \in Left, Peeling!Peel(i) PROVE PeelInv'
  <2>1. /\ order' = Append(order, i) /\ Left' = Left \ {i} /\ edges' = edges
        /\ Outcome' = "peeling" /\ Peeling!Leaf(edges, Left, i)
    BY <1>1 DEF Peeling!Peel, Left, Outcome
  <2>2. i \in 1..Len(edges) /\ order' \in Seq(1..Len(edges))
    BY <2>1 DEF PeelInv
  <2>3. SlotsToSpare(edges, order', Left')
    BY <1>0, <2>1, <2>2, PeelKeepsFreeSlots DEF PeelInv
  <2>4. ASSUME NEW set \in SUBSET (1..Len(edges)), Peeling!Core(edges, set)
        PROVE  set \subseteq Left'
    <3>1. set \in SUBSET Left
      BY <2>4 DEF PeelInv
    <3>2. i \notin set
      BY <2>1, <2>4, <3>1, LeafOutsideCores
    <3> QED BY <2>1, <3>1, <3>2
  <2> QED BY <2>1, <2>2, <2>3, <2>4 DEF PeelInv
<1>2. ASSUME Peeling!Finish PROVE PeelInv'
  <2>1. /\ edges' = edges /\ order' = order /\ Left' = Left
        /\ Outcome' = IF Left = {} THEN "peeled" ELSE "stuck"
        /\ Peeling!Core(edges, Left)
    BY <1>2 DEF Peeling!Finish, Peeling!Core, Left, Outcome
  <2> QED BY <2>1 DEF PeelInv
<1>3. ASSUME UNCHANGED Peeling!vars PROVE PeelInv'
  <2>1. edges' = edges /\ order' = order /\ Left' = Left /\ Outcome' = Outcome
    BY <1>3 DEF Peeling!vars, Left, Outcome
  <2> QED BY <2>1 DEF PeelInv
<1> QED BY <1>1, <1>2, <1>3 DEF Peeling!Next, Left

\* What the invariant says in PeelSpec's words.
LEMMA PeelInvMeans ==
  ASSUME PeelInv
  PROVE  Peeling!BringsFreeSlot /\ Peeling!CoreStays
<1>1. ASSUME NEW p PROVE Peeling!Later(p) = After(order, Left, p)
  BY DEF Peeling!Later, After, Left
<1>2. Peeling!BringsFreeSlot
  BY <1>1 DEF PeelInv, SlotsToSpare, Peeling!BringsFreeSlot
<1>3. Peeling!CoreStays
  BY DEF PeelInv, Peeling!CoreStays, Left, Outcome
<1> QED BY <1>2, <1>3

(***************************************************************************)
(* For every graph: whatever the order in which a queue peels edges, each  *)
(* of them brings a slot that neither a later one nor one left over        *)
(* touches, so that the third branch of the assignment may take it unseen. *)
(***************************************************************************)
THEOREM PeelingBringsFreeSlots == Peeling!Spec => []Peeling!BringsFreeSlot
<1>1. Peeling!Init => PeelInv
  BY PeelingStarts
<1>2. PeelInv /\ [Peeling!Next]_(Peeling!vars) => PeelInv'
  BY PeelingGoesOn
<1>3. PeelInv => Peeling!BringsFreeSlot
  BY PeelInvMeans
<1> QED BY <1>1, <1>2, <1>3, PTL DEF Peeling!Spec

(***************************************************************************)
(* For every graph: edges that share all their slots among themselves are  *)
(* never peeled, and a search that gives up has found some: no seed is     *)
(* given up without need, and none is taken that cannot work.              *)
(***************************************************************************)
THEOREM PeelingKeepsCores == Peeling!Spec => []Peeling!CoreStays
<1>1. Peeling!Init => PeelInv
  BY PeelingStarts
<1>2. PeelInv /\ [Peeling!Next]_(Peeling!vars) => PeelInv'
  BY PeelingGoesOn
<1>3. PeelInv => Peeling!CoreStays
  BY PeelInvMeans
<1> QED BY <1>1, <1>2, <1>3, PTL DEF Peeling!Spec

(***************************************************************************)
(* What build_perfect_hash_index needs of peel_graph: in the order it      *)
(* returns, each edge brings a slot that no later edge touches, and it     *)
(* gives up only when a set of edges is left that share all their slots.   *)
(***************************************************************************)
THEOREM PeelGraphServesCaller ==
  Spec => [](Peeling!BringsFreeSlot /\ Peeling!CoreStays)
<1> QED BY PeelGraphPeels, PeelingBringsFreeSlots, PeelingKeepsCores, PTL DEF ImplementsPeeling
=============================================================================
