-------------------------- MODULE PerfectHashProofs --------------------------
(***************************************************************************)
(* The perfect-hash index is right for every hash function, every list of  *)
(* keys and every size of sections, blocks and table entries: assigned     *)
(* edges select slots of their own, equal keys are refused, and a lookup   *)
(* finds exactly the keys that are there.                                  *)
(***************************************************************************)
EXTENDS PerfectHash, FiniteSetTheorems, TLAPS

\* There is a hash: a seed is being tried or has been chosen.
Seeded == pc \in {"peel", "assign", "table", "built"} /\ Total > 1

Filling == Seeded /\ pc # "peel"

Ends(i) == Peeling!Ends(EdgeOf(i))

TypesInv ==
  /\ TypeOK
  /\ pc \in {"peel", "assign", "table"} => Total > 1
  /\ Seeded => hash \in [{keys[i] : i \in 1..Total} -> Triples(Section(Total))]
  /\ Filling => bitmap \in [BitmapSlots(Total) -> 0..3]

\* Before position p of the order nothing is said: i is peeled later or left.
NotUpTo(p, i) == \A q \in 1..p : order[q] # i

OrderInv ==
  pc \in {"peel", "assign"} =>
    /\ \A p, q \in 1..Len(order) : order[p] = order[q] => p = q
    /\ \A p \in 1..Len(order) : \E slot \in Ends(order[p]) :
         \A i \in 1..Total : NotUpTo(p, i) => slot \notin Ends(i)
    /\ pc = "peel" => remaining = {i \in 1..Total : NotUpTo(Len(order), i)}

OwnSlots ==
  /\ \A i, j \in Assigned : i # j =>
       Selected(bitmap, EdgeOf(i)) # Selected(bitmap, EdgeOf(j))
  /\ {s \in BitmapSlots(Total) : bitmap[s] # 3} = {Selected(bitmap, EdgeOf(i)) : i \in Assigned}

AssignInv ==
  /\ Filling => OwnSlots
  /\ pc = "assign" => taken = UNION {Ends(i) : i \in Assigned}
  /\ Filling /\ pc # "assign" => order = <<>>

DistinctInv == Filling => \A i, j \in 1..Total : keys[i] = keys[j] => i = j

TableInv ==
  /\ Filling /\ pc # "assign" => table = IF TableRange(Total) = 0 THEN <<>> ELSE TableOf(bitmap)
  /\ pc = "built" => store = IF Total > 1 THEN Arranged ELSE [p \in {0 : i \in 1..Total} |-> keys[1]]

IInv == TypesInv /\ OrderInv /\ AssignInv /\ DistinctInv /\ TableInv

-----------------------------------------------------------------------------
(***************************************************************************)
(* Slots and edges.                                                        *)
(***************************************************************************)

\* Rounding up to a multiple does not get smaller.
LEMMA RoundedUp ==
  ASSUME NEW n \in Nat, NEW b \in Nat \ {0}
  PROVE  /\ (n + b - 1) \div b \in Nat
         /\ n <= ((n + b - 1) \div b) * b
<1> DEFINE q == (n + b - 1) \div b
           r == (n + b - 1) % b
<1>1. q \in Int /\ r \in 0..(b - 1) /\ n + b - 1 = b * q + r
  BY SMTT(30)
<1>2. q \in Nat
  BY SMTT(30)
<1>3. n <= b * q
  BY <1>1, <1>2
<1>4. b * q = q * b
  BY <1>2
<1> QED
  BY <1>2, <1>3, <1>4

\* The number of keys has a section.
LEMMA TotalFacts ==
  ASSUME TypesInv
  PROVE  /\ Total \in Nat /\ Total \in Totals
         /\ Section(Total) \in Nat \ {0}
         /\ DOMAIN keys = 1..Total
         /\ Blocks(Total) \in Nat
         /\ 0..(3 * Section(Total) - 1) \subseteq BitmapSlots(Total)
         /\ BitmapSlots(Total) \subseteq Nat
<1>1. keys \in KeyLists
  BY DEF TypesInv, TypeOK
<1>2. Total \in Totals /\ keys \in Seq(Key)
  BY <1>1, KeyListsAssumption DEF Totals, Total
<1>3. Total \in Nat /\ DOMAIN keys = 1..Total
  BY <1>2 DEF Total
<1>4. Section(Total) \in Nat \ {0} /\ BlockSlots \in Nat \ {0}
  BY <1>2, SectionAssumption, LimitsAssumption
<1>5. PICK n \in Nat : n = 3 * Section(Total)
  BY <1>4
<1>6. Blocks(Total) \in Nat /\ n <= Blocks(Total) * BlockSlots
  BY <1>4, <1>5, RoundedUp DEF Blocks
<1>7. PICK m \in Nat : m = Blocks(Total) * BlockSlots
  BY <1>4, <1>6
<1>8. n <= m
  BY <1>6, <1>7
<1>9. 0..(n - 1) \subseteq 0..(m - 1) /\ 0..(m - 1) \subseteq Nat
  BY <1>8
<1> QED
  BY <1>2, <1>3, <1>4, <1>5, <1>6, <1>7, <1>9 DEF BitmapSlots

\* The three ends of an edge are different slots of the bitmap.
LEMMA EdgeParts ==
  ASSUME TypesInv, Seeded, NEW i \in 1..Total
  PROVE  LET e == EdgeOf(i) IN
         /\ Ends(i) = {e[1], e[2], e[3]}
         /\ e[1] # e[2] /\ e[1] # e[3] /\ e[2] # e[3]
         /\ \A c \in 1..3 : e[c] \in 0..(3 * Section(Total) - 1) /\ e[c] \in BitmapSlots(Total)
<1> DEFINE e == EdgeOf(i)
<1>1. e \in Triples(Section(Total))
  BY DEF TypesInv, EdgeOf
<1>2. PICK s \in Nat \ {0} : s = Section(Total)
  BY TotalFacts
<1>3. e[1] \in 0..(s - 1) /\ e[2] \in s..(2 * s - 1) /\ e[3] \in (2 * s)..(3 * s - 1)
  BY <1>1, <1>2 DEF Triples
<1> HIDE DEF e
<1>4. e[1] # e[2] /\ e[1] # e[3] /\ e[2] # e[3]
  BY <1>3
<1>5. \A c \in 1..3 : e[c] \in 0..(3 * s - 1)
  BY <1>3
<1>6. \A c \in 1..3 : e[c] \in BitmapSlots(Total)
  BY <1>2, <1>5, TotalFacts
<1> QED
  BY <1>2, <1>4, <1>5, <1>6 DEF e, Ends, Peeling!Ends
-----------------------------------------------------------------------------
(***************************************************************************)
(* Steps before a graph is peeled.                                         *)
(***************************************************************************)

\* Nothing is promised of an index whose building has not begun.
LEMMA InitInv == Init => IInv
<1> SUFFICES ASSUME Init PROVE IInv
  OBVIOUS
<1>1. pc = "seed" /\ tries = 0 /\ remaining = {} /\ order = <<>> /\ taken = {} /\ keys \in KeyLists
  BY DEF Init
<1>2. TypeOK
  BY <1>1, LimitsAssumption DEF TypeOK
<1> QED
  BY <1>1, <1>2 DEF IInv, TypesInv, OrderInv, AssignInv, DistinctInv, TableInv, Seeded, Filling

\* An index of at most one key has no hash, no bitmap and no table.
LEMMA TrivialInv == IInv /\ Trivial => IInv'
<1> SUFFICES ASSUME IInv, Trivial PROVE IInv'
  OBVIOUS
<1>1. Total \in Nat /\ Total <= 1
  BY TotalFacts DEF IInv, Trivial
<1>2. ~Seeded' /\ ~(Total > 1) /\ ~(Total > 1)' /\ pc' = "built"
  BY <1>1 DEF Trivial, Seeded, Total
<1>3. TypesInv'
  BY <1>2 DEF Trivial, IInv, TypesInv, TypeOK, Total, Filling
<1> QED
  BY <1>2, <1>3 DEF Trivial, IInv, OrderInv, AssignInv, DistinctInv, TableInv, Filling, Total

\* Nothing is promised of an index that is refused.
LEMMA RefusedInv == IInv /\ (TooMany \/ GiveUp) => IInv'
<1> SUFFICES ASSUME IInv, TooMany \/ GiveUp PROVE IInv'
  OBVIOUS
<1>1. ~Seeded' /\ pc' = "refused"
  BY DEF TooMany, GiveUp, Seeded
<1>2. TypesInv'
  BY <1>1 DEF TooMany, GiveUp, IInv, TypesInv, TypeOK, Total, Filling
<1> QED
  BY <1>1, <1>2 DEF IInv, OrderInv, AssignInv, DistinctInv, TableInv, Filling

\* A new seed gives every key an edge, and none of them is peeled.
LEMMA TrySeedInv == IInv /\ TrySeed => IInv'
<1> SUFFICES ASSUME IInv, TrySeed PROVE IInv'
  OBVIOUS
<1>1. /\ pc' = "peel" /\ keys' = keys /\ order' = <<>> /\ remaining' = 1..Total
      /\ tries' = tries + 1 /\ tries < MaxSeeds /\ Total > 1 /\ taken' = taken
      /\ hash' \in [{keys[i] : i \in 1..Total} -> Triples(Section(Total))]
  BY DEF TrySeed
<1>2. Total' = Total
  BY <1>1 DEF Total
<1>3. tries' \in 0..MaxSeeds
  BY <1>1, LimitsAssumption DEF IInv, TypesInv, TypeOK
<1>4. TypesInv'
  BY <1>1, <1>2, <1>3 DEF IInv, TypesInv, TypeOK, Seeded, Filling
<1>5. OrderInv'
  BY <1>1, <1>2 DEF OrderInv, NotUpTo
<1> QED
  BY <1>1, <1>4, <1>5 DEF IInv, AssignInv, DistinctInv, TableInv, Filling

\* A seed that fails leaves nothing behind.
LEMMA StuckInv == IInv /\ Stuck => IInv'
<1> SUFFICES ASSUME IInv, Stuck PROVE IInv'
  OBVIOUS
<1>1. ~Seeded' /\ pc' = "seed" /\ order' = <<>> /\ remaining' = {}
  BY DEF Stuck, Seeded
<1>2. TypesInv'
  BY <1>1 DEF Stuck, IInv, TypesInv, TypeOK, Total, Filling
<1> QED
  BY <1>1, <1>2 DEF IInv, OrderInv, AssignInv, DistinctInv, TableInv, Filling

\* The order consists of edges.
LEMMA OrderEdges ==
  ASSUME TypesInv
  PROVE  /\ Len(order) \in Nat
         /\ \A p \in 1..Len(order) : order[p] \in 1..Total /\ p \in Nat
<1>1. order \in Seq(1..Total) /\ Total \in Nat
  BY TotalFacts DEF TypesInv, TypeOK
<1>2. \A p \in 1..Len(order) : order[p] \in 1..Total
  BY <1>1
<1> QED
  BY <1>1, <1>2

\* What is said of the order depends on nothing but the edges and the order.
LEMMA OrderSame ==
  ASSUME TypesInv, OrderInv, keys' = keys, hash' = hash, order' = order, remaining' = remaining,
         pc \in {"peel", "assign"}, pc' = "peel" => pc = "peel"
  PROVE  OrderInv'
<1>1. /\ Total' = Total /\ Len(order) \in Nat
      /\ \A p \in 1..Len(order) : order[p] \in 1..Total /\ p \in Nat
  BY OrderEdges DEF Total
<1>2. \A i \in 1..Total : Ends(i)' = Ends(i)
  BY DEF Ends, Peeling!Ends, EdgeOf
<1>3. \A p \in Nat, i \in 1..Total : NotUpTo(p, i)' <=> NotUpTo(p, i)
  BY DEF NotUpTo
<1>4. \A p, q \in 1..Len(order) : order[p] = order[q] => p = q
  BY DEF OrderInv
<1>5. ASSUME NEW p \in 1..Len(order)
      PROVE  \E slot \in Ends(order[p])' : \A i \in 1..Total : NotUpTo(p, i)' => slot \notin Ends(i)'
  <2>1. order[p] \in 1..Total /\ p \in Nat
    BY <1>1
  <2>2. PICK slot \in Ends(order[p]) : \A i \in 1..Total : NotUpTo(p, i) => slot \notin Ends(i)
    BY DEF OrderInv
  <2>3. Ends(order[p])' = Ends(order[p])
    BY DEF Ends, Peeling!Ends, EdgeOf
  <2>4. ASSUME NEW i \in 1..Total, NotUpTo(p, i)' PROVE slot \notin Ends(i)'
    BY <1>2, <1>3, <2>1, <2>2, <2>4
  <2> QED
    BY <2>2, <2>3, <2>4
<1>6. pc = "peel" => remaining' = {i \in 1..Total : NotUpTo(Len(order), i)'}
  BY <1>1, <1>3 DEF OrderInv
<1> QED
  BY <1>1, <1>4, <1>5, <1>6 DEF OrderInv

\* The slots in use depend on nothing but the edges, the order and the bitmap.
LEMMA OwnSlotsSame ==
  ASSUME OwnSlots, keys' = keys, hash' = hash, order' = order, bitmap' = bitmap
  PROVE  OwnSlots'
<1>1. Assigned' = Assigned /\ Total' = Total
  BY DEF Assigned, Total
<1>2. BitmapSlots(Total)' = BitmapSlots(Total)
  BY <1>1 DEF BitmapSlots, Blocks
<1>3. \A i : Selected(bitmap, EdgeOf(i))' = Selected(bitmap, EdgeOf(i))
  BY DEF Selected, Sum, EdgeOf
<1> QED
  BY <1>1, <1>2, <1>3 DEF OwnSlots

\* What is said of an index depends on nothing but the variables.
LEMMA StutterInv == IInv /\ UNCHANGED vars => IInv'
<1> SUFFICES ASSUME IInv, UNCHANGED vars PROVE IInv'
  OBVIOUS
<1>1. TypesInv'
  BY DEF vars, IInv, TypesInv, TypeOK, Seeded, Filling, Total, BitmapSlots, Blocks
<1>2. OrderInv'
  <2>1. CASE pc \in {"peel", "assign"}
    BY <2>1, OrderSame DEF vars, IInv
  <2>2. CASE pc \notin {"peel", "assign"}
    BY <2>2 DEF vars, OrderInv
  <2> QED
    BY <2>1, <2>2
<1>3. AssignInv'
  <2>1. OwnSlots => OwnSlots'
    BY OwnSlotsSame DEF vars
  <2>2. UNION {Ends(i) : i \in Assigned}' = UNION {Ends(i) : i \in Assigned}
    BY DEF vars, Ends, Peeling!Ends, EdgeOf, Assigned, Total
  <2> QED
    BY <2>1, <2>2 DEF vars, IInv, AssignInv, Seeded, Filling, Total
<1>4. DistinctInv'
  BY DEF vars, IInv, DistinctInv, Seeded, Filling, Total
<1>5. TableInv'
  <2>1. TableOf(bitmap)' = TableOf(bitmap)
    BY DEF vars, TableOf, InUse, Total, Blocks
  <2>2. Arranged' = Arranged
    BY DEF vars, Arranged, Rank, InUse, Selected, Sum, EdgeOf, Total
  <2> QED
    BY <2>1, <2>2 DEF vars, IInv, TableInv, Seeded, Filling, Total
<1> QED
  BY <1>1, <1>2, <1>3, <1>4, <1>5 DEF IInv
\* A leaf has a slot that no other edge left touches.
LEMMA LeafSlot ==
  ASSUME TypesInv, NEW i \in remaining, Peeling!Leaf(EdgesOf(keys, hash), remaining, i)
  PROVE  \E slot \in Ends(i) : \A j \in remaining : j # i => slot \notin Ends(j)
<1> DEFINE es == EdgesOf(keys, hash)
<1>1. \A j \in remaining : j \in 1..Total /\ es[j] = EdgeOf(j)
  BY DEF TypesInv, TypeOK, EdgesOf, EdgeOf, Total
<1> HIDE DEF es
<1>2. \A j \in remaining : Ends(j) = Peeling!Ends(es[j])
  BY <1>1 DEF Ends
<1>3. PICK slot \in Peeling!Ends(es[i]) : Peeling!Incident(es, remaining, slot) = {i}
  BY DEF Peeling!Leaf, es
<1>4. ASSUME NEW j \in remaining, slot \in Peeling!Ends(es[j]) PROVE j = i
  BY <1>3, <1>4 DEF Peeling!Incident
<1> QED
  BY <1>2, <1>3, <1>4

\* The edge peeled off last brings a slot, and those before keep theirs.
LEMMA PeelOneInv == IInv /\ (\E i \in remaining : PeelOne(i)) => IInv'
<1> SUFFICES ASSUME IInv, NEW i \in remaining, PeelOne(i) PROVE IInv'
  OBVIOUS
<1>1. /\ pc = "peel" /\ pc' = "peel" /\ keys' = keys /\ hash' = hash /\ Total' = Total
      /\ remaining' = remaining \ {i} /\ TypesInv /\ OrderInv
  BY DEF PeelOne, IInv, Total
<1>2. i \in 1..Total /\ Total \in Nat /\ order \in Seq(1..Total) /\ order' = Append(order, i)
  BY <1>1, TotalFacts DEF TypesInv, TypeOK, PeelOne
<1>3. PICK L \in Nat : L = Len(order)
  BY <1>2
<1>4. /\ L \in Nat /\ Len(order') = L + 1 /\ order' \in Seq(1..Total)
      /\ order'[L + 1] = i
  BY <1>3, <1>2
<1>5. \A q \in 1..L : order'[q] = order[q] /\ order[q] \in 1..Total
  BY <1>3, <1>2
<1>6. remaining = {j \in 1..Total : NotUpTo(L, j)}
  BY <1>3, <1>1 DEF OrderInv
<1>7. \A j : Ends(j)' = Ends(j)
  BY <1>1 DEF Ends, Peeling!Ends, EdgeOf
<1>8. \A p \in 1..L, j \in 1..Total : NotUpTo(p, j)' <=> NotUpTo(p, j)
  BY <1>4, <1>5 DEF NotUpTo
<1>9. \A j \in 1..Total : NotUpTo(L + 1, j)' <=> NotUpTo(L, j) /\ j # i
  <2>1. \A j \in 1..Total : NotUpTo(L + 1, j)' => NotUpTo(L, j) /\ j # i
    <3>1. L + 1 \in 1..(L + 1) /\ \A q \in 1..L : q \in 1..(L + 1)
      BY <1>4
    <3> QED
      BY <1>4, <1>5, <3>1 DEF NotUpTo
  <2>2. ASSUME NEW j \in 1..Total, NotUpTo(L, j), j # i, NEW q \in 1..(L + 1)
        PROVE  order'[q] # j
    <3>1. q = L + 1 \/ q \in 1..L
      BY <1>4
    <3> QED
      BY <1>4, <1>5, <2>2, <3>1 DEF NotUpTo
  <2> QED
    BY <2>1, <2>2 DEF NotUpTo
<1>10. TypesInv'
  BY <1>1, <1>4 DEF PeelOne, TypesInv, TypeOK, Seeded, Filling
<1>11. ASSUME NEW p \in 1..(L + 1), NEW q \in 1..(L + 1), order'[p] = order'[q] PROVE p = q
  <2>1. \A r \in 1..L : order[r] # i
    BY <1>6 DEF NotUpTo
  <2>2. (p = L + 1 \/ p \in 1..L) /\ (q = L + 1 \/ q \in 1..L)
    BY <1>4
  <2>3. \A r, t \in 1..L : order[r] = order[t] => r = t
    BY <1>3, <1>1 DEF OrderInv
  <2> QED
    BY <1>4, <1>5, <1>11, <2>1, <2>2, <2>3
<1>12. ASSUME NEW p \in 1..(L + 1)
       PROVE  \E slot \in Ends(order'[p]) :
                \A j \in 1..Total : NotUpTo(p, j)' => slot \notin Ends(j)
  <2>1. CASE p = L + 1
    <3>1. PICK slot \in Ends(i) : \A j \in remaining : j # i => slot \notin Ends(j)
      BY <1>1, LeafSlot DEF PeelOne
    <3>2. \A j \in 1..Total : NotUpTo(p, j)' => slot \notin Ends(j)
      BY <1>6, <1>9, <2>1, <3>1
    <3> QED
      BY <1>4, <2>1, <3>1, <3>2
  <2>2. CASE p \in 1..L
    <3>1. PICK slot \in Ends(order[p]) : \A j \in 1..Total : NotUpTo(p, j) => slot \notin Ends(j)
      BY <1>3, <1>1, <2>2 DEF OrderInv
    <3> QED
      BY <1>5, <1>8, <2>2, <3>1
  <2> QED
    BY <1>4, <2>1, <2>2
<1>13. remaining' = {j \in 1..Total : NotUpTo(L + 1, j)'}
  BY <1>1, <1>6, <1>9
<1>14. OrderInv'
  <2>1. \A p \in 1..(L + 1) : \E slot \in Ends(order[p])' :
          \A j \in 1..Total : NotUpTo(p, j)' => slot \notin Ends(j)'
    <3>1. \A p \in 1..(L + 1) : Ends(order[p])' = Ends(order'[p])
      BY <1>1 DEF Ends, Peeling!Ends, EdgeOf
    <3> QED
      BY <1>7, <1>12, <3>1
  <2> QED
    BY <1>1, <1>4, <1>11, <1>13, <2>1 DEF OrderInv
<1> QED
  BY <1>1, <1>10, <1>14 DEF IInv, AssignInv, DistinctInv, TableInv, Filling
-----------------------------------------------------------------------------
(***************************************************************************)
(* A graph that can be peeled.                                             *)
(***************************************************************************)

\* Two edges with the same ends cannot both be in an order of peeling: the
\* first of them would have a slot that the second does not.
LEMMA OrderedApart ==
  ASSUME TypesInv, OrderInv, pc \in {"peel", "assign"},
         NEW p \in 1..Len(order), NEW q \in 1..Len(order), p < q
  PROVE  Ends(order[p]) # Ends(order[q])
<1>1. order[q] \in 1..Total /\ Len(order) \in Nat
  BY OrderEdges
<1>2. NotUpTo(p, order[q])
  <2>1. ASSUME NEW r \in 1..p PROVE order[r] # order[q]
    <3>1. r \in 1..Len(order) /\ r # q
      BY <1>1
    <3> QED
      BY <3>1 DEF OrderInv
  <2> QED
    BY <2>1 DEF NotUpTo
<1>3. PICK slot \in Ends(order[p]) : \A i \in 1..Total : NotUpTo(p, i) => slot \notin Ends(i)
  BY DEF OrderInv
<1>4. slot \notin Ends(order[q])
  BY <1>1, <1>2, <1>3
<1> QED
  BY <1>3, <1>4

\* A graph with two equal keys is not peeled.
LEMMA PeeledDistinct ==
  ASSUME TypesInv, OrderInv, pc = "peel", remaining = {},
         NEW i \in 1..Total, NEW j \in 1..Total, keys[i] = keys[j]
  PROVE  i = j
<1>1. Ends(i) = Ends(j)
  BY DEF Ends, EdgeOf
<1>2. ~NotUpTo(Len(order), i) /\ ~NotUpTo(Len(order), j)
  BY DEF OrderInv
<1>3. PICK p \in 1..Len(order), q \in 1..Len(order) : order[p] = i /\ order[q] = j
  BY <1>2 DEF NotUpTo
<1>4. ~(p < q) /\ ~(q < p)
  BY <1>1, <1>3, OrderedApart
<1>5. p = q
  BY <1>3, <1>4, OrderEdges
<1> QED
  BY <1>3, <1>5

\* When no edge is left all are to be assigned, and no slot is in use.
LEMMA PeeledInv == IInv /\ Peeled => IInv'
<1> SUFFICES ASSUME IInv, Peeled PROVE IInv'
  OBVIOUS
<1>1. /\ pc = "peel" /\ remaining = {} /\ pc' = "assign" /\ taken' = {} /\ bitmap' = EmptyBitmap
      /\ keys' = keys /\ hash' = hash /\ order' = order /\ remaining' = remaining
      /\ tries' = tries /\ Total' = Total /\ TypesInv /\ OrderInv
  BY DEF Peeled, IInv, Total
<1>2. bitmap' \in [BitmapSlots(Total) -> 0..3] /\ \A s \in BitmapSlots(Total) : bitmap'[s] = 3
  BY <1>1 DEF EmptyBitmap
<1>3. TypesInv'
  BY <1>1, <1>2 DEF TypesInv, TypeOK, Seeded, Filling
<1>4. OrderInv'
  BY <1>1, OrderSame
<1>5. Assigned' = {}
  <2>1. \A i \in 1..Total : ~NotUpTo(Len(order), i)
    BY <1>1 DEF OrderInv
  <2> QED
    BY <1>1, <2>1 DEF Assigned, NotUpTo
<1>6. AssignInv'
  BY <1>1, <1>2, <1>5 DEF AssignInv, OwnSlots
<1>7. DistinctInv'
  BY <1>1, PeeledDistinct DEF DistinctInv
<1> QED
  BY <1>1, <1>3, <1>4, <1>6, <1>7 DEF IInv, TableInv
-----------------------------------------------------------------------------
(***************************************************************************)
(* Assigning slots.                                                        *)
(***************************************************************************)

\* The value given to the chosen slot makes the sum select that slot: x is
\* the sum of the other two.
LEMMA ValueSelects ==
  ASSUME NEW x \in 0..6, NEW c \in 1..3
  PROVE  LET v == (c + 2 - (x % 3)) % 3
         IN  v \in 0..2 /\ (x + v) % 3 = c - 1
<1>1. x = 0 \/ x = 1 \/ x = 2 \/ x = 3 \/ x = 4 \/ x = 5 \/ x = 6
  OBVIOUS
<1>2. c = 1 \/ c = 2 \/ c = 3
  OBVIOUS
<1> QED
  BY <1>1, <1>2

\* The slot that an edge selects is one of its ends.
LEMMA SelectedIsEnd ==
  ASSUME TypesInv, Seeded, NEW b \in [BitmapSlots(Total) -> 0..3], NEW i \in 1..Total
  PROVE  Selected(b, EdgeOf(i)) \in Ends(i)
<1> DEFINE e == EdgeOf(i)
<1>1. b[e[1]] \in 0..3 /\ b[e[2]] \in 0..3 /\ b[e[3]] \in 0..3
  BY EdgeParts
<1>2. Ends(i) = {e[1], e[2], e[3]}
  BY EdgeParts
<1> HIDE DEF e
<1>3. (Sum(b, e) % 3) + 1 \in 1..3
  BY <1>1 DEF Sum
<1>4. Selected(b, e) = e[1] \/ Selected(b, e) = e[2] \/ Selected(b, e) = e[3]
  BY <1>3 DEF Selected
<1> QED
  BY <1>2, <1>4 DEF e

\* An edge goes on selecting its slot while the values at its ends stay.
LEMMA SelectedSame ==
  ASSUME NEW b, NEW d, NEW i \in 1..Total, TypesInv, Seeded,
         \A s \in Ends(i) : d[s] = b[s]
  PROVE  Selected(d, EdgeOf(i)) = Selected(b, EdgeOf(i))
BY EdgeParts DEF Selected, Sum

\* The edge assigned next, the slot chosen for it and the value put there:
\* the slot is free, because of the order of peeling.
LEMMA ChosenFree ==
  ASSUME TypesInv, OrderInv, AssignInv, pc = "assign", Total > 1,
         NEW k \in 1..Total, k = order[Len(order)], Len(order) \in Nat \ {0}
  PROVE  LET e == EdgeOf(k)
             c == Choice(e, taken)
         IN  /\ c \in 1..3 /\ e[c] \notin taken
             /\ Value(bitmap, e, c) \in 0..2
             /\ Selected([bitmap EXCEPT ![e[c]] = Value(bitmap, e, c)], e) = e[c]
<1> DEFINE e == EdgeOf(k)
           c == Choice(e, taken)
           v == Value(bitmap, e, c)
           d == [bitmap EXCEPT ![e[c]] = v]
<1>1. Seeded /\ Filling /\ bitmap \in [BitmapSlots(Total) -> 0..3]
  BY DEF Seeded, Filling, TypesInv
<1>2. /\ Ends(k) = {e[1], e[2], e[3]}
      /\ e[1] # e[2] /\ e[1] # e[3] /\ e[2] # e[3]
      /\ e[1] \in BitmapSlots(Total) /\ e[2] \in BitmapSlots(Total) /\ e[3] \in BitmapSlots(Total)
  BY <1>1, EdgeParts
<1>3. c \in 1..3
  BY DEF Choice
<1>4. PICK slot \in Ends(k) : slot \notin taken
  <2>1. PICK slot \in Ends(k) : \A i \in 1..Total : NotUpTo(Len(order), i) => slot \notin Ends(i)
    BY DEF OrderInv
  <2>2. taken = UNION {Ends(i) : i \in Assigned}
    BY DEF AssignInv
  <2>3. \A i \in Assigned : i \in 1..Total /\ NotUpTo(Len(order), i)
    BY DEF Assigned, NotUpTo
  <2> QED
    BY <2>1, <2>2, <2>3
<1>5. e[c] \notin taken
  BY <1>2, <1>4 DEF Choice
<1> HIDE DEF e
<1>6. PICK b1 \in 0..3, b2 \in 0..3, b3 \in 0..3 :
        b1 = bitmap[e[1]] /\ b2 = bitmap[e[2]] /\ b3 = bitmap[e[3]]
  BY <1>1, <1>2
<1>7. PICK x \in 0..6 : /\ x = Sum(bitmap, e) - bitmap[e[c]]
                        /\ x = CASE c = 1 -> b2 + b3 [] c = 2 -> b1 + b3 [] c = 3 -> b1 + b2
  <2>1. Sum(bitmap, e) = b1 + b2 + b3
    BY <1>6 DEF Sum
  <2> HIDE DEF c
  <2>2. CASE c = 1
    BY <1>6, <2>1, <2>2
  <2>3. CASE c = 2
    BY <1>6, <2>1, <2>3
  <2>4. CASE c = 3
    BY <1>6, <2>1, <2>4
  <2> QED
    BY <1>3, <2>2, <2>3, <2>4
<1>8. v = (c + 2 - (x % 3)) % 3
  BY <1>7 DEF Value
<1> HIDE DEF c
<1>9. v \in 0..2 /\ (x + v) % 3 = c - 1
  BY <1>3, <1>8, ValueSelects
<1>10. Sum(d, e) = x + v
  <2> HIDE DEF v
  <2>1. CASE c = 1
    BY <1>1, <1>2, <1>6, <1>7, <1>9, <2>1 DEF Sum
  <2>2. CASE c = 2
    BY <1>1, <1>2, <1>6, <1>7, <1>9, <2>2 DEF Sum
  <2>3. CASE c = 3
    BY <1>1, <1>2, <1>6, <1>7, <1>9, <2>3 DEF Sum
  <2> QED
    BY <1>3, <2>1, <2>2, <2>3
<1>11. Selected(d, e) = e[c]
  BY <1>3, <1>9, <1>10 DEF Selected
<1> QED
  BY <1>3, <1>5, <1>9, <1>11 DEF e, c
\* Assigning one edge more leaves the others with the slots they select.
LEMMA AssignStepInv == IInv /\ Assign => IInv'
<1> SUFFICES ASSUME IInv, Assign PROVE IInv'
  OBVIOUS
<1>1. /\ pc = "assign" /\ pc' = "assign" /\ order # <<>> /\ Total' = Total
      /\ keys' = keys /\ hash' = hash /\ remaining' = remaining /\ tries' = tries
      /\ TypesInv /\ OrderInv /\ AssignInv /\ DistinctInv /\ Total > 1 /\ Seeded /\ Filling
  BY DEF Assign, IInv, Total, TypesInv, Seeded, Filling
<1>2. order \in Seq(1..Total) /\ Total \in Nat
  BY <1>1, TotalFacts DEF TypesInv, TypeOK
<1>3. PICK n \in Nat \ {0} : n = Len(order)
  BY <1>1, <1>2
<1>4. PICK k \in 1..Total : k = order[n]
  BY <1>2, <1>3
<1>5. /\ order' = SubSeq(order, 1, n - 1) /\ order' \in Seq(1..Total) /\ Len(order') = n - 1
      /\ \A p \in 1..(n - 1) : order'[p] = order[p] /\ p \in 1..n
  <2>1. order' = SubSeq(order, 1, n - 1)
    BY <1>3 DEF Assign
  <2>2. n - 1 \in Nat /\ n - 1 <= Len(order)
    BY <1>3
  <2>3. order' \in Seq(1..Total) /\ Len(order') = n - 1
    BY <1>2, <2>1, <2>2, SMTT(30)
  <2>4. \A p \in 1..(n - 1) : order'[p] = order[p]
    BY <1>2, <2>1, <2>2, SMTT(30)
  <2>5. \A p \in 1..(n - 1) : p \in 1..n
    BY <1>3
  <2> QED
    BY <2>1, <2>3, <2>4, <2>5
<1> DEFINE e == EdgeOf(k)
           c == Choice(e, taken)
<1>6. PICK slot : slot = e[c]
  OBVIOUS
<1>7. PICK v : v = Value(bitmap, e, c)
  OBVIOUS
<1>8. bitmap' = [bitmap EXCEPT ![slot] = v] /\ taken' = taken \cup Ends(k)
  <2>1. Ends(k) = {e[1], e[2], e[3]}
    BY <1>1, EdgeParts
  <2> QED
    BY <1>3, <1>4, <1>6, <1>7, <2>1 DEF Assign
<1>9. slot \notin taken /\ slot \in Ends(k) /\ slot \in BitmapSlots(Total) /\ v \in 0..2
  <2>1. c \in 1..3 /\ e[c] \notin taken /\ v \in 0..2
    BY <1>1, <1>3, <1>4, <1>7, ChosenFree
  <2>2. e[c] \in Ends(k) /\ e[c] \in BitmapSlots(Total)
    <3> HIDE DEF c
    <3>1. c = 1 \/ c = 2 \/ c = 3
      BY <2>1
    <3> QED
      BY <1>1, <3>1, EdgeParts
  <2> QED
    BY <1>6, <2>1, <2>2
<1>10. Selected(bitmap', e) = slot
  BY <1>1, <1>3, <1>4, <1>6, <1>7, <1>8, ChosenFree
<1>11. /\ bitmap \in [BitmapSlots(Total) -> 0..3] /\ bitmap' \in [BitmapSlots(Total) -> 0..3]
       /\ bitmap'[slot] = v /\ v # 3
       /\ \A s \in BitmapSlots(Total) : s # slot => bitmap'[s] = bitmap[s]
  <2>1. bitmap \in [BitmapSlots(Total) -> 0..3]
    BY <1>1 DEF TypesInv
  <2>2. v \in 0..3 /\ v # 3
    BY <1>9
  <2> QED
    BY <1>8, <1>9, <2>1, <2>2
<1> HIDE DEF c
<1>12. k \notin Assigned /\ Assigned \subseteq 1..Total /\ Assigned' = Assigned \cup {k}
  <2>1. n \in 1..Len(order) /\ n \notin 1..(n - 1)
    BY <1>3
  <2>2. k \notin Assigned
    BY <1>4, <2>1 DEF Assigned
  <2>3. \A p \in 1..(n - 1) : order'[p] # k
    BY <1>1, <1>3, <1>4, <1>5, <2>1 DEF OrderInv
  <2>4. \A i \in Assigned : \A p \in 1..(n - 1) : order'[p] # i
    BY <1>3, <1>5 DEF Assigned
  <2>5. \A i \in 1..Total : (\A p \in 1..(n - 1) : order'[p] # i) /\ i # k => i \in Assigned
    <3>1. \A p \in 1..Len(order) : p = n \/ p \in 1..(n - 1)
      BY <1>3
    <3> QED
      BY <1>4, <1>5, <3>1 DEF Assigned
  <2>6. Assigned' = {i \in 1..Total : \A p \in 1..(n - 1) : order'[p] # i}
    BY <1>1, <1>5 DEF Assigned
  <2> QED
    BY <2>2, <2>3, <2>4, <2>5, <2>6 DEF Assigned
<1>13. \A i : EdgeOf(i)' = EdgeOf(i) /\ Ends(i)' = Ends(i)
  BY <1>1 DEF EdgeOf, Ends, Peeling!Ends
<1>14. taken = UNION {Ends(i) : i \in Assigned}
  BY <1>1 DEF AssignInv
<1>15. ASSUME NEW i \in Assigned
       PROVE  /\ Selected(bitmap', EdgeOf(i)) = Selected(bitmap, EdgeOf(i))
              /\ Selected(bitmap, EdgeOf(i)) # slot
  <2>1. i \in 1..Total /\ Ends(i) \subseteq taken
    BY <1>12, <1>14
  <2>2. \A s \in Ends(i) : s \in BitmapSlots(Total)
    BY <1>1, <2>1, EdgeParts
  <2>3. \A s \in Ends(i) : bitmap'[s] = bitmap[s]
    BY <1>9, <1>11, <2>1, <2>2
  <2>4. Selected(bitmap, EdgeOf(i)) \in Ends(i)
    BY <1>1, <1>11, <2>1, SelectedIsEnd
  <2> QED
    BY <1>1, <1>9, <2>1, <2>3, <2>4, SelectedSame
<1>16. OwnSlots'
  <2>1. /\ \A i, j \in Assigned : i # j =>
             Selected(bitmap, EdgeOf(i)) # Selected(bitmap, EdgeOf(j))
        /\ {s \in BitmapSlots(Total) : bitmap[s] # 3} = {Selected(bitmap, EdgeOf(i)) : i \in Assigned}
    BY <1>1 DEF AssignInv, OwnSlots
  <2>2. \A i, j \in Assigned' : i # j =>
          Selected(bitmap', EdgeOf(i)) # Selected(bitmap', EdgeOf(j))
    BY <1>10, <1>12, <1>15, <2>1
  <2>3. {s \in BitmapSlots(Total) : bitmap'[s] # 3}
          = {s \in BitmapSlots(Total) : bitmap[s] # 3} \cup {slot}
    BY <1>9, <1>11
  <2>4. {Selected(bitmap', EdgeOf(i)) : i \in Assigned'}
          = {Selected(bitmap, EdgeOf(i)) : i \in Assigned} \cup {slot}
    BY <1>10, <1>12, <1>15
  <2>5. BitmapSlots(Total)' = BitmapSlots(Total)
    BY <1>1 DEF BitmapSlots, Blocks
  <2>6. \A i : Selected(bitmap, EdgeOf(i))' = Selected(bitmap', EdgeOf(i))
    BY <1>13 DEF Selected, Sum
  <2>7. {s \in BitmapSlots(Total)' : bitmap'[s] # 3} = {Selected(bitmap', EdgeOf(i)) : i \in Assigned'}
    BY <2>1, <2>3, <2>4, <2>5
  <2> QED
    BY <2>2, <2>6, <2>7 DEF OwnSlots
<1>17. taken' = UNION {Ends(i)' : i \in Assigned'}
  BY <1>8, <1>12, <1>13, <1>14
<1>18. AssignInv'
  BY <1>1, <1>16, <1>17 DEF AssignInv
<1>19. TypesInv'
  <2>1. PICK s \in Nat : s = 3 * Section(Total)
    BY <1>1, TotalFacts
  <2>2. Ends(k) \subseteq 0..(s - 1)
    BY <1>1, <2>1, EdgeParts
  <2>3. taken' \subseteq 0..(3 * Section(Total) - 1)
    BY <1>1, <1>8, <2>1, <2>2 DEF TypesInv, TypeOK
  <2> QED
    BY <1>1, <1>5, <1>11, <2>3 DEF TypesInv, TypeOK, Seeded, Filling
<1>20. OrderInv'
  <2>1. \A p, q \in 1..(n - 1) : order'[p] = order'[q] => p = q
    BY <1>1, <1>3, <1>5 DEF OrderInv
  <2>2. ASSUME NEW p \in 1..(n - 1)
        PROVE  \E s \in Ends(order'[p]) : \A i \in 1..Total : NotUpTo(p, i)' => s \notin Ends(i)
    <3>1. PICK s \in Ends(order[p]) : \A i \in 1..Total : NotUpTo(p, i) => s \notin Ends(i)
      BY <1>1, <1>3, <1>5 DEF OrderInv
    <3>2. \A q \in 1..p : q \in 1..(n - 1)
      BY <1>3
    <3>3. \A i \in 1..Total : NotUpTo(p, i)' => NotUpTo(p, i)
      BY <1>5, <3>2 DEF NotUpTo
    <3> QED
      BY <1>5, <3>1, <3>3
  <2>3. \A p \in 1..(n - 1) : Ends(order[p])' = Ends(order'[p])
    BY <1>1 DEF Ends, Peeling!Ends, EdgeOf
  <2> QED
    BY <1>1, <1>5, <1>13, <2>1, <2>2, <2>3 DEF OrderInv
<1>21. DistinctInv'
  BY <1>1 DEF DistinctInv
<1> QED
  BY <1>1, <1>18, <1>19, <1>20, <1>21 DEF IInv, TableInv
-----------------------------------------------------------------------------
(***************************************************************************)
(* Finishing the index.                                                    *)
(***************************************************************************)

\* The table is made from the finished bitmap.
LEMMA BuildTableInv == IInv /\ BuildTable => IInv'
<1> SUFFICES ASSUME IInv, BuildTable PROVE IInv'
  OBVIOUS
<1>1. /\ pc = "assign" /\ pc' = "table" /\ order = <<>> /\ Total' = Total /\ Total > 1
      /\ keys' = keys /\ hash' = hash /\ order' = order /\ bitmap' = bitmap /\ tries' = tries
      /\ remaining' = remaining /\ taken' = taken
      /\ table' = IF TableRange(Total) = 0 THEN <<>> ELSE TableOf(bitmap)
      /\ TypesInv /\ AssignInv /\ DistinctInv /\ Seeded /\ Filling
  BY DEF BuildTable, IInv, TypesInv, Seeded, Filling, Total
<1>2. TypesInv'
  BY <1>1 DEF TypesInv, TypeOK, Seeded, Filling
<1>3. OwnSlots'
  BY <1>1, OwnSlotsSame DEF AssignInv
<1>4. TableOf(bitmap)' = TableOf(bitmap)
  BY <1>1 DEF TableOf, InUse
<1>5. AssignInv' /\ DistinctInv'
  BY <1>1, <1>3 DEF AssignInv, DistinctInv
<1>6. TableInv'
  BY <1>1, <1>4 DEF TableInv
<1> QED
  BY <1>1, <1>2, <1>5, <1>6 DEF IInv, OrderInv

\* Arranging the entries reads the index and does not change it.
LEMMA ArrangeInv == IInv /\ Arrange => IInv'
<1> SUFFICES ASSUME IInv, Arrange PROVE IInv'
  OBVIOUS
<1>1. /\ pc = "table" /\ pc' = "built" /\ Total' = Total /\ Total > 1 /\ store' = Arranged
      /\ keys' = keys /\ hash' = hash /\ order' = order /\ bitmap' = bitmap /\ tries' = tries
      /\ remaining' = remaining /\ taken' = taken /\ table' = table
      /\ TypesInv /\ AssignInv /\ DistinctInv /\ TableInv /\ Seeded /\ Filling
  BY DEF Arrange, IInv, TypesInv, Seeded, Filling, Total
<1>2. TypesInv'
  BY <1>1 DEF TypesInv, TypeOK, Seeded, Filling
<1>3. OwnSlots'
  BY <1>1, OwnSlotsSame DEF AssignInv
<1>4. TableOf(bitmap)' = TableOf(bitmap)
  BY <1>1 DEF TableOf, InUse
<1>5. Arranged' = Arranged
  <2>1. keys' = keys /\ hash' = hash /\ bitmap' = bitmap /\ table' = table
    BY <1>1
  <2> QED
    BY <2>1 DEF Arranged, Rank, InUse, Selected, Sum, EdgeOf, Total
<1>6. AssignInv' /\ DistinctInv'
  BY <1>1, <1>3 DEF AssignInv, DistinctInv
<1>7. TableInv'
  BY <1>1, <1>4, <1>5 DEF TableInv
<1> QED
  BY <1>1, <1>2, <1>6, <1>7 DEF IInv, OrderInv

\* Every step preserves the invariant.
LEMMA NextInv == IInv /\ [Next]_vars => IInv'
BY TrivialInv, RefusedInv, TrySeedInv, PeelOneInv, StuckInv, PeeledInv, AssignStepInv,
   BuildTableInv, ArrangeInv, StutterInv DEF Next

(***************************************************************************)
(* What is promised of the order, of the slots, of the table and of the    *)
(* arranged entries holds in every state of every build.                   *)
(***************************************************************************)
THEOREM IndexInvariant == Spec => []IInv
<1> QED
  BY InitInv, NextInv, PTL DEF Spec
-----------------------------------------------------------------------------
(***************************************************************************)
(* Ranks: with its table, a finished index counts all the slots in use     *)
(* before a slot, and so gives each selected slot a number of its own.     *)
(***************************************************************************)
Used == {s \in BitmapSlots(Total) : bitmap[s] # 3}

Before(slot) == {s \in Used : s < slot}

Finished == Filling /\ pc # "assign"

\* Every key is assigned, and there are as many slots in use as keys at most.
LEMMA FinishedFacts ==
  ASSUME IInv, Finished
  PROVE  /\ Assigned = 1..Total /\ Total > 1 /\ Total \in Nat
         /\ \A i, j \in 1..Total : i # j =>
              Selected(bitmap, EdgeOf(i)) # Selected(bitmap, EdgeOf(j))
         /\ Used = {Selected(bitmap, EdgeOf(i)) : i \in 1..Total}
         /\ IsFiniteSet(Used) /\ Cardinality(Used) \in Nat /\ Cardinality(Used) <= Total
         /\ Used \subseteq BitmapSlots(Total) /\ Used \subseteq Nat
<1>1. order = <<>> /\ OwnSlots /\ TypesInv /\ Total > 1
  BY DEF IInv, AssignInv, Finished, Filling, Seeded
<1>2. Total \in Nat /\ BitmapSlots(Total) \subseteq Nat
  BY <1>1, TotalFacts
<1>3. Assigned = 1..Total
  <2>1. Len(order) = 0
    BY <1>1
  <2> QED
    BY <2>1 DEF Assigned
<1>4. /\ \A i, j \in 1..Total : i # j =>
           Selected(bitmap, EdgeOf(i)) # Selected(bitmap, EdgeOf(j))
      /\ Used = {Selected(bitmap, EdgeOf(i)) : i \in 1..Total}
  BY <1>1, <1>3 DEF OwnSlots, Used
<1>5. IsFiniteSet(1..Total) /\ Cardinality(1..Total) = Total
  BY <1>1, <1>2, FS_Interval
<1>6. IsFiniteSet(Used) /\ Cardinality(Used) <= Total
  <2> DEFINE f == [i \in 1..Total |-> Selected(bitmap, EdgeOf(i))]
  <2>1. f \in Surjection(1..Total, Used)
    BY <1>4 DEF Surjection
  <2> QED
    BY <1>5, <2>1, FS_Surjection
<1>7. Cardinality(Used) \in Nat
  BY <1>6, FS_CardinalityType
<1>8. Used \subseteq BitmapSlots(Total) /\ Used \subseteq Nat
  BY <1>2 DEF Used
<1> QED
  BY <1>1, <1>2, <1>3, <1>4, <1>6, <1>7, <1>8

\* Counts of slots in use before a slot.
LEMMA BeforeFacts ==
  ASSUME IInv, Finished, NEW slot \in Nat
  PROVE  /\ IsFiniteSet(Before(slot)) /\ Cardinality(Before(slot)) \in Nat
         /\ Cardinality(Before(slot)) <= Total
         /\ slot \in Used => Cardinality(Before(slot)) < Total
<1>1. IsFiniteSet(Used) /\ Cardinality(Used) \in Nat /\ Cardinality(Used) <= Total /\ Total \in Nat
  BY FinishedFacts
<1>2. Before(slot) \in SUBSET Used /\ slot \notin Before(slot)
  BY DEF Before
<1>3. IsFiniteSet(Before(slot)) /\ Cardinality(Before(slot)) <= Cardinality(Used)
      /\ (Cardinality(Used) = Cardinality(Before(slot)) => Used = Before(slot))
  BY <1>1, <1>2, FS_Subset
<1>4. Cardinality(Before(slot)) \in Nat
  BY <1>3, FS_CardinalityType
<1> QED
  BY <1>1, <1>2, <1>3, <1>4

\* Slots in use have different counts before them.
LEMMA BeforeDiffers ==
  ASSUME IInv, Finished, NEW s \in Used, NEW t \in Used, s # t
  PROVE  Cardinality(Before(s)) # Cardinality(Before(t))
<1>1. \A x, y \in Used : x < y => Cardinality(Before(x)) # Cardinality(Before(y))
  <2> SUFFICES ASSUME NEW x \in Used, NEW y \in Used, x < y
               PROVE  Cardinality(Before(x)) # Cardinality(Before(y))
    OBVIOUS
  <2>1. x \in Nat /\ y \in Nat
    BY FinishedFacts
  <2>2. IsFiniteSet(Before(y))
    BY <2>1, BeforeFacts
  <2>3. Before(x) \in SUBSET Before(y) /\ x \in Before(y) /\ x \notin Before(x)
    <3>1. \A z \in Used : z < x => z < y
      <4>1. \A z \in Nat : z < x => z < y
        BY <2>1
      <4> QED
        BY <4>1, FinishedFacts
    <3>2. x < y /\ ~(x < x)
      BY <2>1
    <3> QED
      BY <3>1, <3>2 DEF Before
  <2> QED
    BY <2>2, <2>3, FS_Subset
<1>2. s \in Nat /\ t \in Nat
  BY FinishedFacts
<1>3. s < t \/ t < s
  BY <1>2
<1> QED
  BY <1>1, <1>3

\* A count over a range is a difference of counts from the first slot on.
LEMMA InUseRange ==
  ASSUME IInv, Finished, NEW a \in Nat, NEW z \in Nat, a <= z,
         0..(z - 1) \subseteq BitmapSlots(Total)
  PROVE  /\ InUse(bitmap, a, z - 1) \in Nat
         /\ Cardinality(Before(z)) = Cardinality(Before(a)) + InUse(bitmap, a, z - 1)
<1> DEFINE mid == {s \in a..(z - 1) : bitmap[s] # 3}
<1>1. \A s \in Used : s \in Nat /\ s \in BitmapSlots(Total) /\ bitmap[s] # 3
  BY FinishedFacts DEF Used
<1>2. Before(z) = Before(a) \cup mid /\ Before(a) \cap mid = {}
  <2>1. \A s \in mid : s \in Used /\ s < z /\ ~(s < a)
    <3>1. \A s \in a..(z - 1) : s \in 0..(z - 1) /\ s < z /\ ~(s < a)
      OBVIOUS
    <3> QED
      BY <3>1 DEF Used
  <2>2. \A s \in Before(z) : s \in Before(a) \/ s \in mid
    <3>1. \A s \in Nat : s < z => s < a \/ s \in a..(z - 1)
      OBVIOUS
    <3> QED
      BY <1>1, <3>1 DEF Before
  <2>3. Before(a) \subseteq Before(z)
    BY <1>1 DEF Before
  <2>4. mid \subseteq Before(z)
    BY <2>1 DEF Before
  <2>5. Before(a) \cap mid = {}
    BY <2>1 DEF Before
  <2> HIDE DEF mid
  <2> QED
    BY <2>2, <2>3, <2>4, <2>5
<1>3. IsFiniteSet(Before(a)) /\ IsFiniteSet(Before(z)) /\ Cardinality(Before(a)) \in Nat
  BY BeforeFacts
<1> HIDE DEF mid
<1>4. IsFiniteSet(mid) /\ Cardinality(mid) \in Nat
  BY <1>2, <1>3, FS_Subset, FS_CardinalityType
<1>5. Cardinality(Before(z)) = Cardinality(Before(a)) + Cardinality(mid) - Cardinality({})
  BY <1>2, <1>3, <1>4, FS_Union
<1>6. Cardinality(Before(z)) = Cardinality(Before(a)) + Cardinality(mid)
  BY <1>3, <1>4, <1>5, FS_EmptySet
<1> QED
  BY <1>4, <1>6 DEF mid, InUse
\* A slot's rank is the number of slots in use before it: the table's entry,
\* in whose width the number fits, and the count within the block.
LEMMA RankCounts ==
  ASSUME IInv, Finished, NEW slot \in BitmapSlots(Total)
  PROVE  Rank(slot) = Cardinality(Before(slot))
<1>1. /\ TypesInv /\ Total \in Nat /\ Total \in Totals /\ Blocks(Total) \in Nat
      /\ Section(Total) \in Nat \ {0} /\ BlockSlots \in Nat \ {0}
      /\ table = IF TableRange(Total) = 0 THEN <<>> ELSE TableOf(bitmap)
  BY TotalFacts, LimitsAssumption DEF IInv, TableInv, Finished
<1>2. PICK b \in Nat \ {0} : b = BlockSlots
  BY <1>1
<1>3. PICK m \in Nat : m = Blocks(Total)
  BY <1>1
<1>4. slot \in 0..(m * b - 1) /\ BitmapSlots(Total) = 0..(m * b - 1)
  BY <1>2, <1>3 DEF BitmapSlots
<1>5. slot \in Nat /\ m * b \in Nat /\ slot < m * b
  <2>1. m * b \in Nat
    BY <1>2, <1>3
  <2> QED
    BY <1>4, <2>1
<1>6. PICK q \in Nat, r \in 0..(b - 1) : q = slot \div b /\ slot = q * b + r
  <2>1. slot \div b \in Nat /\ slot % b \in 0..(b - 1) /\ slot = b * (slot \div b) + (slot % b)
    BY <1>2, <1>5, SMTT(30)
  <2> QED
    BY <2>1
<1>7. q * b \in Nat /\ q * b <= slot
  <2>1. q * b \in Nat
    BY <1>2, <1>6
  <2> QED
    BY <1>2, <1>6, <2>1
<1>8. /\ 0..(q * b - 1) \subseteq BitmapSlots(Total)
      /\ 0..(slot - 1) \subseteq BitmapSlots(Total)
  <2>1. PICK x \in Nat : x = m * b
    BY <1>5
  <2>2. PICK y \in Nat : y = q * b
    BY <1>7
  <2>3. 0..(y - 1) \subseteq 0..(x - 1) /\ 0..(slot - 1) \subseteq 0..(x - 1)
    BY <1>5, <1>7, <2>1, <2>2
  <2> QED
    BY <1>4, <2>1, <2>2, <2>3
<1>9. q < m
  <2>1. SUFFICES ASSUME m <= q PROVE FALSE
    BY <1>3, <1>6
  <2>2. m * b <= q * b
    BY <1>2, <1>3, <1>6, <2>1, SMTT(30)
  <2>3. PICK x \in Nat : x = m * b
    BY <1>5
  <2>4. PICK y \in Nat : y = q * b
    BY <1>7
  <2> QED
    BY <1>5, <1>7, <2>2, <2>3, <2>4
<1>10. Cardinality(Before(0)) = 0
  <2>1. Before(0) = {}
    <3>1. \A s \in Nat : ~(s < 0)
      OBVIOUS
    <3> QED
      BY <3>1, FinishedFacts DEF Before
  <2> QED
    BY <2>1, FS_EmptySet
<1> DEFINE first  == IF table = <<>> THEN 0 ELSE table[q]
           second == IF slot = 0 THEN 0 ELSE InUse(bitmap, q * b, slot - 1)
<1>11. Rank(slot) = first + second
  BY <1>2, <1>6 DEF Rank
<1>12. second \in Nat /\ Cardinality(Before(slot)) = Cardinality(Before(q * b)) + second
  <2>1. CASE slot # 0
    BY <1>5, <1>7, <1>8, <2>1, InUseRange
  <2>2. CASE slot = 0
    <3>1. q * b = 0
      <4>1. PICK y \in Nat : y = q * b
        BY <1>7
      <4> QED
        BY <1>7, <2>2, <4>1
    <3> QED
      BY <1>10, <2>2, <3>1
  <2> QED
    BY <2>1, <2>2
<1>13. first = Cardinality(Before(q * b))
  <2>1. CASE TableRange(Total) = 0
    <3>1. 3 * Section(Total) <= b
      BY <1>1, <1>2, <2>1, TableAssumption
    <3>2. m <= 1
      <4>1. PICK n \in Nat : n = 3 * Section(Total) /\ n <= b
        BY <1>1, <3>1
      <4>2. m = (n + b - 1) \div b
        BY <1>2, <1>3, <4>1 DEF Blocks
      <4>3. n + b - 1 < 2 * b
        BY <1>2, <4>1
      <4>4. m * b <= n + b - 1
        BY <1>2, <4>1, <4>2, SMTT(30)
      <4> QED
        BY <1>2, <1>3, <4>1, <4>3, <4>4, SMTT(30)
    <3>3. q = 0 /\ q * b = 0
      BY <1>2, <1>3, <1>6, <1>9, <3>2
    <3> QED
      BY <1>1, <1>10, <2>1, <3>3
  <2>2. CASE TableRange(Total) # 0
    <3>1. TableRange(Total) \in Nat /\ Total < TableRange(Total)
      BY <1>1, <2>2, TableAssumption
    <3>2. q \in 0..(Blocks(Total) - 1)
      BY <1>3, <1>6, <1>9
    <3>3. table # <<>> /\ table[q] = TableOf(bitmap)[q]
      <4>1. DOMAIN TableOf(bitmap) = 0..(Blocks(Total) - 1)
        BY DEF TableOf
      <4>2. TableOf(bitmap) # <<>>
        <5>1. q \in DOMAIN TableOf(bitmap)
          BY <3>2, <4>1
        <5>2. DOMAIN <<>> = {}
          OBVIOUS
        <5> QED
          BY <5>1, <5>2
      <4> QED
        BY <1>1, <2>2, <4>2
    <3> DEFINE n == IF q = 0 THEN 0 ELSE InUse(bitmap, 0, q * b - 1)
    <3>4. TableOf(bitmap)[q] = n % TableRange(Total)
      BY <1>2, <3>2 DEF TableOf
    <3>5. n = Cardinality(Before(q * b))
      <4>1. CASE q = 0
        <5>1. q * b = 0
          BY <1>2, <4>1
        <5> QED
          BY <1>10, <4>1, <5>1
      <4>2. CASE q # 0
        <5>1. InUse(bitmap, 0, q * b - 1) \in Nat
              /\ Cardinality(Before(q * b)) = Cardinality(Before(0)) + InUse(bitmap, 0, q * b - 1)
          BY <1>7, <1>8, InUseRange
        <5> QED
          BY <1>10, <4>2, <5>1
      <4> QED
        BY <4>1, <4>2
    <3>6. n \in Nat /\ n <= Total
      BY <1>7, <3>5, BeforeFacts
    <3> HIDE DEF n
    <3>7. n % TableRange(Total) = n
      BY <1>1, <3>1, <3>6, SMTT(30)
    <3> QED
      BY <3>3, <3>4, <3>5, <3>7
  <2> QED
    BY <2>1, <2>2
<1> QED
  BY <1>11, <1>12, <1>13
\* Every key has a position of its own.
LEMMA Positions ==
  ASSUME IInv, Finished
  PROVE  /\ \A i \in 1..Total : Rank(Selected(bitmap, EdgeOf(i))) \in 0..(Total - 1)
         /\ \A i, j \in 1..Total : i # j =>
              Rank(Selected(bitmap, EdgeOf(i))) # Rank(Selected(bitmap, EdgeOf(j)))
<1> DEFINE slot(i) == Selected(bitmap, EdgeOf(i))
<1>1. \A i \in 1..Total : slot(i) \in Used /\ slot(i) \in BitmapSlots(Total) /\ slot(i) \in Nat
  BY FinishedFacts
<1>2. \A i, j \in 1..Total : i # j => slot(i) # slot(j)
  BY FinishedFacts
<1>3. Total \in Nat
  BY FinishedFacts
<1> HIDE DEF slot
<1>4. ASSUME NEW i \in 1..Total PROVE Rank(slot(i)) \in 0..(Total - 1)
  <2>1. Rank(slot(i)) = Cardinality(Before(slot(i)))
    BY <1>1, RankCounts
  <2>2. Cardinality(Before(slot(i))) \in Nat /\ Cardinality(Before(slot(i))) < Total
    BY <1>1, BeforeFacts
  <2> QED
    BY <1>3, <2>1, <2>2
<1>5. ASSUME NEW i \in 1..Total, NEW j \in 1..Total, i # j
      PROVE  Rank(slot(i)) # Rank(slot(j))
  <2>1. Rank(slot(i)) = Cardinality(Before(slot(i))) /\ Rank(slot(j)) = Cardinality(Before(slot(j)))
    BY <1>1, RankCounts
  <2> QED
    BY <1>1, <1>2, <1>5, <2>1, BeforeDiffers
<1> QED
  BY <1>4, <1>5 DEF slot

\* Every position holds a key, and each key's position holds that key.
LEMMA StoreFacts ==
  ASSUME IInv, Finished, pc = "built"
  PROVE  /\ DOMAIN store = 0..(Total - 1)
         /\ \A i \in 1..Total : store[Rank(Selected(bitmap, EdgeOf(i)))] = keys[i]
         /\ \A p \in DOMAIN store : \E i \in 1..Total : store[p] = keys[i]
<1> DEFINE position(i) == Rank(Selected(bitmap, EdgeOf(i)))
           last(p)     == CHOOSE i \in 1..Total :
                            position(i) = p /\ \A j \in 1..Total : position(j) = p => j <= i
           key(p)      == IF \E i \in 1..Total : position(i) = p THEN keys[last(p)] ELSE keys[1]
<1>1. /\ \A i \in 1..Total : position(i) \in 0..(Total - 1)
      /\ \A i, j \in 1..Total : i # j => position(i) # position(j)
  BY Positions
<1>2. Total \in Nat /\ Total > 1
  BY FinishedFacts
<1>3. store = [p \in 0..(Total - 1) |-> key(p)]
  BY <1>2 DEF IInv, TableInv, Arranged
<1> HIDE DEF position
<1>4. ASSUME NEW i \in 1..Total PROVE last(position(i)) = i
  <2>1. \A j \in 1..Total : position(j) = position(i) => j <= i
    BY <1>1, <1>2, <1>4
  <2>2. /\ last(position(i)) \in 1..Total
        /\ position(last(position(i))) = position(i)
    BY <1>4, <2>1
  <2> QED
    BY <1>1, <1>4, <2>2
<1> HIDE DEF last
<1>5. \A i \in 1..Total : store[position(i)] = keys[i]
  BY <1>1, <1>3, <1>4
<1>6. ASSUME NEW p \in 0..(Total - 1) PROVE \E i \in 1..Total : store[p] = keys[i]
  <2>1. CASE \E i \in 1..Total : position(i) = p
    BY <1>5, <2>1
  <2>2. CASE ~ \E i \in 1..Total : position(i) = p
    <3>1. store[p] = keys[1] /\ 1 \in 1..Total
      BY <1>2, <1>3, <1>6, <2>2
    <3> QED
      BY <3>1
  <2> QED
    BY <2>1, <2>2
<1>7. DOMAIN store = 0..(Total - 1)
  BY <1>3
<1> QED
  BY <1>5, <1>6, <1>7 DEF position

\* The invariant makes lookups right.
LEMMA InvFinds == IInv => FindsExactly
<1> SUFFICES ASSUME IInv, pc = "built" PROVE FindsExactly
  BY DEF FindsExactly
<1>1. Total \in Nat
  BY TotalFacts DEF IInv
<1>2. CASE Total > 1
  <2>1. Finished
    BY <1>2 DEF Finished, Filling, Seeded
  <2> DEFINE position(e) == Rank(Selected(bitmap, e))
  <2>2. /\ DOMAIN store = 0..(Total - 1)
        /\ \A i \in 1..Total : store[position(EdgeOf(i))] = keys[i]
        /\ \A p \in DOMAIN store : \E i \in 1..Total : store[p] = keys[i]
    BY <2>1, StoreFacts
  <2>3. \A i \in 1..Total : position(EdgeOf(i)) \in DOMAIN store
    BY <2>1, <2>2, Positions
  <2>4. \A e : Locate(e) = {position(e)}
    <3>1. ~(Total = 0) /\ ~(Total = 1)
      BY <1>2
    <3> QED
      BY <1>2, <3>1 DEF Locate
  <2> HIDE DEF position
  <2>5. \A i \in 1..Total : \E p \in DOMAIN store :
          store[p] = keys[i] /\ Find(keys[i], EdgeOf(i)) = {p}
    BY <2>2, <2>3, <2>4 DEF Find
  <2>6. \A e \in Triples(Section(Total)), key \in Key :
          (\A i \in 1..Total : keys[i] # key) => Find(key, e) = {}
    BY <2>2 DEF Find
  <2> QED
    BY <2>2, <2>5, <2>6 DEF FindsExactly
<1>3. CASE Total = 1
  <2>1. 1..Total = {1} /\ 0..(Total - 1) = {0} /\ ~(Total > 1)
    BY <1>3
  <2>2. DOMAIN store = {0} /\ store[0] = keys[1]
    BY <2>1 DEF IInv, TableInv
  <2>3. \A e : Locate(e) = {0}
    BY <1>3, <2>1 DEF Locate
  <2>4. \A key, e : Find(key, e) = {p \in {0} : p \in {0} /\ store[p] = key}
    BY <2>2, <2>3 DEF Find
  <2> QED
    BY <2>1, <2>2, <2>4 DEF FindsExactly
<1>4. CASE Total = 0
  <2>1. 1..Total = {} /\ 0..(Total - 1) = {} /\ ~(Total > 1)
    BY <1>4
  <2>2. DOMAIN store = {}
    BY <2>1 DEF IInv, TableInv
  <2>3. \A key, e : Find(key, e) = {}
    BY <2>2 DEF Find
  <2> QED
    BY <2>1, <2>2, <2>3 DEF FindsExactly
<1> QED
  BY <1>1, <1>2, <1>3, <1>4
-----------------------------------------------------------------------------
(***************************************************************************)
(* The properties of PerfectHash, for every hash function, every list of   *)
(* keys and every size of sections, blocks and table entries.              *)
(***************************************************************************)

\* The variables of build_perfect_hash_index keep their types.
THEOREM IndexTypes == Spec => []TypeOK
<1>1. IInv => TypeOK
  BY DEF IInv, TypesInv
<1> QED
  BY <1>1, IndexInvariant, PTL

\* An edge assigned keeps selecting its slot, and no two select the same.
THEOREM SlotsAreOwn == Spec => []SelectsOwnSlot
<1>1. IInv => SelectsOwnSlot
  BY DEF IInv, TypesInv, AssignInv, OwnSlots, SelectsOwnSlot, Filling, Seeded
<1> QED
  BY <1>1, IndexInvariant, PTL

\* No index is built for a list with two equal keys.
THEOREM EqualKeysAreRefused == Spec => []DuplicatesRefused
<1>1. IInv => DuplicatesRefused
  <2> SUFFICES ASSUME IInv, pc \in {"assign", "table", "built"}, NEW i \in 1..Total, NEW j \in 1..Total,
                      keys[i] = keys[j]
               PROVE  i = j
    BY DEF DuplicatesRefused
  <2>1. CASE Total > 1
    BY <2>1 DEF IInv, DistinctInv, Filling, Seeded
  <2>2. CASE ~(Total > 1)
    <3>1. Total \in Nat
      BY TotalFacts DEF IInv
    <3> QED
      BY <2>2, <3>1
  <2> QED
    BY <2>1, <2>2
<1> QED
  BY <1>1, IndexInvariant, PTL

\* Lookups in a finished index find the keys that are there, each at a
\* position of its own, and no others.
THEOREM LookupsAreExact == Spec => []FindsExactly
<1> QED
  BY InvFinds, IndexInvariant, PTL
=============================================================================
