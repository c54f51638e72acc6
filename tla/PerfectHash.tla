----------------------------- MODULE PerfectHash -----------------------------
(***************************************************************************)
(* The perfect-hash index of a map: how it is built                        *)
(* (build_perfect_hash_index_with_positions of serialize.rs), how the      *)
(* entries are arranged by it (MutableMap::encode_to_unit) and how a key   *)
(* is found with it (PerfectHashView of perfect_hash.rs, MapView).          *)
(*                                                                         *)
(* A seed makes each key an edge between three slots, one in each section  *)
(* of the bitmap.  If the graph can be peeled (PeelSpec), going through    *)
(* the edges backwards gives every edge a slot of its own, chosen by the   *)
(* sum of the two-bit values of its three slots.  A key's position is the  *)
(* number of slots in use before its own: counted within its block, plus a *)
(* table entry for the blocks before.                                      *)
(*                                                                         *)
(* The hash function is abstract: each seed may give each key any edge.    *)
(* Slots are numbered from 0, keys and edges from 1.                       *)
(***************************************************************************)
EXTENDS Naturals, Sequences, FiniteSets

CONSTANTS
  Key,             \* keys, as bytes
  KeyLists,        \* sequences of keys that an index is built for
  Section(_),      \* slots per section for a number of keys
  BlockSlots,      \* slots per bitmap block: 32
  TableRange(_),   \* numbers a table entry can hold: 256, 2^16 or 2^32 for a
                   \* number of keys; 0 when there is no table
  MaxKeys,         \* number of keys that is refused: 2^28
  MaxSeeds         \* seeds tried: 40

Totals == {Len(ks) : ks \in KeyLists}

Triples(s) == (0..s - 1) \X (s..2 * s - 1) \X (2 * s..3 * s - 1)

ASSUME KeyListsAssumption == KeyLists \subseteq Seq(Key)
ASSUME LimitsAssumption == MaxKeys \in Nat /\ MaxSeeds \in Nat /\ BlockSlots \in Nat \ {0}
ASSUME SectionAssumption == \A n \in Totals : Section(n) \in Nat \ {0}
ASSUME TableAssumption ==
  \A n \in Totals : /\ TableRange(n) \in Nat
                    /\ TableRange(n) # 0 => n < TableRange(n)
                    /\ TableRange(n) = 0 => 3 * Section(n) <= BlockSlots

VARIABLES
  keys,       \* the keys to index
  pc,         \* "seed", "peel", "assign", "table", then "built" or "refused"
  tries,      \* seeds tried
  hash,       \* edge of each key under the current seed
  remaining,  \* peel: keys (by number) whose edges are left
  order,      \* edges in the order they were peeled; assign: those to be assigned
  bitmap,     \* two-bit value of each slot
  taken,      \* slots no edge may choose any more
  table,      \* slots in use before each block
  store       \* the entry's key at each position, once arranged

vars == <<keys, pc, tries, hash, remaining, order, bitmap, taken, table, store>>

Total == Len(keys)

EdgeOf(i) == hash[keys[i]]

EdgesOf(ks, h) == [i \in 1..Len(ks) |-> h[ks[i]]]

Peeling == INSTANCE PeelSpec WITH
  Slot    <- Nat,
  Graphs  <- Seq(Nat \X Nat \X Nat),
  edges   <- EdgesOf(keys, hash),
  outcome <- IF pc = "peel" THEN "peeling" ELSE pc

\* perfect_hash_layout: slots are padded to whole blocks.
Blocks(n) == (3 * Section(n) + BlockSlots - 1) \div BlockSlots

BitmapSlots(n) == 0..Blocks(n) * BlockSlots - 1

EmptyBitmap == [s \in BitmapSlots(Total) |-> 3]

Init ==
  /\ keys \in KeyLists
  /\ pc = "seed"
  /\ tries = 0
  /\ hash = <<>> /\ remaining = {} /\ order = <<>>
  /\ bitmap = <<>> /\ taken = {} /\ table = <<>> /\ store = <<>>

\* An index for no key or one holds nothing but the number.
Trivial ==
  /\ pc = "seed"
  /\ Total < MaxKeys /\ Total <= 1
  /\ pc' = "built"
  /\ store' = [p \in {0 : i \in 1..Total} |-> keys[1]]
  /\ UNCHANGED <<keys, tries, hash, remaining, order, bitmap, taken, table>>

TooMany ==
  /\ pc = "seed"
  /\ Total >= MaxKeys
  /\ pc' = "refused"
  /\ UNCHANGED <<keys, tries, hash, remaining, order, bitmap, taken, table, store>>

TrySeed ==
  /\ pc = "seed"
  /\ Total > 1 /\ Total < MaxKeys
  /\ tries < MaxSeeds
  /\ tries' = tries + 1
  /\ hash' \in [{keys[i] : i \in 1..Total} -> Triples(Section(Total))]
  /\ remaining' = 1..Total
  /\ order' = <<>>
  /\ pc' = "peel"
  /\ UNCHANGED <<keys, bitmap, taken, table, store>>

GiveUp ==
  /\ pc = "seed"
  /\ Total > 1 /\ Total < MaxKeys
  /\ tries = MaxSeeds
  /\ pc' = "refused"
  /\ UNCHANGED <<keys, tries, hash, remaining, order, bitmap, taken, table, store>>

PeelOne(i) ==
  /\ pc = "peel"
  /\ i \in remaining
  /\ Peeling!Leaf(EdgesOf(keys, hash), remaining, i)
  /\ order' = Append(order, i)
  /\ remaining' = remaining \ {i}
  /\ UNCHANGED <<keys, pc, tries, hash, bitmap, taken, table, store>>

Stuck ==
  /\ pc = "peel" /\ remaining # {}
  /\ \A i \in remaining : ~Peeling!Leaf(EdgesOf(keys, hash), remaining, i)
  /\ pc' = "seed"
  /\ hash' = <<>> /\ remaining' = {} /\ order' = <<>>
  /\ UNCHANGED <<keys, tries, bitmap, taken, table, store>>

\* Seeded fault: a graph counts as peeled when nothing more can be peeled.
PeeledSoFar ==
  /\ pc = "peel"
  /\ \A i \in remaining : ~Peeling!Leaf(EdgesOf(keys, hash), remaining, i)
  /\ pc' = "assign"
  /\ bitmap' = EmptyBitmap
  /\ taken' = {}
  /\ UNCHANGED <<keys, tries, hash, remaining, order, table, store>>

Peeled ==
  /\ pc = "peel" /\ remaining = {}
  /\ pc' = "assign"
  /\ bitmap' = EmptyBitmap
  /\ taken' = {}
  /\ UNCHANGED <<keys, tries, hash, remaining, order, table, store>>

-----------------------------------------------------------------------------
(***************************************************************************)
(* Assigning slots, from the edge peeled last to the one peeled first.     *)
(* The value of the chosen slot makes the edge's sum select it.            *)
(***************************************************************************)
Sum(b, e) == b[e[1]] + b[e[2]] + b[e[3]]

Selected(b, e) == e[(Sum(b, e) % 3) + 1]

\* Which end of the edge to choose: the third one without another look.
Choice(e, used) == IF e[1] \notin used THEN 1 ELSE IF e[2] \notin used THEN 2 ELSE 3

Value(b, e, c) == (c + 2 - ((Sum(b, e) - b[e[c]]) % 3)) % 3

\* Seeded fault: the other two slots stay free.
AssignChosenOnly ==
  /\ pc = "assign" /\ order # <<>>
  /\ LET e == EdgeOf(order[Len(order)])
         c == Choice(e, taken)
     IN  /\ bitmap' = [bitmap EXCEPT ![e[c]] = Value(bitmap, e, c)]
         /\ taken' = taken \cup {e[c]}
  /\ order' = SubSeq(order, 1, Len(order) - 1)
  /\ UNCHANGED <<keys, pc, tries, hash, remaining, table, store>>

Assign ==
  /\ pc = "assign" /\ order # <<>>
  /\ LET e == EdgeOf(order[Len(order)])
         c == Choice(e, taken)
     IN  /\ bitmap' = [bitmap EXCEPT ![e[c]] = Value(bitmap, e, c)]
         /\ taken' = taken \cup {e[1], e[2], e[3]}
  /\ order' = SubSeq(order, 1, Len(order) - 1)
  /\ UNCHANGED <<keys, pc, tries, hash, remaining, table, store>>

\* count_valid_slots: slots in use in a range.
InUse(b, first, last) == Cardinality({s \in first..last : b[s] # 3})

\* Seeded fault: the count includes the block it is put down for.
TableAfter(b) ==
  [block \in 0..Blocks(Total) - 1 |->
     InUse(b, 0, (block + 1) * BlockSlots - 1) % TableRange(Total)]

\* The running count is put down before each block is counted, in a type of
\* the table's width.
TableOf(b) ==
  [block \in 0..Blocks(Total) - 1 |->
     (IF block = 0 THEN 0 ELSE InUse(b, 0, block * BlockSlots - 1)) % TableRange(Total)]

BuildTable ==
  /\ pc = "assign" /\ order = <<>>
  /\ table' = IF TableRange(Total) = 0 THEN <<>> ELSE TableOf(bitmap)
  /\ pc' = "table"
  /\ UNCHANGED <<keys, tries, hash, remaining, order, bitmap, taken, store>>

-----------------------------------------------------------------------------
(***************************************************************************)
(* Finding a position.                                                     *)
(***************************************************************************)

\* read_offset and count_valid_slot with the slots from `slot` on masked out.
Rank(slot) ==
  LET block == slot \div BlockSlots
  IN  (IF table = <<>> THEN 0 ELSE table[block])
        + (IF slot = 0 THEN 0 ELSE InUse(bitmap, block * BlockSlots, slot - 1))

Locate(e) ==
  CASE Total = 0 -> {}
    [] Total = 1 -> {0}
    [] Total > 1 -> {Rank(Selected(bitmap, e))}

\* encode_to_unit: the entries in the order of their positions; a position
\* that two keys share goes to the later one.
Arranged ==
  LET position(i) == Rank(Selected(bitmap, EdgeOf(i)))
      last(p)     == CHOOSE i \in 1..Total :
                       position(i) = p /\ \A j \in 1..Total : position(j) = p => j <= i
  IN  [p \in 0..Total - 1 |->
         IF \E i \in 1..Total : position(i) = p THEN keys[last(p)] ELSE keys[1]]

Arrange ==
  /\ pc = "table"
  /\ store' = Arranged
  /\ pc' = "built"
  /\ UNCHANGED <<keys, tries, hash, remaining, order, bitmap, taken, table>>

\* find_bytes, find_scalar: the candidate counts only if its key is the one
\* looked for.  `e` is the edge the looked-for key has.
Find(key, e) == {p \in Locate(e) : p \in DOMAIN store /\ store[p] = key}

Next ==
  \/ Trivial \/ TooMany \/ TrySeed \/ GiveUp
  \/ (\E i \in remaining : PeelOne(i)) \/ Stuck \/ Peeled
  \/ Assign \/ BuildTable \/ Arrange

Spec == Init /\ [][Next]_vars

-----------------------------------------------------------------------------
TypeOK ==
  /\ keys \in KeyLists
  /\ pc \in {"seed", "peel", "assign", "table", "built", "refused"}
  /\ tries \in 0..MaxSeeds
  /\ pc \in {"peel", "assign", "table"} =>
       hash \in [{keys[i] : i \in 1..Total} -> Triples(Section(Total))]
  /\ remaining \subseteq 1..Total
  /\ order \in Seq(1..Total)
  /\ pc \in {"assign", "table"} => bitmap \in [BitmapSlots(Total) -> 0..3]
  /\ taken \subseteq 0..3 * Section(Total) - 1

(***************************************************************************)
(* An assigned edge keeps selecting the slot chosen for it, whatever is    *)
(* assigned afterwards, and no two edges select the same slot; the slots   *)
(* in use are exactly the selected ones.                                   *)
(***************************************************************************)
Assigned == {i \in 1..Total : \A p \in 1..Len(order) : order[p] # i}

SelectsOwnSlot ==
  pc \in {"assign", "table"} =>
    /\ \A i, j \in Assigned : i # j =>
         Selected(bitmap, EdgeOf(i)) # Selected(bitmap, EdgeOf(j))
    /\ {s \in BitmapSlots(Total) : bitmap[s] # 3} = {Selected(bitmap, EdgeOf(i)) : i \in Assigned}

(***************************************************************************)
(* In a finished index every entry has a position of its own, so that none *)
(* is lost when they are arranged, and a lookup finds exactly the keys     *)
(* that are there, at their positions, whatever edge an absent key has.    *)
(***************************************************************************)
FindsExactly ==
  pc = "built" =>
    /\ DOMAIN store = 0..Total - 1
    /\ \A i \in 1..Total : \E p \in DOMAIN store :
         store[p] = keys[i] /\ Find(keys[i], EdgeOf(i)) = {p}
    /\ \A e \in Triples(Section(Total)), key \in Key :
         (\A i \in 1..Total : keys[i] # key) => Find(key, e) = {}

(***************************************************************************)
(* Equal keys are never indexed: the seeds are used up and the build is    *)
(* refused.                                                                *)
(***************************************************************************)
DuplicatesRefused ==
  pc \in {"assign", "table", "built"} =>
    \A i, j \in 1..Total : keys[i] = keys[j] => i = j
=============================================================================
