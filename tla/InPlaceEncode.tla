---------------------------- MODULE InPlaceEncode ----------------------------
(***************************************************************************)
(* Encoding one array or map into a shared Buffer (protocache-core         *)
(* serialize.rs), step by step.                                            *)
(*                                                                         *)
(* The caller first writes the slots' words into the buffer, or keeps      *)
(* short ones inline in a Unit, and then calls one of two encoders:        *)
(*   - "in_place" (serialize_array_at_mut, serialize_map_pairs_at_mut) is  *)
(*     used by the generated mutable messages.  Slots are written from the *)
(*     last to the first.  It PICKS the units, last first: words that fit  *)
(*     a cell are copied into the unit, the others slide towards the end   *)
(*     of the buffer over the gaps.  It then drops the space won and MARKS *)
(*     the cells in front, last first, and the header.                     *)
(*   - "copying" (serialize_array_at, serialize_map_at) is used for        *)
(*     dynamic protobuf messages, and by the first one when an inline unit *)
(*     is wider than its cell.                                             *)
(* Words before `last` belong to fields that are already encoded.          *)
(***************************************************************************)
EXTENDS ContainerLayout, Units

CONSTANTS
  Shapes,          \* shapes of the containers encoded
  Counts,          \* numbers of slots
  Contents(_, _),  \* Contents(k, kind): the words slot k may hold
  SizeLimit,       \* encoded size that is refused: 2^30 words in the code
  StartBuffers     \* buffers at the call: words already encoded, and storage
                   \* with whatever earlier use left in it

ASSUME ShapesAssumption == Shapes \subseteq {<<a>> : a \in Kinds} \cup (Kinds \X Kinds)
ASSUME CountsAssumption == Counts \subseteq Nat
ASSUME ContentsAssumption ==
  \A n \in Counts, kind \in Kinds : \A k \in 1..n :
    Contents(k, kind) \subseteq Seq(Nat) \ {<<>>}
\* A scalar takes one word, or two when it is wide.  No object that is short
\* enough for a cell begins with a word that reads as an offset: the two low
\* bits are 0 in a string, a message with three (or seven ...) sections and an
\* array with cells of three words are longer, and so is a map of three pairs.
ASSUME ValuesAssumption ==
  \A n \in Counts : \A k \in 1..n :
    /\ \A value \in Contents(k, "scalar") : Len(value) = 1
    /\ \A value \in Contents(k, "wide") : Len(value) = 2
    /\ \A value \in Contents(k, "object") : Len(value) <= 3 => ~IsOffset(value[1])
ASSUME LimitAssumption == SizeLimit \in Nat
ASSUME StartAssumption == \A b \in StartBuffers : b \in Buffer /\ b.len <= Allocated(b)

VARIABLES
  shape,     \* the container's lanes
  encoder,   \* the encoder the caller is going to call
  content,   \* history: the words put into each slot; <<>> until it is written
  buf,       \* the buffer
  last,      \* its length when the container was begun
  units,     \* the Unit of each slot
  pc,        \* "write", then "copy" or "pick" and "mark", then "encoded",
             \* or "refused" or "failed"
  slot,      \* slots still to be written, copied, picked or marked
  tail,      \* pick: index in the active view below which space is free
  cells,     \* copy: the cells and
  payloads,  \* the payloads gathered so far
  widths,    \* cell width of each lane, once chosen
  result     \* the Unit returned

vars == <<shape, encoder, content, buf, last, units, pc, slot, tail,
          cells, payloads, widths, result>>

copied == <<cells, payloads>>

UnitSizes == [k \in DOMAIN units |-> UnitSize(units[k])]

N == Len(units)

Kind(k) == shape[Lane(shape, k)]

Width(k) == CellWidth(widths, shape, k)

Init ==
  /\ shape \in Shapes
  /\ encoder \in {"in_place", "copying"}
  /\ buf \in StartBuffers
  /\ last = buf.len
  /\ \E n \in Counts :
       /\ n % Len(shape) = 0
       /\ content = [k \in 1..n |-> <<>>]
       /\ units = [k \in 1..n |-> EmptyUnit]
       /\ slot = n
  /\ pc = "write"
  /\ tail = 0
  /\ cells = <<>> /\ payloads = <<>>
  /\ widths = [l \in DOMAIN shape |-> 1]
  /\ result = EmptyUnit

-----------------------------------------------------------------------------
(***************************************************************************)
(* The caller's part.                                                      *)
(***************************************************************************)

\* Seeded fault: mutable containers are written first slot first.
NextSlotForward ==
  CASE encoder = "in_place" \/ Len(shape) = 1    -> N - slot + 1
    [] encoder = "copying" /\ Len(shape) = 2     -> IF slot % 2 = 0 THEN slot - 1 ELSE slot + 1

(***************************************************************************)
(* The slot written next.  Mutable containers go from the last slot to the *)
(* first (a pair's value before its key).  A dynamic list goes forward,    *)
(* a dynamic map backward with the key of a pair before its value.         *)
(***************************************************************************)
NextSlot ==
  CASE encoder = "in_place"                      -> slot
    [] encoder = "copying" /\ Len(shape) = 1     -> N - slot + 1
    [] encoder = "copying" /\ Len(shape) = 2     -> IF slot % 2 = 0 THEN slot - 1 ELSE slot + 1

Store(k, value, b, u) ==
  /\ content' = [content EXCEPT ![k] = value]
  /\ units' = [units EXCEPT ![k] = u]
  /\ buf' = b
  /\ slot' = slot - 1
  /\ UNCHANGED <<shape, encoder, last, pc, tail, copied, widths, result>>

\* A scalar, or an object of one word such as a short string, stays inline.
WriteInline ==
  /\ pc = "write" /\ slot > 0
  /\ \E value \in Contents(NextSlot, Kind(NextSlot)) :
       /\ Kind(NextSlot) = "object" => Len(value) = 1
       /\ Len(value) <= 3
       /\ Store(NextSlot, value, buf, InlineUnit(value))

\* Any other object is prepended to the buffer.
WriteSegment ==
  /\ pc = "write" /\ slot > 0
  /\ Kind(NextSlot) = "object"
  /\ \E value \in Contents(NextSlot, "object") :
       Store(NextSlot, value, PutWords(buf, value),
             SegmentUnit(buf.len, buf.len + Len(value)))

\* Seeded fault: fold_field without the test that the segment is at the head.
FoldAnywhere(k) ==
  /\ pc = "write"
  /\ IsSegment(units[k])
  /\ units[k].len < 4
  /\ units' = [units EXCEPT ![k] = InlineUnit(ReadAt(buf, units[k].pos, units[k].len))]
  /\ buf' = Shrink(buf, units[k].len)
  /\ UNCHANGED <<shape, encoder, content, last, pc, slot, tail, copied, widths, result>>

\* fold_field: take a short segment back from the head of the buffer.
Fold(k) ==
  /\ pc = "write"
  /\ IsSegment(units[k])
  /\ units[k].len < 4
  /\ units[k].pos = buf.len
  /\ units' = [units EXCEPT ![k] = InlineUnit(ReadAt(buf, units[k].pos, units[k].len))]
  /\ buf' = Shrink(buf, units[k].len)
  /\ UNCHANGED <<shape, encoder, content, last, pc, slot, tail, copied, widths, result>>

\* Encoding a slot's value fails; what was written stays in the buffer.
WriteFails ==
  /\ pc = "write" /\ slot > 0
  /\ pc' = "failed"
  /\ UNCHANGED <<shape, encoder, content, buf, last, units, slot, tail, copied, widths, result>>

-----------------------------------------------------------------------------
(***************************************************************************)
(* The encoder is called once all slots are written.                       *)
(***************************************************************************)
Called == pc = "write" /\ slot = 0

Finish(b, unit) ==
  /\ buf' = b
  /\ result' = unit
  /\ pc' = "encoded"

EncodeEmpty ==
  /\ Called /\ N = 0
  /\ Finish(buf, InlineUnit(EmptyContainer(shape)))
  /\ UNCHANGED <<shape, encoder, content, last, units, slot, tail, copied, widths>>

Refuse ==
  /\ Called /\ N > 0
  /\ EncodedSize(UnitSizes, shape) >= SizeLimit
  /\ pc' = "refused"
  /\ UNCHANGED <<shape, encoder, content, buf, last, units, slot, tail, copied, widths, result>>

\* Some inline words do not fit the cell they are meant for.
TooWide(ws) == \E k \in 1..N : Len(units[k].inline) > CellWidth(ws, shape, k)

StartPick ==
  LET ws == Widths(UnitSizes, shape) IN
  /\ Called /\ N > 0
  /\ EncodedSize(UnitSizes, shape) < SizeLimit
  /\ encoder = "in_place" /\ ~TooWide(ws)
  /\ widths' = ws
  /\ pc' = "pick"
  /\ slot' = N
  /\ tail' = buf.len - last
  /\ UNCHANGED <<shape, encoder, content, buf, last, units, copied, result>>

-----------------------------------------------------------------------------
(***************************************************************************)
(* The copying encoder.  It gathers cells and payloads outside the buffer, *)
(* first slot first, and then replaces the slots' words by them.           *)
(***************************************************************************)
StartCopy ==
  LET ws == Widths(UnitSizes, shape) IN
  /\ Called /\ N > 0
  /\ EncodedSize(UnitSizes, shape) < SizeLimit
  /\ encoder = "copying" \/ TooWide(ws)
  /\ widths' = ws
  /\ pc' = "copy"
  /\ slot' = N
  /\ UNCHANGED <<shape, encoder, content, buf, last, units, tail, copied, result>>

Copying(k) == pc = "copy" /\ slot > 0 /\ k = N - slot + 1

CopyIntoCell(k) ==
  LET ws == UnitWords(units[k], buf) IN
  /\ Copying(k)
  /\ Len(ws) <= Width(k)
  /\ cells' = cells \o Pad(ws, Width(k))
  /\ slot' = slot - 1
  /\ UNCHANGED <<shape, encoder, content, buf, last, units, pc, tail, payloads, widths, result>>

CopyOutline(k) ==
  LET ws == UnitWords(units[k], buf) IN
  /\ Copying(k)
  /\ Len(ws) > Width(k)
  /\ cells' = cells \o Pad(<<Offset(CellStart(widths, shape, N + 1) + Len(payloads)
                                   - CellStart(widths, shape, k))>>, Width(k))
  /\ payloads' = payloads \o ws
  /\ slot' = slot - 1
  /\ UNCHANGED <<shape, encoder, content, buf, last, units, pc, tail, widths, result>>

\* Seeded fault: the slots' words are dropped together with earlier ones.
CopyHeaderFromScratch ==
  LET body == PutWords(PutWords(Shrink(buf, buf.len), payloads), cells)
      whole == PutWords(body, Header(N, widths))
  IN  /\ pc = "copy" /\ slot = 0
      /\ Finish(whole, SegmentUnit(0, whole.len))
      /\ UNCHANGED <<shape, encoder, content, last, units, slot, tail, copied, widths>>

CopyHeader ==
  LET body == PutWords(PutWords(Shrink(buf, buf.len - last), payloads), cells)
      whole == PutWords(body, Header(N, widths))
  IN  /\ pc = "copy" /\ slot = 0
      /\ Finish(whole, SegmentUnit(last, whole.len))
      /\ UNCHANGED <<shape, encoder, content, last, units, slot, tail, copied, widths>>

-----------------------------------------------------------------------------
(***************************************************************************)
(* pick_unit, for the units from the last to the first.  `start` and `end` *)
(* are the segment's bounds in the active view, as in the code.            *)
(***************************************************************************)
PickStart(u) == buf.len - u.pos
PickEnd(u)   == PickStart(u) + u.len

Picked(u, b, t) ==
  /\ units' = [units EXCEPT ![slot] = u]
  /\ buf' = b
  /\ tail' = t
  /\ slot' = slot - 1
  /\ UNCHANGED <<shape, encoder, content, last, pc, copied, widths, result>>

Picking == pc = "pick" /\ slot > 0

\* An inline unit is left alone.
PickInline ==
  /\ Picking
  /\ units[slot].inline # <<>>
  /\ Picked(units[slot], buf, tail)

\* A segment that fits its cell becomes inline; its words become free space.
PickIntoCell ==
  LET u == units[slot] IN
  /\ Picking
  /\ u.inline = <<>>
  /\ u.len <= Width(slot)
  /\ Picked([u EXCEPT !.inline = ReadAt(buf, u.pos, u.len)], buf, tail)

\* Seeded fault: the words slide but the unit keeps its position.
PickMoveStale ==
  LET u   == units[slot]
      new == tail - u.len
  IN  /\ Picking
      /\ u.inline = <<>>
      /\ u.len > Width(slot)
      /\ tail > PickEnd(u)
      /\ Picked(u, CopyWithin(buf, u.pos, buf.len - new, u.len), new)

\* A longer segment slides over free space behind it ...
PickMove ==
  LET u   == units[slot]
      new == tail - u.len
  IN  /\ Picking
      /\ u.inline = <<>>
      /\ u.len > Width(slot)
      /\ tail > PickEnd(u)
      /\ Picked([u EXCEPT !.pos = u.pos - (new - PickStart(u))],
                CopyWithin(buf, u.pos, buf.len - new, u.len), new)

\* ... and stays where it is when there is none.
PickStay ==
  LET u == units[slot] IN
  /\ Picking
  /\ u.inline = <<>>
  /\ u.len > Width(slot)
  /\ tail <= PickEnd(u)
  /\ Picked(u, buf, tail - u.len)

StartMark ==
  /\ pc = "pick" /\ slot = 0
  /\ buf' = Shrink(buf, tail)
  /\ pc' = "mark"
  /\ slot' = N
  /\ UNCHANGED <<shape, encoder, content, last, units, tail, copied, widths, result>>

-----------------------------------------------------------------------------
(***************************************************************************)
(* mark_unit, for the units from the last to the first, then the header.   *)
(***************************************************************************)

\* Seeded fault: the offset is taken from the end of the cell.
MarkedCellFromEnd(u, b, w) ==
  Pad(IF u.inline # <<>> THEN u.inline ELSE <<Offset(b.len - u.pos)>>, w)

\* Seeded fault: the rest of a cell is not cleared.
MarkedCellUnpadded(u, b, w) ==
  IF u.inline # <<>> THEN u.inline ELSE <<Offset(b.len + w - u.pos)>>

MarkedCell(u, b, w) ==
  Pad(IF u.inline # <<>> THEN u.inline ELSE <<Offset(b.len + w - u.pos)>>, w)

Mark ==
  /\ pc = "mark" /\ slot > 0
  /\ LET w == Width(slot) IN
     buf' = WriteAt(Expand(buf, w), buf.len + w, MarkedCell(units[slot], buf, w))
  /\ slot' = slot - 1
  /\ UNCHANGED <<shape, encoder, content, last, units, pc, tail, copied, widths, result>>

MarkHeader ==
  LET header == Header(N, widths) IN
  /\ pc = "mark" /\ slot = 0
  /\ Finish(PutWords(buf, header), SegmentUnit(last, buf.len + Len(header)))
  /\ UNCHANGED <<shape, encoder, content, last, units, slot, tail, copied, widths>>

Pick == PickInline \/ PickIntoCell \/ PickMove \/ PickStay

Next ==
  \/ WriteInline \/ WriteSegment \/ (\E k \in 1..N : Fold(k)) \/ WriteFails
  \/ EncodeEmpty \/ Refuse
  \/ StartCopy \/ (\E k \in 1..N : CopyIntoCell(k) \/ CopyOutline(k)) \/ CopyHeader
  \/ StartPick \/ Pick \/ StartMark \/ Mark \/ MarkHeader

Spec == Init /\ [][Next]_vars

-----------------------------------------------------------------------------
UnitType == [inline : Seq(Nat), pos : Nat, len : Nat]

TypeOK ==
  /\ shape \in Shapes
  /\ encoder \in {"in_place", "copying"}
  /\ content \in Seq(Seq(Nat)) /\ Len(content) = Len(units)
  /\ buf \in Buffer /\ buf.len <= Allocated(buf)
  /\ last \in Nat /\ last <= buf.len
  /\ units \in Seq(UnitType) /\ N \in Counts /\ N % Len(shape) = 0
  /\ \A k \in 1..N : Len(units[k].inline) <= 3
  /\ pc \in {"write", "copy", "pick", "mark", "encoded", "refused", "failed"}
  /\ slot \in 0..N
  /\ tail \in Nat
  /\ cells \in Seq(Nat) /\ payloads \in Seq(Nat)
  /\ widths \in Seq(1..3) /\ Len(widths) = Len(shape)
  /\ result \in UnitType

(***************************************************************************)
(* Before, during and after compaction, in whatever order slots of         *)
(* whatever sizes were written and folded, every written unit stands for   *)
(* exactly the words put into its slot: no move overwrites a segment that  *)
(* is still to be moved, and none loses its position.                      *)
(***************************************************************************)
UnitsIntact ==
  pc \in {"write", "copy", "pick", "mark"} =>
    \A k \in 1..N : content[k] # <<>> => UnitWords(units[k], buf) = content[k]

(***************************************************************************)
(* How the segments lie, which is what makes compaction safe.  While slots *)
(* are written and copied: behind the head, before `last`'s words, and     *)
(* apart from each other; in place, moreover, from the last slot to the    *)
(* first.  While picking: those already picked lie behind the boundary     *)
(* (the distance of `tail` from the end), the others before it and still   *)
(* in order.                                                               *)
(***************************************************************************)
Apart(u, v) == u.pos <= v.pos - v.len \/ v.pos <= u.pos - u.len

Boundary == buf.len - tail

Between(u, low, high) == IsSegment(u) => low <= u.pos - u.len /\ u.pos <= high

WritingLaidOut ==
  pc \in {"write", "copy"} =>
    /\ \A k \in 1..N : Between(units[k], last, buf.len)
    /\ \A j, k \in 1..N :
         j # k /\ IsSegment(units[j]) /\ IsSegment(units[k]) => Apart(units[j], units[k])

InPlaceOrder ==
  pc = "write" /\ encoder = "in_place" =>
    /\ \A k \in 1..N : k <= slot => content[k] = <<>> /\ units[k] = EmptyUnit
    /\ \A k \in 1..N : k > slot => content[k] # <<>>
    /\ \A j, k \in 1..N :
         j < k /\ IsSegment(units[j]) /\ IsSegment(units[k]) =>
           units[k].pos <= units[j].pos - units[j].len

PickingLaidOut ==
  pc = "pick" =>
    /\ tail <= buf.len /\ last <= Boundary
    /\ \A k \in 1..N : content[k] # <<>>
    /\ \A k \in 1..N : k <= slot => Between(units[k], Boundary, buf.len)
    /\ \A k \in 1..N : k > slot => Between(units[k], last, Boundary)
    /\ \A j, k \in 1..N :
         j < k /\ k <= slot /\ IsSegment(units[j]) /\ IsSegment(units[k]) =>
           units[k].pos <= units[j].pos - units[j].len

MarkingLaidOut ==
  pc = "mark" => \A k \in 1..N : content[k] # <<>> /\ Between(units[k], last, buf.len)

SegmentsLaidOut == WritingLaidOut /\ InPlaceOrder /\ PickingLaidOut /\ MarkingLaidOut

(***************************************************************************)
(* The space before `tail` always has room for the segments that are still *)
(* to be picked (pick_unit's debug_assert, without which `tail` would wrap *)
(* around): each of them lies wholly before it.                            *)
(***************************************************************************)
TailCoversUnpicked ==
  pc = "pick" =>
    \A k \in 1..slot : units[k].inline = <<>> =>
      /\ PickEnd(units[k]) <= tail
      /\ units[k].pos <= buf.len

(***************************************************************************)
(* The words before `last`, which belong to fields encoded earlier, are    *)
(* never changed nor dropped, however often the storage is reallocated.    *)
(***************************************************************************)
KeepsEarlierWords ==
  /\ buf'.len >= last
  /\ \A p \in 1..last : buf'.data[p] = buf.data[p]

EarlierWordsKept == [][KeepsEarlierWords]_vars

(***************************************************************************)
(* The encoders implement the abstract specification: both of them, for    *)
(* every order of writing, produce the very words of Layout.               *)
(***************************************************************************)
Abstract == INSTANCE ContainerSpec WITH
  status <- IF pc \in {"write", "copy", "pick", "mark"} THEN "building" ELSE pc,
  words  <- IF pc = "encoded" THEN UnitWords(result, buf) ELSE <<>>

ImplementsContainer == Abstract!Spec

(***************************************************************************)
(* Every accessor of the view over the encoded container yields the words  *)
(* that were put into its slot, whatever follows the container.            *)
(***************************************************************************)
ReadsBack == Abstract!ReadsBack

(***************************************************************************)
(* The size that was compared with the limit is the size written, and no   *)
(* offset reaches the limit.                                               *)
(***************************************************************************)
SizeIsExact == Abstract!SizeIsExact
=============================================================================
