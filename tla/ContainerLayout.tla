--------------------------- MODULE ContainerLayout ---------------------------
(***************************************************************************)
(* The words an encoded array or map consists of, and how the zero-copy    *)
(* views read them back (serialize.rs and access.rs of protocache-core).   *)
(*                                                                         *)
(* Arrays and maps share one layout: a header, one cell per slot, then the *)
(* payloads that do not fit their cell, in slot order.  An array has one   *)
(* lane of slots; a map has two, slot 2i-1 holding the key and slot 2i the *)
(* value of pair i.  All cells of a lane have the same width.  A `shape`   *)
(* is the sequence of the lanes' kinds: "scalar" (i32 ... bool), "wide"    *)
(* (i64, u64, f64) or "object" (strings, messages, nested containers).     *)
(* `content` is the sequence of the slots' words.                          *)
(***************************************************************************)
EXTENDS WordBuffer, Functions, SequencesExt

CONSTANT IndexTail   \* words of a map's perfect-hash index after its first

ASSUME IndexTailAssumption == IndexTail \in Seq(Nat)

Kinds == {"scalar", "wide", "object"}

Lane(shape, k) == ((k - 1) % Len(shape)) + 1

Slots(sizes, shape, l) == {k \in 1..Len(sizes) : Lane(shape, k) = l}

Sizes(content) == [k \in 1..Len(content) |-> Len(content[k])]

\* offset(): a word whose two low bits are 3 sends the reader `off` words on.
Offset(off) == off * 4 + 3

IsOffset(word) == word % 4 = 3

Pad(words, width) == [j \in 1..width |-> IF j <= Len(words) THEN words[j] ELSE 0]

(***************************************************************************)
(* Cell width: the total a lane takes with cells of w words, and the       *)
(* first w of 1, 2, 3 with the least total.                                *)
(***************************************************************************)
LaneTotal(sizes, shape, l, w) ==
  SumFunctionOnSet([k \in 1..Len(sizes) |-> w + IF sizes[k] > w THEN sizes[k] ELSE 0],
                   Slots(sizes, shape, l))

BestWidth(sizes, shape, l) ==
  LET total(w) == LaneTotal(sizes, shape, l, w)
      mode     == IF total(2) < total(1) THEN 2 ELSE 1
  IN  IF total(3) < total(mode) THEN 3 ELSE mode

Widths(sizes, shape) == [l \in 1..Len(shape) |-> BestWidth(sizes, shape, l)]

\* Seeded fault: the total for one-word cells instead of the chosen width.
EncodedSizeNarrow(sizes, shape) ==
  SumFunction([l \in 1..Len(shape) |-> LaneTotal(sizes, shape, l, 1)])
    + (IF Len(shape) = 2 THEN 1 + Len(IndexTail) ELSE 0)

\* What the encoders compare with their 2^30-word limit.
EncodedSize(sizes, shape) ==
  SumFunction([l \in 1..Len(shape) |-> LaneTotal(sizes, shape, l, BestWidth(sizes, shape, l))])
    + (IF Len(shape) = 2 THEN 1 + Len(IndexTail) ELSE 0)

(***************************************************************************)
(* Placement.  Cell k starts CellStart words after the first cell; its     *)
(* payload, when it has one, PayloadStart words after the first cell.      *)
(***************************************************************************)
CellWidth(widths, shape, k) == widths[Lane(shape, k)]

CellStart(widths, shape, k) ==
  IF Len(shape) = 1
  THEN (k - 1) * widths[1]
  ELSE ((k - 1) \div 2) * (widths[1] + widths[2]) + (IF Lane(shape, k) = 2 THEN widths[1] ELSE 0)

Outlined(sizes, widths, shape) ==
  {k \in 1..Len(sizes) : sizes[k] > CellWidth(widths, shape, k)}

PayloadStart(sizes, widths, shape, k) ==
  CellStart(widths, shape, Len(sizes) + 1)
    + SumFunctionOnSet(sizes, {j \in Outlined(sizes, widths, shape) : j < k})

(***************************************************************************)
(* Header: an array has its length and width in one word.  A map has its   *)
(* perfect-hash index with the two widths in the four top bits of the      *)
(* first word; the widths are kept in the low bits here so that the word   *)
(* fits TLC's integers.                                                    *)
(***************************************************************************)
Header(n, widths) ==
  IF Len(widths) = 1 THEN <<n * 4 + widths[1]>>
                     ELSE <<(n \div 2) * 16 + widths[1] * 4 + widths[2]>> \o IndexTail

\* The single inline word that stands for an empty array or map.
EmptyContainer(shape) == <<Header(0, [l \in 1..Len(shape) |-> 1])[1]>>

\* A slot's cell: its words, or the offset of its payload from this very cell.
Cell(content, widths, shape, k) ==
  LET w == CellWidth(widths, shape, k) IN
  IF Len(content[k]) <= w
  THEN Pad(content[k], w)
  ELSE Pad(<<Offset(PayloadStart(Sizes(content), widths, shape, k)
                      - CellStart(widths, shape, k))>>, w)

Payloads(content, widths, shape) ==
  FlattenSeq([k \in 1..Len(content) |->
    IF k \in Outlined(Sizes(content), widths, shape) THEN content[k] ELSE <<>>])

\* serialize_array_at / serialize_map_at: the whole container, first word first.
Layout(content, shape) ==
  LET widths == Widths(Sizes(content), shape) IN
  Header(Len(content), widths)
    \o FlattenSeq([k \in 1..Len(content) |-> Cell(content, widths, shape, k)])
    \o Payloads(content, widths, shape)

-----------------------------------------------------------------------------
(***************************************************************************)
(* The readers.  `words` starts at the container's first word and runs to  *)
(* the end of the enclosing slice.                                         *)
(***************************************************************************)
HeaderLength(shape) == IF Len(shape) = 1 THEN 1 ELSE 1 + Len(IndexTail)

ReadCount(words, shape) ==
  IF Len(shape) = 1 THEN words[1] \div 4 ELSE 2 * (words[1] \div 16)

ReadWidths(words, shape) ==
  IF Len(shape) = 1 THEN <<words[1] % 4>> ELSE <<(words[1] \div 4) % 4, words[1] % 4>>

\* Words before the cell of slot k (k may be one past the last slot).
FieldStart(words, shape, k) ==
  HeaderLength(shape) + CellStart(ReadWidths(words, shape), shape, k)

FieldTail(words, shape, k) == SubSeq(words, FieldStart(words, shape, k) + 1, Len(words))

\* object_words: follow the offset, or stay at the cell.
ObjectWords(tail) ==
  IF IsOffset(tail[1]) THEN SubSeq(tail, tail[1] \div 4 + 1, Len(tail)) ELSE tail

RawWords(words, shape, k) ==
  SubSeq(FieldTail(words, shape, k), 1, CellWidth(ReadWidths(words, shape), shape, k))

\* What the typed accessor of slot k sees begins with exactly `value`.
Reads(words, shape, k, value) ==
  IF shape[Lane(shape, k)] = "object"
  THEN IsPrefix(value, ObjectWords(FieldTail(words, shape, k)))
  ELSE RawWords(words, shape, k) = value

(***************************************************************************)
(* detect_array_with / detect_map_with: the extent of the container.  The  *)
(* slots are scanned from the last to the first (a pair's value before its *)
(* key) and the first one that ends beyond the cells ends the scan.  The   *)
(* detector of a slot finds the end of its own words: `sizes` is what it   *)
(* computes from them.                                                     *)
(***************************************************************************)
SlotEnd(words, shape, k, size) ==
  LET start == FieldStart(words, shape, k) IN
  IF shape[Lane(shape, k)] = "object"
  THEN start + size + IF IsOffset(words[start + 1]) THEN words[start + 1] \div 4 ELSE 0
  ELSE start + CellWidth(ReadWidths(words, shape), shape, k)

DetectedExtent(words, shape, sizes) ==
  LET n      == ReadCount(words, shape)
      cells  == FieldStart(words, shape, n + 1)
      beyond == {k \in 1..n : SlotEnd(words, shape, k, sizes[k]) > cells}
      deepest == CHOOSE k \in beyond : \A j \in beyond : j <= k
  IN  IF beyond = {} THEN cells ELSE SlotEnd(words, shape, deepest, sizes[deepest])
=============================================================================
