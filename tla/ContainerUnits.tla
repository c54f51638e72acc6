--------------------------- MODULE ContainerUnits ---------------------------
(***************************************************************************)
(* What encoding one value, a text or a container comes to, for the        *)
(* encoders that put messages, lists and maps together: a unit, and the    *)
(* buffer after it, or a failure.                                          *)
(***************************************************************************)
EXTENDS BytesLayout

CONSTANTS
  ContainerLimit, \* containers of this many words are refused: 2^30
  IndexTail,      \* words of a map's perfect-hash index after its first
  Position(_, _)  \* Position(n, i): where the index puts the i-th of n keys

C == INSTANCE ContainerLayout

\* The words are copied so that TLC computes each of them once.
Done(unit, b) ==
  [ok |-> TRUE, unit |-> unit, buf |-> [data |-> SubSeq(b.data, 1, Len(b.data)), len |-> b.len]]

\* Unit::segment.
Closed(b, last) == Done(SegmentUnit(last, b.len), b)

Failed(b) == [ok |-> FALSE, unit |-> EmptyUnit, buf |-> b]

\* Seeded fault: segments that are left over are not taken back.
PutContainerKeeping(content, b, last, shape) ==
  IF C!EncodedSize(C!Sizes(content), shape) >= ContainerLimit THEN Failed(b)
  ELSE Closed(PutWords(b, C!Layout(content, shape)), last)

\* What was written for the units is dropped, and the container is written.
PutContainer(content, b, last, shape) ==
  IF C!EncodedSize(C!Sizes(content), shape) >= ContainerLimit THEN Failed(b)
  ELSE Closed(PutWords(Shrink(b, b.len - last), C!Layout(content, shape)), last)

UnitsWords(units, b) ==
  [k \in 1..Len(units) |-> SubSeq(UnitWords(units[k], b), 1, UnitSize(units[k]))]

\* serialize_array_at and serialize_map_at: the words of the units are copied out.
Contained(units, b, last, shape) == PutContainer(UnitsWords(units, b), b, last, shape)

Result(done) == Done(done.unit, done.buf)

EncodeText(bytes, b) ==
  IF Len(bytes) >= ByteLimit THEN Failed(b) ELSE Result(SerializedBytes(bytes, b))

Folding(done) == Result(Folded(done.unit, done.buf))
=============================================================================
