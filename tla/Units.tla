------------------------------- MODULE Units -------------------------------
(***************************************************************************)
(* The Unit of protocache-core (serialize.rs): what encoding a value hands *)
(* to the encoder of the message, array or map that holds it.              *)
(***************************************************************************)
EXTENDS WordBuffer

(***************************************************************************)
(* A Unit is up to three words inline, or a segment of the buffer: the     *)
(* `len` words whose first one lies at distance `pos` from the end.        *)
(***************************************************************************)
InlineUnit(ws) == [inline |-> ws, pos |-> 0, len |-> 0]

SegmentUnit(before, now) == [inline |-> <<>>, pos |-> now, len |-> now - before]

EmptyUnit == InlineUnit(<<>>)

IsSegment(u) == u.inline = <<>> /\ u.len # 0

UnitSize(u) == IF u.inline # <<>> THEN Len(u.inline) ELSE u.len

\* unit_words: where the unit's words are now.
UnitWords(u, b) == IF u.inline # <<>> THEN u.inline ELSE ReadAt(b, u.pos, u.len)

\* fold_field: a short segment at the head of the buffer becomes inline.
Folded(u, b) ==
  IF IsSegment(u) /\ u.len < 4 /\ u.pos = b.len
  THEN [unit |-> InlineUnit(ReadAt(b, u.pos, u.len)), buf |-> Shrink(b, u.len)]
  ELSE [unit |-> u, buf |-> b]
=============================================================================
