---------------------------- MODULE MessageLayout ----------------------------
(***************************************************************************)
(* The words of an encoded message (serialize_message_at of serialize.rs)  *)
(* and how MessageView and the generated DetectLen read them (access.rs,   *)
(* protoc-gen-pcrs main.rs).                                               *)
(*                                                                         *)
(* A message is a header word, two words per section, the body, and the    *)
(* payloads of its fields.  The header word holds the number of sections   *)
(* and the two-bit body widths of the first HeadFields fields.  A section  *)
(* holds the widths of SectionFields more, and the number of body words    *)
(* before its fields.  Fields are numbered from 1.                         *)
(***************************************************************************)
EXTENDS Units, Functions, SequencesExt

CONSTANTS
  HeadFields,      \* fields whose widths the header word holds: 12
  SectionFields,   \* fields per section: 25
  SectionRange,    \* numbers of sections the header word can hold: 256
  HalfRange,       \* numbers a word can hold: 2^32
  CountRange,      \* numbers a section's count can hold: 2^14
  SizeLimit        \* size of the fields that is refused: 2^30

ASSUME LayoutAssumption ==
  /\ HeadFields \in Nat \ {0} /\ SectionFields \in Nat /\ SectionFields > HeadFields
  /\ SectionRange \in Nat \ {0} /\ HalfRange \in Nat \ {0} /\ CountRange \in Nat \ {0}
  /\ SizeLimit \in Nat

\* Words a field takes in the body: its inline words, or the offset.
FieldWidth(u) == IF u.inline # <<>> THEN Len(u.inline) ELSE IF u.len # 0 THEN 1 ELSE 0

\* Fields up to the last one that is there.
UsedLength(fields) ==
  LET used == {k \in 1..Len(fields) : FieldWidth(fields[k]) # 0}
  IN  IF used = {} THEN 0 ELSE CHOOSE k \in used : \A j \in used : j <= k

\* Body words of the fields before field k.
BodyBefore(fields, k) ==
  SumFunctionOnSet([j \in 1..Len(fields) |-> FieldWidth(fields[j])], 1..k - 1)

BodySize(fields) == BodyBefore(fields, Len(fields) + 1)

\* What is compared with the limit.
FieldsSize(fields) == SumFunction([k \in 1..Len(fields) |-> UnitSize(fields[k])])

\* Seeded fault: a section is begun only when the one before it is full.
SectionsFloor(n) == (IF n > HeadFields THEN n - HeadFields ELSE 0) \div SectionFields

\* (n + 12) / 25 in the code.
Sections(n) == (n + SectionFields - HeadFields - 1) \div SectionFields

\* The fields of section s, counted from 0.
SectionStart(s) == HeadFields + s * SectionFields + 1

\* What a shift by i two-bit places multiplies by.
Place[i \in Nat] == IF i = 0 THEN 1 ELSE 4 * Place[i - 1]

\* Width of field k, which may be beyond the last one.
WidthOf(fields, k) == IF k <= Len(fields) THEN FieldWidth(fields[k]) ELSE 0

\* Two-bit widths of `count` fields from field `first` on, lowest bits first.
Marks(fields, first, count) ==
  SumFunction([i \in 1..count |-> WidthOf(fields, first + i - 1) * Place[i - 1]])

HeadWord(fields) ==
  Sections(Len(fields)) + SectionRange * Marks(fields, 1, HeadFields)

\* Seeded fault: the section counts the words of its own fields, too.
SectionMarkAfter(fields, s) ==
  Marks(fields, SectionStart(s), SectionFields)
    + Place[SectionFields] * (BodyBefore(fields, IF SectionStart(s + 1) <= Len(fields) + 1
                                              THEN SectionStart(s + 1)
                                              ELSE Len(fields) + 1) % CountRange)

\* The count is shifted into the top bits, and what does not fit them is lost.
SectionMark(fields, s) ==
  Marks(fields, SectionStart(s), SectionFields)
    + Place[SectionFields] * (BodyBefore(fields, SectionStart(s)) % CountRange)

SectionWords(fields) ==
  FlattenSeq([i \in 1..Sections(Len(fields)) |->
    <<SectionMark(fields, i - 1) % HalfRange, SectionMark(fields, i - 1) \div HalfRange>>])

\* offset(): a word whose two low bits are 3 sends the reader `off` words on.
Offset(off) == off * 4 + 3

IsOffset(word) == word % 4 = 3

\* Body words of field k: `front` is the distance of the body from the end.
FieldBody(fields, k, front) ==
  IF fields[k].inline # <<>> THEN fields[k].inline
  ELSE IF fields[k].len # 0 THEN <<Offset(front - BodyBefore(fields, k) - fields[k].pos)>>
  ELSE <<>>

Body(fields, front) ==
  FlattenSeq([k \in 1..Len(fields) |-> FieldBody(fields, k, front)])

Refused(fields) ==
  \/ fields = <<>>
  \/ LET used == SubSeq(fields, 1, UsedLength(fields))
     IN  FieldsSize(used) >= SizeLimit \/ Sections(Len(used)) >= SectionRange

\* Header, sections and body, put before what the buffer holds.
Block(used, before) ==
  <<HeadWord(used)>> \o SectionWords(used) \o Body(used, before + BodySize(used))

Ended(b, last) == [buf |-> b, unit |-> SegmentUnit(last, b.len)]

\* serialize_message_at, when it does not refuse.  A message without fields is
\* a single zero word, and a segment of its own.
Serialized(fields, b, last) ==
  IF \A k \in 1..Len(fields) : FieldWidth(fields[k]) = 0
  THEN Ended(PutWords(b, <<0>>), b.len)
  ELSE Ended(PutWords(b, Block(SubSeq(fields, 1, UsedLength(fields)), b.len)), last)

-----------------------------------------------------------------------------
(***************************************************************************)
(* The readers.  `words` starts at the message's first word and runs to    *)
(* the end of the enclosing slice.                                         *)
(***************************************************************************)
WordAt(v, i) == (v \div Place[i]) % 4

\* count32, count64: the sum of the lowest n two-bit numbers.
CountMarks(v, n) == SumFunction([i \in 1..n |-> WordAt(v, i - 1)])

ReadSections(words) == words[1] % SectionRange

ReadHead(words) == words[1] \div SectionRange

ReadMark(words, s) == words[2 * s + 2] + HalfRange * words[2 * s + 3]

BodyOffset(words) == 1 + 2 * ReadSections(words)

\* The width at a bit pair of `marks`, and the body words before it.
MarkAt(marks, bit, before) ==
  [width |-> WordAt(marks, bit), off |-> before + CountMarks(marks, bit)]

SectionAt(mark, bit) == MarkAt(mark, bit, mark \div Place[SectionFields])

\* field_in: the field's width and the body words before it; width 0 when it
\* is not there.
FieldIn(words, k) ==
  LET i == k - 1 - HeadFields
      s == i \div SectionFields
  IN  IF k <= HeadFields THEN MarkAt(ReadHead(words), k - 1, 0)
      ELSE IF s >= ReadSections(words) THEN [width |-> 0, off |-> 0]
      ELSE SectionAt(ReadMark(words, s), i % SectionFields)

HasField(words, k) == FieldIn(words, k).width # 0

\* Words before the field's first body word.
FieldStart(words, k) == BodyOffset(words) + FieldIn(words, k).off

RawWords(words, k) ==
  SubSeq(words, FieldStart(words, k) + 1, FieldStart(words, k) + FieldIn(words, k).width)

\* Words before the object that a body word holds or refers to.
Followed(words, start) ==
  start + IF IsOffset(words[start + 1]) THEN words[start + 1] \div 4 ELSE 0

ObjectStart(words, k) == Followed(words, FieldStart(words, k))

ObjectWords(words, k) == SubSeq(words, ObjectStart(words, k) + 1, Len(words))

\* detect_len: header, sections and body.
DetectLen(words) ==
  LET s == ReadSections(words) IN
  IF s = 0 THEN 1 + CountMarks(ReadHead(words), HeadFields)
  ELSE BodyOffset(words) + CountMarks(ReadMark(words, s - 1), SectionFields)
         + ReadMark(words, s - 1) \div Place[SectionFields]

\* The end of the last object that ends beyond the body, or the body's.
LastEnd(end, body) ==
  LET beyond == {k \in DOMAIN end : end[k] > body}
  IN  IF beyond = {} THEN body ELSE end[CHOOSE k \in beyond : \A j \in beyond : j <= k]

(***************************************************************************)
(* The generated DetectLen: the message's whole extent.  The fields that   *)
(* hold objects are scanned from the last to the first, and the first one  *)
(* that ends beyond the body ends the scan.  `objects` are these fields,   *)
(* and size[k] is the extent found for the one of field k.                 *)
(***************************************************************************)
DetectWhole(words, objects, size) ==
  LET there == {k \in objects : HasField(words, k)}
  IN  LastEnd([k \in there |-> ObjectStart(words, k) + size[k]], DetectLen(words))
=============================================================================
