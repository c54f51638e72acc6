--------------------------- MODULE MutableMessage ---------------------------
(***************************************************************************)
(* A generated mutable message (mutable.rs, and the code protoc-gen-pcrs   *)
(* writes for it): the words it was made from, the set of fields that      *)
(* accessors have touched, and their decoded values.  Fields that were not *)
(* touched are copied from those words when it is serialized, and a        *)
(* message none of whose fields was touched is copied as a whole.          *)
(*                                                                         *)
(* Fields are scalars, texts (strings and bytes) and messages.  A message  *)
(* in a field has no fields that are messages.  A value is the sequence of *)
(* its words, empty for the default.                                       *)
(***************************************************************************)
EXTENDS MessageLayout

CONSTANTS
  Kinds,            \* the kind of each field
  NestedKinds,      \* the kind of each field of a message in a field
  Values(_),        \* Values(k): values of field k
  NestedValues(_),  \* values of field k of a message in a field
  TextRange,        \* the first word of a text is 4 * length modulo 4 * this
  MaxLoads          \* bound: how often serialized words are loaded again

ASSUME KindsAssumption ==
  /\ Kinds \in Seq({"scalar", "text", "message"})
  /\ NestedKinds \in Seq({"scalar", "text"})
  /\ Kinds # <<>> /\ NestedKinds # <<>>
ASSUME BoundAssumption == MaxLoads \in Nat /\ TextRange \in Nat \ {0}

\* StringView::detect_len: the first word tells how many there are.
TextLength(words) == (words[1] \div 4) % TextRange

\* The words of a value that is not the default: serialize_scalar, serialize_bytes.
Fits(kind, v) ==
  /\ v \in Seq(Nat) \ {<<>>}
  /\ IF kind = "scalar" THEN Len(v) <= 2 ELSE v[1] % 4 = 0 /\ TextLength(v) = Len(v)

ASSUME ValuesAssumption ==
  /\ \A k \in DOMAIN Kinds : \A v \in Values(k) : Kinds[k] # "message" /\ Fits(Kinds[k], v)
  /\ \A k \in DOMAIN NestedKinds : \A v \in NestedValues(k) : Fits(NestedKinds[k], v)
\* The counts of body words fit their bits, which the encoder does not check (see
\* CountsFit of MessageEncode), and a message in a field has no more sections
\* than a header word can hold.  The header word's two low bits are those of
\* that number.
ASSUME SectionsAssumption ==
  /\ 3 * Len(Kinds) < CountRange /\ 3 * Len(NestedKinds) < CountRange
  /\ Sections(Len(NestedKinds)) < SectionRange
  /\ SectionRange % 4 = 0

VARIABLES
  message,   \* the mutable message
  expected,  \* history: the values it should have
  output,    \* the words serialized from it as it is now, if they were
  loads

mutableVars == <<message, expected, output, loads>>

Messages == {k \in DOMAIN Kinds : Kinds[k] = "message"}

Flat == DOMAIN Kinds \ Messages

\* A message made from words, or a new one when there are none.
Fresh(words, n) == [words |-> words, accessed |-> {}, slots |-> [k \in 1..n |-> <<>>]]

New(kinds) == Fresh(<<>>, Len(kinds))

-----------------------------------------------------------------------------
\* The generated DetectLen of a message in a field.
NestedLength(words) ==
  LET texts == {k \in DOMAIN NestedKinds : NestedKinds[k] = "text" /\ HasField(words, k)}
  IN  DetectWhole(words, texts, [k \in texts |-> TextLength(ObjectWords(words, k))])

\* Of the words from an object on, those that it takes.
Extent(kind, words) ==
  SubSeq(words, 1, IF kind = "message" THEN NestedLength(words) ELSE TextLength(words))

\* detect: the words of a field that is there, and no others.
Detected(words, kind, k) ==
  IF kind = "scalar" THEN RawWords(words, k) ELSE Extent(kind, ObjectWords(words, k))

(***************************************************************************)
(* decode: the default when the field is not there.  A message keeps the   *)
(* words from its first one to the end of the enclosing slice; its slot    *)
(* (LazyMessage) is empty or holds one message.                            *)
(***************************************************************************)
Decoded(words, kind, k) ==
  IF words = <<>> \/ ~HasField(words, k) THEN <<>>
  ELSE IF kind = "message" THEN <<Fresh(ObjectWords(words, k), Len(NestedKinds))>>
  ELSE Detected(words, kind, k)

\* Seeded fault: a field is decoded on every access.
GetFieldAgain(m, kinds, k) ==
  [m EXCEPT !.accessed = @ \cup {k}, !.slots[k] = Decoded(m.words, kinds[k], k)]

\* get_field: the first access decodes the field.
GetField(m, kinds, k) ==
  IF k \in m.accessed THEN m
  ELSE [m EXCEPT !.accessed = @ \cup {k}, !.slots[k] = Decoded(m.words, kinds[k], k)]

\* The getter of a message makes a new one when there is none.
GetMessage(m, k) ==
  [GetField(m, Kinds, k) EXCEPT !.slots[k] = IF @ = <<>> THEN <<New(NestedKinds)>> ELSE @]

\* What the getters return.
NestedContent(m) == [k \in DOMAIN NestedKinds |-> GetField(m, NestedKinds, k).slots[k]]

ContentOf(m) ==
  [k \in DOMAIN Kinds |-> IF k \in Messages THEN NestedContent(GetMessage(m, k).slots[k][1])
                          ELSE GetField(m, Kinds, k).slots[k]]

-----------------------------------------------------------------------------
EmptyBuffer == [data |-> <<>>, len |-> 0]

CopyWords(words, b, fold) ==
  IF fold /\ Len(words) < 4 THEN [unit |-> InlineUnit(words), buf |-> b]
  ELSE [unit |-> SegmentUnit(b.len, b.len + Len(words)), buf |-> PutWords(b, words)]

\* A field that was not accessed.
CopyField(m, kinds, k, b) ==
  IF m.words = <<>> \/ ~HasField(m.words, k) THEN [unit |-> EmptyUnit, buf |-> b]
  ELSE CopyWords(Detected(m.words, kinds[k], k), b, TRUE)

\* serialize_bytes: a single word stays inline, and so does the empty text's.
TextUnit(v, b) ==
  IF Len(v) <= 1 THEN [unit |-> InlineUnit(IF v = <<>> THEN <<0>> ELSE v), buf |-> b]
  ELSE CopyWords(v, b, FALSE)

Encoded(kind, v, b) ==
  IF kind = "scalar" THEN [unit |-> InlineUnit(v), buf |-> b] ELSE TextUnit(v, b)

\* Seeded fault: what was left out stays in the buffer.
DroppedInPlace(done) == [unit |-> EmptyUnit, buf |-> done.buf]

Dropped(done) ==
  [unit |-> EmptyUnit,
   buf  |-> IF IsSegment(done.unit) THEN Shrink(done.buf, done.unit.len) ELSE done.buf]

\* omits_default_after_encode: what every type but messages turns off.
OmitsDefault(kind) == kind = "message"

\* folds_when_present: what the scalar types turn off.
Folds(kind) == kind # "scalar"

\* Seeded fault: texts are left out, too, when they are a single word.
PlacedUnasked(kind, done) ==
  IF kind # "scalar" /\ UnitSize(done.unit) = 1 THEN Dropped(done)
  ELSE IF kind = "scalar" THEN done
  ELSE Folded(done.unit, done.buf)

\* An encoded field is left out when it is a single word, folded, or stays where
\* it is, as its type says.
Placed(kind, done) ==
  IF OmitsDefault(kind) /\ UnitSize(done.unit) = 1 THEN Dropped(done)
  ELSE IF Folds(kind) THEN Folded(done.unit, done.buf)
  ELSE done

\* serialize_field.
FlatField(m, kinds, k, b) ==
  IF k \notin m.accessed THEN CopyField(m, kinds, k, b)
  ELSE IF m.slots[k] = <<>> THEN [unit |-> EmptyUnit, buf |-> b]
  ELSE Placed(kinds[k], Encoded(kinds[k], m.slots[k], b))

Clean(m) == m.words # <<>> /\ m.accessed = {}

After(done, parts) == [units |-> <<done.unit>> \o parts.units, buf |-> done.buf]

NestedPart(m, k, parts) == After(FlatField(m, NestedKinds, k, parts.buf), parts)

\* Fields are serialized from the last to the first.
NestedParts(m, b) ==
  LET parts[k \in 1..Len(NestedKinds) + 1] ==
        IF k > Len(NestedKinds) THEN [units |-> <<>>, buf |-> b]
        ELSE NestedPart(m, k, parts[k + 1])
  IN  parts[1]

Assembled(parts, bottom) == Serialized(parts.units, parts.buf, bottom)

\* EncodeToUnit of a message in a field.
NestedToUnit(m, b) ==
  IF Clean(m) THEN CopyWords(m.words, b, FALSE) ELSE Assembled(NestedParts(m, b), b.len)

\* serialize_field of any field.
Field(m, k, b) ==
  IF k \in Messages /\ k \in m.accessed
  THEN Placed("message", NestedToUnit(m.slots[k][1], b))
  ELSE FlatField(m, Kinds, k, b)

Part(m, k, parts) == After(Field(m, k, parts.buf), parts)

Parts(m) ==
  LET parts[k \in 1..Len(Kinds) + 1] ==
        IF k > Len(Kinds) THEN [units |-> <<>>, buf |-> EmptyBuffer]
        ELSE Part(m, k, parts[k + 1])
  IN  parts[1]

\* SerializeWords.
SerializedWords(m) ==
  LET b == IF Clean(m) THEN PutWords(EmptyBuffer, m.words) ELSE Assembled(Parts(m), 0).buf
  IN  ReadAt(b, b.len, b.len)

-----------------------------------------------------------------------------
MutableInit ==
  /\ message = New(Kinds)
  /\ expected = [k \in DOMAIN Kinds |->
                  IF k \in Messages THEN [j \in DOMAIN NestedKinds |-> <<>>] ELSE <<>>]
  /\ output = <<>>
  /\ loads = 0

Becomes(m, c) ==
  /\ message' = m
  /\ expected' = c
  /\ output' = <<>>
  /\ UNCHANGED loads

\* The getters return references, which the caller may write through or not.
Read(k) == Becomes(GetField(message, Kinds, k), expected)

Write(k) ==
  \E v \in Values(k) \cup {<<>>} :
    Becomes([GetField(message, Kinds, k) EXCEPT !.slots[k] = v], [expected EXCEPT ![k] = v])

ReadMessage(k) == Becomes(GetMessage(message, k), expected)

\* A new message is assigned to the field.
ReplaceMessage(k) ==
  Becomes([GetMessage(message, k) EXCEPT !.slots[k] = <<New(NestedKinds)>>],
          [expected EXCEPT ![k] = [j \in DOMAIN NestedKinds |-> <<>>]])

ReadNested(k, j) ==
  LET got == GetMessage(message, k)
  IN  Becomes([got EXCEPT !.slots[k] = <<GetField(@[1], NestedKinds, j)>>], expected)

WriteNested(k, j) ==
  LET got == GetMessage(message, k)
  IN  \E v \in NestedValues(j) \cup {<<>>} :
        Becomes([got EXCEPT !.slots[k] = <<[GetField(@[1], NestedKinds, j) EXCEPT !.slots[j] = v]>>],
                [expected EXCEPT ![k][j] = v])

\* A message is not refused without the one around it being refused.
Serialize ==
  /\ Clean(message) \/ ~Refused(Parts(message).units)
  /\ output' = SerializedWords(message)
  /\ UNCHANGED <<message, expected, loads>>

\* FromWords of what was serialized.
Load ==
  /\ output # <<>> /\ loads < MaxLoads
  /\ message' = Fresh(output, Len(Kinds))
  /\ output' = <<>>
  /\ loads' = loads + 1
  /\ UNCHANGED expected

MutableNext ==
  \/ \E k \in Flat : Read(k) \/ Write(k)
  \/ \E k \in Messages : ReadMessage(k) \/ ReplaceMessage(k)
  \/ \E k \in Messages, j \in DOMAIN NestedKinds : ReadNested(k, j) \/ WriteNested(k, j)
  \/ Serialize \/ Load

MutableSpec == MutableInit /\ [][MutableNext]_mutableVars

-----------------------------------------------------------------------------
MutableTypeOK ==
  /\ message.accessed \subseteq DOMAIN Kinds
  /\ \A k \in Flat : message.slots[k] \in Values(k) \cup {<<>>}
  /\ \A k \in Messages : k \in message.accessed =>
       LET m == message.slots[k][1]
       IN  /\ m.accessed \subseteq DOMAIN NestedKinds
           /\ \A j \in DOMAIN NestedKinds : m.slots[j] \in NestedValues(j) \cup {<<>>}
  /\ output \in Seq(Nat)

(***************************************************************************)
(* The getters return the values last set, through any sequence of reads,  *)
(* writes and replacements, here and in messages in fields, and through    *)
(* serializing and loading.                                                *)
(***************************************************************************)
GettersReturnContent == ContentOf(message) = expected

(***************************************************************************)
(* What is serialized decodes to the values last set, whichever fields     *)
(* were copied and whatever comes along with a copied message.             *)
(* (The variables have their types.)                                       *)
(***************************************************************************)
RoundTrips == MutableTypeOK /\ (output # <<>> => ContentOf(Fresh(output, Len(Kinds))) = expected)

\* A new message all of whose fields are set.
Rebuilt(c) ==
  [words |-> <<>>, accessed |-> DOMAIN Kinds,
   slots |-> [k \in DOMAIN Kinds |->
                IF k \in Messages
                THEN <<[words |-> <<>>, accessed |-> DOMAIN NestedKinds, slots |-> c[k]]>>
                ELSE c[k]]]

\* A message in a field that was accessed while its own fields were not: it is
\* copied with everything behind it in the words that it came from.
Dragging == \E k \in Messages \cap message.accessed : Clean(message.slots[k][1])

(***************************************************************************)
(* Copying untouched fields gives the very words that encoding all values  *)
(* afresh would give: nothing is copied twice, left behind or placed       *)
(* differently because of how the message came to have its values.         *)
(***************************************************************************)
OutputIsCanonical ==
  output # <<>> /\ message.accessed # {} /\ ~Dragging => output = SerializedWords(Rebuilt(expected))
=============================================================================
