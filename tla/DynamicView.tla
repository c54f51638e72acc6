---------------------------- MODULE DynamicView ----------------------------
(***************************************************************************)
(* What a reader sees of the words the dynamic encoder returned, by the    *)
(* descriptor of the message, and what the encoder promises its caller.    *)
(***************************************************************************)
EXTENDS DynamicEncode

\* object_words: from the words of a field to those of its object.
Object(tail) ==
  IF IsOffset(tail[1]) THEN SubSeq(tail, tail[1] \div 4 + 1, Len(tail)) ELSE tail

FieldTail(words, n) == SubSeq(words, FieldStart(words, n) + 1, Len(words))

RECURSIVE Vanishes(_, _), Shows(_, _, _), ShowsOne(_, _, _, _, _), Extent(_, _), ExtentOne(_, _, _)

\* A message that is encoded like one that is not there.
Vanishes(t, value) ==
  IF IsAlias(t) THEN Schema[t][1].sort = "bool" /\ value = <<>>
  ELSE \A n \in Encodable(t, value) :
         /\ FieldOf(t, n).card = "one" /\ FieldOf(t, n).sort = "message"
         /\ Vanishes(FieldOf(t, n).type, value[n])

\* One value: `width` words, or the object at the beginning of `tail`.
ShowsOne(sort, type, tail, width, value) ==
  CASE sort \in {"scalar", "wide"} -> SubSeq(tail, 1, width) = value
    [] sort = "bool" -> SubSeq(tail, 1, width) = <<value>>
    [] sort = "text" -> IsString(Object(tail)) /\ StringBytes(Object(tail)) = value
    [] sort = "message" -> Shows(type, Object(tail), value)

ShowsList(f, words, items) ==
  IF f.sort = "bool" THEN IsString(words) /\ StringBytes(words) = items
  ELSE /\ C!ReadCount(words, Shape(f)) = Len(items)
       /\ \A k \in 1..Len(items) :
            ShowsOne(f.sort, f.type, C!FieldTail(words, Shape(f), k),
                     C!ReadWidths(words, Shape(f))[1], items[k])

ShowsMap(f, words, pairs) ==
  /\ C!ReadCount(words, Shape(f)) = 2 * Len(pairs)
  /\ \A i \in 1..Len(pairs) :
       LET slot   == 2 * Position(Len(pairs), i)
           widths == C!ReadWidths(words, Shape(f))
       IN  /\ ShowsOne(f.key, "", C!FieldTail(words, Shape(f), slot - 1), widths[1], pairs[i][1])
           /\ ShowsOne(f.sort, f.type, C!FieldTail(words, Shape(f), slot), widths[2], pairs[i][2])

ShowsField(f, tail, width, value) ==
  CASE f.card = "map" -> ShowsMap(f, Object(tail), value)
    [] f.card = "list" -> ShowsList(f, Object(tail), value)
    [] f.card = "one" -> ShowsOne(f.sort, f.type, tail, width, value)

\* A view of `words` as a message of type t shows `value`.
Shows(t, words, value) ==
  IF IsAlias(t) THEN ShowsField(Schema[t][1], words, 0, value)
  ELSE \A n \in FieldNumbers(t) :
         LET f     == FieldOf(t, n)
             there == n \in Encodable(t, value)
                        /\ ~(f.card = "one" /\ f.sort = "message" /\ Vanishes(f.type, value[n]))
         IN  IF there
             THEN /\ HasField(words, n)
                  /\ ShowsField(f, FieldTail(words, n), FieldIn(words, n).width, value[n])
             ELSE ~HasField(words, n)

-----------------------------------------------------------------------------
(* DetectLen of the generated bindings for the same types.                 *)

ExtentOne(sort, type, words) ==
  CASE sort = "text" -> StringLength(words)
    [] sort = "message" -> Extent(type, words)
    [] OTHER -> 0

ExtentContainer(f, words) ==
  IF f.card = "list" /\ f.sort = "bool" THEN StringLength(words)
  ELSE IF C!ReadCount(words, Shape(f)) = 0 THEN 1
  ELSE LET shape == Shape(f)
           sort(k) == IF f.card = "map" /\ k % 2 = 1 THEN f.key ELSE f.sort
       IN  C!DetectedExtent(words, shape,
             [k \in 1..C!ReadCount(words, shape) |->
               ExtentOne(sort(k), f.type, Object(C!FieldTail(words, shape, k)))])

Objects(t) ==
  {n \in FieldNumbers(t) : ~FieldOf(t, n).deprecated
     /\ (FieldOf(t, n).card # "one" \/ FieldOf(t, n).sort \in {"text", "message"})}

\* Words of a message, with everything it refers to.
Extent(t, words) ==
  IF IsAlias(t) THEN ExtentContainer(Schema[t][1], words)
  ELSE LET there == {n \in Objects(t) : HasField(words, n)}
       IN  DetectWhole(words, there,
             [n \in there |->
               IF FieldOf(t, n).card = "one"
               THEN ExtentOne(FieldOf(t, n).sort, FieldOf(t, n).type, Object(FieldTail(words, n)))
               ELSE ExtentContainer(FieldOf(t, n), Object(FieldTail(words, n)))])

-----------------------------------------------------------------------------
Words == ReadAt(buf, buf.len, buf.len)

Type == root[1]

Value == root[2]

\* The variables are of their types.
TypeOK ==
  /\ buf \in Buffer /\ buf.len <= Allocated(buf)
  /\ outcome \in {"none", "encoded", "failed"}
  /\ outcome # "none" => Type \in Roots
  /\ outcome = "encoded" => buf.len > 0

\* A view of the words shows the message, whatever nests in it, is folded into
\* the words around it, is left out for being empty, or is put at the position
\* the index chose; and whatever follows the words in a longer slice.  (The
\* variables have their types.)
ReadsBack ==
  /\ TypeOK
  /\ outcome = "encoded" =>
       \A rest \in {<<>>, <<3>>, <<9, 9>>} : Shows(Type, Words \o rest, Value)

\* The detector that copies a field which was not touched finds the end of the
\* words: the scan meets the object that was put deepest, at every level.
DetectsExactExtent == outcome = "encoded" => Extent(Type, Words \o <<7, 7>>) = Len(Words)

\* What the buffer was used for before, and whether that call failed half-way,
\* has no part in the words.
IgnoresEarlierUse ==
  outcome = "encoded" =>
    LET fresh == SerializedRoot(Type, Value, EmptyBuffer)
    IN  fresh.ok /\ Words = ReadAt(fresh.buf, fresh.buf.len, fresh.buf.len)
=============================================================================
