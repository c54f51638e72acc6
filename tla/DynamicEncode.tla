--------------------------- MODULE DynamicEncode ---------------------------
(***************************************************************************)
(* The dynamic encoder of protocache-extension (serialize.rs): a message   *)
(* that is only known by its descriptor is encoded into a buffer that may  *)
(* have been used before.                                                  *)
(*                                                                         *)
(* A type of the schema is the sequence of its declared fields.  A field   *)
(* holds one value, a list or a map; its `sort` is "scalar", "wide",       *)
(* "text", "bool" or "message".  A scalar is the sequence of its words, a  *)
(* text the sequence of its bytes, a boolean zero or one, a list the       *)
(* sequence of its items and a map the sequence of its pairs.  A message   *)
(* is a function that gives the fields that are set; the value of an alias *)
(* is the value of its one field.                                          *)
(***************************************************************************)
EXTENDS MessageLayout, ContainerUnits

CONSTANTS
  Schema,      \* the message types
  Values(_),   \* the messages of a type that are encoded
  MaxCalls,    \* bound on the calls with one buffer
  Roots        \* the types of the messages that are encoded

ASSUME SchemaAssumption ==
  MaxCalls \in Nat /\ \A t \in DOMAIN Schema : \A i \in 1..Len(Schema[t]) :
    Schema[t][i].sort = "message" => Schema[t][i].type \in DOMAIN Schema

VARIABLES
  buf,      \* the buffer the caller reuses
  root,     \* the message given to the last call: its type and its value
  outcome,  \* what that call returned
  calls     \* how many there have been

vars == <<buf, root, outcome, calls>>

-----------------------------------------------------------------------------
IsAlias(t) == \E i \in 1..Len(Schema[t]) : Schema[t][i].alias /\ ~Schema[t][i].deprecated

\* alias_field, as the pool applies it: every declared field counts.
AliasFits(t) ==
  Len(Schema[t]) = 1 /\ Schema[t][1].number = 1 /\ Schema[t][1].card # "one"

FieldNumbers(t) == {Schema[t][i].number : i \in 1..Len(Schema[t])}

LastNumber(t) == CHOOSE n \in FieldNumbers(t) : \A m \in FieldNumbers(t) : m <= n

MaxNumber == HeadFields + SectionFields * (SectionRange - 1)

FieldOf(t, n) == Schema[t][CHOOSE i \in 1..Len(Schema[t]) : Schema[t][i].number = n]

\* The fields that are encoded.
Encodable(t, value) ==
  {n \in FieldNumbers(t) : n \in DOMAIN value /\ ~FieldOf(t, n).deprecated}

\* Seeded fault: an alias with one word inside is taken for an absent message.
IsNothingAnyWord(unit) == UnitSize(unit) = 1

\* An empty message, or an alias of no booleans.
IsNothing(unit) == UnitSize(unit) = 1 /\ (IsSegment(unit) \/ unit.inline[1] = 0)

Shape(f) ==
  LET kind(sort) == CASE sort \in {"scalar", "bool"} -> "scalar"
                      [] sort = "wide" -> "wide"
                      [] sort \in {"text", "message"} -> "object"
  IN  IF f.card = "map" THEN <<kind(f.key), kind(f.sort)>> ELSE <<kind(f.sort)>>

RECURSIVE EncodeMessage(_, _, _), EncodeFields(_, _, _, _, _, _),
          EncodeItems(_, _, _, _, _, _), EncodePairs(_, _, _, _, _, _)

\* encode_kind_value, and encode_map_key for the sorts of keys.
EncodeOne(sort, type, value, b) ==
  CASE sort \in {"scalar", "wide"} -> Done(InlineUnit(value), b)
    [] sort = "bool" -> Done(InlineUnit(<<value>>), b)
    [] sort = "text" -> EncodeText(value, b)
    [] sort = "message" -> EncodeMessage(type, value, b)

\* Items that are messages are folded when they are short.
Item(f, done) ==
  IF done.ok /\ f.sort = "message" /\ UnitSize(done.unit) > 1 THEN Folding(done) ELSE done

AfterItem(f, items, i, units, last, done) ==
  IF done.ok THEN EncodeItems(f, items, i + 1, Append(units, done.unit), done.buf, last) ELSE done

\* The items of a list, in their order.
EncodeItems(f, items, i, units, b, last) ==
  IF i > Len(items) THEN Contained(units, b, last, Shape(f))
  ELSE AfterItem(f, items, i, units, last, Item(f, EncodeOne(f.sort, f.type, items[i], b)))

\* encode_list_field.
EncodeList(f, items, b) ==
  IF f.sort = "bool" THEN EncodeText(items, b)
  ELSE IF items = <<>> THEN Done(InlineUnit(<<IF f.sort = "wide" THEN 2 ELSE 1>>), b)
  ELSE EncodeItems(f, items, 1, <<>>, b, b.len)

\* Keys are scalars and strings.
EncodeKey(f, value, b) ==
  IF f.key = "text" THEN EncodeText(value, b) ELSE Done(InlineUnit(value), b)

AfterValue(f, pairs, i, units, last, key, done) ==
  IF done.ok THEN EncodePairs(f, pairs, i - 1, <<key, done.unit>> \o units, done.buf, last)
  ELSE done

AfterKey(f, pairs, i, units, last, done) ==
  IF done.ok
  THEN AfterValue(f, pairs, i, units, last, done.unit,
                  EncodeOne(f.sort, f.type, pairs[i][2], done.buf))
  ELSE done

\* The pairs of a map, from the last position to the first.
EncodePairs(f, pairs, i, units, b, last) ==
  IF i = 0 THEN Contained(units, b, last, Shape(f))
  ELSE AfterKey(f, pairs, i, units, last, EncodeKey(f, pairs[i][1], b))

\* The pairs by their positions in the index.
Ordered(pairs) ==
  [p \in 1..Len(pairs) |-> pairs[CHOOSE i \in 1..Len(pairs) : Position(Len(pairs), i) = p]]

\* encode_map_field.
EncodeMap(f, pairs, b) ==
  IF pairs = <<>> THEN Done(InlineUnit(C!EmptyContainer(Shape(f))), b)
  ELSE EncodePairs(f, Ordered(pairs), Len(pairs), <<>>, b, b.len)

\* encode_field_value.
EncodeField(f, value, b) ==
  CASE f.card = "map" -> EncodeMap(f, value, b)
    [] f.card = "list" -> EncodeList(f, value, b)
    [] f.card = "one" -> EncodeOne(f.sort, f.type, value, b)

\* A message without content is no field; a short field is folded.
Stored(f, done) ==
  IF done.ok /\ f.card = "one" /\ f.sort = "message" /\ IsNothing(done.unit)
  THEN Done(EmptyUnit, IF IsSegment(done.unit) THEN Shrink(done.buf, 1) ELSE done.buf)
  ELSE IF done.ok THEN Folding(done) ELSE done

AfterField(t, value, n, units, last, done) ==
  IF done.ok THEN EncodeFields(t, value, n, [units EXCEPT ![n] = done.unit], done.buf, last)
  ELSE done

PutMessage(units, b, last) ==
  IF Refused(units) THEN Failed(b) ELSE Result(Serialized(units, b, last))

Highest(numbers) == CHOOSE n \in numbers : \A m \in numbers : m <= n

\* The fields below number `end`, from the last one down; then the message is
\* put before them.
EncodeFields(t, value, end, units, b, last) ==
  LET todo == {n \in Encodable(t, value) : n < end}
      n    == Highest(todo)
  IN  IF todo = {} THEN PutMessage(units, b, last)
      ELSE AfterField(t, value, n, units, last,
                      Stored(FieldOf(t, n), EncodeField(FieldOf(t, n), value[n], b)))

\* encode_dynamic_message.
EncodeMessage(t, value, b) ==
  IF IsAlias(t)
  THEN IF AliasFits(t) THEN EncodeField(Schema[t][1], value, b) ELSE Failed(b)
  ELSE IF Schema[t] = <<>> \/ LastNumber(t) > MaxNumber THEN Failed(b)
  ELSE EncodeFields(t, value, LastNumber(t) + 1, [n \in 1..LastNumber(t) |-> EmptyUnit], b, b.len)

Cleared(b) == [b EXCEPT !.len = 0]

\* A unit that stayed inline becomes the whole output.
Returned(done) ==
  IF done.ok /\ ~IsSegment(done.unit)
  THEN [done EXCEPT !.buf = PutWords(Cleared(done.buf), done.unit.inline)]
  ELSE done

Outcome(done) == IF done.ok THEN "encoded" ELSE "failed"

\* Seeded fault: the buffer is not cleared before the call.
SerializedRootAfter(t, value, b) == Returned(EncodeMessage(t, value, b))

\* serialize_dynamic_message_into_buffer.
SerializedRoot(t, value, b) == Returned(EncodeMessage(t, value, Cleared(b)))

-----------------------------------------------------------------------------
EmptyBuffer == [data |-> <<>>, len |-> 0]

Init == buf = EmptyBuffer /\ root = <<>> /\ outcome = "none" /\ calls = 0

Serialize ==
  /\ calls < MaxCalls
  /\ calls' = calls + 1
  /\ \E t \in Roots : \E value \in Values(t) :
       LET done == SerializedRoot(t, value, buf)
       IN  buf' = done.buf /\ root' = <<t, value>> /\ outcome' = Outcome(done)

Next == Serialize

Spec == Init /\ [][Next]_vars
=============================================================================
