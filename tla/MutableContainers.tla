------------------------- MODULE MutableContainers -------------------------
(***************************************************************************)
(* MutableArray and MutableMap of mutable.rs: owned containers with a      *)
(* dirty flag, decoded from words and encoded into a buffer that goes on   *)
(* being used.                                                             *)
(*                                                                         *)
(* A type is a record: its `kind` is "scalar", "wide", "bool", "text",     *)
(* "array" or "map"; an array or a map has the type of its items, and a    *)
(* map a type of keys, "scalar" or "text".  A scalar is the sequence of    *)
(* its words, a text that of its bytes, a boolean zero or one.  A          *)
(* container is its items, a sequence or a function from the keys, with    *)
(* its flag.                                                               *)
(***************************************************************************)
EXTENDS ContainerUnits, FiniteSets

CONSTANTS
  Types,     \* the types of the containers at hand
  Plain(_),  \* values of a type that is no container
  MaxItems,  \* bound on the items of a container
  MaxEdits,  \* bound on the edits
  MaxUnits   \* bound on the encodings into one buffer

ASSUME ContainersAssumption ==
  MaxItems \in Nat /\ MaxEdits \in Nat /\ MaxUnits \in Nat

VARIABLES
  type,      \* of the container
  value,     \* the container
  original,  \* history: what it held when it was made or decoded
  buf,       \* the buffer it is encoded into
  encoded,   \* what was returned for it, with what it held
  edits      \* how many there have been

vars == <<type, value, original, buf, encoded, edits>>

IsContainer(t) == t.kind \in {"array", "map"}

NoEntries == [k \in {} |-> 0]

New(t) == [items |-> IF t.kind = "array" THEN <<>> ELSE NoEntries, dirty |-> FALSE]

Put(entries, k, v) ==
  [l \in DOMAIN entries \cup {k} |-> IF l = k THEN v ELSE entries[l]]

RECURSIVE Content(_, _), IsDirty(_, _), Fresh(_), Edited(_, _)

\* The values alone, without the flags.
Content(t, v) ==
  IF IsContainer(t) THEN [k \in DOMAIN v.items |-> Content(t.item, v.items[k])] ELSE v

\* is_dirty, has_nested_dirty.
IsDirty(t, v) ==
  /\ IsContainer(t)
  /\ v.dirty \/ \E k \in DOMAIN v.items : IsDirty(t.item, v.items[k])

-----------------------------------------------------------------------------
(* Values to put in: those of a plain type; new containers, and containers *)
(* made from a vector or a hash map of one item.                           *)

Fresh(t) ==
  CASE ~IsContainer(t) -> Plain(t)
    [] t.kind = "array" -> {New(t)} \cup {[New(t) EXCEPT !.items = <<v>>] : v \in Fresh(t.item)}
    [] t.kind = "map" ->
         {New(t)} \cup {[New(t) EXCEPT !.items = Put(NoEntries, k, v)] : k \in Plain(t.key), v \in Fresh(t.item)}

With(items) == [items |-> items, dirty |-> TRUE]

Growing(v) == Cardinality(DOMAIN v.items) < MaxItems

Clear(t) == {With(New(t).items)}

\* push, and extend by one value.
Push(t, v) ==
  {With(Append(v.items, x)) : x \in IF Growing(v) THEN Fresh(t.item) ELSE {}}

Insert(t, v) ==
  UNION {{With(Put(v.items, k, x)) : x \in IF Growing(v) \/ k \in DOMAIN v.items THEN Fresh(t.item) ELSE {}} :
         k \in Plain(t.key)}

\* The key need not be there.
RemoveKey(t, v) ==
  {With([l \in DOMAIN v.items \ {k} |-> v.items[l]]) : k \in Plain(t.key)}

\* Seeded fault: writing an item through a reference leaves the flag alone.
ThroughQuietly(t, v) ==
  UNION {{[v EXCEPT !.items[k] = x] : x \in Fresh(t.item) \cup Edited(t.item, v.items[k])} : k \in DOMAIN v.items}

\* A reference to an item, from index_mut, get_mut, as_mut_slice or iter_mut: the
\* item is written, or edited when it is a container itself.
Through(t, v) ==
  UNION {{With([v.items EXCEPT ![k] = x]) : x \in Fresh(t.item) \cup Edited(t.item, v.items[k])} : k \in DOMAIN v.items}

\* A reference that is not used, or a key that was not found.
Touch(v) == {With(v.items)}

\* What one call, and a write through the reference it returned, make of a container.
Edited(t, v) ==
  IF ~IsContainer(t) THEN {}
  ELSE Clear(t) \cup Through(t, v) \cup Touch(v)
         \cup (IF t.kind = "array" THEN Push(t, v) ELSE Insert(t, v) \cup RemoveKey(t, v))

-----------------------------------------------------------------------------
(* encode_to_unit.                                                         *)

Shape(t) ==
  LET kind(u) == CASE u.kind \in {"scalar", "bool"} -> "scalar" [] u.kind = "wide" -> "wide" [] OTHER -> "object"
  IN  IF t.kind = "map" THEN <<kind(t.key), kind(t.item)>> ELSE <<kind(t.item)>>

\* encode_array of the scalar types: no units, the words one after another.
EncodeScalars(t, items, b) ==
  IF items = <<>> THEN Done(InlineUnit(<<IF t.item.kind = "wide" THEN 2 ELSE 1>>), b)
  ELSE Closed(PutWords(b, C!Layout(items, Shape(t))), b.len)

RECURSIVE Encode(_, _, _), EncodeItems(_, _, _, _, _, _), EncodePairs(_, _, _, _, _, _)

\* Seeded fault: the units are kept in the order they are made in.
AfterItemAppended(t, items, i, units, last, done) ==
  IF done.ok THEN EncodeItems(t, items, i - 1, Append(units, done.unit), done.buf, last) ELSE done

AfterItem(t, items, i, units, last, done) ==
  IF done.ok THEN EncodeItems(t, items, i - 1, <<done.unit>> \o units, done.buf, last) ELSE done

\* encode_object_array: from the last item to the first.
EncodeItems(t, items, i, units, b, last) ==
  IF i = 0 THEN Contained(units, b, last, Shape(t))
  ELSE AfterItem(t, items, i, units, last, Encode(t.item, items[i], b))

AfterKey(t, pairs, i, units, last, value_, done) ==
  IF done.ok THEN EncodePairs(t, pairs, i - 1, <<done.unit, value_>> \o units, done.buf, last) ELSE done

AfterValue(t, pairs, i, units, last, done) ==
  IF done.ok THEN AfterKey(t, pairs, i, units, last, done.unit, Encode(t.key, pairs[i][1], done.buf)) ELSE done

\* From the last pair to the first, its value before its key.
EncodePairs(t, pairs, i, units, b, last) ==
  IF i = 0 THEN Contained(units, b, last, Shape(t))
  ELSE AfterValue(t, pairs, i, units, last, Encode(t.item, pairs[i][2], b))

\* The entries in the hash map's order, put where the index says.
Book(entries) ==
  LET memo == SetToSeq(DOMAIN entries)
      at(p) == memo[CHOOSE i \in 1..Len(memo) : Position(Len(memo), i) = p]
  IN  [p \in 1..Len(memo) |-> <<at(p), entries[at(p)]>>]

EncodeMap(t, entries, b) ==
  IF entries = NoEntries THEN Done(InlineUnit(C!EmptyContainer(Shape(t))), b)
  ELSE EncodePairs(t, Book(entries), Cardinality(DOMAIN entries), <<>>, b, b.len)

EncodeArray(t, items, b) ==
  CASE t.item.kind = "bool" -> EncodeText(items, b)
    [] t.item.kind \in {"scalar", "wide"} -> EncodeScalars(t, items, b)
    [] items = <<>> -> Done(InlineUnit(<<1>>), b)
    [] OTHER -> EncodeItems(t, items, Len(items), <<>>, b, b.len)

Encode(t, v, b) ==
  CASE t.kind \in {"scalar", "wide"} -> Done(InlineUnit(v), b)
    [] t.kind = "bool" -> Done(InlineUnit(<<v>>), b)
    [] t.kind = "text" -> EncodeText(v, b)
    [] t.kind = "array" -> EncodeArray(t, v.items, b)
    [] t.kind = "map" -> EncodeMap(t, v.items, b)

-----------------------------------------------------------------------------
(* from_words and detect.  `tail` starts at a field: at a cell or a word   *)
(* that holds the value or the offset of its object.                       *)

RECURSIVE Decode(_, _, _), Decodes(_, _, _), Extent(_, _)

Cells(t, words) == 1..C!ReadCount(words, Shape(t))

\* bool::from_words, and as_bool_array: whatever is not zero is true.
AsBool(number) == IF number # 0 THEN 1 ELSE 0

Booleans(bytes) == [i \in 1..Len(bytes) |-> AsBool(bytes[i])]

\* ScalarArray: an item is so many words on behind the header.
Scalars(t, words) ==
  LET width == C!ReadWidths(words, Shape(t))[1]
  IN  [k \in Cells(t, words) |-> SubSeq(words, width * (k - 1) + 2, width * k + 1)]

DecodeArray(t, words) ==
  CASE t.item.kind = "bool" -> Booleans(StringBytes(words))
    [] t.item.kind \in {"scalar", "wide"} -> Scalars(t, words)
    [] OTHER -> [k \in Cells(t, words) |->
                  Decode(t.item, C!FieldTail(words, Shape(t), k), C!ReadWidths(words, Shape(t))[1])]

\* A pair with a key that was met before replaces that entry.
DecodeMap(t, words) ==
  LET widths == C!ReadWidths(words, Shape(t))
      at(k, u, width) == Decode(u, C!FieldTail(words, Shape(t), k), width)
      pair(i) == <<at(2 * i - 1, t.key, widths[1]), at(2 * i, t.item, widths[2])>>
      pairs == {pair(i) : i \in 1..C!ReadCount(words, Shape(t)) \div 2}
  IN  [key \in {p[1] : p \in pairs} |-> (CHOOSE p \in pairs : p[1] = key)[2]]

Decode(t, tail, width) ==
  CASE t.kind \in {"scalar", "wide"} -> SubSeq(tail, 1, width)
    [] t.kind = "bool" -> AsBool(tail[1])
    [] t.kind = "text" -> StringBytes(C!ObjectWords(tail))
    [] t.kind = "array" -> [New(t) EXCEPT !.items = DecodeArray(t, C!ObjectWords(tail))]
    [] t.kind = "map" -> [New(t) EXCEPT !.items = DecodeMap(t, C!ObjectWords(tail))]

FromWords(t, words) ==
  [New(t) EXCEPT !.items = IF t.kind = "array" THEN DecodeArray(t, words) ELSE DecodeMap(t, words)]

\* ArrayView::new takes no width of zero.
IsArray(words) == words[1] % 4 # 0

\* Whether there is a value to decode: every accessor on the way has its words.
Width(t) == IF t.kind = "wide" THEN 2 ELSE 1

DecodesScalar(t, tail, width) == width = Width(t) /\ width <= Len(tail)

HasObject(tail) == tail # <<>> /\ (C!IsOffset(tail[1]) => tail[1] \div 4 <= Len(tail))

\* Cells that the view's header promises are in the slice.
HoldsCells(t, words) == C!FieldStart(words, Shape(t), C!ReadCount(words, Shape(t)) + 1) <= Len(words)

\* The width of an array of scalars is theirs when it is empty, too.
DecodesArray(t, words) ==
  IF t.item.kind = "bool" THEN HoldsString(words)
  ELSE /\ words # <<>> /\ IsArray(words) /\ HoldsCells(t, words)
       /\ LET width == C!ReadWidths(words, Shape(t))[1]
          IN  IF t.item.kind \in {"scalar", "wide"} THEN width = Width(t.item)
              ELSE \A k \in Cells(t, words) : Decodes(t.item, C!FieldTail(words, Shape(t), k), width)

DecodesMap(t, words) ==
  /\ words # <<>>
  /\ Cells(t, words) = {} \/ HoldsCells(t, words)
  /\ LET widths == C!ReadWidths(words, Shape(t))
     IN  /\ widths[1] # 0 /\ widths[2] # 0
         /\ \A k \in Cells(t, words) :
              Decodes(IF k % 2 = 1 THEN t.key ELSE t.item, C!FieldTail(words, Shape(t), k),
                      widths[C!Lane(Shape(t), k)])

DecodesWords(t, words) == IF t.kind = "array" THEN DecodesArray(t, words) ELSE DecodesMap(t, words)

Decodes(t, tail, width) ==
  IF t.kind \in {"scalar", "wide", "bool"} THEN DecodesScalar(t, tail, width)
  ELSE /\ HasObject(tail)
       /\ IF t.kind = "text" THEN HoldsString(C!ObjectWords(tail)) ELSE DecodesWords(t, C!ObjectWords(tail))

\* Seeded fault: the detectors of keys and of values are exchanged.
ItemTypeSwapped(t, k) == IF t.kind = "map" /\ k % 2 = 0 THEN t.key ELSE t.item

ItemType(t, k) == IF t.kind = "map" /\ k % 2 = 1 THEN t.key ELSE t.item

\* detect_array_field: words that are no array are an array of booleans.
Detected(t, words) ==
  IF t.kind = "array" /\ ~IsArray(words) THEN StringLength(words)
  ELSE IF Cells(t, words) = {} THEN 1
  ELSE C!DetectedExtent(words, Shape(t),
         [k \in Cells(t, words) |-> Extent(ItemType(t, k), C!ObjectWords(C!FieldTail(words, Shape(t), k)))])

\* Words of the object that begins here; the size of a scalar is its cell's.
Extent(t, words) ==
  CASE IsContainer(t) -> Detected(t, words)
    [] t.kind = "text" -> StringLength(words)
    [] OTHER -> 0

-----------------------------------------------------------------------------
EmptyBuffer == [data |-> <<>>, len |-> 0]

Init ==
  /\ type \in Types /\ value = New(type) /\ original = Content(type, value)
  /\ buf = EmptyBuffer /\ encoded = <<>> /\ edits = 0

Edit ==
  /\ edits < MaxEdits /\ edits' = edits + 1
  /\ value' \in Edited(type, value)
  /\ UNCHANGED <<type, original, buf, encoded>>

\* From<Vec> and From<HashMap>: a container made from values.
Make ==
  /\ edits < MaxEdits /\ edits' = edits + 1
  /\ value' \in Fresh(type)
  /\ original' = Content(type, value')
  /\ UNCHANGED <<type, buf, encoded>>

Record(done) == [ok |-> done.ok, unit |-> done.unit, content |-> Content(type, value)]

Units == {i \in 1..Len(encoded) : encoded[i].ok}

EncodeToUnit ==
  /\ Len(encoded) < MaxUnits
  /\ LET done == Encode(type, value, buf) IN buf' = done.buf /\ encoded' = Append(encoded, Record(done))
  /\ UNCHANGED <<type, value, original, edits>>

\* The words of a unit, in a slice that goes on behind them.
Slice(u) == (IF IsSegment(u) THEN ReadAt(buf, u.pos, u.pos) ELSE u.inline \o <<3>>) \o <<3, 3>>

\* The container of a unit is decoded again.
Load ==
  \E i \in Units :
    /\ DecodesWords(type, Slice(encoded[i].unit))
    /\ value' = FromWords(type, Slice(encoded[i].unit))
    /\ original' = Content(type, value')
    /\ UNCHANGED <<type, buf, encoded, edits>>

Next == Edit \/ Make \/ EncodeToUnit \/ Load

Spec == Init /\ [][Next]_vars

-----------------------------------------------------------------------------
\* Containers hold values of their type, in as many items as there may be.
RECURSIVE Fits(_, _)
Fits(t, v) ==
  IF ~IsContainer(t) THEN v \in Plain(t)
  ELSE /\ v.dirty \in BOOLEAN /\ Cardinality(DOMAIN v.items) <= MaxItems
       /\ IF t.kind = "map" THEN DOMAIN v.items \subseteq Plain(t.key) ELSE DOMAIN v.items = 1..Len(v.items)
       /\ \A k \in DOMAIN v.items : Fits(t.item, v.items[k])

TypeOK ==
  /\ type \in Types /\ Fits(type, value) /\ edits \in 0..MaxEdits
  /\ buf \in Buffer /\ buf.len <= Allocated(buf) /\ Len(encoded) <= MaxUnits
  /\ \A i \in Units : Len(encoded[i].unit.inline) < 4 /\ encoded[i].unit.len \in 0..encoded[i].unit.pos

\* "Dirty tracking is conservative, includes nested changes" (mutable.rs): a
\* container that says it is clean holds what it was made or decoded with, even
\* when an item of an item was changed through references.
DirtyIsConservative == ~IsDirty(type, value) => Content(type, value) = original

\* Every unit that was returned can be decoded to what was encoded, whatever was
\* encoded into the buffer after it or failed to be.  (The variables have their
\* types.)
UnitsReadBack ==
  TypeOK /\ \A i \in Units :
    LET slice == Slice(encoded[i].unit)
    IN  DecodesWords(type, slice) /\ Content(type, FromWords(type, slice)) = encoded[i].content

\* The detector of the field finds the unit's own words in the slice, whatever
\* containers are in the container, and however far the slice goes on.  It takes
\* all of them: of a slice that was cut short nothing is decoded, the items that
\* are still whole included (from_words answers None).
DetectsOwnWords ==
  \A i \in Units :
    LET size == UnitSize(encoded[i].unit) IN
    /\ Extent(type, Slice(encoded[i].unit)) = size
    /\ \A n \in 0..size - 1 : ~DecodesWords(type, SubSeq(Slice(encoded[i].unit), 1, n))
=============================================================================
