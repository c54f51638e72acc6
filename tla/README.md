# ProtoCache for Rust: TLA+ specifications and proofs

ProtoCache is a serialization format whose encoded form is read in place. This directory holds
TLA+ models of the Rust implementation, TLC configurations that check them on small instances, and
TLAPS proofs of the results that matter most for every instance.

The library is sequential: it starts no thread, persists nothing and exchanges no messages. What is
hard in it is the order in which words are written, moved and referred to inside one buffer that
grows at its front, the pointer structures of the perfect-hash construction, and the protocol
between lazily decoded objects and the clean words they came from. The models are therefore about
long sequences of small steps on shared state, in every order the code allows, and not about
concurrent processes.

## Inventory

| Component | State | Operations | Used by |
|---|---|---|---|
| Word buffer (`utils.rs`, `Buffer`) | storage vector, index of the first active word | grow, expand, shrink, put, read and write at a distance from the end | all encoders |
| Array and map layout (`serialize.rs`, `access.rs`) | none (a format) | choose widths, lay out header, cells and payloads; views and extent detectors | encoders, generated readers, mutable objects |
| Array and map encoders (`serialize.rs`) | the caller's `Unit`s, the buffer, `tail` | write a slot, fold a field, pick, mark, copy | mutable and dynamic objects |
| Perfect-hash index (`serialize.rs`, `perfect_hash.rs`) | linked lists of vertices, queue, two-bit values, offset table | try a seed, peel the graph, assign slots, build the table, locate | maps |
| Message encoder (`serialize.rs`) | header and section words | place up to 6387 fields, section counts | generated and dynamic messages |
| Scalars, strings, bytes (`serialize.rs`, `utils.rs`) | none | conversions | everything |
| Mutable messages, arrays, maps (`mutable.rs`) | clean words, accessed bitset, dirty flag, decoded fields | lazy get, set, encode or copy | generated bindings |
| Compression (`utils.rs`) | output vector, control bytes | compress, decompress | applications |
| Hash function (`hash.rs`) | none | 128-bit hash of seed and key | perfect-hash index |
| Descriptor pool (`reflection.rs`) | descriptors, enum names | register a file, resolve names, look up | dynamic encoding, conversion |
| Dynamic encoding (extension `serialize.rs`) | the buffer | encode a reflected message, alias handling | Protobuf and JSON bridge |
| Code generator (`protoc-gen-pcrs`) | registry of names | assign unique names, bundle files | build time |
| Protobuf and JSON bridge | none | conversions, foreign calls | applications |

How they interact: a mutable or dynamic object encodes its fields one after the other into one
buffer. An array or map writes its slots' words first, noting each as a `Unit` (up to three words
inline, or a segment at a distance from the buffer's end), then calls an encoder that compacts
these words into a container and returns one `Unit` for the whole. A map first asks for a
perfect-hash index, which fixes the order of its entries. Readers follow the words back without
copying; a mutable object that was not touched copies its original words, whose extent a detector
finds.

What is hard, and the properties that make each component correct:

- **Buffer**: positions survive reallocation; stale words in reused storage are never exposed.
- **Encoders**: moving segments within the buffer must not overwrite one still to be moved; both
  encoders must produce the same words; the subtraction on `tail` must not wrap; earlier fields'
  words stay; folded words wider than a cell take the fallback.
- **Layout and views**: what is read is what was written, whatever follows in the slice; an inline
  object never looks like an offset; a detector that stops early still finds the exact extent; the
  size compared with the limit is the size written.
- **Perfect hash**: the pointer surgery mirrors the graph; no peelable slot is lost in the queue;
  the slot taken without a test is free; assigned edges keep selecting their slots; equal keys are
  refused; a lookup finds exactly the keys that are there.
- **Messages**: a view finds every field at its number and no field that was left out, across the
  boundaries of the sections; a section's count fits its bits; the detector finds the exact extent.
- **Mutable messages**: getters and output show the values last set after any sequence of operations;
  an output does not depend on which fields were copied.
- **Mutable containers**: a container whose flag is clear holds what it was decoded with; what was
  encoded can be decoded whatever goes into the buffer afterwards; the extent is found for every type.
- **Compression**: data come back; writes through the raw pointer stay within what was reckoned with;
  no malformed stream makes the decompressor write outside its vector or hand out old bytes.
- **Descriptor pool**: a type name means what protobuf's scoping says, whatever the order of
  declarations; exactly the files that cannot be represented are refused; what is bound stays.
- **Dynamic encoding**: a view shows what was encoded, for every nesting of messages, aliases, lists
  and maps; nothing of an earlier or failed call is left in the words.
- **Code generator**: names of types differ wherever they meet, unique ones are kept, and every path
  that is written leads to its type, also where packages' modules have names like types'.

All hazards, at their lines and with the properties that cover them, are in `PROJECT.json`.

## Modules

| Module | Models |
|---|---|
| `WordBuffer` | `Buffer` as a data type. Positions are counted from the back, as the encoders count them, so that the code's `off` is `Len(data) - len`. Growth is modelled with its doubling and its zeroed storage. |
| `ContainerLayout` | the words of an encoded array or map as operators, and the readers: `ArrayView`, `MapView`, `FieldView`, `detect_array_with`, `detect_map_with`. A map is a container of two lanes: slot 2i-1 is the key and slot 2i the value of pair i. |
| `ContainerSpec` | the abstract promise of encoding: slots are written in any order, then the result is `Layout` of the contents, a refusal, or a failure of a slot's own encoding. |
| `InPlaceEncode` | the detailed encoders: writing slots in the callers' orders, `fold_field`, `pick_unit`, `mark_unit`, the copying encoder and the fallback from one to the other, in a buffer that holds earlier and stale words. Implements `ContainerSpec`. |
| `DataProofs` | lemmas about sums and concatenations, slices of sequences, units and the word buffer, which the encoders' proofs share. |
| `InPlaceEncodeProofs` | theorems about `InPlaceEncode` and its refinement of `ContainerSpec`. |
| `Units` | the `Unit` that stands for an encoded value, and `fold_field`. |
| `MessageLayout` | the words of an encoded message (`serialize_message_at`) as operators, the readers of `MessageView`, and the generated `DetectLen`. |
| `MessageEncode` | a caller that encodes its fields from the last to the first, leaving out, folding or failing, and then encodes the message. |
| `MessageProofs` | lemmas about the words and readers of `MessageLayout`, and theorems about `MessageEncode` and `MutableMessage`. |
| `MutableMessage` | a mutable message with a message in a field: `get_field`, `LazyMessage`, the generated getters, assignments through what they return, `serialize_field`, `EncodeToUnit`, `SerializeWords`, `FromWords`, on the words of `MessageLayout`. |
| `PeelSpec` | abstract peeling of a graph whose edges join three slots. |
| `PeelGraph` | `peel_graph` with its vertices, lists and queue; one action per vertex linked, slot queued, slot skipped, edge taken and vertex unlinked. Implements `PeelSpec`. |
| `PeelGraphProofs` | theorems about it, the refinement among them, and about `PeelSpec`. |
| `PerfectHash` | `build_perfect_hash_index_with_positions` from seeds to table, `locate`, the arrangement of entries by `MutableMap::encode_to_unit` and `find_bytes`/`find_scalar`. Uses `PeelSpec` for the search, which `PeelGraph` implements. |
| `PerfectHashProofs` | theorems about it. |
| `BytesLayout` | `serialize_bytes` with its variable-length mark, and how `StringView` reads it back, detects its end and refuses a slice that is too short. |
| `ContainerUnits` | what encoding one value, a text or a container comes to: a unit and the buffer after it, or a failure. For the encoders that nest containers. |
| `MutableContainers` | `MutableArray` and `MutableMap`: every edit, directly or through references into nested containers, the dirty flags, `encode_to_unit`, `from_words` and the detectors. |
| `DynamicEncode`, `DynamicView` | the dynamic encoder by schema, with aliases, lists, maps and messages in each other, in a buffer that is used again; and the reader and the detector of its words. |
| `Compression` | `compress_into` and `decompress_into`, one action per mark, with the capacity, the bytes a wide copy writes too many, and what the vector held before. |
| `CompressionProofs` | theorems about it. |
| `DescriptorPool` | `DescriptorPool::register`: description of a file's messages with the recursion of `register_message` as a stack of tasks, then binding, with every refusal. |
| `DescriptorFiles` | what the pool promises, said of the files alone: protobuf's scoping rule and which files can be represented. |
| `DescriptorPoolProofs` | theorems about both. |
| `GeneratedNames` | `build_registry` and `assign_unique_names` of the generator: one action per candidate that is tried. |
| `GeneratedModules` | the modules and extra modules of a bundle and the paths written into them, as what rustc would find there. States the properties. |
| `GeneratedNamesProofs` | theorems about both. |
| `MC*` | values of the constants for TLC. |

Correspondence of state. In `InPlaceEncode`, `buf`, `last`, `units`, `tail`, `widths`, `cells` and
`payloads` are the locals of the same names in `serialize_*_at*`; `slot` is the loop index; `content`
is a history variable that remembers what each slot was given; `pc` is the phase of the call. A
`Unit`'s `segment.pos` is kept as in the code. In `PeelGraph`, `heads`, `vertices`, `queue` (from
`queue_head` on) and `order` are the locals of `peel_graph`, numbered from 1, with 0 for `NONE`. In
`PerfectHash`, `bitmap` holds the two-bit values, `taken` is the set of slots whose flag is set, and
`table` maps a block to its count; `hash` is the edge each key has under the seed that is tried.
Key equality stands for equality of the keys' canonical bytes.

Abstractions. Words are natural numbers that are distinct per slot; those of scalars look like
offsets, those of objects do not, as their first words (string, array, map and message headers) never
do. A map's index is a constant sequence of words in the container models. Widths sit in the low
bits of a map's first word so that it fits TLC's integers. A seed may give each key any edge, so that
every outcome of the hash function and of its retries is covered and nothing depends on it.

In `MutableMessage` a value is the sequence of its words, a text's first word tells its length, and the
default is the empty sequence. Nesting is one level deep, which is enough for a message to be clean or
not while the one around it is not. An alias that is held in a `LazyMessage` behaves as a text.

In `MutableContainers` and `DynamicEncode` one encoding is one action: nothing is observed between its
steps, whose order `InPlaceEncode` and `MessageEncode` check. A failed encoding leaves its words in the
buffer, as in the code. The index of a map is constant words and puts the keys in reversed order, so that
the order of entries in the words is never that of the entries. Bytes have 16 values, so that the mark of
a text takes one or two of them.

In `Compression` one mark's two runs are one action of the compressor, whose windows (how many bytes each
copy writes) are taken from the source as the code takes them. The bytes of `out` are the storage: `len`
says how much of it is finished. Values are scaled down: runs of three literals or two special bytes,
windows of four bytes. The theorems hold for all scales.

In `DescriptorPool` a qualified name is the sequence of its identifiers. `tasks` is the stack of calls of
`register_message`; `names` are the messages of the file whose types are still to be bound. A deprecated
message takes no part in scoping, as it is not in the pool. After a refusal the caller discards the pool.
In `GeneratedNames` a name is a sequence of tokens, so that names run together as texts do; `reserved`,
`suffix` and `todo` are the locals of `assign_unique_names`. `Meaning` and `MutableMeaning` stand for rustc: a
name that two things have in one module (types, imports, modules, re-exports) stands for nothing.

`Seeded fault` definitions are variants of an operator or action with a plausible bug. They are used
by no specification; `PROJECT.json` names for each property the one that must violate it.

## Runs

Fairness is assumed in three modules, and each time of the steps of one call only: `Compression`
(`Calls`), `DescriptorPool` (`Working`) and `GeneratedNames` (`Assign`). The code is sequential and
waits for nothing, so that a call which has begun goes on. Whether another call is made is up to the
caller. `CallsReturn`, `RegistrationEnds` and `NamingEnds` say that every call ends; the other properties
are safety properties or refinements between safety specifications.

`CHECK_DEADLOCK FALSE` is set where an encoding, a build or a bounded number of calls ends and the model
then stops (all but the run of `MutableMessage`, which can always be read again); nothing in the code
waits.

Where no run lists a module's `TypeOK`, it is proved (`InPlaceEncode`, `PerfectHash`, `Compression`,
`PeelSpec`) or is the first conjunct of one of the invariants that are checked.

| Run | Shows | Bounds, and why they are enough |
|---|---|---|
| `inplace` | `UnitsIntact`, `SegmentsLaidOut`, `TailCoversUnpicked`, `EarlierWordsKept`; that both encoders implement `ContainerSpec` (`ImplementsContainer`), and `ReadsBack` and `SizeIsExact` of what they produce | arrays and maps of up to four slots with all combinations of kinds; objects of one to five words, on both sides of every cell width: gaps before, between and after kept segments, moves by less and by more than a segment's length; two pairs, so that keys' and values' segments alternate and lanes have different widths; an empty buffer that has to grow and a dirty one with two earlier words; a size limit that some contents exceed |
| `message` | `ReadsBack`, `DetectsExactExtent`, `EarlierWordsKept` | six fields of which a header word holds one and a section two, so that there are none, one or two sections, six fields need more sections than allowed, and trailing fields may be missing; objects below and above the size that is folded; a size limit that some contents exceed; a buffer with earlier and stale words that has to grow |
| `message_count` | `EveryMessageReads` is violated (see Findings) | the same with a count of two bits |
| `mutable` | `GettersReturnContent`, `RoundTrips`, `OutputIsCanonical` | a scalar, a message of a scalar and a text, and a text in the first section; every order of reads, writes, replacements and serializations; texts that stay inline, are folded and are referenced; two rounds of loading what was serialized, since the second starts from what the first copied |
| `mutable_containers` | `DirtyIsConservative`, `UnitsReadBack`, `DetectsOwnWords` | ten types: arrays and maps of plain values, of each other and of arrays of booleans; two items, three edits and two encodings, so that a container is encoded, edited through a reference into it, and encoded behind its first words; containers beyond the limit of words are refused, and so are texts too long for a container in a container, or for a map's key after its value was encoded, so that an encoding fails at each depth with words left behind it, before, after or between others |
| `dynamic` | `ReadsBack`, `DetectsExactExtent`, `IgnoresEarlierUse` | twelve message types, aliases of booleans, numbers, messages and maps among them, and two that are refused; fields in the header and in a section; two calls with one buffer, the first of which may fail |
| `peel_graph` | `ListsMirrorGraph`, `QueueCoversSingles`, refinement of `PeelSpec` | all graphs of two to four edges over 3 x 2 slots: trees, cores, repeated edges; lists of up to four vertices, removals at head, middle and end, slots queued twice and skipped |
| `perfect_hash` | `SelectsOwnSlot`, `FindsExactly`, `DuplicatesRefused` | none to four keys and lists with equal keys, two seeds, every hash; blocks of four slots so that three keys need a table. Sections of one slot make any two keys collide, so that two keys without a table are covered by the theorem `LookupsAreExact` only |
| `compression` | `RoundTrips`, `WritesFitEstimate`, `UnpackStaysInside`, `AnswersFresh`, `CallsReturn` | all mixes of the special bytes and others up to length seven, longer than two runs and a window; every stream of up to four bytes out of six, each of which may be a digit, a mark or a literal; vectors that held bytes before |
| `compression_reserve` | `WritesStayReserved` is violated (see Findings) | the same |
| `descriptor_pool` | `ReferencesResolve`, `RefusesExactlyInvalid`, `PoolMatchesFiles`, `BoundStay`, `RegistrationEnds` | one or two files per pool: names that are nested in, next to, before or after the message that uses them, with and without a package, deprecated, as messages or as enums; all shapes that the field and alias checks tell apart; map entries, and names of theirs that another type could have taken; files that declare a type again, whose descriptor is bound or not bound yet, or use another file's; a message in a message in a message at most (`MaxDepth`), as a name is looked for in each scope around it alike |
| `generated_names` | `NamesDistinct`, `MutablesDistinct`, `UniqueNamesKept`, `PathsFindTypes`, `NamingEnds` | every request of up to five out of six files: names that run together to the same text, that are another type's candidate with and without a suffix, the runtime's, a module's; packages that nest, one of which is called like a type renamed in the package around it, and one that has no types; deprecated types with types in them |

## Findings

`message_count`: a section word keeps the number of body words before the section in 14 bits.
`serialize_message_at` checks the number of sections but not this count, so that a message with more
than 16383 body words before its last section (at least 5462 fields of three words) is encoded without
an error and read wrongly, although `CHANGELOG.md:77` sets the limit at field number 6387. The
invariant of the passing run, `ReadsBack`, carries the condition `CountsFit` for this reason.

`compression_reserve`: `compress_into` clears the caller's vector and reserves its estimate minus the
capacity the vector already has (`utils.rs:290`). `Vec::reserve` counts from the length, which is zero
then, so that a vector with some capacity may be left with less than the estimate, against the comment on
the raw writes (`utils.rs:303`). The estimate itself is enough (`WritesFitEstimate`).

## Differences

Met while modelling, and not shown by a run:

- The comment of `has_field` (`mutable.rs:578`) promises an answer for fields that were set, but only
  the source words are consulted.
- `get_mut` of a map (`mutable.rs:377`) marks the map dirty "when found", and does so for an absent key,
  too. The flag stays conservative (`DirtyIsConservative`; the model has the action, `Touch`).
- A message in a field keeps the words from its first one to the end of the enclosing slice. If it is
  accessed and none of its own fields is, that whole slice is copied. Values decode correctly
  (`RoundTrips`), but the output repeats what lies behind the message, old words of changed fields
  included, against `README.md:269-270`. `OutputIsCanonical` therefore excludes the state `Dragging`.
- `Box<T>` (`mutable.rs:1003`) inherits the trait's default hooks, so that an accessed value of one word
  is left out as if it were an empty message. Boolean arrays of one to three elements are single words;
  older bindings hold an alias of one in a `Box`, and are said to remain supported (`mutable.rs:1033`).
- Types of a package are written to the package's module, next to the modules of the packages nested in it
  (`main.rs:165-171`), and `assign_unique_names` never compares the two. A nested type, whose flat name protoc
  does not know, can get such a module's name: `message A { message B }` in package `p` becomes `pub struct AB`
  beside `pub mod AB` of a package `p.AB`. Rust has one name space for types and modules and refuses this,
  although the generator is said to disambiguate names that collide (`CHANGELOG.md:24`, `README.md:186`).
  `PathsFindTypes` says for this reason that a type is found unless a module beside it has its name
  (`HasModule`); in the run some requests have such a type, `A_B` in package `a` beside package `a.A_B`.
- The names of mutable types are compared with the outermost modules, but not with that of a package all
  of whose files have no type that is registered (`main.rs:318`), although its module is written, too.
  `PathsFindTypes` excludes a mutable type with that name; the run has such a package.
- A message that is refused as a duplicate has replaced the older descriptor (`reflection.rs:237-243`).
  The documentation of `register` asks for the pool to be discarded (`reflection.rs:147`), and the model's
  caller does (`Discard`). `BoundStay` names the one descriptor that is lost.

## Proofs

`InPlaceEncodeProofs` proves, for all shapes, numbers and sizes of slots, orders of folding, buffers
and limits, that the invariant

    IInv == TypeOK /\ UnitsIntact /\ SegmentsLaidOut

holds in every reachable state. `UnitsIntact` (each unit stands for the words its slot was given) is
not inductive alone: that a move overwrites nothing needed follows from where segments lie, which
`SegmentsLaidOut` says for each phase. While slots are written in place, segments lie behind the head,
apart from each other and from the last slot to the first. While units are picked, a boundary at the
distance of `tail` from the end separates those already picked, which lie behind it, from the others,
which lie before it and still in order; a move takes the segment next to the boundary and lowers the
boundary by its length. From it follow `TailNeverUnderflows` and, with one step per action, the action
property `EarlierWordsAreKept`.

That the words end up in the right places needs a second invariant, `Faithful` (`WordsArePlaced`). It says
of each phase which words already stand where `Layout` has them: in the copying encoder the payloads and
cells gathered so far (`Gathered`), in the other one the payloads of the units picked (`Compacted`) and the
cells marked (`Marked`), all at the distances from the end that `CellStart` and `PayloadStart` compute. When
the header is written the positions cover the whole body, and words that are `Placed` are determined by their
contents, so that the result equals `Layout`, whichever encoder made it (`EncodedIsLayout`). This gives the
refinement (`EncodersImplement`): the actions that write or fail are steps of `ContainerSpec`, those that
pick, copy and mark are stutters, and the two that complete a header are its encoding or refusal. From
`EncodedIsLayout` follow `EncodersReadBack` (the views, given the encoded words and whatever stands behind
them, find every slot's words) and `SizesAreExact`.

Where the words of a container stand is the first part of the module: `Layout` puts every word where
`CellStart` and `PayloadStart` say (`LayoutPlaced`), nothing else does (`PlacedUnique`), and the readers find
slots at these places (`LayoutReads`, `LayoutExtent`).

`DataProofs` holds what these and the theorems about messages rest on. Sums and concatenations of the
layouts are defined with the folds of the community modules. The induction they need is done over sets: a
nonempty set of natural numbers has a least member (`LeastNat`, from the library's `WFMin`), so a set that
holds 0 and is closed under successor below k holds all of 0..k (`Climb`). From it: a sum over a set does not
depend on the order in which the library's fold takes its members (`SumWithout`), and each word of a
concatenation belongs to one part (`FlattenPlaces`, `InPart`). The module also holds what is needed of the
buffer: which words expand, shrink, write and overlapping copy keep, and that growth keeps distances from
the end.

`MessageProofs` proves for every number of fields, of fields in the header word and in a section, and
of sections, that a view finds every field (`MessageReadsBack`), that the generated detector finds the
message's end (`MessageExtentIsExact`) and that earlier words stay (`MessageKeepsEarlierWords`). Its first part
is about operators. A number with the widths as its digits gives each of them back, and the sum of the lowest
of them (`DigitsRead`), whatever is put above; so the header word and the sections' marks, which hold a count
above the widths, read as the widths and body words that went into them (`MarksRead`, `SectionReads`). The
words of a message stand one behind the other (`BlockPlaced`), so `field_in` finds the width of a field and
the number of words before it (`FieldInIs`), and nothing beyond the last field that is there. This is where
counts that fit their bits are needed, and the only place. The second part says what the caller does. Its
invariant is

    MessageInv == Consistent /\ Working /\ FieldsFound /\ DetectsExactExtent

`Consistent` is type correctness. `Working` says, until the message is encoded, that every unit holds its
field's content (`Filled`): nothing, the words themselves, or a segment behind `last` in which they stand; and
that the fields still to be encoded are empty. A field that is written disturbs no other one because an object
is put before all words in the buffer, and folding takes back its own words only. The detector needs more than
that. It stops at the first object, from the last field on backwards, that ends beyond the body, and this must
be the one whose end is the message's own: of all fields that have a segment, the last one lies directly on
the words that were there before the message, and without such fields there is nothing on them (`Adjacent`).
`FieldsFound` and `DetectsExactExtent` speak of the encoded message, which does not change any more.

The third part proves about `MutableMessage`, for all kinds of fields, all values and any number of loads, that
the getters return the values last set (`MutableReturnsContent`), that what is serialized decodes to them
(`MutableRoundTrips`), and that it is what encoding all values afresh would give, word for word, unless a
message is copied with what lies behind it (`MutableOutputIsCanonical`). Its invariant is

    MutableInv == /\ Holds(message, expected)
                  /\ output = <<>> \/ ShowsAll(output, expected)
                  /\ OutputIsCanonical

`Holds` says of each field where its value is: in its slot once an accessor has touched it, and in the words
the message was made from until then. The same is said of a message in a field (`NestedHolds`). That its words
hold its values is not enough of an invariant, as they reach beyond it, to the end of the enclosing slice, and
may be copied with all that to another place, where other words follow. `Carries` therefore says of words that
whatever begins with them is read as those values and detected as that long, and `NestedHolds` that the words
begin with such. It survives copying, clean or detected (`CleanNestedCopied`, `MessageCopied`), and it is what
encoding afresh makes (`NestedAssembled`), where the theorems' lemmas about blocks come in. `Appended` says what
encoding one field does, of whatever kind, so that all fields encoded one after the other make units that hold
their contents (`MessageGathered`), and the message assembled from them shows each value (`OutputShows`). What
shows the values can be loaded (`FreshHolds`). With one lemma per action, an accessor is `Put`: it puts into the
slot the value that the field had (`FieldGot`, `MessageGot`), or the one it is given.

That the words are the same needs a comparison of two encodings, in two buffers of which one may have held
words before: `Above` says that what the one holds, the other holds before those, and `AlikeUnits` that units
stand for the same words in them. What a field comes to is determined by its content (`AppendedAlike`), whether it
was copied, encoded or folded; offsets are distances, so that where a message stands changes none of its words
(`BlocksAlike`, `SerializedAlike`, `PartsAlike`). By `NestedSame`, a message in a field is encoded to the words
`NestedWords` of its values, however it came to have them. `Carries` keeps this of the words it was loaded from,
so a field that was not accessed is copied as the words that encoding it would give (`MessageCopied`). All fields
but those that drag something along then have one content per value (`FieldExact`), which carries over to the
message (`PartsSame`, `OutputSame`).

An object of up to three words whose first word looked like an offset would be taken for one when it is
folded. A text's first word is a multiple of four (`Fits`), and a message's ends in the low bits of the number of
its sections, of which there are none in a message of at most three words (`BlockIsHead`).

`PeelGraphProofs` proves for every graph, of any size, that the vertices of each slot form one doubly linked
list of the edges that are left there (`ListsAreThreaded`), that no slot with a single vertex is ever missing
from the queue (`QueueIsComplete`), and that the whole implements `PeelSpec` (`PeelGraphPeels`). The
invariant's parts are `ListsMirrorGraph`, stated with a threading of each slot's vertices that linking
extends at the head and unlinking closes; `QueueInv`, which says where a slot with a single vertex is
accounted for in each phase (`Covered`: queued, not yet looked at, or held by the edge whose vertices are
being unlinked); and `PhaseInv`, which says that no edge is taken twice. Taking a queued slot's only edge is a
step of `PeelSpec`. When the queue runs empty, no slot has a single vertex, and as many edges taken as there
are means all of them (`AllTaken`, by cardinality), so that success and failure are `PeelSpec`'s. What the
specification promises its caller then holds of the code's lists (`PeelGraphServesCaller`): whatever the
order of peeling, each peeled edge brings a slot which neither the edges peeled later nor the ones left touch
(`PeelingBringsFreeSlots`), and a set of edges in which every slot is shared is never peeled, while a stuck
graph is one (`PeelingKeepsCores`).

`PerfectHashProofs` proves `SelectsOwnSlot`, `DuplicatesRefused` and `FindsExactly` for every hash,
list of keys and size of sections, blocks and table entries, from an invariant `IInv` of five parts.
`OrderInv` says of the peeling order what makes the rest work: an edge has a slot which no edge that
comes later in the order, or is left, touches. Two edges with the same ends cannot both be in such an
order, so a peeled graph has no equal keys (`DistinctInv`). Read backwards, the slot is one that no
assigned edge touches, so `taken`, the union of the assigned edges' ends (`AssignInv`), does not
contain it: the third branch of the assignment needs no test, the chosen slot is at no end of an older
edge, and older edges keep their sums. `TableInv` ties table and entries to the finished bitmap. From
`IInv`, `RankCounts` shows that table entry plus count in the block is the number of slots in use
before a slot: at most as many as keys, which `TableAssumption` says fits the table's width. These
numbers differ and are below the number of keys, so no entry is lost when they are arranged. The
module repeats the free-slot argument of `PeelGraphProofs` for its own variables, because its `PeelOne`
and `Stuck` are `PeelSpec`'s steps followed by the caller's.

`CompressionProofs` proves for every limit on runs, window size, vector, datum and stream that
`compress_into`'s estimate covers its writes and that `unpack` stays within its vector. The heart of the
first is `LeadBounded`, a bound on `Lead`, the number of bytes by which the storage used (without the
header) is ahead of the source consumed. A mark costs a byte, and a pair of full literal runs pays for
its mark exactly. A short run is followed by a special byte, and the run that begins there makes good
for what is missing, so that the bound is laxer by less than a run wherever the next byte is special.

`AnswersAreFresh` (nothing the vector held before is handed out as this call's answer) follows from `BytesInv`:
all of `src`, and what lies before `len` in `out`, are bytes, while the numbers the model puts into a vector
before a call need not be. A run's nibble fits half a mark, a digit and its flag fit a byte, and unpacking
writes bytes of the source or fills.

`DataComeBack` (decompressing gives what was compressed) relates two loops whose iterations agree only mark by
mark. `Covers` says that a stream's bytes up to `e` stand for the data up to `d`: there is a set of pairs of
places, one in the stream and one in the data, that ends in `<<e, d>>` and from each of whose members a mark,
with its literals behind it, leads to another one. A set does what an induction over the marks would do: the
compressor's step adds a pair at the end (`CoversMore`, `EncodingGrows`), the decompressor's step, which starts
at a member, goes on to the next (`TripUnpack`), and only the last pair is at the stream's end (`TripEnds`).
`TripInv` says so of each phase. Beside it, one nibble unpacks to the run it was packed from (`RunUnpacks`),
and the digits of the header determine the size (`SizeReads`, from `DigitsDetermine`).

The module's assumptions: a power's recurrence, for which the provers have no rule (`PowersAssumption`); that
two nibbles and a flagged digit fit a byte and that inputs are bytes (`BytesAssumption`); and that no datum
needs more digits than the decompressor reads (`SizesAssumption`: `VarintBytes` digits are 35 bits, so that
only data of 32 GiB or more are left out, which `decompress_into` refuses). TLC evaluates them.

`DescriptorPoolProofs` proves for all files that a pool between calls is closed under references and that
no step changes or drops a descriptor that is bound, failing ones included, but the one whose name a message
declares again, in the step that refuses this message (`BoundStay`). The invariant, `PoolInv`, says that every descriptor in the
pool is bound to types of the pool, unless its name is listed in `names`, and that an alias has no other
fields. It fails only after a refusal, when the code itself leaves names unbound.

It also proves that the pool is what its files say (`PoolMatchesFiles`) and that a file is refused exactly when
it cannot be represented (`RefusesExactlyInvalid`). Both are said of the files alone, in terms of the set of
their messages, while the code goes through a tree: a message's tree (`Tree`) is the least set that has it and
what is nested in its members, and an induction over the nesting is a closure of such a set (`LiveIsLeast`,
`TreeIsLeast`). The invariant `MatchInv` says of a call (`Work`) that every message of the file is described or
in the tree of a task that waits (`Covered`); that every enum which is not known yet is in such a tree
(`EnumsOk`); that the pool has nothing but older messages and this file's (`PoolOk`); that those in `names` are
as declared and the others bound to what their names mean when the whole file is known (`Described`); and, for
refusals, that trees which wait have no names in common if no two messages of one scope have (`StayApart`), and
conversely that if nothing that still waits is alike then nothing was (`Clean`). Before a name is bound all of
the file's types are known (`AllKnown`), so that the scope in which the code stops is the innermost one that
declares the first component (`EndsInScope`, `NameIsMeaning`). TLC checked `MatchInv` on the run's files before it
was proved. In general a field is a map when its type means a map entry of the message, and the code is more
generous in one case: it takes `C.E` for the entry `E` of `C` even if `C` has a nested message that is also called
`C` (`Shadowed`). For the names of one component that a parser gives to entries, and for whole names, it is exact.
`FilesAssumption` says that files have the parts that protobuf gives them, that names are sequences of
identifiers, and that some number bounds the nesting.

`GeneratedNamesProofs` proves for every request that names are distinct and unique ones kept, from an
invariant that says of each pass: `reserved` holds every default name and every name given so far, types
that are through (`Settled`) share their name with no other type, and those in `todo` are the ones that
share their default name. Names are never looked into. That the paths lead to their types (`PathsLeadToTypes`)
needs `FoundInv` beside it: the registry is exactly what the files declare, less what is skipped, so that
all a registered type is nested in is registered and the type is written (`RegisteredAreWritten`). A path goes
up to the scope and down to the type's package, or stays where it is, and there the name is no import's, no
other type's and no re-exported mutable type's. That it is no module's does not follow, and is a condition on
each type in the property (see Differences). `DeclarationsAssumption` says that a nested declaration's parents are in the same file and are
not enums. The end of the search stays with TLC.

`PeelGraph` assumes that an edge's three ends differ (`EndsAssumption`), as they do because each is in a section
of its own. `InPlaceEncode` assumes that shapes have one lane or two, that contents are nonempty sequences of
words, that scalars have one word or two, that no object short enough for a cell begins with a word that
looks like an offset (`ValuesAssumption`, with the reason at its declaration), and that start buffers are well
formed. `MessageEncode` assumes the same of a message's scalars and objects (`ContentsAssumption`,
`ShortAssumption`, `StartAssumption`). `MutableMessage` assumes of values what their encoders guarantee
(`ValuesAssumption`), and of the numbers of fields that the counts of body words fit their bits, which the code
does not check (`SectionsAssumption`; see Findings). The other proofs assume what the modules' `ASSUME`s say of the constants. TLC evaluates these
assumptions in the runs.

Only model-checked:

- everything about `MutableContainers` and `DynamicView`. Their values nest, so that what is said of them needs
  `RECURSIVE` operators, in whose modules the provers' SMT backend is not available, or induction over the
  nesting;
- what needs fairness (`CallsReturn`, `RegistrationEnds`, `NamingEnds`), which is beyond the installed provers.

## Not modelled

- The hash function and `fast_mod`: arithmetic on 64 and 128 bits. The index does not depend on more
  than its being a function of seed and key.
- Malformed words in general. A container that is cut short is refused (`DetectsOwnWords`); words that
  no encoder wrote in another way would need models of every check in `access.rs` and a statement of what
  a reader promises for them, which the code does not give beyond not panicking.
- Conversions of numbers to and from bytes, beyond texts' marks and booleans.
- The text of generated code, but for names and paths; the behaviour of generated mutable messages and
  detectors is modelled where it runs.
- The Protobuf and JSON bridge (foreign functions, file input, conversions), the test harness and the
  benchmark.

## Plan

The plan of the first version is carried out: containers, perfect hash, messages, mutable messages and
containers, compression, descriptors, dynamic encoding and the generator's names are modelled. Left:

1. `fast_mod` at a small width, and the boundaries of `perfect_hash_layout`, with theorems.
2. Proofs: `DirtyIsConservative` for types of bounded depth.
3. Items that are lazily decoded messages in mutable containers.
