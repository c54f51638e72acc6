---------------------------- MODULE BytesLayout ----------------------------
(***************************************************************************)
(* Strings, byte strings and arrays of booleans: serialize_bytes of        *)
(* serialize.rs, and how StringView and BoolArray of access.rs read it     *)
(* back.  The first word's two low bits are never those of an offset.      *)
(***************************************************************************)
EXTENDS Units, SequencesExt

CONSTANTS
  ByteRange,   \* values of a byte: 256
  ByteLimit    \* lengths from here on are refused: 2^30

ASSUME BytesAssumption == ByteRange \in Nat /\ ByteRange % 8 = 0 /\ ByteRange > 0 /\ ByteLimit \in Nat

HalfByte == ByteRange \div 2

RECURSIVE Varint(_)

\* write_varint: seven bits per byte, lowest first; the top bit says go on.
Varint(n) ==
  IF n < HalfByte THEN <<n>> ELSE <<HalfByte + (n % HalfByte)>> \o Varint(n \div HalfByte)

\* Four bytes make a word, the lowest first; the last word is filled with zeros.
WordsOf(bytes) ==
  LET byte(i) == IF i <= Len(bytes) THEN bytes[i] ELSE 0
  IN  [w \in 1..(Len(bytes) + 3) \div 4 |->
        byte(4 * w - 3) + ByteRange * (byte(4 * w - 2)
          + ByteRange * (byte(4 * w - 1) + ByteRange * byte(4 * w)))]

BytesWords(bytes) == WordsOf(Varint(4 * Len(bytes)) \o bytes)

\* serialize_bytes, when the length is not refused: one word stays inline.
SerializedBytes(bytes, b) ==
  LET words == BytesWords(bytes) IN
  IF Len(words) = 1 THEN [unit |-> InlineUnit(words), buf |-> b]
  ELSE LET put == PutWords(b, words) IN [unit |-> SegmentUnit(b.len, put.len), buf |-> put]

-----------------------------------------------------------------------------
BytesOf(words) ==
  [i \in 1..4 * Len(words) |-> (words[(i + 3) \div 4] \div ByteRange ^ ((i - 1) % 4)) % ByteRange]

RECURSIVE ReadVarint(_, _)

\* The number that starts at byte i, and the byte after it.
ReadVarint(bytes, i) ==
  IF bytes[i] < HalfByte THEN [value |-> bytes[i], next |-> i + 1]
  ELSE LET rest == ReadVarint(bytes, i + 1)
       IN  [value |-> bytes[i] - HalfByte + HalfByte * rest.value, next |-> rest.next]

StringMark(words) == ReadVarint(BytesOf(words), 1)

\* StringView::new begins with this.
IsString(words) == words # <<>> /\ words[1] % 4 = 0

\* StringView::new: the mark ends within five bytes, and the slice holds them all.
HoldsString(words) ==
  /\ IsString(words)
  /\ \E i \in 1..5 : i <= 4 * Len(words) /\ BytesOf(words)[i] < HalfByte
  /\ StringMark(words).next - 1 + StringMark(words).value \div 4 <= 4 * Len(words)

StringBytes(words) ==
  LET mark == StringMark(words)
  IN  SubSeq(BytesOf(words), mark.next, mark.next - 1 + mark.value \div 4)

\* StringView::detect_len.
StringLength(words) ==
  LET mark == StringMark(words) IN (mark.next - 1 + mark.value \div 4 + 3) \div 4
=============================================================================
