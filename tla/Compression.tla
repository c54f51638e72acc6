---------------------------- MODULE Compression ----------------------------
(***************************************************************************)
(* The run-length compressor of protocache-core (utils.rs): compress_into  *)
(* and decompress_into, one action per iteration of their loops.           *)
(*                                                                         *)
(* A compressed stream is the size of the data in base-VarintRange digits, *)
(* then marks, each followed by the literal bytes of its runs.  A mark     *)
(* holds two nibbles, the first run in the low one: 1..LiteralMax is a run *)
(* of as many literals, LiteralMax + 1 and up a run of FillMax or fewer    *)
(* equal special bytes (0 or ByteMax), 0 is nothing.                       *)
(*                                                                         *)
(* Both loops copy Window bytes at once where the source has that many     *)
(* left, and so write past the run they copy.  The compressor writes       *)
(* through a raw pointer into capacity it has estimated; the decompressor  *)
(* into a vector that is Pad bytes longer than the data.                   *)
(*                                                                         *)
(* `out` is the caller's vector, storage written behind its length         *)
(* included; `len` is the length of what is finished in it.                *)
(***************************************************************************)
EXTENDS Integers, Sequences

CONSTANTS
  LiteralMax,     \* longest run of literals (7 in the code)
  FillMax,        \* longest run of one special byte (4)
  Window,         \* bytes copied at once (8)
  Pad,            \* room behind the data when decompressing (7)
  VarintRange,    \* values of a digit of the size (128)
  HeaderLimit,    \* digits the compressor may need for a size (10)
  VarintBytes,    \* digits the decompressor accepts (5)
  MinAlloc,       \* least capacity a vector of bytes is given (8)
  Inputs,         \* data to compress
  Streams,        \* further streams to decompress, malformed ones among them
  OldOutputs,     \* what the caller's vector holds before decompressing
  OldCapacities   \* and its capacity before compressing

ASSUME LimitsAssumption ==
  /\ LiteralMax \in Nat \ {0} /\ FillMax \in Nat \ {0}
  /\ Window \in Nat /\ LiteralMax < Window /\ FillMax <= Window
  /\ Pad \in Nat /\ Window <= Pad + 1
  /\ VarintRange \in Nat \ {0, 1} /\ HeaderLimit \in Nat /\ VarintBytes \in Nat
  /\ MinAlloc \in Nat /\ OldCapacities \subseteq Nat

\* Arithmetic the provers have no rule for.
ASSUME PowersAssumption ==
  /\ VarintRange ^ 0 = 1
  /\ \A i \in 1..HeaderLimit : VarintRange ^ i = VarintRange * VarintRange ^ (i - 1)

ASSUME DataAssumption ==
  /\ Inputs \subseteq Seq(Nat)
  /\ Streams \subseteq Seq(Nat)
  /\ OldOutputs \subseteq Seq(Nat)

VARIABLES
  pc,         \* "idle", "packing", "packed", "unpacking", "ok" or "error"
  original,   \* the data that was compressed, or NoData
  src,        \* the call's source
  pos,        \* bytes of it consumed
  out,        \* the call's vector
  len,        \* bytes of it that are finished
  capacity,   \* capacity of the compressor's vector
  limit       \* the capacity compress_into asks for, or the size decompress_into read

vars == <<pc, original, src, pos, out, len, capacity, limit>>

NibbleRange == 2 * (LiteralMax + 1)

ByteMax == NibbleRange * NibbleRange - 1

NoData == <<-1>>

Larger(a, b) == IF a < b THEN b ELSE a

\* Two nibbles fit a byte, a digit of the size and its mark do, and so does
\* all that is compressed or decompressed.
ASSUME BytesAssumption ==
  /\ 2 * FillMax <= LiteralMax + 1
  /\ 2 * VarintRange <= ByteMax + 1
  /\ \A s \in Inputs \cup Streams : \A i \in 1..Len(s) : s[i] <= ByteMax

-----------------------------------------------------------------------------
(* Runs *)

Special(byte) == byte \in {0, ByteMax}

RunLimit(first) == IF Special(first) THEN FillMax ELSE LiteralMax

SameRun(first, byte) == IF Special(first) THEN byte = first ELSE ~Special(byte)

(***************************************************************************)
(* pick_run finds a run of n bytes at position p of s: as long as it can   *)
(* be.                                                                     *)
(***************************************************************************)
IsRun(s, p, n) ==
  /\ p + n <= Len(s)
  /\ n \in 1..RunLimit(s[p + 1])
  /\ \A i \in 1..n : SameRun(s[p + 1], s[p + i])
  /\ n < RunLimit(s[p + 1]) /\ p + n < Len(s) => ~SameRun(s[p + 1], s[p + n + 1])

\* Seeded fault: a run of zeros goes on through the other special byte.
NibbleOneFill(first, n) == IF Special(first) THEN LiteralMax + n ELSE n

\* The nibble pick_run returns for a run of n bytes.
Nibble(first, n) ==
  IF Special(first)
  THEN LiteralMax + n + (IF first = 0 THEN 0 ELSE FillMax)
  ELSE n

\* Overwrite the bytes of buf behind the first `at` ones.
Put(buf, at, bytes) ==
  SubSeq(buf, 1, at) \o bytes \o SubSeq(buf, at + Len(bytes) + 1, Len(buf))

\* The n bytes behind the first p ones.
Slice(s, p, n) == SubSeq(s, p + 1, p + n)

-----------------------------------------------------------------------------
(* compress_into *)

\* varint_len: the digits of size n; the loop that pushes them stops with it.
IsHeaderLen(n, digits) ==
  /\ n < VarintRange ^ digits
  /\ digits = 1 \/ VarintRange ^ (digits - 1) <= n

\* The i-th digit of a size, the lowest first.
Digit(n, i) == (n \div VarintRange ^ (i - 1)) % VarintRange

\* No data are longer than the digits tell that decompressing accepts (five
\* digits of seven bits: 32 GiB).
ASSUME SizesAssumption ==
  \A s \in Inputs, digits \in 1..HeaderLimit :
    IsHeaderLen(Len(s), digits) => digits <= VarintBytes

Header(n, digits) ==
  [i \in 1..digits |-> IF i < digits THEN VarintRange + Digit(n, i) ELSE Digit(n, i)]

\* Seeded fault: the estimate rounds the number of marks down.
EstimateFloor(n, digits) == digits + n + n \div (2 * LiteralMax)

\* The capacity compress_into asks for.
Estimate(n, digits) == digits + n + (n + 2 * LiteralMax - 1) \div (2 * LiteralMax)

(***************************************************************************)
(* Vec::reserve(more) on an empty vector of capacity c: nothing if c bytes *)
(* hold `more`, else twice the capacity or what is asked, and no less than *)
(* MinAlloc.                                                               *)
(***************************************************************************)
Reserve(c, more) == IF more <= c THEN c ELSE Larger(Larger(2 * c, more), MinAlloc)

\* out.clear(); if out.capacity() < capacity { out.reserve(capacity - out.capacity()) }
Reserved(c, need) == IF c < need THEN Reserve(c, need - c) ELSE c

\* emit_run_raw: the n literals behind position p, or a window of bytes.
Emit(buf, at, s, p, n) ==
  Put(buf, at, Slice(s, p, IF p + Window <= Len(s) THEN Window ELSE n))

\* A run's literals, if it has any, behind what is finished.
EmitRun(buf, at, s, p, n) == IF Special(s[p + 1]) THEN buf ELSE Emit(buf, at, s, p, n)

Literals(s, p, n) == IF Special(s[p + 1]) THEN 0 ELSE n

Init ==
  /\ pc = "idle"
  /\ original = NoData
  /\ src = <<>> /\ pos = 0
  /\ out = <<>> /\ len = 0
  /\ capacity \in OldCapacities
  /\ limit = 0

\* The empty input gives the empty stream.
CompressEmpty ==
  /\ pc = "idle"
  /\ <<>> \in Inputs
  /\ pc' = "packed"
  /\ original' = <<>>
  /\ UNCHANGED <<src, pos, out, len, capacity, limit>>

Compress ==
  /\ pc = "idle"
  /\ \E s \in Inputs, digits \in 1..HeaderLimit :
       /\ s # <<>>
       /\ IsHeaderLen(Len(s), digits)
       /\ original' = s /\ src' = s
       /\ out' = Header(Len(s), digits) /\ len' = digits
       /\ limit' = Estimate(Len(s), digits)
       /\ capacity' = Reserved(capacity, Estimate(Len(s), digits))
  /\ pc' = "packing"
  /\ pos' = 0

\* One iteration that takes two runs, of n and of m bytes.
PackPair(n, m) ==
  /\ pc = "packing"
  /\ IsRun(src, pos, n) /\ pos + n < Len(src)
  /\ IsRun(src, pos + n, m)
  /\ LET first  == src[pos + 1]
         second == src[pos + n + 1]
         mark   == <<Nibble(first, n) + NibbleRange * Nibble(second, m)>>
         behind == len + 1 + Literals(src, pos, n)
     IN  /\ out' = EmitRun(EmitRun(Put(out, len, mark), len + 1, src, pos, n),
                           behind, src, pos + n, m)
         /\ len' = behind + Literals(src, pos + n, m)
  /\ pos' = pos + n + m
  /\ UNCHANGED <<pc, original, src, capacity, limit>>

\* The iteration that finds the last run alone.
PackLast(n) ==
  /\ pc = "packing"
  /\ IsRun(src, pos, n) /\ pos + n = Len(src)
  /\ out' = EmitRun(Put(out, len, <<Nibble(src[pos + 1], n)>>), len + 1, src, pos, n)
  /\ len' = len + 1 + Literals(src, pos, n)
  /\ pos' = Len(src)
  /\ UNCHANGED <<pc, original, src, capacity, limit>>

\* set_len: the vector ends behind what is finished.
PackReturn ==
  /\ pc = "packing"
  /\ pos = Len(src)
  /\ pc' = "packed"
  /\ out' = Slice(out, 0, len)
  /\ UNCHANGED <<original, src, pos, len, capacity, limit>>

-----------------------------------------------------------------------------
(* decompress_into *)

\* The numbers of digits with which parse_varint may end: none or one.
Digits(s) ==
  {k \in 1..VarintBytes : /\ k <= Len(s) /\ s[k] < VarintRange
                          /\ \A i \in 1..(k - 1) : s[i] >= VarintRange}

\* The size whose digits they are.
IsSize(s, digits, n) ==
  /\ n < VarintRange ^ digits
  /\ \A i \in 1..digits : Digit(n, i) = s[i] % VarintRange

\* out.resize(target + Pad, 0): what the vector held stays.
Resized(old, n) == [i \in 1..(n + Pad) |-> IF i <= Len(old) THEN old[i] ELSE 0]

(***************************************************************************)
(* The caller decompresses what was compressed before, or another stream,  *)
(* into a vector that may hold something.  An error clears it.             *)
(***************************************************************************)
Decompress(stream, old) ==
  /\ pc' = IF stream = <<>> THEN "ok" ELSE IF Digits(stream) = {} THEN "error" ELSE "unpacking"
  /\ src' = stream
  /\ \/ /\ Digits(stream) = {}
        /\ out' = <<>> /\ pos' = 0 /\ limit' = 0
     \/ \E k \in Digits(stream), n \in 0..(VarintRange ^ VarintBytes - 1) :
          /\ IsSize(stream, k, n)
          /\ limit' = n
          /\ out' = Resized(old, n)
          /\ pos' = k
  /\ len' = 0
  /\ UNCHANGED <<original, capacity>>

DecompressPacked == pc = "packed" /\ \E old \in OldOutputs : Decompress(out, old)

DecompressOther == pc = "idle" /\ \E s \in Streams, old \in OldOutputs : Decompress(s, old)

FillByte(nibble) == IF (nibble - LiteralMax - 1) \div FillMax = 1 THEN ByteMax ELSE 0

FillCount(nibble) == ((nibble - LiteralMax - 1) % FillMax) + 1

\* unpack, on the vector w.out whose first w.len bytes are finished.
UnpackFill(w, count, byte) ==
  IF count > limit - w.len THEN [w EXCEPT !.ok = FALSE]
  ELSE [w EXCEPT !.out = Put(@, w.len, [i \in 1..FillMax |-> byte]), !.len = @ + count]

\* Seeded fault: the size is compared with what the source has left only.
UnpackLiteralsBySource(w, n) ==
  IF n > Len(src) - w.pos THEN [w EXCEPT !.ok = FALSE]
  ELSE [w EXCEPT !.out = Put(@, w.len, Slice(src, w.pos, n)), !.len = @ + n, !.pos = @ + n]

UnpackLiterals(w, n) ==
  IF n > Len(src) - w.pos \/ n > limit - w.len THEN [w EXCEPT !.ok = FALSE]
  ELSE [w EXCEPT !.out = Put(@, w.len, Slice(src, w.pos, IF Len(src) - w.pos >= Window THEN Window ELSE n)),
                 !.len = @ + n, !.pos = @ + n]

Unpack(w, nibble) ==
  IF ~w.ok \/ w.len >= limit \/ nibble = 0 THEN w
  ELSE IF nibble > LiteralMax THEN UnpackFill(w, FillCount(nibble), FillByte(nibble))
  ELSE UnpackLiterals(w, nibble)

\* Seeded fault: with the data complete, the mark is not taken off the source.
UnpackedUnlessFull(mark, w) ==
  IF w.len >= limit THEN [w EXCEPT !.pos = pos]
  ELSE Unpack(Unpack(w, mark % NibbleRange), mark \div NibbleRange)

Unpacked(mark, w) == Unpack(Unpack(w, mark % NibbleRange), mark \div NibbleRange)

(***************************************************************************)
(* One iteration: a mark and its two runs, or the error that ends the call *)
(* and clears the vector.                                                  *)
(***************************************************************************)
UnpackMark ==
  /\ pc = "unpacking"
  /\ pos < Len(src)
  /\ LET after == Unpacked(src[pos + 1], [ok |-> TRUE, pos |-> pos + 1, out |-> out, len |-> len])
     IN  /\ pc' = IF after.ok THEN "unpacking" ELSE "error"
         /\ out' = IF after.ok THEN after.out ELSE <<>>
         /\ pos' = after.pos
         /\ len' = IF after.ok THEN after.len ELSE 0
  /\ UNCHANGED <<original, src, capacity, limit>>

\* Seeded fault: that the stream has ended is taken for the end of the data.
UnpackReturnAnyway ==
  /\ pc = "unpacking"
  /\ pos >= Len(src)
  /\ pc' = "ok"
  /\ out' = Slice(out, 0, limit)
  /\ UNCHANGED <<original, src, pos, len, capacity, limit>>

UnpackReturn ==
  /\ pc = "unpacking"
  /\ pos >= Len(src)
  /\ pc' = IF len = limit THEN "ok" ELSE "error"
  /\ out' = IF len = limit THEN Slice(out, 0, limit) ELSE <<>>
  /\ len' = IF len = limit THEN limit ELSE 0
  /\ UNCHANGED <<original, src, pos, capacity, limit>>

Next ==
  \/ CompressEmpty
  \/ Compress
  \/ \E n, m \in 1..Window : PackPair(n, m)
  \/ \E n \in 1..Window : PackLast(n)
  \/ PackReturn
  \/ DecompressPacked
  \/ DecompressOther
  \/ UnpackMark
  \/ UnpackReturn

(***************************************************************************)
(* The caller may stop at any time, but a call that has begun goes on: the *)
(* code is sequential and waits for nothing.                               *)
(***************************************************************************)
Calls == (\E n, m \in 1..Window : PackPair(n, m)) \/ (\E n \in 1..Window : PackLast(n))
         \/ PackReturn \/ UnpackMark \/ UnpackReturn

Spec == Init /\ [][Next]_vars /\ WF_vars(Calls)

-----------------------------------------------------------------------------
TypeOK ==
  /\ pc \in {"idle", "packing", "packed", "unpacking", "ok", "error"}
  /\ original = NoData \/ original \in Seq(Nat)
  /\ src \in Seq(Nat) /\ out \in Seq(Nat)
  /\ pos \in 0..Len(src) /\ len \in 0..Len(out)
  /\ capacity \in Nat /\ limit \in Nat

(***************************************************************************)
(* The raw writes of compress_into, the bytes a window has too many        *)
(* included, stay within the capacity it computes (utils.rs:287), for the  *)
(* worst mix of runs too.                                                  *)
(***************************************************************************)
WritesFitEstimate == pc = "packing" => Len(out) <= limit

(***************************************************************************)
(* The writes of unpack, four or eight bytes at a time, stay within the    *)
(* Pad bytes it has behind the data, also for streams that are malformed.  *)
(***************************************************************************)
UnpackStaysInside == pc = "unpacking" => Len(out) = limit + Pad /\ len <= limit

(***************************************************************************)
(* Decompressing what was compressed gives the data, whatever the vectors  *)
(* held before.                                                            *)
(***************************************************************************)
RoundTrips ==
  pc \in {"ok", "error"} /\ original # NoData => pc = "ok" /\ out = original

(***************************************************************************)
(* For every stream, malformed ones included, decompress_into either fails *)
(* and leaves the vector empty, or returns as many bytes as the stream     *)
(* says, all of them written by this call: no byte the vector held before  *)
(* is among them.                                                          *)
(***************************************************************************)
Fresh(bytes) == \A i \in 1..Len(bytes) : bytes[i] <= ByteMax

AnswersFresh ==
  /\ pc = "ok" => Len(out) = limit /\ Fresh(out)
  /\ pc = "error" => out = <<>>

\* Every call returns: pick_run and unpack advance on every iteration.
CallsReturn == pc \in {"packing", "unpacking"} ~> pc \in {"packed", "ok", "error"}

(***************************************************************************)
(* utils.rs:303: "we reserved `capacity` bytes above; all writes stay      *)
(* within that."                                                           *)
(***************************************************************************)
WritesStayReserved == pc = "packing" => Len(out) <= capacity
=============================================================================
