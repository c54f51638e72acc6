------------------------- MODULE CompressionProofs -------------------------
(***************************************************************************)
(* Theorems about Compression: no write of the compressor or of the        *)
(* decompressor reaches past the room they reckon with, what either of     *)
(* them returns was written by this call and not left over from an earlier *)
(* one, and data that were compressed come back, whatever the data, the    *)
(* stream and the limits on runs.                                          *)
(***************************************************************************)
EXTENDS Compression, SequenceTheorems, WellFoundedInduction, TLAPS

\* The data bytes of a mark with two full literal runs.
MarkSpan == 2 * LiteralMax

\* The number of such marks n bytes take, rounded up.
Rounded(n) == (n + MarkSpan - 1) \div MarkSpan

\* Bytes of the header, which `limit` counts beside those of the body.
Base == limit - Len(src) - Rounded(Len(src))

\* By how many bytes the compressor is ahead of its source.
Lead == len - Base - pos

(***************************************************************************)
(* A mark costs a byte, and a pair of full literal runs pays for its mark  *)
(* exactly.  A short one is followed by a special byte, and the run that   *)
(* begins there makes good for what is missing.                            *)
(***************************************************************************)
LeadBounded ==
  pos < Len(src) => MarkSpan * Lead <= IF Special(src[pos + 1]) THEN pos + LiteralMax - 1 ELSE pos

\* Why the compressor stays within the room it reserved.
PackInv ==
  pc = "packing" => /\ Base \in Nat /\ Base <= len
                    /\ Len(out) <= limit
                    /\ LeadBounded

\* The decompressor reserves the data and what a wide copy may run over by.
UnpackInv == pc = "unpacking" => Len(out) = limit + Pad /\ len <= limit

\* The inductive invariant of the memory bounds.
IInv == TypeOK /\ PackInv /\ UnpackInv

-----------------------------------------------------------------------------
(* Arithmetic *)

\* The order of the natural numbers, as a relation.
Below == {ss \in Nat \X Nat : ss[1] < ss[2]}

\* Induction up to a number, said of sets.
LEMMA Climb ==
  ASSUME NEW T \in SUBSET Nat, NEW k \in Nat, 0 \in T,
         \A j \in T : j < k => j + 1 \in T
  PROVE  \A j \in 0..k : j \in T
<1> DEFINE U == {j \in 0..k : j \notin T}
<1>1. SUFFICES ASSUME U # {} PROVE FALSE
  OBVIOUS
<1>2. IsWellFoundedOn(Below, Nat)
  BY NatLessThanWellFounded DEF OpToRel, Below
<1>3. U \in SUBSET Nat
  OBVIOUS
<1>4. PICK x \in U : \A y \in U : ~(<<y, x>> \in Below)
  <2> HIDE DEF U
  <2> QED BY <1>1, <1>2, <1>3, WFMin
<1>5. x \in 1..k /\ x - 1 \in 0..k /\ <<x - 1, x>> \in Below
  BY DEF Below
<1>6. x - 1 \in T
  BY <1>4, <1>5
<1>7. x - 1 + 1 \in T
  BY <1>5, <1>6
<1> QED BY <1>5, <1>7

\* The weights of the header's digits.
LEMMA PowersPositive == \A i \in 0..HeaderLimit : VarintRange ^ i \in Nat \ {0}
<1> DEFINE T == {i \in Nat : i <= HeaderLimit => VarintRange ^ i \in Nat \ {0}}
<1>1. 0 \in T
  BY PowersAssumption
<1>2. ASSUME NEW j \in T, j < HeaderLimit PROVE j + 1 \in T
  <2>1. j + 1 \in 1..HeaderLimit /\ (j + 1) - 1 = j /\ VarintRange ^ j \in Nat \ {0}
    BY <1>2, LimitsAssumption
  <2>2. VarintRange ^ (j + 1) = VarintRange * VarintRange ^ j
    BY <2>1, PowersAssumption
  <2>3. VarintRange * VarintRange ^ j \in Nat \ {0}
    BY <2>1, LimitsAssumption
  <2> QED BY <2>1, <2>2, <2>3
<1>3. \A j \in 0..HeaderLimit : j \in T
  <2>1. T \in SUBSET Nat /\ HeaderLimit \in Nat
    BY LimitsAssumption
  <2> HIDE DEF T
  <2> QED BY <1>1, <1>2, <2>1, Climb
<1> QED BY <1>3

\* Division with remainder.
LEMMA Division ==
  ASSUME NEW x \in Nat, NEW c \in Nat \ {0}
  PROVE  \E q \in Nat, r \in 0..(c - 1) : x = c * q + r /\ q = x \div c /\ r = x % c
<1> DEFINE q == x \div c
           r == x % c
<1>1. q \in Nat /\ r \in 0..(c - 1) /\ x = c * q + r
  BY SMT
<1> QED BY <1>1

\* Quotient and remainder determine the number.
LEMMA SameDivision ==
  ASSUME NEW x \in Nat, NEW y \in Nat, NEW c \in Nat \ {0}, x \div c = y \div c, x % c = y % c
  PROVE  x = y
<1>1. PICK q \in Nat, r \in 0..(c - 1) : x = c * q + r /\ q = x \div c /\ r = x % c
  BY Division
<1>2. PICK u \in Nat, t \in 0..(c - 1) : y = c * u + t /\ u = y \div c /\ t = y % c
  BY Division
<1>3. q = u /\ r = t
  BY <1>1, <1>2
<1> QED BY <1>1, <1>2, <1>3

\* Quotients are unique.
LEMMA QuotientUnique ==
  ASSUME NEW c \in Nat \ {0}, NEW u \in Nat, NEW v \in Nat, v < c
  PROVE  (c * u + v) \div c = u /\ (c * u + v) % c = v
<1> DEFINE N == c * u + v
           q == N \div c
           r == N % c
<1>1. N \in Nat
  BY SMT
<1> HIDE DEF N
<1>2. q \in Nat /\ r \in 0..(c - 1) /\ N = c * q + r
  BY <1>1, SMT
<1> HIDE DEF q, r
<1>3. c * q + r = c * u + v
  BY <1>2 DEF N
<1>4. q = u
  <2>1. CASE q < u
    <3>1. c * q + c <= c * u
      <4>1. q + 1 <= u BY <1>2, <2>1
      <4>2. c * (q + 1) <= c * u BY <1>2, <4>1, SMT
      <4>3. c * (q + 1) = c * q + c BY <1>2, SMT
      <4> QED BY <4>2, <4>3
    <3> QED BY <1>2, <1>3, <3>1, SMT
  <2>2. CASE u < q
    <3>1. c * u + c <= c * q
      <4>1. u + 1 <= q BY <1>2, <2>2
      <4>2. c * (u + 1) <= c * q BY <1>2, <4>1, SMT
      <4>3. c * (u + 1) = c * u + c BY <1>2, SMT
      <4> QED BY <4>2, <4>3
    <3> QED BY <1>2, <1>3, <3>1, SMT
  <2> QED BY <1>2, <2>1, <2>2
<1>5. r = v
  <2>1. c * q \in Nat BY <1>2, SMT
  <2> QED BY <1>2, <1>3, <1>4, <2>1, SMT
<1> QED BY <1>4, <1>5 DEF q, r, N

\* Dividing by a product is dividing twice.
LEMMA DivideTwice ==
  ASSUME NEW n \in Nat, NEW a \in Nat \ {0}, NEW b \in Nat \ {0}
  PROVE  (n \div a) \div b = n \div (b * a)
<1> DEFINE q == n \div a
           r == n % a
           u == q \div b
           t == q % b
<1>1. q \in Nat /\ r \in 0..(a - 1) /\ n = a * q + r
  BY SMT
<1> HIDE DEF q, r
<1>2. u \in Nat /\ t \in 0..(b - 1) /\ q = b * u + t
  BY <1>1, SMT
<1> HIDE DEF u, t
<1>3. n = (b * a) * u + (a * t + r)
  <2>1. a * q = a * (b * u) + a * t
    BY <1>1, <1>2, SMT
  <2>2. a * (b * u) = (b * a) * u
    BY <1>2, SMT
  <2>3. a * t \in Nat /\ (b * a) * u \in Nat
    BY <1>2, SMT
  <2> QED BY <1>1, <2>1, <2>2, <2>3, SMT
<1>4. a * t + r \in Nat /\ a * t + r < b * a /\ b * a \in Nat \ {0}
  <2>1. a * t \in Nat /\ b * a \in Nat \ {0}
    BY <1>2, SMT
  <2>2. a * (t + 1) <= a * b
    BY <1>2, SMT
  <2>3. a * (t + 1) = a * t + a /\ a * b = b * a
    BY <1>2, SMT
  <2> QED BY <1>1, <2>1, <2>2, <2>3, SMT
<1> DEFINE c == b * a
           v == a * t + r
<1>5. n = c * u + v /\ c \in Nat \ {0} /\ v \in Nat /\ v < c
  BY <1>3, <1>4
<1> HIDE DEF c, v
<1>6. n \div c = u
  BY <1>2, <1>5, QuotientUnique
<1> QED BY <1>6 DEF c, u, q

\* Digits determine a size.
LEMMA DigitsDetermine ==
  ASSUME NEW k \in 0..HeaderLimit, NEW a \in Nat, NEW b \in Nat,
         a < VarintRange ^ k, b < VarintRange ^ k,
         \A i \in 1..k : Digit(a, i) = Digit(b, i)
  PROVE  a = b
<1> DEFINE T == {j \in Nat : j <= k => a \div VarintRange ^ (k - j) = b \div VarintRange ^ (k - j)}
<1>0. k \in Nat /\ k <= HeaderLimit /\ HeaderLimit \in Nat /\ VarintRange \in Nat \ {0}
  BY LimitsAssumption
<1>1. 0 \in T
  <2> DEFINE c == VarintRange ^ k
  <2>1. c \in Nat \ {0} /\ a < c /\ b < c /\ k - 0 = k
    BY <1>0, PowersPositive
  <2> HIDE DEF c
  <2>2. c * 0 + a = a /\ c * 0 + b = b
    BY <2>1
  <2>3. a \div c = 0 /\ b \div c = 0
    BY <2>1, <2>2, QuotientUnique
  <2> QED BY <2>1, <2>3 DEF c
<1>2. ASSUME NEW j \in T, j < k PROVE j + 1 \in T
  <2> DEFINE i == k - j
             c == VarintRange ^ (i - 1)
             d == VarintRange ^ i
  <2>1. j \in Nat /\ i \in 1..k /\ i \in 1..HeaderLimit /\ i \in 0..HeaderLimit
        /\ i - 1 \in 0..HeaderLimit /\ k - (j + 1) = i - 1
    BY <1>0, <1>2
  <2>2. c \in Nat \ {0} /\ d = VarintRange * c
    BY <2>1, PowersPositive, PowersAssumption
  <2>3. a \div d = b \div d
    BY <1>2
  <2>4. (a \div c) % VarintRange = (b \div c) % VarintRange
    BY <2>1 DEF Digit
  <2> HIDE DEF c, d
  <2>5. (a \div c) \div VarintRange = (b \div c) \div VarintRange
    BY <1>0, <2>2, <2>3, DivideTwice
  <2>6. a \div c \in Nat /\ b \div c \in Nat
    BY <2>2, SMT
  <2>7. a \div c = b \div c
    <3> DEFINE x == a \div c
               y == b \div c
    <3>1. x \in Nat /\ y \in Nat /\ x % VarintRange = y % VarintRange /\ x \div VarintRange = y \div VarintRange
      BY <2>4, <2>5, <2>6
    <3> HIDE DEF x, y
    <3>2. x = y
      BY <1>0, <3>1, SameDivision
    <3> QED BY <3>2 DEF x, y
  <2> QED BY <2>1, <2>7 DEF c
<1>3. k \in T
  <2>1. T \in SUBSET Nat /\ k \in 0..k
    BY <1>0
  <2> HIDE DEF T
  <2> QED BY <1>0, <1>1, <1>2, <2>1, Climb
<1>4. a \div VarintRange ^ 0 = b \div VarintRange ^ 0
  BY <1>0, <1>3
<1>5. a \div 1 = a /\ b \div 1 = b
  BY SMT
<1> QED BY <1>4, <1>5, PowersAssumption

\* A mark stands for at least two bytes.
LEMMA SpanPositive == MarkSpan \in Nat /\ MarkSpan >= 2 /\ MarkSpan = LiteralMax + LiteralMax
  BY LimitsAssumption DEF MarkSpan

\* A bound on a multiple bounds the factor.
LEMMA DivBound ==
  ASSUME NEW k \in Nat \ {0}, NEW m \in Nat, NEW d \in Int, k * d <= m
  PROVE  d <= m \div k
<1>1. m \div k \in Nat /\ m < k * (m \div k + 1)
  BY SMT
<1>2. CASE d > m \div k
  <2>1. d >= m \div k + 1
    BY <1>1, <1>2
  <2>2. k * d >= k * (m \div k + 1)
    BY <1>1, <2>1, SMT
  <2> QED BY <1>1, <2>2, SMT
<1> QED BY <1>1, <1>2, SMT

\* A write of w bytes that stands for data up to position p + w fits.
LEMMA Fits ==
  ASSUME NEW n \in Nat, NEW base \in Nat, NEW at \in Nat, NEW p \in Nat, NEW w \in Nat,
         p + w <= n, MarkSpan * (at - base - p) <= n + MarkSpan - 1
  PROVE  at + w <= base + n + Rounded(n)
<1>1. at - base - p <= Rounded(n)
  BY DivBound, SpanPositive DEF Rounded
<1>2. Rounded(n) \in Nat
  BY SpanPositive DEF Rounded
<1> QED BY <1>1, <1>2

\* What a run of one mark and n bytes of the source does to the lead.
LEMMA LeadOfFill ==
  ASSUME NEW d \in Int, NEW n \in Nat \ {0}
  PROVE  MarkSpan * (d - n) <= MarkSpan * d - MarkSpan
<1>1. MarkSpan * (d - n) = MarkSpan * d - MarkSpan * n
  BY SpanPositive, SMT
<1>2. MarkSpan * n >= MarkSpan
  BY SpanPositive, SMT
<1> QED BY <1>1, <1>2, SpanPositive, SMT

\* One byte more of lead.
LEMMA LeadOfMark ==
  ASSUME NEW d \in Int
  PROVE  MarkSpan * (d + 1) = MarkSpan * d + MarkSpan
  BY SpanPositive, SMT

-----------------------------------------------------------------------------
(* Bytes *)

\* Writing bytes keeps the length, or ends it behind them.
LEMMA PutLength ==
  ASSUME NEW buf \in Seq(Nat), NEW at \in 0..Len(buf), NEW bytes \in Seq(Nat)
  PROVE  /\ Put(buf, at, bytes) \in Seq(Nat)
         /\ Len(Put(buf, at, bytes)) = Larger(Len(buf), at + Len(bytes))
<1> DEFINE front == SubSeq(buf, 1, at)
           back  == SubSeq(buf, at + Len(bytes) + 1, Len(buf))
<1>1. front \in Seq(Nat) /\ Len(front) = at
  BY SubSeqProperties
<1>2. back \in Seq(Nat) /\ Len(back) = IF at + Len(bytes) + 1 <= Len(buf) THEN Len(buf) - at - Len(bytes) ELSE 0
  <2>1. CASE at + Len(bytes) + 1 <= Len(buf)
    BY <2>1, SubSeqProperties
  <2>2. CASE at + Len(bytes) + 1 > Len(buf)
    BY <2>2, SubSeqEmpty
  <2> QED BY <2>1, <2>2
<1>3. front \o bytes \in Seq(Nat) /\ Len(front \o bytes) = at + Len(bytes)
  BY <1>1, ConcatProperties
<1>4. (front \o bytes) \o back \in Seq(Nat) /\ Len((front \o bytes) \o back) = at + Len(bytes) + Len(back)
  BY <1>2, <1>3, ConcatProperties, ZenonT(30)
<1> HIDE DEF front, back
<1>5. Put(buf, at, bytes) = (front \o bytes) \o back
  BY DEF Put, front, back
<1>6. Len(Put(buf, at, bytes)) = Larger(Len(buf), at + Len(bytes))
  <2>1. Len(buf) \in Nat /\ Len(bytes) \in Nat /\ at \in Nat /\ at <= Len(buf)
    BY LenProperties
  <2>2. Len(Put(buf, at, bytes)) = at + Len(bytes) + Len(back)
    BY <1>4, <1>5
  <2>3. CASE at + Len(bytes) < Len(buf)
    <3>1. Len(back) = Len(buf) - at - Len(bytes)
      BY <1>2, <2>1, <2>3
    <3>2. Len(Put(buf, at, bytes)) = Len(buf)
      BY <2>1, <2>2, <3>1
    <3> QED BY <3>2, <2>3 DEF Larger
  <2>4. CASE ~(at + Len(bytes) < Len(buf))
    <3>1. Len(back) = 0
      BY <1>2, <2>1, <2>4
    <3>2. Len(Put(buf, at, bytes)) = at + Len(bytes)
      BY <2>1, <2>2, <3>1
    <3>3. Larger(Len(buf), at + Len(bytes)) = at + Len(bytes)
      BY <2>1, <2>4, SMTT(30) DEF Larger
    <3> QED BY <3>2, <3>3
  <2> QED BY <2>3, <2>4
<1> QED BY <1>4, <1>5, <1>6

\* A slice has the length asked for.
LEMMA SliceLength ==
  ASSUME NEW s \in Seq(Nat), NEW p \in Nat, NEW n \in Nat, p + n <= Len(s)
  PROVE  Slice(s, p, n) \in Seq(Nat) /\ Len(Slice(s, p, n)) = n
<1>1. CASE n = 0
  BY <1>1, SubSeqEmpty DEF Slice
<1>2. CASE n > 0
  BY <1>2, SubSeqProperties DEF Slice
<1> QED BY <1>1, <1>2

\* A run's nibble is a number.
LEMMA NibbleType ==
  ASSUME NEW first, NEW n \in Nat
  PROVE  Nibble(first, n) \in Nat
  BY LimitsAssumption DEF Nibble

\* A mark is a number.
LEMMA MarkType ==
  ASSUME NEW a \in Nat, NEW b \in Nat
  PROVE  a + NibbleRange * b \in Nat
<1>1. NibbleRange \in Nat
  BY LimitsAssumption DEF NibbleRange
<1>2. NibbleRange * b \in Nat
  BY <1>1
<1> QED BY <1>2

\* A header has as many bytes as digits.
LEMMA HeaderType ==
  ASSUME NEW n \in Nat, NEW digits \in 1..HeaderLimit
  PROVE  Header(n, digits) \in Seq(Nat) /\ Len(Header(n, digits)) = digits
<1>1. \A i \in 1..digits : Digit(n, i) \in Nat
  <2> TAKE i \in 1..digits
  <2>1. VarintRange ^ (i - 1) \in Nat \ {0}
    BY PowersPositive, LimitsAssumption
  <2>2. n \div VarintRange ^ (i - 1) \in Nat
    BY <2>1
  <2> QED BY <2>2, LimitsAssumption DEF Digit
<1>2. \A i \in 1..digits : Header(n, digits)[i] \in Nat
  BY <1>1, LimitsAssumption DEF Header
<1> QED BY <1>2, LimitsAssumption DEF Header

-----------------------------------------------------------------------------
(* Compressing *)

\* emit_run_raw: what it writes ends within the limit, and behind the run.
LEMMA EmitFits ==
  ASSUME NEW s \in Seq(Nat), NEW buf \in Seq(Nat), NEW base \in Nat,
         NEW at \in 0..Len(buf), NEW p \in Nat, NEW n \in Nat \ {0}, p + n <= Len(s),
         n <= LiteralMax,
         Len(buf) <= base + Len(s) + Rounded(Len(s)),
         MarkSpan * (at - base - p) <= Len(s) + MarkSpan - 1
  PROVE  /\ Emit(buf, at, s, p, n) \in Seq(Nat)
         /\ at + n <= Len(Emit(buf, at, s, p, n))
         /\ Len(buf) <= Len(Emit(buf, at, s, p, n))
         /\ Len(Emit(buf, at, s, p, n)) <= base + Len(s) + Rounded(Len(s))
<1> DEFINE w == IF p + Window <= Len(s) THEN Window ELSE n
<1>1. w \in Nat /\ n <= w /\ p + w <= Len(s)
  BY LimitsAssumption
<1>2. Slice(s, p, w) \in Seq(Nat) /\ Len(Slice(s, p, w)) = w
  BY <1>1, SliceLength
<1>3. at \in Nat /\ Len(s) \in Nat /\ Len(buf) \in Nat
  OBVIOUS
<1>4. at + w <= base + Len(s) + Rounded(Len(s))
  <2> HIDE DEF w
  <2> QED BY <1>1, <1>3, Fits
<1>5. /\ Emit(buf, at, s, p, n) \in Seq(Nat)
      /\ Len(Emit(buf, at, s, p, n)) = Larger(Len(buf), at + w)
  <2>1. Emit(buf, at, s, p, n) = Put(buf, at, Slice(s, p, w))
    BY DEF Emit
  <2> DEFINE bytes == Slice(s, p, w)
  <2>2. bytes \in Seq(Nat) /\ Len(bytes) = w
    BY <1>2
  <2> HIDE DEF w, bytes
  <2>3. /\ Put(buf, at, bytes) \in Seq(Nat)
        /\ Len(Put(buf, at, bytes)) = Larger(Len(buf), at + Len(bytes))
    BY <2>2, PutLength
  <2> QED BY <2>1, <2>2, <2>3 DEF bytes
<1>6. at + n <= Larger(Len(buf), at + w) /\ Len(buf) <= Larger(Len(buf), at + w)
  <2> HIDE DEF w
  <2> QED BY <1>1, <1>3 DEF Larger
<1>7. Larger(Len(buf), at + w) <= base + Len(s) + Rounded(Len(s))
  <2> HIDE DEF w
  <2> QED BY <1>3, <1>4 DEF Larger
<1> HIDE DEF w
<1> QED BY <1>5, <1>6, <1>7

\* The same for a run of either sort.
LEMMA EmitRunFits ==
  ASSUME NEW s \in Seq(Nat), NEW buf \in Seq(Nat), NEW base \in Nat,
         NEW at \in 0..Len(buf), NEW p \in Nat, NEW n, IsRun(s, p, n),
         Len(buf) <= base + Len(s) + Rounded(Len(s)),
         ~Special(s[p + 1]) => MarkSpan * (at - base - p) <= Len(s) + MarkSpan - 1
  PROVE  /\ EmitRun(buf, at, s, p, n) \in Seq(Nat)
         /\ at + Literals(s, p, n) <= Len(EmitRun(buf, at, s, p, n))
         /\ Len(EmitRun(buf, at, s, p, n)) <= base + Len(s) + Rounded(Len(s))
         /\ Literals(s, p, n) \in Nat /\ n \in Nat \ {0} /\ p + n <= Len(s)
<1>1. n \in Nat \ {0} /\ p + n <= Len(s) /\ (~Special(s[p + 1]) => n <= LiteralMax)
  BY LimitsAssumption DEF IsRun, RunLimit
<1>2. CASE Special(s[p + 1])
  BY <1>1, <1>2 DEF EmitRun, Literals
<1>3. CASE ~Special(s[p + 1])
  BY <1>1, <1>3, EmitFits DEF EmitRun, Literals
<1> QED BY <1>2, <1>3

\* What the invariant says while packing.
LEMMA PackingFacts ==
  ASSUME IInv, pc = "packing"
  PROVE  /\ src \in Seq(Nat) /\ out \in Seq(Nat)
         /\ Len(src) \in Nat /\ pos \in Nat /\ len \in Nat /\ len \in 0..Len(out)
         /\ Base \in Nat /\ Lead \in Int /\ Rounded(Len(src)) \in Nat
         /\ limit = Base + Len(src) + Rounded(Len(src))
         /\ Len(out) <= limit
         /\ pos < Len(src) =>
              /\ MarkSpan * Lead <= Len(src) + MarkSpan - 1
              /\ MarkSpan * Lead <= pos + LiteralMax - 1
              /\ ~Special(src[pos + 1]) => MarkSpan * Lead <= pos
<1>1. /\ src \in Seq(Nat) /\ out \in Seq(Nat) /\ pos \in 0..Len(src) /\ len \in 0..Len(out) /\ limit \in Nat
      /\ Base \in Nat /\ Len(out) <= limit /\ LeadBounded
  BY DEF IInv, TypeOK, PackInv
<1>2. Len(src) \in Nat /\ Len(out) \in Nat
  BY <1>1, LenProperties
<1>3. Rounded(Len(src)) \in Nat
  BY <1>2, SpanPositive DEF Rounded
<1>4. limit = Base + Len(src) + Rounded(Len(src))
  BY <1>1, <1>2, <1>3 DEF Base
<1>5. Lead \in Int
  BY <1>1, <1>2 DEF Lead
<1>6. MarkSpan * Lead \in Int
  BY <1>5, SpanPositive
<1>7. ASSUME pos < Len(src)
      PROVE  /\ MarkSpan * Lead <= Len(src) + MarkSpan - 1
             /\ MarkSpan * Lead <= pos + LiteralMax - 1
             /\ ~Special(src[pos + 1]) => MarkSpan * Lead <= pos
  <2>1. MarkSpan * Lead <= pos + LiteralMax - 1 /\ (~Special(src[pos + 1]) => MarkSpan * Lead <= pos)
    BY <1>1, <1>2, <1>6, <1>7, LimitsAssumption DEF LeadBounded
  <2>2. pos + LiteralMax - 1 <= Len(src) + MarkSpan - 1
    BY <1>1, <1>2, <1>7, LimitsAssumption, SpanPositive
  <2> QED BY <2>1, <2>2, <1>1, <1>2, <1>6, LimitsAssumption, SpanPositive
<1> QED BY <1>1, <1>2, <1>3, <1>4, <1>5, <1>7

\* The mark fits, and behind it the bytes of a first run.
LEMMA MarkFits ==
  ASSUME IInv, pc = "packing", pos < Len(src), NEW byte \in Nat
  PROVE  /\ Put(out, len, <<byte>>) \in Seq(Nat)
         /\ len + 1 \in 0..Len(Put(out, len, <<byte>>))
         /\ Len(Put(out, len, <<byte>>)) <= limit
<1>1. <<byte>> \in Seq(Nat) /\ Len(<<byte>>) = 1
  OBVIOUS
<1>2. /\ Put(out, len, <<byte>>) \in Seq(Nat)
      /\ Len(Put(out, len, <<byte>>)) = Larger(Len(out), len + 1)
  BY <1>1, PackingFacts, PutLength
<1>3. len + 1 <= limit
  <2>1. MarkSpan * (len - Base - pos) <= Len(src) + MarkSpan - 1
    BY PackingFacts DEF Lead
  <2>2. Len(src) \in Nat /\ Base \in Nat /\ len \in Nat /\ pos \in Nat /\ pos + 1 <= Len(src)
    BY PackingFacts
  <2>3. len + 1 <= Base + Len(src) + Rounded(Len(src))
    BY <2>1, <2>2, Fits
  <2> QED BY <2>3, PackingFacts
<1>4. Len(out) \in Nat /\ Len(out) <= limit /\ len \in Nat
  BY PackingFacts, LenProperties
<1>5. limit \in Nat
  BY DEF IInv, TypeOK
<1> DEFINE marked == Put(out, len, <<byte>>)
<1>6. len + 1 <= Len(marked) /\ Len(marked) <= limit /\ Len(marked) \in Nat
  BY <1>2, <1>3, <1>4, <1>5 DEF Larger
<1> QED BY <1>2, <1>4, <1>6

\* The first run of a mark stays within the room reserved.
LEMMA FirstRunFits ==
  ASSUME IInv, pc = "packing", pos < Len(src), NEW byte \in Nat, NEW n, IsRun(src, pos, n),
         NEW buf, buf = EmitRun(Put(out, len, <<byte>>), len + 1, src, pos, n)
  PROVE  /\ buf \in Seq(Nat)
         /\ len + 1 + Literals(src, pos, n) \in 0..Len(buf)
         /\ Len(buf) <= limit
         /\ Literals(src, pos, n) \in Nat /\ n \in Nat \ {0} /\ pos + n <= Len(src)
<1> DEFINE marked == Put(out, len, <<byte>>)
<1>1. marked \in Seq(Nat) /\ len + 1 \in 0..Len(marked) /\ Len(marked) <= limit
  BY MarkFits
<1>2. ~Special(src[pos + 1]) => MarkSpan * ((len + 1) - Base - pos) <= Len(src) + MarkSpan - 1
  <2>1. MarkSpan * (Lead + 1) = MarkSpan * Lead + MarkSpan
    BY PackingFacts, LeadOfMark
  <2>2. (len + 1) - Base - pos = Lead + 1
    BY PackingFacts DEF Lead
  <2> DEFINE ahead == MarkSpan * Lead
  <2>3. ahead \in Int /\ pos \in Nat /\ Len(src) \in Nat /\ MarkSpan \in Nat
    BY PackingFacts, SpanPositive
  <2>4. ~Special(src[pos + 1]) => ahead <= pos
    BY PackingFacts
  <2>5. MarkSpan * ((len + 1) - Base - pos) = ahead + MarkSpan
    BY <2>1, <2>2
  <2> HIDE DEF ahead
  <2> QED BY <2>3, <2>4, <2>5
<1>3. Len(marked) <= Base + Len(src) + Rounded(Len(src))
  BY <1>1, PackingFacts
<1> HIDE DEF marked
<1>4. /\ EmitRun(marked, len + 1, src, pos, n) \in Seq(Nat)
      /\ len + 1 + Literals(src, pos, n) <= Len(EmitRun(marked, len + 1, src, pos, n))
      /\ Len(EmitRun(marked, len + 1, src, pos, n)) <= Base + Len(src) + Rounded(Len(src))
      /\ Literals(src, pos, n) \in Nat /\ n \in Nat \ {0} /\ pos + n <= Len(src)
  <2>1. Base \in Nat /\ src \in Seq(Nat) /\ pos \in Nat
    BY PackingFacts
  <2> DEFINE at == len + 1
             base == Base
  <2>2. at \in 0..Len(marked) /\ base \in Nat /\ Len(marked) <= base + Len(src) + Rounded(Len(src))
    BY <1>1, <1>3, <2>1
  <2>3. ~Special(src[pos + 1]) => MarkSpan * (at - base - pos) <= Len(src) + MarkSpan - 1
    BY <1>2
  <2> HIDE DEF at, base
  <2>4. /\ EmitRun(marked, at, src, pos, n) \in Seq(Nat)
        /\ at + Literals(src, pos, n) <= Len(EmitRun(marked, at, src, pos, n))
        /\ Len(EmitRun(marked, at, src, pos, n)) <= base + Len(src) + Rounded(Len(src))
        /\ Literals(src, pos, n) \in Nat /\ n \in Nat \ {0} /\ pos + n <= Len(src)
    BY <1>1, <2>1, <2>2, <2>3, EmitRunFits
  <2> QED BY <2>4 DEF at, base
<1>5. buf = EmitRun(marked, len + 1, src, pos, n)
  BY DEF marked
<1>6. limit = Base + Len(src) + Rounded(Len(src)) /\ len \in Nat
  BY PackingFacts
<1>7. Len(buf) \in Nat
  BY <1>4, <1>5, LenProperties
<1> QED BY <1>4, <1>5, <1>6, <1>7

\* What two runs, of n bytes at p and of m behind them, do to the lead.
LeadAfter(e, s, p, n) == e + 1 + Literals(s, p, n) - n

\* The lead after both runs of a mark.
LeadAfterBoth(e, s, p, n, m) == LeadAfter(e, s, p, n) + Literals(s, p + n, m) - m

\* Two runs keep the lead bounded.
LEMMA LeadOfPair ==
  ASSUME NEW s \in Seq(Nat), NEW p \in Nat, NEW e \in Int,
         NEW n, NEW m, IsRun(s, p, n), p + n < Len(s), IsRun(s, p + n, m),
         n \in Nat \ {0}, m \in Nat \ {0},
         MarkSpan * e <= p + LiteralMax - 1,
         ~Special(s[p + 1]) => MarkSpan * e <= p
  PROVE  /\ Literals(s, p, n) \in Nat /\ Literals(s, p + n, m) \in Nat
         /\ ~Special(s[p + n + 1]) => MarkSpan * LeadAfter(e, s, p, n) <= Len(s) + MarkSpan - 1
         /\ p + n + m < Len(s) =>
              MarkSpan * LeadAfterBoth(e, s, p, n, m) <= IF Special(s[p + n + m + 1]) THEN p + n + m + LiteralMax - 1 ELSE p + n + m
<1> DEFINE f == LeadAfter(e, s, p, n)
           g == LeadAfterBoth(e, s, p, n, m)
           x == MarkSpan * e
           first  == Special(s[p + 1])
           second == Special(s[p + n + 1])
           third  == Special(s[p + n + m + 1])
<1>1. x \in Int /\ MarkSpan \in Nat /\ MarkSpan = LiteralMax + LiteralMax /\ LiteralMax \in Nat \ {0} /\ Len(s) \in Nat
  BY SpanPositive, LimitsAssumption, LenProperties
<1>2. MarkSpan * (e + 1) = x + MarkSpan
  BY LeadOfMark
<1> DEFINE both == e + 1
           noneOfFirst == both - n
           noneOfSecond == both - m
           none == noneOfFirst - m
<1>0. both \in Int /\ noneOfFirst \in Int /\ noneOfSecond \in Int /\ none \in Int
  OBVIOUS
<1>3. MarkSpan * noneOfFirst <= x
  <2>1. MarkSpan * noneOfFirst <= MarkSpan * both - MarkSpan
    <3> HIDE DEF both
    <3> QED BY <1>0, LeadOfFill
  <2>2. MarkSpan * noneOfFirst \in Int
    BY <1>1
  <2> QED BY <1>1, <1>2, <2>1, <2>2
<1>4. MarkSpan * noneOfSecond <= x
  <2>1. MarkSpan * noneOfSecond <= MarkSpan * both - MarkSpan
    <3> HIDE DEF both
    <3> QED BY <1>0, LeadOfFill
  <2>2. MarkSpan * noneOfSecond \in Int
    BY <1>1
  <2> QED BY <1>1, <1>2, <2>1, <2>2
<1>5. MarkSpan * none <= x - MarkSpan
  <2>1. MarkSpan * none <= MarkSpan * noneOfFirst - MarkSpan
    <3> HIDE DEF noneOfFirst
    <3> QED BY <1>0, LeadOfFill
  <2>2. MarkSpan * none \in Int /\ MarkSpan * noneOfFirst \in Int
    BY <1>1
  <2> QED BY <1>1, <1>3, <2>1, <2>2
<1>6. ~first => n = LiteralMax \/ second
  <2>1. ~first => RunLimit(s[p + 1]) = LiteralMax
    BY DEF RunLimit
  <2>2. n < RunLimit(s[p + 1]) => ~SameRun(s[p + 1], s[p + n + 1])
    BY DEF IsRun
  <2>3. ~first => n \in 1..LiteralMax
    BY <2>1 DEF IsRun
  <2> QED BY <2>1, <2>2, <2>3, <1>1 DEF SameRun
<1>7. ~second /\ p + n + m < Len(s) => m = LiteralMax \/ third
  <2>1. ~second => RunLimit(s[p + n + 1]) = LiteralMax
    BY DEF RunLimit
  <2>2. m < RunLimit(s[p + n + 1]) /\ p + n + m < Len(s) => ~SameRun(s[p + n + 1], s[p + n + m + 1])
    BY DEF IsRun
  <2>3. ~second => m \in 1..LiteralMax
    BY <2>1 DEF IsRun
  <2> QED BY <2>1, <2>2, <2>3, <1>1 DEF SameRun
<1>8. x <= p + LiteralMax - 1 /\ (~first => x <= p)
  OBVIOUS
<1> DEFINE xf == MarkSpan * noneOfFirst
           xs == MarkSpan * noneOfSecond
           xn == MarkSpan * none
<1>9. /\ MarkSpan * both = x + MarkSpan /\ xf <= x /\ xs <= x /\ xn <= x - MarkSpan
      /\ xf \in Int /\ xs \in Int /\ xn \in Int
  BY <1>0, <1>1, <1>2, <1>3, <1>4, <1>5
<1>10. /\ f = noneOfFirst => MarkSpan * f = xf
       /\ g = noneOfFirst => MarkSpan * g = xf
       /\ g = noneOfSecond => MarkSpan * g = xs
       /\ g = none => MarkSpan * g = xn
       /\ f = both => MarkSpan * f = x + MarkSpan
       /\ g = both => MarkSpan * g = x + MarkSpan
  BY <1>2
<1> DEFINE bound == IF third THEN p + n + m + LiteralMax - 1 ELSE p + n + m
<1>11. CASE ~first /\ ~second
  <2>1. f = both /\ g = both /\ Literals(s, p, n) = n /\ Literals(s, p + n, m) = m
    BY <1>11 DEF Literals, LeadAfter, LeadAfterBoth
  <2>2. n = LiteralMax /\ x <= p
    BY <1>6, <1>8, <1>11
  <2>3. MarkSpan * f = x + MarkSpan /\ MarkSpan * g = x + MarkSpan
    BY <1>10, <2>1
  <2> HIDE DEF x, both, first, second, third
  <2>4. MarkSpan * f <= Len(s) + MarkSpan - 1
    BY <1>1, <2>2, <2>3
  <2>5. ASSUME p + n + m < Len(s)
        PROVE  MarkSpan * g <= bound
    <3>1. third \/ m = LiteralMax
      BY <1>7, <1>11, <2>5
    <3> QED BY <1>1, <2>2, <2>3, <3>1
  <2> QED BY <2>1, <2>4, <2>5 DEF second, third
<1>12. CASE ~first /\ second
  <2>1. g = noneOfSecond /\ Literals(s, p, n) = n /\ Literals(s, p + n, m) = 0
    BY <1>12 DEF Literals, LeadAfter, LeadAfterBoth
  <2>2. MarkSpan * g = xs /\ x <= p
    BY <1>8, <1>10, <1>12, <2>1
  <2> HIDE DEF x, xs, first, third
  <2>3. MarkSpan * g <= bound
    BY <1>1, <1>9, <2>2
  <2>4. Special(s[p + n + 1]) /\ Literals(s, p, n) \in Nat /\ Literals(s, p + n, m) \in Nat
    BY <1>12, <2>1, SMTT(30)
  <2>5. p + n + m < Len(s) =>
              MarkSpan * g <= IF Special(s[p + n + m + 1]) THEN p + n + m + LiteralMax - 1 ELSE p + n + m
    BY <2>3 DEF third
  <2> QED BY <2>4, <2>5
<1>13. CASE first /\ ~second
  <2>1. f = noneOfFirst /\ g = noneOfFirst /\ Literals(s, p, n) = 0 /\ Literals(s, p + n, m) = m
    BY <1>13 DEF Literals, LeadAfter, LeadAfterBoth
  <2>2. MarkSpan * f = xf /\ MarkSpan * g = xf
    BY <1>10, <2>1
  <2> HIDE DEF x, xf, first, second, third
  <2>3. MarkSpan * f <= Len(s) + MarkSpan - 1
    BY <1>1, <1>8, <1>9, <2>2
  <2>4. ASSUME p + n + m < Len(s)
        PROVE  MarkSpan * g <= bound
    <3>1. third \/ m = LiteralMax
      BY <1>7, <1>13, <2>4
    <3> QED BY <1>1, <1>8, <1>9, <2>2, <3>1
  <2> QED BY <2>1, <2>3, <2>4 DEF third
<1>14. CASE first /\ second
  <2>1. g = none /\ Literals(s, p, n) = 0 /\ Literals(s, p + n, m) = 0
    BY <1>14 DEF Literals, LeadAfter, LeadAfterBoth
  <2>2. MarkSpan * g = xn
    BY <1>10, <2>1
  <2> HIDE DEF x, xn, first, third
  <2>3. MarkSpan * g <= bound
    BY <1>1, <1>8, <1>9, <2>2
  <2>4. Special(s[p + n + 1]) /\ Literals(s, p, n) \in Nat /\ Literals(s, p + n, m) \in Nat
    <3>1. Special(s[p + n + 1])
      BY <1>14
    <3>2. Literals(s, p, n) = 0 /\ Literals(s, p + n, m) = 0
      BY <2>1
    <3>3. Literals(s, p, n) \in Nat /\ Literals(s, p + n, m) \in Nat
      <4>1. 0 \in Nat
        OBVIOUS
      <4> QED BY <3>2, <4>1, Zenon
    <3> QED BY <3>1, <3>3
  <2>5. p + n + m < Len(s) =>
              MarkSpan * g <= IF Special(s[p + n + m + 1]) THEN p + n + m + LiteralMax - 1 ELSE p + n + m
    BY <2>3 DEF third
  <2> QED BY <2>4, <2>5
<1> QED BY <1>11, <1>12, <1>13, <1>14

\* A run is not empty and ends within the bytes.
LEMMA RunSize ==
  ASSUME NEW s \in Seq(Nat), NEW p \in Nat, NEW n, IsRun(s, p, n)
  PROVE  n \in Nat \ {0} /\ p + n <= Len(s) /\ p < Len(s) /\ p + n \in Nat
<1>1. RunLimit(s[p + 1]) \in Nat
  BY LimitsAssumption DEF RunLimit
<1>2. n \in Nat \ {0} /\ p + n <= Len(s)
  BY <1>1 DEF IsRun
<1>3. Len(s) \in Nat
  BY LenProperties
<1> QED BY <1>2, <1>3

\* A mark with two runs keeps the invariant.
LEMMA PairKeeps ==
  ASSUME IInv, NEW n, NEW m, PackPair(n, m)
  PROVE  IInv'
<1> DEFINE first == src[pos + 1]
           second == src[pos + n + 1]
           byte == Nibble(first, n) + NibbleRange * Nibble(second, m)
           one == EmitRun(Put(out, len, <<byte>>), len + 1, src, pos, n)
           behind == len + 1 + Literals(src, pos, n)
           two == EmitRun(one, behind, src, pos + n, m)
<1>1. /\ pc = "packing" /\ IsRun(src, pos, n) /\ pos + n < Len(src) /\ IsRun(src, pos + n, m)
      /\ out' = two /\ len' = behind + Literals(src, pos + n, m)
      /\ pos' = pos + n + m
      /\ UNCHANGED <<pc, original, src, capacity, limit>>
  BY DEF PackPair
<1>2. n \in Nat \ {0} /\ m \in Nat \ {0} /\ pos + n + m <= Len(src) /\ pos < Len(src) /\ pos + n \in Nat
  <2>1. src \in Seq(Nat) /\ pos \in Nat
    BY <1>1, PackingFacts
  <2>2. n \in Nat \ {0} /\ pos < Len(src) /\ pos + n \in Nat
    BY <1>1, <2>1, RunSize
  <2>3. m \in Nat \ {0} /\ (pos + n) + m <= Len(src)
    BY <1>1, <2>1, <2>2, RunSize
  <2> QED BY <2>2, <2>3
<1>3. byte \in Nat
  BY <1>2, NibbleType, MarkType
<1> HIDE DEF byte
<1>4. /\ one \in Seq(Nat) /\ behind \in 0..Len(one) /\ Len(one) <= limit
      /\ Literals(src, pos, n) \in Nat
  BY <1>1, <1>2, <1>3, FirstRunFits
<1> DEFINE f == LeadAfter(Lead, src, pos, n)
           g == LeadAfterBoth(Lead, src, pos, n, m)
<1>5. /\ Literals(src, pos + n, m) \in Nat
      /\ ~Special(second) => MarkSpan * f <= Len(src) + MarkSpan - 1
      /\ pos + n + m < Len(src) =>
           MarkSpan * g <= IF Special(src[pos + n + m + 1]) THEN pos + n + m + LiteralMax - 1 ELSE pos + n + m
  <2>1. /\ src \in Seq(Nat) /\ pos \in Nat /\ Lead \in Int
        /\ MarkSpan * Lead <= pos + LiteralMax - 1
        /\ ~Special(src[pos + 1]) => MarkSpan * Lead <= pos
    BY <1>1, <1>2, PackingFacts
  <2>2. IsRun(src, pos, n) /\ pos + n < Len(src) /\ IsRun(src, pos + n, m) /\ n \in Nat \ {0} /\ m \in Nat \ {0}
    BY <1>1, <1>2
  <2> DEFINE e == Lead
  <2>3. /\ e \in Int
        /\ MarkSpan * e <= pos + LiteralMax - 1
        /\ ~Special(src[pos + 1]) => MarkSpan * e <= pos
    BY <2>1
  <2>4. src \in Seq(Nat) /\ pos \in Nat
    BY <2>1
  <2> HIDE DEF e
  <2>5. /\ Literals(src, pos + n, m) \in Nat
        /\ ~Special(src[pos + n + 1]) => MarkSpan * LeadAfter(e, src, pos, n) <= Len(src) + MarkSpan - 1
        /\ pos + n + m < Len(src) =>
             MarkSpan * LeadAfterBoth(e, src, pos, n, m)
               <= IF Special(src[pos + n + m + 1]) THEN pos + n + m + LiteralMax - 1 ELSE pos + n + m
    BY <2>2, <2>3, <2>4, LeadOfPair
  <2> QED BY <2>5 DEF e
<1>6. /\ two \in Seq(Nat)
      /\ behind + Literals(src, pos + n, m) <= Len(two)
      /\ Len(two) <= limit
  <2> DEFINE p == pos + n
             base == Base
  <2>1. ~Special(src[p + 1]) => MarkSpan * (behind - base - p) <= Len(src) + MarkSpan - 1
    <3>1. behind - base - p = f
      <4> DEFINE copied == Literals(src, pos, n)
      <4>1. len \in Int /\ Base \in Int /\ pos \in Int /\ n \in Int /\ copied \in Int
        BY <1>1, <1>2, <1>4, PackingFacts
      <4>2. f = ((len - Base) - pos) + 1 + copied - n /\ behind = len + 1 + copied
        BY DEF Lead, LeadAfter
      <4> HIDE DEF f, behind, copied
      <4> QED BY <4>1, <4>2
    <3> HIDE DEF f, behind
    <3> QED BY <1>5, <3>1
  <2>2. src \in Seq(Nat) /\ base \in Nat /\ p \in Nat /\ limit = base + Len(src) + Rounded(Len(src))
    BY <1>1, <1>2, PackingFacts
  <2>3. IsRun(src, p, m)
    BY <1>1
  <2> HIDE DEF one, behind, p, base
  <2>4. /\ EmitRun(one, behind, src, p, m) \in Seq(Nat)
        /\ behind + Literals(src, p, m) <= Len(EmitRun(one, behind, src, p, m))
        /\ Len(EmitRun(one, behind, src, p, m)) <= base + Len(src) + Rounded(Len(src))
    BY <1>4, <2>1, <2>2, <2>3, EmitRunFits
  <2> QED BY <2>2, <2>4 DEF p
<1>7. TypeOK'
  <2>1. pos' \in 0..Len(src') /\ len' \in 0..Len(out')
    <3> HIDE DEF one, behind, two
    <3>1. behind \in Nat /\ Len(two) \in Nat
      BY <1>4, <1>6, LenProperties
    <3>2. pos' \in 0..Len(src')
      <4>1. pos \in Nat /\ Len(src) \in Nat
        BY <1>1, PackingFacts
      <4> QED BY <1>1, <1>2, <4>1
    <3>3. len' \in Nat /\ len' <= Len(two)
      BY <1>1, <1>5, <1>6, <3>1
    <3> QED BY <1>1, <3>1, <3>2, <3>3
  <2> HIDE DEF two
  <2> QED BY <1>1, <1>6, <2>1 DEF IInv, TypeOK
<1>8. PackInv'
  <2>1. Base' = Base
    BY <1>1 DEF Base
  <2>2. Lead' = g
    <3>1. Lead' = (len' - Base) - pos'
      BY <2>1 DEF Lead
    <3> DEFINE copied == Literals(src, pos, n)
               further == Literals(src, pos + n, m)
    <3>2. len \in Int /\ Base \in Int /\ pos \in Int /\ n \in Int /\ m \in Int /\ copied \in Int /\ further \in Int
      BY <1>1, <1>2, <1>4, <1>5, PackingFacts
    <3>3. /\ g = (((len - Base) - pos) + 1 + copied - n) + further - m
          /\ len' = len + 1 + copied + further /\ pos' = pos + n + m
      BY <1>1 DEF Lead, LeadAfter, LeadAfterBoth
    <3> HIDE DEF g, copied, further
    <3> QED BY <3>1, <3>2, <3>3
  <2>3. LeadBounded'
    <3> HIDE DEF g
    <3> QED BY <1>1, <1>5, <2>2 DEF LeadBounded
  <2>4. Base <= len'
    <3>1. Base <= len /\ Base \in Nat /\ len \in Nat
      BY <1>1, PackingFacts DEF IInv, PackInv
    <3> QED BY <1>1, <1>4, <1>5, <3>1
  <2> HIDE DEF two
  <2> QED BY <1>1, <1>6, <2>1, <2>3, <2>4, PackingFacts DEF PackInv
<1>9. UnpackInv'
  BY <1>1 DEF UnpackInv
<1> QED BY <1>7, <1>8, <1>9 DEF IInv

\* So does the mark of a single run.
LEMMA LastKeeps ==
  ASSUME IInv, NEW n, PackLast(n)
  PROVE  IInv'
<1> DEFINE byte == Nibble(src[pos + 1], n)
           one == EmitRun(Put(out, len, <<byte>>), len + 1, src, pos, n)
<1>1. /\ pc = "packing" /\ IsRun(src, pos, n)
      /\ out' = one /\ len' = len + 1 + Literals(src, pos, n)
      /\ pos' = Len(src)
      /\ UNCHANGED <<pc, original, src, capacity, limit>>
  BY DEF PackLast
<1>2. n \in Nat \ {0} /\ pos < Len(src)
  <2>1. src \in Seq(Nat) /\ pos \in Nat
    BY <1>1, PackingFacts
  <2> QED BY <1>1, <2>1, RunSize
<1>3. byte \in Nat
  BY <1>2, NibbleType
<1> HIDE DEF byte
<1>4. one \in Seq(Nat) /\ len + 1 + Literals(src, pos, n) \in 0..Len(one) /\ Len(one) <= limit /\ Literals(src, pos, n) \in Nat
  BY <1>1, <1>2, <1>3, FirstRunFits
<1> HIDE DEF one
<1>5. TypeOK'
  <2>1. pos' \in 0..Len(src')
    BY <1>1, PackingFacts
  <2> QED BY <1>1, <1>4, <2>1 DEF IInv, TypeOK
<1>6. PackInv'
  <2>1. Base' = Base
    BY <1>1 DEF Base
  <2>2. LeadBounded'
    <3>1. ~(pos' < Len(src'))
      BY <1>1, PackingFacts
    <3> QED BY <3>1 DEF LeadBounded
  <2>3. Base \in Nat /\ Base <= len'
    <3>1. Base <= len /\ Base \in Nat /\ len \in Nat
      BY <1>1, PackingFacts DEF IInv, PackInv
    <3> QED BY <1>1, <1>4, <3>1
  <2> QED BY <1>1, <1>4, <2>1, <2>2, <2>3 DEF PackInv
<1>7. UnpackInv'
  BY <1>1 DEF UnpackInv
<1> QED BY <1>5, <1>6, <1>7 DEF IInv

\* Compressing starts with the room the invariant asks for.
LEMMA CompressKeeps ==
  ASSUME IInv, Compress
  PROVE  IInv'
<1>1. PICK s \in Inputs, digits \in 1..HeaderLimit :
        /\ src' = s /\ original' = s /\ out' = Header(Len(s), digits) /\ len' = digits
        /\ limit' = Estimate(Len(s), digits)
        /\ capacity' = Reserved(capacity, Estimate(Len(s), digits))
  BY DEF Compress
<1>2. pc' = "packing" /\ pos' = 0
  BY DEF Compress
<1>3. s \in Seq(Nat) /\ Len(s) \in Nat /\ digits \in Nat \ {0} /\ Rounded(Len(s)) \in Nat
  BY DataAssumption, LimitsAssumption, LenProperties, SpanPositive DEF Rounded
<1>4. Header(Len(s), digits) \in Seq(Nat) /\ Len(Header(Len(s), digits)) = digits
  BY <1>3, HeaderType
<1>5. Estimate(Len(s), digits) = digits + Len(s) + Rounded(Len(s))
  BY DEF Estimate, Rounded, MarkSpan
<1>6. limit' \in Nat /\ digits <= limit'
  BY <1>1, <1>3, <1>5
<1>7. capacity' \in Nat
  <2>1. capacity \in Nat /\ MinAlloc \in Nat
    BY LimitsAssumption DEF IInv, TypeOK
  <2> QED BY <1>1, <1>6, <2>1 DEF Reserved, Reserve, Larger
<1>8. TypeOK'
  BY <1>1, <1>2, <1>3, <1>4, <1>6, <1>7 DEF TypeOK
<1>9. PackInv'
  <2>1. Base' = digits
    BY <1>1, <1>3, <1>5 DEF Base
  <2>2. Lead' = 0
    <3>1. Lead' = (len' - Base') - pos'
      BY DEF Lead
    <3> QED BY <1>1, <1>2, <1>3, <2>1, <3>1
  <2>3. LeadBounded'
    <3>1. MarkSpan * Lead' = 0
      BY <2>2, SpanPositive
    <3>2. LiteralMax \in Nat \ {0}
      BY LimitsAssumption
    <3> QED BY <1>2, <3>1, <3>2 DEF LeadBounded
  <2> QED BY <1>1, <1>3, <1>4, <1>6, <2>1, <2>3 DEF PackInv
<1>10. UnpackInv'
  BY <1>2 DEF UnpackInv
<1> QED BY <1>8, <1>9, <1>10 DEF IInv

\* Returning the packed bytes keeps the invariant.
LEMMA ReturnKeeps ==
  ASSUME IInv, PackReturn \/ CompressEmpty
  PROVE  IInv'
<1>1. CASE PackReturn
  <2>1. Slice(out, 0, len) \in Seq(Nat) /\ Len(Slice(out, 0, len)) = len
    <3>1. len \in Nat /\ 0 + len <= Len(out) /\ out \in Seq(Nat)
      BY DEF IInv, TypeOK
    <3> QED BY <3>1, SliceLength
  <2>2. TypeOK'
    BY <1>1, <2>1 DEF PackReturn, IInv, TypeOK
  <2> QED BY <1>1, <2>2 DEF PackReturn, IInv, PackInv, UnpackInv
<1>2. CASE CompressEmpty
  <2>1. TypeOK'
    BY <1>2 DEF CompressEmpty, IInv, TypeOK
  <2> QED BY <1>2, <2>1 DEF CompressEmpty, IInv, PackInv, UnpackInv
<1> QED BY <1>1, <1>2

-----------------------------------------------------------------------------
(* Decompressing *)

\* Decompressing starts with the room the invariant asks for.
LEMMA DecompressKeeps ==
  ASSUME IInv, NEW stream \in Seq(Nat), NEW old \in OldOutputs, Decompress(stream, old)
  PROVE  IInv'
<1>1. /\ pc' \in {"ok", "error", "unpacking"} /\ src' = stream /\ len' = 0
      /\ UNCHANGED <<original, capacity>>
      /\ Digits(stream) = {} => pc' # "unpacking"
  BY DEF Decompress
<1>2. Len(stream) \in Nat
  BY LenProperties
<1>3. CASE Digits(stream) = {} /\ out' = <<>> /\ pos' = 0 /\ limit' = 0
  <2>1. TypeOK'
    BY <1>1, <1>2, <1>3 DEF IInv, TypeOK
  <2> QED BY <1>1, <1>3, <2>1 DEF IInv, PackInv, UnpackInv
<1>4. ASSUME NEW k \in Digits(stream), NEW n \in 0..(VarintRange ^ VarintBytes - 1),
             limit' = n, out' = Resized(old, n), pos' = k
      PROVE  IInv'
  <2>1. n \in Nat /\ Pad \in Nat /\ old \in Seq(Nat)
    BY LimitsAssumption, DataAssumption
  <2>2. out' \in Seq(Nat) /\ Len(out') = n + Pad
    <3>1. n + Pad \in Nat
      BY <2>1
    <3>2. \A i \in 1..(n + Pad) : (IF i <= Len(old) THEN old[i] ELSE 0) \in Nat
      BY <2>1, LenProperties
    <3> QED BY <1>4, <3>1, <3>2 DEF Resized
  <2>3. pos' \in 0..Len(src')
    BY <1>1, <1>2, <1>4, LimitsAssumption DEF Digits
  <2>4. TypeOK'
    BY <1>1, <1>4, <2>1, <2>2, <2>3 DEF IInv, TypeOK
  <2>5. UnpackInv'
    BY <1>1, <1>4, <2>1, <2>2 DEF UnpackInv
  <2> QED BY <1>1, <2>4, <2>5 DEF IInv, PackInv
<1> QED BY <1>3, <1>4 DEF Decompress

\* A vector that is being filled: w as in unpack.
Filling(w) ==
  /\ w.ok \in BOOLEAN /\ w.pos \in 0..Len(src) /\ w.out \in Seq(Nat) /\ w.len \in Nat
  /\ Len(w.out) = limit + Pad /\ w.len <= limit
  /\ w = [ok |-> w.ok, pos |-> w.pos, out |-> w.out, len |-> w.len]

\* A write that ends within the room leaves the buffer's length.
LEMMA PutInside ==
  ASSUME NEW w, Filling(w), limit \in Nat, NEW bytes \in Seq(Nat), w.len + Len(bytes) <= limit + Pad
  PROVE  Put(w.out, w.len, bytes) \in Seq(Nat) /\ Len(Put(w.out, w.len, bytes)) = limit + Pad
<1>1. w.out \in Seq(Nat) /\ w.len \in 0..Len(w.out) /\ Len(w.out) = limit + Pad /\ limit + Pad \in Nat
  BY LimitsAssumption, SMTT(30) DEF Filling
<1>2. Len(bytes) \in Nat
  BY LenProperties
<1> QED BY <1>1, <1>2, PutLength DEF Larger

\* Unpacking a nibble stays within the room, whatever the nibble.
LEMMA UnpackFills ==
  ASSUME IInv, NEW w, Filling(w), NEW nibble \in Nat
  PROVE  Filling(Unpack(w, nibble))
<1>0. limit \in Nat /\ src \in Seq(Nat) /\ Len(src) \in Nat /\ Pad \in Nat /\ w.len \in Nat /\ w.pos \in Nat /\ w.pos <= Len(src)
  BY LimitsAssumption, LenProperties DEF IInv, TypeOK, Filling
<1>1. CASE ~w.ok \/ w.len >= limit \/ nibble = 0
  BY <1>1 DEF Unpack
<1>2. CASE w.len < limit /\ nibble > LiteralMax /\ Unpack(w, nibble) = UnpackFill(w, FillCount(nibble), FillByte(nibble))
  <2> DEFINE count == FillCount(nibble)
             bytes == [i \in 1..FillMax |-> FillByte(nibble)]
  <2>1. count \in Nat /\ count <= FillMax
    <3>1. (nibble - LiteralMax - 1) \in Nat /\ FillMax \in Nat \ {0}
      BY <1>2, LimitsAssumption
    <3>2. (nibble - LiteralMax - 1) % FillMax \in 0..(FillMax - 1)
      BY <3>1
    <3> QED BY <3>1, <3>2 DEF FillCount
  <2>2. FillByte(nibble) \in Nat
    <3>1. NibbleRange \in Nat \ {0}
      BY LimitsAssumption DEF NibbleRange
    <3>2. ByteMax \in Nat
      BY <3>1 DEF ByteMax
    <3> QED BY <3>2 DEF FillByte
  <2>3. bytes \in Seq(Nat) /\ Len(bytes) = FillMax
    BY <2>2, LimitsAssumption
  <2>4. w.len + FillMax <= limit + Pad
    BY <1>0, <1>2, LimitsAssumption
  <2> HIDE DEF bytes
  <2>5. Put(w.out, w.len, bytes) \in Seq(Nat) /\ Len(Put(w.out, w.len, bytes)) = limit + Pad
    BY <1>0, <2>3, <2>4, PutInside
  <2>6. CASE count > limit - w.len
    BY <1>2, <2>6 DEF UnpackFill, Filling
  <2>7. CASE ~(count > limit - w.len)
    <3>1. w.len + count \in Nat /\ w.len + count <= limit
      BY <1>0, <2>1, <2>7
    <3>2. UnpackFill(w, count, FillByte(nibble)) = [w EXCEPT !.out = Put(@, w.len, bytes), !.len = @ + count]
      BY <2>7 DEF UnpackFill, bytes
    <3> HIDE DEF count
    <3> QED BY <1>2, <2>5, <3>1, <3>2 DEF Filling, count
  <2> QED BY <2>6, <2>7
<1>3. CASE w.len < limit /\ nibble # 0 /\ Unpack(w, nibble) = UnpackLiterals(w, nibble)
  <2>1. CASE nibble > Len(src) - w.pos \/ nibble > limit - w.len
    BY <1>3, <2>1 DEF UnpackLiterals, Filling
  <2>2. CASE ~(nibble > Len(src) - w.pos \/ nibble > limit - w.len)
    <3> DEFINE width == IF Len(src) - w.pos >= Window THEN Window ELSE nibble
               bytes == Slice(src, w.pos, width)
    <3>1. width \in Nat /\ w.pos + width <= Len(src) /\ w.len + width <= limit + Pad
      <4> DEFINE left == Len(src) - w.pos
                 room == limit - w.len
      <4>1. left \in Nat /\ room \in Nat /\ nibble <= left /\ nibble <= room
            /\ Window \in Nat /\ Pad \in Nat /\ Window <= Pad + 1 /\ room >= 1
        BY <1>0, <1>3, <2>2, LimitsAssumption, SMTT(30)
      <4>2. width = (IF left >= Window THEN Window ELSE nibble)
            /\ Len(src) = w.pos + left /\ limit = w.len + room
        BY <1>0
      <4> HIDE DEF left, room, width
      <4>3. width \in Nat /\ width <= left /\ width <= room + Pad
        BY <4>1, <4>2
      <4>4. w.pos + width <= w.pos + left /\ w.len + width <= w.len + (room + Pad)
        BY ONLY <1>0, <4>1, <4>3
      <4>5. w.len + (room + Pad) = limit + Pad
        BY ONLY <1>0, <4>1, <4>2
      <4> QED BY ONLY <4>2, <4>3, <4>4, <4>5
    <3>2. bytes \in Seq(Nat) /\ Len(bytes) = width
      <4> HIDE DEF width
      <4> QED BY <1>0, <3>1, SliceLength
    <3>3. Put(w.out, w.len, bytes) \in Seq(Nat) /\ Len(Put(w.out, w.len, bytes)) = limit + Pad
      <4> HIDE DEF bytes, width
      <4> QED BY <1>0, <3>1, <3>2, PutInside
    <3>4. w.len + nibble \in Nat /\ w.len + nibble <= limit /\ w.pos + nibble \in 0..Len(src)
      BY <1>0, <2>2
    <3>5. UnpackLiterals(w, nibble) = [w EXCEPT !.out = Put(@, w.len, bytes), !.len = @ + nibble, !.pos = @ + nibble]
      BY <2>2 DEF UnpackLiterals
    <3> HIDE DEF bytes
    <3> QED BY <1>3, <3>3, <3>4, <3>5 DEF Filling
  <2> QED BY <2>1, <2>2
<1> QED BY <1>0, <1>1, <1>2, <1>3 DEF Unpack

\* One iteration of the decompressor keeps the invariant.
LEMMA UnpackKeeps ==
  ASSUME IInv, UnpackMark
  PROVE  IInv'
<1> DEFINE mark == src[pos + 1]
           begin == [ok |-> TRUE, pos |-> pos + 1, out |-> out, len |-> len]
           middle == Unpack(begin, mark % NibbleRange)
           after == Unpack(middle, mark \div NibbleRange)
<1>1. src \in Seq(Nat) /\ pos \in Nat /\ Len(src) \in Nat /\ pos < Len(src) /\ pc = "unpacking"
  BY LenProperties DEF IInv, TypeOK, UnpackMark
<1>2. mark % NibbleRange \in Nat /\ mark \div NibbleRange \in Nat
  <2>1. mark \in Nat
    BY <1>1
  <2>2. NibbleRange \in Nat \ {0}
    BY LimitsAssumption DEF NibbleRange
  <2> HIDE DEF mark
  <2> QED BY <2>1, <2>2
<1>3. Filling(begin)
  BY <1>1 DEF Filling, IInv, TypeOK, UnpackInv
<1> HIDE DEF begin, mark
<1>4. Filling(middle)
  BY <1>2, <1>3, UnpackFills
<1> HIDE DEF middle
<1>5. Filling(after)
  BY <1>2, <1>4, UnpackFills
<1>6. after = Unpacked(src[pos + 1], [ok |-> TRUE, pos |-> pos + 1, out |-> out, len |-> len])
  BY DEF Unpacked, after, middle, begin, mark
<1> HIDE DEF after
<1>7. /\ pc' = IF after.ok THEN "unpacking" ELSE "error"
      /\ out' = IF after.ok THEN after.out ELSE <<>>
      /\ pos' = after.pos
      /\ len' = IF after.ok THEN after.len ELSE 0
      /\ UNCHANGED <<original, src, capacity, limit>>
  BY <1>6 DEF UnpackMark
<1>8. TypeOK'
  <2>1. CASE after.ok
    <3>1. after.len \in 0..Len(after.out)
      <4>1. limit \in Nat /\ Pad \in Nat
        BY LimitsAssumption DEF IInv, TypeOK
      <4> QED BY <1>5, <4>1 DEF Filling
    <3> QED BY <1>5, <1>7, <2>1, <3>1 DEF Filling, IInv, TypeOK
  <2>2. CASE ~after.ok
    BY <1>5, <1>7, <2>2 DEF Filling, IInv, TypeOK
  <2> QED BY <2>1, <2>2
<1>9. UnpackInv'
  BY <1>5, <1>7 DEF Filling, UnpackInv
<1> QED BY <1>7, <1>8, <1>9 DEF IInv, PackInv

\* Returning the data, or an error, keeps the invariant.
LEMMA UnpackReturnKeeps ==
  ASSUME IInv, UnpackReturn
  PROVE  IInv'
<1>1. limit \in Nat /\ out \in Seq(Nat) /\ Len(out) = limit + Pad /\ Pad \in Nat
  BY LimitsAssumption DEF IInv, TypeOK, UnpackInv, UnpackReturn
<1>2. Slice(out, 0, limit) \in Seq(Nat) /\ Len(Slice(out, 0, limit)) = limit
  <2>1. 0 + limit <= Len(out)
    BY <1>1
  <2> QED BY <1>1, <2>1, SliceLength
<1>3. TypeOK'
  <2>1. CASE len = limit
    BY <1>1, <1>2, <2>1 DEF IInv, TypeOK, UnpackReturn
  <2>2. CASE len # limit
    BY <1>1, <2>2 DEF IInv, TypeOK, UnpackReturn
  <2> QED BY <2>1, <2>2
<1> QED BY <1>3 DEF IInv, PackInv, UnpackInv, UnpackReturn

-----------------------------------------------------------------------------
\* The invariant holds initially.
LEMMA Initially == Init => IInv
<1> SUFFICES ASSUME Init PROVE IInv
  OBVIOUS
<1>1. TypeOK
  BY LimitsAssumption DEF Init, TypeOK
<1> QED BY <1>1 DEF Init, IInv, PackInv, UnpackInv

\* Every step keeps the invariant.
LEMMA EachStep == IInv /\ [Next]_vars => IInv'
<1> SUFFICES ASSUME IInv, [Next]_vars PROVE IInv'
  OBVIOUS
<1>1. CASE CompressEmpty \/ PackReturn
  BY <1>1, ReturnKeeps
<1>2. CASE Compress
  BY <1>2, CompressKeeps
<1>3. CASE \E n, m \in 1..Window : PackPair(n, m)
  BY <1>3, PairKeeps
<1>4. CASE \E n \in 1..Window : PackLast(n)
  BY <1>4, LastKeeps
<1>5. CASE DecompressPacked
  <2>1. out \in Seq(Nat)
    BY DEF IInv, TypeOK
  <2> QED BY <1>5, <2>1, DecompressKeeps DEF DecompressPacked
<1>6. CASE DecompressOther
  BY <1>6, DataAssumption, DecompressKeeps DEF DecompressOther
<1>7. CASE UnpackMark
  BY <1>7, UnpackKeeps
<1>8. CASE UnpackReturn
  BY <1>8, UnpackReturnKeeps
<1>9. CASE UNCHANGED vars
  BY <1>9 DEF vars, IInv, TypeOK, PackInv, UnpackInv, LeadBounded, Lead, Base
<1> QED BY <1>1, <1>2, <1>3, <1>4, <1>5, <1>6, <1>7, <1>8, <1>9 DEF Next

\* The invariant that the three theorems below are read off.
LEMMA AlwaysIInv == Spec => []IInv
<1> QED BY Initially, EachStep, PTL DEF Spec

(***************************************************************************)
(* The state of both calls stays well typed, for all limits on runs.       *)
(***************************************************************************)
THEOREM CallTypes == Spec => []TypeOK
<1>1. IInv => TypeOK
  BY DEF IInv
<1> QED BY <1>1, AlwaysIInv, PTL

(***************************************************************************)
(* The estimate of compress_into (utils.rs:287) covers every raw write,    *)
(* for all data and whatever the lengths of runs and windows.              *)
(***************************************************************************)
THEOREM EstimateCovers == Spec => []WritesFitEstimate
<1>1. IInv => WritesFitEstimate
  BY DEF IInv, PackInv, WritesFitEstimate
<1> QED BY <1>1, AlwaysIInv, PTL

(***************************************************************************)
(* unpack's wide writes stay within the vector, for all streams.           *)
(***************************************************************************)
THEOREM UnpackNeverOverruns == Spec => []UnpackStaysInside
<1>1. IInv => UnpackStaysInside
  BY DEF IInv, UnpackInv, UnpackStaysInside
<1> QED BY <1>1, AlwaysIInv, PTL

-----------------------------------------------------------------------------
(* What the bytes are *)

\* Overwriting changes the bytes it is given and keeps those before them.
LEMMA PutBytes ==
  ASSUME NEW buf \in Seq(Nat), NEW at \in 0..Len(buf), NEW bytes \in Seq(Nat)
  PROVE  /\ \A i \in 1..at : Put(buf, at, bytes)[i] = buf[i]
         /\ \A i \in 1..Len(bytes) : Put(buf, at, bytes)[at + i] = bytes[i]
<1> DEFINE front == SubSeq(buf, 1, at)
           back  == SubSeq(buf, at + Len(bytes) + 1, Len(buf))
<1>1. front \in Seq(Nat) /\ Len(front) = at /\ \A i \in 1..at : front[i] = buf[i]
  <2>1. CASE at = 0
    BY <2>1, SubSeqEmpty
  <2>2. CASE at # 0
    BY <2>2, SubSeqProperties
  <2> QED BY <2>1, <2>2
<1>2. back \in Seq(Nat)
  <2>1. CASE at + Len(bytes) + 1 <= Len(buf)
    BY <2>1, SubSeqProperties
  <2>2. CASE at + Len(bytes) + 1 > Len(buf)
    BY <2>2, SubSeqEmpty
  <2> QED BY <2>1, <2>2
<1>3. Put(buf, at, bytes) = (front \o bytes) \o back
  BY DEF Put
<1> HIDE DEF front, back
<1>4. /\ front \o bytes \in Seq(Nat) /\ Len(front \o bytes) = at + Len(bytes)
      /\ \A i \in 1..(at + Len(bytes)) :
           (front \o bytes)[i] = IF i <= at THEN front[i] ELSE bytes[i - at]
  BY <1>1, ConcatProperties
<1> DEFINE written == front \o bytes
<1> HIDE DEF written
<1>5. \A i \in 1..Len(written) : (written \o back)[i] = written[i]
  BY <1>2, <1>4, ConcatProperties DEF written
<1>6. at \in Nat /\ Len(bytes) \in Nat
  BY LenProperties
<1>7. ASSUME NEW i \in 1..at PROVE Put(buf, at, bytes)[i] = buf[i]
  <2>1. i \in 1..(at + Len(bytes)) /\ i <= at
    BY <1>6
  <2> QED BY <1>1, <1>3, <1>4, <1>5, <2>1 DEF written
<1>8. ASSUME NEW i \in 1..Len(bytes) PROVE Put(buf, at, bytes)[at + i] = bytes[i]
  <2>1. at + i \in 1..(at + Len(bytes)) /\ ~(at + i <= at) /\ (at + i) - at = i
    BY <1>6
  <2> QED BY <1>3, <1>4, <1>5, <2>1 DEF written
<1> QED BY <1>7, <1>8

\* Which bytes a slice holds.
LEMMA SliceBytes ==
  ASSUME NEW s \in Seq(Nat), NEW p \in Nat, NEW n \in Nat, p + n <= Len(s)
  PROVE  \A i \in 1..n : Slice(s, p, n)[i] = s[p + i]
<1>1. CASE n = 0
  BY <1>1
<1>2. CASE n > 0
  <2>1. p + 1 \in 1..Len(s) /\ p + n \in 1..Len(s) /\ p + 1 <= p + n
    BY <1>2, LenProperties
  <2>2. \A i \in 1..(p + n) - (p + 1) + 1 : SubSeq(s, p + 1, p + n)[i] = s[(p + 1) + i - 1]
    BY <2>1, SubSeqProperties
  <2>3. (p + n) - (p + 1) + 1 = n
    OBVIOUS
  <2> TAKE i \in 1..n
  <2>4. SubSeq(s, p + 1, p + n)[i] = s[(p + 1) + i - 1]
    BY <2>2, <2>3
  <2>5. (p + 1) + i - 1 = p + i
    OBVIOUS
  <2> QED BY <2>4, <2>5 DEF Slice
<1> QED BY <1>1, <1>2

\* emit_run_raw writes the run, whatever the window adds behind it.
LEMMA EmitBytes ==
  ASSUME NEW s \in Seq(Nat), NEW buf \in Seq(Nat), NEW at \in 0..Len(buf), NEW p \in Nat,
         NEW n, IsRun(s, p, n)
  PROVE  /\ EmitRun(buf, at, s, p, n) \in Seq(Nat)
         /\ at + Literals(s, p, n) \in 0..Len(EmitRun(buf, at, s, p, n))
         /\ \A i \in 1..at : EmitRun(buf, at, s, p, n)[i] = buf[i]
         /\ \A i \in 1..Literals(s, p, n) : EmitRun(buf, at, s, p, n)[at + i] = s[p + i]
         /\ Literals(s, p, n) \in 0..n /\ n \in Nat \ {0} /\ p + n <= Len(s)
<1>1. n \in Nat \ {0} /\ p + n <= Len(s)
  BY RunSize
<1>2. CASE Special(s[p + 1])
  <2>1. EmitRun(buf, at, s, p, n) = buf /\ Literals(s, p, n) = 0
    BY <1>2 DEF EmitRun, Literals
  <2> QED BY <1>1, <2>1
<1>3. CASE ~Special(s[p + 1])
  <2> DEFINE w == IF p + Window <= Len(s) THEN Window ELSE n
             bytes == Slice(s, p, w)
  <2>1. w \in Nat /\ n <= w /\ p + w <= Len(s)
    BY <1>1, <1>3, LimitsAssumption DEF IsRun, RunLimit
  <2>2. EmitRun(buf, at, s, p, n) = Put(buf, at, bytes) /\ Literals(s, p, n) = n
    BY <1>3 DEF EmitRun, Emit, Literals
  <2> HIDE DEF w
  <2>3. bytes \in Seq(Nat) /\ Len(bytes) = w /\ \A i \in 1..w : bytes[i] = s[p + i]
    BY <2>1, SliceLength, SliceBytes
  <2> HIDE DEF bytes
  <2>4. /\ Put(buf, at, bytes) \in Seq(Nat)
        /\ Len(Put(buf, at, bytes)) = Larger(Len(buf), at + w)
        /\ \A i \in 1..at : Put(buf, at, bytes)[i] = buf[i]
        /\ \A i \in 1..w : Put(buf, at, bytes)[at + i] = bytes[i]
    BY <2>3, PutLength, PutBytes
  <2>5. at + n \in 0..Larger(Len(buf), at + w)
    <3>1. at \in Nat /\ Len(buf) \in Nat
      BY LenProperties
    <3> QED BY <1>1, <2>1, <3>1 DEF Larger
  <2>6. \A i \in 1..n : i \in 1..w
    BY <1>1, <2>1
  <2>7. \A i \in 1..n : Put(buf, at, bytes)[at + i] = s[p + i]
    BY <2>3, <2>4, <2>6
  <2>8. at + n \in 0..Len(Put(buf, at, bytes)) /\ n \in 0..n
    BY <1>1, <2>4, <2>5
  <2> QED BY ONLY <1>1, <2>2, <2>4, <2>7, <2>8
<1> QED BY <1>2, <1>3

\* The bytes of a mark and of the literals of its two runs, of n and of m
\* bytes behind d.
Spent(data, d, n, m) == 1 + Literals(data, d, n) + Literals(data, d + n, m)

\* The mark behind p stands for two runs of the data, the second of which is
\* missing at the end.
Marked(s, data, p, d, n, m) ==
  /\ IsRun(data, d, n)
  /\ m # 0 => IsRun(data, d + n, m)
  /\ s[p + 1] = Nibble(data[d + 1], n) + NibbleRange * (IF m = 0 THEN 0 ELSE Nibble(data[d + n + 1], m))
  /\ \A i \in 1..Literals(data, d, n) : s[p + 1 + i] = data[d + i]
  /\ \A i \in 1..Literals(data, d + n, m) : s[p + 1 + Literals(data, d, n) + i] = data[d + n + i]

\* What one iteration of the compressor adds.
Added(n, m) ==
  /\ n \in Nat \ {0} /\ m \in Nat /\ pos + n + m <= Len(src)
  /\ pos' = pos + n + m
  /\ Literals(src, pos, n) \in Nat /\ Literals(src, pos + n, m) \in Nat
  /\ len' = len + Spent(src, pos, n, m)
  /\ \A i \in 1..len : out'[i] = out[i]
  /\ Marked(out', src, len, pos, n, m)

\* What precedes the literals: the mark.
LEMMA MarkBytes ==
  ASSUME IInv, pc = "packing", pos < Len(src), NEW byte \in Nat
  PROVE  /\ Put(out, len, <<byte>>) \in Seq(Nat)
         /\ len + 1 \in 0..Len(Put(out, len, <<byte>>))
         /\ \A i \in 1..len : Put(out, len, <<byte>>)[i] = out[i]
         /\ Put(out, len, <<byte>>)[len + 1] = byte
<1> DEFINE bytes == <<byte>>
<1>1. bytes \in Seq(Nat) /\ Len(bytes) = 1 /\ bytes[1] = byte
  OBVIOUS
<1>2. out \in Seq(Nat) /\ len \in 0..Len(out)
  BY PackingFacts
<1>3. Put(out, len, bytes) \in Seq(Nat) /\ len + 1 \in 0..Len(Put(out, len, bytes))
  BY MarkFits
<1> HIDE DEF bytes
<1>4. /\ \A i \in 1..len : Put(out, len, bytes)[i] = out[i]
      /\ \A i \in 1..Len(bytes) : Put(out, len, bytes)[len + i] = bytes[i]
  BY <1>1, <1>2, PutBytes
<1>5. Put(out, len, bytes)[len + 1] = byte
  <2>1. 1 \in 1..Len(bytes)
    BY <1>1
  <2> QED BY <1>1, <1>4, <2>1
<1> QED BY <1>3, <1>4, <1>5 DEF bytes

\* A mark with two runs adds the mark and their literals.
LEMMA PairAdds ==
  ASSUME IInv, NEW n, NEW m, PackPair(n, m)
  PROVE  Added(n, m)
<1> DEFINE first == src[pos + 1]
           second == src[pos + n + 1]
           byte == Nibble(first, n) + NibbleRange * Nibble(second, m)
           marked == Put(out, len, <<byte>>)
           one == EmitRun(marked, len + 1, src, pos, n)
           behind == len + 1 + Literals(src, pos, n)
           two == EmitRun(one, behind, src, pos + n, m)
<1>1. /\ pc = "packing" /\ IsRun(src, pos, n) /\ pos + n < Len(src) /\ IsRun(src, pos + n, m)
      /\ out' = two /\ len' = behind + Literals(src, pos + n, m)
      /\ pos' = pos + n + m
  BY DEF PackPair
<1>2. /\ src \in Seq(Nat) /\ pos \in Nat /\ len \in Nat
      /\ n \in Nat \ {0} /\ m \in Nat \ {0} /\ pos + n + m <= Len(src) /\ pos < Len(src) /\ pos + n \in Nat
  <2>1. src \in Seq(Nat) /\ pos \in Nat /\ len \in Nat
    BY <1>1, PackingFacts
  <2>2. n \in Nat \ {0} /\ pos < Len(src) /\ pos + n \in Nat
    BY <1>1, <2>1, RunSize
  <2>3. m \in Nat \ {0} /\ (pos + n) + m <= Len(src)
    BY <1>1, <2>1, <2>2, RunSize
  <2> QED BY <2>1, <2>2, <2>3
<1>3. byte \in Nat
  BY <1>2, NibbleType, MarkType
<1>4. /\ marked \in Seq(Nat) /\ len + 1 \in 0..Len(marked)
      /\ \A i \in 1..len : marked[i] = out[i]
      /\ marked[len + 1] = byte
  <2> HIDE DEF byte
  <2> QED BY <1>1, <1>2, <1>3, MarkBytes
<1> HIDE DEF marked
<1>5. /\ one \in Seq(Nat) /\ behind \in 0..Len(one)
      /\ \A i \in 1..(len + 1) : one[i] = marked[i]
      /\ \A i \in 1..Literals(src, pos, n) : one[len + 1 + i] = src[pos + i]
      /\ Literals(src, pos, n) \in Nat
  <2> DEFINE at == len + 1
  <2>1. at \in 0..Len(marked) /\ marked \in Seq(Nat) /\ src \in Seq(Nat) /\ pos \in Nat /\ IsRun(src, pos, n)
    BY <1>1, <1>2, <1>4
  <2> HIDE DEF at
  <2>2. /\ EmitRun(marked, at, src, pos, n) \in Seq(Nat)
        /\ at + Literals(src, pos, n) \in 0..Len(EmitRun(marked, at, src, pos, n))
        /\ \A i \in 1..at : EmitRun(marked, at, src, pos, n)[i] = marked[i]
        /\ \A i \in 1..Literals(src, pos, n) : EmitRun(marked, at, src, pos, n)[at + i] = src[pos + i]
        /\ Literals(src, pos, n) \in 0..n
    BY ONLY <2>1, EmitBytes, SMTT(30)
  <2> QED BY <1>2, <2>2 DEF at
<1> HIDE DEF one
<1>6. /\ \A i \in 1..behind : two[i] = one[i]
      /\ \A i \in 1..Literals(src, pos + n, m) : two[behind + i] = src[pos + n + i]
      /\ Literals(src, pos + n, m) \in Nat
  <2> DEFINE p == pos + n
             at == behind
  <2>1. at \in 0..Len(one) /\ one \in Seq(Nat) /\ src \in Seq(Nat) /\ p \in Nat /\ IsRun(src, p, m)
    BY <1>1, <1>2, <1>5
  <2> HIDE DEF at, p
  <2>2. /\ EmitRun(one, at, src, p, m) \in Seq(Nat)
        /\ at + Literals(src, p, m) \in 0..Len(EmitRun(one, at, src, p, m))
        /\ \A i \in 1..at : EmitRun(one, at, src, p, m)[i] = one[i]
        /\ \A i \in 1..Literals(src, p, m) : EmitRun(one, at, src, p, m)[at + i] = src[p + i]
        /\ Literals(src, p, m) \in 0..m /\ m \in Nat \ {0} /\ p + m <= Len(src)
    BY ONLY <2>1, EmitBytes
  <2> QED BY <1>2, <2>2 DEF at, p
<1> DEFINE lit == Literals(src, pos, n)
<1>12. /\ \A i \in 1..len : i \in 1..(len + 1) /\ i \in 1..behind
       /\ len + 1 \in 1..(len + 1) /\ len + 1 \in 1..behind
       /\ \A i \in 1..lit : len + 1 + i \in 1..behind
  <2>1. len \in Nat /\ lit \in Nat /\ behind = len + 1 + lit
    BY <1>2, <1>5
  <2> HIDE DEF behind, lit
  <2> QED BY ONLY <2>1
<1> HIDE DEF two, byte
<1>7. \A i \in 1..len : out'[i] = out[i]
  BY <1>1, <1>4, <1>5, <1>6, <1>12
<1>8. out'[len + 1] = byte
  BY <1>1, <1>4, <1>5, <1>6, <1>12
<1>9. \A i \in 1..lit : out'[len + 1 + i] = src[pos + i]
  BY <1>1, <1>5, <1>6, <1>12
<1>10. Marked(out', src, len, pos, n, m)
  BY <1>1, <1>2, <1>6, <1>8, <1>9 DEF Marked, byte
<1>11. len' = len + Spent(src, pos, n, m)
  BY <1>1, <1>2, <1>5, <1>6, SMTT(30) DEF Spent
<1> QED BY <1>1, <1>2, <1>5, <1>6, <1>7, <1>10, <1>11 DEF Added

\* A mark with one run adds the mark and its literals.
LEMMA LastAdds ==
  ASSUME IInv, NEW n, PackLast(n)
  PROVE  Added(n, 0) /\ pos + n = Len(src)
<1> DEFINE byte == Nibble(src[pos + 1], n)
           marked == Put(out, len, <<byte>>)
           one == EmitRun(marked, len + 1, src, pos, n)
<1>1. /\ pc = "packing" /\ IsRun(src, pos, n) /\ pos + n = Len(src)
      /\ out' = one /\ len' = len + 1 + Literals(src, pos, n)
      /\ pos' = Len(src)
  BY DEF PackLast
<1>2. /\ src \in Seq(Nat) /\ pos \in Nat /\ len \in Nat
      /\ n \in Nat \ {0} /\ pos < Len(src)
  <2>1. src \in Seq(Nat) /\ pos \in Nat /\ len \in Nat
    BY <1>1, PackingFacts
  <2> QED BY <1>1, <2>1, RunSize
<1>3. byte \in Nat
  BY <1>2, NibbleType
<1>4. /\ marked \in Seq(Nat) /\ len + 1 \in 0..Len(marked)
      /\ \A i \in 1..len : marked[i] = out[i]
      /\ marked[len + 1] = byte
  <2> HIDE DEF byte
  <2> QED BY <1>1, <1>2, <1>3, MarkBytes
<1> HIDE DEF marked
<1>5. /\ \A i \in 1..(len + 1) : one[i] = marked[i]
      /\ \A i \in 1..Literals(src, pos, n) : one[len + 1 + i] = src[pos + i]
      /\ Literals(src, pos, n) \in Nat
  <2> DEFINE at == len + 1
  <2>1. at \in 0..Len(marked) /\ marked \in Seq(Nat) /\ src \in Seq(Nat) /\ pos \in Nat /\ IsRun(src, pos, n)
    BY <1>1, <1>2, <1>4
  <2> HIDE DEF at
  <2>2. /\ EmitRun(marked, at, src, pos, n) \in Seq(Nat)
        /\ at + Literals(src, pos, n) \in 0..Len(EmitRun(marked, at, src, pos, n))
        /\ \A i \in 1..at : EmitRun(marked, at, src, pos, n)[i] = marked[i]
        /\ \A i \in 1..Literals(src, pos, n) : EmitRun(marked, at, src, pos, n)[at + i] = src[pos + i]
        /\ Literals(src, pos, n) \in 0..n
    BY ONLY <2>1, EmitBytes, SMTT(30)
  <2>3. Literals(src, pos, n) \in Nat
    BY ONLY <1>2, <2>2
  <2> QED BY ONLY <2>2, <2>3 DEF at
<1> HIDE DEF one
<1>6. \A i \in 1..len : out'[i] = out[i]
  <2> TAKE i \in 1..len
  <2>1. i \in 1..(len + 1)
    BY <1>2
  <2> QED BY <1>1, <1>4, <1>5, <2>1
<1>7. Literals(src, pos + n, 0) = 0
  BY DEF Literals
<1>8. out'[len + 1] = byte + NibbleRange * 0
  <2>1. len + 1 \in 1..(len + 1)
    BY <1>2
  <2>2. out'[len + 1] = byte
    BY <1>1, <1>4, <1>5, <2>1
  <2>3. NibbleRange \in Nat
    BY LimitsAssumption DEF NibbleRange
  <2> HIDE DEF byte
  <2> QED BY <1>3, <2>2, <2>3
<1>9. Marked(out', src, len, pos, n, 0)
  BY <1>1, <1>5, <1>7, <1>8 DEF Marked
<1>10. len' = len + Spent(src, pos, n, 0) /\ pos' = pos + n + 0 /\ pos + n + 0 <= Len(src)
  BY <1>1, <1>2, <1>5, <1>7 DEF Spent
<1> QED BY <1>1, <1>2, <1>5, <1>6, <1>7, <1>9, <1>10 DEF Added

\* Nibbles and bytes hold what is put into them.
LEMMA ByteFacts ==
  NibbleRange \in Nat \ {0} /\ ByteMax \in Nat /\ ByteMax = NibbleRange * NibbleRange - 1 /\ ByteMax # 0
<1>1. NibbleRange \in Nat /\ NibbleRange >= 2
  BY LimitsAssumption DEF NibbleRange
<1>2. NibbleRange * NibbleRange >= NibbleRange * 2
  BY <1>1, SMT
<1>3. NibbleRange * NibbleRange \in Nat
  BY <1>1, SMT
<1> QED BY <1>1, <1>2, <1>3 DEF ByteMax

\* The nibble of a run fits half a mark and is not 0.
LEMMA NibbleBound ==
  ASSUME NEW s \in Seq(Nat), NEW p \in Nat, NEW n, IsRun(s, p, n)
  PROVE  Nibble(s[p + 1], n) \in 1..(NibbleRange - 1)
<1>1. n \in Nat \ {0} /\ n <= RunLimit(s[p + 1])
  BY RunSize DEF IsRun
<1>2. CASE Special(s[p + 1])
  <2>1. n <= FillMax
    BY <1>1, <1>2 DEF RunLimit
  <2>2. Nibble(s[p + 1], n) = LiteralMax + n + (IF s[p + 1] = 0 THEN 0 ELSE FillMax)
    BY <1>2 DEF Nibble
  <2>3. LiteralMax \in Nat /\ FillMax \in Nat /\ NibbleRange = LiteralMax + LiteralMax + 2 /\ FillMax + FillMax <= LiteralMax + 1
    BY LimitsAssumption, BytesAssumption DEF NibbleRange
  <2> QED BY <1>1, <2>1, <2>2, <2>3
<1>3. CASE ~Special(s[p + 1])
  <2>1. n <= LiteralMax /\ Nibble(s[p + 1], n) = n
    BY <1>1, <1>3 DEF RunLimit, Nibble
  <2>2. LiteralMax \in Nat /\ NibbleRange = LiteralMax + LiteralMax + 2
    BY LimitsAssumption DEF NibbleRange
  <2> QED BY <1>1, <2>1, <2>2
<1> QED BY <1>2, <1>3

\* A mark's nibbles are got back, and it is a byte.
LEMMA MarkSplits ==
  ASSUME NEW a \in 0..(NibbleRange - 1), NEW b \in 0..(NibbleRange - 1)
  PROVE  /\ (a + NibbleRange * b) % NibbleRange = a
         /\ (a + NibbleRange * b) \div NibbleRange = b
         /\ a + NibbleRange * b \in 0..ByteMax
<1> DEFINE c == NibbleRange
<1>1. c \in Nat \ {0} /\ a \in Nat /\ b \in Nat /\ a < c /\ b < c /\ ByteMax = c * c - 1
  BY ByteFacts
<1> HIDE DEF c
<1>2. (c * b + a) \div c = b /\ (c * b + a) % c = a
  BY <1>1, QuotientUnique
<1>3. c * b + a = a + c * b
  BY <1>1, SMT
<1>4. a + c * b \in Nat /\ a + c * b <= c * c - 1
  <2>1. c * (b + 1) <= c * c
    BY <1>1, SMT
  <2>2. c * (b + 1) = c * b + c /\ c * b \in Nat /\ c * c \in Nat
    BY <1>1, SMT
  <2> QED BY <1>1, <2>1, <2>2
<1>5. ByteMax \in Nat
  BY ByteFacts
<1> QED BY <1>1, <1>2, <1>3, <1>4, <1>5 DEF c

\* The first n members of s are bytes.
AllBytes(s, n) == \A i \in 1..n : s[i] <= ByteMax

\* What a mark stands for makes it a byte, followed by bytes of the data.
LEMMA MarkedBytes ==
  ASSUME NEW data \in Seq(Nat), NEW d \in Nat, NEW n, NEW m \in Nat, NEW s, NEW p,
         Marked(s, data, p, d, n, m)
  PROVE  s[p + 1] \in 0..ByteMax
<1>1. IsRun(data, d, n) /\ n \in Nat \ {0}
  BY RunSize DEF Marked
<1>2. Nibble(data[d + 1], n) \in 0..(NibbleRange - 1)
  <2>1. Nibble(data[d + 1], n) \in 1..(NibbleRange - 1)
    BY <1>1, NibbleBound
  <2> QED BY <2>1, ByteFacts
<1> DEFINE second == IF m = 0 THEN 0 ELSE Nibble(data[d + n + 1], m)
<1>3. second \in 0..(NibbleRange - 1)
  <2>1. CASE m = 0
    BY <2>1, ByteFacts
  <2>2. CASE m # 0
    <3>1. IsRun(data, d + n, m) /\ d + n \in Nat
      BY <1>1, <2>2 DEF Marked
    <3>2. Nibble(data[d + n + 1], m) \in 1..(NibbleRange - 1)
      BY <3>1, NibbleBound
    <3> QED BY <2>2, <3>2, ByteFacts
  <2> QED BY <2>1, <2>2
<1>4. s[p + 1] = Nibble(data[d + 1], n) + NibbleRange * second
  BY DEF Marked
<1> HIDE DEF second
<1> QED BY <1>2, <1>3, <1>4, MarkSplits

\* What a mark adds to the output are bytes.
LEMMA AddedFresh ==
  ASSUME IInv, pc = "packing", NEW n, NEW m, Added(n, m), AllBytes(src, Len(src)), AllBytes(out, len)
  PROVE  AllBytes(out', len')
<1> DEFINE a == Literals(src, pos, n)
           b == Literals(src, pos + n, m)
<1>1. /\ src \in Seq(Nat) /\ pos \in Nat /\ len \in Nat /\ n \in Nat \ {0} /\ m \in Nat
      /\ pos + n + m <= Len(src) /\ a \in Nat /\ b \in Nat /\ len' = len + (1 + a + b) /\ Len(src) \in Nat
      /\ \A i \in 1..len : out'[i] = out[i]
      /\ Marked(out', src, len, pos, n, m)
  BY PackingFacts DEF Added, Spent
<1>2. a <= n /\ b <= m
  BY <1>1 DEF Literals
<1>3. \A i \in 1..a : out'[len + 1 + i] = src[pos + i]
  BY <1>1 DEF Marked
<1>4. \A i \in 1..b : out'[len + 1 + a + i] = src[pos + n + i]
  BY <1>1 DEF Marked
<1> HIDE DEF a, b
<1> SUFFICES ASSUME NEW i \in 1..len' PROVE out'[i] <= ByteMax
  BY DEF AllBytes
<1>5. CASE i \in 1..len
  BY <1>1, <1>5 DEF AllBytes
<1>6. CASE i = len + 1
  <2>1. out'[len + 1] \in 0..ByteMax
    BY <1>1, MarkedBytes
  <2> QED BY <1>6, <2>1, ByteFacts
<1>7. CASE i - (len + 1) \in 1..a
  <2> DEFINE j == i - (len + 1)
  <2>1. i = len + 1 + j /\ pos + j \in 1..Len(src)
    BY <1>1, <1>2, <1>7
  <2>2. out'[i] = src[pos + j]
    <3>1. out'[len + 1 + j] = src[pos + j]
      BY <1>3, <1>7
    <3> QED BY <2>1, <3>1
  <2> QED BY <2>1, <2>2 DEF AllBytes
<1>8. CASE i - (len + 1 + a) \in 1..b
  <2> DEFINE j == i - (len + 1 + a)
  <2>1. i = len + 1 + a + j /\ pos + n + j \in 1..Len(src)
    BY <1>1, <1>2, <1>8
  <2>2. out'[i] = src[pos + n + j]
    <3>1. out'[len + 1 + a + j] = src[pos + n + j]
      BY <1>4, <1>8
    <3> QED BY <2>1, <3>1
  <2> QED BY <2>1, <2>2 DEF AllBytes
<1>9. i \in 1..len \/ i = len + 1 \/ i - (len + 1) \in 1..a \/ i - (len + 1 + a) \in 1..b
  BY <1>1
<1> QED BY <1>5, <1>6, <1>7, <1>8, <1>9

\* unpack on a run of one special byte.
LEMMA FillUnpacks ==
  ASSUME IInv, NEW w, Filling(w), w.ok, w.len < limit,
         NEW nibble \in Nat, nibble > LiteralMax, FillCount(nibble) <= limit - w.len,
         NEW v, v = Unpack(w, nibble)
  PROVE  /\ v.ok /\ v.pos = w.pos /\ v.len = w.len + FillCount(nibble)
         /\ \A i \in 1..w.len : v.out[i] = w.out[i]
         /\ \A i \in 1..FillCount(nibble) : v.out[w.len + i] = FillByte(nibble)
         /\ FillCount(nibble) \in 1..FillMax
<1> DEFINE count == FillCount(nibble)
           bytes == [i \in 1..FillMax |-> FillByte(nibble)]
<1>1. limit \in Nat /\ w.len \in Nat /\ w.out \in Seq(Nat) /\ w.len \in 0..Len(w.out)
      /\ w = [ok |-> w.ok, pos |-> w.pos, out |-> w.out, len |-> w.len]
  <2>1. limit \in Nat /\ Pad \in Nat
    BY LimitsAssumption DEF IInv, TypeOK
  <2> QED BY <2>1 DEF Filling
<1>2. count \in 1..FillMax
  <2>1. (nibble - LiteralMax - 1) \in Nat /\ FillMax \in Nat \ {0}
    BY LimitsAssumption
  <2>2. (nibble - LiteralMax - 1) % FillMax \in 0..(FillMax - 1)
    BY <2>1
  <2> QED BY <2>1, <2>2 DEF FillCount
<1>3. FillByte(nibble) \in Nat
  BY ByteFacts DEF FillByte
<1>4. bytes \in Seq(Nat) /\ Len(bytes) = FillMax /\ \A i \in 1..FillMax : bytes[i] = FillByte(nibble)
  BY <1>3, LimitsAssumption
<1>5. v = [w EXCEPT !.out = Put(w.out, w.len, bytes), !.len = w.len + count]
  <2>1. ~(~w.ok \/ w.len >= limit \/ nibble = 0) /\ ~(count > limit - w.len)
    BY <1>1, <1>2, LimitsAssumption
  <2> HIDE DEF count
  <2>2. Unpack(w, nibble) = UnpackFill(w, FillCount(nibble), FillByte(nibble))
    BY <2>1 DEF Unpack
  <2> QED BY <2>1, <2>2 DEF UnpackFill, count
<1> HIDE DEF count, bytes
<1>6. v.ok = w.ok /\ v.pos = w.pos /\ v.len = w.len + count /\ v.out = Put(w.out, w.len, bytes)
  BY <1>1, <1>5
<1>7. /\ \A i \in 1..w.len : v.out[i] = w.out[i]
      /\ \A i \in 1..FillMax : v.out[w.len + i] = bytes[i]
  BY <1>1, <1>4, <1>6, PutBytes, SMTT(30)
<1>8. \A i \in 1..count : v.out[w.len + i] = FillByte(nibble)
  <2> TAKE i \in 1..count
  <2>1. i \in 1..FillMax
    BY <1>2, LimitsAssumption
  <2> QED BY <1>4, <1>7, <2>1
<1> QED BY <1>2, <1>6, <1>7, <1>8 DEF count

\* unpack on a run of literals.
LEMMA LiteralsUnpack ==
  ASSUME IInv, NEW w, Filling(w), w.ok, w.len < limit,
         NEW nibble \in 1..LiteralMax, nibble <= Len(src) - w.pos, nibble <= limit - w.len,
         NEW v, v = Unpack(w, nibble)
  PROVE  /\ v.ok /\ v.pos = w.pos + nibble /\ v.len = w.len + nibble
         /\ \A i \in 1..w.len : v.out[i] = w.out[i]
         /\ \A i \in 1..nibble : v.out[w.len + i] = src[w.pos + i]
<1> DEFINE width == IF Len(src) - w.pos >= Window THEN Window ELSE nibble
           bytes == Slice(src, w.pos, width)
<1>1. limit \in Nat /\ w.len \in Nat /\ w.out \in Seq(Nat) /\ w.len \in 0..Len(w.out)
      /\ src \in Seq(Nat) /\ Len(src) \in Nat /\ w.pos \in Nat
      /\ w = [ok |-> w.ok, pos |-> w.pos, out |-> w.out, len |-> w.len]
  <2>1. limit \in Nat /\ Pad \in Nat /\ src \in Seq(Nat) /\ Len(src) \in Nat
    BY LimitsAssumption, LenProperties DEF IInv, TypeOK
  <2> QED BY <2>1 DEF Filling
<1>2. width \in Nat /\ nibble <= width /\ w.pos + width <= Len(src) /\ nibble \in Nat \ {0} /\ nibble <= LiteralMax
  <2> DEFINE left == Len(src) - w.pos
  <2>1. nibble \in Nat \ {0} /\ nibble <= left /\ nibble <= LiteralMax /\ nibble < Window /\ Window \in Nat /\ left \in Int
    <3>1. left \in Int
      BY ONLY <1>1
    <3>2. nibble <= left
      OBVIOUS
    <3>3. nibble \in Nat \ {0} /\ nibble <= LiteralMax /\ nibble < Window /\ Window \in Nat
      BY ONLY nibble \in 1..LiteralMax, LimitsAssumption
    <3> QED BY ONLY <3>1, <3>2, <3>3
  <2>2. width = IF left >= Window THEN Window ELSE nibble
    OBVIOUS
  <2>3. Len(src) = w.pos + left
    BY <1>1
  <2> HIDE DEF left, width
  <2>4. width \in Nat /\ nibble <= width /\ width <= left
    BY <2>1, <2>2
  <2>5. w.pos + width <= w.pos + left
    BY ONLY <1>1, <2>1, <2>4
  <2> QED BY ONLY <2>1, <2>3, <2>4, <2>5
<1>3. v = [w EXCEPT !.out = Put(w.out, w.len, bytes), !.len = w.len + nibble, !.pos = w.pos + nibble]
  <2>1. /\ ~(~w.ok \/ w.len >= limit \/ nibble = 0) /\ ~(nibble > LiteralMax)
        /\ ~(nibble > Len(src) - w.pos \/ nibble > limit - w.len)
    <3>1. limit - w.len \in Int /\ Len(src) - w.pos \in Int /\ LiteralMax \in Nat
      BY ONLY <1>1, LimitsAssumption, SMTT(30)
    <3>2. nibble <= Len(src) - w.pos /\ nibble <= limit - w.len /\ w.ok /\ w.len < limit
      OBVIOUS
    <3>3. ~(nibble > Len(src) - w.pos) /\ ~(nibble > limit - w.len)
      BY ONLY <1>2, <3>1, <3>2
    <3>4. ~(w.len >= limit) /\ nibble # 0 /\ ~(nibble > LiteralMax)
      BY ONLY <1>1, <1>2, <3>1, <3>2, SMTT(30)
    <3> QED BY ONLY <3>2, <3>3, <3>4
  <2>2. Unpack(w, nibble) = UnpackLiterals(w, nibble)
    BY <2>1 DEF Unpack
  <2> QED BY <2>1, <2>2 DEF UnpackLiterals
<1> HIDE DEF width
<1>4. bytes \in Seq(Nat) /\ Len(bytes) = width /\ \A i \in 1..width : bytes[i] = src[w.pos + i]
  <2> DEFINE p == w.pos
  <2>1. p \in Nat /\ p + width <= Len(src) /\ src \in Seq(Nat) /\ width \in Nat
    BY <1>1, <1>2
  <2> HIDE DEF p
  <2>2. /\ Slice(src, p, width) \in Seq(Nat) /\ Len(Slice(src, p, width)) = width
        /\ \A i \in 1..width : Slice(src, p, width)[i] = src[p + i]
    BY ONLY <2>1, SliceLength, SliceBytes
  <2> QED BY <2>2 DEF p
<1> HIDE DEF bytes
<1>5. v.ok = w.ok /\ v.pos = w.pos + nibble /\ v.len = w.len + nibble /\ v.out = Put(w.out, w.len, bytes)
  BY <1>1, <1>3
<1>6. /\ \A i \in 1..w.len : v.out[i] = w.out[i]
      /\ \A i \in 1..width : v.out[w.len + i] = bytes[i]
  <2> DEFINE at == w.len
             buf == w.out
  <2>1. buf \in Seq(Nat) /\ at \in 0..Len(buf) /\ bytes \in Seq(Nat) /\ Len(bytes) = width
    BY <1>1, <1>4
  <2> HIDE DEF at, buf
  <2>2. /\ \A i \in 1..at : Put(buf, at, bytes)[i] = buf[i]
        /\ \A i \in 1..Len(bytes) : Put(buf, at, bytes)[at + i] = bytes[i]
    BY ONLY <2>1, PutBytes
  <2> QED BY ONLY <1>5, <2>1, <2>2 DEF at, buf
<1>7. \A i \in 1..nibble : v.out[w.len + i] = src[w.pos + i]
  <2> TAKE i \in 1..nibble
  <2>1. i \in 1..width
    BY <1>2
  <2> QED BY <1>4, <1>6, <2>1
<1> QED BY <1>5, <1>6, <1>7

\* Otherwise unpack fails or does nothing.
LEMMA UnpackOtherwise ==
  ASSUME NEW w, NEW nibble, Filling(w),
         \/ ~w.ok \/ w.len >= limit \/ nibble = 0
         \/ nibble > LiteralMax /\ FillCount(nibble) > limit - w.len
         \/ ~(nibble > LiteralMax) /\ (nibble > Len(src) - w.pos \/ nibble > limit - w.len)
  PROVE  Unpack(w, nibble) = w \/ ~Unpack(w, nibble).ok
<1>1. [w EXCEPT !.ok = FALSE].ok = FALSE
  BY DEF Filling
<1> QED BY <1>1 DEF Unpack, UnpackFill, UnpackLiterals

\* What a nibble adds to the data are bytes.
LEMMA UnpackFresh ==
  ASSUME IInv, NEW w, Filling(w), NEW nibble \in Nat, AllBytes(src, Len(src)),
         AllBytes(w.out, w.len), Unpack(w, nibble).ok
  PROVE  AllBytes(Unpack(w, nibble).out, Unpack(w, nibble).len)
<1> DEFINE v == Unpack(w, nibble)
<1>1. limit \in Nat /\ w.len \in Nat /\ w.pos \in Nat /\ Len(src) \in Nat /\ w.ok \in BOOLEAN
  BY LenProperties DEF IInv, TypeOK, Filling
<1>2. CASE v = w
  BY <1>2
<1>3. CASE w.ok /\ w.len < limit /\ nibble > LiteralMax /\ FillCount(nibble) <= limit - w.len
  <2>1. /\ v.len = w.len + FillCount(nibble)
        /\ \A i \in 1..w.len : v.out[i] = w.out[i]
        /\ \A i \in 1..FillCount(nibble) : v.out[w.len + i] = FillByte(nibble)
        /\ FillCount(nibble) \in 1..FillMax
    BY <1>3, FillUnpacks
  <2>2. FillByte(nibble) <= ByteMax
    BY ByteFacts DEF FillByte
  <2> HIDE DEF v
  <2> DEFINE at == w.len
             count == FillCount(nibble)
  <2>3. at \in Nat /\ count \in Nat
    BY <1>1, <2>1, LimitsAssumption
  <2> SUFFICES ASSUME NEW i \in 1..(at + count) PROVE v.out[i] <= ByteMax
    BY <2>1 DEF AllBytes, v
  <2> HIDE DEF at, count
  <2>4. CASE i \in 1..at
    BY <2>1, <2>4 DEF AllBytes, at
  <2>5. CASE i - at \in 1..count
    <3>1. v.out[at + (i - at)] = FillByte(nibble)
      BY <2>1, <2>5 DEF at, count
    <3>2. at + (i - at) = i
      BY <2>3
    <3> QED BY <2>2, <3>1, <3>2
  <2> QED BY <2>3, <2>4, <2>5
<1>4. CASE w.ok /\ w.len < limit /\ nibble \in 1..LiteralMax /\ nibble <= Len(src) - w.pos /\ nibble <= limit - w.len
  <2>1. /\ v.len = w.len + nibble
        /\ \A i \in 1..w.len : v.out[i] = w.out[i]
        /\ \A i \in 1..nibble : v.out[w.len + i] = src[w.pos + i]
    BY <1>4, LiteralsUnpack
  <2> HIDE DEF v
  <2> DEFINE at == w.len
             from == w.pos
  <2>3. at \in Nat /\ from \in Nat /\ Len(src) \in Nat /\ nibble <= Len(src) - from
    BY <1>1, <1>4
  <2> SUFFICES ASSUME NEW i \in 1..(at + nibble) PROVE v.out[i] <= ByteMax
    BY <2>1 DEF AllBytes, v
  <2> HIDE DEF at, from
  <2>4. CASE i \in 1..at
    BY <2>1, <2>4 DEF AllBytes, at
  <2>5. CASE i - at \in 1..nibble
    <3>1. v.out[at + (i - at)] = src[from + (i - at)]
      BY <2>1, <2>5 DEF at, from
    <3>2. at + (i - at) = i
      BY <2>3
    <3>3. from + (i - at) \in 1..Len(src)
      BY <2>3, <2>5
    <3> QED BY <3>1, <3>2, <3>3 DEF AllBytes
  <2> QED BY <2>3, <2>4, <2>5
<1>5. \/ ~w.ok \/ w.len >= limit \/ nibble = 0
      \/ nibble > LiteralMax /\ FillCount(nibble) > limit - w.len
      \/ ~(nibble > LiteralMax) /\ (nibble > Len(src) - w.pos \/ nibble > limit - w.len)
      \/ w.ok /\ w.len < limit /\ nibble > LiteralMax /\ FillCount(nibble) <= limit - w.len
      \/ w.ok /\ w.len < limit /\ nibble \in 1..LiteralMax /\ nibble <= Len(src) - w.pos /\ nibble <= limit - w.len
  <2> DEFINE room == limit - w.len
             left == Len(src) - w.pos
             count == FillCount(nibble)
  <2>1. room \in Int /\ left \in Int /\ LiteralMax \in Nat /\ (w.len < limit \/ w.len >= limit)
    BY <1>1, LimitsAssumption
  <2>2. nibble > LiteralMax => count \in Nat
    <3> SUFFICES ASSUME nibble > LiteralMax PROVE count \in Nat
      OBVIOUS
    <3>1. (nibble - LiteralMax - 1) \in Nat /\ FillMax \in Nat \ {0}
      BY LimitsAssumption
    <3>2. (nibble - LiteralMax - 1) % FillMax \in 0..(FillMax - 1)
      BY <3>1
    <3> QED BY <3>1, <3>2 DEF FillCount
  <2> HIDE DEF room, left, count
  <2>3. \/ nibble = 0
        \/ nibble > LiteralMax /\ (count > room \/ count <= room)
        \/ ~(nibble > LiteralMax) /\ (nibble > left \/ nibble > room)
        \/ nibble \in 1..LiteralMax /\ nibble <= left /\ nibble <= room
    BY ONLY <2>1, <2>2, nibble \in Nat
  <2> QED BY <2>1, <2>3 DEF room, left, count
<1> QED BY <1>2, <1>3, <1>4, <1>5, UnpackOtherwise

(***************************************************************************)
(* What is finished consists of bytes of this call's source and its marks. *)
(***************************************************************************)
BytesInv ==
  /\ pc = "idle" => out = <<>>
  /\ pc \in {"packing", "unpacking"} => AllBytes(src, Len(src)) /\ AllBytes(out, len)
  /\ pc = "packed" => AllBytes(out, Len(out))
  /\ AnswersFresh

\* A header consists of bytes: its digits, flagged but for the last.
LEMMA HeaderBytes ==
  ASSUME NEW n \in Nat, NEW digits \in 1..HeaderLimit
  PROVE  /\ Header(n, digits) \in Seq(Nat) /\ Len(Header(n, digits)) = digits
         /\ \A i \in 1..digits : /\ Digit(n, i) \in 0..(VarintRange - 1)
                                 /\ Header(n, digits)[i] \in 0..ByteMax
                                 /\ Header(n, digits)[i] = IF i < digits THEN VarintRange + Digit(n, i) ELSE Digit(n, i)
<1>1. Header(n, digits) \in Seq(Nat) /\ Len(Header(n, digits)) = digits
  BY HeaderType
<1>2. VarintRange \in Nat \ {0, 1} /\ VarintRange + VarintRange <= ByteMax + 1 /\ ByteMax \in Nat
  BY LimitsAssumption, BytesAssumption, ByteFacts
<1>3. ASSUME NEW i \in 1..digits
      PROVE  Digit(n, i) \in 0..(VarintRange - 1)
  <2>1. VarintRange ^ (i - 1) \in Nat \ {0}
    BY PowersPositive, LimitsAssumption
  <2>2. n \div VarintRange ^ (i - 1) \in Nat
    BY <2>1
  <2> QED BY <1>2, <2>2 DEF Digit
<1>4. \A i \in 1..digits : Header(n, digits)[i] = IF i < digits THEN VarintRange + Digit(n, i) ELSE Digit(n, i)
  BY DEF Header
<1>5. ASSUME NEW i \in 1..digits
      PROVE  Header(n, digits)[i] \in 0..ByteMax
  BY <1>2, <1>3, <1>4
<1> QED BY <1>1, <1>3, <1>4, <1>5

\* One iteration of the decompressor leaves bytes only behind it.
LEMMA BytesUnpack ==
  ASSUME IInv, BytesInv, UnpackMark
  PROVE  BytesInv'
<1> DEFINE mark == src[pos + 1]
           begin == [ok |-> TRUE, pos |-> pos + 1, out |-> out, len |-> len]
           middle == Unpack(begin, mark % NibbleRange)
           after == Unpack(middle, mark \div NibbleRange)
<1>1. /\ src \in Seq(Nat) /\ pos \in Nat /\ Len(src) \in Nat /\ pos < Len(src) /\ pc = "unpacking"
      /\ AllBytes(src, Len(src)) /\ AllBytes(out, len)
  BY LenProperties DEF IInv, TypeOK, UnpackMark, BytesInv
<1>2. mark % NibbleRange \in Nat /\ mark \div NibbleRange \in Nat
  <2>1. mark \in Nat /\ NibbleRange \in Nat \ {0}
    BY <1>1, ByteFacts
  <2> HIDE DEF mark
  <2> QED BY <2>1
<1>3. Filling(begin)
  BY <1>1 DEF Filling, IInv, TypeOK, UnpackInv
<1>4. begin.out = out /\ begin.len = len
  OBVIOUS
<1> HIDE DEF begin, mark
<1>5. Filling(middle)
  BY <1>2, <1>3, UnpackFills
<1>6. ~middle.ok => after = middle
  BY DEF Unpack
<1>7. after.ok => AllBytes(after.out, after.len)
  <2> SUFFICES ASSUME after.ok PROVE AllBytes(after.out, after.len)
    OBVIOUS
  <2>1. middle.ok
    BY <1>6
  <2>2. AllBytes(middle.out, middle.len)
    BY <1>1, <1>2, <1>3, <1>4, <2>1, UnpackFresh
  <2> HIDE DEF middle
  <2> QED BY <1>1, <1>2, <1>5, <2>2, UnpackFresh
<1>8. after = Unpacked(src[pos + 1], [ok |-> TRUE, pos |-> pos + 1, out |-> out, len |-> len])
  BY DEF Unpacked, after, middle, begin, mark
<1> HIDE DEF after
<1>9. /\ pc' = IF after.ok THEN "unpacking" ELSE "error"
      /\ out' = IF after.ok THEN after.out ELSE <<>>
      /\ len' = IF after.ok THEN after.len ELSE 0
      /\ src' = src
  BY <1>8 DEF UnpackMark
<1>10. CASE after.ok
  BY <1>1, <1>7, <1>9, <1>10 DEF BytesInv, AnswersFresh
<1>11. CASE ~after.ok
  BY <1>9, <1>11 DEF BytesInv, AnswersFresh
<1> QED BY <1>10, <1>11

\* The decompressor starts on bytes and has written none.
LEMMA BytesDecompress ==
  ASSUME IInv, BytesInv, NEW stream \in Seq(Nat), NEW old \in OldOutputs,
         AllBytes(stream, Len(stream)), Decompress(stream, old)
  PROVE  BytesInv'
<1>1. src' = stream /\ len' = 0 /\ pc' = IF stream = <<>> THEN "ok" ELSE IF Digits(stream) = {} THEN "error" ELSE "unpacking"
  BY DEF Decompress
<1>2. stream = <<>> => Digits(stream) = {}
  BY LimitsAssumption DEF Digits
<1>3. AllBytes(out', len')
  BY <1>1 DEF AllBytes
<1>4. CASE Digits(stream) = {}
  <2>1. out' = <<>> /\ limit' = 0
    BY <1>4 DEF Decompress
  <2>2. pc' \in {"ok", "error"}
    BY <1>1, <1>4
  <2> QED BY <2>1, <2>2 DEF BytesInv, AnswersFresh, Fresh
<1>5. CASE Digits(stream) # {}
  <2>1. pc' = "unpacking"
    BY <1>1, <1>2, <1>5
  <2> QED BY <1>1, <1>3, <2>1 DEF BytesInv, AnswersFresh
<1> QED BY <1>4, <1>5

\* Every step leaves bytes only behind it.
LEMMA BytesStep == IInv /\ BytesInv /\ [Next]_vars => BytesInv'
<1> SUFFICES ASSUME IInv, BytesInv, [Next]_vars PROVE BytesInv'
  OBVIOUS
<1>1. CASE CompressEmpty
  <2>1. pc' = "packed" /\ out' = <<>>
    BY <1>1 DEF CompressEmpty, BytesInv
  <2> QED BY <2>1 DEF BytesInv, AnswersFresh, AllBytes
<1>2. CASE Compress
  <2>1. PICK s \in Inputs, digits \in 1..HeaderLimit :
          src' = s /\ out' = Header(Len(s), digits) /\ len' = digits
    BY <1>2 DEF Compress
  <2>2. Len(s) \in Nat
    BY DataAssumption, LenProperties
  <2>3. AllBytes(src', Len(src'))
    BY <2>1, BytesAssumption DEF AllBytes
  <2>4. AllBytes(out', len')
    <3>1. \A i \in 1..digits : Header(Len(s), digits)[i] \in 0..ByteMax
      BY <2>2, HeaderBytes
    <3> QED BY <2>1, <3>1, ByteFacts DEF AllBytes
  <2>5. pc' = "packing"
    BY <1>2 DEF Compress
  <2> QED BY <2>3, <2>4, <2>5 DEF BytesInv, AnswersFresh
<1>3. ASSUME NEW n, NEW m, Added(n, m), pc = "packing", pc' = pc, src' = src
      PROVE  BytesInv'
  <2>1. AllBytes(out', len')
    BY <1>3, AddedFresh DEF BytesInv
  <2> QED BY <1>3, <2>1 DEF BytesInv, AnswersFresh
<1>4. CASE \E n, m \in 1..Window : PackPair(n, m)
  BY <1>3, <1>4, PairAdds DEF PackPair
<1>5. CASE \E n \in 1..Window : PackLast(n)
  BY <1>3, <1>5, LastAdds DEF PackLast
<1>6. CASE PackReturn
  <2>1. pc' = "packed" /\ out' = Slice(out, 0, len) /\ out \in Seq(Nat) /\ len \in Nat /\ 0 + len <= Len(out)
        /\ AllBytes(out, len)
    BY <1>6 DEF PackReturn, IInv, TypeOK, BytesInv
  <2>2. Len(out') = len /\ \A i \in 1..len : out'[i] = out[0 + i]
    BY <2>1, SliceLength, SliceBytes
  <2>3. AllBytes(out', Len(out'))
    BY <2>1, <2>2 DEF AllBytes
  <2> QED BY <2>1, <2>3 DEF BytesInv, AnswersFresh
<1>7. CASE DecompressPacked
  <2>1. out \in Seq(Nat) /\ AllBytes(out, Len(out))
    BY <1>7 DEF IInv, TypeOK, BytesInv, DecompressPacked
  <2> QED BY <1>7, <2>1, BytesDecompress DEF DecompressPacked
<1>8. CASE DecompressOther
  <2>1. \A s \in Streams : s \in Seq(Nat) /\ AllBytes(s, Len(s))
    BY DataAssumption, BytesAssumption DEF AllBytes
  <2> QED BY <1>8, <2>1, BytesDecompress DEF DecompressOther
<1>9. CASE UnpackMark
  BY <1>9, BytesUnpack
<1>10. CASE UnpackReturn
  <2>1. /\ out \in Seq(Nat) /\ limit \in Nat /\ Len(out) = limit + Pad /\ Pad \in Nat /\ AllBytes(out, len)
        /\ pc' = IF len = limit THEN "ok" ELSE "error"
        /\ out' = IF len = limit THEN Slice(out, 0, limit) ELSE <<>>
        /\ limit' = limit
    BY <1>10, LimitsAssumption DEF UnpackReturn, IInv, TypeOK, UnpackInv, BytesInv
  <2>2. CASE len = limit
    <3>1. 0 + limit <= Len(out)
      BY <2>1
    <3>2. Len(out') = limit /\ \A i \in 1..limit : out'[i] = out[0 + i]
      <4>1. 0 \in Nat /\ limit \in Nat /\ out \in Seq(Nat)
        BY <2>1
      <4>2. Len(Slice(out, 0, limit)) = limit
        BY ONLY <3>1, <4>1, SliceLength
      <4>3. \A i \in 1..limit : Slice(out, 0, limit)[i] = out[0 + i]
        BY ONLY <3>1, <4>1, SliceBytes
      <4> QED BY <2>1, <2>2, <4>2, <4>3
    <3>3. Fresh(out')
      BY <2>1, <2>2, <3>2 DEF AllBytes, Fresh
    <3> QED BY <2>1, <2>2, <3>2, <3>3 DEF BytesInv, AnswersFresh
  <2>3. CASE len # limit
    BY <2>1, <2>3 DEF BytesInv, AnswersFresh
  <2> QED BY <2>2, <2>3
<1>11. CASE UNCHANGED vars
  BY <1>11 DEF vars, BytesInv, AnswersFresh, AllBytes, Fresh
<1> QED BY <1>1, <1>2, <1>4, <1>5, <1>6, <1>7, <1>8, <1>9, <1>10, <1>11 DEF Next

(***************************************************************************)
(* decompress_into returns as many bytes as its stream says and all of     *)
(* them its own, or an empty vector and an error: whatever the stream, and *)
(* whatever the caller's vector held.                                      *)
(***************************************************************************)
THEOREM AnswersAreFresh == Spec => []AnswersFresh
<1>1. Init => BytesInv
  BY DEF Init, BytesInv, AnswersFresh
<1>2. BytesInv => AnswersFresh
  BY DEF BytesInv
<1> QED BY <1>1, <1>2, BytesStep, AlwaysIInv, PTL DEF Spec

-----------------------------------------------------------------------------
(* What a stream stands for *)

(***************************************************************************)
(* The first e bytes of s, from one of the places in A on, stand for the   *)
(* first d of the data: a place is a position in s with the one in the     *)
(* data it has come to, and the mark there leads to another place.         *)
(***************************************************************************)
Covers(s, data, e, d, A) ==
  /\ A \subseteq Nat \X Nat
  /\ <<e, d>> \in A
  /\ \A x \in A : \/ x = <<e, d>>
                  \/ \E n, m \in Nat :
                       /\ Marked(s, data, x[1], x[2], n, m)
                       /\ x[1] + Spent(data, x[2], n, m) <= e
                       /\ <<x[1] + Spent(data, x[2], n, m), x[2] + n + m>> \in A

\* s begins with the digits of size n.
Headed(s, n, digits) ==
  /\ IsHeaderLen(n, digits) /\ digits <= VarintBytes
  /\ \A i \in 1..digits : s[i] = Header(n, digits)[i]

\* s begins with the size of the data and e bytes of it stand for d of them.
Encoding(s, data, e, d) ==
  \E digits \in 1..HeaderLimit :
    /\ Headed(s, Len(data), digits) /\ digits <= e
    /\ \E A : Covers(s, data, e, d, A) /\ <<digits, 0>> \in A

\* A mark and its literals take at least one byte.
LEMMA SpentType ==
  ASSUME NEW data \in Seq(Nat), NEW d \in Nat, NEW n \in Nat, NEW m \in Nat
  PROVE  /\ Literals(data, d, n) \in Nat /\ Literals(data, d + n, m) \in Nat
         /\ Spent(data, d, n, m) \in Nat \ {0}
         /\ Spent(data, d, n, m) = 1 + Literals(data, d, n) + Literals(data, d + n, m)
<1>1. Literals(data, d, n) \in Nat /\ Literals(data, d + n, m) \in Nat
  BY DEF Literals
<1>2. Spent(data, d, n, m) = 1 + Literals(data, d, n) + Literals(data, d + n, m)
  BY DEF Spent
<1> QED BY <1>1, <1>2

\* What a mark stands for depends on no byte behind its literals.
LEMMA MarkedSame ==
  ASSUME NEW data \in Seq(Nat), NEW p \in Nat, NEW d \in Nat, NEW n \in Nat, NEW m \in Nat,
         NEW s, NEW t, NEW e \in Nat, \A i \in 1..e : t[i] = s[i],
         Marked(s, data, p, d, n, m), p + Spent(data, d, n, m) <= e
  PROVE  Marked(t, data, p, d, n, m)
<1> DEFINE a == Literals(data, d, n)
           b == Literals(data, d + n, m)
<1>1. a \in Nat /\ b \in Nat /\ p + (1 + a + b) <= e
  BY SpentType
<1>2. \A i \in 1..a : s[p + 1 + i] = data[d + i]
  BY DEF Marked
<1>3. \A i \in 1..b : s[p + 1 + a + i] = data[d + n + i]
  BY DEF Marked
<1> HIDE DEF a, b
<1>4. t[p + 1] = s[p + 1]
  <2>1. p + 1 \in 1..e
    BY <1>1
  <2> QED BY <2>1
<1>5. \A i \in 1..a : t[p + 1 + i] = data[d + i]
  <2> TAKE i \in 1..a
  <2>1. p + 1 + i \in 1..e
    BY <1>1
  <2> QED BY <1>2, <2>1
<1>6. \A i \in 1..b : t[p + 1 + a + i] = data[d + n + i]
  <2> TAKE i \in 1..b
  <2>1. p + 1 + a + i \in 1..e
    BY <1>1
  <2> QED BY <1>3, <2>1
<1> QED BY <1>4, <1>5, <1>6 DEF Marked, a, b

\* The places only depend on the bytes up to the end.
LEMMA CoversSame ==
  ASSUME NEW data \in Seq(Nat), NEW e \in Nat, NEW d \in Nat, NEW A,
         NEW s, NEW t, \A i \in 1..e : t[i] = s[i], Covers(s, data, e, d, A)
  PROVE  Covers(t, data, e, d, A)
<1>1. ASSUME NEW x \in A, x # <<e, d>>
      PROVE  \E n, m \in Nat :
               /\ Marked(t, data, x[1], x[2], n, m)
               /\ x[1] + Spent(data, x[2], n, m) <= e
               /\ <<x[1] + Spent(data, x[2], n, m), x[2] + n + m>> \in A
  <2>1. PICK n \in Nat, m \in Nat :
          /\ Marked(s, data, x[1], x[2], n, m)
          /\ x[1] + Spent(data, x[2], n, m) <= e
          /\ <<x[1] + Spent(data, x[2], n, m), x[2] + n + m>> \in A
    BY <1>1 DEF Covers
  <2>2. x[1] \in Nat /\ x[2] \in Nat
    BY <1>1 DEF Covers
  <2>3. Marked(t, data, x[1], x[2], n, m)
    BY <2>1, <2>2, MarkedSame, ZenonT(30)
  <2> QED BY <2>1, <2>3
<1> QED BY <1>1 DEF Covers

\* A further mark is a further place.
LEMMA CoversMore ==
  ASSUME NEW data \in Seq(Nat), NEW e \in Nat, NEW d \in Nat, NEW A, NEW s,
         Covers(s, data, e, d, A), NEW n \in Nat, NEW m \in Nat, Marked(s, data, e, d, n, m)
  PROVE  Covers(s, data, e + Spent(data, d, n, m), d + n + m, A \cup {<<e + Spent(data, d, n, m), d + n + m>>})
<1> DEFINE f == e + Spent(data, d, n, m)
           g == d + n + m
           B == A \cup {<<f, g>>}
<1>1. f \in Nat /\ g \in Nat /\ e <= f
  <2>1. Spent(data, d, n, m) \in Nat
    BY SpentType
  <2> QED BY <2>1
<1>2. B \subseteq Nat \X Nat /\ <<f, g>> \in B
  BY <1>1 DEF Covers
<1>3. ASSUME NEW x \in B, x # <<f, g>>
      PROVE  \E k, l \in Nat :
               /\ Marked(s, data, x[1], x[2], k, l)
               /\ x[1] + Spent(data, x[2], k, l) <= f
               /\ <<x[1] + Spent(data, x[2], k, l), x[2] + k + l>> \in B
  <2>1. CASE x = <<e, d>>
    <3>1. x[1] = e /\ x[2] = d
      BY <2>1
    <3>2. Marked(s, data, x[1], x[2], n, m) /\ x[1] + Spent(data, x[2], n, m) = f /\ x[2] + n + m = g
      BY <3>1
    <3>3. f <= f
      BY <1>1
    <3> HIDE DEF f, g
    <3> QED BY <1>2, <3>2, <3>3
  <2>2. CASE x # <<e, d>>
    <3>1. x \in A
      BY <1>3
    <3>2. PICK k \in Nat, l \in Nat :
            /\ Marked(s, data, x[1], x[2], k, l)
            /\ x[1] + Spent(data, x[2], k, l) <= e
            /\ <<x[1] + Spent(data, x[2], k, l), x[2] + k + l>> \in A
      BY <2>2, <3>1 DEF Covers
    <3>3. x[1] + Spent(data, x[2], k, l) \in Nat
      <4>1. x[1] \in Nat /\ x[2] \in Nat
        BY <3>1 DEF Covers
      <4>2. Spent(data, x[2], k, l) \in Nat
        BY <4>1, SpentType
      <4> QED BY <4>1, <4>2
    <3>4. x[1] + Spent(data, x[2], k, l) <= f
      BY <1>1, <3>2, <3>3
    <3> QED BY <3>2, <3>4
  <2> QED BY <2>1, <2>2
<1> HIDE DEF f, g
<1>4. Covers(s, data, f, g, B)
  BY <1>2, <1>3 DEF Covers
<1> QED BY <1>4 DEF f, g

\* An iteration of the compressor goes on with the encoding.
LEMMA EncodingGrows ==
  ASSUME IInv, pc = "packing", NEW n, NEW m, Added(n, m), Encoding(out, src, len, pos)
  PROVE  Encoding(out', src, len', pos')
<1>1. /\ src \in Seq(Nat) /\ pos \in Nat /\ len \in Nat /\ n \in Nat /\ m \in Nat
      /\ pos' = pos + n + m /\ len' = len + Spent(src, pos, n, m)
      /\ \A i \in 1..len : out'[i] = out[i]
      /\ Marked(out', src, len, pos, n, m)
  BY PackingFacts DEF Added
<1>2. PICK digits \in 1..HeaderLimit :
        /\ Headed(out, Len(src), digits) /\ digits <= len
        /\ \E A : Covers(out, src, len, pos, A) /\ <<digits, 0>> \in A
  BY DEF Encoding
<1>3. PICK A : Covers(out, src, len, pos, A) /\ <<digits, 0>> \in A
  BY <1>2
<1>4. Covers(out', src, len, pos, A)
  BY <1>1, <1>3, CoversSame
<1>5. Covers(out', src, len', pos', A \cup {<<len', pos'>>})
  BY <1>1, <1>4, CoversMore
<1>6. Headed(out', Len(src), digits)
  <2>1. \A i \in 1..digits : i \in 1..len
    BY <1>1, <1>2, LimitsAssumption
  <2> QED BY <1>1, <1>2, <2>1 DEF Headed
<1>7. digits <= len'
  <2>1. digits \in Nat /\ HeaderLimit \in Nat
    BY LimitsAssumption
  <2>2. Spent(src, pos, n, m) \in Nat
    BY <1>1, SpentType
  <2> QED BY <1>1, <1>2, <2>1, <2>2
<1> QED BY <1>3, <1>5, <1>6, <1>7 DEF Encoding

-----------------------------------------------------------------------------
(* Getting the data back *)

\* parse_varint reads the size that was written, whatever follows.
LEMMA SizeReads ==
  ASSUME NEW stream \in Seq(Nat), NEW n \in Nat, NEW digits \in 1..HeaderLimit,
         Headed(stream, n, digits), digits <= Len(stream)
  PROVE  /\ Digits(stream) = {digits}
         /\ \A k \in Nat : IsSize(stream, digits, k) => k = n
<1>1. /\ VarintRange \in Nat \ {0, 1} /\ digits \in Nat \ {0} /\ digits <= VarintBytes /\ VarintBytes \in Nat
      /\ digits \in 0..HeaderLimit /\ Len(stream) \in Nat
  BY LimitsAssumption, LenProperties DEF Headed
<1>2. \A i \in 1..digits : /\ Digit(n, i) \in 0..(VarintRange - 1)
                           /\ stream[i] = IF i < digits THEN VarintRange + Digit(n, i) ELSE Digit(n, i)
  BY HeaderBytes DEF Headed
<1>3. stream[digits] < VarintRange /\ \A i \in 1..(digits - 1) : stream[i] >= VarintRange
  <2>1. stream[digits] < VarintRange
    BY <1>1, <1>2
  <2>2. ASSUME NEW i \in 1..(digits - 1) PROVE stream[i] >= VarintRange
    <3>1. i \in 1..digits /\ i < digits
      BY <1>1
    <3> QED BY <1>1, <1>2, <3>1
  <2> QED BY <2>1, <2>2
<1>4. digits \in Digits(stream)
  BY <1>1, <1>3 DEF Digits
<1>5. ASSUME NEW k \in Digits(stream) PROVE k = digits
  <2>1. k \in 1..VarintBytes /\ k <= Len(stream) /\ stream[k] < VarintRange /\ \A i \in 1..(k - 1) : stream[i] >= VarintRange
    BY DEF Digits
  <2>2. \A i \in 1..Len(stream) : stream[i] \in Nat
    BY ElementOfSeq
  <2>3. CASE k < digits
    <3>1. k \in 1..(digits - 1) /\ k \in 1..Len(stream)
      BY <1>1, <2>1, <2>3
    <3> QED BY <1>1, <1>3, <2>1, <2>2, <3>1
  <2>4. CASE digits < k
    <3>1. digits \in 1..(k - 1) /\ digits \in 1..Len(stream)
      BY <1>1, <2>1, <2>4
    <3> QED BY <1>1, <1>3, <2>1, <2>2, <3>1
  <2> QED BY <1>1, <2>1, <2>3, <2>4
<1>6. ASSUME NEW k \in Nat, IsSize(stream, digits, k) PROVE k = n
  <2>1. k < VarintRange ^ digits /\ n < VarintRange ^ digits
    BY <1>6 DEF IsSize, Headed, IsHeaderLen
  <2>2. ASSUME NEW i \in 1..digits PROVE Digit(k, i) = Digit(n, i)
    <3>1. Digit(k, i) = stream[i] % VarintRange
      BY <1>6 DEF IsSize
    <3> DEFINE g == Digit(n, i)
    <3>2. g \in Nat /\ g < VarintRange /\ (stream[i] = VarintRange * 1 + g \/ stream[i] = VarintRange * 0 + g)
      BY <1>1, <1>2
    <3> HIDE DEF g
    <3>3. stream[i] % VarintRange = g
      <4>1. VarintRange \in Nat \ {0}
        BY <1>1
      <4>2. (VarintRange * 1 + g) % VarintRange = g /\ (VarintRange * 0 + g) % VarintRange = g
        BY ONLY <3>2, <4>1, QuotientUnique
      <4> QED BY <3>2, <4>2
    <3> QED BY <3>1, <3>3 DEF g
  <2> QED BY <1>1, <2>1, <2>2, DigitsDetermine
<1> QED BY <1>4, <1>5, <1>6

\* The unpacker has rebuilt the data up to where a run of n bytes begins, and
\* the stream holds the bytes of that run.
RunAhead(data, w, n) ==
  /\ data \in Seq(Nat) /\ limit = Len(data)
  /\ Filling(w) /\ w.ok /\ \A i \in 1..w.len : w.out[i] = data[i]
  /\ IsRun(data, w.len, n)
  /\ w.pos + Literals(data, w.len, n) <= Len(src)
  /\ \A i \in 1..Literals(data, w.len, n) : src[w.pos + i] = data[w.len + i]

\* It has rebuilt that run too.
RunBehind(data, w, n, v) ==
  /\ v.ok /\ v.pos = w.pos + Literals(data, w.len, n) /\ v.len = w.len + n
  /\ \A i \in 1..(w.len + n) : v.out[i] = data[i]

\* Unpacking a nibble rebuilds the run it was packed from.
LEMMA RunUnpacks ==
  ASSUME IInv, NEW data, NEW w, NEW n, RunAhead(data, w, n)
  PROVE  RunBehind(data, w, n, Unpack(w, Nibble(data[w.len + 1], n)))
<1> SUFFICES ASSUME NEW v, v = Unpack(w, Nibble(data[w.len + 1], n))
             PROVE  RunBehind(data, w, n, v)
  OBVIOUS
<1> USE DEF RunAhead
<1> SUFFICES /\ v.ok /\ v.pos = w.pos + Literals(data, w.len, n) /\ v.len = w.len + n
             /\ \A i \in 1..(w.len + n) : v.out[i] = data[i]
  BY DEF RunBehind
<1> DEFINE d == w.len
           p == w.pos
           first == data[d + 1]
           nibble == Nibble(first, n)
<1>1. d \in Nat /\ p \in Nat /\ limit \in Nat /\ Len(src) \in Nat
  BY LenProperties DEF Filling, IInv, TypeOK
<1>2. n \in Nat \ {0} /\ d + n <= limit /\ d < limit /\ n <= RunLimit(first)
  BY <1>1, RunSize DEF IsRun
<1>3. FillMax \in Nat \ {0} /\ LiteralMax \in Nat \ {0}
  BY LimitsAssumption
<1> SUFFICES /\ v.ok /\ v.pos = p + Literals(data, d, n) /\ v.len = d + n
             /\ \A i \in 1..d : v.out[i] = w.out[i]
             /\ \A i \in 1..n : v.out[d + i] = data[d + i]
  <2>1. ASSUME \A i \in 1..d : v.out[i] = w.out[i], \A i \in 1..n : v.out[d + i] = data[d + i],
               NEW i \in 1..(d + n)
        PROVE  v.out[i] = data[i]
    <3>1. CASE i \in 1..d
      BY <2>1, <3>1
    <3>2. CASE i - d \in 1..n
      <4>1. i = d + (i - d)
        BY <1>1
      <4>2. v.out[d + (i - d)] = data[d + (i - d)]
        BY <2>1, <3>2
      <4> HIDE DEF d
      <4> QED BY <4>1, <4>2
    <3> QED BY <1>1, <1>2, <3>1, <3>2
  <2> QED BY <2>1
<1>4. CASE Special(first)
  <2> DEFINE half == IF first = 0 THEN 0 ELSE FillMax
             u == IF first = 0 THEN 0 ELSE 1
  <2>1. nibble = LiteralMax + n + half /\ n <= FillMax /\ Literals(data, d, n) = 0
    BY <1>2, <1>4 DEF Nibble, RunLimit, Literals
  <2>2. half = FillMax * u /\ u \in {0, 1} /\ half \in Nat
    BY <1>3
  <2> HIDE DEF half
  <2>3. nibble \in Nat /\ nibble > LiteralMax /\ nibble - LiteralMax - 1 = FillMax * u + (n - 1)
    <3>1. nibble - LiteralMax - 1 = half + (n - 1) /\ nibble \in Nat /\ nibble > LiteralMax
      <4> HIDE DEF nibble
      <4> QED BY ONLY <1>2, <1>3, <2>1, <2>2
    <3> HIDE DEF nibble, u
    <3> QED BY ONLY <2>2, <3>1
  <2>4. (nibble - LiteralMax - 1) \div FillMax = u /\ (nibble - LiteralMax - 1) % FillMax = n - 1
    <3>1. n - 1 \in Nat /\ n - 1 < FillMax /\ u \in Nat
      BY <1>2, <1>3, <2>1, <2>2
    <3> HIDE DEF nibble, u
    <3>2. (FillMax * u + (n - 1)) \div FillMax = u /\ (FillMax * u + (n - 1)) % FillMax = n - 1
      BY ONLY <1>3, <3>1, QuotientUnique
    <3> QED BY ONLY <2>3, <3>2
  <2>5. FillCount(nibble) = n
    <3> HIDE DEF nibble
    <3> QED BY <1>2, <2>4 DEF FillCount
  <2>6. FillByte(nibble) = first
    <3>1. first \in {0, ByteMax}
      BY <1>4 DEF Special
    <3>2. FillByte(nibble) = IF u = 1 THEN ByteMax ELSE 0
      BY <2>4 DEF FillByte
    <3> QED BY <3>1, <3>2
  <2>7. FillCount(nibble) <= limit - d
    BY <1>1, <1>2, <2>5
  <2>8. v = Unpack(w, nibble)
    OBVIOUS
  <2> HIDE DEF nibble
  <2>9. /\ v.ok /\ v.pos = w.pos /\ v.len = w.len + FillCount(nibble)
        /\ \A i \in 1..w.len : v.out[i] = w.out[i]
        /\ \A i \in 1..FillCount(nibble) : v.out[w.len + i] = FillByte(nibble)
    BY <1>2, <2>3, <2>7, <2>8, FillUnpacks
  <2>10. \A i \in 1..n : data[d + i] = first
    BY <1>4 DEF IsRun, SameRun
  <2>11. p + 0 = p
    BY <1>1
  <2> QED BY <2>1, <2>5, <2>6, <2>9, <2>10, <2>11
<1>5. CASE ~Special(first)
  <2>1. nibble = n /\ n <= LiteralMax /\ Literals(data, d, n) = n
    BY <1>2, <1>5 DEF Nibble, RunLimit, Literals
  <2>2. n \in 1..LiteralMax
    BY <1>2, <1>3, <2>1
  <2>3. n <= Len(src) - p /\ n <= limit - d
    <3>1. p + n <= Len(src)
      BY <2>1
    <3> HIDE DEF p, d
    <3> QED BY <1>1, <1>2, <3>1
  <2>4. v = Unpack(w, n)
    BY <2>1
  <2>5. /\ v.ok /\ v.pos = w.pos + n /\ v.len = w.len + n
        /\ \A i \in 1..w.len : v.out[i] = w.out[i]
        /\ \A i \in 1..n : v.out[w.len + i] = src[w.pos + i]
    BY <1>2, <2>2, <2>3, <2>4, LiteralsUnpack
  <2>6. \A i \in 1..n : src[p + i] = data[d + i]
    BY <2>1
  <2> QED BY <2>1, <2>5, <2>6
<1> QED BY <1>4, <1>5

(***************************************************************************)
(* The stream so far stands for the data consumed; while it is unpacked,   *)
(* the vector holds the data up to a place that leads to the end.          *)
(***************************************************************************)
TripInv ==
  /\ pc = "idle" => original = NoData /\ out = <<>>
  /\ pc = "packing" => original = src /\ Encoding(out, src, len, pos)
  /\ pc = "packed" => \/ original = <<>> /\ out = <<>>
                      \/ original \in Seq(Nat) /\ Encoding(out, original, Len(out), Len(original))
  /\ pc = "unpacking" /\ original # NoData =>
       /\ original \in Seq(Nat) /\ limit = Len(original)
       /\ \A i \in 1..len : out[i] = original[i]
       /\ \E A : Covers(src, original, Len(src), limit, A) /\ <<pos, len>> \in A
  /\ RoundTrips

\* A header alone covers no data.
LEMMA TripCompress ==
  ASSUME Compress
  PROVE  TripInv'
<1>1. PICK s \in Inputs, digits \in 1..HeaderLimit :
        /\ IsHeaderLen(Len(s), digits)
        /\ original' = s /\ src' = s /\ out' = Header(Len(s), digits) /\ len' = digits
  BY DEF Compress
<1>2. pc' = "packing" /\ pos' = 0
  BY DEF Compress
<1>3. s \in Seq(Nat) /\ Len(s) \in Nat /\ digits \in Nat
  BY DataAssumption, LimitsAssumption, LenProperties
<1>4. Headed(out', Len(s), digits)
  BY <1>1, SizesAssumption DEF Headed
<1> DEFINE A == {<<digits, 0>>}
<1>5. Covers(out', s, digits, 0, A) /\ <<digits, 0>> \in A
  BY <1>3 DEF Covers
<1>6. Encoding(out', src', len', pos')
  <2> HIDE DEF A
  <2>1. digits <= digits
    BY <1>3
  <2> QED BY <1>1, <1>2, <1>4, <1>5, <2>1 DEF Encoding
<1> QED BY <1>1, <1>2, <1>6 DEF TripInv, RoundTrips

\* What is returned covers all the data.
LEMMA TripReturn ==
  ASSUME IInv, TripInv, PackReturn
  PROVE  TripInv'
<1>1. /\ pc = "packing" /\ pos = Len(src) /\ pc' = "packed" /\ out' = Slice(out, 0, len) /\ original' = original
      /\ original = src /\ Encoding(out, src, len, pos)
  BY DEF PackReturn, TripInv
<1>2. /\ src \in Seq(Nat) /\ Len(src) \in Nat /\ out \in Seq(Nat) /\ len \in Nat /\ 0 + len <= Len(out)
  BY <1>1, PackingFacts
<1>3. Len(out') = len /\ \A i \in 1..len : out'[i] = out[i]
  <2>1. Len(out') = len /\ \A i \in 1..len : out'[i] = out[0 + i]
    BY <1>1, <1>2, SliceLength, SliceBytes
  <2> QED BY <2>1
<1>4. PICK digits \in 1..HeaderLimit :
        /\ Headed(out, Len(src), digits) /\ digits <= len
        /\ \E A : Covers(out, src, len, pos, A) /\ <<digits, 0>> \in A
  BY <1>1 DEF Encoding
<1>5. PICK A : Covers(out, src, len, pos, A) /\ <<digits, 0>> \in A
  BY <1>4
<1>6. Covers(out', src, len, pos, A)
  BY <1>1, <1>2, <1>3, <1>5, CoversSame
<1>7. Headed(out', Len(src), digits)
  <2>1. \A i \in 1..digits : i \in 1..len
    BY <1>2, <1>4, LimitsAssumption
  <2> QED BY <1>3, <1>4, <2>1 DEF Headed
<1>8. Encoding(out', src, Len(out'), Len(src))
  BY <1>1, <1>3, <1>4, <1>5, <1>6, <1>7 DEF Encoding
<1> QED BY <1>1, <1>2, <1>8 DEF TripInv, RoundTrips

\* The decompressor reads the size of the data off the header and starts at the first place.
LEMMA TripDecompress ==
  ASSUME IInv, TripInv, pc = "packed", NEW old \in OldOutputs, Decompress(out, old)
  PROVE  TripInv'
<1>1. /\ src' = out /\ len' = 0 /\ original' = original
      /\ pc' = IF out = <<>> THEN "ok" ELSE IF Digits(out) = {} THEN "error" ELSE "unpacking"
  BY DEF Decompress
<1>2. CASE original = <<>> /\ out = <<>>
  <2>1. Digits(out) = {}
    BY <1>2, LimitsAssumption DEF Digits
  <2>2. out' = <<>> /\ pc' = "ok"
    BY <1>1, <1>2, <2>1 DEF Decompress
  <2> QED BY <1>1, <1>2, <2>2 DEF TripInv, RoundTrips
<1>3. CASE original \in Seq(Nat) /\ Encoding(out, original, Len(out), Len(original))
  <2>1. out \in Seq(Nat) /\ Len(out) \in Nat /\ Len(original) \in Nat
    BY <1>3, LenProperties DEF IInv, TypeOK
  <2>2. PICK digits \in 1..HeaderLimit :
          /\ Headed(out, Len(original), digits) /\ digits <= Len(out)
          /\ \E A : Covers(out, original, Len(out), Len(original), A) /\ <<digits, 0>> \in A
    BY <1>3 DEF Encoding
  <2>3. /\ Digits(out) = {digits}
        /\ \A k \in Nat : IsSize(out, digits, k) => k = Len(original)
    BY <2>1, <2>2, SizeReads
  <2>4. out # <<>>
    BY <2>2, LimitsAssumption
  <2>5. pc' = "unpacking"
    BY <1>1, <2>3, <2>4
  <2>6. PICK k \in Digits(out), n \in 0..(VarintRange ^ VarintBytes - 1) :
          IsSize(out, k, n) /\ limit' = n /\ pos' = k
    BY <2>3 DEF Decompress
  <2>7. pos' = digits /\ limit' = Len(original)
    <3>1. n \in Nat
      OBVIOUS
    <3> QED BY <2>3, <2>6, <3>1
  <2>8. \E A : Covers(src', original', Len(src'), limit', A) /\ <<pos', len'>> \in A
    BY <1>1, <2>2, <2>7
  <2>9. \A i \in 1..len' : out'[i] = original'[i]
    BY <1>1
  <2> QED BY <1>1, <1>3, <2>5, <2>7, <2>8, <2>9 DEF TripInv, RoundTrips
<1> QED BY <1>2, <1>3 DEF TripInv

\* One iteration of the decompressor goes to the next place.
LEMMA TripUnpack ==
  ASSUME IInv, TripInv, UnpackMark, original # NoData
  PROVE  TripInv'
<1> DEFINE mark == src[pos + 1]
           begin == [ok |-> TRUE, pos |-> pos + 1, out |-> out, len |-> len]
           middle == Unpack(begin, mark % NibbleRange)
           after == Unpack(middle, mark \div NibbleRange)
<1>1. /\ src \in Seq(Nat) /\ pos \in Nat /\ Len(src) \in Nat /\ pos < Len(src) /\ pc = "unpacking" /\ len \in Nat
      /\ original \in Seq(Nat) /\ limit = Len(original)
      /\ \A i \in 1..len : out[i] = original[i]
      /\ \E A : Covers(src, original, Len(src), limit, A) /\ <<pos, len>> \in A
  <2>1. src \in Seq(Nat) /\ pos \in 0..Len(src) /\ pos < Len(src) /\ pc = "unpacking" /\ len \in 0..Len(out) /\ out \in Seq(Nat)
    BY DEF IInv, TypeOK, UnpackMark
  <2>2. Len(src) \in Nat /\ Len(out) \in Nat
    BY <2>1, LenProperties
  <2>3. pos \in Nat /\ len \in Nat
    BY ONLY <2>1, <2>2
  <2> QED BY <2>1, <2>2, <2>3 DEF TripInv
<1>2. PICK A : Covers(src, original, Len(src), limit, A) /\ <<pos, len>> \in A
  BY <1>1
<1>3. PICK n \in Nat, m \in Nat :
        /\ Marked(src, original, pos, len, n, m)
        /\ pos + Spent(original, len, n, m) <= Len(src)
        /\ <<pos + Spent(original, len, n, m), len + n + m>> \in A
  <2> DEFINE x == <<pos, len>>
  <2>1. x \in A /\ x # <<Len(src), limit>> /\ x[1] = pos /\ x[2] = len
    BY <1>1, <1>2
  <2> HIDE DEF x
  <2>2. \E n, m \in Nat :
          /\ Marked(src, original, x[1], x[2], n, m)
          /\ x[1] + Spent(original, x[2], n, m) <= Len(src)
          /\ <<x[1] + Spent(original, x[2], n, m), x[2] + n + m>> \in A
    BY <1>2, <2>1 DEF Covers
  <2> QED BY <2>1, <2>2
<1> DEFINE a == Literals(original, len, n)
           b == Literals(original, len + n, m)
           one == Nibble(original[len + 1], n)
           two == IF m = 0 THEN 0 ELSE Nibble(original[len + n + 1], m)
<1>4. /\ a \in Nat /\ b \in Nat /\ Spent(original, len, n, m) = 1 + a + b
      /\ pos + (1 + a + b) <= Len(src)
  <2>1. n \in Nat /\ m \in Nat /\ len \in Nat /\ original \in Seq(Nat)
    BY <1>1
  <2>2. a \in Nat /\ b \in Nat /\ Spent(original, len, n, m) = 1 + a + b
    <3>1. a \in Nat
      BY <2>1 DEF Literals
    <3>2. b \in Nat
      BY <2>1 DEF Literals
    <3>3. Spent(original, len, n, m) = 1 + a + b
      BY DEF Spent
    <3> HIDE DEF a, b
    <3> QED BY ONLY <3>1, <3>2, <3>3
  <2>3. pos + Spent(original, len, n, m) <= Len(src)
    BY <1>3
  <2> HIDE DEF a, b
  <2> QED BY <2>2, <2>3
<1>5. /\ IsRun(original, len, n)
      /\ m # 0 => IsRun(original, len + n, m)
      /\ mark = one + NibbleRange * two
      /\ \A i \in 1..a : src[pos + 1 + i] = original[len + i]
      /\ \A i \in 1..b : src[pos + 1 + a + i] = original[len + n + i]
  BY <1>3 DEF Marked
<1>6. mark % NibbleRange = one /\ mark \div NibbleRange = two /\ one \in Nat /\ two \in Nat
  <2>1. one \in 1..(NibbleRange - 1)
    BY <1>1, <1>5, NibbleBound
  <2>2. two \in 0..(NibbleRange - 1)
    <3>1. CASE m = 0
      BY <3>1, ByteFacts
    <3>2. CASE m # 0
      <4>1. len + n \in Nat /\ IsRun(original, len + n, m)
        BY <1>1, <1>5, <3>2
      <4>2. Nibble(original[len + n + 1], m) \in 1..(NibbleRange - 1)
        BY <1>1, <4>1, NibbleBound
      <4> QED BY <3>2, <4>2, ByteFacts
    <3> QED BY <3>1, <3>2
  <2>3. one \in 0..(NibbleRange - 1)
    BY <2>1, ByteFacts
  <2> HIDE DEF one, two, mark
  <2>4. NibbleRange \in Nat
    BY ByteFacts
  <2>5. mark = one + NibbleRange * two
    BY <1>5
  <2>6. /\ (one + NibbleRange * two) % NibbleRange = one
        /\ (one + NibbleRange * two) \div NibbleRange = two
    BY ONLY <2>2, <2>3, MarkSplits
  <2>7. one \in Nat /\ two \in Nat
    BY ONLY <2>2, <2>3, <2>4
  <2> QED BY ONLY <2>5, <2>6, <2>7
<1>7. Filling(begin)
  BY <1>1 DEF Filling, IInv, TypeOK, UnpackInv
<1>8. begin.ok /\ begin.pos = pos + 1 /\ begin.out = out /\ begin.len = len
  OBVIOUS
<1> HIDE DEF begin, mark
<1>9. Filling(middle)
  BY <1>6, <1>7, UnpackFills
<1>10. /\ middle.ok /\ middle.pos = pos + 1 + a /\ middle.len = len + n
       /\ \A i \in 1..(len + n) : middle.out[i] = original[i]
  <2>1. middle = Unpack(begin, Nibble(original[begin.len + 1], n))
    BY <1>6, <1>8
  <2>2. IsRun(original, begin.len, n)
    BY <1>5, <1>8
  <2>3. begin.pos + Literals(original, begin.len, n) <= Len(src)
    BY <1>1, <1>4, <1>8, SMTT(30)
  <2>4. \A i \in 1..Literals(original, begin.len, n) : src[begin.pos + i] = original[begin.len + i]
    BY <1>5, <1>8
  <2>5. \A i \in 1..begin.len : begin.out[i] = original[i]
    BY <1>1, <1>8
  <2> HIDE DEF middle
  <2>6. /\ middle.ok /\ middle.pos = begin.pos + Literals(original, begin.len, n) /\ middle.len = begin.len + n
        /\ \A i \in 1..(begin.len + n) : middle.out[i] = original[i]
    <3>1. RunAhead(original, begin, n)
      BY <1>1, <1>7, <1>8, <2>2, <2>3, <2>4, <2>5 DEF RunAhead
    <3>2. RunBehind(original, begin, n, Unpack(begin, Nibble(original[begin.len + 1], n)))
      BY ONLY <3>1, IInv, RunUnpacks
    <3> QED BY ONLY <3>2, <2>1 DEF RunBehind
  <2> QED BY <1>8, <2>6
<1>11. /\ after.ok /\ after.pos = pos + (1 + a + b) /\ after.len = len + n + m
       /\ \A i \in 1..(len + n + m) : after.out[i] = original[i]
  <2>1. CASE m = 0
    <3>1. after = middle
      BY <1>6, <2>1 DEF Unpack
    <3>2. b = 0
      BY <2>1 DEF Literals
    <3>3. len + n + m = len + n /\ pos + (1 + a + b) = pos + 1 + a
      <4> HIDE DEF a, b
      <4> QED BY <1>1, <1>4, <2>1, <3>2
    <3> HIDE DEF after, middle, b, a
    <3> QED BY <1>10, <3>1, <3>3
  <2>2. CASE m # 0
    <3>1. after = Unpack(middle, Nibble(original[middle.len + 1], m))
      BY <1>6, <1>10, <2>2
    <3> HIDE DEF after, middle
    <3>2. IsRun(original, middle.len, m)
      BY <1>5, <1>10, <2>2
    <3>3. Literals(original, middle.len, m) = b
      BY <1>10
    <3> HIDE DEF a, b
    <3>4. middle.pos + Literals(original, middle.len, m) <= Len(src)
      BY <1>1, <1>4, <1>10, <3>3
    <3>5. \A i \in 1..Literals(original, middle.len, m) : src[middle.pos + i] = original[middle.len + i]
      BY <1>5, <1>10, <3>3
    <3>6. \A i \in 1..middle.len : middle.out[i] = original[i]
      BY <1>10
    <3>7. /\ after.ok /\ after.pos = middle.pos + Literals(original, middle.len, m) /\ after.len = middle.len + m
          /\ \A i \in 1..(middle.len + m) : after.out[i] = original[i]
      <4>1. RunAhead(original, middle, m)
        BY <1>1, <1>9, <1>10, <3>2, <3>4, <3>5, <3>6 DEF RunAhead
      <4>2. RunBehind(original, middle, m, Unpack(middle, Nibble(original[middle.len + 1], m)))
        BY ONLY <4>1, IInv, RunUnpacks
      <4> QED BY ONLY <4>2, <3>1 DEF RunBehind
    <3>8. pos + 1 + a + b = pos + (1 + a + b)
      BY <1>1, <1>4
    <3> QED BY <1>10, <3>3, <3>7, <3>8
  <2> QED BY <2>1, <2>2
<1>12. after = Unpacked(src[pos + 1], [ok |-> TRUE, pos |-> pos + 1, out |-> out, len |-> len])
  BY DEF Unpacked, after, middle, begin, mark
<1> HIDE DEF after, middle
<1>13. /\ pc' = "unpacking" /\ out' = after.out /\ pos' = after.pos /\ len' = after.len
       /\ UNCHANGED <<original, src, limit>>
  BY <1>11, <1>12 DEF UnpackMark
<1>14. <<pos', len'>> \in A
  BY <1>3, <1>4, <1>11, <1>13
<1>15. \A i \in 1..len' : out'[i] = original'[i]
  BY <1>11, <1>13
<1> HIDE DEF a, b
<1>16. \E B : Covers(src', original', Len(src'), limit', B) /\ <<pos', len'>> \in B
  BY <1>2, <1>13, <1>14
<1> QED BY <1>1, <1>13, <1>15, <1>16 DEF TripInv, RoundTrips

\* The decompressor ends at the last place, with all the data.
LEMMA TripEnds ==
  ASSUME IInv, TripInv, UnpackReturn, original # NoData
  PROVE  TripInv'
<1>1. /\ src \in Seq(Nat) /\ pos \in Nat /\ Len(src) \in Nat /\ pos >= Len(src) /\ pos \in 0..Len(src) /\ pc = "unpacking"
      /\ len \in Nat /\ original \in Seq(Nat) /\ limit = Len(original) /\ limit \in Nat
      /\ \A i \in 1..len : out[i] = original[i]
      /\ \E A : Covers(src, original, Len(src), limit, A) /\ <<pos, len>> \in A
      /\ out \in Seq(Nat) /\ Len(out) = limit + Pad /\ Pad \in Nat
  <2>1. /\ src \in Seq(Nat) /\ pos \in 0..Len(src) /\ pos >= Len(src) /\ pc = "unpacking" /\ len \in 0..Len(out)
        /\ out \in Seq(Nat) /\ limit \in Nat /\ Len(out) = limit + Pad
    BY DEF IInv, TypeOK, UnpackInv, UnpackReturn
  <2>2. Len(src) \in Nat /\ Len(out) \in Nat /\ Pad \in Nat
    BY <2>1, LenProperties, LimitsAssumption
  <2>3. pos \in Nat /\ len \in Nat
    BY ONLY <2>1, <2>2
  <2> QED BY <2>1, <2>2, <2>3 DEF TripInv
<1>2. PICK A : Covers(src, original, Len(src), limit, A) /\ <<pos, len>> \in A
  BY <1>1
<1>3. len = limit
  <2> DEFINE x == <<pos, len>>
  <2>1. x \in A /\ x[1] = pos /\ x[2] = len
    BY <1>2
  <2>2. CASE x = <<Len(src), limit>>
    BY <2>2
  <2> HIDE DEF x
  <2>3. CASE x # <<Len(src), limit>>
    <3>1. PICK n \in Nat, m \in Nat : x[1] + Spent(original, x[2], n, m) <= Len(src)
      BY <1>2, <2>1, <2>3 DEF Covers
    <3>2. Spent(original, len, n, m) \in Nat \ {0}
      BY <1>1, SpentType
    <3>3. pos + Spent(original, len, n, m) <= Len(src)
      BY <2>1, <3>1
    <3> QED BY <1>1, <3>2, <3>3
  <2> QED BY <2>2, <2>3
<1>4. pc' = "ok" /\ out' = Slice(out, 0, limit) /\ original' = original
  BY <1>3 DEF UnpackReturn
<1>5. out' = original
  <2>1. 0 + limit <= Len(out)
    BY <1>1
  <2>2. out' \in Seq(Nat) /\ Len(out') = limit /\ \A i \in 1..limit : out'[i] = out[0 + i]
    <3> DEFINE whole == Slice(out, 0, limit)
    <3>1. 0 \in Nat /\ limit \in Nat /\ out \in Seq(Nat)
      BY <1>1
    <3>2. whole \in Seq(Nat) /\ Len(whole) = limit
      BY ONLY <3>1, <2>1, SliceLength
    <3>3. \A i \in 1..limit : whole[i] = out[0 + i]
      BY ONLY <3>1, <2>1, SliceBytes
    <3>4. out' = whole
      BY <1>4
    <3> QED BY ONLY <3>2, <3>3, <3>4
  <2>3. \A i \in 1..Len(original) : out'[i] = original[i]
    BY <1>1, <1>3, <2>2, SMTT(30)
  <2> QED BY <1>1, <2>2, <2>3, SeqEqual
<1> QED BY <1>4, <1>5 DEF TripInv, RoundTrips

\* Every step keeps the round trip going.
LEMMA TripStep == IInv /\ TripInv /\ [Next]_vars => TripInv'
<1> SUFFICES ASSUME IInv, TripInv, [Next]_vars PROVE TripInv'
  OBVIOUS
<1>1. CASE CompressEmpty
  BY <1>1 DEF CompressEmpty, TripInv, RoundTrips
<1>2. CASE Compress
  BY <1>2, TripCompress
<1>3. ASSUME NEW n, NEW m, Added(n, m), pc = "packing", pc' = pc, src' = src, original' = original
      PROVE  TripInv'
  <2>1. Encoding(out', src, len', pos')
    BY <1>3, EncodingGrows DEF TripInv
  <2> QED BY <1>3, <2>1 DEF TripInv, RoundTrips
<1>4. CASE \E n, m \in 1..Window : PackPair(n, m)
  BY <1>3, <1>4, PairAdds DEF PackPair
<1>5. CASE \E n \in 1..Window : PackLast(n)
  BY <1>3, <1>5, LastAdds DEF PackLast
<1>6. CASE PackReturn
  BY <1>6, TripReturn
<1>7. CASE DecompressPacked
  BY <1>7, TripDecompress DEF DecompressPacked
<1>8. CASE DecompressOther
  <2>1. pc' \in {"ok", "error", "unpacking"} /\ original' = NoData
    BY <1>8 DEF DecompressOther, Decompress, TripInv
  <2> QED BY <2>1 DEF TripInv, RoundTrips
<1>9. CASE UnpackMark \/ UnpackReturn
  <2>1. CASE original = NoData
    <3>1. pc' \in {"ok", "error", "unpacking"} /\ original' = NoData
      BY <1>9, <2>1 DEF UnpackMark, UnpackReturn
    <3> QED BY <3>1 DEF TripInv, RoundTrips
  <2>2. CASE original # NoData
    BY <1>9, <2>2, TripUnpack, TripEnds
  <2> QED BY <2>1, <2>2
<1>10. CASE UNCHANGED vars
  BY <1>10 DEF vars, TripInv, RoundTrips
<1> QED BY <1>1, <1>2, <1>4, <1>5, <1>6, <1>7, <1>8, <1>9, <1>10 DEF Next

(***************************************************************************)
(* decompress_into gives back what compress_into was given: for all data,  *)
(* all limits on runs and windows, and whatever the vectors held before.   *)
(***************************************************************************)
THEOREM DataComeBack == Spec => []RoundTrips
<1>1. Init => TripInv
  BY DEF Init, TripInv, RoundTrips
<1>2. TripInv => RoundTrips
  BY DEF TripInv
<1> QED BY <1>1, <1>2, TripStep, AlwaysIInv, PTL DEF Spec
=============================================================================
