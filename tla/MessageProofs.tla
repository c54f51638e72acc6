-------------------------- MODULE MessageProofs --------------------------------
(***************************************************************************)
(* Theorems about MessageEncode and MutableMessage.  The first, for every  *)
(* number of fields, every size of header and section and every earlier    *)
(* content of the buffer; the second, for all kinds of fields, all values  *)
(* and any number of loads.  Both write a message by MessageLayout, so     *)
(* most of the lemmas serve both.                                          *)
(***************************************************************************)
EXTENDS MessageEncode, MutableMessage, DataProofs

-----------------------------------------------------------------------------
(***************************************************************************)
(* Two-bit places.                                                         *)
(***************************************************************************)

\* Each place weighs four times the one before it.
LEMMA Places ==
  /\ Place[0] = 1
  /\ \A i \in Nat : Place[i] \in Nat \ {0} /\ Place[i + 1] = 4 * Place[i]
<1> DEFINE step == [i \in Nat |-> [x \in Nat |-> 4 * x]]
           Weighs(p) == p = [i \in Nat |-> IF i = 0 THEN 1 ELSE 4 * p[i - 1]]
<1>1. step \in [Nat -> [Nat -> Nat]] /\ 1 \in Nat
  OBVIOUS
<1>2. PICK g \in [Nat -> Nat] : Recurs(g, 1, step)
  BY <1>1, NatRecursion
<1>3. g[0] = 1 /\ \A i \in Nat : g[i + 1] = 4 * g[i]
  BY <1>2 DEF Recurs
<1>4. ASSUME NEW i \in Nat, i # 0 PROVE g[i] = 4 * g[i - 1]
  <2>1. i - 1 \in Nat /\ (i - 1) + 1 = i
    BY <1>4
  <2> QED BY <1>3, <2>1
<1>5. Weighs(g)
  BY <1>2, <1>3, <1>4
<1>6. Place = CHOOSE p : Weighs(p)
  BY DEF Place
<1>7. Weighs(Place)
  BY <1>5, <1>6
<1>8. Place[0] = 1 /\ \A i \in Nat : Place[i + 1] = 4 * Place[i]
  <2>1. 0 \in Nat /\ \A i \in Nat : i + 1 \in Nat /\ i + 1 # 0 /\ (i + 1) - 1 = i
    OBVIOUS
  <2>2. \A i \in Nat : Place[i] = IF i = 0 THEN 1 ELSE 4 * Place[i - 1]
    BY <1>7
  <2> QED BY <2>1, <2>2
<1> DEFINE T == {i \in Nat : Place[i] \in Nat \ {0}}
<1>9. T = Nat
  <2>1. 0 \in T
    BY <1>8
  <2>2. ASSUME NEW i \in T PROVE i + 1 \in T
    BY <1>8
  <2> QED BY <2>1, <2>2, NatInduct
<1>10. \A i \in Nat : Place[i] \in Nat \ {0}
  BY <1>9
<1> QED BY <1>8, <1>10

\* Dividing what was put together.
LEMMA Divides ==
  ASSUME NEW b \in Nat \ {0}, NEW q \in Nat, NEW r \in 0..(b - 1), NEW v, v = r + b * q
  PROVE  v \in Nat /\ v \div b = q /\ v % b = r
<1>1. v \in Nat
  OBVIOUS
<1>2. PICK x, y \in Int : x = v \div b /\ y = v % b
  BY <1>1
<1>3. v = b * x + y /\ y \in 0..(b - 1)
  BY <1>1, <1>2, SMTT(30)
<1>4. ~(x < q)
  <2> SUFFICES ASSUME x < q PROVE FALSE
    OBVIOUS
  <2>1. PICK e \in Nat : q = x + 1 + e
    <3>1. q - x - 1 \in Nat /\ q = x + 1 + (q - x - 1)
      OBVIOUS
    <3> QED BY <3>1
  <2>2. b * q = b * x + b + b * e /\ b * e \in Nat /\ b * x \in Int
    BY <2>1
  <2> QED BY <1>3, <2>2
<1>5. ~(q < x)
  <2> SUFFICES ASSUME q < x PROVE FALSE
    OBVIOUS
  <2>1. PICK e \in Nat : x = q + 1 + e
    <3>1. x - q - 1 \in Nat /\ x = q + 1 + (x - q - 1)
      OBVIOUS
    <3> QED BY <3>1
  <2>2. b * x = b * q + b + b * e /\ b * e \in Nat /\ b * q \in Int
    BY <2>1
  <2> QED BY <1>3, <2>2
<1>6. x = q /\ y = r
  <2>1. x = q
    BY <1>4, <1>5
  <2>2. b * q \in Int
    OBVIOUS
  <2> QED BY <1>3, <2>1, <2>2
<1> QED BY <1>1, <1>2, <1>6

\* Putting together what was divided.
LEMMA Rejoins ==
  ASSUME NEW b \in Nat \ {0}, NEW v \in Nat
  PROVE  v = (v % b) + b * (v \div b) /\ v % b \in 0..(b - 1) /\ v \div b \in Nat
<1>1. PICK x, y \in Int : x = v \div b /\ y = v % b
  OBVIOUS
<1>2. v = b * x + y /\ y \in 0..(b - 1)
  BY <1>1, SMTT(30)
<1>3. ~(x < 0)
  <2> SUFFICES ASSUME x < 0 PROVE FALSE
    OBVIOUS
  <2>1. PICK e \in Nat : 0 = x + 1 + e
    <3>1. 0 - x - 1 \in Nat /\ 0 = x + 1 + (0 - x - 1)
      OBVIOUS
    <3> QED BY <3>1
  <2>2. 0 = b * x + b + b * e /\ b * e \in Nat /\ b * x \in Int
    <3>1. b * 0 = b * x + b + b * e
      BY <2>1
    <3> QED BY <3>1
  <2> QED BY <1>2, <2>2
<1> QED BY <1>1, <1>2, <1>3

\* The sum of two-bit numbers, each at its place, up to the k-th.
Digits(d, k) == SumFunctionOnSet([i \in DOMAIN d |-> d[i] * Place[i - 1]], 1..k)

\* The two-bit numbers below a place do not reach it.
LEMMA DigitsGrow ==
  ASSUME NEW n \in Nat, NEW d \in [1..n -> 0..3]
  PROVE  /\ Digits(d, 0) = 0
         /\ \A k \in 0..n : Digits(d, k) \in 0..(Place[k] - 1)
         /\ \A k \in 0..(n - 1) : Digits(d, k + 1) = Digits(d, k) + d[k + 1] * Place[k]
<1> DEFINE f == [i \in 1..n |-> d[i] * Place[i - 1]]
<1>1. \A i \in 1..n : i - 1 \in Nat /\ f[i] = d[i] * Place[i - 1] /\ f[i] \in Nat
  <2> TAKE i \in 1..n
  <2>1. i - 1 \in Nat /\ d[i] \in Nat
    OBVIOUS
  <2>2. Place[i - 1] \in Nat
    BY <2>1, Places
  <2> QED BY <2>1, <2>2
<1>2. \A k \in Nat : Digits(d, k) = SumFunctionOnSet(f, 1..k)
  BY DEF Digits
<1> HIDE DEF f
<1>3. SumGrows(f, 1..n, n)
  BY <1>1, SumUpTo
<1>4. \A k \in 0..n : {j \in 1..n : j < k + 1} = 1..k
  OBVIOUS
<1>5. \A k \in 0..n : Digits(d, k) = SumBefore(f, 1..n, k + 1)
  <2> TAKE k \in 0..n
  <2>1. k \in Nat /\ {j \in 1..n : j < k + 1} = 1..k
    BY <1>4
  <2>2. Digits(d, k) = SumFunctionOnSet(f, 1..k)
    BY <1>2, <2>1
  <2> QED BY <2>1, <2>2 DEF SumBefore
<1>6. Digits(d, 0) = 0
  <2>1. Digits(d, 0) = SumBefore(f, 1..n, 0 + 1)
    BY <1>5
  <2> QED BY <1>3, <2>1 DEF SumGrows
<1>7. \A k \in 0..n : Digits(d, k) \in Nat
  BY <1>3, <1>5 DEF SumGrows
<1>8. ASSUME NEW k \in 0..(n - 1)
      PROVE  Digits(d, k + 1) = Digits(d, k) + d[k + 1] * Place[k]
  <2>1. k + 1 \in 1..n /\ k + 1 \in 0..n /\ k \in 0..n /\ (k + 1) - 1 = k
    OBVIOUS
  <2>2. SumBefore(f, 1..n, (k + 1) + 1) = SumBefore(f, 1..n, k + 1) + f[k + 1]
    BY <1>3, <2>1 DEF SumGrows
  <2> QED BY <1>1, <1>5, <2>1, <2>2
<1> DEFINE T == {i \in 1..(n + 1) : Digits(d, i - 1) < Place[i - 1]}
<1>9. 1 \in T
  BY <1>6, Places, SMTT(30)
<1>10. ASSUME NEW i \in 1..((n + 1) - 1), i \in T PROVE i + 1 \in T
  <2>1. PICK k \in 0..(n - 1) : k = i - 1 /\ k + 1 = i /\ (i + 1) - 1 = k + 1
    <3>1. i - 1 \in 0..(n - 1)
      OBVIOUS
    <3> QED BY <3>1
  <2>2. PICK x, w \in Nat, y \in 0..3 : x = Digits(d, k) /\ w = Place[k] /\ y = d[k + 1]
    <3>1. k \in 0..n /\ k \in Nat /\ k + 1 \in 1..n
      OBVIOUS
    <3>2. Digits(d, k) \in Nat /\ Place[k] \in Nat /\ d[k + 1] \in 0..3
      BY <1>7, <3>1, Places
    <3> QED BY <3>2
  <2>3. x < w
    BY <1>10, <2>1, <2>2
  <2>4. Digits(d, k + 1) = x + y * w /\ Place[k + 1] = 4 * w
    BY <1>8, <2>2, Places
  <2>5. x + y * w < 4 * w
    <3>1. y = 0 \/ y = 1 \/ y = 2 \/ y = 3
      OBVIOUS
    <3> QED BY <2>3, <3>1
  <2> QED BY <2>1, <2>4, <2>5
<1>11. \A i \in 1..(n + 1) : i \in T
  <2>1. n + 1 \in Nat
    OBVIOUS
  <2> HIDE DEF T
  <2> QED BY <1>9, <1>10, <2>1, Climb
<1>12. ASSUME NEW k \in 0..n PROVE Digits(d, k) \in 0..(Place[k] - 1)
  <2>1. k + 1 \in 1..(n + 1) /\ (k + 1) - 1 = k
    OBVIOUS
  <2>2. Digits(d, k) < Place[k]
    BY <1>11, <2>1
  <2>3. Digits(d, k) \in Nat /\ Place[k] \in Nat
    <3>1. k \in Nat
      OBVIOUS
    <3>2. Place[k] \in Nat
      BY <3>1, Places
    <3>3. Digits(d, k) \in Nat
      BY <1>7
    <3> QED BY <3>2, <3>3
  <2> QED BY <2>2, <2>3
<1> QED BY <1>6, <1>8, <1>12

\* Each number is read back from its place, and so is what is above them all.
LEMMA DigitsRead ==
  ASSUME NEW n \in Nat, NEW d \in [1..n -> 0..3], NEW top \in Nat,
         NEW v, v = Digits(d, n) + Place[n] * top
  PROVE  /\ v \in Nat /\ v \div Place[n] = top
         /\ \A i \in 1..n : WordAt(v, i - 1) = d[i]
<1>0. /\ \A k \in 0..n : k \in Nat /\ Place[k] \in Nat \ {0} /\ Digits(d, k) \in 0..(Place[k] - 1)
      /\ \A k \in 0..(n - 1) : /\ k \in 0..n /\ k + 1 \in 1..n
                              /\ Digits(d, k + 1) = Digits(d, k) + d[k + 1] * Place[k]
                              /\ Place[k + 1] = 4 * Place[k]
  <2>1. \A k \in 0..n : k \in Nat
    OBVIOUS
  <2>2. \A k \in 0..(n - 1) : k \in 0..n /\ k + 1 \in 1..n
    OBVIOUS
  <2> QED BY <2>1, <2>2, Places, DigitsGrow, ZenonT(30)
<1>1. n \in 0..n /\ Place[n] \in Nat \ {0} /\ Digits(d, n) \in 0..(Place[n] - 1)
  BY <1>0
<1>2. v \in Nat /\ v \div Place[n] = top
  BY <1>1, Divides
<1> DEFINE Above(k) == \E r \in Nat : v = Digits(d, k) + Place[k] * r
           T == {i \in 1..(n + 1) : Above(n + 1 - i)}
<1>3. 1 \in T
  <2>1. 1 \in 1..(n + 1) /\ (n + 1) - 1 = n
    OBVIOUS
  <2> QED BY <2>1
<1>4. ASSUME NEW k \in 0..(n - 1), NEW r \in Nat, v = Digits(d, k + 1) + Place[k + 1] * r
      PROVE  d[k + 1] + 4 * r \in Nat /\ v = Digits(d, k) + Place[k] * (d[k + 1] + 4 * r)
  <2>1. PICK x, w \in Nat, y \in 0..3 : x = Digits(d, k) /\ w = Place[k] /\ y = d[k + 1]
    <3>1. k \in 0..n /\ Place[k] \in Nat /\ Digits(d, k) \in 0..(Place[k] - 1) /\ d[k + 1] \in 0..3
      BY <1>0
    <3>2. Digits(d, k) \in Nat
      BY <3>1
    <3> QED BY <3>1, <3>2
  <2>2. Digits(d, k + 1) = x + y * w /\ Place[k + 1] = 4 * w
    BY <1>0, <2>1
  <2>3. v = (x + y * w) + (4 * w) * r
    BY <1>4, <2>2
  <2>4. (x + y * w) + (4 * w) * r = x + w * (y + 4 * r) /\ y + 4 * r \in Nat
    OBVIOUS
  <2> QED BY <2>1, <2>3, <2>4
<1>5. ASSUME NEW i \in 1..((n + 1) - 1), i \in T PROVE i + 1 \in T
  <2>1. PICK k \in 0..(n - 1) : k = (n + 1) - (i + 1) /\ k + 1 = (n + 1) - i
    <3>1. (n + 1) - (i + 1) \in 0..(n - 1) /\ ((n + 1) - (i + 1)) + 1 = (n + 1) - i
      OBVIOUS
    <3> QED BY <3>1
  <2>2. PICK r \in Nat : v = Digits(d, k + 1) + Place[k + 1] * r
    BY <1>5, <2>1
  <2>3. Above(k)
    BY <1>4, <2>2
  <2> QED BY <2>1, <2>3
<1>6. \A i \in 1..(n + 1) : i \in T
  <2>1. n + 1 \in Nat
    OBVIOUS
  <2> HIDE DEF T
  <2> QED BY <1>3, <1>5, <2>1, Climb
<1>7. ASSUME NEW i \in 1..n PROVE WordAt(v, i - 1) = d[i]
  <2>1. PICK k \in 0..(n - 1) : k = i - 1 /\ k + 1 = i
    OBVIOUS
  <2>2. Above(k + 1)
    <3>1. (n + 1) - i \in 1..(n + 1) /\ (n + 1) - ((n + 1) - i) = k + 1
      BY <2>1
    <3> QED BY <1>6, <3>1, SMTT(30)
  <2>3. PICK r \in Nat : v = Digits(d, k + 1) + Place[k + 1] * r
    BY <2>2
  <2>4. v = Digits(d, k) + Place[k] * (d[k + 1] + 4 * r) /\ d[k + 1] + 4 * r \in Nat
    BY <1>4, <2>3
  <2>5. Place[k] \in Nat \ {0} /\ Digits(d, k) \in 0..(Place[k] - 1)
    BY <1>0
  <2>6. v \div Place[k] = d[k + 1] + 4 * r
    <3>1. PICK b, q, l : b = Place[k] /\ q = d[k + 1] + 4 * r /\ l = Digits(d, k)
      OBVIOUS
    <3>2. b \in Nat \ {0} /\ q \in Nat /\ l \in 0..(b - 1) /\ v = l + b * q
      BY ONLY <2>4, <2>5, <3>1
    <3>3. v \div b = q
      BY ONLY <3>2, Divides
    <3> QED BY ONLY <3>1, <3>3
  <2>7. PICK y \in 0..3 : y = d[i]
    OBVIOUS
  <2>8. (y + 4 * r) % 4 = y
    OBVIOUS
  <2> QED BY <2>1, <2>6, <2>7, <2>8 DEF WordAt
<1> QED BY <1>2, <1>7

-----------------------------------------------------------------------------
(***************************************************************************)
(* Body widths.                                                            *)
(***************************************************************************)

\* Units, and fields whose inline words are at most three.
UnitType == [inline : Seq(Nat), pos : Nat, len : Nat]

Narrow(f) == f \in Seq(UnitType) /\ \A k \in 1..Len(f) : Len(f[k].inline) <= 3

\* A width fits its two bits.
LEMMA WidthsFit ==
  ASSUME NEW f, Narrow(f)
  PROVE  /\ Len(f) \in Nat
         /\ \A k \in 1..Len(f) : FieldWidth(f[k]) \in 0..3
         /\ \A k \in Nat : k >= 1 => WidthOf(f, k) \in 0..3
<1>1. Len(f) \in Nat /\ \A k \in 1..Len(f) : f[k] \in UnitType /\ Len(f[k].inline) <= 3
  BY DEF Narrow
<1>2. \A k \in 1..Len(f) : FieldWidth(f[k]) \in 0..3
  <2> TAKE k \in 1..Len(f)
  <2>1. PICK i \in Seq(Nat) : i = f[k].inline /\ Len(i) <= 3
    BY <1>1 DEF UnitType
  <2>2. FieldWidth(f[k]) \in {Len(i), 0, 1}
    BY <2>1 DEF FieldWidth
  <2> QED BY <2>1, <2>2
<1>3. \A k \in Nat : k >= 1 => WidthOf(f, k) \in 0..3
  BY <1>1, <1>2 DEF WidthOf
<1> QED BY <1>1, <1>2, <1>3

\* A sum is what its partial sums come to.
LEMMA SumIs ==
  ASSUME NEW n \in Nat, NEW g, NEW h, \A k \in 1..n : g[k] \in Nat,
         \A k \in 1..(n + 1) : h[k] \in Nat, \A k \in 1..n : h[k + 1] = h[k] + g[k]
  PROVE  h[1] + SumFunctionOnSet(g, 1..n) = h[n + 1]
<1>1. SumGrows(g, 1..n, n)
  BY SumUpTo
<1> DEFINE B(k) == SumBefore(g, 1..n, k)
           T == {k \in 1..(n + 1) : h[1] + B(k) = h[k]}
<1>2. /\ B(1) = 0 /\ B(n + 1) = SumFunctionOnSet(g, 1..n)
      /\ \A k \in 1..(n + 1) : B(k) \in Nat
      /\ \A k \in 1..n : B(k + 1) = B(k) + g[k]
  BY <1>1 DEF SumGrows
<1> HIDE DEF B
<1>3. 1 \in T
  BY <1>2
<1>4. ASSUME NEW i \in 1..((n + 1) - 1), i \in T PROVE i + 1 \in T
  <2>1. i \in 1..n /\ i \in 1..(n + 1) /\ i + 1 \in 1..(n + 1) /\ 1 \in 1..(n + 1)
    OBVIOUS
  <2>2. B(i + 1) = B(i) + g[i] /\ h[i + 1] = h[i] + g[i] /\ h[1] + B(i) = h[i]
    BY <1>2, <1>4, <2>1
  <2>3. h[1] \in Nat /\ B(i) \in Nat /\ g[i] \in Nat
    BY <1>2, <2>1
  <2> QED BY <2>1, <2>2, <2>3
<1>5. \A i \in 1..(n + 1) : i \in T
  <2>1. n + 1 \in Nat
    OBVIOUS
  <2> HIDE DEF T
  <2> QED BY <1>3, <1>4, <2>1, Climb
<1>6. n + 1 \in 1..(n + 1)
  OBVIOUS
<1> QED BY <1>2, <1>5, <1>6

\* Functions that agree on the indices have the same sum.
LEMMA SumSame ==
  ASSUME NEW n \in Nat, NEW f, NEW g, \A k \in 1..n : f[k] \in Nat /\ f[k] = g[k]
  PROVE  SumFunctionOnSet(f, 1..n) = SumFunctionOnSet(g, 1..n)
<1>0. PICK S \in SUBSET (1..n) :
        /\ S = 1..n
        /\ \A k \in S : f[k] \in Nat /\ g[k] \in Nat /\ f[k] <= g[k] /\ g[k] <= f[k]
  <2>1. \A k \in 1..n : f[k] \in Nat /\ g[k] \in Nat /\ f[k] <= g[k] /\ g[k] <= f[k]
    OBVIOUS
  <2> QED BY <2>1
<1>1. SumFunctionOnSet(f, 1..n) <= SumFunctionOnSet(g, 1..n)
  BY <1>0, SumNotGreater
<1>2. SumFunctionOnSet(g, 1..n) <= SumFunctionOnSet(f, 1..n)
  BY <1>0, SumNotGreater
<1>3. SumFunctionOnSet(f, 1..n) \in Nat /\ SumFunctionOnSet(g, 1..n) \in Nat
  BY SumWithout
<1> QED BY <1>1, <1>2, <1>3

\* Body words of the fields before k, which may be beyond the last one.
Reach(f, k) == BodyBefore(f, IF k <= Len(f) THEN k ELSE Len(f) + 1)

\* Each field adds its width.
LEMMA ReachGrows ==
  ASSUME NEW f, Narrow(f)
  PROVE  /\ Reach(f, 1) = 0
         /\ Reach(f, Len(f) + 1) = BodySize(f)
         /\ \A k \in 1..(Len(f) + 1) : BodyBefore(f, k) = Reach(f, k)
         /\ \A k \in Nat : k >= 1 => Reach(f, k) \in Nat
         /\ \A k \in Nat : k >= 1 => Reach(f, k + 1) = Reach(f, k) + WidthOf(f, k)
<1>1. PICK n \in Nat : n = Len(f)
  BY WidthsFit
<1> DEFINE g == [j \in 1..Len(f) |-> FieldWidth(f[j])]
<1>2. \A k \in 1..n : g[k] = FieldWidth(f[k]) /\ g[k] \in Nat
  BY <1>1, WidthsFit
<1>3. \A k : BodyBefore(f, k) = SumFunctionOnSet(g, 1..k - 1)
  BY DEF BodyBefore
<1> HIDE DEF g
<1>4. SumGrows(g, 1..n, n)
  BY <1>2, SumUpTo
<1>5. \A k \in 1..(n + 1) : BodyBefore(f, k) = SumBefore(g, 1..n, k)
  <2> TAKE k \in 1..(n + 1)
  <2>1. {j \in 1..n : j < k} = 1..k - 1
    OBVIOUS
  <2> QED BY <1>3, <2>1 DEF SumBefore
<1>6. \A k \in 1..(n + 1) : BodyBefore(f, k) = Reach(f, k)
  BY <1>1 DEF Reach
<1>7. Reach(f, 1) = 0
  <2>1. 1 \in 1..(n + 1)
    OBVIOUS
  <2> QED BY <1>4, <1>5, <1>6, <2>1 DEF SumGrows
<1>8. \A k \in Nat : k >= 1 => Reach(f, k) \in Nat
  <2>1. \A k \in 1..(n + 1) : BodyBefore(f, k) \in Nat
    BY <1>4, <1>5 DEF SumGrows
  <2>2. n + 1 \in 1..(n + 1) /\ \A k \in Nat : k >= 1 /\ k <= n => k \in 1..(n + 1)
    OBVIOUS
  <2> QED BY <1>1, <2>1, <2>2 DEF Reach
<1>9. ASSUME NEW k \in Nat, k >= 1 PROVE Reach(f, k + 1) = Reach(f, k) + WidthOf(f, k)
  <2>1. CASE k <= n
    <3>1. k \in 1..n /\ k \in 1..(n + 1) /\ k + 1 \in 1..(n + 1)
      BY <1>9, <2>1
    <3>2. SumBefore(g, 1..n, k + 1) = SumBefore(g, 1..n, k) + g[k]
      BY <1>4, <3>1 DEF SumGrows
    <3>3. WidthOf(f, k) = g[k]
      BY <1>1, <1>2, <3>1 DEF WidthOf
    <3> QED BY <1>5, <1>6, <3>1, <3>2, <3>3
  <2>2. CASE ~(k <= n)
    <3>1. ~(k + 1 <= n)
      BY <2>2
    <3>2. Reach(f, k + 1) = Reach(f, k) /\ WidthOf(f, k) = 0
      BY <1>1, <2>2, <3>1 DEF Reach, WidthOf
    <3> QED BY <1>8, <1>9, <3>2
  <2> QED BY <2>1, <2>2
<1>10. Reach(f, Len(f) + 1) = BodySize(f)
  <2>1. ~(n + 1 <= n)
    OBVIOUS
  <2> QED BY <1>1, <2>1 DEF Reach, BodySize
<1> QED BY <1>1, <1>6, <1>7, <1>8, <1>9, <1>10

\* v holds the widths of `count` fields from field `first` on, and `top` above them.
Marked(f, first, count, top, v) ==
  /\ v \in Nat /\ v \div Place[count] = top
  /\ \A i \in 1..count : WordAt(v, i - 1) = WidthOf(f, first + i - 1)
  /\ \A m \in 0..count : Reach(f, first) + CountMarks(v, m) = Reach(f, first + m)

\* The marks of a run of fields, with a number above them, are read back, and
\* counting them counts body words.
LEMMA MarksRead ==
  ASSUME NEW f, Narrow(f), NEW first \in Nat \ {0}, NEW count \in Nat, NEW top \in Nat,
         NEW v, v = Marks(f, first, count) + Place[count] * top
  PROVE  Marked(f, first, count, top, v)
<1> DEFINE d == [i \in 1..count |-> WidthOf(f, first + i - 1)]
<1>1. d \in [1..count -> 0..3]
  <2>1. \A i \in 1..count : first + i - 1 \in Nat /\ first + i - 1 >= 1
    OBVIOUS
  <2> QED BY <2>1, WidthsFit
<1>2. \A i \in 1..count : d[i] = WidthOf(f, first + i - 1)
  OBVIOUS
<1>3. Marks(f, first, count) = Digits(d, count)
  BY DEF Marks, Digits, SumFunction
<1> HIDE DEF d
<1>4. v \in Nat /\ v \div Place[count] = top /\ \A i \in 1..count : WordAt(v, i - 1) = d[i]
  BY <1>1, <1>3, DigitsRead
<1>5. ASSUME NEW m \in 0..count
      PROVE  Reach(f, first) + CountMarks(v, m) = Reach(f, first + m)
  <2> DEFINE g == [i \in 1..m |-> WordAt(v, i - 1)]
             h == [k \in 1..(m + 1) |-> Reach(f, first + k - 1)]
  <2>1. CountMarks(v, m) = SumFunctionOnSet(g, 1..m)
    BY DEF CountMarks, SumFunction
  <2>2. \A k \in 1..m : g[k] = WidthOf(f, first + k - 1) /\ g[k] \in Nat
    <3> TAKE k \in 1..m
    <3>1. k \in 1..count /\ first + k - 1 \in Nat /\ first + k - 1 >= 1
      OBVIOUS
    <3>2. g[k] = d[k] /\ d[k] \in 0..3
      BY <1>1, <1>4, <3>1
    <3> QED BY <1>2, <3>1, <3>2
  <2>3. \A k \in 1..(m + 1) : h[k] = Reach(f, first + k - 1) /\ h[k] \in Nat
    <3> TAKE k \in 1..(m + 1)
    <3>1. first + k - 1 \in Nat /\ first + k - 1 >= 1
      OBVIOUS
    <3> QED BY <3>1, ReachGrows
  <2>4. \A k \in 1..m : h[k + 1] = h[k] + g[k]
    <3> TAKE k \in 1..m
    <3>1. k \in 1..(m + 1) /\ k + 1 \in 1..(m + 1)
      OBVIOUS
    <3>2. PICK q \in Nat : q = first + k - 1 /\ q >= 1 /\ q + 1 = first + (k + 1) - 1
      <4>1. first + k - 1 \in Nat /\ first + k - 1 >= 1 /\ (first + k - 1) + 1 = first + (k + 1) - 1
        OBVIOUS
      <4> QED BY <4>1
    <3>3. Reach(f, q + 1) = Reach(f, q) + WidthOf(f, q)
      BY <3>2, ReachGrows
    <3> QED BY <2>2, <2>3, <3>1, <3>2, <3>3
  <2> HIDE DEF g, h
  <2>5. m \in Nat /\ 1 \in 1..(m + 1) /\ m + 1 \in 1..(m + 1)
    OBVIOUS
  <2>6. h[1] + SumFunctionOnSet(g, 1..m) = h[m + 1]
    BY <2>2, <2>3, <2>4, <2>5, SumIs
  <2>7. first + 1 - 1 = first /\ first + (m + 1) - 1 = first + m
    OBVIOUS
  <2> QED BY <2>1, <2>3, <2>5, <2>6, <2>7
<1> QED BY <1>2, <1>4, <1>5 DEF Marked

-----------------------------------------------------------------------------
(***************************************************************************)
(* Where the words of a message stand.                                     *)
(***************************************************************************)

\* Sections: none for the fields of the header word, and otherwise as many as
\* the last field needs.
LEMMA SectionsReach ==
  ASSUME NEW n \in Nat
  PROVE  /\ Sections(n) \in Nat
         /\ Sections(n) = 0 => n <= HeadFields
         /\ \A s \in 0..(Sections(n) - 1) : SectionStart(s) \in 1..n
         /\ n < SectionStart(Sections(n))
<1>1. PICK H, F \in Nat : H = HeadFields /\ F = SectionFields /\ F \in Nat \ {0} /\ F > H
  BY LayoutAssumption
<1>2. PICK v \in Nat : v = n + F - H - 1
  BY <1>1
<1>3. PICK r, S \in Nat : S = v \div F /\ v = r + F * S /\ r <= F - 1
  <2>1. v = (v % F) + F * (v \div F) /\ v % F \in 0..(F - 1) /\ v \div F \in Nat
    BY ONLY <1>1, <1>2, Rejoins
  <2>2. v % F \in Nat /\ v % F <= F - 1
    BY ONLY <2>1, F \in Nat
  <2> QED BY ONLY <2>1, <2>2
<1>4. Sections(n) = S
  BY <1>1, <1>2, <1>3 DEF Sections
<1>5. S = 0 => n <= H
  BY <1>1, <1>2, <1>3
<1>6. ASSUME NEW s \in 0..(S - 1) PROVE SectionStart(s) \in 1..n
  <2>1. PICK e \in Nat : S = s + 1 + e
    <3>1. S - s - 1 \in Nat /\ S = s + 1 + (S - s - 1)
      OBVIOUS
    <3> QED BY <3>1
  <2>2. F * S = s * F + F + F * e /\ F * e \in Nat /\ s * F \in Nat
    BY <2>1
  <2> QED BY <1>1, <1>2, <1>3, <2>2 DEF SectionStart
<1>7. n < SectionStart(S)
  <2>1. S * F = F * S /\ F * S \in Nat
    OBVIOUS
  <2> QED BY <1>1, <1>2, <1>3, <2>1 DEF SectionStart
<1> QED BY <1>1, <1>4, <1>5, <1>6, <1>7

\* A section's mark is a number, and fits two words.
LEMMA MarkIs ==
  ASSUME NEW f, Narrow(f), NEW s \in 0..(Sections(Len(f)) - 1)
  PROVE  /\ SectionStart(s) \in Nat \ {0}
         /\ BodyBefore(f, SectionStart(s)) = Reach(f, SectionStart(s))
         /\ BodyBefore(f, SectionStart(s)) \in Nat
         /\ BodyBefore(f, SectionStart(s)) % CountRange \in Nat
         /\ SectionMark(f, s) \in Nat
         /\ SectionMark(f, s) % HalfRange \in Nat /\ SectionMark(f, s) \div HalfRange \in Nat
         /\ SectionMark(f, s)
              = (SectionMark(f, s) % HalfRange) + HalfRange * (SectionMark(f, s) \div HalfRange)
<1>1. Len(f) \in Nat /\ SectionStart(s) \in 1..Len(f)
  BY WidthsFit, SectionsReach
<1>2. SectionStart(s) \in Nat \ {0} /\ SectionStart(s) \in 1..(Len(f) + 1) /\ SectionStart(s) >= 1
  BY <1>1
<1>3. BodyBefore(f, SectionStart(s)) = Reach(f, SectionStart(s)) /\ Reach(f, SectionStart(s)) \in Nat
  BY <1>2, ReachGrows
<1>4. CountRange \in Nat \ {0} /\ HalfRange \in Nat \ {0} /\ SectionFields \in Nat
  BY LayoutAssumption
<1>5. PICK b \in Nat : b = BodyBefore(f, SectionStart(s))
  BY <1>3
<1>6. b % CountRange \in Nat
  BY <1>4, Rejoins
<1>7. SectionMark(f, s)
        = Marks(f, SectionStart(s), SectionFields) + Place[SectionFields] * (b % CountRange)
  BY <1>5 DEF SectionMark
<1>8. SectionMark(f, s) \in Nat
  <2>1. PICK t, c, a, m : /\ t = b % CountRange /\ c = SectionFields /\ a = SectionStart(s)
                          /\ m = SectionMark(f, s)
    OBVIOUS
  <2>2. t \in Nat /\ c \in Nat /\ a \in Nat \ {0} /\ m = Marks(f, a, c) + Place[c] * t
    BY <1>2, <1>4, <1>6, <1>7, <2>1
  <2>3. m \in Nat
    BY ONLY <2>2, Narrow(f), MarksRead DEF Marked
  <2> QED BY <2>1, <2>3
<1>9. PICK m \in Nat : m = SectionMark(f, s)
  BY <1>8
<1>10. m % HalfRange \in Nat /\ m \div HalfRange \in Nat /\ m = (m % HalfRange) + HalfRange * (m \div HalfRange)
  <2>1. m % HalfRange \in 0..(HalfRange - 1) /\ m \div HalfRange \in Nat /\ m = (m % HalfRange) + HalfRange * (m \div HalfRange)
    BY ONLY <1>4, m \in Nat, Rejoins
  <2> QED BY <1>4, <2>1
<1> QED BY <1>2, <1>3, <1>5, <1>6, <1>9, <1>10

\* The words of the sections, two for each.
LEMMA SectionsPlaced ==
  ASSUME NEW f, Narrow(f)
  PROVE  /\ SectionWords(f) \in Seq(Nat)
         /\ Len(SectionWords(f)) = 2 * Sections(Len(f))
         /\ \A s \in 0..(Sections(Len(f)) - 1) :
              /\ SectionWords(f)[2 * s + 1] = SectionMark(f, s) % HalfRange
              /\ SectionWords(f)[2 * s + 2] = SectionMark(f, s) \div HalfRange
<1>1. PICK S \in Nat : S = Sections(Len(f))
  BY WidthsFit, SectionsReach
<1> DEFINE part(i) == <<SectionMark(f, i - 1) % HalfRange, SectionMark(f, i - 1) \div HalfRange>>
           ss == [i \in 1..S |-> part(i)]
           start == [i \in 1..(S + 1) |-> 2 * (i - 1)]
<1>2. \A i \in 1..S : /\ part(i) \in Seq(Nat) /\ Len(part(i)) = 2
                      /\ part(i)[1] = SectionMark(f, i - 1) % HalfRange
                      /\ part(i)[2] = SectionMark(f, i - 1) \div HalfRange
  <2> TAKE i \in 1..S
  <2>1. i - 1 \in 0..(S - 1)
    OBVIOUS
  <2>2. SectionMark(f, i - 1) % HalfRange \in Nat /\ SectionMark(f, i - 1) \div HalfRange \in Nat
    BY <1>1, <2>1, MarkIs
  <2> QED BY <2>2
<1>3. SectionWords(f) = FlattenSeq(ss)
  BY <1>1 DEF SectionWords
<1> HIDE DEF part
<1>4. ss \in Seq(Seq(Nat)) /\ Len(ss) = S /\ \A i \in 1..S : ss[i] = part(i)
  <2>1. \A i \in 1..S : part(i) \in Seq(Nat)
    BY <1>2
  <2> QED BY <2>1
<1>5. Starts(start, ss)
  <2>1. start \in [1..(S + 1) -> Nat] /\ start[1] = 0
    OBVIOUS
  <2>2. \A k \in 1..S : start[k + 1] = start[k] + 2
    OBVIOUS
  <2> HIDE DEF start, ss
  <2> QED BY <1>2, <1>4, <2>1, <2>2 DEF Starts
<1>6. \A k \in 1..(S + 1) : start[k] = 2 * (k - 1)
  OBVIOUS
<1> HIDE DEF start, ss
<1>7. FlattenSeq(ss) \in Seq(Nat) /\ Joined(FlattenSeq(ss), start, ss)
  BY <1>4, <1>5, FlattenPlaces
<1>8. PICK w \in Seq(Nat) : w = SectionWords(f) /\ Joined(w, start, ss)
  BY <1>3, <1>7
<1>9. Len(w) = 2 * S
  <2>1. S + 1 \in 1..(S + 1) /\ (S + 1) - 1 = S
    OBVIOUS
  <2> QED BY <1>4, <1>6, <1>8, <2>1 DEF Joined
<1>10. ASSUME NEW s \in 0..(S - 1)
       PROVE  /\ w[2 * s + 1] = SectionMark(f, s) % HalfRange
              /\ w[2 * s + 2] = SectionMark(f, s) \div HalfRange
  <2>1. PICK k \in 1..S : k = s + 1 /\ k - 1 = s /\ k \in 1..(S + 1)
    <3>1. s + 1 \in 1..S /\ (s + 1) - 1 = s /\ s + 1 \in 1..(S + 1)
      OBVIOUS
    <3> QED BY <3>1
  <2>2. \A j \in 1..2 : w[start[k] + j] = ss[k][j]
    BY <1>2, <1>4, <1>8 DEF Joined
  <2>3. 1 \in 1..2 /\ 2 \in 1..2
    OBVIOUS
  <2>4. start[k] = 2 * s
    BY <1>6, <2>1
  <2>5. w[2 * s + 1] = part(k)[1] /\ w[2 * s + 2] = part(k)[2]
    BY <1>4, <2>2, <2>3, <2>4
  <2> QED BY <1>2, <2>1, <2>5
<1> QED BY <1>1, <1>8, <1>9, <1>10

\* The segments among the fields lie in the words already written.
Behind(f, before) == \A k \in 1..Len(f) : IsSegment(f[k]) => f[k].pos <= before

\* Body words before a field are among all body words.
LEMMA ReachWithin ==
  ASSUME NEW f, Narrow(f)
  PROVE  /\ BodySize(f) \in Nat
         /\ \A k \in 1..Len(f) : Reach(f, k) + FieldWidth(f[k]) <= BodySize(f)
<1>1. PICK n \in Nat : n = Len(f)
  BY WidthsFit
<1> DEFINE g == [k \in 1..(n + 1) |-> Reach(f, k)]
<1>2. \A k \in 1..(n + 1) : g[k] = Reach(f, k) /\ g[k] \in Nat
  <2> TAKE k \in 1..(n + 1)
  <2>1. k \in Nat /\ k >= 1
    OBVIOUS
  <2> QED BY <2>1, ReachGrows
<1>3. \A k \in 1..n : g[k + 1] = g[k] + FieldWidth(f[k]) /\ FieldWidth(f[k]) \in 0..3
  <2> TAKE k \in 1..n
  <2>1. k \in Nat /\ k >= 1 /\ k <= n /\ k \in 1..(n + 1) /\ k + 1 \in 1..(n + 1)
    OBVIOUS
  <2>2. Reach(f, k + 1) = Reach(f, k) + WidthOf(f, k) /\ WidthOf(f, k) = FieldWidth(f[k])
    BY <1>1, <2>1, ReachGrows DEF WidthOf
  <2> QED BY <1>1, <1>2, <2>1, <2>2, WidthsFit
<1>4. g \in [1..(n + 1) -> Nat] /\ \A k \in 1..n : g[k] <= g[k + 1]
  <2>1. \A k \in 1..n : k \in 1..(n + 1)
    OBVIOUS
  <2>2. \A k \in 1..n : g[k] <= g[k + 1]
    BY <1>2, <1>3, <2>1, SMTT(30)
  <2>3. g \in [1..(n + 1) -> Nat]
    BY <1>2
  <2> QED BY <2>2, <2>3
<1> HIDE DEF g
<1>5. \A i \in 1..(n + 1) : \A k \in 1..i : g[k] <= g[i]
  BY <1>4, Nondecreasing
<1>6. n + 1 \in 1..(n + 1) /\ \A k \in 1..n : k + 1 \in 1..(n + 1) /\ k \in 1..(n + 1)
  OBVIOUS
<1>7. g[n + 1] = BodySize(f)
  BY <1>1, <1>2, <1>6, ReachGrows
<1>8. \A k \in 1..n : g[k + 1] <= BodySize(f)
  BY <1>5, <1>6, <1>7
<1>9. BodySize(f) \in Nat
  BY <1>2, <1>6, <1>7
<1> QED BY <1>1, <1>2, <1>3, <1>6, <1>8, <1>9

\* A field has as many body words as its width says.
LEMMA FieldBodyIs ==
  ASSUME NEW f, Narrow(f), NEW before \in Nat, Behind(f, before), NEW k \in 1..Len(f)
  PROVE  /\ FieldBody(f, k, before + BodySize(f)) \in Seq(Nat)
         /\ Len(FieldBody(f, k, before + BodySize(f))) = FieldWidth(f[k])
<1>1. PICK i \in Seq(Nat), p, l \in Nat : i = f[k].inline /\ p = f[k].pos /\ l = f[k].len
  <2>1. f[k] \in UnitType
    BY DEF Narrow
  <2> QED BY <2>1 DEF UnitType
<1>2. k \in Nat /\ k >= 1 /\ k \in 1..(Len(f) + 1)
  BY WidthsFit
<1>3. PICK b, w, size \in Nat : /\ b = BodyBefore(f, k) /\ w = FieldWidth(f[k]) /\ size = BodySize(f)
                                /\ b + w <= size
  <2>1. BodyBefore(f, k) = Reach(f, k) /\ Reach(f, k) \in Nat
    BY <1>2, ReachGrows
  <2>2. FieldWidth(f[k]) \in Nat
    BY WidthsFit
  <2> QED BY <2>1, <2>2, ReachWithin
<1>4. CASE i # <<>>
  BY <1>1, <1>4 DEF FieldBody, FieldWidth
<1>5. CASE i = <<>> /\ l = 0
  BY <1>1, <1>5 DEF FieldBody, FieldWidth
<1>6. CASE i = <<>> /\ l # 0
  <2>1. p <= before
    BY <1>1, <1>6 DEF Behind, IsSegment
  <2>2. (before + size) - b - p \in Nat
    BY <1>3, <2>1, SMTT(30)
  <2>3. Offset((before + size) - b - p) \in Nat
    BY <2>2 DEF Offset
  <2>4. FieldBody(f, k, before + BodySize(f)) = <<Offset((before + size) - b - p)>>
    BY <1>1, <1>3, <1>6 DEF FieldBody
  <2>5. FieldWidth(f[k]) = 1
    BY <1>1, <1>6 DEF FieldWidth
  <2>6. PICK o \in Nat : o = Offset((before + size) - b - p)
    BY <2>3
  <2>7. <<o>> \in Seq(Nat) /\ Len(<<o>>) = 1
    OBVIOUS
  <2> QED BY <2>4, <2>5, <2>6, <2>7
<1> QED BY <1>4, <1>5, <1>6

\* The body words of each field stand behind those of the fields before it.
LEMMA BodyPlaced ==
  ASSUME NEW f, Narrow(f), NEW before \in Nat, Behind(f, before)
  PROVE  /\ Body(f, before + BodySize(f)) \in Seq(Nat)
         /\ Len(Body(f, before + BodySize(f))) = BodySize(f)
         /\ \A k \in 1..Len(f) : \A j \in 1..FieldWidth(f[k]) :
              Body(f, before + BodySize(f))[Reach(f, k) + j] = FieldBody(f, k, before + BodySize(f))[j]
<1>1. PICK n \in Nat : n = Len(f)
  BY WidthsFit
<1> DEFINE part(k) == FieldBody(f, k, before + BodySize(f))
           ss == [k \in 1..n |-> part(k)]
           start == [k \in 1..(n + 1) |-> Reach(f, k)]
<1>2. \A k \in 1..n : part(k) \in Seq(Nat) /\ Len(part(k)) = FieldWidth(f[k])
  BY <1>1, FieldBodyIs
<1>3. Body(f, before + BodySize(f)) = FlattenSeq(ss)
  BY <1>1 DEF Body
<1> HIDE DEF part
<1>4. ss \in Seq(Seq(Nat)) /\ Len(ss) = n /\ \A k \in 1..n : ss[k] = part(k)
  BY <1>2
<1>5. \A k \in 1..(n + 1) : start[k] = Reach(f, k) /\ start[k] \in Nat
  <2> TAKE k \in 1..(n + 1)
  <2>1. k \in Nat /\ k >= 1
    OBVIOUS
  <2> QED BY <2>1, ReachGrows
<1>6. Starts(start, ss)
  <2>1. start \in [1..(n + 1) -> Nat]
    BY <1>5
  <2>2. 1 \in 1..(n + 1) /\ \A k \in 1..n : k \in Nat /\ k >= 1 /\ k <= n /\ k \in 1..(n + 1) /\ k + 1 \in 1..(n + 1)
    OBVIOUS
  <2>3. \A k \in 1..n : WidthOf(f, k) = Len(ss[k])
    BY <1>1, <1>2, <1>4, <2>2 DEF WidthOf
  <2> HIDE DEF start, ss
  <2>4. start[1] = 0
    BY <1>5, <2>2, ReachGrows
  <2>5. \A k \in 1..n : start[k + 1] = start[k] + Len(ss[k])
    BY <1>5, <2>2, <2>3, ReachGrows, ZenonT(30)
  <2> QED BY <1>4, <2>1, <2>4, <2>5 DEF Starts
<1> HIDE DEF start, ss
<1>7. FlattenSeq(ss) \in Seq(Nat) /\ Joined(FlattenSeq(ss), start, ss)
  BY <1>4, <1>6, FlattenPlaces
<1>8. PICK w \in Seq(Nat) : w = Body(f, before + BodySize(f)) /\ Joined(w, start, ss)
  BY <1>3, <1>7
<1>9. Len(w) = BodySize(f)
  <2>1. n + 1 \in 1..(n + 1)
    OBVIOUS
  <2> QED BY <1>1, <1>4, <1>5, <1>8, <2>1, ReachGrows DEF Joined
<1>10. \A k \in 1..n : \A j \in 1..FieldWidth(f[k]) : w[Reach(f, k) + j] = part(k)[j]
  <2> TAKE k \in 1..n
  <2>1. k \in 1..(n + 1)
    OBVIOUS
  <2>2. \A j \in 1..Len(ss[k]) : w[start[k] + j] = ss[k][j]
    BY <1>4, <1>8 DEF Joined
  <2> QED BY <1>2, <1>4, <1>5, <2>1, <2>2
<1> QED BY <1>1, <1>8, <1>9, <1>10 DEF part

\* Words that begin with the block of a message's fields.
BlockIn(words, f, before) ==
  /\ words[1] = HeadWord(f)
  /\ \A s \in 0..(Sections(Len(f)) - 1) :
       /\ words[2 * s + 2] = SectionMark(f, s) % HalfRange
       /\ words[2 * s + 3] = SectionMark(f, s) \div HalfRange
  /\ \A k \in 1..Len(f) : \A j \in 1..FieldWidth(f[k]) :
       words[(1 + 2 * Sections(Len(f)) + Reach(f, k)) + j] = FieldBody(f, k, before + BodySize(f))[j]

\* Words of the block.
BlockLength(f) == 1 + 2 * Sections(Len(f)) + BodySize(f)

\* The header word is a number that holds the sections and the widths.
LEMMA HeadIs ==
  ASSUME NEW f, Narrow(f), Sections(Len(f)) < SectionRange
  PROVE  /\ HeadWord(f) \in Nat
         /\ HeadWord(f) % SectionRange = Sections(Len(f))
         /\ \A i \in 1..HeadFields : WordAt(HeadWord(f) \div SectionRange, i - 1) = WidthOf(f, i)
         /\ \A m \in 0..HeadFields : CountMarks(HeadWord(f) \div SectionRange, m) = Reach(f, m + 1)
<1>1. PICK S, H \in Nat : S = Sections(Len(f)) /\ H = HeadFields
  BY WidthsFit, SectionsReach, LayoutAssumption
<1>2. PICK R \in Nat \ {0} : R = SectionRange /\ S \in 0..(R - 1)
  BY <1>1, LayoutAssumption
<1>3. PICK v : v = Marks(f, 1, H) + Place[H] * 0
  OBVIOUS
<1>4. /\ v \in Nat
      /\ \A i \in 1..H : WordAt(v, i - 1) = WidthOf(f, 1 + i - 1)
      /\ \A m \in 0..H : Reach(f, 1) + CountMarks(v, m) = Reach(f, 1 + m)
  <2>1. 1 \in Nat \ {0} /\ 0 \in Nat
    OBVIOUS
  <2>2. Marked(f, 1, H, 0, v)
    BY <1>3, <2>1, MarksRead
  <2> QED BY <2>2 DEF Marked
<1>5. v = Marks(f, 1, H)
  <2>1. PICK P \in Nat : P = Place[H]
    BY Places
  <2>2. PICK m : m = Marks(f, 1, H)
    OBVIOUS
  <2>3. Marks(f, 1, H) \in Nat
    <3> DEFINE d == [i \in 1..H |-> WidthOf(f, 1 + i - 1)]
    <3>1. d \in [1..H -> 0..3]
      <4>1. \A i \in 1..H : 1 + i - 1 \in Nat /\ 1 + i - 1 >= 1
        OBVIOUS
      <4> QED BY <4>1, WidthsFit
    <3>2. Marks(f, 1, H) = Digits(d, H)
      BY DEF Marks, Digits, SumFunction
    <3> HIDE DEF d
    <3>3. H \in 0..H /\ Digits(d, H) \in 0..(Place[H] - 1)
      BY <3>1, DigitsGrow
    <3> QED BY <2>1, <3>2, <3>3
  <2> QED BY <1>3, <2>1, <2>3
<1>6. HeadWord(f) = S + R * v
  BY <1>1, <1>2, <1>5 DEF HeadWord
<1>7. PICK w : w = HeadWord(f)
  OBVIOUS
<1>8. w \in Nat /\ w \div R = v /\ w % R = S
  <2>1. w = S + R * v /\ v \in Nat
    BY <1>4, <1>6, <1>7
  <2>2. R \in Nat \ {0} /\ S \in 0..(R - 1)
    BY <1>2
  <2> QED BY ONLY <2>1, <2>2, Divides
<1>9. \A i \in 1..H : WordAt(v, i - 1) = WidthOf(f, i)
  <2>1. \A i \in 1..H : 1 + i - 1 = i
    OBVIOUS
  <2> QED BY <1>4, <2>1
<1>10. \A m \in 0..H : CountMarks(v, m) = Reach(f, m + 1)
  <2> TAKE m \in 0..H
  <2> DEFINE g == [i \in 1..m |-> WordAt(v, i - 1)]
  <2>0. CountMarks(v, m) \in Nat
    <3>1. \A i \in 1..m : g[i] \in Nat
      <4> TAKE i \in 1..m
      <4>1. i \in 1..H /\ i \in Nat /\ i >= 1
        OBVIOUS
      <4>2. g[i] = WidthOf(f, i) /\ WidthOf(f, i) \in 0..3
        BY <1>9, <4>1, WidthsFit
      <4> QED BY <4>2
    <3>2. CountMarks(v, m) = SumFunctionOnSet(g, 1..m)
      BY DEF CountMarks, SumFunction
    <3> HIDE DEF g
    <3>3. m \in Nat
      OBVIOUS
    <3> QED BY <3>1, <3>2, <3>3, SumWithout, ZenonT(30)
  <2>1. Reach(f, 1) = 0 /\ 1 + m = m + 1
    BY ReachGrows
  <2> QED BY <1>4, <2>0, <2>1
<1> QED BY <1>1, <1>2, <1>7, <1>8, <1>9, <1>10

\* w is a sequence of n words before one of m words.
Joins(w, a, b, n, m) ==
  /\ w \in Seq(Nat) /\ Len(w) = n + m
  /\ \A p \in 1..n : w[p] = a[p]
  /\ \A p \in 1..m : w[n + p] = b[p]

\* A concatenation of sequences whose lengths are known.
LEMMA Concatenation ==
  ASSUME NEW a \in Seq(Nat), NEW b \in Seq(Nat), NEW n, NEW m, Len(a) = n, Len(b) = m
  PROVE  Joins(a \o b, a, b, n, m)
<1>1. /\ a \o b \in Seq(Nat)
      /\ Len(a \o b) = Len(a) + Len(b)
      /\ \A p \in 1..Len(a) : (a \o b)[p] = a[p]
      /\ \A p \in 1..Len(b) : (a \o b)[Len(a) + p] = b[p]
  BY ONLY a \in Seq(Nat), b \in Seq(Nat), ConcatPlaces
<1>2. PICK w : w = a \o b
  OBVIOUS
<1>3. w \in Seq(Nat) /\ Len(w) = n + m
  BY <1>1, <1>2
<1>4. \A p \in 1..n : w[p] = a[p]
  BY <1>1, <1>2
<1>5. \A p \in 1..m : w[n + p] = b[p]
  BY <1>1, <1>2
<1> QED BY ONLY <1>2, <1>3, <1>4, <1>5 DEF Joins

\* Where the words of the block stand, in it and in whatever begins with it.
LEMMA BlockPlaced ==
  ASSUME NEW f, Narrow(f), NEW before \in Nat, Behind(f, before), Sections(Len(f)) < SectionRange
  PROVE  /\ Block(f, before) \in Seq(Nat)
         /\ Len(Block(f, before)) = BlockLength(f)
         /\ BlockLength(f) \in Nat
         /\ \A words : Continues(words, Block(f, before)) => BlockIn(words, f, before)
<1>1. PICK S, n, size \in Nat : S = Sections(Len(f)) /\ n = Len(f) /\ size = BodySize(f)
  BY WidthsFit, SectionsReach, ReachWithin
<1>2. PICK h \in Nat : h = HeadWord(f)
  BY HeadIs
<1>3. PICK a \in Seq(Nat) : /\ a = SectionWords(f) /\ Len(a) = 2 * S
                            /\ \A s \in 0..(S - 1) : /\ a[2 * s + 1] = SectionMark(f, s) % HalfRange
                                                     /\ a[2 * s + 2] = SectionMark(f, s) \div HalfRange
  BY <1>1, SectionsPlaced
<1>4. PICK b \in Seq(Nat) : /\ b = Body(f, before + BodySize(f)) /\ Len(b) = size
                            /\ \A k \in 1..n : \A j \in 1..FieldWidth(f[k]) :
                                 b[Reach(f, k) + j] = FieldBody(f, k, before + BodySize(f))[j]
  BY <1>1, BodyPlaced
<1>5. PICK front \in Seq(Nat) : /\ front = <<h>> \o a /\ Len(front) = 1 + 2 * S
                                /\ front[1] = h
                                /\ \A p \in 1..2 * S : front[1 + p] = a[p]
  <2>1. <<h>> \in Seq(Nat) /\ Len(<<h>>) = 1 /\ <<h>>[1] = h /\ 2 * S \in Nat /\ 1 \in Nat
    OBVIOUS
  <2>2. \E w \in Seq(Nat) : /\ w = <<h>> \o a /\ Len(w) = 1 + 2 * S
                            /\ \A p \in 1..1 : w[p] = <<h>>[p]
                            /\ \A p \in 1..2 * S : w[1 + p] = a[p]
    <3>1. PICK one, m : one = <<h>> /\ m = 2 * S
      OBVIOUS
    <3>2. one \in Seq(Nat) /\ a \in Seq(Nat) /\ m \in Nat /\ Len(one) = 1 /\ Len(a) = m /\ 1 \in Nat
      BY <1>3, <2>1, <3>1
    <3>3. PICK w : w = one \o a
      OBVIOUS
    <3>4. Joins(w, one, a, 1, m)
      BY ONLY <3>2, <3>3, Concatenation
    <3> QED BY <3>1, <3>3, <3>4 DEF Joins
  <2>3. 1 \in 1..1
    OBVIOUS
  <2> QED BY <2>1, <2>2, <2>3
<1>6. PICK w \in Seq(Nat) : /\ w = front \o b /\ Len(w) = (1 + 2 * S) + size
                            /\ \A p \in 1..(1 + 2 * S) : w[p] = front[p]
                            /\ \A p \in 1..size : w[(1 + 2 * S) + p] = b[p]
  <2>1. PICK l : l = 1 + 2 * S
    OBVIOUS
  <2>2. front \in Seq(Nat) /\ b \in Seq(Nat) /\ l \in Nat /\ size \in Nat /\ Len(front) = l /\ Len(b) = size
    BY <1>4, <1>5, <2>1
  <2>3. PICK x : x = front \o b
    OBVIOUS
  <2>4. Joins(x, front, b, l, size)
    BY ONLY <2>2, <2>3, Concatenation
  <2> QED BY <2>1, <2>3, <2>4 DEF Joins
<1>7. w = Block(f, before)
  BY <1>2, <1>3, <1>4, <1>5, <1>6 DEF Block
<1>8. BlockLength(f) = (1 + 2 * S) + size
  BY <1>1 DEF BlockLength
<1>9. ASSUME NEW words, Continues(words, w) PROVE BlockIn(words, f, before)
  <2>1. \A p \in 1..((1 + 2 * S) + size) : words[p] = w[p]
    BY <1>6, <1>9 DEF Continues
  <2>2. \A p \in 1..(1 + 2 * S) : words[p] = front[p]
    <3> TAKE p \in 1..(1 + 2 * S)
    <3>1. p \in 1..((1 + 2 * S) + size)
      OBVIOUS
    <3> QED BY <1>6, <2>1, <3>1
  <2>3. words[1] = HeadWord(f)
    <3>1. 1 \in 1..(1 + 2 * S)
      OBVIOUS
    <3> QED BY <1>2, <1>5, <2>2, <3>1
  <2>4. ASSUME NEW s \in 0..(S - 1)
        PROVE  /\ words[2 * s + 2] = SectionMark(f, s) % HalfRange
               /\ words[2 * s + 3] = SectionMark(f, s) \div HalfRange
    <3>1. /\ 2 * s + 1 \in 1..2 * S /\ 2 * s + 2 \in 1..2 * S
          /\ 1 + (2 * s + 1) = 2 * s + 2 /\ 1 + (2 * s + 2) = 2 * s + 3
          /\ 2 * s + 2 \in 1..(1 + 2 * S) /\ 2 * s + 3 \in 1..(1 + 2 * S)
      OBVIOUS
    <3>2. front[2 * s + 2] = a[2 * s + 1] /\ front[2 * s + 3] = a[2 * s + 2]
      BY <1>5, <3>1
    <3> QED BY <1>3, <2>2, <3>1, <3>2
  <2>5. ASSUME NEW k \in 1..n, NEW j \in 1..FieldWidth(f[k])
        PROVE  words[(1 + 2 * S + Reach(f, k)) + j] = FieldBody(f, k, before + BodySize(f))[j]
    <3>1. PICK r, c \in Nat : r = Reach(f, k) /\ c = FieldWidth(f[k]) /\ r + c <= size
      <4>1. k \in Nat /\ k >= 1
        OBVIOUS
      <4>2. Reach(f, k) \in Nat
        BY <4>1, ReachGrows
      <4>3. FieldWidth(f[k]) \in 0..3
        BY <1>1, WidthsFit
      <4>4. Reach(f, k) + FieldWidth(f[k]) <= size
        BY <1>1, ReachWithin
      <4> QED BY <4>2, <4>3, <4>4
    <3>2. j \in Nat /\ r + j \in 1..size
      <4>1. j \in 1..c
        BY <3>1
      <4> QED BY ONLY <3>1, <4>1, r \in Nat, c \in Nat, size \in Nat, SMTT(30)
    <3>3. w[(1 + 2 * S) + (r + j)] = b[r + j]
      BY <1>6, <3>2
    <3>4. (1 + 2 * S + r) + j = (1 + 2 * S) + (r + j) /\ (1 + 2 * S) + (r + j) \in 1..((1 + 2 * S) + size)
      BY <3>2
    <3> QED BY <1>4, <2>1, <3>1, <3>3, <3>4
  <2> QED BY <1>1, <2>3, <2>4, <2>5 DEF BlockIn
<1> QED BY <1>6, <1>7, <1>8, <1>9

\* The words before each section's fields fit its count.
CountsSuffice(f) ==
  \A s \in 0..(Sections(Len(f)) - 1) : BodyBefore(f, SectionStart(s)) < CountRange

\* The mark of a section, as it is read back.
LEMMA SectionReads ==
  ASSUME NEW f, Narrow(f), NEW before, NEW words, BlockIn(words, f, before), CountsSuffice(f),
         NEW s \in 0..(Sections(Len(f)) - 1)
  PROVE  /\ ReadMark(words, s) \div Place[SectionFields] = Reach(f, SectionStart(s))
         /\ \A i \in 1..SectionFields :
              WordAt(ReadMark(words, s), i - 1) = WidthOf(f, SectionStart(s) + i - 1)
         /\ \A m \in 0..SectionFields :
              Reach(f, SectionStart(s)) + CountMarks(ReadMark(words, s), m) = Reach(f, SectionStart(s) + m)
<1>1. ReadMark(words, s) = SectionMark(f, s)
  <2>1. /\ words[2 * s + 2] = SectionMark(f, s) % HalfRange
        /\ words[2 * s + 3] = SectionMark(f, s) \div HalfRange
    BY DEF BlockIn
  <2> QED BY <2>1, MarkIs DEF ReadMark
<1>2. PICK a, c, t, v : /\ a = SectionStart(s) /\ c = SectionFields /\ v = SectionMark(f, s)
                        /\ t = BodyBefore(f, SectionStart(s))
  OBVIOUS
<1>3. a \in Nat \ {0} /\ t \in Nat /\ t = Reach(f, a) /\ t < CountRange
  BY <1>2, MarkIs DEF CountsSuffice
<1>4. t % CountRange = t
  <2>1. PICK R \in Nat \ {0} : R = CountRange
    BY LayoutAssumption
  <2>2. PICK q, u : q = 0 /\ u = t
    OBVIOUS
  <2>3. R \in Nat \ {0} /\ q \in Nat /\ t \in 0..(R - 1) /\ u = t + R * q
    BY <1>3, <2>1, <2>2
  <2>4. u % R = t
    BY ONLY <2>3, Divides
  <2> QED BY <2>1, <2>2, <2>4
<1>5. v = Marks(f, a, c) + Place[c] * t /\ c \in Nat
  BY <1>2, <1>4, LayoutAssumption DEF SectionMark
<1>6. /\ v \div Place[c] = t
      /\ \A i \in 1..c : WordAt(v, i - 1) = WidthOf(f, a + i - 1)
      /\ \A m \in 0..c : Reach(f, a) + CountMarks(v, m) = Reach(f, a + m)
  <2>1. a \in Nat \ {0} /\ c \in Nat /\ t \in Nat /\ v = Marks(f, a, c) + Place[c] * t
    BY <1>3, <1>5
  <2>2. Marked(f, a, c, t, v)
    BY <2>1, MarksRead
  <2> QED BY <2>2 DEF Marked
<1> QED BY <1>1, <1>2, <1>3, <1>6

\* Every field beyond the header word's is one of a section.
LEMMA FieldAt ==
  ASSUME NEW k \in Nat, k > HeadFields
  PROVE  \E s, i \in Nat : /\ s = (k - 1 - HeadFields) \div SectionFields
                           /\ i = (k - 1 - HeadFields) % SectionFields
                           /\ i \in 0..(SectionFields - 1)
                           /\ k = SectionStart(s) + i
<1>1. PICK H, F \in Nat : H = HeadFields /\ F = SectionFields /\ F \in Nat \ {0}
  BY LayoutAssumption
<1>2. PICK v \in Nat : v = k - 1 - H
  BY <1>1
<1>3. v = (v % F) + F * (v \div F) /\ v % F \in 0..(F - 1) /\ v \div F \in Nat
  BY ONLY <1>1, <1>2, Rejoins
<1>4. PICK s, i \in Nat : s = v \div F /\ i = v % F
  BY <1>3
<1>5. F * s = s * F /\ s * F \in Nat
  OBVIOUS
<1>6. k = SectionStart(s) + i
  BY <1>1, <1>2, <1>3, <1>4, <1>5 DEF SectionStart
<1> QED BY <1>1, <1>2, <1>3, <1>4, <1>6

\* What a reader takes from a message's first words: its sections, each field's
\* width and the body words before it.
FieldSeen(words, f, k) ==
  /\ FieldIn(words, k).width = WidthOf(f, k)
  /\ k <= Len(f) => FieldIn(words, k).off = Reach(f, k)

\* The header word is the one whose parts HeadIs names.
LEMMA SectionsRead ==
  ASSUME NEW f, Narrow(f), Sections(Len(f)) < SectionRange,
         NEW before, NEW words, BlockIn(words, f, before)
  PROVE  /\ ReadSections(words) = Sections(Len(f))
         /\ ReadHead(words) = HeadWord(f) \div SectionRange
         /\ BodyOffset(words) = 1 + 2 * Sections(Len(f))
<1>1. words[1] = HeadWord(f) /\ HeadWord(f) % SectionRange = Sections(Len(f))
  BY HeadIs DEF BlockIn
<1> QED BY <1>1 DEF ReadSections, ReadHead, BodyOffset

\* field_in finds every field, in the header word or in its section, and none
\* that is beyond the last one (access.rs, MessageView::field_in).
LEMMA FieldInIs ==
  ASSUME NEW f, Narrow(f), Sections(Len(f)) < SectionRange,
         NEW before, NEW words, BlockIn(words, f, before), CountsSuffice(f),
         NEW k \in Nat, k >= 1
  PROVE  FieldSeen(words, f, k)
<1>1. PICK H, F, n, S \in Nat : /\ H = HeadFields /\ F = SectionFields /\ n = Len(f)
                                /\ S = Sections(Len(f))
  BY WidthsFit, SectionsReach, LayoutAssumption
<1>2. CASE k <= HeadFields
  <2>1. PICK m : m = k - 1 /\ m \in 0..H /\ m + 1 = k /\ k \in 1..H
    <3>1. k - 1 \in 0..H /\ (k - 1) + 1 = k /\ k \in 1..H
      BY <1>1, <1>2
    <3> QED BY <3>1
  <2>2. PICK v : v = ReadHead(words) /\ v = HeadWord(f) \div SectionRange
    BY SectionsRead
  <2>3. WordAt(v, m) = WidthOf(f, k) /\ CountMarks(v, m) = Reach(f, k)
    BY <1>1, <2>1, <2>2, HeadIs
  <2>4. FieldIn(words, k) = MarkAt(v, m, 0)
    BY <1>2, <2>1, <2>2 DEF FieldIn
  <2>5. Reach(f, k) \in Nat
    BY ReachGrows
  <2> QED BY <2>3, <2>4, <2>5 DEF MarkAt, FieldSeen
<1>3. CASE ~(k <= HeadFields)
  <2>1. PICK s, i \in Nat : /\ s = (k - 1 - HeadFields) \div SectionFields
                            /\ i = (k - 1 - HeadFields) % SectionFields
                            /\ i \in 0..(F - 1) /\ k = SectionStart(s) + i
    <3>1. k > HeadFields
      BY <1>1, <1>3
    <3> QED BY <1>1, <3>1, FieldAt
  <2>2. ReadSections(words) = S
    BY <1>1, SectionsRead
  <2>3. CASE s >= S
    <3>1. FieldIn(words, k) = [width |-> 0, off |-> 0]
      BY <1>3, <2>1, <2>2, <2>3 DEF FieldIn
    <3>2. n < SectionStart(S)
      BY <1>1, SectionsReach
    <3>3. SectionStart(S) <= SectionStart(s)
      <4>1. PICK e \in Nat : s = S + e
        <5>1. s - S \in Nat /\ s = S + (s - S)
          BY <2>3
        <5> QED BY <5>1
      <4>2. s * F = S * F + e * F /\ e * F \in Nat /\ S * F \in Nat
        BY <4>1
      <4> QED BY <1>1, <4>2 DEF SectionStart
    <3>4. SectionStart(S) \in Nat /\ SectionStart(s) \in Nat
      <4>1. S * F \in Nat /\ s * F \in Nat
        OBVIOUS
      <4> QED BY <1>1, <4>1 DEF SectionStart
    <3>5. ~(k <= n)
      <4>1. PICK x, y \in Nat : x = SectionStart(S) /\ y = SectionStart(s)
        BY <3>4
      <4>2. n < x /\ x <= y /\ k = y + i
        BY <2>1, <3>2, <3>3, <4>1
      <4> QED BY ONLY <4>2, n \in Nat, i \in Nat, x \in Nat, y \in Nat, k \in Nat
    <3> QED BY <1>1, <3>1, <3>5 DEF FieldSeen, WidthOf
  <2>4. CASE ~(s >= S)
    <3>1. s \in 0..(S - 1)
      BY <2>4
    <3>2. PICK v, a : v = ReadMark(words, s) /\ a = SectionStart(s)
      OBVIOUS
    <3>3. /\ v \div Place[F] = Reach(f, a)
          /\ \A j \in 1..F : WordAt(v, j - 1) = WidthOf(f, a + j - 1)
          /\ \A m \in 0..F : Reach(f, a) + CountMarks(v, m) = Reach(f, a + m)
      BY <1>1, <3>1, <3>2, SectionReads
    <3>4. a \in Nat
      BY <1>1, <3>1, <3>2, MarkIs
    <3>5. PICK j : j = i + 1 /\ j \in 1..F /\ j - 1 = i /\ a + j - 1 = k /\ i \in 0..F
      <4>1. i \in 0..(F - 1) /\ a + i = k
        BY <2>1, <3>2
      <4>2. i + 1 \in 1..F /\ (i + 1) - 1 = i /\ a + (i + 1) - 1 = k /\ i \in 0..F
        BY ONLY <3>4, <4>1, i \in Nat, F \in Nat, k \in Nat
      <4> QED BY <4>2
    <3>6. WordAt(v, i) = WidthOf(f, k) /\ Reach(f, a) + CountMarks(v, i) = Reach(f, k)
      BY <2>1, <3>2, <3>3, <3>5
    <3>7. FieldIn(words, k) = SectionAt(v, i)
      BY <1>3, <2>1, <2>2, <2>4, <3>2 DEF FieldIn
    <3> QED BY <1>1, <3>3, <3>6, <3>7 DEF SectionAt, MarkAt, FieldSeen
  <2> QED BY <2>3, <2>4
<1> QED BY <1>2, <1>3

\* detect_len finds the end of the body (access.rs, MessageView::detect_len).
LEMMA DetectLenIs ==
  ASSUME NEW f, Narrow(f), Sections(Len(f)) < SectionRange,
         NEW before, NEW words, BlockIn(words, f, before), CountsSuffice(f)
  PROVE  DetectLen(words) = BlockLength(f)
<1>1. PICK H, F, n, S, size \in Nat : /\ H = HeadFields /\ F = SectionFields /\ n = Len(f)
                                      /\ S = Sections(Len(f)) /\ size = BodySize(f)
  BY WidthsFit, SectionsReach, LayoutAssumption, ReachWithin
<1>2. ReadSections(words) = S /\ BodyOffset(words) = 1 + 2 * S
      /\ ReadHead(words) = HeadWord(f) \div SectionRange
  BY <1>1, SectionsRead
<1>3. ASSUME NEW k \in Nat, k > n PROVE Reach(f, k) = size
  <2>1. ~(k <= n)
    BY <1>3
  <2> QED BY <1>1, <2>1 DEF Reach, BodySize
<1>4. CASE S = 0
  <2>1. n <= H
    BY <1>1, <1>4, SectionsReach
  <2>2. H \in 0..H /\ H + 1 \in Nat /\ H + 1 > n
    BY <2>1
  <2>3. CountMarks(ReadHead(words), HeadFields) = Reach(f, H + 1)
    BY <1>1, <1>2, <2>2, HeadIs
  <2>4. DetectLen(words) = 1 + size
    BY <1>2, <1>3, <1>4, <2>2, <2>3 DEF DetectLen
  <2> QED BY <1>1, <1>4, <2>4 DEF BlockLength
<1>5. CASE S # 0
  <2>1. PICK s \in 0..(S - 1) : s = S - 1 /\ s + 1 = S
    <3>1. S - 1 \in 0..(S - 1) /\ (S - 1) + 1 = S
      BY <1>5
    <3> QED BY <3>1
  <2>2. PICK v, a : v = ReadMark(words, s) /\ a = SectionStart(s)
    OBVIOUS
  <2>3. /\ v \div Place[F] = Reach(f, a)
        /\ \A m \in 0..F : Reach(f, a) + CountMarks(v, m) = Reach(f, a + m)
    BY <1>1, <2>2, SectionReads
  <2>4. a \in Nat \ {0} /\ F \in 0..F /\ a >= 1
    <3>1. a \in Nat \ {0}
      BY <1>1, <2>2, MarkIs
    <3> QED BY <3>1
  <2>5. a + F = SectionStart(S)
    <3>1. S * F = s * F + F /\ s * F \in Nat
      BY <2>1
    <3> QED BY <1>1, <2>2, <3>1 DEF SectionStart
  <2>6. a + F \in Nat /\ a + F > n
    <3>1. n < SectionStart(S)
      BY <1>1, SectionsReach
    <3> QED BY <2>4, <2>5, <3>1
  <2>7. Reach(f, a) + CountMarks(v, F) = size
    BY <1>3, <2>3, <2>4, <2>6
  <2>8. Reach(f, a) \in Nat /\ CountMarks(v, F) \in Nat
    <3>1. Reach(f, a) \in Nat
      BY <2>4, ReachGrows
    <3>2. CountMarks(v, F) \in Nat
      <4> DEFINE g == [i \in 1..F |-> WordAt(v, i - 1)]
      <4>1. \A i \in 1..F : g[i] \in Nat
        <5> TAKE i \in 1..F
        <5>1. WordAt(v, i - 1) = WidthOf(f, a + i - 1)
          BY <1>1, <2>2, SectionReads
        <5>2. a + i - 1 \in Nat /\ a + i - 1 >= 1
          BY <2>4
        <5>3. WidthOf(f, a + i - 1) \in 0..3
          BY <5>2, WidthsFit
        <5> QED BY <5>1, <5>3
      <4>2. CountMarks(v, F) = SumFunctionOnSet(g, 1..F)
        BY DEF CountMarks, SumFunction
      <4> HIDE DEF g
      <4>3. F \in Nat
        OBVIOUS
      <4>4. SumFunctionOnSet(g, 1..F) \in Nat
        BY ONLY <4>1, <4>3, SumWithout
      <4> QED BY <4>2, <4>4
    <3> QED BY <3>1, <3>2
  <2>9. DetectLen(words) = (1 + 2 * S) + CountMarks(v, F) + Reach(f, a)
    BY <1>1, <1>2, <1>5, <2>1, <2>2, <2>3 DEF DetectLen
  <2>10. PICK x, y \in Nat : x = CountMarks(v, F) /\ y = Reach(f, a) /\ y + x = size
    BY <2>7, <2>8
  <2>11. (1 + 2 * S) + x + y = 1 + 2 * S + size
    BY <2>10, SMTT(30)
  <2> QED BY <1>1, <2>9, <2>10, <2>11 DEF BlockLength
<1> QED BY <1>4, <1>5

-----------------------------------------------------------------------------
(***************************************************************************)
(* The fields that are encoded: those up to the last one that is there.    *)
(***************************************************************************)
Used(f) == SubSeq(f, 1, UsedLength(f))

\* u holds the first fields of f, and all that are there.
UsedOf(u, f) ==
  /\ Narrow(u) /\ Len(u) = UsedLength(f) /\ Len(u) <= Len(f)
  /\ \A k \in 1..Len(u) : u[k] = f[k]
  /\ \A k \in Nat : k >= 1 => WidthOf(u, k) = WidthOf(f, k)
  /\ \A k \in Nat : k >= 1 /\ k <= Len(u) => BodyBefore(u, k) = BodyBefore(f, k)

\* Among numbers up to n one is the greatest.
LEMMA Greatest ==
  ASSUME NEW n \in Nat, NEW T \in SUBSET (1..n), T # {}
  PROVE  \E k \in T : \A j \in T : j <= k
<1> DEFINE R == {n - k : k \in T}
<1>1. R \in SUBSET Nat /\ R # {}
  <2>1. \A k \in T : n - k \in Nat
    OBVIOUS
  <2> QED BY <2>1
<1>2. PICK x \in R : \A y \in R : x <= y
  <2> HIDE DEF R
  <2> QED BY <1>1, LeastNat
<1>3. PICK k \in T : x = n - k
  BY <1>2
<1>4. ASSUME NEW j \in T PROVE j <= k
  <2>1. n - j \in R /\ j \in 1..n /\ k \in 1..n
    OBVIOUS
  <2>2. n - k <= n - j
    BY <1>2, <1>3, <2>1
  <2> QED BY <2>1, <2>2
<1> QED BY <1>4

\* The last field that is there, when there is one.
LEMMA LastUsed ==
  ASSUME NEW f, Narrow(f)
  PROVE  /\ UsedLength(f) \in 0..Len(f)
         /\ \A k \in 1..Len(f) : FieldWidth(f[k]) # 0 => k <= UsedLength(f)
         /\ UsedLength(f) # 0 => FieldWidth(f[UsedLength(f)]) # 0
<1> DEFINE used == {k \in 1..Len(f) : FieldWidth(f[k]) # 0}
           top == CHOOSE k \in used : \A j \in used : j <= k
<1>1. PICK n \in Nat : n = Len(f)
  BY WidthsFit
<1>2. UsedLength(f) = IF used = {} THEN 0 ELSE top
  BY DEF UsedLength
<1>3. CASE used = {}
  BY <1>1, <1>2, <1>3
<1>4. CASE used # {}
  <2>1. used \in SUBSET (1..n)
    BY <1>1
  <2>2. \E k \in used : \A j \in used : j <= k
    <3> HIDE DEF used
    <3> QED BY <1>4, <2>1, Greatest
  <2>5. top \in used /\ \A j \in used : j <= top
    BY <2>2
  <2> HIDE DEF top
  <2>6. top \in 1..n /\ FieldWidth(f[top]) # 0
    BY <1>1, <2>5
  <2> QED BY <1>1, <1>2, <1>4, <2>5, <2>6
<1> QED BY <1>3, <1>4

\* Cutting off the fields that are not there changes no width and no count.
LEMMA UsedKeeps ==
  ASSUME NEW f, Narrow(f)
  PROVE  UsedOf(Used(f), f)
<1>1. PICK n, m \in Nat : n = Len(f) /\ m = UsedLength(f) /\ m <= n
  <2>1. Len(f) \in Nat /\ UsedLength(f) \in 0..Len(f)
    BY WidthsFit, LastUsed
  <2> QED BY <2>1
<1>2. PICK u : u = Used(f)
  OBVIOUS
<1>3. u \in Seq(UnitType) /\ Len(u) = m /\ \A k \in 1..m : u[k] = f[k]
  <2>1. f \in Seq(UnitType) /\ \A k \in 1..n : f[k] \in UnitType
    BY <1>1 DEF Narrow
  <2>2. u = SubSeq(f, 1, m)
    BY <1>1, <1>2 DEF Used
  <2>3. u = [k \in 1..m |-> f[k]]
    BY <1>1, <2>1, <2>2
  <2>4. \A k \in 1..m : k \in 1..n
    BY <1>1
  <2> QED BY <2>1, <2>3, <2>4
<1>4. Narrow(u)
  <2>1. \A k \in 1..m : k \in 1..n
    BY <1>1
  <2> QED BY <1>1, <1>3, <2>1 DEF Narrow
<1>5. ASSUME NEW k \in Nat, k >= 1 PROVE WidthOf(u, k) = WidthOf(f, k)
  <2>1. CASE k <= m
    <3>1. k \in 1..m /\ k <= n
      BY <1>1, <1>5, <2>1
    <3> QED BY <1>1, <1>3, <3>1 DEF WidthOf
  <2>2. CASE ~(k <= m) /\ k <= n
    <3>1. k \in 1..n
      BY <1>5, <2>2
    <3>2. FieldWidth(f[k]) = 0
      BY <1>1, <2>2, <3>1, LastUsed
    <3> QED BY <1>1, <1>3, <2>2, <3>2 DEF WidthOf
  <2>3. CASE ~(k <= m) /\ ~(k <= n)
    BY <1>1, <1>3, <2>3 DEF WidthOf
  <2> QED BY <2>1, <2>2, <2>3
<1>6. ASSUME NEW k \in Nat, k >= 1, k <= m PROVE BodyBefore(u, k) = BodyBefore(f, k)
  <2> DEFINE g == [j \in 1..Len(u) |-> FieldWidth(u[j])]
             h == [j \in 1..Len(f) |-> FieldWidth(f[j])]
  <2>1. k - 1 \in Nat
    BY <1>6
  <2>2. \A j \in 1..k - 1 : g[j] \in Nat /\ g[j] = h[j]
    <3> TAKE j \in 1..k - 1
    <3>1. j \in 1..m /\ j \in 1..n
      BY <1>1, <1>6
    <3>2. FieldWidth(u[j]) \in 0..3
      BY <1>3, <1>4, <3>1, WidthsFit
    <3> QED BY <1>1, <1>3, <3>1, <3>2
  <2>3. BodyBefore(u, k) = SumFunctionOnSet(g, 1..k - 1) /\ BodyBefore(f, k) = SumFunctionOnSet(h, 1..k - 1)
    BY DEF BodyBefore
  <2> HIDE DEF g, h
  <2> QED BY <2>1, <2>2, <2>3, SumSame
<1> QED BY <1>1, <1>2, <1>3, <1>4, <1>5, <1>6 DEF UsedOf

\* The counts that fit for all fields fit for these.
LEMMA UsedCounts ==
  ASSUME NEW f, Narrow(f), NEW u, UsedOf(u, f),
         \A s \in 0..(Sections(UsedLength(f)) - 1) : BodyBefore(f, SectionStart(s)) < CountRange
  PROVE  CountsSuffice(u)
<1>1. PICK m \in Nat : m = Len(u) /\ m = UsedLength(f)
  BY WidthsFit DEF UsedOf
<1>2. ASSUME NEW s \in 0..(Sections(m) - 1) PROVE BodyBefore(u, SectionStart(s)) < CountRange
  <2>1. SectionStart(s) \in 1..m
    BY <1>1, SectionsReach
  <2>2. SectionStart(s) \in Nat /\ SectionStart(s) >= 1 /\ SectionStart(s) <= m
    BY <2>1
  <2>3. BodyBefore(u, SectionStart(s)) = BodyBefore(f, SectionStart(s))
    BY <1>1, <2>2 DEF UsedOf
  <2> QED BY <1>1, <2>3
<1> QED BY <1>1, <1>2 DEF CountsSuffice

-----------------------------------------------------------------------------
(***************************************************************************)
(* Reading the fields back.                                                *)
(***************************************************************************)

\* What is said of a field: its words, and whether it is an object.
ContentType == [object : BOOLEAN, words : Seq(Nat)]

\* The Unit of a field holds its content: nothing, its words, or the segment
\* of the buffer, behind what was there at the start, where they stand.
Vacant(c, u) == c = Absent /\ u = EmptyUnit

Inside(c, u) ==
  /\ c.words # <<>> /\ u.inline = c.words /\ Len(c.words) <= 3
  /\ c.object => ~IsOffset(c.words[1])

Outside(b, from, c, u) ==
  /\ c.object /\ c.words # <<>> /\ u.inline = <<>> /\ u.len = Len(c.words)
  /\ from + u.len <= u.pos /\ u.pos <= b.len /\ ReadAt(b, u.pos, u.len) = c.words

Kept(b, from, c, u) == Vacant(c, u) \/ Inside(c, u) \/ Outside(b, from, c, u)

\* Fields, with the buffer they were encoded into.
Filled(b, from, c, f) ==
  /\ Sound(b) /\ from \in Nat /\ from <= b.len
  /\ c \in Seq(ContentType) /\ f \in Seq(UnitType) /\ Len(f) = Len(c)
  /\ \A k \in 1..Len(f) : Kept(b, from, c[k], f[k])

\* Words that begin with an encoded message: its block, and what was written
\* for its fields, from `from` on.  Anything may follow.
Framed(words, u, b, from) ==
  /\ words \in Seq(Nat) /\ BlockLength(u) + (b.len - from) <= Len(words)
  /\ BlockIn(words, u, b.len)
  /\ \A d \in 1..(b.len - from) : words[BlockLength(u) + d] = b.data[b.len - d + 1]

\* The number of words the Unit takes in the body, for each kind of content.
LEMMA KeptWidth ==
  ASSUME NEW b, NEW from, NEW c \in ContentType, NEW u \in UnitType, Kept(b, from, c, u)
  PROVE  /\ FieldWidth(u) = 0 <=> c.words = <<>>
         /\ Len(u.inline) <= 3
         /\ IsSegment(u) <=> Outside(b, from, c, u)
         /\ Inside(c, u) => FieldWidth(u) = Len(c.words)
<1>1. PICK i, w \in Seq(Nat), p, l \in Nat : /\ i = u.inline /\ p = u.pos /\ l = u.len /\ w = c.words
  BY DEF UnitType, ContentType
<1>2. CASE Vacant(c, u)
  <2>1. w = <<>> /\ i = <<>> /\ l = 0
    BY <1>1, <1>2 DEF Vacant, Absent, EmptyUnit, InlineUnit
  <2>2. FieldWidth(u) = 0 /\ ~IsSegment(u) /\ Len(i) = 0
    BY <1>1, <2>1 DEF FieldWidth, IsSegment
  <2> QED BY <1>1, <2>1, <2>2 DEF Outside, Inside
<1>3. CASE Inside(c, u)
  <2>1. w # <<>> /\ i = w /\ Len(w) <= 3
    BY <1>1, <1>3 DEF Inside
  <2>2. Len(w) # 0 /\ FieldWidth(u) = Len(w) /\ ~IsSegment(u)
    BY <1>1, <2>1 DEF FieldWidth, IsSegment
  <2> QED BY <1>1, <2>1, <2>2 DEF Outside
<1>4. CASE Outside(b, from, c, u)
  <2>1. w # <<>> /\ i = <<>> /\ l = Len(w)
    BY <1>1, <1>4 DEF Outside
  <2>2. l # 0
    BY <2>1
  <2>3. FieldWidth(u) = 1 /\ IsSegment(u) /\ Len(i) = 0
    BY <1>1, <2>1, <2>2 DEF FieldWidth, IsSegment
  <2> QED BY <1>1, <1>4, <2>1, <2>3 DEF Inside
<1> QED BY <1>2, <1>3, <1>4 DEF Kept

\* The fields of a message that is being encoded are narrow, and their segments
\* lie in the buffer.
LEMMA FilledMeans ==
  ASSUME NEW b, NEW from, NEW c, NEW f, Filled(b, from, c, f)
  PROVE  /\ Narrow(f) /\ Behind(f, b.len) /\ b.len \in Nat
         /\ \A k \in 1..Len(f) : /\ c[k] \in ContentType /\ f[k] \in UnitType
                                 /\ FieldWidth(f[k]) = 0 <=> c[k].words = <<>>
                                 /\ IsSegment(f[k]) <=> Outside(b, from, c[k], f[k])
<1>1. \A k \in 1..Len(f) : c[k] \in ContentType /\ f[k] \in UnitType /\ Kept(b, from, c[k], f[k])
  BY DEF Filled
<1>2. \A k \in 1..Len(f) : /\ FieldWidth(f[k]) = 0 <=> c[k].words = <<>>
                           /\ Len(f[k].inline) <= 3
                           /\ IsSegment(f[k]) <=> Outside(b, from, c[k], f[k])
  BY <1>1, KeptWidth
<1>3. Narrow(f)
  BY <1>2 DEF Narrow, Filled
<1>4. Behind(f, b.len)
  BY <1>2 DEF Behind, Outside
<1>5. b.len \in Nat
  BY SoundParts DEF Filled
<1> QED BY <1>1, <1>2, <1>3, <1>4, <1>5

\* Words of which a reader can find the fields.
Readable(words, u, b, from) ==
  /\ Narrow(u) /\ Behind(u, b.len) /\ b.len \in Nat /\ from \in Nat /\ from <= b.len
  /\ Sections(Len(u)) < SectionRange /\ CountsSuffice(u)
  /\ Framed(words, u, b, from)

\* The words that begin at word m of `words`, m from 0, are v's.
StandsAt(words, m, v) == m + Len(v) <= Len(words) /\ \A j \in 1..Len(v) : words[m + j] = v[j]

\* Where a reader looks for a field it finds the field's body words.
LEMMA BodyReads ==
  ASSUME NEW words, NEW u, NEW b, NEW from, Readable(words, u, b, from), NEW k \in 1..Len(u)
  PROVE  /\ FieldIn(words, k).width = FieldWidth(u[k])
         /\ FieldStart(words, k) \in Nat
         /\ FieldStart(words, k) = 1 + 2 * Sections(Len(u)) + Reach(u, k)
         /\ FieldStart(words, k) + FieldWidth(u[k]) <= BlockLength(u)
         /\ StandsAt(words, FieldStart(words, k), FieldBody(u, k, b.len + BodySize(u)))
<1>1. PICK n, S, L, size \in Nat : /\ n = Len(u) /\ S = Sections(Len(u)) /\ L = b.len
                                   /\ size = BodySize(u)
  BY WidthsFit, SectionsReach, ReachWithin DEF Readable
<1>2. Narrow(u) /\ Behind(u, L) /\ BlockIn(words, u, L) /\ CountsSuffice(u) /\ S < SectionRange
  BY <1>1 DEF Readable, Framed
<1>3. k \in Nat /\ k >= 1 /\ k <= n
  BY <1>1
<1>4. PICK r, w \in Nat : r = Reach(u, k) /\ w = FieldWidth(u[k]) /\ r + w <= size
  <2>1. Reach(u, k) \in Nat
    BY <1>2, <1>3, ReachGrows
  <2>2. FieldWidth(u[k]) \in Nat
    BY <1>2, WidthsFit
  <2> QED BY <1>1, <1>2, <2>1, <2>2, ReachWithin
<1>5. FieldIn(words, k).width = w /\ FieldIn(words, k).off = r
  <2>1. FieldSeen(words, u, k)
    BY <1>1, <1>2, <1>3, FieldInIs
  <2> QED BY <1>1, <1>3, <1>4, <2>1 DEF FieldSeen, WidthOf
<1>6. FieldStart(words, k) = 1 + 2 * S + r
  <2>1. BodyOffset(words) = 1 + 2 * S
    BY <1>1, <1>2, SectionsRead
  <2> QED BY <1>5, <2>1 DEF FieldStart
<1>7. BlockLength(u) = 1 + 2 * S + size
  BY <1>1 DEF BlockLength
<1>8. PICK v \in Seq(Nat) : v = FieldBody(u, k, b.len + BodySize(u)) /\ Len(v) = w
  BY <1>1, <1>2, <1>4, FieldBodyIs
<1>9. PICK m \in Nat : m = FieldStart(words, k) /\ m = 1 + 2 * S + r
  BY <1>6
<1>10. \A j \in 1..w : words[m + j] = v[j]
  BY <1>1, <1>2, <1>4, <1>8, <1>9 DEF BlockIn
<1>11. m + w <= BlockLength(u) /\ BlockLength(u) <= Len(words)
  <2>1. PICK x, e, l \in Nat : /\ x = BlockLength(u) /\ x = 1 + 2 * S + size
                               /\ e = from /\ e <= L /\ l = Len(words) /\ x + (L - e) <= l
    <3>1. 1 + 2 * S + size \in Nat
      OBVIOUS
    <3> QED BY <1>1, <1>7, <3>1, SMTT(30) DEF Readable, Framed
  <2>2. x <= l
    BY ONLY <2>1, x \in Nat, e \in Nat, L \in Nat, l \in Nat
  <2>3. m + w <= x
    <3>1. PICK y \in Nat : y = 1 + 2 * S /\ m = y + r /\ x = y + size
      BY <1>9, <2>1
    <3> QED BY ONLY <1>4, <3>1, y \in Nat, r \in Nat, w \in Nat, size \in Nat, m \in Nat, x \in Nat, SMTT(30)
  <2> QED BY <2>1, <2>2, <2>3
<1>12. StandsAt(words, m, v)
  <2>1. 1 + 2 * S + size \in Nat
    OBVIOUS
  <2>2. BlockLength(u) \in Nat
    BY <1>7, <2>1
  <2>3. words \in Seq(Nat)
    BY DEF Readable, Framed
  <2>4. Len(words) \in Nat
    BY <2>3
  <2> QED BY <1>8, <1>10, <1>11, <2>2, <2>4 DEF StandsAt
<1> QED BY <1>1, <1>4, <1>5, <1>8, <1>9, <1>11, <1>12

\* Raw words are those that stand where the field is.
LEMMA StandingWords ==
  ASSUME NEW words \in Seq(Nat), NEW m \in Nat, NEW v \in Seq(Nat), StandsAt(words, m, v)
  PROVE  /\ SubSeq(words, m + 1, m + Len(v)) = v
         /\ IsPrefix(v, SubSeq(words, m + 1, Len(words)))
<1>1. PICK l, n \in Nat : l = Len(v) /\ n = Len(words) /\ m + l <= n
  BY DEF StandsAt
<1>2. \A j \in 1..l : words[m + j] = v[j]
  BY <1>1 DEF StandsAt
<1>3. PICK e, a \in Nat : e = m + l /\ e <= n /\ a = m + 1
  <2>1. m + l \in Nat /\ m + l <= n /\ m + 1 \in Nat
    BY <1>1
  <2> QED BY <2>1
<1>4. PICK x : x = SubSeq(words, a, e)
  OBVIOUS
<1>5. x \in Seq(Nat) /\ Len(x) = l /\ \A j \in 1..l : x[j] = words[m + j]
  <2>1. \A j \in a..e : j \in 1..n
    BY <1>3
  <2>2. \A j \in a..e : words[j] \in Nat
    BY <1>1, <2>1
  <2>3. a \in Int /\ e \in Int
    OBVIOUS
  <2>4. /\ x \in Seq(Nat)
        /\ Len(x) = IF a <= e THEN e - a + 1 ELSE 0
        /\ \A j \in 1..(e - a + 1) : x[j] = words[a + j - 1]
    BY ONLY <1>4, <2>2, <2>3, SubSeqProperties
  <2>5. e - a + 1 = l /\ (IF a <= e THEN e - a + 1 ELSE 0) = l
    BY <1>3
  <2>6. \A j \in 1..l : a + j - 1 = m + j
    BY <1>3
  <2> QED BY <2>4, <2>5, <2>6
<1>6. x = v
  BY <1>1, <1>2, <1>5, SeqEqual
<1>7. IsPrefix(v, SubSeq(words, m + 1, Len(words)))
  BY <1>1, <1>2, PrefixAt
<1> QED BY <1>1, <1>3, <1>4, <1>6, <1>7

\* A field whose words are in the body is read there, as it is or as an object.
LEMMA InsideReads ==
  ASSUME NEW words, NEW u, NEW b, NEW from, Readable(words, u, b, from), NEW k \in 1..Len(u),
         NEW c \in ContentType, Inside(c, u[k])
  PROVE  /\ RawWords(words, k) = c.words
         /\ c.object => /\ IsPrefix(c.words, ObjectWords(words, k))
                        /\ ObjectStart(words, k) \in Nat
                        /\ ObjectStart(words, k) + Len(c.words) <= BlockLength(u)
<1>1. PICK m, w \in Nat : /\ m = FieldStart(words, k) /\ w = FieldWidth(u[k])
                          /\ FieldIn(words, k).width = w /\ m + w <= BlockLength(u)
                          /\ StandsAt(words, m, FieldBody(u, k, b.len + BodySize(u)))
  <2>1. FieldStart(words, k) \in Nat /\ FieldWidth(u[k]) \in Nat
    BY BodyReads, WidthsFit DEF Readable
  <2> QED BY <2>1, BodyReads
<1>2. PICK v \in Seq(Nat) : v = c.words /\ v # <<>> /\ u[k].inline = v
  BY DEF Inside, ContentType
<1>3. FieldBody(u, k, b.len + BodySize(u)) = v /\ w = Len(v)
  BY <1>1, <1>2 DEF FieldBody, FieldWidth
<1>4. words \in Seq(Nat)
  BY DEF Readable, Framed
<1>5. RawWords(words, k) = SubSeq(words, m + 1, m + Len(v))
  BY <1>1, <1>3 DEF RawWords
<1>6. RawWords(words, k) = c.words
  <2>1. StandsAt(words, m, v) /\ m \in Nat /\ v \in Seq(Nat)
    BY <1>1, <1>3
  <2>2. SubSeq(words, m + 1, m + Len(v)) = v
    BY ONLY <1>4, <2>1, StandingWords
  <2> QED BY <1>2, <1>5, <2>2
<1>7. ASSUME c.object PROVE ObjectStart(words, k) = m
  <2>1. ~IsOffset(v[1])
    BY <1>2, <1>7 DEF Inside
  <2>2. words[m + 1] = v[1]
    <3>1. 1 \in 1..Len(v)
      BY <1>2
    <3> QED BY <1>1, <1>3, <3>1 DEF StandsAt
  <2>3. Followed(words, m) = m
    BY <2>1, <2>2 DEF Followed
  <2> QED BY <1>1, <2>3 DEF ObjectStart
<1>8. ASSUME c.object PROVE IsPrefix(c.words, ObjectWords(words, k))
  BY <1>1, <1>2, <1>3, <1>4, <1>7, <1>8, StandingWords DEF ObjectWords
<1> QED BY <1>1, <1>2, <1>3, <1>6, <1>7, <1>8

\* An offset sends the reader as far as it says.
LEMMA OffsetReads ==
  ASSUME NEW d \in Nat
  PROVE  IsOffset(Offset(d)) /\ Offset(d) \div 4 = d
<1>1. (d * 4 + 3) % 4 = 3 /\ (d * 4 + 3) \div 4 = d
  OBVIOUS
<1> QED BY <1>1 DEF IsOffset, Offset

\* A field whose words are elsewhere in the buffer is found there: the offset is
\* relative to its own place, and the segment to the buffer's end.
LEMMA OutsideReads ==
  ASSUME NEW words, NEW u, NEW b, NEW from, Readable(words, u, b, from), NEW k \in 1..Len(u),
         NEW c \in ContentType, u[k] \in UnitType, Outside(b, from, c, u[k])
  PROVE  /\ IsPrefix(c.words, ObjectWords(words, k))
         /\ ObjectStart(words, k) = BlockLength(u) + b.len - u[k].pos
<1>1. PICK n, S, L, size, r \in Nat : /\ n = Len(u) /\ S = Sections(Len(u)) /\ L = b.len
                                      /\ size = BodySize(u) /\ r = Reach(u, k)
  <2>1. k \in Nat /\ k >= 1 /\ Narrow(u)
    BY WidthsFit DEF Readable
  <2> QED BY <2>1, WidthsFit, SectionsReach, ReachWithin, ReachGrows DEF Readable
<1>2. PICK v \in Seq(Nat), p, l \in Nat : /\ v = c.words /\ p = u[k].pos /\ l = u[k].len
                                          /\ l = Len(v) /\ l # 0 /\ l <= p /\ p <= L /\ from + l <= p
                                          /\ u[k].inline = <<>> /\ ReadAt(b, p, l) = v
  <2>1. c.words \in Seq(Nat) /\ u[k].pos \in Nat /\ u[k].len \in Nat
    BY DEF UnitType, ContentType
  <2>2. /\ from + u[k].len <= u[k].pos /\ u[k].pos <= b.len /\ u[k].len = Len(c.words)
        /\ c.words # <<>> /\ u[k].inline = <<>> /\ ReadAt(b, u[k].pos, u[k].len) = c.words
    BY DEF Outside
  <2>3. PICK v \in Seq(Nat), p, l \in Nat : v = c.words /\ p = u[k].pos /\ l = u[k].len
    BY <2>1
  <2>4. from + l <= p /\ p <= L /\ l = Len(v) /\ v # <<>>
    BY <1>1, <2>2, <2>3
  <2>5. l # 0 /\ l <= p
    <3>1. Len(v) # 0
      BY ONLY <2>4, v \in Seq(Nat)
    <3>2. from \in Nat
      BY DEF Readable
    <3> QED BY ONLY <2>4, <3>1, <3>2, l \in Nat, p \in Nat
  <2> QED BY <2>2, <2>3, <2>4, <2>5
<1>3. FieldWidth(u[k]) = 1 /\ BodyBefore(u, k) = r
  <2>1. k \in 1..(n + 1)
    BY <1>1
  <2>2. BodyBefore(u, k) = r
    BY <1>1, <2>1, ReachGrows DEF Readable
  <2> QED BY <1>2, <2>2 DEF FieldWidth
<1>4. PICK d \in Nat : d = (L + size) - r - p
  <2>1. r + 1 <= size
    BY <1>1, <1>3, ReachWithin DEF Readable
  <2> QED BY <1>2, <2>1, SMTT(30)
<1>5. FieldBody(u, k, b.len + BodySize(u)) = <<Offset(d)>>
  BY <1>1, <1>2, <1>3, <1>4 DEF FieldBody
<1>6. PICK m \in Nat : m = FieldStart(words, k) /\ m = 1 + 2 * S + r /\ words[m + 1] = Offset(d)
  <2>1. FieldStart(words, k) \in Nat /\ FieldStart(words, k) = 1 + 2 * S + r
        /\ StandsAt(words, FieldStart(words, k), <<Offset(d)>>)
    BY <1>1, <1>5, BodyReads
  <2>2. 1 \in 1..Len(<<Offset(d)>>) /\ <<Offset(d)>>[1] = Offset(d)
    OBVIOUS
  <2> QED BY <2>1, <2>2 DEF StandsAt
<1>7. ObjectStart(words, k) = m + d
  BY <1>6, OffsetReads DEF ObjectStart, Followed
<1>8. PICK t \in Nat : t = m + d /\ t = BlockLength(u) + L - p /\ t = BlockLength(u) + (L - p)
                       /\ BlockLength(u) \in Nat
  <2>1. BlockLength(u) = 1 + 2 * S + size
    BY <1>1 DEF BlockLength
  <2>2. m + d = (1 + 2 * S + size) + L - p /\ m + d = (1 + 2 * S + size) + (L - p)
        /\ 1 + 2 * S + size \in Nat
    BY <1>4, <1>6
  <2> QED BY <2>1, <2>2
<1>9. StandsAt(words, t, v)
  <2>1. PICK x, e, z \in Nat : /\ x = BlockLength(u) /\ t = x + (L - p) /\ e = from /\ e <= L
                               /\ z = Len(words) /\ x + (L - e) <= z
    BY <1>1, <1>8 DEF Readable, Framed
  <2>2. \A i \in 1..(L - e) : words[x + i] = b.data[L - i + 1]
    BY <1>1, <2>1 DEF Readable, Framed
  <2>3. e + l <= p /\ p <= L
    BY <1>2, <2>1
  <2>4. t + l <= z
    BY ONLY <2>1, <2>3, t \in Nat, l \in Nat, L \in Nat, p \in Nat, x \in Nat, e \in Nat, z \in Nat
  <2>5. ASSUME NEW j \in 1..l PROVE words[t + j] = v[j]
    <3>1. PICK i : i = (L - p) + j /\ i \in 1..(L - e) /\ t + j = x + i /\ L - i + 1 = p - j + 1
      <4>1. /\ (L - p) + j \in 1..(L - e) /\ t + j = x + ((L - p) + j)
            /\ L - ((L - p) + j) + 1 = p - j + 1
        BY ONLY <2>1, <2>3, j \in 1..l, t \in Nat, l \in Nat, L \in Nat, p \in Nat, x \in Nat, e \in Nat
      <4> QED BY <4>1
    <3>2. words[t + j] = b.data[p - j + 1]
      BY <2>2, <3>1
    <3>3. ReadAt(b, p, l)[j] = b.data[p - j + 1]
      BY DEF ReadAt
    <3> QED BY <1>2, <3>2, <3>3
  <2> QED BY <1>2, <2>1, <2>4, <2>5 DEF StandsAt
<1>10. IsPrefix(v, SubSeq(words, t + 1, Len(words)))
  BY <1>9, StandingWords DEF Readable, Framed
<1> QED BY <1>1, <1>2, <1>7, <1>8, <1>10 DEF ObjectWords

-----------------------------------------------------------------------------
(***************************************************************************)
(* The encoded message.                                                    *)
(***************************************************************************)

\* What is written between the fields: nothing, where there is no segment, and
\* the last field that has a segment was the first to write one.
Adjacent(b, from, f) ==
  /\ (\A k \in 1..Len(f) : ~IsSegment(f[k])) => b.len = from
  /\ \A k \in 1..Len(f) :
       /\ IsSegment(f[k])
       /\ \A j \in 1..Len(f) : IsSegment(f[j]) => j <= k
       => f[k].pos = from + f[k].len

\* A message without fields is the header word alone, and that word is 0.
LEMMA EmptyBlock ==
  ASSUME NEW u, Narrow(u), Len(u) = 0, NEW before \in Nat
  PROVE  Block(u, before) = <<0>>
<1>1. Behind(u, before)
  BY DEF Behind
<1>2. Sections(Len(u)) = 0
  <2>1. PICK S \in Nat : S = Sections(0) /\ \A s \in 0..(S - 1) : SectionStart(s) \in 1..0
    <3>1. PICK n \in Nat : n = 0
      OBVIOUS
    <3>2. Sections(n) \in Nat /\ \A s \in 0..(Sections(n) - 1) : SectionStart(s) \in 1..n
      BY SectionsReach
    <3> QED BY <3>1, <3>2
  <2>2. S = 0
    <3> SUFFICES ASSUME S # 0 PROVE FALSE
      OBVIOUS
    <3>1. 0 \in 0..(S - 1) /\ 1..0 = {}
      OBVIOUS
    <3> QED BY <2>1, <3>1
  <2> QED BY <2>1, <2>2
<1>3. Sections(Len(u)) < SectionRange
  BY <1>2, LayoutAssumption
<1>4. BodySize(u) = 0
  BY ReachGrows
<1>5. BlockLength(u) = 1
  BY <1>2, <1>4 DEF BlockLength
<1>6. PICK H, R \in Nat : H = HeadFields /\ R = SectionRange
  BY LayoutAssumption
<1>7. Marks(u, 1, H) = 0
  <2> DEFINE g == [i \in 1..H |-> WidthOf(u, 1 + i - 1) * Place[i - 1]]
             h == [i \in 1..(H + 1) |-> 0]
  <2>1. \A i \in 1..H : g[i] = 0
    <3> TAKE i \in 1..H
    <3>1. i - 1 \in Nat /\ ~(1 + i - 1 <= 0)
      OBVIOUS
    <3>2. WidthOf(u, 1 + i - 1) = 0
      BY <3>1 DEF WidthOf
    <3>3. PICK p \in Nat : p = Place[i - 1]
      BY <3>1, Places
    <3>4. 0 * p = 0
      OBVIOUS
    <3> QED BY <3>2, <3>3, <3>4
  <2>2. \A i \in 1..(H + 1) : h[i] = 0
    OBVIOUS
  <2>3. Marks(u, 1, H) = SumFunctionOnSet(g, 1..H)
    BY DEF Marks, SumFunction
  <2> HIDE DEF g, h
  <2>4. \A i \in 1..H : i \in 1..(H + 1) /\ i + 1 \in 1..(H + 1)
    OBVIOUS
  <2>5. /\ \A i \in 1..H : g[i] \in Nat
        /\ \A i \in 1..(H + 1) : h[i] \in Nat
        /\ \A i \in 1..H : h[i + 1] = h[i] + g[i]
    BY <2>1, <2>2, <2>4
  <2>6. h[1] + SumFunctionOnSet(g, 1..H) = h[H + 1]
    <3>1. H \in Nat
      OBVIOUS
    <3> QED BY ONLY <2>5, <3>1, SumIs
  <2>7. SumFunctionOnSet(g, 1..H) \in Nat
    <3>1. H \in Nat
      OBVIOUS
    <3> QED BY <2>5, <3>1, SumWithout
  <2>8. 1 \in 1..(H + 1) /\ H + 1 \in 1..(H + 1)
    OBVIOUS
  <2> QED BY <2>2, <2>3, <2>6, <2>7, <2>8
<1>8. HeadWord(u) = 0
  <2>1. R * 0 = 0 /\ 0 + 0 = 0
    OBVIOUS
  <2> QED BY <1>2, <1>6, <1>7, <2>1 DEF HeadWord
<1>9. PICK w \in Seq(Nat) : w = Block(u, before) /\ Len(w) = 1
  BY <1>1, <1>3, <1>5, BlockPlaced
<1>10. w[1] = 0
  <2>1. Continues(w, w)
    BY <1>9 DEF Continues
  <2>2. BlockIn(w, u, before)
    BY <1>1, <1>3, <1>9, <2>1, BlockPlaced
  <2> QED BY <1>8, <2>2 DEF BlockIn
<1> QED BY <1>9, <1>10

\* serialize_message_at prepends the block of the fields that are there, and
\* returns all that was written since the message was begun.
LEMMA SerializedIs ==
  ASSUME NEW b, NEW from, NEW c, NEW f, Filled(b, from, c, f), Adjacent(b, from, f)
  PROVE  Serialized(f, b, from) = Ended(PutWords(b, Block(Used(f), b.len)), from)
<1>1. Narrow(f) /\ b.len \in Nat
  BY FilledMeans
<1>2. CASE \A k \in 1..Len(f) : FieldWidth(f[k]) = 0
  <2>1. UsedLength(f) = 0
    <3>1. UsedLength(f) \in 0..Len(f) /\ (UsedLength(f) # 0 => FieldWidth(f[UsedLength(f)]) # 0)
      BY <1>1, LastUsed
    <3>2. Len(f) \in Nat
      BY <1>1, WidthsFit
    <3> QED BY <1>2, <3>1, <3>2
  <2>2. Narrow(Used(f)) /\ Len(Used(f)) = 0
    BY <1>1, <2>1, UsedKeeps DEF UsedOf
  <2>3. Block(Used(f), b.len) = <<0>>
    BY <1>1, <2>2, EmptyBlock
  <2>4. \A k \in 1..Len(f) : ~IsSegment(f[k])
    BY <1>2 DEF IsSegment, FieldWidth
  <2>5. b.len = from
    BY <2>4 DEF Adjacent
  <2> QED BY <1>2, <2>3, <2>5 DEF Serialized
<1>3. CASE ~(\A k \in 1..Len(f) : FieldWidth(f[k]) = 0)
  BY <1>3 DEF Serialized, Used
<1> QED BY <1>2, <1>3

\* The buffer afterwards, seen from the message's first word.
LEMMA EncodedIs ==
  ASSUME NEW b, Sound(b), NEW from \in Nat, from <= b.len, NEW u, Narrow(u), Behind(u, b.len), Sections(Len(u)) < SectionRange,
         NEW new, new = PutWords(b, Block(u, b.len))
  PROVE  /\ Sound(new) /\ new.len = b.len + BlockLength(u) /\ BlockLength(u) \in Nat
         /\ \A p \in 1..b.len : new.data[p] = b.data[p]
         /\ Framed(ReadAt(new, new.len, new.len), u, b, from)
<1>1. PICK L \in Nat : L = b.len
  BY SoundParts
<1>2. PICK w \in Seq(Nat), m \in Nat :
        /\ w = Block(u, L) /\ m = BlockLength(u) /\ Len(w) = m
        /\ \A words : Continues(words, w) => BlockIn(words, u, L)
  BY <1>1, BlockPlaced
<1>3. PICK t \in Nat : t = L + m /\ t = m + L
  OBVIOUS
<1>4. /\ Sound(new) /\ new.len = t
      /\ \A p \in 1..L : new.data[p] = b.data[p]
      /\ ReadAt(new, t, m) = w
  BY <1>1, <1>2, <1>3, PutWordsPrepends
<1>5. PICK words : words = ReadAt(new, t, t)
  OBVIOUS
<1>6. words \in Seq(Nat) /\ Len(words) = t
  <2>1. t <= t /\ t <= Allocated(new)
    BY <1>4 DEF Sound
  <2> QED BY <1>4, <1>5, <2>1, ReadAtType
<1>7. \A j \in 1..t : words[j] = new.data[t - j + 1]
  BY <1>5 DEF ReadAt
<1>8. \A j \in 1..m : words[j] = w[j]
  <2> TAKE j \in 1..m
  <2>1. j \in 1..t
    BY <1>3
  <2>2. ReadAt(new, t, m)[j] = new.data[t - j + 1]
    BY DEF ReadAt
  <2> QED BY <1>4, <1>7, <2>1, <2>2
<1>9. \A d \in 1..L : words[m + d] = b.data[L - d + 1]
  <2> TAKE d \in 1..L
  <2>1. m + d \in 1..t /\ t - (m + d) + 1 = L - d + 1 /\ L - d + 1 \in 1..L
    BY <1>3
  <2> QED BY <1>4, <1>7, <2>1, ZenonT(30)
<1>10. Continues(words, w)
  BY <1>2, <1>3, <1>6, <1>8 DEF Continues
<1>11. Framed(words, u, b, from)
  <2>1. PICK e \in Nat : e = from /\ e <= L
    BY <1>1
  <2>2. m + (L - e) <= t /\ \A d \in 1..(L - e) : d \in 1..L
    BY ONLY <1>3, <2>1, e \in Nat, L \in Nat, m \in Nat, t \in Nat
  <2> QED BY <1>1, <1>2, <1>6, <1>9, <1>10, <2>1, <2>2 DEF Framed
<1> QED BY <1>1, <1>2, <1>3, <1>4, <1>5, <1>11

\* What a view of a message finds of field k: FieldReads, of any words.
Found(words, c, k) ==
  IF k > Len(c) \/ c[k].words = <<>> THEN ~HasField(words, k)
  ELSE /\ HasField(words, k)
       /\ IF c[k].object THEN IsPrefix(c[k].words, ObjectWords(words, k))
                         ELSE RawWords(words, k) = c[k].words

\* Every field is found with its content, and no other.
LEMMA EveryFieldFound ==
  ASSUME NEW b, NEW from, NEW c, NEW f, Filled(b, from, c, f), NEW u, UsedOf(u, f),
         NEW words, Readable(words, u, b, from), NEW k \in Nat, k >= 1
  PROVE  Found(words, c, k)
<1>1. PICK n \in Nat : n = Len(f) /\ n = Len(c) /\ Narrow(f)
  BY FilledMeans, WidthsFit DEF Filled
<1>2. PICK m \in Nat : m = Len(u) /\ m <= n
  BY <1>1, WidthsFit DEF UsedOf
<1>3. WidthOf(u, k) = WidthOf(f, k)
  BY DEF UsedOf
<1>4. FieldIn(words, k).width = WidthOf(u, k)
  <2>1. FieldSeen(words, u, k)
    BY FieldInIs DEF Readable, Framed
  <2> QED BY <2>1 DEF FieldSeen
<1>5. HasField(words, k) <=> WidthOf(f, k) # 0
  BY <1>3, <1>4 DEF HasField
<1>6. CASE k > n
  BY <1>1, <1>5, <1>6 DEF WidthOf, Found
<1>7. CASE k <= n
  <2>1. k \in 1..n /\ ~(k > n)
    BY <1>7
  <2>2. /\ c[k] \in ContentType /\ f[k] \in UnitType /\ Kept(b, from, c[k], f[k])
        /\ (FieldWidth(f[k]) = 0 <=> c[k].words = <<>>)
    BY <1>1, <2>1, FilledMeans DEF Filled
  <2>3. HasField(words, k) <=> c[k].words # <<>>
    BY <1>1, <1>5, <1>7, <2>2 DEF WidthOf
  <2>4. CASE c[k].words = <<>>
    BY <2>3, <2>4 DEF Found
  <2>5. CASE c[k].words # <<>>
    <3>1. k \in 1..m /\ u[k] = f[k]
      <4>1. FieldWidth(f[k]) # 0
        BY <2>2, <2>5
      <4>2. k <= m
        BY <1>1, <1>2, <2>1, <4>1, LastUsed DEF UsedOf
      <4> QED BY <1>2, <2>1, <4>2 DEF UsedOf
    <3>2. CASE Inside(c[k], f[k])
      <4>1. RawWords(words, k) = c[k].words /\ (c[k].object => IsPrefix(c[k].words, ObjectWords(words, k)))
        BY <1>2, <2>2, <3>1, <3>2, InsideReads
      <4> QED BY <1>1, <2>1, <2>3, <2>5, <4>1 DEF Found
    <3>3. CASE Outside(b, from, c[k], f[k])
      <4>1. from \in Nat
        BY DEF Filled
      <4>2. IsPrefix(c[k].words, ObjectWords(words, k))
        BY <1>2, <2>2, <3>1, <3>3, <4>1, OutsideReads
      <4>3. c[k].object
        BY <3>3 DEF Outside
      <4> QED BY <1>1, <2>1, <2>3, <2>5, <4>2, <4>3 DEF Found
    <3>4. ~Vacant(c[k], f[k])
      BY <2>5 DEF Vacant, Absent
    <3> QED BY <2>2, <3>2, <3>3, <3>4 DEF Kept
  <2> QED BY <2>4, <2>5
<1> QED BY <1>1, <1>6, <1>7

\* Where the object of a field begins: before the end of the body it also ends,
\* or behind the body, at the distance from the end that its segment has.
LEMMA ObjectAt ==
  ASSUME NEW b, NEW from, NEW c, NEW f, Filled(b, from, c, f), NEW u, UsedOf(u, f),
         NEW words, Readable(words, u, b, from), NEW k \in 1..Len(c), c[k].object
  PROVE  /\ HasField(words, k)
         /\ ~IsSegment(f[k]) => /\ ObjectStart(words, k) \in Nat
                                /\ ObjectStart(words, k) + Len(c[k].words) <= BlockLength(u)
         /\ IsSegment(f[k]) =>
              /\ ObjectStart(words, k) = BlockLength(u) + b.len - f[k].pos
              /\ f[k].pos \in Nat /\ f[k].pos <= b.len
              /\ f[k].len = Len(c[k].words) /\ f[k].len \in Nat \ {0} /\ f[k].len <= f[k].pos
<1>1. PICK n \in Nat : n = Len(f) /\ n = Len(c) /\ Narrow(f)
  BY FilledMeans, WidthsFit DEF Filled
<1>2. /\ c[k] \in ContentType /\ f[k] \in UnitType /\ Kept(b, from, c[k], f[k])
      /\ (FieldWidth(f[k]) = 0 <=> c[k].words = <<>>)
      /\ (IsSegment(f[k]) <=> Outside(b, from, c[k], f[k]))
  BY <1>1, FilledMeans DEF Filled
<1>3. ~Vacant(c[k], f[k])
  BY DEF Vacant, Absent
<1>4. c[k].words # <<>>
  BY <1>2, <1>3 DEF Kept, Inside, Outside
<1>5. PICK m \in Nat : m = Len(u) /\ k \in 1..m /\ u[k] = f[k]
  <2>1. PICK m \in Nat : m = Len(u)
    BY WidthsFit DEF UsedOf
  <2>2. k <= m
    BY <1>1, <1>2, <1>4, <2>1, LastUsed DEF UsedOf
  <2>3. k \in 1..m
    BY <1>1, <2>2
  <2> QED BY <2>1, <2>3 DEF UsedOf
<1>6. HasField(words, k)
  <2>1. k \in Nat /\ k >= 1 /\ ~(k > Len(c))
    BY <1>1
  <2>2. Found(words, c, k)
    BY <2>1, EveryFieldFound
  <2> QED BY <1>4, <2>1, <2>2 DEF Found
<1>7. ASSUME ~IsSegment(f[k])
      PROVE  ObjectStart(words, k) \in Nat /\ ObjectStart(words, k) + Len(c[k].words) <= BlockLength(u)
  <2>1. Inside(c[k], f[k])
    BY <1>2, <1>3, <1>7 DEF Kept
  <2> QED BY <1>2, <1>5, <2>1, InsideReads
<1>8. ASSUME IsSegment(f[k])
      PROVE  /\ ObjectStart(words, k) = BlockLength(u) + b.len - f[k].pos
             /\ f[k].pos \in Nat /\ f[k].pos <= b.len
             /\ f[k].len = Len(c[k].words) /\ f[k].len \in Nat \ {0} /\ f[k].len <= f[k].pos
  <2>1. Outside(b, from, c[k], f[k]) /\ from \in Nat
    BY <1>2, <1>8 DEF Filled
  <2>2. ObjectStart(words, k) = BlockLength(u) + b.len - f[k].pos
    BY <1>2, <1>5, <2>1, OutsideReads
  <2>3. PICK p, l \in Nat : p = f[k].pos /\ l = f[k].len
    BY <1>2 DEF UnitType
  <2>4. l # 0
    BY <1>8, <2>3 DEF IsSegment
  <2>5. from + l <= p /\ p <= b.len /\ l = Len(c[k].words)
    BY <2>1, <2>3 DEF Outside
  <2>6. l <= p
    BY <2>1, <2>5
  <2> QED BY <2>2, <2>3, <2>4, <2>5, <2>6
<1> QED BY <1>6, <1>7, <1>8

\* The scan of the generated detector ends at the segment written first, which
\* is the last field's, and that one ends where the message was begun.
LEMMA DetectsWhole ==
  ASSUME NEW b, NEW from, NEW c, NEW f, Filled(b, from, c, f), Adjacent(b, from, f),
         NEW u, UsedOf(u, f), NEW words, Readable(words, u, b, from),
         NEW objects, objects = {k \in 1..Len(c) : c[k].object},
         NEW size, size = [k \in objects |-> Len(c[k].words)]
  PROVE  DetectWhole(words, objects, size) = b.len + BlockLength(u) - from
<1>1. PICK n, L, A, F \in Nat : /\ n = Len(f) /\ n = Len(c) /\ L = b.len /\ A = BlockLength(u)
                                /\ F = from /\ F <= L
  <2>1. Len(f) \in Nat /\ b.len \in Nat /\ from \in Nat /\ from <= b.len /\ Len(f) = Len(c)
    BY FilledMeans, WidthsFit DEF Filled
  <2>2. BlockLength(u) \in Nat
    BY BlockPlaced DEF Readable
  <2> QED BY <2>1, <2>2
<1>2. {k \in objects : HasField(words, k)} = objects
  BY ObjectAt
<1>3. DetectLen(words) = A
  BY <1>1, DetectLenIs DEF Readable, Framed
<1> DEFINE end == [k \in objects |-> ObjectStart(words, k) + size[k]]
           beyond == {k \in objects : end[k] > A}
<1>4. DetectWhole(words, objects, size) =
        IF beyond = {} THEN A ELSE end[CHOOSE k \in beyond : \A j \in beyond : j <= k]
  <2>1. DetectWhole(words, objects, size) = LastEnd(end, A)
    BY <1>2, <1>3 DEF DetectWhole
  <2>2. DOMAIN end = objects
    OBVIOUS
  <2> HIDE DEF end
  <2> QED BY <2>1, <2>2 DEF LastEnd
<1>5. ASSUME NEW k \in objects PROVE k \in 1..n /\ c[k].object /\ size[k] = Len(c[k].words)
  BY <1>1
<1>6. ASSUME NEW k \in objects, ~IsSegment(f[k]) PROVE ~(end[k] > A)
  <2>1. PICK s \in Nat : s = ObjectStart(words, k) /\ s + Len(c[k].words) <= A
    BY <1>1, <1>5, <1>6, ObjectAt
  <2>2. Len(c[k].words) \in Nat
    BY <1>1, <1>5, FilledMeans DEF ContentType
  <2>3. end[k] = s + Len(c[k].words)
    BY <1>5, <2>1
  <2> QED BY <2>1, <2>2, <2>3
<1>7. ASSUME NEW k \in objects, IsSegment(f[k])
      PROVE  /\ end[k] = A + (L - f[k].pos) + f[k].len
             /\ end[k] > A /\ f[k].pos \in Nat /\ f[k].len \in Nat /\ f[k].pos <= L
  <2>1. PICK p, l \in Nat : /\ p = f[k].pos /\ l = f[k].len /\ l # 0 /\ p <= L /\ l = Len(c[k].words)
                            /\ ObjectStart(words, k) = A + L - p
    <3>1. /\ ObjectStart(words, k) = BlockLength(u) + b.len - f[k].pos
          /\ f[k].pos \in Nat /\ f[k].pos <= b.len
          /\ f[k].len = Len(c[k].words) /\ f[k].len \in Nat \ {0}
      BY <1>1, <1>5, <1>7, ObjectAt
    <3> QED BY <1>1, <3>1
  <2>2. A + L - p = A + (L - p) /\ A + (L - p) + l > A
    <3>1. l # 0 /\ p <= L
      BY <2>1
    <3> QED BY ONLY <3>1, A \in Nat, L \in Nat, p \in Nat, l \in Nat
  <2> QED BY <1>5, <2>1, <2>2
<1>8. ASSUME NEW k \in 1..n, IsSegment(f[k]) PROVE k \in objects
  <2>1. Outside(b, from, c[k], f[k])
    BY <1>1, <1>8, FilledMeans
  <2> QED BY <1>1, <2>1 DEF Outside
<1>9. \A k \in 1..n : k \in beyond <=> IsSegment(f[k])
  BY <1>6, <1>7, <1>8
<1>10. beyond \in SUBSET (1..n)
  BY <1>5
<1>11. CASE beyond = {}
  <2>1. L = F
    BY <1>1, <1>9, <1>11 DEF Adjacent
  <2>2. DetectWhole(words, objects, size) = A
    BY <1>4, <1>11
  <2>3. A = L + A - F
    BY ONLY <2>1, A \in Nat, L \in Nat, F \in Nat
  <2> QED BY <1>1, <2>2, <2>3
<1>12. CASE beyond # {}
  <2> DEFINE top == CHOOSE k \in beyond : \A j \in beyond : j <= k
  <2>1. \E k \in beyond : \A j \in beyond : j <= k
    <3> HIDE DEF beyond
    <3> QED BY <1>10, <1>12, Greatest
  <2>2. top \in beyond /\ \A j \in beyond : j <= top
    BY <2>1
  <2> HIDE DEF top
  <2>3. top \in 1..n /\ IsSegment(f[top]) /\ \A j \in 1..n : IsSegment(f[j]) => j <= top
    <3> HIDE DEF beyond
    <3> QED BY <1>9, <1>10, <2>2
  <2>4. f[top].pos = F + f[top].len
    BY <1>1, <2>3 DEF Adjacent
  <2>5. /\ end[top] = A + (L - f[top].pos) + f[top].len
        /\ f[top].pos \in Nat /\ f[top].len \in Nat /\ f[top].pos <= L
    BY <1>7, <1>8, <2>3
  <2>6. PICK p, l \in Nat : p = f[top].pos /\ l = f[top].len /\ p = F + l /\ p <= L
    BY <2>4, <2>5
  <2>7. A + (L - p) + l = L + A - F
    <3>1. p = F + l /\ p <= L
      BY <2>6
    <3> QED BY ONLY <3>1, A \in Nat, L \in Nat, F \in Nat, p \in Nat, l \in Nat
  <2>8. DetectWhole(words, objects, size) = end[top]
    BY <1>4, <1>12 DEF top
  <2> QED BY <1>1, <2>5, <2>6, <2>7, <2>8
<1> QED BY <1>11, <1>12

-----------------------------------------------------------------------------
(***************************************************************************)
(* The invariant.  Until serialize_message_at is called the fields are     *)
(* held as they were encoded, the buffer holds nothing else since the      *)
(* message was begun, and the fields still to be encoded are not there.    *)
(***************************************************************************)
Consistent ==
  /\ Sound(buf) /\ last \in Nat /\ last <= buf.len
  /\ content \in Seq(ContentType) /\ Narrow(fields) /\ Len(fields) = Len(content)
  /\ Len(fields) \in Counts /\ slot \in 0..Len(fields)
  /\ pc \in {"fields", "encoded", "refused", "failed"}

Working ==
  pc # "encoded" =>
    /\ Filled(buf, last, content, fields) /\ Adjacent(buf, last, fields)
    /\ \A k \in 1..slot : Vacant(content[k], fields[k])

FieldsFound == pc = "encoded" /\ CountsFit => AllFieldsRead

MessageInv == Consistent /\ Working /\ FieldsFound /\ DetectsExactExtent

\* What holds of a field goes on to hold while the words behind it stay.
LEMMA KeptLonger ==
  ASSUME NEW b, NEW new, NEW from \in Nat, NEW c, NEW u \in UnitType, Kept(b, from, c, u),
         b.len \in Nat, new.len \in Nat, b.len <= new.len,
         \A p \in 1..b.len : new.data[p] = b.data[p]
  PROVE  Kept(new, from, c, u)
<1>1. CASE Outside(b, from, c, u)
  <2>1. PICK p, l, L, N \in Nat : /\ p = u.pos /\ l = u.len /\ L = b.len /\ N = new.len
                                  /\ from + l <= p /\ p <= L /\ L <= N /\ l <= p
    <3>1. PICK p, l \in Nat : p = u.pos /\ l = u.len /\ from + l <= p /\ p <= b.len
      BY <1>1 DEF Outside, UnitType
    <3>2. l <= p
      BY <3>1
    <3> QED BY <3>1, <3>2
  <2>2. \A q \in (p - l + 1)..p : new.data[q] = b.data[q]
    <3> TAKE q \in (p - l + 1)..p
    <3>1. q \in 1..L
      BY <2>1
    <3> QED BY <2>1, <3>1
  <2>3. ReadAt(new, p, l) = ReadAt(b, p, l)
    <3>1. \A j \in 1..l : p - j + 1 \in (p - l + 1)..p
      OBVIOUS
    <3>2. \A j \in 1..l : new.data[p - j + 1] = b.data[p - j + 1]
      BY ONLY <2>2, <3>1
    <3> QED BY <3>2 DEF ReadAt
  <2>4. p <= N
    BY <2>1
  <2>5. Outside(new, from, c, u)
    BY <1>1, <2>1, <2>3, <2>4 DEF Outside
  <2> QED BY <2>5 DEF Kept
<1>2. CASE Vacant(c, u) \/ Inside(c, u)
  BY <1>2 DEF Kept
<1> QED BY <1>1, <1>2 DEF Kept

\* The next field is stored: what was there stays, and its own words, when it
\* has a segment, are the last that were written.
LEMMA StoredField ==
  ASSUME NEW b, NEW from, NEW c, NEW f, Filled(b, from, c, f), Adjacent(b, from, f),
         NEW i \in 1..Len(f), \A k \in 1..i : Vacant(c[k], f[k]),
         NEW new, Sound(new), b.len <= new.len, \A p \in 1..b.len : new.data[p] = b.data[p],
         NEW v \in ContentType, NEW u \in UnitType, Kept(new, from, v, u),
         ~IsSegment(u) => new.len = b.len,
         IsSegment(u) => u.pos = b.len + u.len
  PROVE  /\ Filled(new, from, [c EXCEPT ![i] = v], [f EXCEPT ![i] = u])
         /\ Adjacent(new, from, [f EXCEPT ![i] = u])
         /\ \A k \in 1..(i - 1) : Vacant([c EXCEPT ![i] = v][k], [f EXCEPT ![i] = u][k])
<1>1. PICK n \in Nat : n = Len(f) /\ n = Len(c) /\ i \in 1..n
  BY FilledMeans, WidthsFit DEF Filled
<1>2. PICK d, g : d = [c EXCEPT ![i] = v] /\ g = [f EXCEPT ![i] = u]
  OBVIOUS
<1>3. /\ d \in Seq(ContentType) /\ Len(d) = n /\ g \in Seq(UnitType) /\ Len(g) = n
      /\ d[i] = v /\ g[i] = u
      /\ \A k \in 1..n : k # i => d[k] = c[k] /\ g[k] = f[k]
  BY <1>1, <1>2 DEF Filled
<1>4. b.len \in Nat /\ new.len \in Nat /\ from \in Nat /\ from <= b.len
  BY SoundParts DEF Filled
<1>5. \A k \in 1..i : ~IsSegment(f[k])
  BY DEF Vacant, EmptyUnit, InlineUnit, IsSegment
<1>6. Filled(new, from, d, g)
  <2>1. ASSUME NEW k \in 1..n PROVE Kept(new, from, d[k], g[k])
    <3>1. CASE k = i
      BY <1>3, <3>1
    <3>2. CASE k # i
      <4>1. Kept(b, from, c[k], f[k]) /\ f[k] \in UnitType
        BY <1>1 DEF Filled
      <4>2. Kept(new, from, c[k], f[k])
        BY <1>4, <4>1, KeptLonger
      <4> QED BY <1>3, <3>2, <4>2
    <3> QED BY <3>1, <3>2
  <2>2. from <= new.len
    BY <1>4
  <2> QED BY <1>3, <1>4, <2>1, <2>2 DEF Filled
<1>7. Adjacent(new, from, g)
  <2>1. ASSUME \A k \in 1..n : ~IsSegment(g[k]) PROVE new.len = from
    <3>1. ~IsSegment(u)
      BY <1>1, <1>3, <2>1
    <3>2. \A k \in 1..n : ~IsSegment(f[k])
      <4> TAKE k \in 1..n
      <4>1. CASE k = i
        BY <1>1, <1>5, <4>1
      <4>2. CASE k # i
        BY <1>3, <2>1, <4>2
      <4> QED BY <4>1, <4>2
    <3> QED BY <1>1, <3>1, <3>2 DEF Adjacent
  <2>2. ASSUME NEW k \in 1..n, IsSegment(g[k]), \A j \in 1..n : IsSegment(g[j]) => j <= k
        PROVE  g[k].pos = from + g[k].len
    <3>1. CASE k # i
      <4>1. \A j \in 1..n : IsSegment(f[j]) => j <= k
        <5> TAKE j \in 1..n
        <5>1. CASE j = i
          BY <1>1, <1>5, <5>1
        <5>2. CASE j # i
          BY <1>3, <2>2, <5>2
        <5> QED BY <5>1, <5>2
      <4>2. IsSegment(f[k]) /\ g[k] = f[k]
        BY <1>3, <2>2, <3>1
      <4> QED BY <1>1, <4>1, <4>2 DEF Adjacent
    <3>2. CASE k = i
      <4>1. \A j \in 1..n : ~IsSegment(f[j])
        <5> TAKE j \in 1..n
        <5>1. CASE j \in 1..i
          BY <1>5, <5>1
        <5>2. CASE ~(j \in 1..i)
          <6>1. ~(j <= i) /\ j # i
            BY <1>1, <5>2
          <6> QED BY <1>3, <2>2, <3>2, <6>1
        <5> QED BY <5>1, <5>2
      <4>2. b.len = from
        BY <1>1, <4>1 DEF Adjacent
      <4> QED BY <1>3, <2>2, <3>2, <4>2
    <3> QED BY <3>1, <3>2
  <2> QED BY <1>3, <2>1, <2>2 DEF Adjacent
<1>8. \A k \in 1..(i - 1) : Vacant(d[k], g[k])
  <2> TAKE k \in 1..(i - 1)
  <2>1. k \in 1..n /\ k \in 1..i /\ k # i
    BY <1>1
  <2> QED BY <1>3, <2>1
<1> QED BY <1>2, <1>6, <1>7, <1>8

\* An object is written and folded, or kept as a segment.
LEMMA ObjectWritten ==
  ASSUME NEW b, Sound(b), NEW from \in Nat, from <= b.len, NEW ws \in Seq(Nat), ws # <<>>,
         Len(ws) <= 3 => ~IsOffset(ws[1]),
         NEW written, written = PutWords(b, ws),
         NEW done, done = Folded(SegmentUnit(b.len, written.len), written)
  PROVE  /\ Sound(done.buf) /\ b.len <= done.buf.len
         /\ \A p \in 1..b.len : done.buf.data[p] = b.data[p]
         /\ done.unit \in UnitType
         /\ Kept(done.buf, from, [object |-> TRUE, words |-> ws], done.unit)
         /\ ~IsSegment(done.unit) => done.buf.len = b.len
         /\ IsSegment(done.unit) => done.unit.pos = b.len + done.unit.len
<1>1. PICK L, l \in Nat : L = b.len /\ l = Len(ws) /\ l # 0
  BY SoundParts
<1>2. PICK t \in Nat : t = L + l /\ t - L = l /\ t - l = L /\ L <= t
  <2>1. L + l \in Nat /\ (L + l) - L = l /\ (L + l) - l = L /\ L <= L + l
    OBVIOUS
  <2> QED BY <2>1
<1>3. /\ Sound(written) /\ written.len = t
      /\ \A p \in 1..L : written.data[p] = b.data[p]
      /\ ReadAt(written, t, l) = ws
  BY <1>1, <1>2, PutWordsPrepends
<1>4. PICK u : u = SegmentUnit(b.len, written.len) /\ u = [inline |-> <<>>, pos |-> t, len |-> l]
  BY <1>1, <1>2, <1>3 DEF SegmentUnit
<1>5. IsSegment(u) /\ u \in UnitType
  BY <1>1, <1>4 DEF IsSegment, UnitType
<1>6. CASE l < 4
  <2>1. done = [unit |-> InlineUnit(ReadAt(written, t, l)), buf |-> Shrink(written, l)]
    BY <1>3, <1>4, <1>5, <1>6 DEF Folded
  <2>2. done.unit = [inline |-> ws, pos |-> 0, len |-> 0] /\ done.buf = Shrink(written, l)
    BY <1>3, <2>1 DEF InlineUnit
  <2>3. l \in 0..written.len
    BY <1>2, <1>3
  <2>4. /\ Sound(done.buf) /\ done.buf.len = L
        /\ done.buf.data = written.data
    BY <1>2, <1>3, <2>2, <2>3, ShrinkKeeps, SMTT(30)
  <2>5. ~IsSegment(done.unit) /\ done.unit \in UnitType
    BY <2>2 DEF IsSegment, UnitType
  <2>6. l <= 3
    BY <1>6
  <2>7. Inside([object |-> TRUE, words |-> ws], done.unit)
    BY <1>1, <2>2, <2>6 DEF Inside
  <2> QED BY <1>1, <1>3, <2>4, <2>5, <2>7 DEF Kept
<1>7. CASE ~(l < 4)
  <2>1. done.unit = u /\ done.buf = written
    BY <1>4, <1>7 DEF Folded
  <2>2. Outside(written, from, [object |-> TRUE, words |-> ws], u)
    <3>1. from <= L /\ t = L + l
      BY <1>1, <1>2
    <3>2. from + l <= t
      BY ONLY <3>1, from \in Nat, L \in Nat, l \in Nat, t \in Nat
    <3>3. t <= written.len
      BY <1>3
    <3> QED BY <1>1, <1>3, <1>4, <3>2, <3>3 DEF Outside
  <2>3. Kept(done.buf, from, [object |-> TRUE, words |-> ws], done.unit)
    BY <2>1, <2>2 DEF Kept
  <2>4. u.pos = b.len + u.len
    BY <1>1, <1>2, <1>4
  <2>5. b.len <= written.len
    BY <1>1, <1>2, <1>3
  <2> QED BY <1>1, <1>3, <1>5, <2>1, <2>3, <2>4, <2>5
<1> QED BY <1>6, <1>7

-----------------------------------------------------------------------------
(***************************************************************************)
(* The steps.                                                              *)
(***************************************************************************)

\* The words that were there when the message was begun.
Earlier == ReadAt(buf', last, last) = ReadAt(buf, last, last)

\* What every step does: the invariant goes on to hold, the earlier words stay.
StepKeeps == MessageInv' /\ Earlier

\* The invariant holds when a message is begun (prepare of the generated
\* encoders: the buffer's length is taken down, and no field is encoded yet).
LEMMA MessageBegins ==
  ASSUME Init
  PROVE  MessageInv
<1>1. buf \in StartBuffers /\ last = buf.len /\ pc = "fields"
  BY DEF Init
<1>2. Sound(buf) /\ buf.len \in Nat
  <2>1. Sound(buf)
    BY <1>1, StartAssumption DEF Sound
  <2> QED BY <2>1, SoundParts
<1>3. PICK n \in Counts : /\ fields = [k \in 1..n |-> EmptyUnit]
                          /\ content = [k \in 1..n |-> Absent] /\ slot = n
  BY DEF Init
<1>4. n \in Nat
  BY CountsAssumption
<1>5. EmptyUnit \in UnitType /\ Absent \in ContentType /\ Len(EmptyUnit.inline) <= 3 /\ ~IsSegment(EmptyUnit)
  BY DEF EmptyUnit, InlineUnit, UnitType, Absent, ContentType, IsSegment
<1>6. /\ fields \in Seq(UnitType) /\ Len(fields) = n /\ content \in Seq(ContentType) /\ Len(content) = n
      /\ \A k \in 1..n : fields[k] = EmptyUnit /\ content[k] = Absent
  BY <1>3, <1>4, <1>5
<1>7. Consistent
  <2>1. Narrow(fields)
    BY <1>5, <1>6 DEF Narrow
  <2>2. slot \in 0..n
    BY <1>3, <1>4
  <2> QED BY <1>1, <1>2, <1>6, <2>1, <2>2 DEF Consistent
<1>8. \A k \in 1..n : Vacant(content[k], fields[k])
  BY <1>6 DEF Vacant
<1>9. Filled(buf, last, content, fields)
  BY <1>1, <1>2, <1>6, <1>8 DEF Filled, Kept
<1>10. Adjacent(buf, last, fields)
  BY <1>1, <1>5, <1>6 DEF Adjacent
<1>11. Working
  BY <1>3, <1>8, <1>9, <1>10 DEF Working
<1> QED BY <1>1, <1>7, <1>11 DEF MessageInv, FieldsFound, DetectsExactExtent

\* Storing a field keeps the invariant, when the field holds its content.
LEMMA StoreKeeps ==
  ASSUME MessageInv, pc = "fields", slot > 0, NEW v \in ContentType, NEW new, NEW u \in UnitType,
         Store(v, new, u),
         Sound(new), buf.len <= new.len, \A p \in 1..buf.len : new.data[p] = buf.data[p],
         Kept(new, last, v, u), ~IsSegment(u) => new.len = buf.len,
         IsSegment(u) => u.pos = buf.len + u.len
  PROVE  StepKeeps
<1>1. Consistent /\ Filled(buf, last, content, fields) /\ Adjacent(buf, last, fields)
      /\ \A k \in 1..slot : Vacant(content[k], fields[k])
  BY DEF MessageInv, Working
<1>2. /\ content' = [content EXCEPT ![slot] = v] /\ fields' = [fields EXCEPT ![slot] = u]
      /\ buf' = new /\ slot' = slot - 1 /\ last' = last /\ pc' = "fields"
  BY DEF Store
<1>3. PICK n \in Nat : n = Len(fields) /\ n \in Counts /\ slot \in 1..n
  BY <1>1, WidthsFit DEF Consistent
<1>4. /\ Filled(new, last, content', fields') /\ Adjacent(new, last, fields')
      /\ \A k \in 1..(slot - 1) : Vacant(content'[k], fields'[k])
  BY <1>1, <1>2, <1>3, StoredField
<1>5. Working'
  BY <1>2, <1>4 DEF Working
<1>6. Consistent'
  <2>1. Narrow(fields')
    BY <1>4, FilledMeans
  <2>2. Len(fields') = n
    BY <1>1, <1>2, <1>3 DEF Filled
  <2>3. slot - 1 \in 0..n
    BY <1>3
  <2>4. Sound(new) /\ last \in Nat /\ last <= new.len /\ content' \in Seq(ContentType)
        /\ Len(fields') = Len(content')
    BY <1>4 DEF Filled
  <2> QED BY <1>2, <1>3, <2>1, <2>2, <2>3, <2>4 DEF Consistent
<1>7. Earlier
  <2>1. PICK l, L \in Nat : l = last /\ L = buf.len /\ l <= L
    BY <1>1, SoundParts DEF Consistent
  <2>2. \A j \in 1..l : l - j + 1 \in 1..L
    BY <2>1
  <2>3. \A j \in 1..l : new.data[l - j + 1] = buf.data[l - j + 1]
    BY <2>1, <2>2
  <2>4. ReadAt(new, l, l) = ReadAt(buf, l, l)
    BY <2>3 DEF ReadAt
  <2> QED BY <1>2, <2>1, <2>4 DEF Earlier
<1> QED BY <1>2, <1>5, <1>6, <1>7 DEF StepKeeps, MessageInv, FieldsFound, DetectsExactExtent

\* A field that is not set.
LEMMA LeaveOutKeeps ==
  ASSUME MessageInv, LeaveOut
  PROVE  StepKeeps
<1>1. pc = "fields" /\ slot > 0 /\ Store(Absent, buf, EmptyUnit)
  BY DEF LeaveOut
<1>2. Absent \in ContentType /\ EmptyUnit \in UnitType /\ ~IsSegment(EmptyUnit)
  BY DEF EmptyUnit, InlineUnit, UnitType, Absent, ContentType, IsSegment
<1>3. Sound(buf) /\ buf.len <= buf.len
  <2>1. Sound(buf)
    BY DEF MessageInv, Consistent
  <2> QED BY <2>1, SoundParts
<1>4. Kept(buf, last, Absent, EmptyUnit)
  BY DEF Kept, Vacant
<1> QED BY <1>1, <1>2, <1>3, <1>4, StoreKeeps

\* The fields' number is one of Counts, and their contents are the caller's.
LEMMA GivenContents ==
  ASSUME MessageInv, slot > 0
  PROVE  /\ \A ws \in Scalars(slot) : ws \in Seq(Nat) /\ ws # <<>> /\ Len(ws) <= 3
         /\ \A ws \in Objects(slot) :
              ws \in Seq(Nat) /\ ws # <<>> /\ (Len(ws) <= 3 => ~IsOffset(ws[1]))
<1>1. PICK n \in Counts : n \in Nat /\ slot \in 1..n
  <2>1. Len(fields) \in Counts /\ Len(fields) \in Nat /\ slot \in 0..Len(fields)
    BY WidthsFit DEF MessageInv, Consistent
  <2>2. slot \in 1..Len(fields)
    BY <2>1
  <2> QED BY <2>1, <2>2
<1>2. Scalars(slot) \cup Objects(slot) \subseteq Seq(Nat) \ {<<>>}
  BY <1>1, ContentsAssumption
<1>3. /\ \A ws \in Scalars(slot) : Len(ws) <= 3
      /\ \A ws \in Objects(slot) : Len(ws) <= 3 => ~IsOffset(ws[1])
  BY <1>1, ShortAssumption
<1> QED BY <1>2, <1>3

\* A scalar goes into the field as it is.
LEMMA WriteScalarKeeps ==
  ASSUME MessageInv, WriteScalar
  PROVE  StepKeeps
<1>1. PICK ws \in Scalars(slot) :
        pc = "fields" /\ slot > 0 /\ Store([object |-> FALSE, words |-> ws], buf, InlineUnit(ws))
  BY DEF WriteScalar
<1>2. ws \in Seq(Nat) /\ ws # <<>> /\ Len(ws) <= 3
  BY <1>1, GivenContents
<1>3. PICK v \in ContentType : v = [object |-> FALSE, words |-> ws]
  BY <1>2 DEF ContentType
<1>4. PICK u \in UnitType : u = InlineUnit(ws) /\ u.inline = ws
  <2>1. InlineUnit(ws) \in UnitType /\ InlineUnit(ws).inline = ws
    BY <1>2 DEF InlineUnit, UnitType
  <2> QED BY <2>1
<1>5. ~IsSegment(u)
  BY <1>2, <1>4 DEF IsSegment
<1>6. Sound(buf) /\ buf.len <= buf.len
  <2>1. Sound(buf)
    BY DEF MessageInv, Consistent
  <2> QED BY <2>1, SoundParts
<1>7. Kept(buf, last, v, u)
  BY <1>2, <1>3, <1>4 DEF Kept, Inside
<1> QED BY <1>1, <1>3, <1>4, <1>5, <1>6, <1>7, StoreKeeps

\* An object goes into the buffer, and from there into the field when it is short.
LEMMA WriteObjectKeeps ==
  ASSUME MessageInv, WriteObject
  PROVE  StepKeeps
<1>0. PICK ws \in Objects(slot) :
        LET b    == PutWords(buf, ws)
            done == Folded(SegmentUnit(buf.len, b.len), b)
        IN  Store([object |-> TRUE, words |-> ws], done.buf, done.unit)
  BY DEF WriteObject
<1>1. PICK written, done :
        /\ pc = "fields" /\ slot > 0
        /\ written = PutWords(buf, ws)
        /\ done = Folded(SegmentUnit(buf.len, written.len), written)
        /\ Store([object |-> TRUE, words |-> ws], done.buf, done.unit)
  BY <1>0 DEF WriteObject
<1>2. ws \in Seq(Nat) /\ ws # <<>> /\ (Len(ws) <= 3 => ~IsOffset(ws[1]))
  BY <1>1, GivenContents
<1>3. Sound(buf) /\ last \in Nat /\ last <= buf.len
  BY DEF MessageInv, Consistent
<1>4. PICK v \in ContentType : v = [object |-> TRUE, words |-> ws]
  BY <1>2 DEF ContentType
<1>5. /\ Sound(done.buf) /\ buf.len <= done.buf.len
      /\ \A p \in 1..buf.len : done.buf.data[p] = buf.data[p]
      /\ done.unit \in UnitType
      /\ Kept(done.buf, last, [object |-> TRUE, words |-> ws], done.unit)
      /\ ~IsSegment(done.unit) => done.buf.len = buf.len
      /\ IsSegment(done.unit) => done.unit.pos = buf.len + done.unit.len
  <2>1. written = PutWords(buf, ws) /\ done = Folded(SegmentUnit(buf.len, written.len), written)
    BY <1>1
  <2> QED BY ONLY <1>2, <1>3, <2>1, ObjectWritten, SMTT(30)
<1>6. PICK new, u : new = done.buf /\ u = done.unit
  OBVIOUS
<1> QED BY <1>1, <1>4, <1>5, <1>6, StoreKeeps

\* A field that cannot be encoded, or a message that is refused: nothing else
\* changes.
LEMMA StopsKeep ==
  ASSUME MessageInv, WriteFails \/ Refuse
  PROVE  StepKeeps
<1>1. /\ pc = "fields" /\ pc' \in {"refused", "failed"}
      /\ UNCHANGED <<content, buf, last, fields, slot, result>>
  BY DEF WriteFails, Refuse
<1>2. Consistent' /\ Working'
  BY <1>1 DEF MessageInv, Consistent, Working
<1> QED BY <1>1, <1>2 DEF StepKeeps, MessageInv, FieldsFound, DetectsExactExtent, Earlier

\* serialize_message_at: the words behind the new ones stay, every field is
\* found in what was written, and the detector finds the end of it.
LEMMA EncodeKeeps ==
  ASSUME MessageInv, Encode
  PROVE  StepKeeps
<1>1. /\ pc = "fields" /\ pc' = "encoded" /\ ~Refused(fields)
      /\ buf' = Serialized(fields, buf, last).buf /\ result' = Serialized(fields, buf, last).unit
      /\ UNCHANGED <<content, last, fields, slot>>
  BY DEF Encode
<1>2. Consistent /\ Filled(buf, last, content, fields) /\ Adjacent(buf, last, fields)
  BY <1>1 DEF MessageInv, Working
<1>3. PICK u : u = Used(fields) /\ UsedOf(u, fields)
  BY <1>2, FilledMeans, UsedKeeps
<1>4. Narrow(u) /\ Behind(u, buf.len) /\ buf.len \in Nat /\ Narrow(fields)
  <2>1. Narrow(fields) /\ Behind(fields, buf.len) /\ buf.len \in Nat
    BY <1>2, FilledMeans
  <2>2. Narrow(u) /\ \A k \in 1..Len(u) : k \in 1..Len(fields) /\ u[k] = fields[k]
    BY <1>3, <2>1, WidthsFit DEF UsedOf
  <2> QED BY <2>1, <2>2 DEF Behind
<1>5. Sections(Len(u)) < SectionRange
  <2>1. ~(Sections(Len(u)) >= SectionRange)
    BY <1>1, <1>3 DEF Refused, Used
  <2>2. Sections(Len(u)) \in Nat /\ SectionRange \in Nat
    BY <1>4, WidthsFit, SectionsReach, LayoutAssumption
  <2> QED BY <2>1, <2>2
<1>6. PICK new : new = PutWords(buf, Block(u, buf.len))
  OBVIOUS
<1>7. buf' = new /\ result' = SegmentUnit(last, new.len)
  <2>1. Serialized(fields, buf, last) = Ended(new, last)
    BY <1>2, <1>3, <1>6, SerializedIs
  <2> QED BY <1>1, <2>1 DEF Ended
<1>8. /\ Sound(new) /\ new.len = buf.len + BlockLength(u) /\ BlockLength(u) \in Nat
      /\ \A p \in 1..buf.len : new.data[p] = buf.data[p]
      /\ Framed(ReadAt(new, new.len, new.len), u, buf, last)
  BY <1>2, <1>4, <1>5, <1>6, EncodedIs DEF Consistent
<1>9. PICK words : words = ReadAt(new, new.len, new.len) /\ words = Slice' /\ Framed(words, u, buf, last)
  BY <1>7, <1>8 DEF Slice
<1>10. PICK l, L, A \in Nat : l = last /\ L = buf.len /\ A = BlockLength(u) /\ l <= L
  BY <1>2, <1>4, <1>8 DEF Consistent
<1>11. Consistent'
  <2>1. last <= new.len
    BY <1>8, <1>10
  <2> QED BY <1>1, <1>2, <1>7, <1>8, <2>1 DEF Consistent
<1>12. Earlier
  <2>1. \A j \in 1..l : l - j + 1 \in 1..L
    BY <1>10
  <2>2. \A j \in 1..l : new.data[l - j + 1] = buf.data[l - j + 1]
    BY <1>8, <1>10, <2>1
  <2>3. ReadAt(new, l, l) = ReadAt(buf, l, l)
    BY <2>2 DEF ReadAt
  <2> QED BY <1>7, <1>10, <2>3 DEF Earlier
<1>13. ASSUME CountsFit' PROVE Readable(words, u, buf, last)
  <2>1. \A s \in 0..(Sections(UsedLength(fields)) - 1) : BodyBefore(fields, SectionStart(s)) < CountRange
    BY <1>1, <1>13 DEF CountsFit
  <2>2. CountsSuffice(u)
    BY <1>3, <1>4, <2>1, UsedCounts
  <2>3. last \in Nat /\ last <= buf.len
    BY <1>2 DEF Consistent
  <2> QED BY <1>4, <1>5, <1>9, <2>2, <2>3 DEF Readable
<1>14. FieldsFound'
  <2> SUFFICES ASSUME CountsFit' PROVE AllFieldsRead'
    BY DEF FieldsFound
  <2>1. PICK H, R, F \in Nat : H = HeadFields /\ R = SectionRange /\ F = SectionFields
    BY LayoutAssumption
  <2>2. PICK X \in Nat : X = H + R * F
    <3>1. H + R * F \in Nat
      OBVIOUS
    <3> QED BY <3>1
  <2>3. ASSUME NEW k \in 1..X PROVE FieldReads(k)'
    <3>1. k \in Nat /\ k >= 1
      OBVIOUS
    <3>2. Readable(words, u, buf, last)
      BY <1>13
    <3>3. Found(words, content, k)
      BY <1>2, <1>3, <3>1, <3>2, EveryFieldFound
    <3> QED BY <1>1, <1>9, <3>3 DEF Found, FieldReads
  <2> QED BY <2>1, <2>2, <2>3 DEF AllFieldsRead
<1>15. DetectsExactExtent'
  <2> SUFFICES ASSUME CountsFit'
               PROVE  (LET objects == {k \in 1..Len(content) : content[k].object}
                           size    == [k \in objects |-> Len(content[k].words)]
                       IN  DetectWhole(Slice, objects, size) = result.len)'
    BY DEF DetectsExactExtent
  <2>1. PICK objects : objects = {k \in 1..Len(content) : content[k].object}
    OBVIOUS
  <2>2. PICK size : size = [k \in objects |-> Len(content[k].words)]
    OBVIOUS
  <2>3. Readable(words, u, buf, last)
    BY <1>13
  <2>4. DetectWhole(words, objects, size) = buf.len + BlockLength(u) - last
    BY <1>2, <1>3, <2>1, <2>2, <2>3, DetectsWhole
  <2>5. result'.len = new.len - last
    BY <1>7 DEF SegmentUnit
  <2>6. DetectWhole(words, objects, size) = result'.len
    <3>1. PICK d, r : d = DetectWhole(words, objects, size) /\ r = result'.len
      OBVIOUS
    <3>2. new.len = L + A
      BY <1>8, <1>10
    <3>3. d = L + A - l
      BY <1>10, <2>4, <3>1
    <3>4. r = new.len - l
      BY <1>10, <2>5, <3>1
    <3> QED BY ONLY <3>1, <3>2, <3>3, <3>4
  <2> QED BY <1>1, <1>9, <2>1, <2>2, <2>6
<1>16. Working'
  BY <1>1 DEF Working
<1> QED BY <1>11, <1>12, <1>14, <1>15, <1>16 DEF StepKeeps, MessageInv

\* Every step keeps the invariant.
LEMMA MessageGoesOn ==
  ASSUME MessageInv, [Next]_vars
  PROVE  StepKeeps
<1>1. CASE LeaveOut
  BY <1>1, LeaveOutKeeps
<1>2. CASE WriteScalar
  BY <1>2, WriteScalarKeeps
<1>3. CASE WriteObject
  BY <1>3, WriteObjectKeeps
<1>4. CASE WriteFails \/ Refuse
  BY <1>4, StopsKeep
<1>5. CASE Encode
  BY <1>5, EncodeKeeps
<1>6. CASE UNCHANGED vars
  <2>1. UNCHANGED <<content, buf, last, fields, slot, pc, result>>
    BY <1>6 DEF vars
  <2>2. Consistent' /\ Working'
    BY <2>1 DEF MessageInv, Consistent, Working
  <2>3. FieldsFound'
    BY <2>1 DEF MessageInv, FieldsFound, AllFieldsRead, CountsFit, FieldReads, Slice
  <2>4. DetectsExactExtent'
    BY <2>1 DEF MessageInv, DetectsExactExtent, CountsFit, Slice
  <2>5. Earlier
    BY <2>1 DEF Earlier
  <2> QED BY <2>2, <2>3, <2>4, <2>5 DEF StepKeeps, MessageInv
<1> QED BY <1>1, <1>2, <1>3, <1>4, <1>5, <1>6 DEF Next

\* What the invariant says of the state.
LEMMA MessageInvMeans ==
  ASSUME MessageInv
  PROVE  ReadsBack /\ DetectsExactExtent
<1>1. Consistent /\ FieldsFound /\ DetectsExactExtent
  BY DEF MessageInv
<1>2. TypeOK
  BY <1>1 DEF Consistent, TypeOK, Sound, Narrow, ContentType
<1>3. pc = "encoded" /\ CountsFit => AllFieldsRead
  BY <1>1 DEF FieldsFound
<1> QED BY <1>1, <1>2, <1>3 DEF ReadsBack

-----------------------------------------------------------------------------
(***************************************************************************)
(* A view over an encoded message finds each field's words at its number   *)
(* and no field that was left out, for every number of fields the header   *)
(* can hold: the widths are read back from the header word and from each   *)
(* section's mark, the body words before a field add up to where it        *)
(* stands, what is folded is not taken for an offset, and an offset leads  *)
(* to the segment (serialize_message_at; MessageView of access.rs).        *)
(***************************************************************************)
THEOREM MessageReadsBack == Spec => []ReadsBack
<1>1. Init => MessageInv
  BY MessageBegins
<1>2. MessageInv /\ [Next]_vars => MessageInv'
  BY MessageGoesOn DEF StepKeeps
<1>3. MessageInv => ReadsBack
  BY MessageInvMeans
<1> QED BY <1>1, <1>2, <1>3, PTL DEF Spec

(***************************************************************************)
(* The generated DetectLen finds the end of exactly what the encoder       *)
(* returned, though it stops at the first field from the back that ends    *)
(* beyond the body: fields are encoded from the last to the first, so this *)
(* one's object was written first.                                         *)
(***************************************************************************)
THEOREM MessageExtentIsExact == Spec => []DetectsExactExtent
<1>1. Init => MessageInv
  BY MessageBegins
<1>2. MessageInv /\ [Next]_vars => MessageInv'
  BY MessageGoesOn DEF StepKeeps
<1>3. MessageInv => DetectsExactExtent
  BY MessageInvMeans
<1> QED BY <1>1, <1>2, <1>3, PTL DEF Spec

(***************************************************************************)
(* Encoding a message changes none of the words the buffer held when it    *)
(* was begun, whatever is folded and however the storage grows             *)
(* (fold_field, put_words and grow of the Buffer).                         *)
(***************************************************************************)
THEOREM MessageKeepsEarlierWords == Spec => EarlierWordsKept
<1>1. Init => MessageInv
  BY MessageBegins
<1>2. MessageInv /\ [Next]_vars => MessageInv'
  BY MessageGoesOn DEF StepKeeps
<1>3. MessageInv /\ [Next]_vars => [ReadAt(buf', last, last) = ReadAt(buf, last, last)]_vars
  BY MessageGoesOn DEF StepKeeps, Earlier
<1> QED BY <1>1, <1>2, <1>3, PTL DEF Spec, EarlierWordsKept

-----------------------------------------------------------------------------
(***************************************************************************)
(* MutableMessage, from here on.  First, what encoding one field appends,  *)
(* before the fields that were encoded already, and all of them in turn.   *)
(***************************************************************************)

\* What encoding one field does: what was there stays, and the Unit holds the
\* field's content, as a segment when it is too long to be folded.  This is what
\* was written, and nothing else was.
Appended(b, from, c, done) ==
  /\ Sound(done.buf) /\ b.len <= done.buf.len
  /\ \A p \in 1..b.len : done.buf.data[p] = b.data[p]
  /\ done.unit \in UnitType
  /\ Kept(done.buf, from, c, done.unit)
  /\ ~IsSegment(done.unit) => done.buf.len = b.len
  /\ IsSegment(done.unit) => done.unit.pos = b.len + done.unit.len /\ done.buf.len = done.unit.pos
  /\ IsSegment(done.unit) <=> Len(c.words) > 3

\* A field that is left out.
LEMMA LeftOut ==
  ASSUME NEW b, Sound(b), NEW from, NEW new, Sound(new), new.len = b.len,
         \A p \in 1..b.len : new.data[p] = b.data[p],
         NEW done, done = [unit |-> EmptyUnit, buf |-> new]
  PROVE  Appended(b, from, Absent, done)
<1>1. done.unit = EmptyUnit /\ done.buf = new /\ b.len \in Nat
  BY SoundParts
<1>2. EmptyUnit \in UnitType /\ ~IsSegment(EmptyUnit)
  <2>1. EmptyUnit = [inline |-> <<>>, pos |-> 0, len |-> 0]
    BY DEF EmptyUnit, InlineUnit
  <2> QED BY <2>1 DEF UnitType, IsSegment
<1>3. Kept(new, from, Absent, EmptyUnit)
  BY DEF Kept, Vacant
<1>4. b.len <= b.len
  BY <1>1
<1>5. ~(Len(Absent.words) > 3)
  BY DEF Absent
<1> QED BY <1>1, <1>2, <1>3, <1>4, <1>5 DEF Appended

\* A field whose words become a part of the message's body.
LEMMA HeldInline ==
  ASSUME NEW b, Sound(b), NEW from, NEW ws \in Seq(Nat), ws # <<>>, Len(ws) <= 3,
         NEW object \in BOOLEAN, object => ~IsOffset(ws[1]),
         NEW done, done = [unit |-> InlineUnit(ws), buf |-> b]
  PROVE  Appended(b, from, [object |-> object, words |-> ws], done)
<1>1. PICK u : u = InlineUnit(ws)
  OBVIOUS
<1>2. done.unit = u /\ done.buf = b /\ b.len \in Nat
  BY <1>1, SoundParts
<1>3. u = [inline |-> ws, pos |-> 0, len |-> 0]
  BY <1>1 DEF InlineUnit
<1>4. u \in UnitType /\ ~IsSegment(u)
  BY <1>3 DEF UnitType, IsSegment
<1>5. Kept(b, from, [object |-> object, words |-> ws], u)
  BY <1>3 DEF Kept, Inside
<1>6. b.len <= b.len
  BY <1>2
<1>7. ~(Len(ws) > 3) /\ [object |-> object, words |-> ws].words = ws
  OBVIOUS
<1> QED BY <1>2, <1>4, <1>5, <1>6, <1>7 DEF Appended

\* The words from the start of the field's encoding on: a segment of the buffer.
LEMMA HeadSegment ==
  ASSUME NEW b, Sound(b), NEW from \in Nat, from <= b.len, NEW ws \in Seq(Nat), ws # <<>>,
         NEW new, Sound(new), new.len = b.len + Len(ws),
         \A p \in 1..b.len : new.data[p] = b.data[p],
         ReadAt(new, new.len, Len(ws)) = ws
  PROVE  /\ Len(ws) > 3 => Appended(b, from, [object |-> TRUE, words |-> ws],
                                    [unit |-> SegmentUnit(b.len, new.len), buf |-> new])
         /\ IsSegment(SegmentUnit(b.len, new.len))
         /\ SegmentUnit(b.len, new.len) = [inline |-> <<>>, pos |-> new.len, len |-> Len(ws)]
<1>1. PICK L, l \in Nat : L = b.len /\ l = Len(ws) /\ l # 0
  BY SoundParts
<1>2. PICK t \in Nat : t = L + l /\ t - L = l /\ L <= t
  <2>1. L + l \in Nat /\ (L + l) - L = l /\ L <= L + l
    OBVIOUS
  <2> QED BY <2>1
<1>3. new.len = t
  BY <1>1, <1>2
<1>4. PICK u : u = SegmentUnit(b.len, new.len) /\ u = [inline |-> <<>>, pos |-> t, len |-> l]
  BY <1>1, <1>2, <1>3 DEF SegmentUnit
<1>5. IsSegment(u) /\ u \in UnitType
  <2>1. u.inline = <<>> /\ u.len = l
    BY <1>4
  <2>2. <<>> \in Seq(Nat)
    OBVIOUS
  <2>3. [inline |-> <<>>, pos |-> t, len |-> l] \in [inline : Seq(Nat), pos : Nat, len : Nat]
    BY <2>2
  <2>4. IsSegment(u)
    BY <1>1, <2>1 DEF IsSegment
  <2> QED BY <1>4, <2>3, <2>4 DEF UnitType
<1>6. Outside(new, from, [object |-> TRUE, words |-> ws], u)
  <2>1. from <= L /\ t = L + l
    BY <1>1, <1>2
  <2>2. from + l <= t
    BY ONLY <2>1, from \in Nat, L \in Nat, l \in Nat, t \in Nat
  <2>3. t <= new.len
    BY <1>3
  <2> QED BY <1>1, <1>3, <1>4, <2>2, <2>3 DEF Outside
<1>7. PICK done : done = [unit |-> u, buf |-> new]
  OBVIOUS
<1>8. done.unit = u /\ done.buf = new
  BY <1>7
<1>9. Kept(done.buf, from, [object |-> TRUE, words |-> ws], done.unit)
  BY <1>6, <1>8 DEF Kept
<1>10. u.pos = b.len + u.len /\ b.len <= new.len /\ new.len = u.pos
  <2>1. u.pos = t /\ u.len = l
    BY <1>4
  <2> QED BY <1>1, <1>2, <1>3, <2>1
<1>11. Len(ws) > 3 => Appended(b, from, [object |-> TRUE, words |-> ws], done)
  BY <1>5, <1>8, <1>9, <1>10 DEF Appended
<1> QED BY <1>1, <1>3, <1>4, <1>5, <1>7, <1>11

\* The same when it is folded.
LEMMA HeadFolded ==
  ASSUME NEW b, Sound(b), NEW from \in Nat, from <= b.len, NEW ws \in Seq(Nat), ws # <<>>,
         Len(ws) <= 3 => ~IsOffset(ws[1]),
         NEW new, Sound(new), new.len = b.len + Len(ws),
         \A p \in 1..b.len : new.data[p] = b.data[p],
         ReadAt(new, new.len, Len(ws)) = ws
  PROVE  Appended(b, from, [object |-> TRUE, words |-> ws],
                  Folded(SegmentUnit(b.len, new.len), new))
<1>1. PICK L, l, t \in Nat : L = b.len /\ l = Len(ws) /\ l # 0 /\ t = new.len /\ t = L + l
  <2>1. b.len \in Nat /\ Len(ws) \in Nat /\ Len(ws) # 0 /\ new.len \in Nat
    BY SoundParts
  <2> QED BY <2>1
<1>2. PICK u : /\ u = SegmentUnit(b.len, new.len) /\ IsSegment(u)
               /\ u = [inline |-> <<>>, pos |-> t, len |-> l]
               /\ l > 3 => Appended(b, from, [object |-> TRUE, words |-> ws], [unit |-> u, buf |-> new])
  <2>1. /\ Len(ws) > 3 => Appended(b, from, [object |-> TRUE, words |-> ws],
                                   [unit |-> SegmentUnit(b.len, new.len), buf |-> new])
        /\ IsSegment(SegmentUnit(b.len, new.len))
        /\ SegmentUnit(b.len, new.len) = [inline |-> <<>>, pos |-> new.len, len |-> Len(ws)]
    BY HeadSegment, SMTT(30)
  <2> QED BY <1>1, <2>1
<1>3. u.pos = t /\ u.len = l
  BY <1>2
<1>4. CASE ~(l < 4)
  <2>1. Folded(u, new) = [unit |-> u, buf |-> new]
    BY <1>3, <1>4 DEF Folded
  <2>2. l > 3
    BY <1>4
  <2> QED BY <1>2, <2>1, <2>2
<1>5. CASE l < 4
  <2>1. PICK done : done = Folded(u, new)
    OBVIOUS
  <2>2. done = [unit |-> InlineUnit(ReadAt(new, t, l)), buf |-> Shrink(new, l)]
    BY <1>1, <1>2, <1>3, <1>5, <2>1 DEF Folded
  <2>3. ReadAt(new, t, l) = ws
    BY <1>1
  <2>4. done.unit = [inline |-> ws, pos |-> 0, len |-> 0] /\ done.buf = Shrink(new, l)
    BY <2>2, <2>3 DEF InlineUnit
  <2>5. l \in 0..new.len
    BY <1>1
  <2>6. Sound(done.buf) /\ done.buf.len = new.len - l /\ done.buf.data = new.data
    BY <2>4, <2>5, ShrinkKeeps
  <2>7. done.buf.len = L
    <3>1. (L + l) - l = L
      OBVIOUS
    <3> QED BY <1>1, <2>6, <3>1
  <2>8. ~IsSegment(done.unit) /\ done.unit \in UnitType
    BY <2>4 DEF IsSegment, UnitType
  <2>9. Len(ws) <= 3
    BY <1>1, <1>5
  <2>10. Kept(done.buf, from, [object |-> TRUE, words |-> ws], done.unit)
    BY <2>4, <2>9 DEF Kept, Inside
  <2>11. b.len <= done.buf.len /\ done.buf.len = b.len
    BY <1>1, <2>7
  <2>12. \A p \in 1..b.len : done.buf.data[p] = b.data[p]
    BY <2>6
  <2>13. Appended(b, from, [object |-> TRUE, words |-> ws], done)
    BY <2>6, <2>8, <2>9, <2>10, <2>11, <2>12 DEF Appended
  <2> QED BY <1>2, <2>1, <2>13
<1> QED BY <1>2, <1>4, <1>5

\* What was appended joins what was there: what encoding a message's fields, one
\* before the other, comes to.
LEMMA PrependedField ==
  ASSUME NEW b, NEW from, NEW c, NEW f, Filled(b, from, c, f), Adjacent(b, from, f),
         NEW v \in ContentType, NEW done, Appended(b, from, v, done)
  PROVE  /\ Filled(done.buf, from, <<v>> \o c, <<done.unit>> \o f)
         /\ Adjacent(done.buf, from, <<done.unit>> \o f)
<1>1. PICK n \in Nat : n = Len(f) /\ n = Len(c)
  BY FilledMeans, WidthsFit DEF Filled
<1>2. PICK new, u : new = done.buf /\ u = done.unit
  OBVIOUS
<1>3. /\ Sound(new) /\ b.len <= new.len /\ \A p \in 1..b.len : new.data[p] = b.data[p]
      /\ u \in UnitType /\ Kept(new, from, v, u)
      /\ ~IsSegment(u) => new.len = b.len
      /\ IsSegment(u) => u.pos = b.len + u.len
  BY <1>2 DEF Appended
<1>4. PICK d, g : d = <<v>> \o c /\ g = <<u>> \o f
  OBVIOUS
<1>5. /\ d \in Seq(ContentType) /\ Len(d) = n + 1 /\ g \in Seq(UnitType) /\ Len(g) = n + 1
      /\ d[1] = v /\ g[1] = u
      /\ \A k \in 1..n : d[k + 1] = c[k] /\ g[k + 1] = f[k]
  <2>1. c \in Seq(ContentType) /\ f \in Seq(UnitType)
    BY DEF Filled
  <2>2. <<v>> \in Seq(ContentType) /\ Len(<<v>>) = 1 /\ <<v>>[1] = v
    OBVIOUS
  <2>3. <<u>> \in Seq(UnitType) /\ Len(<<u>>) = 1 /\ <<u>>[1] = u
    <3>1. <<u>> \in Seq(UnitType)
      BY <1>3
    <3>2. Len(<<u>>) = 1 /\ <<u>>[1] = u
      OBVIOUS
    <3> QED BY <3>1, <3>2
  <2>4. /\ d \in Seq(ContentType) /\ Len(d) = 1 + n /\ d[1] = v
        /\ \A k \in 1..n : d[1 + k] = c[k]
    BY <1>1, <1>4, <2>1, <2>2, ConcatPlaces
  <2>5. /\ g \in Seq(UnitType) /\ Len(g) = 1 + n /\ g[1] = u
        /\ \A k \in 1..n : g[1 + k] = f[k]
    <3>1. PICK x : x = <<u>>
      OBVIOUS
    <3>2. /\ x \o f \in Seq(UnitType) /\ Len(x \o f) = Len(x) + Len(f)
          /\ \A p \in 1..Len(x) : (x \o f)[p] = x[p]
          /\ \A p \in 1..Len(f) : (x \o f)[Len(x) + p] = f[p]
      BY <2>1, <2>3, <3>1, ConcatPlaces
    <3> QED BY <1>1, <1>4, <2>3, <3>1, <3>2
  <2>6. 1 + n = n + 1 /\ \A k \in 1..n : 1 + k = k + 1
    OBVIOUS
  <2> QED BY <2>4, <2>5, <2>6
<1>6. b.len \in Nat /\ new.len \in Nat /\ from \in Nat /\ from <= b.len
  BY <1>3, SoundParts DEF Filled
<1>7. \A k \in 1..(n + 1) : k = 1 \/ \E j \in 1..n : k = j + 1
  <2> TAKE k \in 1..(n + 1)
  <2>1. k # 1 => k - 1 \in 1..n /\ k = (k - 1) + 1
    OBVIOUS
  <2> QED BY <2>1
<1>8. Filled(new, from, d, g)
  <2>1. ASSUME NEW k \in 1..(n + 1) PROVE Kept(new, from, d[k], g[k])
    <3>1. CASE k = 1
      BY <1>3, <1>5, <3>1
    <3>2. CASE k # 1
      <4>1. PICK j \in 1..n : k = j + 1
        BY <1>7, <3>2
      <4>2. Kept(b, from, c[j], f[j]) /\ f[j] \in UnitType
        BY <1>1 DEF Filled
      <4>3. Kept(new, from, c[j], f[j])
        BY <1>3, <1>6, <4>2, KeptLonger
      <4> QED BY <1>5, <4>1, <4>3
    <3> QED BY <3>1, <3>2
  <2>2. from <= new.len
    BY <1>3, <1>6
  <2> QED BY <1>3, <1>5, <1>6, <2>1, <2>2 DEF Filled
<1>9. Adjacent(new, from, g)
  <2>1. ASSUME \A k \in 1..(n + 1) : ~IsSegment(g[k]) PROVE new.len = from
    <3>1. ~IsSegment(u)
      <4>1. 1 \in 1..(n + 1)
        OBVIOUS
      <4> QED BY <1>5, <2>1, <4>1
    <3>2. \A k \in 1..n : ~IsSegment(f[k])
      <4> TAKE k \in 1..n
      <4>1. k + 1 \in 1..(n + 1)
        OBVIOUS
      <4> QED BY <1>5, <2>1, <4>1
    <3> QED BY <1>1, <1>3, <3>1, <3>2 DEF Adjacent
  <2>2. ASSUME NEW k \in 1..(n + 1), IsSegment(g[k]),
               \A j \in 1..(n + 1) : IsSegment(g[j]) => j <= k
        PROVE  g[k].pos = from + g[k].len
    <3>1. CASE k # 1
      <4>1. PICK i \in 1..n : k = i + 1
        BY <1>7, <3>1
      <4>2. \A j \in 1..n : IsSegment(f[j]) => j <= i
        <5> TAKE j \in 1..n
        <5>1. j + 1 \in 1..(n + 1) /\ (j + 1 <= i + 1 => j <= i)
          OBVIOUS
        <5> QED BY <1>5, <2>2, <4>1, <5>1
      <4>3. IsSegment(f[i]) /\ g[k] = f[i]
        BY <1>5, <2>2, <4>1
      <4> QED BY <1>1, <4>2, <4>3 DEF Adjacent
    <3>2. CASE k = 1
      <4>1. \A j \in 1..n : ~IsSegment(f[j])
        <5> TAKE j \in 1..n
        <5>1. j + 1 \in 1..(n + 1) /\ ~(j + 1 <= 1)
          OBVIOUS
        <5> QED BY <1>5, <2>2, <3>2, <5>1
      <4>2. b.len = from
        BY <1>1, <4>1 DEF Adjacent
      <4> QED BY <1>3, <1>5, <2>2, <3>2, <4>2
    <3> QED BY <3>1, <3>2
  <2> QED BY <1>5, <2>1, <2>2 DEF Adjacent
<1> QED BY <1>2, <1>4, <1>8, <1>9

\* The fields from number i on were encoded, after b: each has a content out of H.
Gathered(part, b, from, H, i, n) ==
  /\ \A p \in 1..b.len : part.buf.data[p] = b.data[p]
  /\ \E c : /\ Filled(part.buf, from, c, part.units) /\ Adjacent(part.buf, from, part.units)
            /\ Len(c) = n + 1 - i
            /\ \A k \in i..n : c[k + 1 - i] \in H[k]

\* Encoding the fields from the last to the first.
LEMMA FieldsGathered ==
  ASSUME NEW n \in Nat, NEW b, Sound(b), NEW from, from = b.len, NEW H, NEW parts,
         \A k \in 1..n : H[k] \in SUBSET ContentType,
         parts[n + 1] = [units |-> <<>>, buf |-> b],
         \A k \in 1..n : Sound(parts[k + 1].buf) /\ from <= parts[k + 1].buf.len =>
           \E done : \E c \in H[k] : /\ Appended(parts[k + 1].buf, from, c, done)
                                     /\ parts[k] = After(done, parts[k + 1])
  PROVE  Gathered(parts[1], b, from, H, 1, n)
<1>1. b.len \in Nat /\ from \in Nat
  BY SoundParts
<1>2. Gathered(parts[n + 1], b, from, H, n + 1, n)
  <2>1. parts[n + 1].units = <<>> /\ parts[n + 1].buf = b
    OBVIOUS
  <2>2. Len(<<>>) = 0 /\ 1..0 = {} /\ <<>> \in Seq(ContentType) /\ <<>> \in Seq(UnitType)
    OBVIOUS
  <2>3. Filled(b, from, <<>>, <<>>)
    BY <1>1, <2>2 DEF Filled
  <2>4. Adjacent(b, from, <<>>)
    BY <2>2 DEF Adjacent
  <2>5. Len(<<>>) = n + 1 - (n + 1) /\ (n + 1)..n = {}
    BY <2>2
  <2> QED BY <2>1, <2>3, <2>4, <2>5 DEF Gathered
<1>3. ASSUME NEW i \in 1..n, Gathered(parts[i + 1], b, from, H, i + 1, n)
      PROVE  Gathered(parts[i], b, from, H, i, n)
  <2>1. PICK part : part = parts[i + 1]
    OBVIOUS
  <2>2. PICK c : /\ Filled(part.buf, from, c, part.units) /\ Adjacent(part.buf, from, part.units)
                 /\ Len(c) = n + 1 - (i + 1)
                 /\ \A k \in (i + 1)..n : c[k + 1 - (i + 1)] \in H[k]
    BY <1>3, <2>1 DEF Gathered
  <2>3. /\ Sound(part.buf) /\ from <= part.buf.len
        /\ \A p \in 1..b.len : part.buf.data[p] = b.data[p]
    BY <1>3, <2>1, <2>2 DEF Filled, Gathered
  <2>4. PICK done : \E v \in H[i] : Appended(part.buf, from, v, done) /\ parts[i] = After(done, part)
    BY <2>1, <2>3
  <2>5. PICK v \in H[i] : Appended(part.buf, from, v, done) /\ parts[i] = After(done, part)
    BY <2>4
  <2>6. parts[i].units = <<done.unit>> \o part.units /\ parts[i].buf = done.buf
    BY <2>5 DEF After
  <2>7. v \in ContentType
    BY <2>5
  <2>8. PICK d : d = <<v>> \o c
    OBVIOUS
  <2>9. Filled(parts[i].buf, from, d, parts[i].units) /\ Adjacent(parts[i].buf, from, parts[i].units)
    BY <2>2, <2>5, <2>6, <2>7, <2>8, PrependedField
  <2>10. c \in Seq(ContentType) /\ Len(c) = n - i
    BY <2>2 DEF Filled
  <2>11. Len(d) = 1 + Len(c) /\ d[1] = v /\ \A p \in 1..Len(c) : d[1 + p] = c[p]
    <3>1. PICK x : x = <<v>>
      OBVIOUS
    <3>2. x \in Seq(ContentType) /\ Len(x) = 1 /\ x[1] = v
      BY <2>7, <3>1
    <3>3. /\ Len(x \o c) = Len(x) + Len(c)
          /\ \A p \in 1..Len(x) : (x \o c)[p] = x[p]
          /\ \A p \in 1..Len(c) : (x \o c)[Len(x) + p] = c[p]
      <4>1. c \in Seq(ContentType) /\ x \in Seq(ContentType)
        BY <2>10, <3>2
      <4> QED BY ONLY <4>1, ConcatPlaces
    <3> QED BY <2>8, <3>1, <3>2, <3>3
  <2>12. Len(d) = n + 1 - i
    BY <2>10, <2>11
  <2>13. ASSUME NEW k \in i..n PROVE d[k + 1 - i] \in H[k]
    <3>1. CASE k = i
      <4>1. k + 1 - i = 1
        BY <3>1
      <4> QED BY <2>5, <2>11, <3>1, <4>1
    <3>2. CASE k # i
      <4>1. /\ k \in (i + 1)..n /\ k + 1 - (i + 1) = k - i /\ k - i \in 1..(n - i)
            /\ k + 1 - i = 1 + (k - i)
        BY <3>2
      <4> QED BY <2>2, <2>10, <2>11, <4>1
    <3> QED BY <3>1, <3>2
  <2>14. \A p \in 1..b.len : parts[i].buf.data[p] = b.data[p]
    <3> TAKE p \in 1..b.len
    <3>1. p \in 1..part.buf.len
      <4>1. PICK x \in Nat : x = part.buf.len /\ b.len <= x
        BY <2>3, SoundParts
      <4> QED BY <1>1, <4>1
    <3>2. done.buf.data[p] = part.buf.data[p]
      BY <2>5, <3>1 DEF Appended
    <3> QED BY <2>3, <2>6, <3>2
  <2> QED BY <2>9, <2>12, <2>13, <2>14 DEF Gathered
<1> DEFINE S == {i \in 1..(n + 1) : Gathered(parts[n + 2 - i], b, from, H, n + 2 - i, n)}
<1>4. 1 \in S
  <2>1. n + 2 - 1 = n + 1 /\ 1 \in 1..(n + 1)
    OBVIOUS
  <2> QED BY <1>2, <2>1
<1>5. ASSUME NEW i \in 1..((n + 1) - 1), i \in S PROVE i + 1 \in S
  <2>1. PICK j \in 1..n : j = n + 2 - (i + 1) /\ j + 1 = n + 2 - i
    <3>1. n + 2 - (i + 1) \in 1..n /\ (n + 2 - (i + 1)) + 1 = n + 2 - i
      OBVIOUS
    <3> QED BY <3>1
  <2>2. Gathered(parts[j + 1], b, from, H, j + 1, n)
    BY <1>5, <2>1
  <2>3. Gathered(parts[j], b, from, H, j, n)
    BY <1>3, <2>2
  <2>4. i + 1 \in 1..(n + 1)
    OBVIOUS
  <2> QED BY <2>1, <2>3, <2>4
<1>6. n + 1 \in S
  <2>1. n + 1 \in Nat /\ n + 1 \in 1..(n + 1)
    OBVIOUS
  <2> HIDE DEF S
  <2>2. \A i \in 1..(n + 1) : i \in S
    BY <1>4, <1>5, <2>1, Climb
  <2> QED BY <2>1, <2>2
<1>7. n + 2 - (n + 1) = 1
  OBVIOUS
<1> QED BY <1>6, <1>7

\* The fields of a message in a field, from the last to the first.
IsNestedParts(parts, m, b) ==
  parts = [k \in 1..(Len(NestedKinds) + 1) |->
             IF k > Len(NestedKinds) THEN [units |-> <<>>, buf |-> b]
             ELSE NestedPart(m, k, parts[k + 1])]

\* They can be computed one after the other.
LEMMA NestedPartsExist ==
  ASSUME NEW m, NEW b
  PROVE  \E parts : IsNestedParts(parts, m, b) /\ NestedParts(m, b) = parts[1]
<1>1. PICK n \in Nat : n = Len(NestedKinds)
  BY KindsAssumption
<1> DEFINE From(g, i) ==
             g = [k \in i..(n + 1) |-> IF k > n THEN [units |-> <<>>, buf |-> b]
                                       ELSE NestedPart(m, k, g[k + 1])]
           S == {i \in 1..(n + 1) : \E g : From(g, n + 2 - i)}
<1>2. 1 \in S
  <2>1. PICK g : g = [k \in (n + 1)..(n + 1) |-> [units |-> <<>>, buf |-> b]]
    OBVIOUS
  <2>2. \A k \in (n + 1)..(n + 1) : k > n
    OBVIOUS
  <2>3. From(g, n + 1)
    BY <2>1, <2>2
  <2>4. n + 2 - 1 = n + 1 /\ 1 \in 1..(n + 1)
    OBVIOUS
  <2> QED BY <2>3, <2>4
<1>3. ASSUME NEW i \in 1..((n + 1) - 1), i \in S PROVE i + 1 \in S
  <2>1. PICK j \in 1..n : j = n + 2 - (i + 1) /\ j + 1 = n + 2 - i
    <3>1. n + 2 - (i + 1) \in 1..n /\ (n + 2 - (i + 1)) + 1 = n + 2 - i
      OBVIOUS
    <3> QED BY <3>1
  <2>2. PICK g : From(g, j + 1)
    BY <1>3, <2>1
  <2>3. PICK h : h = [k \in j..(n + 1) |-> IF k = j THEN NestedPart(m, j, g[j + 1]) ELSE g[k]]
    OBVIOUS
  <2>4. \A k \in j..(n + 1) : k = j \/ k \in (j + 1)..(n + 1)
    OBVIOUS
  <2>5. ASSUME NEW k \in j..(n + 1)
        PROVE  h[k] = IF k > n THEN [units |-> <<>>, buf |-> b] ELSE NestedPart(m, k, h[k + 1])
    <3>1. ASSUME k <= n PROVE k + 1 \in j..(n + 1) /\ k + 1 # j
      BY <3>1
    <3>2. ASSUME k <= n PROVE h[k + 1] = g[k + 1]
      BY <2>3, <3>1, <3>2
    <3>3. CASE k = j
      <4>1. k <= n /\ ~(k > n)
        BY <3>3
      <4> QED BY <2>3, <3>2, <3>3, <4>1
    <3>4. CASE k # j
      <4>1. k \in (j + 1)..(n + 1)
        BY <2>4, <3>4
      <4>2. h[k] = g[k]
        BY <2>3, <3>4
      <4>3. g[k] = IF k > n THEN [units |-> <<>>, buf |-> b] ELSE NestedPart(m, k, g[k + 1])
        BY <2>2, <4>1
      <4>4. ~(k > n) => k <= n
        OBVIOUS
      <4> QED BY <3>2, <4>2, <4>3, <4>4
    <3> QED BY <3>3, <3>4
  <2>6. From(h, j)
    <3>1. h = [k \in j..(n + 1) |-> h[k]]
      BY <2>3
    <3> QED BY <2>5, <3>1
  <2>7. i + 1 \in 1..(n + 1)
    OBVIOUS
  <2> QED BY <2>1, <2>6, <2>7
<1>4. \E g : From(g, 1)
  <2>1. n + 1 \in Nat /\ n + 1 \in 1..(n + 1) /\ n + 2 - (n + 1) = 1
    OBVIOUS
  <2>2. n + 1 \in S
    <3> HIDE DEF S
    <3>1. \A i \in 1..(n + 1) : i \in S
      BY <1>2, <1>3, <2>1, Climb
    <3> QED BY <2>1, <3>1
  <2> QED BY <2>1, <2>2
<1>5. PICK g : IsNestedParts(g, m, b)
  BY <1>1, <1>4 DEF IsNestedParts
<1>6. PICK p : p = CHOOSE q : IsNestedParts(q, m, b)
  OBVIOUS
<1>7. IsNestedParts(p, m, b)
  BY <1>5, <1>6
<1>8. NestedParts(m, b) = p[1]
  BY <1>6 DEF NestedParts, IsNestedParts
<1> QED BY <1>7, <1>8

\* The fields of the message itself.
IsParts(parts, m) ==
  parts = [k \in 1..(Len(Kinds) + 1) |->
             IF k > Len(Kinds) THEN [units |-> <<>>, buf |-> EmptyBuffer]
             ELSE Part(m, k, parts[k + 1])]

\* They can be computed one after the other, too.
LEMMA PartsExist ==
  ASSUME NEW m
  PROVE  \E parts : IsParts(parts, m) /\ Parts(m) = parts[1]
<1>1. PICK n \in Nat : n = Len(Kinds)
  BY KindsAssumption
<1> DEFINE From(g, i) ==
             g = [k \in i..(n + 1) |-> IF k > n THEN [units |-> <<>>, buf |-> EmptyBuffer]
                                       ELSE Part(m, k, g[k + 1])]
           S == {i \in 1..(n + 1) : \E g : From(g, n + 2 - i)}
<1>2. 1 \in S
  <2>1. PICK g : g = [k \in (n + 1)..(n + 1) |-> [units |-> <<>>, buf |-> EmptyBuffer]]
    OBVIOUS
  <2>2. \A k \in (n + 1)..(n + 1) : k > n
    OBVIOUS
  <2>3. From(g, n + 1)
    BY <2>1, <2>2
  <2>4. n + 2 - 1 = n + 1 /\ 1 \in 1..(n + 1)
    OBVIOUS
  <2> QED BY <2>3, <2>4
<1>3. ASSUME NEW i \in 1..((n + 1) - 1), i \in S PROVE i + 1 \in S
  <2>1. PICK j \in 1..n : j = n + 2 - (i + 1) /\ j + 1 = n + 2 - i
    <3>1. n + 2 - (i + 1) \in 1..n /\ (n + 2 - (i + 1)) + 1 = n + 2 - i
      OBVIOUS
    <3> QED BY <3>1
  <2>2. PICK g : From(g, j + 1)
    BY <1>3, <2>1
  <2>3. PICK h : h = [k \in j..(n + 1) |-> IF k = j THEN Part(m, j, g[j + 1]) ELSE g[k]]
    OBVIOUS
  <2>4. \A k \in j..(n + 1) : k = j \/ k \in (j + 1)..(n + 1)
    OBVIOUS
  <2>5. ASSUME NEW k \in j..(n + 1)
        PROVE  h[k] = IF k > n THEN [units |-> <<>>, buf |-> EmptyBuffer] ELSE Part(m, k, h[k + 1])
    <3>1. ASSUME k <= n PROVE k + 1 \in j..(n + 1) /\ k + 1 # j
      BY <3>1
    <3>2. ASSUME k <= n PROVE h[k + 1] = g[k + 1]
      BY <2>3, <3>1, <3>2
    <3>3. CASE k = j
      <4>1. k <= n /\ ~(k > n)
        BY <3>3
      <4> QED BY <2>3, <3>2, <3>3, <4>1
    <3>4. CASE k # j
      <4>1. k \in (j + 1)..(n + 1)
        BY <2>4, <3>4
      <4>2. h[k] = g[k]
        BY <2>3, <3>4
      <4>3. g[k] = IF k > n THEN [units |-> <<>>, buf |-> EmptyBuffer] ELSE Part(m, k, g[k + 1])
        BY <2>2, <4>1
      <4>4. ~(k > n) => k <= n
        OBVIOUS
      <4> QED BY <3>2, <4>2, <4>3, <4>4
    <3> QED BY <3>3, <3>4
  <2>6. From(h, j)
    <3>1. h = [k \in j..(n + 1) |-> h[k]]
      BY <2>3
    <3> QED BY <2>5, <3>1
  <2>7. i + 1 \in 1..(n + 1)
    OBVIOUS
  <2> QED BY <2>1, <2>6, <2>7
<1>4. \E g : From(g, 1)
  <2>1. n + 1 \in Nat /\ n + 1 \in 1..(n + 1) /\ n + 2 - (n + 1) = 1
    OBVIOUS
  <2>2. n + 1 \in S
    <3> HIDE DEF S
    <3>1. \A i \in 1..(n + 1) : i \in S
      BY <1>2, <1>3, <2>1, Climb
    <3> QED BY <2>1, <3>1
  <2> QED BY <2>1, <2>2
<1>5. PICK g : IsParts(g, m)
  BY <1>1, <1>4 DEF IsParts
<1>6. PICK p : p = CHOOSE q : IsParts(q, m)
  OBVIOUS
<1>7. IsParts(p, m)
  BY <1>5, <1>6
<1>8. Parts(m) = p[1]
  BY <1>6 DEF Parts, IsParts
<1> QED BY <1>7, <1>8

-----------------------------------------------------------------------------
(***************************************************************************)
(* Scalars and texts: what a view of words makes of such a field, and what *)
(* encoding one or copying it appends.                                     *)
(***************************************************************************)

\* What a prefix says of the words that it begins.
LEMMA PrefixMeans ==
  ASSUME NEW v \in Seq(Nat), NEW t \in Seq(Nat), IsPrefix(v, t)
  PROVE  /\ Len(v) <= Len(t) /\ SubSeq(t, 1, Len(v)) = v
         /\ \A j \in 1..Len(v) : t[j] = v[j]
<1>1. PICK l, n \in Nat : l = Len(v) /\ n = Len(t)
  OBVIOUS
<1>2. l <= n /\ SubSeq(v, 1, l) = SubSeq(t, 1, l)
  BY <1>1 DEF IsPrefix
<1>3. SubSeq(t, 1, l) = [j \in 1..l |-> t[j]] /\ SubSeq(v, 1, l) = [j \in 1..l |-> v[j]]
  BY <1>1, <1>2
<1>4. v = [j \in 1..l |-> v[j]]
  BY <1>1
<1>5. SubSeq(t, 1, l) = v
  BY <1>2, <1>3, <1>4
<1>6. \A j \in 1..l : t[j] = v[j]
  <2>1. v = [j \in 1..l |-> t[j]]
    BY <1>3, <1>5
  <2> QED BY <2>1
<1> QED BY <1>1, <1>2, <1>5, <1>6

\* Words that agree with a shorter sequence begin with it.
LEMMA PrefixWhen ==
  ASSUME NEW v \in Seq(Nat), NEW t \in Seq(Nat), Len(v) <= Len(t),
         \A j \in 1..Len(v) : t[j] = v[j]
  PROVE  IsPrefix(v, t)
<1>1. PICK l, n \in Nat : l = Len(v) /\ n = Len(t) /\ l <= n
  OBVIOUS
<1>2. SubSeq(t, 1, l) = [j \in 1..l |-> t[j]] /\ SubSeq(v, 1, l) = [j \in 1..l |-> v[j]]
  BY <1>1
<1> QED BY <1>1, <1>2 DEF IsPrefix

\* Prefixes of prefixes.
LEMMA PrefixOfPrefix ==
  ASSUME NEW v \in Seq(Nat), NEW t \in Seq(Nat), NEW w \in Seq(Nat), IsPrefix(v, t), IsPrefix(t, w)
  PROVE  IsPrefix(v, w)
<1>1. PICK l, m, n \in Nat : l = Len(v) /\ m = Len(t) /\ n = Len(w)
  OBVIOUS
<1>2. l <= m /\ \A j \in 1..l : t[j] = v[j]
  BY <1>1, PrefixMeans
<1>3. m <= n /\ \A j \in 1..m : w[j] = t[j]
  BY <1>1, PrefixMeans
<1>4. l <= n /\ \A j \in 1..l : w[j] = v[j]
  BY <1>2, <1>3
<1> QED BY <1>1, <1>4, PrefixWhen

\* The words from an object on are words.
LEMMA ObjectWordsFound ==
  ASSUME NEW b, NEW from, NEW c, NEW f, Filled(b, from, c, f), NEW u, UsedOf(u, f),
         NEW words, Readable(words, u, b, from), NEW k \in 1..Len(c), c[k].object
  PROVE  ObjectWords(words, k) \in Seq(Nat)
<1>1. words \in Seq(Nat) /\ Len(words) \in Nat /\ BlockLength(u) + (b.len - from) <= Len(words)
  BY DEF Readable, Framed
<1>2. PICK L, F, A, n \in Nat : /\ L = b.len /\ F = from /\ F <= L /\ A = BlockLength(u)
                                /\ n = Len(words) /\ A + (L - F) <= n
  <2>1. BlockLength(u) \in Nat
    BY BlockPlaced DEF Readable
  <2> QED BY <1>1, <2>1 DEF Readable
<1>3. ObjectStart(words, k) \in Nat /\ ObjectStart(words, k) <= n
  <2>1. CASE IsSegment(f[k])
    <3>1. ObjectStart(words, k) = A + L - f[k].pos /\ f[k].pos \in Nat /\ f[k].pos <= L
      BY <1>2, <2>1, ObjectAt
    <3>2. Outside(b, from, c[k], f[k]) /\ f[k] \in UnitType
      <4>1. k \in 1..Len(f)
        BY DEF Filled
      <4> QED BY <2>1, <4>1, FilledMeans
    <3>3. PICK p, l \in Nat : p = f[k].pos /\ l = f[k].len /\ F + l <= p
      BY <1>2, <3>2 DEF Outside, UnitType
    <3>4. PICK s \in Int : s = ObjectStart(words, k) /\ s = A + L - p
      BY <3>1, <3>3
    <3>5. p <= L
      BY <3>1, <3>3
    <3>6. s \in Nat /\ s <= n
      <4>1. F <= L /\ A + (L - F) <= n /\ F + l <= p /\ s = A + L - p /\ p <= L
        BY <1>2, <3>3, <3>4, <3>5
      <4> QED BY ONLY <4>1, A \in Nat, L \in Nat, F \in Nat, n \in Nat, p \in Nat, l \in Nat, s \in Int
    <3> QED BY <3>4, <3>6
  <2>2. CASE ~IsSegment(f[k])
    <3>1. ObjectStart(words, k) \in Nat /\ ObjectStart(words, k) + Len(c[k].words) <= A
      BY <1>2, <2>2, ObjectAt
    <3>2. Len(c[k].words) \in Nat
      <4>1. c[k] \in ContentType
        BY DEF Filled
      <4> QED BY <4>1 DEF ContentType
    <3>3. PICK s, x \in Nat : s = ObjectStart(words, k) /\ x = Len(c[k].words) /\ s + x <= A
      BY <3>1, <3>2
    <3>4. s <= n
      BY ONLY <1>2, <3>3, s \in Nat, x \in Nat, A \in Nat, L \in Nat, F \in Nat, n \in Nat, SMTT(30)
    <3> QED BY <3>3, <3>4
  <2> QED BY <2>1, <2>2
<1>4. PICK s \in Nat : s = ObjectStart(words, k) /\ s <= Len(words)
  BY <1>2, <1>3
<1>5. SubSeq(words, s + 1, Len(words)) \in Seq(Nat)
  BY <1>1, <1>4, TailWords
<1> QED BY <1>4, <1>5 DEF ObjectWords

-----------------------------------------------------------------------------
(***************************************************************************)
(* Scalars and texts.                                                      *)
(***************************************************************************)
FlatKinds == {"scalar", "text"}

\* What a field holds that has the value.
FlatContent(kind, v) ==
  IF v = <<>> THEN Absent ELSE [object |-> kind = "text", words |-> v]

\* What a view of the words makes of the field.
FlatSeen(words, kind, k, v) ==
  IF v = <<>> THEN ~HasField(words, k)
  ELSE HasField(words, k) /\ Detected(words, kind, k) = v

\* The field of a mutable message has the value.
FlatHolds(m, kind, k, v) ==
  IF k \in m.accessed THEN m.slots[k] = v
  ELSE IF m.words = <<>> THEN v = <<>>
  ELSE FlatSeen(m.words, kind, k, v)

\* A value that is the default, or that the constants allow.
FlatValue(kind, v) == v = <<>> \/ Fits(kind, v)

\* The words of a value.
LEMMA FitsMeans ==
  ASSUME NEW kind \in FlatKinds, NEW v, Fits(kind, v)
  PROVE  /\ v \in Seq(Nat) /\ v # <<>> /\ Len(v) \in Nat \ {0} /\ v[1] \in Nat
         /\ kind = "scalar" => Len(v) <= 2
         /\ kind = "text" => ~IsOffset(v[1]) /\ TextLength(v) = Len(v)
<1>1. v \in Seq(Nat) /\ v # <<>>
  BY DEF Fits
<1>2. Len(v) \in Nat \ {0} /\ v[1] \in Nat
  BY <1>1
<1>3. ASSUME kind = "text" PROVE ~IsOffset(v[1]) /\ TextLength(v) = Len(v)
  <2>1. v[1] % 4 = 0 /\ TextLength(v) = Len(v)
    BY <1>3 DEF Fits
  <2> QED BY <2>1 DEF IsOffset
<1> QED BY <1>1, <1>2, <1>3 DEF Fits

\* The contents of flat fields are contents.
LEMMA FlatContentType ==
  ASSUME NEW kind \in FlatKinds, NEW v, FlatValue(kind, v)
  PROVE  FlatContent(kind, v) \in ContentType
<1>1. CASE v = <<>>
  BY <1>1 DEF FlatContent, Absent, ContentType
<1>2. CASE v # <<>>
  <2>1. v \in Seq(Nat)
    BY <1>2, FitsMeans DEF FlatValue
  <2> QED BY <1>2, <2>1 DEF FlatContent, ContentType
<1> QED BY <1>1, <1>2

\* Encoding a value that an accessor has touched (serialize_scalar, serialize_bytes).
LEMMA ValueEncoded ==
  ASSUME NEW kind \in FlatKinds, NEW v, Fits(kind, v),
         NEW b, Sound(b), NEW from \in Nat, from <= b.len
  PROVE  Appended(b, from, [object |-> kind = "text", words |-> v], Placed(kind, Encoded(kind, v, b)))
<1>1. /\ v \in Seq(Nat) /\ v # <<>> /\ Len(v) \in Nat \ {0}
      /\ kind = "scalar" => Len(v) <= 2
      /\ kind = "text" => ~IsOffset(v[1])
  BY FitsMeans
<1>2. ~OmitsDefault(kind) /\ (Folds(kind) <=> kind = "text") /\ (kind = "text" <=> kind # "scalar")
  BY DEF OmitsDefault, Folds, FlatKinds
<1>3. PICK inline : inline = [unit |-> InlineUnit(v), buf |-> b]
  OBVIOUS
<1>4. Len(v) <= 3 => Appended(b, from, [object |-> kind = "text", words |-> v], inline)
  BY <1>1, <1>2, <1>3, HeldInline
<1>5. CASE kind = "scalar"
  <2>1. Placed(kind, Encoded(kind, v, b)) = inline
    BY <1>2, <1>3, <1>5 DEF Placed, Encoded
  <2>2. Len(v) <= 3
    BY <1>1, <1>5
  <2> QED BY <1>4, <2>1, <2>2
<1>6. CASE kind = "text"
  <2>1. Placed(kind, Encoded(kind, v, b)) = Folded(TextUnit(v, b).unit, TextUnit(v, b).buf)
    BY <1>2, <1>6 DEF Placed, Encoded
  <2>2. CASE Len(v) <= 1
    <3>1. TextUnit(v, b) = inline
      BY <1>1, <1>3, <2>2 DEF TextUnit
    <3>2. ~IsSegment(InlineUnit(v))
      BY <1>1 DEF IsSegment, InlineUnit
    <3>3. Folded(InlineUnit(v), b) = inline
      BY <1>3, <3>2 DEF Folded
    <3>4. Len(v) <= 3
      BY <1>1, <2>2
    <3>5. inline.unit = InlineUnit(v) /\ inline.buf = b
      BY <1>3
    <3> QED BY <1>4, <2>1, <3>1, <3>3, <3>4, <3>5
  <2>3. CASE ~(Len(v) <= 1)
    <3>1. PICK new : new = PutWords(b, v)
      OBVIOUS
    <3>2. TextUnit(v, b) = [unit |-> SegmentUnit(b.len, b.len + Len(v)), buf |-> new]
      BY <2>3, <3>1 DEF TextUnit, CopyWords
    <3>3. /\ Sound(new) /\ new.len = b.len + Len(v)
          /\ \A p \in 1..b.len : new.data[p] = b.data[p]
          /\ ReadAt(new, b.len + Len(v), Len(v)) = v
      BY <1>1, <3>1, PutWordsPrepends
    <3>4. ReadAt(new, new.len, Len(v)) = v
      BY <3>3
    <3>5. TextUnit(v, b).unit = SegmentUnit(b.len, new.len) /\ TextUnit(v, b).buf = new
      BY <3>2, <3>3
    <3>6. Appended(b, from, [object |-> TRUE, words |-> v], Folded(SegmentUnit(b.len, new.len), new))
      BY <1>1, <1>6, <3>3, <3>4, HeadFolded
    <3>7. (kind = "text") = TRUE
      BY <1>6
    <3> QED BY <2>1, <3>5, <3>6, <3>7
  <2> QED BY <2>2, <2>3
<1> QED BY <1>5, <1>6 DEF FlatKinds

\* Copying the words of a field that no accessor has touched.
LEMMA WordsCopied ==
  ASSUME NEW ws \in Seq(Nat), ws # <<>>,
         NEW object \in BOOLEAN, object => (Len(ws) <= 3 => ~IsOffset(ws[1])),
         ~object => Len(ws) <= 3, NEW b, Sound(b), NEW from \in Nat, from <= b.len
  PROVE  Appended(b, from, [object |-> object, words |-> ws], CopyWords(ws, b, TRUE))
<1>1. PICK l \in Nat : l = Len(ws) /\ l # 0
  OBVIOUS
<1>2. CASE l < 4
  <2>1. Len(ws) <= 3
    BY <1>1, <1>2
  <2>2. CopyWords(ws, b, TRUE) = [unit |-> InlineUnit(ws), buf |-> b]
    BY <1>1, <1>2 DEF CopyWords
  <2> QED BY <2>1, <2>2, HeldInline
<1>3. CASE ~(l < 4)
  <2>1. object = TRUE
    <3>1. ~(Len(ws) <= 3)
      BY <1>1, <1>3
    <3> QED BY <3>1
  <2>2. PICK new : new = PutWords(b, ws)
    OBVIOUS
  <2>3. CopyWords(ws, b, TRUE) = [unit |-> SegmentUnit(b.len, b.len + Len(ws)), buf |-> new]
    BY <1>1, <1>3, <2>2 DEF CopyWords
  <2>4. /\ Sound(new) /\ new.len = b.len + Len(ws)
        /\ \A p \in 1..b.len : new.data[p] = b.data[p]
        /\ ReadAt(new, b.len + Len(ws), Len(ws)) = ws
    BY <2>2, PutWordsPrepends
  <2>5. ReadAt(new, new.len, Len(ws)) = ws
    BY <2>4
  <2>6. Appended(b, from, [object |-> TRUE, words |-> ws],
                 [unit |-> SegmentUnit(b.len, new.len), buf |-> new])
    <3>1. Len(ws) > 3
      BY <1>1, <1>3
    <3> QED BY <2>4, <2>5, <3>1, HeadSegment
  <2> QED BY <2>1, <2>3, <2>4, <2>6
<1> QED BY <1>2, <1>3

\* serialize_field of a scalar or a text: its Unit holds the field's value.
LEMMA FlatFieldAppends ==
  ASSUME NEW m, NEW kinds, NEW k, kinds[k] \in FlatKinds, NEW v, FlatValue(kinds[k], v),
         FlatHolds(m, kinds[k], k, v), NEW b, Sound(b), NEW from \in Nat, from <= b.len
  PROVE  Appended(b, from, FlatContent(kinds[k], v), FlatField(m, kinds, k, b))
<1>1. PICK kind \in FlatKinds : kind = kinds[k]
  OBVIOUS
<1>2. PICK empty : empty = [unit |-> EmptyUnit, buf |-> b]
  OBVIOUS
<1>3. Appended(b, from, Absent, empty)
  BY <1>2, LeftOut
<1>4. v # <<>> => FlatContent(kind, v) = [object |-> kind = "text", words |-> v] /\ Fits(kind, v)
  BY <1>1 DEF FlatContent, FlatValue
<1>5. v = <<>> => FlatContent(kind, v) = Absent
  BY DEF FlatContent
<1>6. CASE k \in m.accessed
  <2>1. m.slots[k] = v
    BY <1>6 DEF FlatHolds
  <2>2. CASE v = <<>>
    <3>1. FlatField(m, kinds, k, b) = empty
      BY <1>2, <1>6, <2>1, <2>2 DEF FlatField
    <3> QED BY <1>1, <1>3, <1>5, <2>2, <3>1
  <2>3. CASE v # <<>>
    <3>1. FlatField(m, kinds, k, b) = Placed(kind, Encoded(kind, v, b))
      BY <1>1, <1>6, <2>1, <2>3 DEF FlatField
    <3>2. Appended(b, from, [object |-> kind = "text", words |-> v], Placed(kind, Encoded(kind, v, b)))
      BY <1>4, <2>3, ValueEncoded
    <3> QED BY <1>1, <1>4, <2>3, <3>1, <3>2
  <2> QED BY <2>2, <2>3
<1>7. CASE k \notin m.accessed
  <2>1. FlatField(m, kinds, k, b) = CopyField(m, kinds, k, b)
    BY <1>7 DEF FlatField
  <2>2. CASE v = <<>>
    <3>1. m.words = <<>> \/ ~HasField(m.words, k)
      BY <1>7, <2>2 DEF FlatHolds, FlatSeen
    <3>2. CopyField(m, kinds, k, b) = empty
      BY <1>2, <3>1 DEF CopyField
    <3> QED BY <1>1, <1>3, <1>5, <2>1, <2>2, <3>2
  <2>3. CASE v # <<>>
    <3>1. m.words # <<>> /\ HasField(m.words, k) /\ Detected(m.words, kind, k) = v
      BY <1>1, <1>7, <2>3 DEF FlatHolds, FlatSeen
    <3>2. CopyField(m, kinds, k, b) = CopyWords(v, b, TRUE)
      BY <1>1, <3>1 DEF CopyField
    <3>3. /\ v \in Seq(Nat) /\ v # <<>> /\ Len(v) \in Nat
          /\ kind = "scalar" => Len(v) <= 2
          /\ kind = "text" => ~IsOffset(v[1])
      BY <1>4, <2>3, FitsMeans
    <3>4. ~(kind = "text") => Len(v) <= 3
      <4>1. ~(kind = "text") => Len(v) <= 2
        BY <3>3 DEF FlatKinds
      <4> QED BY <3>3, <4>1
    <3>5. (kind = "text") \in BOOLEAN
      OBVIOUS
    <3>6. Appended(b, from, [object |-> kind = "text", words |-> v], CopyWords(v, b, TRUE))
      BY <3>3, <3>4, <3>5, WordsCopied
    <3> QED BY <1>1, <1>4, <2>1, <2>3, <3>2, <3>6
  <2> QED BY <2>2, <2>3
<1> QED BY <1>6, <1>7

\* What a view of encoded words finds is the field's value.
LEMMA FlatFound ==
  ASSUME NEW kind \in FlatKinds, NEW v, FlatValue(kind, v), NEW words, NEW c, NEW k \in 1..Len(c),
         Len(c) \in Nat, c[k] = FlatContent(kind, v), Found(words, c, k),
         c[k].object => ObjectWords(words, k) \in Seq(Nat)
  PROVE  /\ FlatSeen(words, kind, k, v)
         /\ HasField(words, k) <=> v # <<>>
         /\ kind = "text" /\ v # <<>> => TextLength(ObjectWords(words, k)) = Len(v)
<1>1. ~(k > Len(c))
  OBVIOUS
<1>2. CASE v = <<>>
  <2>1. c[k].words = <<>>
    BY <1>2 DEF FlatContent, Absent
  <2> QED BY <1>1, <1>2, <2>1 DEF Found, FlatSeen
<1>3. CASE v # <<>>
  <2>1. c[k].words = v /\ c[k].object = (kind = "text")
    BY <1>3 DEF FlatContent
  <2>2. /\ v \in Seq(Nat) /\ Len(v) \in Nat \ {0}
        /\ kind = "text" => TextLength(v) = Len(v)
    BY <1>3, FitsMeans DEF FlatValue
  <2>3. HasField(words, k)
    BY <1>1, <1>3, <2>1 DEF Found
  <2>4. CASE kind = "scalar"
    <3>1. RawWords(words, k) = v
      BY <1>1, <1>3, <2>1, <2>4 DEF Found
    <3> QED BY <1>3, <2>3, <2>4, <3>1 DEF FlatSeen, Detected
  <2>5. CASE kind = "text"
    <3>1. PICK t \in Seq(Nat) : t = ObjectWords(words, k) /\ IsPrefix(v, t)
      BY <1>1, <1>3, <2>1, <2>5 DEF Found
    <3>2. SubSeq(t, 1, Len(v)) = v /\ \A j \in 1..Len(v) : t[j] = v[j]
      BY <2>2, <3>1, PrefixMeans
    <3>3. t[1] = v[1]
      BY <2>2, <3>2
    <3>4. TextLength(t) = Len(v)
      BY <2>2, <2>5, <3>3 DEF TextLength
    <3>5. Detected(words, kind, k) = v
      BY <2>5, <3>1, <3>2, <3>4 DEF Detected, Extent
    <3> QED BY <1>3, <2>3, <3>1, <3>4, <3>5 DEF FlatSeen
  <2> QED BY <2>4, <2>5 DEF FlatKinds
<1> QED BY <1>2, <1>3

-----------------------------------------------------------------------------
(***************************************************************************)
(* The block of a message whose fields were encoded.                       *)
(***************************************************************************)

\* Words that agree with the buffer afterwards, from the message's first word to
\* what was there when the message was begun.
LEMMA FramedWhen ==
  ASSUME NEW b, Sound(b), NEW from \in Nat, from <= b.len, NEW u, Narrow(u), Behind(u, b.len),
         Sections(Len(u)) < SectionRange, NEW new, new = PutWords(b, Block(u, b.len)),
         NEW words \in Seq(Nat), BlockLength(u) + (b.len - from) <= Len(words),
         \A j \in 1..(BlockLength(u) + (b.len - from)) : words[j] = new.data[new.len - j + 1]
  PROVE  Framed(words, u, b, from)
<1>1. PICK L, e \in Nat : L = b.len /\ e = from /\ e <= L
  BY SoundParts
<1>2. PICK w \in Seq(Nat), m \in Nat :
        /\ w = Block(u, L) /\ m = BlockLength(u) /\ Len(w) = m
        /\ \A v : Continues(v, w) => BlockIn(v, u, L)
  BY <1>1, BlockPlaced
<1>3. PICK t, i \in Nat : t = L + m /\ t = m + L /\ i = m + (L - e) /\ m <= i
  <2>1. L + m \in Nat /\ L + m = m + L /\ m + (L - e) \in Nat /\ m <= m + (L - e)
    <3>1. e <= L
      BY <1>1
    <3> QED BY ONLY <3>1, e \in Nat, L \in Nat, m \in Nat
  <2> QED BY <2>1
<1>4. /\ Sound(new) /\ new.len = t
      /\ \A p \in 1..L : new.data[p] = b.data[p]
      /\ ReadAt(new, t, m) = w
  <2>1. new = PutWords(b, w) /\ Sound(b) /\ b.len + Len(w) = t
    BY <1>1, <1>2, <1>3
  <2>2. /\ Sound(new) /\ new.len = b.len + Len(w)
        /\ \A p \in 1..b.len : new.data[p] = b.data[p]
        /\ ReadAt(new, b.len + Len(w), Len(w)) = w
    BY <2>1, PutWordsPrepends
  <2> QED BY <1>1, <1>2, <2>1, <2>2
<1>5. i <= Len(words) /\ \A j \in 1..i : words[j] = new.data[t - j + 1]
  BY <1>1, <1>2, <1>3, <1>4
<1>6. \A j \in 1..m : words[j] = w[j]
  <2> TAKE j \in 1..m
  <2>1. j \in 1..i
    BY <1>3
  <2>2. ReadAt(new, t, m)[j] = new.data[t - j + 1]
    BY DEF ReadAt
  <2> QED BY <1>4, <1>5, <2>1, <2>2
<1>7. \A d \in 1..(L - e) : words[m + d] = b.data[L - d + 1]
  <2> TAKE d \in 1..(L - e)
  <2>1. m + d \in 1..i /\ t - (m + d) + 1 = L - d + 1 /\ L - d + 1 \in 1..L
    <3>1. e <= L /\ t = m + L /\ i = m + (L - e)
      BY <1>1, <1>3
    <3> QED BY ONLY <3>1, d \in 1..(L - e), e \in Nat, L \in Nat, m \in Nat, t \in Nat, i \in Nat
  <2>2. words[m + d] = new.data[t - (m + d) + 1]
    BY <1>5, <2>1
  <2> QED BY <1>4, <2>1, <2>2
<1>8. Continues(words, w)
  <2>1. m <= Len(words)
    <3>1. PICK n \in Nat : n = Len(words)
      OBVIOUS
    <3> QED BY <1>3, <1>5, <3>1
  <2> QED BY <1>2, <1>6, <2>1 DEF Continues
<1>9. BlockIn(words, u, L)
  BY <1>2, <1>8
<1> QED BY <1>1, <1>2, <1>7, <1>9 DEF Framed

\* Each field has three body words at most.
LEMMA BodyIsShort ==
  ASSUME NEW f, Narrow(f)
  PROVE  \A k \in 1..(Len(f) + 1) : Reach(f, k) <= 3 * (k - 1)
<1>1. PICK n \in Nat : n = Len(f)
  BY WidthsFit
<1> DEFINE S == {k \in 1..(n + 1) : Reach(f, k) <= 3 * (k - 1)}
<1>2. 1 \in S
  <2>1. Reach(f, 1) = 0
    BY ReachGrows
  <2> QED BY <2>1
<1>3. ASSUME NEW k \in 1..((n + 1) - 1), k \in S PROVE k + 1 \in S
  <2>1. k \in Nat /\ k >= 1 /\ k + 1 \in 1..(n + 1)
    OBVIOUS
  <2>2. PICK r, w, x \in Nat : /\ r = Reach(f, k) /\ w = WidthOf(f, k) /\ x = Reach(f, k + 1)
                               /\ x = r + w /\ w <= 3
    <3>1. WidthOf(f, k) \in 0..3
      BY <2>1, WidthsFit
    <3>2. Reach(f, k) \in Nat /\ Reach(f, k + 1) \in Nat /\ Reach(f, k + 1) = Reach(f, k) + WidthOf(f, k)
      <4>1. k + 1 \in Nat /\ k + 1 >= 1
        BY <2>1
      <4>2. Reach(f, k) \in Nat /\ Reach(f, k + 1) = Reach(f, k) + WidthOf(f, k)
        BY <2>1, ReachGrows
      <4>3. Reach(f, k + 1) \in Nat
        BY <4>1, ReachGrows
      <4> QED BY <4>2, <4>3
    <3> QED BY <3>1, <3>2
  <2>3. r <= 3 * (k - 1)
    BY <1>3, <2>2
  <2>4. x <= 3 * ((k + 1) - 1)
    BY ONLY <2>1, <2>2, <2>3, r \in Nat, w \in Nat, x \in Nat
  <2> QED BY <2>1, <2>2, <2>4
<1>4. n + 1 \in Nat
  OBVIOUS
<1>5. \A k \in 1..(n + 1) : k \in S
  <2> HIDE DEF S
  <2> QED BY <1>2, <1>3, <1>4, Climb
<1> QED BY <1>1, <1>5

\* So the counts of a message of few fields fit.
LEMMA FewFieldsSuffice ==
  ASSUME NEW f, Narrow(f), 3 * Len(f) < CountRange, NEW u, UsedOf(u, f)
  PROVE  CountsSuffice(u)
<1>1. PICK n, m \in Nat : n = Len(f) /\ m = Len(u) /\ m <= n /\ Narrow(u)
  <2>1. Narrow(u) /\ Len(u) <= Len(f)
    BY DEF UsedOf
  <2> QED BY <2>1, WidthsFit
<1>2. PICK R \in Nat : R = CountRange /\ 3 * n < R
  BY <1>1, LayoutAssumption
<1>3. ASSUME NEW s \in 0..(Sections(m) - 1) PROVE BodyBefore(u, SectionStart(s)) < R
  <2>1. PICK k \in Nat : k = SectionStart(s) /\ k \in 1..m
    <3>1. SectionStart(s) \in 1..m
      BY <1>1, SectionsReach
    <3> QED BY <3>1
  <2>2. k >= 1 /\ k <= m /\ k \in 1..(m + 1)
    BY <2>1
  <2>3. PICK x \in Nat : x = Reach(u, k) /\ x <= 3 * (k - 1) /\ BodyBefore(u, k) = x
    <3>1. BodyBefore(u, k) = Reach(u, k) /\ Reach(u, k) \in Nat
      BY <1>1, <2>2, ReachGrows
    <3> QED BY <1>1, <2>2, <3>1, BodyIsShort
  <2>4. x < R
    BY ONLY <1>1, <1>2, <2>2, <2>3, n \in Nat, m \in Nat, R \in Nat, k \in Nat, x \in Nat
  <2> QED BY <2>1, <2>3, <2>4
<1> QED BY <1>1, <1>2, <1>3 DEF CountsSuffice

\* A message assembled from its fields: where it is, and that whatever begins
\* with its words can be read.
Finished(b, from, u, done) ==
  /\ Sound(done.buf) /\ BlockLength(u) \in Nat /\ done.buf.len = b.len + BlockLength(u)
  /\ \A p \in 1..b.len : done.buf.data[p] = b.data[p]
  /\ done.unit = SegmentUnit(from, done.buf.len)
  /\ \A w \in Seq(Nat) :
       IsPrefix(ReadAt(done.buf, done.buf.len, BlockLength(u) + (b.len - from)), w)
         => Readable(w, u, b, from)

\* SerializeWords of fields that were encoded one behind the other.
LEMMA MessageAssembled ==
  ASSUME NEW b, NEW from, NEW c, NEW f, Filled(b, from, c, f), Adjacent(b, from, f),
         NEW u, u = Used(f), Sections(Len(u)) < SectionRange, 3 * Len(f) < CountRange,
         NEW done, done = Serialized(f, b, from)
  PROVE  UsedOf(u, f) /\ Finished(b, from, u, done)
<1>1. Narrow(f) /\ Behind(f, b.len) /\ b.len \in Nat /\ Sound(b) /\ from \in Nat /\ from <= b.len
  BY FilledMeans DEF Filled
<1>2. UsedOf(u, f)
  BY <1>1, UsedKeeps
<1>3. Narrow(u) /\ Behind(u, b.len)
  <2>1. Narrow(u) /\ \A k \in 1..Len(u) : k \in 1..Len(f) /\ u[k] = f[k]
    BY <1>1, <1>2, WidthsFit DEF UsedOf
  <2> QED BY <1>1, <2>1 DEF Behind
<1>4. CountsSuffice(u)
  BY <1>1, <1>2, FewFieldsSuffice
<1>5. PICK new : new = PutWords(b, Block(u, b.len))
  OBVIOUS
<1>6. done.buf = new /\ done.unit = SegmentUnit(from, new.len)
  <2>1. done = Ended(new, from)
    BY <1>5, SerializedIs
  <2> QED BY <2>1 DEF Ended
<1>7. /\ Sound(new) /\ new.len = b.len + BlockLength(u) /\ BlockLength(u) \in Nat
      /\ \A p \in 1..b.len : new.data[p] = b.data[p]
  BY <1>1, <1>3, <1>5, EncodedIs
<1>8. PICK L, e, m, t, i \in Nat : /\ L = b.len /\ e = from /\ e <= L /\ m = BlockLength(u) /\ t = new.len
                                   /\ t = L + m /\ i = m + (L - e) /\ i <= t
  <2>1. PICK L, e, m \in Nat : L = b.len /\ e = from /\ e <= L /\ m = BlockLength(u)
    BY <1>1, <1>7
  <2>2. L + m \in Nat /\ m + (L - e) \in Nat /\ m + (L - e) <= L + m
    BY <2>1
  <2> QED BY <1>7, <2>1, <2>2
<1>9. ASSUME NEW w \in Seq(Nat), IsPrefix(ReadAt(new, t, i), w)
      PROVE  Readable(w, u, b, from)
  <2>1. PICK v \in Seq(Nat) : v = ReadAt(new, t, i) /\ Len(v) = i
    <3>1. t <= Allocated(new)
      BY <1>7, <1>8 DEF Sound
    <3> QED BY <1>7, <1>8, <3>1, ReadAtType, SMTT(30)
  <2>2. i <= Len(w) /\ \A j \in 1..i : w[j] = v[j]
    BY <1>9, <2>1, PrefixMeans
  <2>3. \A j \in 1..i : v[j] = new.data[t - j + 1]
    BY <2>1 DEF ReadAt
  <2>4. \A j \in 1..(BlockLength(u) + (b.len - from)) : w[j] = new.data[new.len - j + 1]
    BY <1>8, <2>2, <2>3
  <2>5. BlockLength(u) + (b.len - from) <= Len(w)
    BY <1>8, <2>2
  <2>6. Framed(w, u, b, from)
    BY <1>1, <1>3, <1>5, <2>4, <2>5, FramedWhen
  <2> QED BY <1>1, <1>3, <1>4, <2>6 DEF Readable
<1>10. Finished(b, from, u, done)
  BY <1>6, <1>7, <1>8, <1>9 DEF Finished
<1> QED BY <1>2, <1>10

-----------------------------------------------------------------------------
(***************************************************************************)
(* Encoding the same contents in two buffers gives the same words, however *)
(* much one of them held before.                                           *)
(***************************************************************************)

\* What c holds, b holds before n other words.
Above(b, n, c) ==
  /\ Sound(b) /\ Sound(c) /\ b.len = n + c.len
  /\ \A p \in 1..c.len : b.data[n + p] = c.data[p]

\* Units for the same words in such buffers.
AlikeUnits(u, v, n) ==
  /\ u.inline = v.inline
  /\ IsSegment(u) <=> IsSegment(v)
  /\ IsSegment(u) => u.len = v.len /\ u.pos = n + v.pos

\* Units of fields.
AlikeFields(f, g, n) ==
  /\ Len(f) = Len(g)
  /\ \A k \in 1..Len(f) : AlikeUnits(f[k], g[k], n)

\* What an empty buffer holds, any buffer holds before its own words.
LEMMA EmptyIsSound ==
  /\ Sound(EmptyBuffer) /\ EmptyBuffer.len = 0
  /\ \A b : Sound(b) => Above(b, b.len, EmptyBuffer)
<1>1. PICK c : c = EmptyBuffer /\ c = [data |-> <<>>, len |-> 0]
  BY DEF EmptyBuffer
<1>2. c.data = <<>> /\ c.len = 0
  BY <1>1
<1>3. Sound(c)
  <2>1. <<>> \in Seq(Nat) /\ Len(<<>>) = 0
    OBVIOUS
  <2>2. c \in Buffer
    BY <1>1, <2>1 DEF Buffer
  <2> QED BY <1>2, <2>1, <2>2 DEF Sound, Allocated
<1>4. ASSUME NEW b, Sound(b) PROVE Above(b, b.len, c)
  <2>1. b.len \in Nat
    BY <1>4, SoundParts
  <2>2. b.len = b.len + c.len /\ 1..c.len = {}
    BY <1>2, <2>1
  <2> QED BY <1>3, <1>4, <2>2 DEF Above
<1> QED BY <1>1, <1>2, <1>3, <1>4

\* What is read in one of the buffers is read in the other.
LEMMA ReadAbove ==
  ASSUME NEW n \in Nat, NEW b, NEW c, Above(b, n, c)
  PROVE  ReadAt(b, n + c.len, c.len) = ReadAt(c, c.len, c.len)
<1>1. PICK l \in Nat : l = c.len
  BY SoundParts DEF Above
<1>2. \A j \in 1..l : b.data[n + l - j + 1] = c.data[l - j + 1]
  <2> TAKE j \in 1..l
  <2>1. l - j + 1 \in 1..l /\ n + (l - j + 1) = n + l - j + 1
    OBVIOUS
  <2> QED BY <1>1, <2>1 DEF Above
<1> QED BY <1>1, <1>2 DEF ReadAt

\* Words put before both.
LEMMA WordsAbove ==
  ASSUME NEW n \in Nat, NEW b, NEW c, Sound(b), Sound(c), NEW x, NEW y, Above(x, n, y),
         NEW l \in Nat, b.len = x.len + l, c.len = y.len + l,
         \A p \in 1..x.len : b.data[p] = x.data[p], \A p \in 1..y.len : c.data[p] = y.data[p],
         ReadAt(b, b.len, l) = ReadAt(c, c.len, l)
  PROVE  Above(b, n, c)
<1>1. PICK L, M \in Nat : L = y.len /\ M = x.len /\ M = n + L
  BY SoundParts DEF Above
<1>2. b.len = (n + L) + l /\ c.len = L + l
  BY <1>1
<1>3. PICK B, C \in Nat : B = b.len /\ C = c.len /\ B = n + C /\ B = (n + L) + l /\ C = L + l
  <2>1. (n + L) + l = n + (L + l) /\ L + l \in Nat /\ (n + L) + l \in Nat
    OBVIOUS
  <2> QED BY <1>2, <2>1
<1>4. ASSUME NEW p \in 1..C PROVE b.data[n + p] = c.data[p]
  <2>1. CASE p <= L
    <3>1. p \in 1..L /\ n + p \in 1..M
      BY <1>1, <2>1
    <3>2. b.data[n + p] = x.data[n + p] /\ c.data[p] = y.data[p]
      BY <1>1, <3>1
    <3>3. x.data[n + p] = y.data[p]
      BY <1>1, <3>1 DEF Above
    <3> QED BY <3>2, <3>3
  <2>2. CASE ~(p <= L)
    <3>1. PICK j \in 1..l : C - j + 1 = p /\ B - j + 1 = n + p
      <4>1. C - p + 1 \in 1..l /\ C - (C - p + 1) + 1 = p /\ B - (C - p + 1) + 1 = n + p
        <5>1. p \in Nat /\ p >= 1 /\ p <= C /\ p > L
          BY <2>2
        <5> QED BY ONLY <1>3, <5>1, B \in Nat, C \in Nat, L \in Nat, l \in Nat, n \in Nat
      <4> QED BY <4>1
    <3>2. ReadAt(b, B, l)[j] = b.data[B - j + 1] /\ ReadAt(c, C, l)[j] = c.data[C - j + 1]
      BY DEF ReadAt
    <3>3. ReadAt(b, B, l) = ReadAt(c, C, l)
      BY <1>3
    <3> QED BY <3>1, <3>2, <3>3
  <2> QED BY <2>1, <2>2
<1> QED BY <1>3, <1>4 DEF Above

\* What the same content comes to.
LEMMA AppendedAlike ==
  ASSUME NEW n \in Nat, NEW b, NEW c, Above(b, n, c), NEW v \in ContentType,
         NEW from, NEW start, NEW x, NEW y, Appended(b, from, v, x), Appended(c, start, v, y)
  PROVE  AlikeUnits(x.unit, y.unit, n) /\ Above(x.buf, n, y.buf)
<1>1. PICK s, t : s = x.unit /\ t = y.unit
  OBVIOUS
<1>2. PICK d, e : d = x.buf /\ e = y.buf
  OBVIOUS
<1>3. /\ Sound(d) /\ Kept(d, from, v, s) /\ \A p \in 1..b.len : d.data[p] = b.data[p]
      /\ ~IsSegment(s) => d.len = b.len
      /\ IsSegment(s) => s.pos = b.len + s.len /\ d.len = s.pos
      /\ IsSegment(s) <=> Len(v.words) > 3
  BY <1>1, <1>2 DEF Appended
<1>4. /\ Sound(e) /\ Kept(e, start, v, t) /\ \A p \in 1..c.len : e.data[p] = c.data[p]
      /\ ~IsSegment(t) => e.len = c.len
      /\ IsSegment(t) => t.pos = c.len + t.len /\ e.len = t.pos
      /\ IsSegment(t) <=> Len(v.words) > 3
  BY <1>1, <1>2 DEF Appended
<1>5. PICK l \in Nat : l = Len(v.words) /\ v.words \in Seq(Nat)
  BY DEF ContentType
<1>6. \A m \in Nat : \A ws \in Seq(Nat) : Len(ws) = m => (ws = <<>> <=> m = 0)
  OBVIOUS
<1>7. PICK B, C \in Nat : B = b.len /\ C = c.len /\ B = n + C
  BY SoundParts DEF Above
<1>8. CASE l > 3
  <2>1. Outside(d, from, v, s)
    <3>1. ~Vacant(v, s)
      BY <1>5, <1>8 DEF Vacant, Absent
    <3>2. ~Inside(v, s)
      BY <1>5, <1>8 DEF Inside
    <3> QED BY <1>3, <3>1, <3>2 DEF Kept
  <2>2. Outside(e, start, v, t)
    <3>1. ~Vacant(v, t)
      BY <1>5, <1>8 DEF Vacant, Absent
    <3>2. ~Inside(v, t)
      BY <1>5, <1>8 DEF Inside
    <3> QED BY <1>4, <3>1, <3>2 DEF Kept
  <2>3. IsSegment(s) /\ IsSegment(t)
    BY <1>3, <1>4, <1>5, <1>8
  <2>4. s.inline = <<>> /\ t.inline = <<>> /\ s.len = l /\ t.len = l
    BY <1>5, <2>1, <2>2 DEF Outside
  <2>5. d.len = B + l /\ e.len = C + l /\ s.pos = d.len /\ t.pos = e.len
    BY <1>3, <1>4, <1>7, <2>3, <2>4
  <2>6. s.pos = n + t.pos
    <3>1. (n + C) + l = n + (C + l)
      OBVIOUS
    <3> QED BY <1>7, <2>5, <3>1
  <2>7. AlikeUnits(s, t, n)
    BY <2>3, <2>4, <2>6 DEF AlikeUnits
  <2>8. ReadAt(d, d.len, l) = ReadAt(e, e.len, l)
    BY <2>1, <2>2, <2>4, <2>5 DEF Outside
  <2>9. Above(d, n, e)
    <3>1. d.len = b.len + l /\ e.len = c.len + l
      BY <1>7, <2>5
    <3> QED BY <1>3, <1>4, <2>8, <3>1, WordsAbove
  <2> QED BY <1>1, <1>2, <2>7, <2>9
<1>9. CASE ~(l > 3)
  <2>1. ~IsSegment(s) /\ ~IsSegment(t)
    BY <1>3, <1>4, <1>5, <1>9
  <2>2. ~Outside(d, from, v, s) /\ ~Outside(e, start, v, t)
    <3>1. Outside(d, from, v, s) => s.inline = <<>> /\ s.len = l /\ l # 0
      BY <1>5, <1>6 DEF Outside
    <3>2. Outside(e, start, v, t) => t.inline = <<>> /\ t.len = l /\ l # 0
      BY <1>5, <1>6 DEF Outside
    <3> QED BY <2>1, <3>1, <3>2 DEF IsSegment
  <2>3. EmptyUnit.inline = <<>> /\ Absent.words = <<>>
    BY DEF EmptyUnit, InlineUnit, Absent
  <2>4. s.inline = v.words
    BY <1>3, <2>2, <2>3 DEF Kept, Vacant, Inside
  <2>5. t.inline = v.words
    BY <1>4, <2>2, <2>3 DEF Kept, Vacant, Inside
  <2>6. AlikeUnits(s, t, n)
    BY <2>1, <2>4, <2>5 DEF AlikeUnits
  <2>7. d.len = b.len + 0 /\ e.len = c.len + 0
    BY <1>3, <1>4, <1>7, <2>1
  <2>8. ReadAt(d, d.len, 0) = ReadAt(e, e.len, 0)
    <3>1. 1..0 = {}
      OBVIOUS
    <3> QED BY <3>1 DEF ReadAt
  <2>9. Above(d, n, e)
    BY <1>3, <1>4, <2>7, <2>8, WordsAbove
  <2> QED BY <1>1, <1>2, <2>6, <2>9
<1> QED BY <1>8, <1>9

\* Such units have the same widths.
LEMMA AlikeWidths ==
  ASSUME NEW u \in UnitType, NEW v \in UnitType, NEW n, AlikeUnits(u, v, n)
  PROVE  FieldWidth(u) = FieldWidth(v)
<1>1. u.inline # <<>> => FieldWidth(u) = FieldWidth(v)
  BY DEF AlikeUnits, FieldWidth
<1>2. u.inline = <<>> => (u.len # 0 <=> v.len # 0)
  BY DEF AlikeUnits, IsSegment
<1> QED BY <1>1, <1>2 DEF AlikeUnits, FieldWidth

\* And so the header and the sections are the same.
LEMMA HeadsAlike ==
  ASSUME NEW f, NEW g, Narrow(f), Narrow(g), NEW n, AlikeFields(f, g, n)
  PROVE  /\ \A k : BodyBefore(f, k) = BodyBefore(g, k)
         /\ HeadWord(f) = HeadWord(g) /\ SectionWords(f) = SectionWords(g)
<1>1. PICK m \in Nat : m = Len(f) /\ m = Len(g)
  BY WidthsFit DEF AlikeFields
<1>2. \A k \in 1..m : FieldWidth(f[k]) = FieldWidth(g[k])
  <2> TAKE k \in 1..m
  <2>1. f[k] \in UnitType /\ g[k] \in UnitType /\ AlikeUnits(f[k], g[k], n)
    BY <1>1 DEF AlikeFields, Narrow
  <2> QED BY <2>1, AlikeWidths
<1>3. [j \in 1..Len(f) |-> FieldWidth(f[j])] = [j \in 1..Len(g) |-> FieldWidth(g[j])]
  BY <1>1, <1>2
<1>4. \A k : BodyBefore(f, k) = BodyBefore(g, k)
  BY <1>3 DEF BodyBefore
<1>5. \A k \in Nat : k >= 1 => WidthOf(f, k) = WidthOf(g, k)
  <2> TAKE k \in Nat
  <2>1. k >= 1 /\ k <= m => k \in 1..m
    OBVIOUS
  <2> QED BY <1>1, <1>2, <2>1 DEF WidthOf
<1>6. ASSUME NEW first \in Nat, first >= 1, NEW count PROVE Marks(f, first, count) = Marks(g, first, count)
  <2>1. \A i \in 1..count : first + i - 1 \in Nat /\ first + i - 1 >= 1
    BY <1>6
  <2>2. \A i \in 1..count : WidthOf(f, first + i - 1) = WidthOf(g, first + i - 1)
    BY <1>5, <2>1
  <2>3. [i \in 1..count |-> WidthOf(f, first + i - 1) * Place[i - 1]]
          = [i \in 1..count |-> WidthOf(g, first + i - 1) * Place[i - 1]]
    BY <2>2
  <2> QED BY <2>3 DEF Marks
<1>7. HeadWord(f) = HeadWord(g)
  <2>1. 1 \in Nat /\ 1 >= 1
    OBVIOUS
  <2> QED BY <1>1, <1>6, <2>1 DEF HeadWord
<1>8. PICK S \in Nat : S = Sections(m)
  BY SectionsReach
<1>9. ASSUME NEW i \in 1..S PROVE SectionMark(f, i - 1) = SectionMark(g, i - 1)
  <2>1. i - 1 \in 0..(S - 1)
    OBVIOUS
  <2>2. SectionStart(i - 1) \in 1..m
    BY <1>8, <2>1, SectionsReach
  <2>3. SectionStart(i - 1) \in Nat /\ SectionStart(i - 1) >= 1
    BY <2>2
  <2> QED BY <1>4, <1>6, <2>3 DEF SectionMark
<1>10. SectionWords(f) = SectionWords(g)
  <2>1. [i \in 1..Sections(Len(f)) |->
           <<SectionMark(f, i - 1) % HalfRange, SectionMark(f, i - 1) \div HalfRange>>]
         = [i \in 1..Sections(Len(g)) |->
           <<SectionMark(g, i - 1) % HalfRange, SectionMark(g, i - 1) \div HalfRange>>]
    BY <1>1, <1>8, <1>9
  <2> QED BY <2>1 DEF SectionWords
<1> QED BY <1>4, <1>7, <1>10

\* An offset is the distance between two places, which is the same.
LEMMA BlocksAlike ==
  ASSUME NEW n \in Nat, NEW m \in Nat, NEW f, NEW g, Narrow(f), Narrow(g), AlikeFields(f, g, n)
  PROVE  Block(f, n + m) = Block(g, m)
<1>1. PICK k \in Nat : k = Len(f) /\ k = Len(g)
  BY WidthsFit DEF AlikeFields
<1>2. PICK size \in Nat : size = BodySize(f) /\ size = BodySize(g)
  <2>1. BodySize(f) = BodySize(g)
    BY <1>1, HeadsAlike DEF BodySize
  <2> QED BY <2>1, ReachWithin
<1>3. ASSUME NEW i \in 1..k PROVE FieldBody(f, i, (n + m) + size) = FieldBody(g, i, m + size)
  <2>1. AlikeUnits(f[i], g[i], n) /\ f[i] \in UnitType /\ g[i] \in UnitType
    BY <1>1 DEF AlikeFields, Narrow
  <2>2. PICK r \in Nat : r = BodyBefore(f, i) /\ r = BodyBefore(g, i)
    <3>1. Reach(f, i) \in Nat /\ Reach(f, i) = BodyBefore(f, i)
      <4>1. Reach(f, i) \in Nat
        BY <1>1, ReachGrows
      <4>2. i <= Len(f)
        BY <1>1
      <4> QED BY <4>1, <4>2 DEF Reach
    <3> QED BY <3>1, HeadsAlike
  <2>3. CASE IsSegment(f[i])
    <3>1. PICK p \in Nat : p = g[i].pos /\ f[i].pos = n + p
      BY <2>1, <2>3 DEF AlikeUnits, UnitType
    <3>2. (n + m) + size - r - (n + p) = m + size - r - p
      OBVIOUS
    <3>3. f[i].inline = <<>> /\ f[i].len # 0 /\ g[i].inline = <<>> /\ g[i].len # 0
      BY <2>1, <2>3 DEF AlikeUnits, IsSegment
    <3>4. FieldBody(f, i, (n + m) + size) = <<Offset((n + m) + size - r - (n + p))>>
      BY <2>2, <3>1, <3>3, SMTT(30) DEF FieldBody
    <3>5. FieldBody(g, i, m + size) = <<Offset(m + size - r - p)>>
      BY <2>2, <3>1, <3>3 DEF FieldBody
    <3> QED BY <3>2, <3>4, <3>5
  <2>4. CASE ~IsSegment(f[i])
    <3>1. f[i].inline = g[i].inline /\ (f[i].inline = <<>> => f[i].len = 0 /\ g[i].len = 0)
      BY <2>1, <2>4 DEF AlikeUnits, IsSegment
    <3> QED BY <3>1 DEF FieldBody
  <2> QED BY <2>3, <2>4
<1>4. [i \in 1..Len(f) |-> FieldBody(f, i, (n + m) + size)] = [i \in 1..Len(g) |-> FieldBody(g, i, m + size)]
  BY <1>1, <1>3
<1>5. Body(f, (n + m) + size) = Body(g, m + size)
  BY <1>4 DEF Body
<1>6. HeadWord(f) = HeadWord(g) /\ SectionWords(f) = SectionWords(g)
  BY HeadsAlike
<1> QED BY <1>2, <1>5, <1>6 DEF Block

\* What a message encoded from such fields puts before them.
LEMMA SerializedAlike ==
  ASSUME NEW n \in Nat, NEW b, NEW c, Above(b, n, c), NEW f, NEW g, AlikeFields(f, g, n),
         NEW from, NEW v, Filled(b, from, v, f), Adjacent(b, from, f),
         NEW start, NEW w, Filled(c, start, w, g), Adjacent(c, start, g),
         Sections(Len(Used(g))) < SectionRange
  PROVE  Above(Serialized(f, b, from).buf, n, Serialized(g, c, start).buf)
<1>1. Narrow(f) /\ Narrow(g) /\ Behind(g, c.len)
  BY FilledMeans
<1>2. PICK m \in Nat : m = Len(f) /\ m = Len(g)
  BY <1>1, WidthsFit DEF AlikeFields
<1>3. \A k \in 1..m : FieldWidth(f[k]) = FieldWidth(g[k])
  <2> TAKE k \in 1..m
  <2>1. f[k] \in UnitType /\ g[k] \in UnitType /\ AlikeUnits(f[k], g[k], n)
    BY <1>1, <1>2 DEF AlikeFields, Narrow
  <2> QED BY <2>1, AlikeWidths
<1>4. {k \in 1..Len(f) : FieldWidth(f[k]) # 0} = {k \in 1..Len(g) : FieldWidth(g[k]) # 0}
  BY <1>2, <1>3
<1>5. UsedLength(f) = UsedLength(g)
  <2> DEFINE A(h) == {k \in 1..Len(h) : FieldWidth(h[k]) # 0}
             Top(a) == IF a = {} THEN 0 ELSE CHOOSE k \in a : \A j \in a : j <= k
  <2>1. A(f) = A(g)
    BY <1>4
  <2>2. UsedLength(f) = Top(A(f)) /\ UsedLength(g) = Top(A(g))
    BY DEF UsedLength
  <2>3. Top(A(f)) = Top(A(g))
    <3> HIDE DEF A, Top
    <3> QED BY <2>1
  <2> HIDE DEF A, Top
  <2> QED BY <2>2, <2>3
<1>6. PICK u, t : u = Used(f) /\ t = Used(g)
  OBVIOUS
<1>7. UsedOf(u, f) /\ UsedOf(t, g)
  BY <1>1, <1>6, UsedKeeps
<1>8. Narrow(u) /\ Narrow(t) /\ Len(u) = Len(t) /\ Len(u) \in Nat /\ Len(u) <= m
  BY <1>2, <1>5, <1>7, WidthsFit DEF UsedOf
<1>9. AlikeFields(u, t, n)
  <2>1. ASSUME NEW k \in 1..Len(u) PROVE AlikeUnits(u[k], t[k], n)
    <3>1. k \in 1..m
      BY <1>8
    <3>2. u[k] = f[k] /\ t[k] = g[k]
      BY <1>7, <1>8 DEF UsedOf
    <3> QED BY <1>2, <3>1, <3>2 DEF AlikeFields
  <2> QED BY <1>8, <2>1 DEF AlikeFields
<1>10. Behind(t, c.len)
  <2>1. \A k \in 1..Len(t) : k \in 1..Len(g) /\ t[k] = g[k]
    BY <1>2, <1>7, <1>8 DEF UsedOf
  <2> QED BY <1>1, <2>1 DEF Behind
<1>11. c.len \in Nat /\ Sound(b) /\ Sound(c) /\ b.len = n + c.len
  BY SoundParts DEF Above
<1>12. PICK ws \in Seq(Nat) : ws = Block(t, c.len)
  BY <1>6, <1>8, <1>10, <1>11, BlockPlaced
<1>13. ws = Block(u, b.len)
  <2>1. PICK k \in Nat : k = c.len
    BY <1>11
  <2>2. Block(u, n + k) = Block(t, k)
    BY <1>8, <1>9, BlocksAlike
  <2> QED BY <1>11, <1>12, <2>1, <2>2
<1>14. PICK d, e : d = PutWords(b, ws) /\ e = PutWords(c, ws)
  OBVIOUS
<1>15. Serialized(f, b, from).buf = d
  <2>1. Serialized(f, b, from) = Ended(d, from)
    BY <1>6, <1>13, <1>14, SerializedIs
  <2> QED BY <2>1 DEF Ended
<1>16. Serialized(g, c, start).buf = e
  <2>1. Serialized(g, c, start) = Ended(e, start)
    BY <1>6, <1>12, <1>14, SerializedIs
  <2> QED BY <2>1 DEF Ended
<1>17. PICK l \in Nat : l = Len(ws)
  OBVIOUS
<1>18. /\ Sound(d) /\ d.len = b.len + l /\ \A p \in 1..b.len : d.data[p] = b.data[p]
       /\ ReadAt(d, d.len, l) = ws
  BY <1>11, <1>14, <1>17, PutWordsPrepends
<1>19. /\ Sound(e) /\ e.len = c.len + l /\ \A p \in 1..c.len : e.data[p] = c.data[p]
       /\ ReadAt(e, e.len, l) = ws
  BY <1>11, <1>14, <1>17, PutWordsPrepends
<1>20. Above(d, n, e)
  BY <1>18, <1>19, WordsAbove
<1> QED BY <1>15, <1>16, <1>20

\* One more field before the others.
LEMMA PrependedAlike ==
  ASSUME NEW f \in Seq(UnitType), NEW g \in Seq(UnitType), NEW n, AlikeFields(f, g, n),
         NEW u \in UnitType, NEW v \in UnitType, AlikeUnits(u, v, n)
  PROVE  /\ <<u>> \o f \in Seq(UnitType) /\ <<v>> \o g \in Seq(UnitType)
         /\ AlikeFields(<<u>> \o f, <<v>> \o g, n)
<1>1. PICK m \in Nat : m = Len(f) /\ m = Len(g)
  BY DEF AlikeFields
<1>2. PICK x, y : x = <<u>> \o f /\ y = <<v>> \o g
  OBVIOUS
<1>3. PICK p, q : p = <<u>> /\ q = <<v>>
  OBVIOUS
<1>4. p \in Seq(UnitType) /\ Len(p) = 1 /\ p[1] = u /\ q \in Seq(UnitType) /\ Len(q) = 1 /\ q[1] = v
  BY <1>3
<1>5. x = p \o f /\ y = q \o g
  BY <1>2, <1>3
<1>6. x \in Seq(UnitType) /\ Len(x) = 1 + m /\ x[1] = u /\ \A k \in 1..m : x[1 + k] = f[k]
  <2>1. /\ p \o f \in Seq(UnitType) /\ Len(p \o f) = Len(p) + Len(f)
        /\ \A k \in 1..Len(p) : (p \o f)[k] = p[k]
        /\ \A k \in 1..Len(f) : (p \o f)[Len(p) + k] = f[k]
    <3>1. p \in Seq(UnitType) /\ f \in Seq(UnitType)
      BY <1>4
    <3> QED BY ONLY <3>1, ConcatPlaces
  <2>2. \A k \in 1..Len(p) : x[k] = p[k]
    BY <1>5, <2>1
  <2>3. \A k \in 1..m : x[1 + k] = f[k]
    BY <1>1, <1>4, <1>5, <2>1
  <2>4. 1 \in 1..1
    OBVIOUS
  <2> QED BY <1>1, <1>4, <1>5, <2>1, <2>2, <2>3, <2>4
<1>7. y \in Seq(UnitType) /\ Len(y) = 1 + m /\ y[1] = v /\ \A k \in 1..m : y[1 + k] = g[k]
  <2>1. /\ q \o g \in Seq(UnitType) /\ Len(q \o g) = Len(q) + Len(g)
        /\ \A k \in 1..Len(q) : (q \o g)[k] = q[k]
        /\ \A k \in 1..Len(g) : (q \o g)[Len(q) + k] = g[k]
    <3>1. q \in Seq(UnitType) /\ g \in Seq(UnitType)
      BY <1>4
    <3> QED BY ONLY <3>1, ConcatPlaces
  <2>2. \A k \in 1..Len(q) : y[k] = q[k]
    BY <1>5, <2>1
  <2>3. \A k \in 1..m : y[1 + k] = g[k]
    BY <1>1, <1>4, <1>5, <2>1
  <2>4. 1 \in 1..1
    OBVIOUS
  <2> QED BY <1>1, <1>4, <1>5, <2>1, <2>2, <2>3, <2>4
<1>8. ASSUME NEW k \in 1..(1 + m) PROVE AlikeUnits(x[k], y[k], n)
  <2>1. CASE k = 1
    BY <1>6, <1>7, <2>1
  <2>2. CASE k # 1
    <3>1. PICK j \in 1..m : k = 1 + j
      <4>1. k - 1 \in 1..m /\ k = 1 + (k - 1)
        BY <2>2
      <4> QED BY <4>1
    <3>2. AlikeUnits(f[j], g[j], n)
      BY <1>1 DEF AlikeFields
    <3> QED BY <1>6, <1>7, <3>1, <3>2
  <2> QED BY <2>1, <2>2
<1>9. AlikeFields(x, y, n)
  BY <1>6, <1>7, <1>8 DEF AlikeFields
<1> QED BY <1>2, <1>6, <1>7, <1>9

\* Fields and the buffer they were encoded into, twice.
AlikeParts(part, other, n) ==
  /\ part.units \in Seq(UnitType) /\ other.units \in Seq(UnitType)
  /\ AlikeFields(part.units, other.units, n) /\ Above(part.buf, n, other.buf)

\* Encoding the same contents one before the other.
LEMMA PartsAlike ==
  ASSUME NEW m \in Nat, NEW n \in Nat, NEW b, NEW c, Above(b, n, c), NEW parts, NEW others,
         parts[m + 1] = [units |-> <<>>, buf |-> b], others[m + 1] = [units |-> <<>>, buf |-> c],
         \A k \in 1..m : Sound(parts[k + 1].buf) /\ Sound(others[k + 1].buf) =>
           \E x, y : \E v \in ContentType :
             /\ Appended(parts[k + 1].buf, 0, v, x) /\ parts[k] = After(x, parts[k + 1])
             /\ Appended(others[k + 1].buf, 0, v, y) /\ others[k] = After(y, others[k + 1])
  PROVE  AlikeParts(parts[1], others[1], n)
<1> DEFINE S == {i \in 1..(m + 1) : AlikeParts(parts[m + 2 - i], others[m + 2 - i], n)}
<1>1. 1 \in S
  <2>1. parts[m + 1].units = <<>> /\ others[m + 1].units = <<>>
    OBVIOUS
  <2>2. parts[m + 1].buf = b /\ others[m + 1].buf = c
    OBVIOUS
  <2>3. <<>> \in Seq(UnitType) /\ Len(<<>>) = 0 /\ 1..0 = {}
    OBVIOUS
  <2>4. AlikeFields(<<>>, <<>>, n)
    BY <2>3 DEF AlikeFields
  <2>5. AlikeParts(parts[m + 1], others[m + 1], n)
    BY <2>1, <2>2, <2>3, <2>4 DEF AlikeParts
  <2>6. m + 2 - 1 = m + 1 /\ 1 \in 1..(m + 1)
    OBVIOUS
  <2> QED BY <2>5, <2>6
<1>2. ASSUME NEW i \in 1..m, i \in S PROVE i + 1 \in S
  <2>1. PICK k \in 1..m : k = m + 1 - i /\ k + 1 = m + 2 - i /\ k = m + 2 - (i + 1) /\ i + 1 \in 1..(m + 1)
    <3>1. /\ m + 1 - i \in 1..m /\ (m + 1 - i) + 1 = m + 2 - i /\ m + 1 - i = m + 2 - (i + 1)
          /\ i + 1 \in 1..(m + 1)
      OBVIOUS
    <3> QED BY <3>1
  <2>2. AlikeParts(parts[k + 1], others[k + 1], n)
    BY <1>2, <2>1
  <2>3. PICK d, e : d = parts[k + 1] /\ e = others[k + 1]
    OBVIOUS
  <2>4. Above(d.buf, n, e.buf) /\ Sound(d.buf) /\ Sound(e.buf)
    BY <2>2, <2>3 DEF AlikeParts, Above
  <2>5. PICK x, y : \E v \in ContentType : /\ Appended(d.buf, 0, v, x) /\ parts[k] = After(x, d)
                                          /\ Appended(e.buf, 0, v, y) /\ others[k] = After(y, e)
    BY <2>3, <2>4
  <2>6. AlikeUnits(x.unit, y.unit, n) /\ Above(x.buf, n, y.buf)
    BY <2>4, <2>5, AppendedAlike
  <2>7. x.unit \in UnitType /\ y.unit \in UnitType
    BY <2>5 DEF Appended
  <2>8. /\ d.units \in Seq(UnitType) /\ e.units \in Seq(UnitType) /\ AlikeFields(d.units, e.units, n)
    BY <2>2, <2>3 DEF AlikeParts
  <2>9. /\ parts[k].units = <<x.unit>> \o d.units /\ parts[k].buf = x.buf
        /\ others[k].units = <<y.unit>> \o e.units /\ others[k].buf = y.buf
    BY <2>5, SMTT(30) DEF After
  <2>10. /\ <<x.unit>> \o d.units \in Seq(UnitType) /\ <<y.unit>> \o e.units \in Seq(UnitType)
         /\ AlikeFields(<<x.unit>> \o d.units, <<y.unit>> \o e.units, n)
    BY <2>6, <2>7, <2>8, PrependedAlike
  <2>11. AlikeParts(parts[k], others[k], n)
    BY <2>6, <2>9, <2>10 DEF AlikeParts
  <2> QED BY <2>1, <2>11
<1>3. \A i \in 1..(m + 1) : i \in S
  <2>1. m + 1 \in Nat /\ (m + 1) - 1 = m
    OBVIOUS
  <2> HIDE DEF S
  <2> QED BY <1>1, <1>2, <2>1, Climb
<1>4. m + 1 \in S
  BY <1>3
<1>5. m + 2 - (m + 1) = 1
  OBVIOUS
<1> QED BY <1>4, <1>5

-----------------------------------------------------------------------------
(***************************************************************************)
(* Messages in fields.                                                     *)
(***************************************************************************)
NestedFields == DOMAIN NestedKinds

\* The values of a message.
IsNestedContent(d) ==
  /\ d = [j \in NestedFields |-> d[j]]
  /\ \A j \in NestedFields : d[j] \in NestedValues(j) \cup {<<>>}

\* The values of a new message.
NestedDefaults == [j \in NestedFields |-> <<>>]

\* A new message all of whose fields were set, and its words.
SetNested(d) == [words |-> <<>>, accessed |-> NestedFields, slots |-> d]

NestedWords(d) ==
  LET b == Assembled(NestedParts(SetNested(d), EmptyBuffer), 0).buf
  IN  ReadAt(b, b.len, b.len)

\* Words that encode a message with these values, wherever they stand: a view of
\* anything that begins with them finds the values and detects their length.
\* They are the words that encoding all values afresh gives.
Carries(ws, d) ==
  /\ d # NestedDefaults /\ ws = NestedWords(d)
  /\ ws \in Seq(Nat) /\ Len(ws) >= 2 /\ (Len(ws) <= 3 => ~IsOffset(ws[1]))
  /\ \A w \in Seq(Nat) : IsPrefix(ws, w) =>
       /\ \A j \in NestedFields : FlatSeen(w, NestedKinds[j], j, d[j])
       /\ NestedLength(w) = Len(ws)

\* A mutable message in a field has these values: those of its accessed fields
\* are in its slots, the others in the words it was made from, which begin with
\* an encoded message.
NestedHolds(s, d) ==
  /\ s = [words |-> s.words, accessed |-> s.accessed,
          slots |-> [j \in NestedFields |-> IF j \in s.accessed THEN d[j] ELSE <<>>]]
  /\ s.words \in Seq(Nat) /\ s.accessed \in SUBSET NestedFields
  /\ IF s.words = <<>> THEN \A j \in NestedFields \ s.accessed : d[j] = <<>>
     ELSE \E ws, e : /\ Carries(ws, e) /\ IsPrefix(ws, s.words) /\ IsNestedContent(e)
                     /\ \A j \in NestedFields \ s.accessed : e[j] = d[j]

\* The values of a message in a field are values of flat fields.
LEMMA NestedValue ==
  ASSUME NEW d, IsNestedContent(d), NEW j \in NestedFields
  PROVE  NestedKinds[j] \in FlatKinds /\ FlatValue(NestedKinds[j], d[j])
<1>1. NestedKinds[j] \in FlatKinds
  BY KindsAssumption DEF FlatKinds, NestedFields
<1>2. d[j] # <<>> => Fits(NestedKinds[j], d[j])
  BY ValuesAssumption DEF IsNestedContent, NestedFields
<1> QED BY <1>1, <1>2 DEF FlatValue

\* NestedFields are numbered from 1.
LEMMA NestedNumbers ==
  /\ Len(NestedKinds) \in Nat \ {0}
  /\ NestedFields = 1..Len(NestedKinds)
BY KindsAssumption DEF NestedFields

\* Each field of a message in a field has its value.
LEMMA NestedHoldsEach ==
  ASSUME NEW s, NEW d, NestedHolds(s, d), NEW j \in NestedFields
  PROVE  FlatHolds(s, NestedKinds[j], j, d[j])
<1>1. s.slots = [i \in NestedFields |-> IF i \in s.accessed THEN d[i] ELSE <<>>]
  BY DEF NestedHolds
<1>2. CASE j \in s.accessed
  BY <1>1, <1>2 DEF FlatHolds
<1>3. CASE j \notin s.accessed
  <2>1. CASE s.words = <<>>
    BY <1>3, <2>1 DEF FlatHolds, NestedHolds
  <2>2. CASE s.words # <<>>
    <3>1. PICK ws, e : /\ Carries(ws, e) /\ IsPrefix(ws, s.words)
                       /\ \A i \in NestedFields \ s.accessed : e[i] = d[i]
      BY <2>2 DEF NestedHolds
    <3>2. s.words \in Seq(Nat)
      BY DEF NestedHolds
    <3>3. FlatSeen(s.words, NestedKinds[j], j, e[j])
      BY <3>1, <3>2 DEF Carries
    <3>4. e[j] = d[j]
      BY <1>3, <3>1
    <3> QED BY <1>3, <2>2, <3>3, <3>4 DEF FlatHolds
  <2> QED BY <2>1, <2>2
<1> QED BY <1>2, <1>3

\* Contents of the fields of a message with these values.
NestedFilled(c, d) ==
  /\ Len(c) = Len(NestedKinds)
  /\ \A j \in NestedFields : c[j] = FlatContent(NestedKinds[j], d[j])

\* Encoding the fields of a message in a field.
LEMMA NestedGathered ==
  ASSUME NEW s, NEW d, NestedHolds(s, d), IsNestedContent(d), NEW b, Sound(b),
         NEW part, part = NestedParts(s, b)
  PROVE  /\ \A p \in 1..b.len : part.buf.data[p] = b.data[p]
         /\ \E c : /\ Filled(part.buf, b.len, c, part.units) /\ Adjacent(part.buf, b.len, part.units)
                   /\ NestedFilled(c, d)
<1>1. PICK n \in Nat : n = Len(NestedKinds) /\ NestedFields = 1..n
  BY NestedNumbers
<1>2. PICK H : H = [j \in NestedFields |-> {FlatContent(NestedKinds[j], d[j])}]
  OBVIOUS
<1>3. \A j \in 1..n : H[j] \in SUBSET ContentType
  <2> TAKE j \in 1..n
  <2>1. FlatContent(NestedKinds[j], d[j]) \in ContentType
    BY <1>1, NestedValue, FlatContentType
  <2> QED BY <1>1, <1>2, <2>1
<1>4. PICK parts : IsNestedParts(parts, s, b) /\ part = parts[1]
  BY NestedPartsExist
<1>5. parts[n + 1] = [units |-> <<>>, buf |-> b]
  <2>1. n + 1 \in 1..(n + 1) /\ n + 1 > n
    OBVIOUS
  <2> QED BY <1>1, <1>4, <2>1 DEF IsNestedParts
<1>6. b.len \in Nat
  BY SoundParts
<1>7. ASSUME NEW j \in 1..n, Sound(parts[j + 1].buf), b.len <= parts[j + 1].buf.len
      PROVE  \E done : \E c \in H[j] : /\ Appended(parts[j + 1].buf, b.len, c, done)
                                       /\ parts[j] = After(done, parts[j + 1])
  <2>1. parts[j] = NestedPart(s, j, parts[j + 1])
    <3>1. j \in 1..(n + 1) /\ ~(j > n)
      OBVIOUS
    <3> QED BY <1>1, <1>4, <3>1 DEF IsNestedParts
  <2>2. PICK mid, done : mid = parts[j + 1].buf /\ done = FlatField(s, NestedKinds, j, mid)
    OBVIOUS
  <2>3. parts[j] = After(done, parts[j + 1])
    BY <2>1, <2>2 DEF NestedPart
  <2>4. /\ NestedKinds[j] \in FlatKinds /\ FlatValue(NestedKinds[j], d[j])
        /\ FlatHolds(s, NestedKinds[j], j, d[j])
    BY <1>1, NestedValue, NestedHoldsEach
  <2>5. Appended(mid, b.len, FlatContent(NestedKinds[j], d[j]), done)
    BY <1>6, <1>7, <2>2, <2>4, FlatFieldAppends
  <2>6. FlatContent(NestedKinds[j], d[j]) \in H[j]
    BY <1>1, <1>2
  <2> QED BY <2>2, <2>3, <2>5, <2>6
<1>8. Gathered(part, b, b.len, H, 1, n)
  BY <1>3, <1>4, <1>5, <1>7, FieldsGathered, ZenonT(30)
<1>9. PICK c : /\ Filled(part.buf, b.len, c, part.units) /\ Adjacent(part.buf, b.len, part.units)
               /\ Len(c) = n + 1 - 1
               /\ \A k \in 1..n : c[k + 1 - 1] \in H[k]
  BY <1>8 DEF Gathered
<1>10. NestedFilled(c, d)
  <2>1. Len(c) = n
    BY <1>9
  <2>2. ASSUME NEW j \in 1..n PROVE c[j] = FlatContent(NestedKinds[j], d[j])
    <3>1. j + 1 - 1 = j
      OBVIOUS
    <3>2. c[j] \in H[j]
      BY <1>9, <3>1
    <3> QED BY <1>1, <1>2, <3>2
  <2> QED BY <1>1, <2>1, <2>2 DEF NestedFilled
<1> QED BY <1>8, <1>9, <1>10 DEF Gathered

\* The message with these values that has nothing but them.
LEMMA SetNestedHolds ==
  ASSUME NEW d, IsNestedContent(d)
  PROVE  NestedHolds(SetNested(d), d)
<1>1. PICK s : s = SetNested(d) /\ s = [words |-> <<>>, accessed |-> NestedFields, slots |-> d]
  BY DEF SetNested
<1>2. s.words = <<>> /\ s.accessed = NestedFields
  BY <1>1
<1>3. d = [j \in NestedFields |-> IF j \in s.accessed THEN d[j] ELSE <<>>]
  <2>1. d = [j \in NestedFields |-> d[j]]
    BY DEF IsNestedContent
  <2>2. [j \in NestedFields |-> d[j]] = [j \in NestedFields |-> IF j \in s.accessed THEN d[j] ELSE <<>>]
    BY <1>2
  <2> QED BY <2>1, <2>2
<1>4. s = [words |-> s.words, accessed |-> s.accessed,
           slots |-> [j \in NestedFields |-> IF j \in s.accessed THEN d[j] ELSE <<>>]]
  BY <1>1, <1>2, <1>3
<1>5. <<>> \in Seq(Nat) /\ NestedFields \ NestedFields = {}
  OBVIOUS
<1> QED BY <1>1, <1>2, <1>4, <1>5 DEF NestedHolds

\* However a message came to have its values, its fields come to the same.
LEMMA NestedAlike ==
  ASSUME NEW s, NEW d, NestedHolds(s, d), IsNestedContent(d), NEW b, Sound(b)
  PROVE  AlikeParts(NestedParts(s, b), NestedParts(SetNested(d), EmptyBuffer), b.len)
<1>1. PICK m \in Nat : m = Len(NestedKinds) /\ NestedFields = 1..m
  BY NestedNumbers
<1>2. PICK t, c : t = SetNested(d) /\ c = EmptyBuffer /\ NestedHolds(t, d)
  BY SetNestedHolds
<1>3. PICK parts : IsNestedParts(parts, s, b) /\ NestedParts(s, b) = parts[1]
  BY NestedPartsExist
<1>4. PICK others : IsNestedParts(others, t, c) /\ NestedParts(t, c) = others[1]
  BY NestedPartsExist
<1>5. parts[m + 1] = [units |-> <<>>, buf |-> b] /\ others[m + 1] = [units |-> <<>>, buf |-> c]
  <2>1. m + 1 \in 1..(m + 1) /\ m + 1 > m
    OBVIOUS
  <2> QED BY <1>1, <1>3, <1>4, <2>1 DEF IsNestedParts
<1>6. PICK n \in Nat : n = b.len /\ Above(b, n, c)
  BY <1>2, EmptyIsSound, SoundParts
<1>7. ASSUME NEW k \in 1..m, Sound(parts[k + 1].buf), Sound(others[k + 1].buf)
      PROVE  \E x, y : \E v \in ContentType :
               /\ Appended(parts[k + 1].buf, 0, v, x) /\ parts[k] = After(x, parts[k + 1])
               /\ Appended(others[k + 1].buf, 0, v, y) /\ others[k] = After(y, others[k + 1])
  <2>1. parts[k] = NestedPart(s, k, parts[k + 1]) /\ others[k] = NestedPart(t, k, others[k + 1])
    <3>1. k \in 1..(m + 1) /\ ~(k > m)
      OBVIOUS
    <3> QED BY <1>1, <1>3, <1>4, <3>1 DEF IsNestedParts
  <2>2. PICK e, f : e = parts[k + 1].buf /\ f = others[k + 1].buf /\ Sound(e) /\ Sound(f)
    BY <1>7
  <2>3. PICK x, y : x = FlatField(s, NestedKinds, k, e) /\ y = FlatField(t, NestedKinds, k, f)
    OBVIOUS
  <2>4. parts[k] = After(x, parts[k + 1]) /\ others[k] = After(y, others[k + 1])
    BY <2>1, <2>2, <2>3 DEF NestedPart
  <2>5. /\ NestedKinds[k] \in FlatKinds /\ FlatValue(NestedKinds[k], d[k])
        /\ FlatHolds(s, NestedKinds[k], k, d[k]) /\ FlatHolds(t, NestedKinds[k], k, d[k])
    BY <1>1, <1>2, NestedValue, NestedHoldsEach
  <2>6. PICK v \in ContentType : v = FlatContent(NestedKinds[k], d[k])
    BY <2>5, FlatContentType
  <2>7. 0 \in Nat /\ 0 <= e.len /\ 0 <= f.len
    BY <2>2, SoundParts
  <2>8. Appended(e, 0, v, x)
    BY <2>2, <2>3, <2>5, <2>6, <2>7, FlatFieldAppends
  <2>9. Appended(f, 0, v, y)
    BY <2>2, <2>3, <2>5, <2>6, <2>7, FlatFieldAppends
  <2> QED BY <2>2, <2>4, <2>8, <2>9
<1>8. AlikeParts(parts[1], others[1], n)
  <2>1. \A k \in 1..m : Sound(parts[k + 1].buf) /\ Sound(others[k + 1].buf) =>
          \E x, y : \E v \in ContentType :
            /\ Appended(parts[k + 1].buf, 0, v, x) /\ parts[k] = After(x, parts[k + 1])
            /\ Appended(others[k + 1].buf, 0, v, y) /\ others[k] = After(y, others[k + 1])
    BY <1>7
  <2>2. Above(b, n, c)
    BY <1>6
  <2> QED BY ONLY m \in Nat, n \in Nat, <1>5, <2>1, <2>2, PartsAlike, ZenonT(30)
<1> QED BY <1>2, <1>3, <1>4, <1>6, <1>8

\* A view of the encoded message finds each value, and its whole extent.
LEMMA NestedFound ==
  ASSUME NEW d, IsNestedContent(d), NEW b, NEW from, NEW c, NEW f,
         Filled(b, from, c, f), Adjacent(b, from, f), NestedFilled(c, d),
         NEW u, UsedOf(u, f), NEW w \in Seq(Nat), Readable(w, u, b, from)
  PROVE  /\ \A j \in NestedFields : FlatSeen(w, NestedKinds[j], j, d[j])
         /\ NestedLength(w) = b.len + BlockLength(u) - from
<1>1. PICK n \in Nat : n = Len(NestedKinds) /\ NestedFields = 1..n /\ Len(c) = n
  BY NestedNumbers DEF NestedFilled
<1>2. ASSUME NEW j \in 1..n
      PROVE  /\ FlatSeen(w, NestedKinds[j], j, d[j])
             /\ HasField(w, j) <=> d[j] # <<>>
             /\ NestedKinds[j] = "text" /\ d[j] # <<>> => TextLength(ObjectWords(w, j)) = Len(d[j])
  <2>1. NestedKinds[j] \in FlatKinds /\ FlatValue(NestedKinds[j], d[j])
    BY <1>1, NestedValue
  <2>2. c[j] = FlatContent(NestedKinds[j], d[j])
    BY <1>1 DEF NestedFilled
  <2>3. Found(w, c, j)
    <3>1. j \in Nat /\ j >= 1
      OBVIOUS
    <3> QED BY <3>1, EveryFieldFound
  <2>4. c[j].object => ObjectWords(w, j) \in Seq(Nat)
    BY <1>1, ObjectWordsFound
  <2> QED BY <1>1, <2>1, <2>2, <2>3, <2>4, FlatFound
<1>3. PICK objects : objects = {k \in 1..Len(c) : c[k].object}
  OBVIOUS
<1>4. PICK size : size = [k \in objects |-> Len(c[k].words)]
  OBVIOUS
<1>5. \A j \in 1..n : c[j].object <=> NestedKinds[j] = "text" /\ d[j] # <<>>
  <2> TAKE j \in 1..n
  <2>1. c[j] = FlatContent(NestedKinds[j], d[j])
    BY <1>1 DEF NestedFilled
  <2>2. PICK v, kind : v = d[j] /\ kind = NestedKinds[j]
    OBVIOUS
  <2>3. CASE v = <<>>
    <3>1. c[j].object = FALSE
      BY <2>1, <2>2, <2>3 DEF FlatContent, Absent
    <3> QED BY <2>2, <2>3, <3>1
  <2>4. CASE v # <<>>
    <3>1. c[j].object = (kind = "text")
      BY <2>1, <2>2, <2>4 DEF FlatContent
    <3> QED BY <2>2, <2>4, <3>1
  <2> QED BY <2>3, <2>4
<1>6. objects = {k \in DOMAIN NestedKinds : NestedKinds[k] = "text" /\ HasField(w, k)}
  BY <1>1, <1>2, <1>3, <1>5 DEF NestedFields
<1>7. size = [k \in objects |-> TextLength(ObjectWords(w, k))]
  <2>1. ASSUME NEW k \in objects PROVE Len(c[k].words) = TextLength(ObjectWords(w, k))
    <3>1. k \in 1..n /\ NestedKinds[k] = "text" /\ d[k] # <<>>
      BY <1>1, <1>3, <1>5
    <3>2. c[k].words = d[k]
      <4>1. c[k] = FlatContent(NestedKinds[k], d[k])
        BY <1>1, <3>1 DEF NestedFilled
      <4> QED BY <3>1, <4>1 DEF FlatContent
    <3> QED BY <1>2, <3>1, <3>2
  <2> QED BY <1>4, <2>1
<1>8. NestedLength(w) = DetectWhole(w, objects, size)
  BY <1>6, <1>7 DEF NestedLength
<1>9. DetectWhole(w, objects, size) = b.len + BlockLength(u) - from
  BY <1>3, <1>4, DetectsWhole, SMTT(30)
<1> QED BY <1>1, <1>2, <1>8, <1>9

\* How long a message's block is: a single word when no field is there, and in
\* three words at most there is no section, so that the first word, the number of
\* sections, is no offset.
LEMMA BlockIsHead ==
  ASSUME NEW f, Narrow(f), NEW u, UsedOf(u, f), SectionRange % 4 = 0,
         Sections(Len(u)) < SectionRange
  PROVE  /\ BlockLength(u) \in Nat
         /\ Len(u) = 0 => BlockLength(u) = 1
         /\ Len(u) # 0 => BlockLength(u) >= 2
         /\ BlockLength(u) <= 3 => ~IsOffset(HeadWord(u))
<1>1. PICK m, S, size \in Nat : m = Len(u) /\ S = Sections(m) /\ size = BodySize(u) /\ Narrow(u)
  <2>1. Narrow(u)
    BY DEF UsedOf
  <2>2. Len(u) \in Nat
    BY <2>1, WidthsFit
  <2> QED BY <2>1, <2>2, SectionsReach, ReachWithin
<1>2. PICK x \in Nat : x = BlockLength(u) /\ x = 1 + 2 * S + size
  <2>1. 1 + 2 * S + size \in Nat
    OBVIOUS
  <2> QED BY <1>1, <2>1 DEF BlockLength
<1>3. ASSUME m = 0 PROVE x = 1
  <2>1. S = 0
    <3>1. S # 0 => SectionStart(0) \in 1..m
      <4>1. S # 0 => 0 \in 0..(S - 1)
        OBVIOUS
      <4> QED BY <1>1, <4>1, SectionsReach
    <3> QED BY <1>3, <3>1
  <2>2. size = 0
    <3>1. Reach(u, 1) = 0 /\ Reach(u, Len(u) + 1) = BodySize(u)
      BY <1>1, ReachGrows
    <3> QED BY <1>1, <1>3, <3>1
  <2> QED BY <1>2, <2>1, <2>2
<1>4. ASSUME m # 0 PROVE size >= 1
  <2>1. m \in 1..m
    BY <1>4
  <2>2. FieldWidth(u[m]) # 0
    <3>1. FieldWidth(f[UsedLength(f)]) # 0 /\ UsedLength(f) = m
      BY <1>1, <1>4, LastUsed DEF UsedOf
    <3>2. u[m] = f[m]
      BY <1>1, <2>1 DEF UsedOf
    <3> QED BY <3>1, <3>2
  <2>3. FieldWidth(u[m]) \in 0..3 /\ Reach(u, m) \in Nat
    <3>1. m \in Nat /\ m >= 1
      BY <1>4
    <3> QED BY <1>1, <2>1, <3>1, WidthsFit, ReachGrows
  <2>4. Reach(u, m) + FieldWidth(u[m]) <= size
    BY <1>1, <2>1, ReachWithin
  <2>5. PICK r, w \in Nat : r = Reach(u, m) /\ w = FieldWidth(u[m]) /\ w # 0 /\ r + w <= size
    BY <2>2, <2>3, <2>4
  <2> QED BY ONLY <2>5, r \in Nat, w \in Nat, size \in Nat
<1>5. m # 0 => x >= 2
  BY <1>2, <1>4
<1>6. ASSUME x <= 3 PROVE ~IsOffset(HeadWord(u))
  <2>1. S = 0
    <3>1. CASE m = 0
      <4>1. x = 1
        BY <1>3, <3>1
      <4> QED BY <1>2, <4>1
    <3>2. CASE m # 0
      BY <1>2, <1>4, <1>6, <3>2
    <3> QED BY <3>1, <3>2
  <2>2. HeadWord(u) \in Nat /\ HeadWord(u) % SectionRange = 0
    BY <1>1, <2>1, HeadIs
  <2>3. PICK R \in Nat \ {0} : R = SectionRange
    BY LayoutAssumption
  <2>4. PICK h, q \in Nat : h = HeadWord(u) /\ h = R * q
    <3>1. PICK h \in Nat : h = HeadWord(u) /\ h % R = 0
      BY <2>2, <2>3
    <3>2. h = (h % R) + R * (h \div R) /\ h \div R \in Nat
      BY Rejoins
    <3>3. PICK q \in Nat : q = h \div R
      BY <3>2
    <3>4. h = R * q
      <4>1. h = 0 + R * q
        BY <3>1, <3>2, <3>3
      <4> QED BY <4>1
    <3> QED BY <3>1, <3>4
  <2>5. PICK p \in Nat : R = 4 * p
    <3>1. R % 4 = 0
      BY <2>3
    <3>2. R = (R % 4) + 4 * (R \div 4) /\ R \div 4 \in Nat
      <4>1. R \in Nat /\ 4 \in Nat \ {0}
        OBVIOUS
      <4> QED BY ONLY <4>1, Rejoins
    <3>3. PICK p \in Nat : p = R \div 4
      BY <3>2
    <3>4. R = 4 * p
      <4>1. R = 0 + 4 * p
        BY <3>1, <3>2, <3>3
      <4> QED BY <4>1
    <3> QED BY <3>4
  <2>6. PICK o \in Nat : o = p * q /\ h = 4 * o
    <3>1. p * q \in Nat /\ (4 * p) * q = 4 * (p * q)
      OBVIOUS
    <3> QED BY <2>4, <2>5, <3>1
  <2>7. h % 4 = 0
    <3>1. 0 \in 0..(4 - 1) /\ h = 0 + 4 * o
      BY <2>6
    <3> QED BY <3>1, Divides
  <2> QED BY <2>4, <2>7 DEF IsOffset
<1> QED BY <1>1, <1>2, <1>3, <1>5, <1>6

\* What is written for a message in a field that has these values: nothing when
\* it has no values, or else words that begin with its encoding.
MessageContent(c, d) ==
  \/ c = Absent /\ d = NestedDefaults
  \/ /\ c \in [object : {TRUE}, words : Seq(Nat)]
     /\ \E ws : Carries(ws, d) /\ IsPrefix(ws, c.words)

\* Nothing, or just its encoding.
MessageValue(d) ==
  IF d = NestedDefaults THEN Absent ELSE [object |-> TRUE, words |-> NestedWords(d)]

\* A message that was accessed while its own fields were not is copied with what
\* follows it.
LEMMA CleanNestedCopied ==
  ASSUME NEW s, NEW d, NestedHolds(s, d), IsNestedContent(d), Clean(s),
         NEW b, Sound(b), NEW from \in Nat, from <= b.len
  PROVE  \E c : MessageContent(c, d) /\ Appended(b, from, c, Placed("message", NestedToUnit(s, b)))
<1>1. s.words # <<>> /\ s.accessed = {} /\ s.words \in Seq(Nat)
  BY DEF Clean, NestedHolds
<1>2. PICK v \in Seq(Nat) : v = s.words
  BY <1>1
<1>3. PICK ws, e : /\ Carries(ws, e) /\ IsPrefix(ws, v) /\ IsNestedContent(e)
                   /\ \A j \in NestedFields : e[j] = d[j]
  BY <1>1, <1>2 DEF NestedHolds
<1>4. e = d
  <2>1. e = [j \in NestedFields |-> e[j]] /\ d = [j \in NestedFields |-> d[j]]
    BY <1>3 DEF IsNestedContent
  <2>2. [j \in NestedFields |-> e[j]] = [j \in NestedFields |-> d[j]]
    BY <1>3
  <2> QED BY <2>1, <2>2
<1>5. ws \in Seq(Nat) /\ Len(ws) >= 2 /\ (Len(ws) <= 3 => ~IsOffset(ws[1]))
  BY <1>3 DEF Carries
<1>6. Len(ws) <= Len(v) /\ \A j \in 1..Len(ws) : v[j] = ws[j]
  BY <1>3, <1>5, PrefixMeans
<1>7. PICK l, m \in Nat : l = Len(v) /\ m = Len(ws) /\ m <= l /\ m >= 2
  BY <1>5, <1>6
<1>8. v # <<>> /\ l # 1 /\ (Len(v) <= 3 => ~IsOffset(v[1]))
  <2>1. v[1] = ws[1]
    <3>1. 1 \in 1..m
      BY <1>7
    <3> QED BY <1>6, <1>7, <3>1
  <2>2. l # 0 /\ l # 1 /\ (l <= 3 => m <= 3)
    BY <1>7
  <2> QED BY <1>5, <1>7, <2>1, <2>2
<1>9. PICK new : new = PutWords(b, v)
  OBVIOUS
<1>10. /\ Sound(new) /\ new.len = b.len + Len(v)
       /\ \A p \in 1..b.len : new.data[p] = b.data[p]
       /\ ReadAt(new, b.len + Len(v), Len(v)) = v
  BY <1>9, PutWordsPrepends
<1>11. ReadAt(new, new.len, Len(v)) = v
  BY <1>10
<1>12. PICK done : done = NestedToUnit(s, b) /\ done.unit = SegmentUnit(b.len, new.len) /\ done.buf = new
  <2>1. NestedToUnit(s, b) = [unit |-> SegmentUnit(b.len, b.len + Len(v)), buf |-> new]
    BY <1>2, <1>9 DEF NestedToUnit, CopyWords
  <2> QED BY <1>10, <2>1
<1>13. UnitSize(done.unit) = Len(v)
  <2>1. SegmentUnit(b.len, new.len) = [inline |-> <<>>, pos |-> new.len, len |-> Len(v)]
    BY <1>8, <1>10, <1>11, HeadSegment
  <2> QED BY <1>12, <2>1 DEF UnitSize
<1>14. Placed("message", done) = Folded(SegmentUnit(b.len, new.len), new)
  BY <1>7, <1>8, <1>12, <1>13 DEF Placed, Folds
<1>15. PICK c : c = [object |-> TRUE, words |-> v]
  OBVIOUS
<1>16. Appended(b, from, c, Placed("message", done))
  BY <1>8, <1>10, <1>11, <1>14, <1>15, HeadFolded
<1>17. MessageContent(c, d)
  BY <1>3, <1>4, <1>15 DEF MessageContent
<1> QED BY <1>12, <1>16, <1>17

\* Fewer fields have no more sections.
LEMMA SectionsGrow ==
  ASSUME NEW m \in Nat, NEW n \in Nat, m <= n
  PROVE  Sections(m) <= Sections(n)
<1>1. PICK M, N \in Nat : M = Sections(m) /\ N = Sections(n)
  BY SectionsReach
<1>2. ASSUME N < M PROVE FALSE
  <2>1. N \in 0..(Sections(m) - 1)
    BY <1>1, <1>2
  <2>2. SectionStart(N) \in 1..m
    BY <2>1, SectionsReach
  <2>3. n < SectionStart(N)
    BY <1>1, SectionsReach
  <2> QED BY <2>2, <2>3
<1> QED BY <1>1, <1>2

\* A message in a field is encoded to the same words, however it came to have its
\* values, and wherever it stands.
LEMMA NestedSame ==
  ASSUME NEW s, NEW d, NestedHolds(s, d), IsNestedContent(d), NEW b, Sound(b)
  PROVE  Above(Assembled(NestedParts(s, b), b.len).buf, b.len,
               Assembled(NestedParts(SetNested(d), EmptyBuffer), 0).buf)
<1>1. PICK n \in Nat : n = b.len
  BY SoundParts
<1>2. PICK c : c = EmptyBuffer /\ Sound(c) /\ c.len = 0
  BY EmptyIsSound
<1>3. PICK part, other : part = NestedParts(s, b) /\ other = NestedParts(SetNested(d), c)
  OBVIOUS
<1>4. AlikeParts(part, other, n)
  BY <1>1, <1>2, <1>3, NestedAlike
<1>5. PICK f, g, x, y : f = part.units /\ g = other.units /\ x = part.buf /\ y = other.buf
  OBVIOUS
<1>6. AlikeFields(f, g, n) /\ Above(x, n, y)
  BY <1>4, <1>5 DEF AlikeParts
<1>7. PICK v : Filled(x, n, v, f) /\ Adjacent(x, n, f)
  BY <1>1, <1>3, <1>5, NestedGathered
<1>8. PICK w : Filled(y, 0, w, g) /\ Adjacent(y, 0, g) /\ NestedFilled(w, d)
  <2>1. NestedHolds(SetNested(d), d)
    BY SetNestedHolds
  <2>2. \E w : /\ Filled(y, c.len, w, g) /\ Adjacent(y, c.len, g) /\ NestedFilled(w, d)
    BY <1>2, <1>3, <1>5, <2>1, NestedGathered
  <2> QED BY <1>2, <2>2
<1>9. Sections(Len(Used(g))) < SectionRange
  <2>1. PICK m \in Nat : m = Len(NestedKinds) /\ Len(g) = m
    BY <1>8, NestedNumbers DEF NestedFilled, Filled
  <2>2. Narrow(g)
    BY <1>8, FilledMeans
  <2>3. UsedOf(Used(g), g)
    BY <2>2, UsedKeeps
  <2>4. PICK l \in Nat : l = Len(Used(g)) /\ l <= m
    BY <2>1, <2>3, WidthsFit DEF UsedOf
  <2>5. Sections(l) <= Sections(m) /\ Sections(l) \in Nat /\ Sections(m) \in Nat
    BY <2>4, SectionsGrow, SectionsReach
  <2>6. Sections(m) < SectionRange /\ SectionRange \in Nat
    BY <2>1, SectionsAssumption, LayoutAssumption
  <2> QED BY <2>4, <2>5, <2>6
<1>10. Above(Serialized(f, x, n).buf, n, Serialized(g, y, 0).buf)
  BY <1>6, <1>7, <1>8, <1>9, SerializedAlike
<1> QED BY <1>1, <1>2, <1>3, <1>5, <1>10 DEF Assembled

\* A message whose fields were encoded one by one is put together from them, and
\* left out when it has none.
LEMMA NestedAssembled ==
  ASSUME NEW s, NEW d, NestedHolds(s, d), IsNestedContent(d), ~Clean(s),
         NEW b, Sound(b), NEW from \in Nat, from <= b.len
  PROVE  /\ MessageContent(MessageValue(d), d)
         /\ Appended(b, from, MessageValue(d), Placed("message", NestedToUnit(s, b)))
<1>1. PICK part, f, mid : part = NestedParts(s, b) /\ f = part.units /\ mid = part.buf
  OBVIOUS
<1>2. \A p \in 1..b.len : mid.data[p] = b.data[p]
  BY <1>1, NestedGathered
<1>3. PICK c : Filled(mid, b.len, c, f) /\ Adjacent(mid, b.len, f) /\ NestedFilled(c, d)
  BY <1>1, NestedGathered
<1>4. PICK done : done = NestedToUnit(s, b) /\ done = Serialized(f, mid, b.len)
  BY <1>1 DEF NestedToUnit, Assembled
<1>5. PICK n \in Nat : n = Len(NestedKinds) /\ NestedFields = 1..n /\ Len(c) = n /\ Len(f) = n
  BY <1>3, NestedNumbers DEF NestedFilled, Filled
<1>6. Narrow(f) /\ mid.len \in Nat /\ Sound(mid) /\ b.len <= mid.len /\ b.len \in Nat
  BY <1>3, FilledMeans DEF Filled
<1>7. PICK u : u = Used(f) /\ UsedOf(u, f)
  BY <1>6, UsedKeeps
<1>8. PICK m \in Nat : m = Len(u) /\ m <= n
  BY <1>5, <1>7, WidthsFit DEF UsedOf
<1>9. Sections(Len(u)) < SectionRange /\ 3 * Len(f) < CountRange
  <2>1. Sections(m) <= Sections(n) /\ Sections(m) \in Nat /\ Sections(n) \in Nat
    BY <1>8, SectionsGrow, SectionsReach
  <2>2. Sections(n) < SectionRange /\ SectionRange \in Nat
    BY <1>5, SectionsAssumption, LayoutAssumption
  <2>3. 3 * Len(f) < CountRange
    BY <1>5, SectionsAssumption
  <2>4. Sections(m) < SectionRange
    BY <2>1, <2>2
  <2> QED BY <1>8, <2>3, <2>4
<1>10. Finished(mid, b.len, u, done)
  BY <1>3, <1>4, <1>7, <1>9, MessageAssembled
<1>11. SectionRange % 4 = 0
  BY SectionsAssumption
<1>12. /\ BlockLength(u) \in Nat
       /\ Len(u) = 0 => BlockLength(u) = 1
       /\ Len(u) # 0 => BlockLength(u) >= 2
       /\ BlockLength(u) <= 3 => ~IsOffset(HeadWord(u))
  BY <1>6, <1>7, <1>9, <1>11, BlockIsHead
<1>13. PICK B, M, A, t, i \in Nat : /\ B = b.len /\ M = mid.len /\ A = BlockLength(u) /\ t = done.buf.len
                                    /\ B <= M /\ t = M + A /\ i = A + (M - B) /\ i <= t /\ t = B + i
  <2>1. PICK B, M, A \in Nat : B = b.len /\ M = mid.len /\ A = BlockLength(u) /\ B <= M
    BY <1>6, <1>12
  <2>2. PICK t, i \in Nat : t = M + A /\ i = A + (M - B)
    <3>1. M + A \in Nat /\ A + (M - B) \in Nat
      BY <2>1
    <3> QED BY <3>1
  <2>3. t = B + i /\ i <= t
    <3>1. B <= M
      BY <2>1
    <3> QED BY ONLY <2>2, <3>1, B \in Nat, M \in Nat, A \in Nat, t \in Nat, i \in Nat
  <2>4. t = done.buf.len
    BY <1>10, <2>1, <2>2 DEF Finished
  <2> QED BY <2>1, <2>2, <2>3, <2>4
<1>14. PICK new : new = done.buf
  OBVIOUS
<1>15. /\ Sound(new) /\ new.len = t /\ \A p \in 1..M : new.data[p] = mid.data[p]
       /\ done.unit = SegmentUnit(b.len, new.len)
       /\ \A w \in Seq(Nat) : IsPrefix(ReadAt(new, t, i), w) => Readable(w, u, mid, b.len)
  BY <1>10, <1>13, <1>14 DEF Finished
<1>16. \A p \in 1..b.len : new.data[p] = b.data[p]
  <2> TAKE p \in 1..b.len
  <2>1. p \in 1..M /\ p \in 1..b.len
    BY <1>13
  <2> QED BY <1>2, <1>15, <2>1
<1>17. PICK ws \in Seq(Nat) : ws = ReadAt(new, t, i) /\ Len(ws) = i
  <2>1. t <= Allocated(new)
    BY <1>15 DEF Sound
  <2> QED BY <1>13, <1>15, <2>1, ReadAtType
<1>18. done.unit = [inline |-> <<>>, pos |-> t, len |-> i]
  <2>1. t - B = i
    <3>1. t = B + i
      BY <1>13
    <3> QED BY ONLY <3>1, B \in Nat, i \in Nat, t \in Nat
  <2> QED BY <1>13, <1>15, <2>1 DEF SegmentUnit
<1>19. UnitSize(done.unit) = i
  BY <1>18 DEF UnitSize
<1>20. CASE m = 0
  <2>1. \A j \in 1..n : FieldWidth(f[j]) = 0
    <3> TAKE j \in 1..n
    <3>1. FieldWidth(f[j]) # 0 => j <= UsedLength(f)
      BY <1>5, <1>6, LastUsed
    <3>2. UsedLength(f) = 0
      BY <1>7, <1>8, <1>20 DEF UsedOf
    <3> QED BY <3>1, <3>2
  <2>2. d = NestedDefaults
    <3>1. ASSUME NEW j \in NestedFields PROVE d[j] = <<>>
      <4>1. c[j].words = <<>>
        BY <1>3, <1>5, <2>1, FilledMeans
      <4>2. c[j] = FlatContent(NestedKinds[j], d[j])
        BY <1>3 DEF NestedFilled
      <4> QED BY <4>1, <4>2 DEF FlatContent
    <3>2. d = [j \in NestedFields |-> d[j]]
      BY DEF IsNestedContent
    <3> QED BY <3>1, <3>2 DEF NestedDefaults
  <2>3. M = B
    <3>1. \A j \in 1..n : ~IsSegment(f[j])
      BY <2>1 DEF IsSegment, FieldWidth
    <3> QED BY <1>3, <1>5, <1>13, <3>1 DEF Adjacent
  <2>4. A = 1 /\ i = 1
    <3>1. A = 1
      BY <1>8, <1>12, <1>13, <1>20
    <3> QED BY <1>13, <2>3, <3>1
  <2>5. PICK left : left = Shrink(new, 1)
    OBVIOUS
  <2>6. Placed("message", done) = [unit |-> EmptyUnit, buf |-> left]
    <3>1. IsSegment(done.unit) /\ done.unit.len = 1
      BY <1>18, <2>4 DEF IsSegment
    <3>2. Dropped(done) = [unit |-> EmptyUnit, buf |-> left]
      BY <1>14, <2>5, <3>1 DEF Dropped
    <3> QED BY <1>19, <2>4, <3>2 DEF Placed, OmitsDefault
  <2>7. Sound(left) /\ left.len = b.len /\ \A p \in 1..b.len : left.data[p] = b.data[p]
    <3>1. 1 \in 0..new.len /\ new.len - 1 = B
      BY <1>13, <1>15, <2>4
    <3>2. Sound(left) /\ left.len = new.len - 1 /\ left.data = new.data
      BY <1>15, <2>5, <3>1, ShrinkKeeps
    <3> QED BY <1>13, <1>16, <3>1, <3>2
  <2>8. Appended(b, from, Absent, Placed("message", done))
    BY <2>6, <2>7, LeftOut
  <2>9. MessageContent(Absent, d) /\ MessageValue(d) = Absent
    BY <2>2 DEF MessageContent, MessageValue
  <2> QED BY <1>4, <2>8, <2>9
<1>21. CASE m # 0
  <2>1. A >= 2 /\ i >= 2 /\ (i <= 3 => A <= 3)
    <3>1. A >= 2 /\ i = A + (M - B) /\ B <= M
      BY <1>8, <1>12, <1>13, <1>21
    <3> QED BY ONLY <3>1, A \in Nat, M \in Nat, B \in Nat, i \in Nat
  <2>2. ws # <<>>
    BY <1>17, <2>1
  <2>3. Readable(ws, u, mid, b.len)
    <3>1. IsPrefix(ws, ws)
      BY <1>17, PrefixWhen
    <3> QED BY <1>15, <1>17, <3>1
  <2>4. Len(ws) <= 3 => ~IsOffset(ws[1])
    <3>1. ws[1] = HeadWord(u)
      BY <2>3 DEF Readable, Framed, BlockIn
    <3> QED BY <1>12, <1>13, <1>17, <2>1, <3>1
  <2>5. ASSUME NEW w \in Seq(Nat), IsPrefix(ws, w)
        PROVE  /\ \A j \in NestedFields : FlatSeen(w, NestedKinds[j], j, d[j])
               /\ NestedLength(w) = Len(ws)
    <3>1. Readable(w, u, mid, b.len)
      BY <1>15, <1>17, <2>5
    <3>2. /\ \A j \in NestedFields : FlatSeen(w, NestedKinds[j], j, d[j])
          /\ NestedLength(w) = mid.len + BlockLength(u) - b.len
      BY <1>3, <1>7, <3>1, NestedFound
    <3>3. M + A - B = i
      <4>1. B <= M /\ i = A + (M - B)
        BY <1>13
      <4> QED BY ONLY <4>1, A \in Nat, M \in Nat, B \in Nat, i \in Nat
    <3> QED BY <1>13, <1>17, <3>2, <3>3
  <2>6. Carries(ws, d)
    <3>1. d # NestedDefaults
      <4>1. UsedLength(f) # 0 /\ UsedLength(f) \in 1..n
        BY <1>5, <1>6, <1>7, <1>8, <1>21, LastUsed DEF UsedOf
      <4>2. PICK j \in 1..n : j = UsedLength(f) /\ FieldWidth(f[j]) # 0
        BY <1>6, <4>1, LastUsed
      <4>3. c[j].words # <<>>
        BY <1>3, <1>5, <4>2, FilledMeans
      <4>4. c[j] = FlatContent(NestedKinds[j], d[j])
        BY <1>3, <1>5 DEF NestedFilled
      <4>5. d[j] # <<>>
        BY <4>3, <4>4 DEF FlatContent, Absent
      <4> QED BY <1>5, <4>5 DEF NestedDefaults
    <3>2. ws = NestedWords(d)
      <4>1. PICK e : e = Assembled(NestedParts(SetNested(d), EmptyBuffer), 0).buf
        OBVIOUS
      <4>2. new = Assembled(NestedParts(s, b), b.len).buf
        BY <1>1, <1>4, <1>14 DEF Assembled
      <4>3. Above(new, B, e)
        BY <1>13, <4>1, <4>2, NestedSame
      <4>4. PICK l \in Nat : l = e.len
        BY <4>3, SoundParts DEF Above
      <4>5. t = B + l
        BY <1>15, <4>3, <4>4 DEF Above
      <4>6. l = i
        <5>1. t = B + i
          BY <1>13
        <5> QED BY ONLY <4>5, <5>1, B \in Nat, i \in Nat, l \in Nat, t \in Nat
      <4>7. ReadAt(new, B + e.len, e.len) = ReadAt(e, e.len, e.len)
        BY <4>3, ReadAbove
      <4>8. ReadAt(new, t, i) = ReadAt(e, e.len, e.len)
        BY <4>4, <4>5, <4>6, <4>7
      <4> QED BY <1>17, <4>1, <4>8 DEF NestedWords
    <3> QED BY <1>17, <2>1, <2>4, <2>5, <3>1, <3>2 DEF Carries
  <2>7. Placed("message", done) = Folded(SegmentUnit(b.len, new.len), new)
    <3>1. UnitSize(done.unit) # 1
      BY <1>19, <2>1
    <3> QED BY <1>14, <1>15, <3>1 DEF Placed, Folds
  <2>8. PICK v : v = [object |-> TRUE, words |-> ws]
    OBVIOUS
  <2>9. Appended(b, from, v, Placed("message", done))
    <3>1. new.len = b.len + Len(ws) /\ ReadAt(new, new.len, Len(ws)) = ws
      BY <1>13, <1>15, <1>17
    <3> QED BY <1>15, <1>16, <2>2, <2>4, <2>7, <2>8, <3>1, HeadFolded
  <2>10. MessageContent(v, d)
    <3>1. IsPrefix(ws, ws)
      BY <1>17, PrefixWhen
    <3> QED BY <1>17, <2>6, <2>8, <3>1 DEF MessageContent
  <2>11. MessageValue(d) = v
    BY <2>6, <2>8 DEF MessageValue, Carries
  <2> QED BY <1>4, <2>9, <2>10, <2>11
<1> QED BY <1>20, <1>21

-----------------------------------------------------------------------------
(***************************************************************************)
(* The message itself.                                                     *)
(***************************************************************************)
\* The values of the fields.
IsContent(c) ==
  /\ c = [k \in DOMAIN Kinds |-> c[k]]
  /\ \A k \in Flat : c[k] \in Values(k) \cup {<<>>}
  /\ \A k \in Messages : IsNestedContent(c[k])

\* What a field of a new message is.
Default(k) == IF k \in Messages THEN NestedDefaults ELSE <<>>

\* What a view of the words makes of any field.
MessageSeen(words, k, d) ==
  IF HasField(words, k)
  THEN /\ ObjectWords(words, k) \in Seq(Nat)
       /\ \E ws : Carries(ws, d) /\ IsPrefix(ws, ObjectWords(words, k))
  ELSE d = NestedDefaults

\* A view of the words finds the field's value.
Shows(words, k, v) ==
  IF k \in Messages THEN MessageSeen(words, k, v) ELSE FlatSeen(words, Kinds[k], k, v)

\* Words in which every field has its value.
ShowsAll(words, c) ==
  /\ words \in Seq(Nat) /\ words # <<>>
  /\ \A k \in DOMAIN Kinds : Shows(words, k, c[k])

\* The field of the mutable message has the value: in its slot once it was
\* accessed, in the words the message was made from until then.
FieldHolds(m, k, v) ==
  IF k \in m.accessed
  THEN IF k \in Messages THEN \E s : m.slots[k] = <<s>> /\ NestedHolds(s, v) ELSE m.slots[k] = v
  ELSE m.slots[k] = <<>> /\ IF m.words = <<>> THEN v = Default(k) ELSE Shows(m.words, k, v)

\* Every field of the mutable message has its value.
MessageHolds(m, c) ==
  /\ m = [words |-> m.words, accessed |-> m.accessed, slots |-> m.slots]
  /\ m.slots = [k \in DOMAIN Kinds |-> m.slots[k]]
  /\ m.words \in Seq(Nat) /\ m.accessed \in SUBSET DOMAIN Kinds
  /\ \A k \in DOMAIN Kinds : FieldHolds(m, k, c[k])

\* Contents of an encoded field that has the value.
FieldContent(v, k, x) ==
  v \in ContentType /\ IF k \in Messages THEN MessageContent(v, x) ELSE v = FlatContent(Kinds[k], x)

\* Fields are numbered from 1, and those that are not messages are flat.
LEMMA FieldNumbers ==
  /\ Len(Kinds) \in Nat \ {0} /\ DOMAIN Kinds = 1..Len(Kinds)
  /\ \A k \in DOMAIN Kinds : k \notin Messages <=> k \in Flat
  /\ \A k \in Flat : k \in DOMAIN Kinds /\ Kinds[k] \in FlatKinds
  /\ \A k \in Messages : k \in DOMAIN Kinds /\ Kinds[k] = "message"
<1>1. Len(Kinds) \in Nat \ {0} /\ DOMAIN Kinds = 1..Len(Kinds)
  BY KindsAssumption
<1>2. \A k \in DOMAIN Kinds : Kinds[k] \in {"scalar", "text", "message"}
  BY KindsAssumption
<1> QED BY <1>1, <1>2 DEF Messages, Flat, FlatKinds

\* The values of flat fields.
LEMMA ContentValue ==
  ASSUME NEW c, IsContent(c), NEW k \in Flat
  PROVE  FlatValue(Kinds[k], c[k])
<1>1. k \in DOMAIN Kinds
  BY FieldNumbers
<1>2. c[k] # <<>> => Fits(Kinds[k], c[k])
  BY <1>1, ValuesAssumption DEF IsContent
<1> QED BY <1>2 DEF FlatValue

\* serialize_field of a message that no accessor has touched: its words are
\* copied, and no others.
LEMMA MessageCopied ==
  ASSUME NEW m, NEW k \in Messages, k \notin m.accessed, NEW d, FieldHolds(m, k, d),
         NEW b, Sound(b), NEW from \in Nat, from <= b.len
  PROVE  /\ MessageContent(MessageValue(d), d)
         /\ Appended(b, from, MessageValue(d), FlatField(m, Kinds, k, b))
<1>1. FlatField(m, Kinds, k, b) = CopyField(m, Kinds, k, b)
  BY DEF FlatField
<1>2. CASE m.words = <<>> \/ ~HasField(m.words, k)
  <2>1. d = NestedDefaults
    BY <1>2 DEF FieldHolds, Default, Shows, MessageSeen
  <2>2. CopyField(m, Kinds, k, b) = [unit |-> EmptyUnit, buf |-> b]
    BY <1>2 DEF CopyField
  <2>3. Appended(b, from, Absent, CopyField(m, Kinds, k, b))
    BY <2>2, LeftOut
  <2>4. MessageContent(Absent, d) /\ MessageValue(d) = Absent
    BY <2>1 DEF MessageContent, MessageValue
  <2> QED BY <1>1, <2>3, <2>4
<1>3. CASE m.words # <<>> /\ HasField(m.words, k)
  <2>1. PICK t \in Seq(Nat) : t = ObjectWords(m.words, k) /\ \E ws : Carries(ws, d) /\ IsPrefix(ws, t)
    BY <1>3 DEF FieldHolds, Shows, MessageSeen
  <2>2. PICK ws : Carries(ws, d) /\ IsPrefix(ws, t)
    BY <2>1
  <2>3. /\ ws \in Seq(Nat) /\ Len(ws) >= 2 /\ (Len(ws) <= 3 => ~IsOffset(ws[1]))
        /\ NestedLength(t) = Len(ws)
    BY <2>2 DEF Carries
  <2>4. SubSeq(t, 1, Len(ws)) = ws
    BY <2>2, <2>3, PrefixMeans
  <2>5. Detected(m.words, Kinds[k], k) = ws
    <3>1. Kinds[k] = "message"
      BY DEF Messages
    <3> QED BY <2>1, <2>3, <2>4, <3>1 DEF Detected, Extent
  <2>6. CopyField(m, Kinds, k, b) = CopyWords(ws, b, TRUE)
    BY <1>3, <2>5 DEF CopyField
  <2>7. ws # <<>>
    BY <2>3
  <2>8. PICK v : v = [object |-> TRUE, words |-> ws]
    OBVIOUS
  <2>9. Appended(b, from, v, CopyWords(ws, b, TRUE))
    BY <2>3, <2>7, <2>8, WordsCopied
  <2>10. MessageContent(v, d)
    <3>1. IsPrefix(ws, ws)
      BY <2>3, PrefixWhen
    <3> QED BY <2>2, <2>3, <2>8, <3>1 DEF MessageContent
  <2>11. MessageValue(d) = v
    BY <2>2, <2>8 DEF MessageValue, Carries
  <2> QED BY <1>1, <2>6, <2>9, <2>10, <2>11
<1> QED BY <1>2, <1>3

\* What is written for a field that has the value, and nothing else.
FieldValue(k, x) == IF k \in Messages THEN MessageValue(x) ELSE FlatContent(Kinds[k], x)

\* The field is a message that was accessed while its own fields were not.
Dragged(m, k) == k \in Messages /\ k \in m.accessed /\ Clean(m.slots[k][1])

\* Contents of messages are contents.
LEMMA MessageContentType ==
  ASSUME NEW k \in Messages, NEW v, NEW d, MessageContent(v, d)
  PROVE  FieldContent(v, k, d)
<1>1. Absent \in ContentType
  BY DEF Absent, ContentType
<1>2. [object : {TRUE}, words : Seq(Nat)] \in SUBSET ContentType
  BY DEF ContentType
<1>3. v \in ContentType
  BY <1>1, <1>2 DEF MessageContent
<1> QED BY <1>3 DEF FieldContent

\* serialize_field of any field but those: its Unit holds the field's value.
LEMMA FieldExact ==
  ASSUME NEW m, NEW c, MessageHolds(m, c), IsContent(c), NEW k \in DOMAIN Kinds, ~Dragged(m, k),
         NEW b, Sound(b), NEW from \in Nat, from <= b.len
  PROVE  /\ FieldContent(FieldValue(k, c[k]), k, c[k])
         /\ Appended(b, from, FieldValue(k, c[k]), Field(m, k, b))
<1>1. FieldHolds(m, k, c[k])
  BY DEF MessageHolds
<1>2. CASE k \in Messages /\ k \in m.accessed
  <2>1. PICK s : m.slots[k] = <<s>> /\ NestedHolds(s, c[k])
    BY <1>1, <1>2 DEF FieldHolds
  <2>2. Field(m, k, b) = Placed("message", NestedToUnit(s, b)) /\ ~Clean(s)
    BY <1>2, <2>1 DEF Field, Dragged
  <2>3. IsNestedContent(c[k])
    BY <1>2 DEF IsContent
  <2>4. /\ MessageContent(MessageValue(c[k]), c[k])
        /\ Appended(b, from, MessageValue(c[k]), Field(m, k, b))
    BY <2>1, <2>2, <2>3, NestedAssembled
  <2> QED BY <1>2, <2>4, MessageContentType DEF FieldValue
<1>3. CASE k \in Messages /\ k \notin m.accessed
  <2>1. Field(m, k, b) = FlatField(m, Kinds, k, b)
    BY <1>3 DEF Field
  <2>2. /\ MessageContent(MessageValue(c[k]), c[k])
        /\ Appended(b, from, MessageValue(c[k]), Field(m, k, b))
    BY <1>1, <1>3, <2>1, MessageCopied
  <2> QED BY <1>3, <2>2, MessageContentType DEF FieldValue
<1>4. CASE k \notin Messages
  <2>1. k \in Flat /\ Kinds[k] \in FlatKinds /\ FlatValue(Kinds[k], c[k])
    BY <1>4, FieldNumbers, ContentValue
  <2>2. Field(m, k, b) = FlatField(m, Kinds, k, b)
    BY <1>4 DEF Field
  <2>3. FlatHolds(m, Kinds[k], k, c[k])
    BY <1>1, <1>4 DEF FieldHolds, FlatHolds, Shows, Default
  <2>4. Appended(b, from, FlatContent(Kinds[k], c[k]), FlatField(m, Kinds, k, b))
    BY <2>1, <2>3, FlatFieldAppends
  <2>5. FieldContent(FlatContent(Kinds[k], c[k]), k, c[k])
    BY <1>4, <2>1, FlatContentType DEF FieldContent
  <2> QED BY <1>4, <2>2, <2>4, <2>5 DEF FieldValue
<1> QED BY <1>2, <1>3, <1>4

\* And of those: more than the field's value, maybe, but beginning with it.
LEMMA FieldAppends ==
  ASSUME NEW m, NEW c, MessageHolds(m, c), IsContent(c), NEW k \in DOMAIN Kinds,
         NEW b, Sound(b), NEW from \in Nat, from <= b.len
  PROVE  \E v : FieldContent(v, k, c[k]) /\ Appended(b, from, v, Field(m, k, b))
<1>1. CASE ~Dragged(m, k)
  BY <1>1, FieldExact
<1>2. CASE Dragged(m, k)
  <2>1. k \in Messages /\ k \in m.accessed
    BY <1>2 DEF Dragged
  <2>2. FieldHolds(m, k, c[k]) /\ IsNestedContent(c[k])
    BY <2>1 DEF MessageHolds, IsContent
  <2>3. PICK s : m.slots[k] = <<s>> /\ NestedHolds(s, c[k])
    BY <2>1, <2>2 DEF FieldHolds
  <2>4. Field(m, k, b) = Placed("message", NestedToUnit(s, b)) /\ Clean(s)
    BY <1>2, <2>1, <2>3 DEF Field, Dragged
  <2>5. \E v : MessageContent(v, c[k]) /\ Appended(b, from, v, Field(m, k, b))
    BY <2>2, <2>3, <2>4, CleanNestedCopied
  <2> QED BY <2>1, <2>5, MessageContentType
<1> QED BY <1>1, <1>2

\* Encoding all fields, into an empty buffer.
LEMMA MessageGathered ==
  ASSUME NEW m, NEW c, MessageHolds(m, c), IsContent(c), NEW part, part = Parts(m)
  PROVE  \E g : /\ Filled(part.buf, 0, g, part.units) /\ Adjacent(part.buf, 0, part.units)
                /\ Len(g) = Len(Kinds)
                /\ \A k \in DOMAIN Kinds : FieldContent(g[k], k, c[k])
<1>1. PICK n \in Nat : n = Len(Kinds) /\ DOMAIN Kinds = 1..n
  BY FieldNumbers
<1>2. PICK H : H = [k \in DOMAIN Kinds |-> {v \in ContentType : FieldContent(v, k, c[k])}]
  OBVIOUS
<1>3. \A k \in 1..n : H[k] \in SUBSET ContentType
  BY <1>1, <1>2
<1>4. PICK parts : IsParts(parts, m) /\ part = parts[1]
  BY PartsExist
<1>5. PICK b : b = EmptyBuffer /\ Sound(b) /\ b.len = 0
  BY EmptyIsSound
<1>6. parts[n + 1] = [units |-> <<>>, buf |-> b]
  <2>1. n + 1 \in 1..(n + 1) /\ n + 1 > n
    OBVIOUS
  <2> QED BY <1>1, <1>4, <1>5, <2>1 DEF IsParts
<1>7. ASSUME NEW k \in 1..n, Sound(parts[k + 1].buf), b.len <= parts[k + 1].buf.len
      PROVE  \E done : \E v \in H[k] : /\ Appended(parts[k + 1].buf, b.len, v, done)
                                       /\ parts[k] = After(done, parts[k + 1])
  <2>1. parts[k] = Part(m, k, parts[k + 1])
    <3>1. k \in 1..(n + 1) /\ ~(k > n)
      OBVIOUS
    <3> QED BY <1>1, <1>4, <3>1 DEF IsParts
  <2>2. PICK mid, done : mid = parts[k + 1].buf /\ done = Field(m, k, mid)
    OBVIOUS
  <2>3. parts[k] = After(done, parts[k + 1])
    BY <2>1, <2>2 DEF Part
  <2>4. PICK v : FieldContent(v, k, c[k]) /\ Appended(mid, b.len, v, done)
    BY <1>1, <1>5, <1>7, <2>2, FieldAppends
  <2>5. v \in H[k]
    BY <1>1, <1>2, <2>4 DEF FieldContent
  <2> QED BY <2>2, <2>3, <2>4, <2>5
<1>8. Gathered(part, b, b.len, H, 1, n)
  <2>1. PICK from : from = b.len
    OBVIOUS
  <2>2. \A k \in 1..n : Sound(parts[k + 1].buf) /\ from <= parts[k + 1].buf.len =>
          \E done : \E v \in H[k] : /\ Appended(parts[k + 1].buf, from, v, done)
                                   /\ parts[k] = After(done, parts[k + 1])
    BY <1>7, <2>1
  <2>3. Sound(b)
    BY <1>5
  <2>4. Gathered(parts[1], b, from, H, 1, n)
    BY ONLY n \in Nat, <1>3, <1>6, <2>1, <2>2, <2>3, FieldsGathered
  <2> QED BY <1>4, <2>1, <2>4
<1>9. PICK g : /\ Filled(part.buf, 0, g, part.units) /\ Adjacent(part.buf, 0, part.units)
               /\ Len(g) = n + 1 - 1
               /\ \A k \in 1..n : g[k + 1 - 1] \in H[k]
  BY <1>5, <1>8 DEF Gathered
<1>10. Len(g) = n
  BY <1>9
<1>11. ASSUME NEW k \in 1..n PROVE FieldContent(g[k], k, c[k])
  <2>1. k + 1 - 1 = k
    OBVIOUS
  <2>2. g[k] \in H[k]
    BY <1>9, <2>1
  <2> QED BY <1>1, <1>2, <2>2
<1> QED BY <1>1, <1>9, <1>10, <1>11

\* What is serialized shows every value.
LEMMA OutputShows ==
  ASSUME NEW m, NEW c, MessageHolds(m, c), IsContent(c), Clean(m) \/ ~Refused(Parts(m).units)
  PROVE  ShowsAll(SerializedWords(m), c)
<1>1. CASE Clean(m)
  <2>1. m.words # <<>> /\ m.accessed = {}
    BY <1>1 DEF Clean
  <2>2. PICK v \in Seq(Nat) : v = m.words
    BY DEF MessageHolds
  <2>3. SerializedWords(m) = v
    <3>1. PICK b : b = EmptyBuffer /\ Sound(b) /\ b.len = 0
      BY EmptyIsSound
    <3>2. PICK new : new = PutWords(b, v)
      OBVIOUS
    <3>3. new.len = b.len + Len(v) /\ ReadAt(new, b.len + Len(v), Len(v)) = v
      BY <3>1, <3>2, PutWordsPrepends
    <3>4. 0 + Len(v) = Len(v)
      OBVIOUS
    <3>5. new.len = Len(v) /\ ReadAt(new, Len(v), Len(v)) = v
      BY <3>1, <3>3, <3>4
    <3> QED BY <1>1, <2>2, <3>1, <3>2, <3>5 DEF SerializedWords
  <2>4. \A k \in DOMAIN Kinds : Shows(v, k, c[k])
    BY <2>1, <2>2 DEF MessageHolds, FieldHolds
  <2> QED BY <2>1, <2>2, <2>3, <2>4 DEF ShowsAll
<1>2. CASE ~Clean(m)
  <2>1. PICK part, f, mid : part = Parts(m) /\ f = part.units /\ mid = part.buf
    OBVIOUS
  <2>2. PICK g : /\ Filled(mid, 0, g, f) /\ Adjacent(mid, 0, f) /\ Len(g) = Len(Kinds)
                 /\ \A k \in DOMAIN Kinds : FieldContent(g[k], k, c[k])
    BY <2>1, MessageGathered
  <2>3. PICK n \in Nat : n = Len(Kinds) /\ DOMAIN Kinds = 1..n /\ Len(g) = n /\ Len(f) = n
    BY <2>2, FieldNumbers DEF Filled
  <2>4. Narrow(f) /\ mid.len \in Nat
    BY <2>2, FilledMeans
  <2>5. PICK u : u = Used(f) /\ UsedOf(u, f)
    BY <2>4, UsedKeeps
  <2>6. Sections(Len(u)) < SectionRange /\ 3 * Len(f) < CountRange
    <3>1. ~(Sections(Len(u)) >= SectionRange)
      BY <1>2, <2>1, <2>5 DEF Refused, Used
    <3>2. Sections(Len(u)) \in Nat /\ SectionRange \in Nat
      BY <2>5, WidthsFit, SectionsReach, LayoutAssumption DEF UsedOf
    <3>3. 3 * Len(f) < CountRange
      BY <2>3, SectionsAssumption
    <3> QED BY <3>1, <3>2, <3>3
  <2>7. PICK done : done = Serialized(f, mid, 0)
    OBVIOUS
  <2>8. Finished(mid, 0, u, done)
    BY <2>2, <2>5, <2>6, <2>7, MessageAssembled
  <2>9. PICK A, M, t \in Nat : A = BlockLength(u) /\ M = mid.len /\ t = done.buf.len /\ t = M + A
                               /\ A + (M - 0) = t
    <3>1. PICK A, M \in Nat : A = BlockLength(u) /\ M = mid.len
      BY <2>4, <2>8 DEF Finished
    <3>2. M + A \in Nat /\ A + (M - 0) = M + A
      OBVIOUS
    <3> QED BY <2>8, <3>1, <3>2 DEF Finished
  <2>10. PICK w \in Seq(Nat) : w = ReadAt(done.buf, t, t) /\ Len(w) = t
    <3>1. Sound(done.buf) /\ t <= Allocated(done.buf)
      BY <2>8, <2>9 DEF Finished, Sound
    <3> QED BY <3>1, ReadAtType
  <2>11. Readable(w, u, mid, 0)
    <3>1. IsPrefix(w, w)
      BY <2>10, PrefixWhen
    <3> QED BY <2>8, <2>9, <2>10, <3>1 DEF Finished
  <2>12. SerializedWords(m) = w
    BY <1>2, <2>1, <2>7, <2>9, <2>10 DEF SerializedWords, Assembled
  <2>13. w # <<>>
    <3>1. PICK S, size \in Nat : A = 1 + 2 * S + size
      <4>1. Narrow(u)
        BY <2>5 DEF UsedOf
      <4> QED BY <2>9, <4>1, WidthsFit, SectionsReach, ReachWithin DEF BlockLength
    <3>2. t # 0
      BY <2>9, <3>1
    <3> QED BY <2>10, <3>2
  <2>14. ASSUME NEW k \in 1..n PROVE Shows(w, k, c[k])
    <3>1. Found(w, g, k)
      <4>1. k \in Nat /\ k >= 1
        OBVIOUS
      <4> QED BY <2>2, <2>5, <2>11, <4>1, EveryFieldFound
    <3>2. g[k].object => ObjectWords(w, k) \in Seq(Nat)
      BY <2>2, <2>3, <2>5, <2>11, ObjectWordsFound
    <3>3. FieldContent(g[k], k, c[k])
      BY <2>2, <2>3
    <3>4. CASE k \in Messages
      <4>1. CASE g[k] = Absent /\ c[k] = NestedDefaults
        <5>1. g[k].words = <<>>
          BY <4>1 DEF Absent
        <5>2. ~HasField(w, k)
          BY <3>1, <5>1 DEF Found
        <5> QED BY <3>4, <4>1, <5>2 DEF Shows, MessageSeen
      <4>2. CASE ~(g[k] = Absent /\ c[k] = NestedDefaults)
        <5>1. /\ g[k] \in [object : {TRUE}, words : Seq(Nat)]
              /\ \E ws : Carries(ws, c[k]) /\ IsPrefix(ws, g[k].words)
          BY <3>3, <3>4, <4>2 DEF FieldContent, MessageContent
        <5>2. PICK v \in Seq(Nat) : v = g[k].words /\ g[k].object
          BY <5>1
        <5>3. PICK ws : Carries(ws, c[k]) /\ IsPrefix(ws, v)
          BY <5>1, <5>2
        <5>4. ws \in Seq(Nat) /\ Len(ws) >= 2
          BY <5>3 DEF Carries
        <5>5. v # <<>>
          <6>1. Len(ws) <= Len(v) /\ Len(v) \in Nat /\ Len(ws) \in Nat
            BY <5>3, <5>4, PrefixMeans
          <6>2. Len(v) # 0
            BY <5>4, <6>1
          <6> QED BY <6>2
        <5>6. HasField(w, k) /\ IsPrefix(v, ObjectWords(w, k)) /\ ObjectWords(w, k) \in Seq(Nat)
          <6>1. ~(k > Len(g))
            BY <2>3
          <6> QED BY <3>1, <3>2, <5>2, <5>5, <6>1 DEF Found
        <5>7. IsPrefix(ws, ObjectWords(w, k))
          BY <5>3, <5>4, <5>6, PrefixOfPrefix
        <5> QED BY <3>4, <5>3, <5>6, <5>7 DEF Shows, MessageSeen
      <4> QED BY <4>1, <4>2
    <3>5. CASE k \notin Messages
      <4>1. Kinds[k] \in FlatKinds /\ FlatValue(Kinds[k], c[k])
        BY <2>3, <3>5, FieldNumbers, ContentValue
      <4>2. g[k] = FlatContent(Kinds[k], c[k])
        BY <3>3, <3>5 DEF FieldContent
      <4>3. FlatSeen(w, Kinds[k], k, c[k])
        BY <2>3, <3>1, <3>2, <4>1, <4>2, FlatFound
      <4> QED BY <3>5, <4>3 DEF Shows
    <3> QED BY <3>4, <3>5
  <2> QED BY <2>3, <2>10, <2>12, <2>13, <2>14 DEF ShowsAll
<1> QED BY <1>1, <1>2

\* A new message all of whose fields were set has their values.
LEMMA RebuiltHolds ==
  ASSUME NEW c, IsContent(c)
  PROVE  /\ MessageHolds(Rebuilt(c), c) /\ ~Clean(Rebuilt(c))
         /\ \A k \in DOMAIN Kinds : ~Dragged(Rebuilt(c), k)
<1>1. PICK m : m = Rebuilt(c)
  OBVIOUS
<1>2. m = [words |-> <<>>, accessed |-> DOMAIN Kinds,
           slots |-> [k \in DOMAIN Kinds |-> IF k \in Messages THEN <<SetNested(c[k])>> ELSE c[k]]]
  BY <1>1 DEF Rebuilt, SetNested, NestedFields
<1>3. /\ m.words = <<>> /\ m.accessed = DOMAIN Kinds
      /\ m.slots = [k \in DOMAIN Kinds |-> IF k \in Messages THEN <<SetNested(c[k])>> ELSE c[k]]
  BY <1>2
<1>4. m = [words |-> m.words, accessed |-> m.accessed, slots |-> m.slots]
  BY <1>2, <1>3
<1>5. m.slots = [k \in DOMAIN Kinds |-> m.slots[k]]
  BY <1>3
<1>6. ASSUME NEW k \in DOMAIN Kinds PROVE FieldHolds(m, k, c[k]) /\ ~Dragged(m, k)
  <2>1. CASE k \in Messages
    <3>1. m.slots[k] = <<SetNested(c[k])>>
      BY <1>3, <2>1
    <3>2. NestedHolds(SetNested(c[k]), c[k])
      BY <2>1, SetNestedHolds DEF IsContent
    <3>3. m.slots[k][1] = SetNested(c[k]) /\ SetNested(c[k]).words = <<>>
      BY <3>1 DEF SetNested
    <3>4. FieldHolds(m, k, c[k])
      BY <1>3, <2>1, <3>1, <3>2 DEF FieldHolds
    <3> QED BY <3>3, <3>4 DEF Dragged, Clean
  <2>2. CASE k \notin Messages
    <3>1. m.slots[k] = c[k]
      BY <1>3, <2>2
    <3> QED BY <1>3, <2>2, <3>1 DEF FieldHolds, Dragged
  <2> QED BY <2>1, <2>2
<1>7. <<>> \in Seq(Nat)
  OBVIOUS
<1>8. MessageHolds(m, c)
  BY <1>3, <1>4, <1>5, <1>6, <1>7 DEF MessageHolds
<1> QED BY <1>1, <1>3, <1>6, <1>8 DEF Clean

\* Messages with the same values come to the same, whichever of their fields were
\* accessed, unless one is copied with what follows it.
LEMMA PartsSame ==
  ASSUME NEW c, IsContent(c),
         NEW m, MessageHolds(m, c), \A k \in DOMAIN Kinds : ~Dragged(m, k),
         NEW p, MessageHolds(p, c), \A k \in DOMAIN Kinds : ~Dragged(p, k)
  PROVE  AlikeParts(Parts(m), Parts(p), 0)
<1>1. PICK n \in Nat : n = Len(Kinds) /\ DOMAIN Kinds = 1..n
  BY FieldNumbers
<1>2. PICK b : b = EmptyBuffer /\ Sound(b) /\ Above(b, 0, b)
  BY EmptyIsSound
<1>3. PICK parts : IsParts(parts, m) /\ Parts(m) = parts[1]
  BY PartsExist
<1>4. PICK others : IsParts(others, p) /\ Parts(p) = others[1]
  BY PartsExist
<1>5. parts[n + 1] = [units |-> <<>>, buf |-> b] /\ others[n + 1] = [units |-> <<>>, buf |-> b]
  <2>1. n + 1 \in 1..(n + 1) /\ n + 1 > n
    OBVIOUS
  <2> QED BY <1>1, <1>2, <1>3, <1>4, <2>1 DEF IsParts
<1>6. ASSUME NEW k \in 1..n, Sound(parts[k + 1].buf), Sound(others[k + 1].buf)
      PROVE  \E x, y : \E v \in ContentType :
               /\ Appended(parts[k + 1].buf, 0, v, x) /\ parts[k] = After(x, parts[k + 1])
               /\ Appended(others[k + 1].buf, 0, v, y) /\ others[k] = After(y, others[k + 1])
  <2>1. parts[k] = Part(m, k, parts[k + 1]) /\ others[k] = Part(p, k, others[k + 1])
    <3>1. k \in 1..(n + 1) /\ ~(k > n)
      OBVIOUS
    <3> QED BY <1>1, <1>3, <1>4, <3>1 DEF IsParts
  <2>2. PICK e, f : e = parts[k + 1].buf /\ f = others[k + 1].buf /\ Sound(e) /\ Sound(f)
    BY <1>6
  <2>3. PICK x, y : x = Field(m, k, e) /\ y = Field(p, k, f)
    OBVIOUS
  <2>4. parts[k] = After(x, parts[k + 1]) /\ others[k] = After(y, others[k + 1])
    BY <2>1, <2>2, <2>3 DEF Part
  <2>5. 0 \in Nat /\ 0 <= e.len /\ 0 <= f.len
    BY <2>2, SoundParts
  <2>6. PICK v : v = FieldValue(k, c[k])
    OBVIOUS
  <2>7. FieldContent(v, k, c[k]) /\ Appended(e, 0, v, x)
    BY <1>1, <2>2, <2>3, <2>5, <2>6, FieldExact
  <2>8. Appended(f, 0, v, y)
    BY <1>1, <2>2, <2>3, <2>5, <2>6, FieldExact
  <2>9. v \in ContentType
    BY <2>7 DEF FieldContent
  <2> QED BY <2>2, <2>4, <2>7, <2>8, <2>9
<1>7. \A k \in 1..n : Sound(parts[k + 1].buf) /\ Sound(others[k + 1].buf) =>
        \E x, y : \E v \in ContentType :
          /\ Appended(parts[k + 1].buf, 0, v, x) /\ parts[k] = After(x, parts[k + 1])
          /\ Appended(others[k + 1].buf, 0, v, y) /\ others[k] = After(y, others[k + 1])
  BY <1>6
<1>8. AlikeParts(parts[1], others[1], 0)
  <2>1. 0 \in Nat /\ Above(b, 0, b)
    BY <1>2
  <2> QED BY ONLY n \in Nat, <1>5, <1>7, <2>1, PartsAlike
<1> QED BY <1>3, <1>4, <1>8

\* So what is serialized is what encoding all values afresh gives.
LEMMA OutputSame ==
  ASSUME NEW m, NEW c, MessageHolds(m, c), IsContent(c), ~Clean(m), ~Refused(Parts(m).units),
         \A k \in DOMAIN Kinds : ~Dragged(m, k)
  PROVE  SerializedWords(m) = SerializedWords(Rebuilt(c))
<1>1. PICK p : p = Rebuilt(c) /\ MessageHolds(p, c) /\ ~Clean(p) /\ \A k \in DOMAIN Kinds : ~Dragged(p, k)
  BY RebuiltHolds
<1>2. PICK part, other : part = Parts(p) /\ other = Parts(m)
  OBVIOUS
<1>3. AlikeParts(part, other, 0)
  BY <1>1, <1>2, PartsSame
<1>4. PICK f, g, x, y : f = part.units /\ g = other.units /\ x = part.buf /\ y = other.buf
  OBVIOUS
<1>5. AlikeFields(f, g, 0) /\ Above(x, 0, y)
  BY <1>3, <1>4 DEF AlikeParts
<1>6. PICK v : Filled(x, 0, v, f) /\ Adjacent(x, 0, f)
  BY <1>1, <1>2, <1>4, MessageGathered
<1>7. PICK w : Filled(y, 0, w, g) /\ Adjacent(y, 0, g)
  BY <1>2, <1>4, MessageGathered
<1>8. Sections(Len(Used(g))) < SectionRange
  <2>1. Narrow(g)
    BY <1>7, FilledMeans
  <2>2. UsedOf(Used(g), g)
    BY <2>1, UsedKeeps
  <2>3. Sections(Len(Used(g))) \in Nat /\ SectionRange \in Nat
    BY <2>2, WidthsFit, SectionsReach, LayoutAssumption DEF UsedOf
  <2>4. ~(Sections(Len(Used(g))) >= SectionRange)
    BY <1>2, <1>4 DEF Refused, Used
  <2> QED BY <2>3, <2>4
<1>9. PICK a, e : a = Serialized(f, x, 0).buf /\ e = Serialized(g, y, 0).buf /\ Above(a, 0, e)
  BY <1>5, <1>6, <1>7, <1>8, SerializedAlike
<1>10. PICK l \in Nat : l = e.len /\ l = a.len
  <2>1. e.len \in Nat /\ a.len = 0 + e.len
    BY <1>9, SoundParts DEF Above
  <2> QED BY <2>1
<1>11. ReadAt(a, l, l) = ReadAt(e, l, l)
  <2>1. ReadAt(a, 0 + e.len, e.len) = ReadAt(e, e.len, e.len)
    BY <1>9, ReadAbove
  <2> QED BY <1>10, <2>1
<1>12. SerializedWords(p) = ReadAt(a, l, l)
  BY <1>1, <1>2, <1>4, <1>9, <1>10 DEF SerializedWords, Assembled
<1>13. SerializedWords(m) = ReadAt(e, l, l)
  BY <1>2, <1>4, <1>9, <1>10 DEF SerializedWords, Assembled
<1> QED BY <1>1, <1>11, <1>12, <1>13

\* A message made from words that show the values has them, and so does a new
\* one its defaults.
LEMMA FreshHolds ==
  ASSUME NEW words, NEW c,
         ShowsAll(words, c) \/ (words = <<>> /\ \A k \in DOMAIN Kinds : c[k] = Default(k))
  PROVE  MessageHolds(Fresh(words, Len(Kinds)), c)
<1>1. PICK m : m = Fresh(words, Len(Kinds))
  OBVIOUS
<1>2. DOMAIN Kinds = 1..Len(Kinds)
  BY FieldNumbers
<1>3. m = [words |-> words, accessed |-> {}, slots |-> [k \in DOMAIN Kinds |-> <<>>]]
  BY <1>1, <1>2 DEF Fresh
<1>4. m.words = words /\ m.accessed = {} /\ m.slots = [k \in DOMAIN Kinds |-> <<>>]
  BY <1>3
<1>5. words \in Seq(Nat)
  <2>1. <<>> \in Seq(Nat)
    OBVIOUS
  <2> QED BY <2>1 DEF ShowsAll
<1>6. ASSUME NEW k \in DOMAIN Kinds PROVE FieldHolds(m, k, c[k])
  <2>1. k \notin m.accessed /\ m.slots[k] = <<>>
    BY <1>4
  <2>2. words = <<>> => c[k] = Default(k)
    BY DEF ShowsAll
  <2>3. words # <<>> => Shows(words, k, c[k])
    BY DEF ShowsAll
  <2> QED BY <1>4, <2>1, <2>2, <2>3 DEF FieldHolds
<1>7. m = [words |-> m.words, accessed |-> m.accessed, slots |-> m.slots]
  BY <1>3, <1>4
<1>8. m.slots = [k \in DOMAIN Kinds |-> m.slots[k]]
  BY <1>4
<1>9. m.accessed \in SUBSET DOMAIN Kinds
  BY <1>4
<1> QED BY <1>1, <1>4, <1>5, <1>6, <1>7, <1>8, <1>9 DEF MessageHolds

\* The same for a message in a field.
LEMMA FreshNestedHolds ==
  ASSUME NEW words, NEW d, IsNestedContent(d),
         \/ words = <<>> /\ d = NestedDefaults
         \/ words \in Seq(Nat) /\ words # <<>> /\ \E ws : Carries(ws, d) /\ IsPrefix(ws, words)
  PROVE  NestedHolds(Fresh(words, Len(NestedKinds)), d)
<1>1. PICK s : s = Fresh(words, Len(NestedKinds))
  OBVIOUS
<1>2. s = [words |-> words, accessed |-> {}, slots |-> [j \in NestedFields |-> <<>>]]
  BY <1>1, NestedNumbers DEF Fresh
<1>3. s.words = words /\ s.accessed = {}
  BY <1>2
<1>4. s = [words |-> s.words, accessed |-> s.accessed,
           slots |-> [j \in NestedFields |-> IF j \in s.accessed THEN d[j] ELSE <<>>]]
  <2>1. [j \in NestedFields |-> IF j \in s.accessed THEN d[j] ELSE <<>>] = [j \in NestedFields |-> <<>>]
    BY <1>3
  <2> QED BY <1>2, <1>3, <2>1
<1>5. words \in Seq(Nat)
  <2>1. <<>> \in Seq(Nat)
    OBVIOUS
  <2> QED BY <2>1
<1>6. words = <<>> => \A j \in NestedFields \ s.accessed : d[j] = <<>>
  <2> SUFFICES ASSUME words = <<>>, NEW j \in NestedFields PROVE d[j] = <<>>
    OBVIOUS
  <2>1. d = NestedDefaults
    OBVIOUS
  <2> QED BY <2>1 DEF NestedDefaults
<1>7. words # <<>> => \E ws, e : /\ Carries(ws, e) /\ IsPrefix(ws, s.words) /\ IsNestedContent(e)
                                /\ \A j \in NestedFields \ s.accessed : e[j] = d[j]
  BY <1>3
<1> QED BY <1>1, <1>3, <1>4, <1>5, <1>6, <1>7 DEF NestedHolds

-----------------------------------------------------------------------------
(***************************************************************************)
(* What the getters do.                                                    *)
(***************************************************************************)

\* The message with something in the slot of a field.
Put(m, k, x) ==
  [words |-> m.words, accessed |-> m.accessed \cup {k}, slots |-> [m.slots EXCEPT ![k] = x]]

\* The getter of a flat field puts the field's value into its slot.
LEMMA GetPuts ==
  ASSUME NEW m, NEW kinds, NEW k, kinds[k] \in FlatKinds, NEW v, FlatHolds(m, kinds[k], k, v),
         m = [words |-> m.words, accessed |-> m.accessed, slots |-> m.slots],
         NEW D, k \in D, m.slots = [j \in D |-> m.slots[j]]
  PROVE  GetField(m, kinds, k) = Put(m, k, v) /\ GetField(m, kinds, k).slots[k] = v
<1>1. PICK ws, acc, slots : m = [words |-> ws, accessed |-> acc, slots |-> slots]
  OBVIOUS
<1>2. m.words = ws /\ m.accessed = acc /\ m.slots = slots
  BY <1>1
<1>3. slots = [j \in D |-> slots[j]]
  BY <1>2
<1>4. CASE k \in acc
  <2>1. slots[k] = v /\ acc \cup {k} = acc
    BY <1>2, <1>4 DEF FlatHolds
  <2>2. [slots EXCEPT ![k] = v] = slots
    BY <1>3, <2>1
  <2>3. Put(m, k, v) = m
    BY <1>1, <1>2, <2>1, <2>2 DEF Put
  <2>4. GetField(m, kinds, k) = m
    BY <1>2, <1>4 DEF GetField
  <2> QED BY <1>2, <2>1, <2>3, <2>4
<1>5. CASE k \notin acc
  <2>1. Decoded(m.words, kinds[k], k) = v
    <3>1. CASE m.words = <<>>
      BY <1>2, <1>5, <3>1 DEF Decoded, FlatHolds
    <3>2. CASE m.words # <<>>
      <4>1. FlatSeen(m.words, kinds[k], k, v) /\ kinds[k] # "message"
        BY <1>2, <1>5, <3>2 DEF FlatHolds, FlatKinds
      <4> QED BY <3>2, <4>1 DEF Decoded, FlatSeen
    <3> QED BY <3>1, <3>2
  <2>2. GetField(m, kinds, k) = [m EXCEPT !.accessed = @ \cup {k}, !.slots[k] = v]
    BY <1>2, <1>5, <2>1 DEF GetField
  <2>3. GetField(m, kinds, k) = Put(m, k, v)
    BY <1>1, <1>2, <2>2 DEF Put
  <2>4. Put(m, k, v).slots[k] = v
    BY <1>2, <1>3 DEF Put
  <2> QED BY <2>3, <2>4
<1> QED BY <1>4, <1>5

\* Putting a value into a field of a message in a field.
LEMMA NestedPut ==
  ASSUME NEW s, NEW d, NestedHolds(s, d), IsNestedContent(d), NEW j \in NestedFields,
         NEW v, v \in NestedValues(j) \cup {<<>>}
  PROVE  /\ NestedHolds(Put(s, j, v), [d EXCEPT ![j] = v])
         /\ IsNestedContent([d EXCEPT ![j] = v])
<1>1. PICK ws, acc : /\ ws = s.words /\ acc = s.accessed /\ ws \in Seq(Nat) /\ acc \in SUBSET NestedFields
                     /\ s.slots = [i \in NestedFields |-> IF i \in acc THEN d[i] ELSE <<>>]
  BY DEF NestedHolds
<1>2. PICK e : e = [d EXCEPT ![j] = v]
  OBVIOUS
<1>3. d = [i \in NestedFields |-> d[i]] /\ \A i \in NestedFields : d[i] \in NestedValues(i) \cup {<<>>}
  BY DEF IsNestedContent
<1>4. e = [i \in NestedFields |-> IF i = j THEN v ELSE d[i]]
  BY <1>2, <1>3
<1>5. e[j] = v /\ \A i \in NestedFields : i # j => e[i] = d[i]
  BY <1>4
<1>6. IsNestedContent(e)
  <2>1. e = [i \in NestedFields |-> e[i]]
    BY <1>4
  <2>2. \A i \in NestedFields : e[i] \in NestedValues(i) \cup {<<>>}
    BY <1>3, <1>5
  <2> QED BY <2>1, <2>2 DEF IsNestedContent
<1>7. PICK t : t = Put(s, j, v)
  OBVIOUS
<1>8. t.words = ws /\ t.accessed = acc \cup {j} /\ t.slots = [s.slots EXCEPT ![j] = v]
  BY <1>1, <1>7 DEF Put
<1>9. t = [words |-> t.words, accessed |-> t.accessed, slots |-> t.slots]
  BY <1>7 DEF Put
<1>10. t.slots = [i \in NestedFields |-> IF i \in t.accessed THEN e[i] ELSE <<>>]
  <2>1. t.slots = [i \in NestedFields |-> IF i = j THEN v ELSE IF i \in acc THEN d[i] ELSE <<>>]
    BY <1>1, <1>8
  <2>2. \A i \in NestedFields : (IF i = j THEN v ELSE IF i \in acc THEN d[i] ELSE <<>>)
                                = (IF i \in t.accessed THEN e[i] ELSE <<>>)
    BY <1>5, <1>8
  <2> QED BY <2>1, <2>2
<1>11. t.accessed \in SUBSET NestedFields
  BY <1>1, <1>8
<1>12. ws = <<>> => \A i \in NestedFields \ t.accessed : e[i] = <<>>
  BY <1>1, <1>5, <1>8 DEF NestedHolds
<1>13. ASSUME ws # <<>>
       PROVE  \E ts, x : /\ Carries(ts, x) /\ IsPrefix(ts, ws) /\ IsNestedContent(x)
                         /\ \A i \in NestedFields \ t.accessed : x[i] = e[i]
  <2>1. PICK ts, x : /\ Carries(ts, x) /\ IsPrefix(ts, ws) /\ IsNestedContent(x)
                     /\ \A i \in NestedFields \ acc : x[i] = d[i]
    BY <1>1, <1>13 DEF NestedHolds
  <2>2. \A i \in NestedFields \ t.accessed : x[i] = e[i]
    BY <1>5, <1>8, <2>1
  <2> QED BY <2>1, <2>2
<1>14. t = [words |-> t.words, accessed |-> t.accessed,
            slots |-> [i \in NestedFields |-> IF i \in t.accessed THEN e[i] ELSE <<>>]]
  BY <1>9, <1>10
<1>15. NestedHolds(t, e)
  BY <1>1, <1>8, <1>11, <1>12, <1>13, <1>14 DEF NestedHolds
<1> QED BY <1>2, <1>6, <1>7, <1>15

\* Reading a field of a message in a field.
LEMMA NestedGet ==
  ASSUME NEW s, NEW d, NestedHolds(s, d), IsNestedContent(d), NEW j \in NestedFields
  PROVE  /\ GetField(s, NestedKinds, j) = Put(s, j, d[j])
         /\ GetField(s, NestedKinds, j).slots[j] = d[j]
         /\ NestedHolds(GetField(s, NestedKinds, j), d)
<1>1. NestedKinds[j] \in FlatKinds /\ FlatHolds(s, NestedKinds[j], j, d[j])
  BY NestedValue, NestedHoldsEach
<1>2. s = [words |-> s.words, accessed |-> s.accessed, slots |-> s.slots]
  BY DEF NestedHolds
<1>3. s.slots = [i \in NestedFields |-> s.slots[i]]
  <2>1. s.slots = [i \in NestedFields |-> IF i \in s.accessed THEN d[i] ELSE <<>>]
    BY DEF NestedHolds
  <2> QED BY <2>1
<1>4. GetField(s, NestedKinds, j) = Put(s, j, d[j]) /\ GetField(s, NestedKinds, j).slots[j] = d[j]
  BY <1>1, <1>2, <1>3, GetPuts
<1>5. d[j] \in NestedValues(j) \cup {<<>>} /\ [d EXCEPT ![j] = d[j]] = d
  BY DEF IsNestedContent
<1>6. NestedHolds(Put(s, j, d[j]), [d EXCEPT ![j] = d[j]])
  BY <1>5, NestedPut
<1> QED BY <1>4, <1>5, <1>6

\* What the getters of a message in a field return.
LEMMA NestedContentIs ==
  ASSUME NEW s, NEW d, NestedHolds(s, d), IsNestedContent(d)
  PROVE  NestedContent(s) = d
<1>1. \A j \in NestedFields : GetField(s, NestedKinds, j).slots[j] = d[j]
  BY NestedGet
<1>2. d = [j \in NestedFields |-> d[j]]
  BY DEF IsNestedContent
<1> QED BY <1>1, <1>2 DEF NestedContent, NestedFields

\* Putting a value into a field.
LEMMA PutHolds ==
  ASSUME NEW m, NEW c, MessageHolds(m, c), NEW k \in DOMAIN Kinds,
         c = [i \in DOMAIN Kinds |-> c[i]], NEW x, NEW v,
         IF k \in Messages THEN \E s : x = <<s>> /\ NestedHolds(s, v) ELSE x = v
  PROVE  MessageHolds(Put(m, k, x), [c EXCEPT ![k] = v])
<1>1. PICK t : t = Put(m, k, x)
  OBVIOUS
<1>2. PICK e : e = [c EXCEPT ![k] = v]
  OBVIOUS
<1>3. e[k] = v /\ \A i \in DOMAIN Kinds : i # k => e[i] = c[i]
  BY <1>2
<1>4. t.words = m.words /\ t.accessed = m.accessed \cup {k} /\ t.slots = [m.slots EXCEPT ![k] = x]
  BY <1>1 DEF Put
<1>5. t = [words |-> t.words, accessed |-> t.accessed, slots |-> t.slots]
  BY <1>1 DEF Put
<1>6. m.slots = [i \in DOMAIN Kinds |-> m.slots[i]]
  BY DEF MessageHolds
<1>7. t.slots[k] = x /\ \A i \in DOMAIN Kinds : i # k => t.slots[i] = m.slots[i]
  BY <1>4, <1>6
<1>8. t.slots = [i \in DOMAIN Kinds |-> t.slots[i]]
  BY <1>4, <1>6
<1>9. t.words \in Seq(Nat) /\ t.accessed \in SUBSET DOMAIN Kinds
  BY <1>4 DEF MessageHolds
<1>10. ASSUME NEW i \in DOMAIN Kinds PROVE FieldHolds(t, i, e[i])
  <2>1. CASE i = k
    <3>1. k \in t.accessed
      BY <1>4
    <3> QED BY <1>3, <1>7, <2>1, <3>1 DEF FieldHolds
  <2>2. CASE i # k
    <3>1. FieldHolds(m, i, c[i])
      BY DEF MessageHolds
    <3>2. (i \in t.accessed <=> i \in m.accessed) /\ t.slots[i] = m.slots[i] /\ e[i] = c[i]
      BY <1>3, <1>4, <1>7, <2>2
    <3> QED BY <1>4, <3>1, <3>2 DEF FieldHolds
  <2> QED BY <2>1, <2>2
<1>11. MessageHolds(t, e)
  BY <1>5, <1>8, <1>9, <1>10 DEF MessageHolds
<1> QED BY <1>1, <1>2, <1>11

\* The getter of a scalar or a text.
LEMMA FieldGot ==
  ASSUME NEW m, NEW c, MessageHolds(m, c), IsContent(c), NEW k \in Flat
  PROVE  GetField(m, Kinds, k) = Put(m, k, c[k]) /\ GetField(m, Kinds, k).slots[k] = c[k]
<1>1. k \in DOMAIN Kinds /\ k \notin Messages /\ Kinds[k] \in FlatKinds
  BY FieldNumbers
<1>2. FlatHolds(m, Kinds[k], k, c[k])
  <2>1. FieldHolds(m, k, c[k])
    BY <1>1 DEF MessageHolds
  <2> QED BY <1>1, <2>1 DEF FieldHolds, FlatHolds, Shows, Default
<1>3. m = [words |-> m.words, accessed |-> m.accessed, slots |-> m.slots]
  BY DEF MessageHolds
<1>4. m.slots = [i \in DOMAIN Kinds |-> m.slots[i]]
  BY DEF MessageHolds
<1> QED BY <1>1, <1>2, <1>3, <1>4, GetPuts

\* The getter of a message.
LEMMA MessageGot ==
  ASSUME NEW m, NEW c, MessageHolds(m, c), IsContent(c), NEW k \in Messages
  PROVE  \E s : /\ GetMessage(m, k) = Put(m, k, <<s>>) /\ GetMessage(m, k).slots[k] = <<s>>
                /\ NestedHolds(s, c[k])
<1>1. k \in DOMAIN Kinds /\ Kinds[k] = "message"
  BY FieldNumbers
<1>2. FieldHolds(m, k, c[k]) /\ IsNestedContent(c[k])
  BY <1>1 DEF MessageHolds, IsContent
<1>3. PICK ws, acc, slots : m = [words |-> ws, accessed |-> acc, slots |-> slots]
  BY DEF MessageHolds
<1>4. m.words = ws /\ m.accessed = acc /\ m.slots = slots
  BY <1>3
<1>5. slots = [j \in DOMAIN Kinds |-> slots[j]]
  BY <1>4 DEF MessageHolds
<1>6. CASE k \in acc
  <2>1. PICK s : slots[k] = <<s>> /\ NestedHolds(s, c[k])
    BY <1>2, <1>4, <1>6 DEF FieldHolds
  <2>2. GetField(m, Kinds, k) = m /\ <<s>> # <<>>
    BY <1>4, <1>6 DEF GetField
  <2>3. GetMessage(m, k) = [m EXCEPT !.slots[k] = <<s>>]
    BY <1>4, <2>1, <2>2 DEF GetMessage
  <2>4. [slots EXCEPT ![k] = <<s>>] = slots /\ acc \cup {k} = acc
    BY <1>5, <1>6, <2>1
  <2>5. GetMessage(m, k) = Put(m, k, <<s>>)
    BY <1>3, <1>4, <2>3, <2>4 DEF Put
  <2>6. Put(m, k, <<s>>).slots[k] = <<s>>
    BY <1>4, <2>1, <2>4 DEF Put
  <2> QED BY <2>1, <2>5, <2>6
<1>7. CASE k \notin acc
  <2>1. PICK got : got = Decoded(m.words, Kinds[k], k)
    OBVIOUS
  <2>2. GetField(m, Kinds, k) = [m EXCEPT !.accessed = @ \cup {k}, !.slots[k] = got]
    BY <1>4, <1>7, <2>1 DEF GetField
  <2>3. GetField(m, Kinds, k) = Put(m, k, got) /\ Put(m, k, got).slots[k] = got
    <3>1. GetField(m, Kinds, k) = Put(m, k, got)
      BY <1>3, <1>4, <2>2 DEF Put
    <3>2. Put(m, k, got).slots[k] = got
      BY <1>1, <1>4, <1>5 DEF Put
    <3> QED BY <3>1, <3>2
  <2>4. PICK s : NestedHolds(s, c[k]) /\ <<s>> = IF got = <<>> THEN <<New(NestedKinds)>> ELSE got
    <3>1. CASE m.words = <<>> \/ ~HasField(m.words, k)
      <4>1. got = <<>>
        BY <2>1, <3>1 DEF Decoded
      <4>2. c[k] = NestedDefaults
        BY <1>2, <1>4, <1>7, <3>1 DEF FieldHolds, Default, Shows, MessageSeen
      <4>3. NestedHolds(New(NestedKinds), c[k])
        BY <1>2, <4>2, FreshNestedHolds DEF New
      <4> QED BY <4>1, <4>3
    <3>2. CASE m.words # <<>> /\ HasField(m.words, k)
      <4>1. PICK t \in Seq(Nat) : t = ObjectWords(m.words, k) /\ \E w : Carries(w, c[k]) /\ IsPrefix(w, t)
        BY <1>2, <1>4, <1>7, <3>2 DEF FieldHolds, Shows, MessageSeen
      <4>2. got = <<Fresh(t, Len(NestedKinds))>>
        BY <1>1, <2>1, <3>2, <4>1 DEF Decoded
      <4>3. t # <<>>
        <5>1. PICK w : Carries(w, c[k]) /\ IsPrefix(w, t)
          BY <4>1
        <5>2. w \in Seq(Nat) /\ Len(w) >= 2
          BY <5>1 DEF Carries
        <5>3. Len(w) <= Len(t)
          BY <5>1, <5>2, PrefixMeans
        <5>4. Len(t) # 0
          BY <5>2, <5>3
        <5> QED BY <5>4
      <4>4. NestedHolds(Fresh(t, Len(NestedKinds)), c[k])
        BY <1>2, <4>1, <4>3, FreshNestedHolds
      <4>5. got # <<>>
        BY <4>2
      <4> QED BY <4>2, <4>4, <4>5
    <3> QED BY <3>1, <3>2
  <2>5. GetMessage(m, k) = [Put(m, k, got) EXCEPT !.slots[k] = <<s>>]
    BY <2>3, <2>4 DEF GetMessage
  <2>6. [Put(m, k, got) EXCEPT !.slots[k] = <<s>>] = Put(m, k, <<s>>)
    <3>1. [[slots EXCEPT ![k] = got] EXCEPT ![k] = <<s>>] = [slots EXCEPT ![k] = <<s>>]
      BY <1>5
    <3> QED BY <1>4, <3>1, SMTT(30) DEF Put
  <2>7. Put(m, k, <<s>>).slots[k] = <<s>>
    BY <1>1, <1>4, <1>5 DEF Put
  <2> QED BY <2>4, <2>5, <2>6, <2>7
<1> QED BY <1>6, <1>7

-----------------------------------------------------------------------------
(***************************************************************************)
(* The inductive invariant, and the theorems about MutableMessage.         *)
(***************************************************************************)

\* A new message in a field has its default values.
LEMMA NewNestedHolds == NestedHolds(New(NestedKinds), NestedDefaults) /\ IsNestedContent(NestedDefaults)
<1>1. IsNestedContent(NestedDefaults)
  BY DEF IsNestedContent, NestedDefaults
<1>2. NestedHolds(Fresh(<<>>, Len(NestedKinds)), NestedDefaults)
  BY <1>1, FreshNestedHolds
<1> QED BY <1>1, <1>2 DEF New

\* A value put where one of a field is expected.
LEMMA ContentPut ==
  ASSUME NEW c, IsContent(c), NEW k \in DOMAIN Kinds, NEW v,
         IF k \in Messages THEN IsNestedContent(v) ELSE v \in Values(k) \cup {<<>>}
  PROVE  IsContent([c EXCEPT ![k] = v])
<1>1. PICK e : e = [c EXCEPT ![k] = v]
  OBVIOUS
<1>2. c = [i \in DOMAIN Kinds |-> c[i]]
  BY DEF IsContent
<1>3. e = [i \in DOMAIN Kinds |-> IF i = k THEN v ELSE c[i]]
  BY <1>1, <1>2
<1>4. e = [i \in DOMAIN Kinds |-> e[i]]
  BY <1>3
<1>5. ASSUME NEW i \in Flat PROVE e[i] \in Values(i) \cup {<<>>}
  <2>1. i \in DOMAIN Kinds /\ i \notin Messages
    BY FieldNumbers
  <2>2. CASE i = k
    BY <1>3, <2>1, <2>2
  <2>3. CASE i # k
    <3>1. e[i] = c[i]
      BY <1>3, <2>1, <2>3
    <3> QED BY <3>1 DEF IsContent
  <2> QED BY <2>2, <2>3
<1>6. ASSUME NEW i \in Messages PROVE IsNestedContent(e[i])
  <2>1. i \in DOMAIN Kinds
    BY FieldNumbers
  <2>2. CASE i = k
    BY <1>3, <2>1, <2>2
  <2>3. CASE i # k
    <3>1. e[i] = c[i]
      BY <1>3, <2>1, <2>3
    <3> QED BY <3>1 DEF IsContent
  <2> QED BY <2>2, <2>3
<1> QED BY <1>1, <1>4, <1>5, <1>6 DEF IsContent

\* What the getters return.
LEMMA ContentIs ==
  ASSUME NEW m, NEW c, MessageHolds(m, c), IsContent(c)
  PROVE  ContentOf(m) = c
<1>1. ASSUME NEW k \in DOMAIN Kinds, k \notin Messages PROVE GetField(m, Kinds, k).slots[k] = c[k]
  <2>1. k \in Flat
    BY <1>1, FieldNumbers
  <2> QED BY <2>1, FieldGot
<1>2. ASSUME NEW k \in DOMAIN Kinds, k \in Messages
      PROVE  NestedContent(GetMessage(m, k).slots[k][1]) = c[k]
  <2>1. PICK s : GetMessage(m, k).slots[k] = <<s>> /\ NestedHolds(s, c[k])
    BY <1>2, MessageGot
  <2>2. IsNestedContent(c[k])
    BY <1>2 DEF IsContent
  <2>3. GetMessage(m, k).slots[k][1] = s
    BY <2>1
  <2> QED BY <2>1, <2>2, <2>3, NestedContentIs
<1>3. c = [k \in DOMAIN Kinds |-> c[k]]
  BY DEF IsContent
<1>4. \A k \in DOMAIN Kinds :
        (IF k \in Messages THEN NestedContent(GetMessage(m, k).slots[k][1])
         ELSE GetField(m, Kinds, k).slots[k]) = c[k]
  BY <1>1, <1>2
<1> QED BY <1>3, <1>4 DEF ContentOf

\* Every field of the mutable message has its value, and a legal one.
Holds(m, c) == MessageHolds(m, c) /\ IsContent(c)

(***************************************************************************)
(* The inductive invariant of the mutable message: every field has the     *)
(* value that is expected of it, in its slot or in the words that were     *)
(* loaded, and what was serialized shows the same values, in the words     *)
(* that these give.                                                        *)
(***************************************************************************)
MutableInv ==
  /\ Holds(message, expected)
  /\ output = <<>> \/ ShowsAll(output, expected)
  /\ OutputIsCanonical

\* A step that leaves no output behind.
LEMMA BecomesHolds ==
  ASSUME NEW m, NEW c, Holds(m, c), Becomes(m, c)
  PROVE  MutableInv'
BY DEF Becomes, MutableInv, OutputIsCanonical

\* A new message.
LEMMA MutableBegins == MutableInit => MutableInv
<1> SUFFICES ASSUME MutableInit PROVE MutableInv
  OBVIOUS
<1>1. expected = [k \in DOMAIN Kinds |-> Default(k)]
  BY DEF MutableInit, Default, NestedDefaults, NestedFields
<1>2. \A k \in DOMAIN Kinds : expected[k] = Default(k)
  BY <1>1
<1>3. MessageHolds(message, expected)
  <2>1. message = Fresh(<<>>, Len(Kinds))
    BY DEF MutableInit, New
  <2> QED BY <1>2, <2>1, FreshHolds
<1>4. IsContent(expected)
  <2>1. expected = [k \in DOMAIN Kinds |-> expected[k]]
    BY <1>1
  <2>2. \A k \in Flat : expected[k] = <<>>
    BY <1>2, FieldNumbers DEF Default
  <2>3. \A k \in Messages : expected[k] = NestedDefaults
    BY <1>2, FieldNumbers DEF Default
  <2> QED BY <2>1, <2>2, <2>3, NewNestedHolds DEF IsContent
<1> QED BY <1>3, <1>4 DEF MutableInv, Holds, MutableInit, OutputIsCanonical

\* Something put into a field, with the value it stands for.
LEMMA PutKeeps ==
  ASSUME NEW m, NEW c, Holds(m, c), NEW k \in DOMAIN Kinds, NEW x, NEW v,
         IF k \in Messages THEN IsNestedContent(v) /\ \E s : x = <<s>> /\ NestedHolds(s, v)
         ELSE v \in Values(k) \cup {<<>>} /\ x = v
  PROVE  Holds(Put(m, k, x), [c EXCEPT ![k] = v])
<1>1. c = [i \in DOMAIN Kinds |-> c[i]]
  BY DEF Holds, IsContent
<1>2. MessageHolds(Put(m, k, x), [c EXCEPT ![k] = v])
  BY <1>1, PutHolds DEF Holds
<1>3. IsContent([c EXCEPT ![k] = v])
  BY ContentPut DEF Holds
<1> QED BY <1>2, <1>3 DEF Holds

\* Something put where something was put before.
LEMMA PutAgain ==
  ASSUME NEW m, NEW k, NEW x, NEW y, NEW D, k \in D, m.slots = [i \in D |-> m.slots[i]]
  PROVE  /\ [Put(m, k, x) EXCEPT !.slots[k] = y] = Put(m, k, y)
         /\ Put(m, k, x).slots[k] = x
<1>1. PICK slots : slots = m.slots
  OBVIOUS
<1>2. slots = [i \in D |-> slots[i]]
  BY <1>1
<1>3. /\ [[slots EXCEPT ![k] = x] EXCEPT ![k] = y] = [slots EXCEPT ![k] = y]
      /\ [slots EXCEPT ![k] = x][k] = x
  BY <1>2
<1> QED BY <1>1, <1>3 DEF Put

\* Putting back the value that a field has changes no value.
LEMMA SameContent ==
  ASSUME NEW c, IsContent(c), NEW k \in DOMAIN Kinds
  PROVE  [c EXCEPT ![k] = c[k]] = c
<1>1. c = [i \in DOMAIN Kinds |-> c[i]]
  BY DEF IsContent
<1> QED BY <1>1

\* The slots of a message, and those of one in a field, are functions.
LEMMA SlotsOf ==
  /\ \A m, c : Holds(m, c) => m.slots = [i \in DOMAIN Kinds |-> m.slots[i]]
  /\ \A s, d : NestedHolds(s, d) => s.slots = [j \in NestedFields |-> s.slots[j]]
<1>1. \A m, c : Holds(m, c) => m.slots = [i \in DOMAIN Kinds |-> m.slots[i]]
  BY DEF Holds, MessageHolds
<1>2. ASSUME NEW s, NEW d, NestedHolds(s, d) PROVE s.slots = [j \in NestedFields |-> s.slots[j]]
  <2>1. s.slots = [j \in NestedFields |-> IF j \in s.accessed THEN d[j] ELSE <<>>]
    BY <1>2 DEF NestedHolds
  <2> QED BY <2>1
<1> QED BY <1>1, <1>2

\* Reading a scalar or a text.
LEMMA ReadKeeps ==
  ASSUME MutableInv, NEW k \in Flat, Read(k)
  PROVE  MutableInv'
<1>1. k \in DOMAIN Kinds /\ k \notin Messages
  BY FieldNumbers
<1>2. MessageHolds(message, expected) /\ IsContent(expected)
  BY DEF MutableInv, Holds
<1>3. GetField(message, Kinds, k) = Put(message, k, expected[k])
  BY <1>2, FieldGot
<1>4. expected[k] \in Values(k) \cup {<<>>}
  BY <1>2 DEF IsContent
<1>5. Holds(Put(message, k, expected[k]), [expected EXCEPT ![k] = expected[k]])
  BY <1>1, <1>4, PutKeeps DEF MutableInv
<1>6. Holds(GetField(message, Kinds, k), expected)
  BY <1>1, <1>2, <1>3, <1>5, SameContent
<1>7. Becomes(GetField(message, Kinds, k), expected)
  BY DEF Read
<1> QED BY <1>6, <1>7, BecomesHolds

\* Writing one.
LEMMA WriteKeeps ==
  ASSUME MutableInv, NEW k \in Flat, Write(k)
  PROVE  MutableInv'
<1>1. k \in DOMAIN Kinds /\ k \notin Messages
  BY FieldNumbers
<1>2. MessageHolds(message, expected) /\ IsContent(expected)
  BY DEF MutableInv, Holds
<1>3. GetField(message, Kinds, k) = Put(message, k, expected[k])
  BY <1>2, FieldGot
<1>4. PICK v \in Values(k) \cup {<<>>} :
        Becomes([GetField(message, Kinds, k) EXCEPT !.slots[k] = v], [expected EXCEPT ![k] = v])
  BY DEF Write
<1>5. message.slots = [i \in DOMAIN Kinds |-> message.slots[i]]
  BY SlotsOf DEF MutableInv
<1>6. [GetField(message, Kinds, k) EXCEPT !.slots[k] = v] = Put(message, k, v)
  BY <1>1, <1>3, <1>5, PutAgain
<1>7. Holds(Put(message, k, v), [expected EXCEPT ![k] = v])
  BY <1>1, PutKeeps DEF MutableInv
<1> QED BY <1>4, <1>6, <1>7, BecomesHolds

\* What the getter of a message gives, while the invariant holds.
LEMMA GotHolds ==
  ASSUME MutableInv, NEW k \in Messages
  PROVE  /\ k \in DOMAIN Kinds /\ IsNestedContent(expected[k])
         /\ \E s : /\ GetMessage(message, k) = Put(message, k, <<s>>)
                   /\ GetMessage(message, k).slots[k] = <<s>>
                   /\ NestedHolds(s, expected[k])
         /\ \A x, y : [Put(message, k, x) EXCEPT !.slots[k] = y] = Put(message, k, y)
<1>1. k \in DOMAIN Kinds
  BY FieldNumbers
<1>2. MessageHolds(message, expected) /\ IsContent(expected)
  BY DEF MutableInv, Holds
<1>3. IsNestedContent(expected[k])
  BY <1>2 DEF IsContent
<1>4. message.slots = [i \in DOMAIN Kinds |-> message.slots[i]]
  BY SlotsOf DEF MutableInv
<1>5. \A x, y : [Put(message, k, x) EXCEPT !.slots[k] = y] = Put(message, k, y)
  BY <1>1, <1>4, PutAgain
<1> QED BY <1>1, <1>2, <1>3, <1>5, MessageGot

\* Reading a message.
LEMMA ReadMessageKeeps ==
  ASSUME MutableInv, NEW k \in Messages, ReadMessage(k)
  PROVE  MutableInv'
<1>1. /\ k \in DOMAIN Kinds /\ IsNestedContent(expected[k]) /\ IsContent(expected)
      /\ Holds(message, expected)
  BY GotHolds DEF MutableInv, Holds
<1>2. PICK s : GetMessage(message, k) = Put(message, k, <<s>>) /\ NestedHolds(s, expected[k])
  BY GotHolds
<1>3. Holds(Put(message, k, <<s>>), [expected EXCEPT ![k] = expected[k]])
  BY <1>1, <1>2, PutKeeps
<1>4. Holds(GetMessage(message, k), expected)
  BY <1>1, <1>2, <1>3, SameContent
<1>5. Becomes(GetMessage(message, k), expected)
  BY DEF ReadMessage
<1> QED BY <1>4, <1>5, BecomesHolds

\* Replacing one.
LEMMA ReplaceMessageKeeps ==
  ASSUME MutableInv, NEW k \in Messages, ReplaceMessage(k)
  PROVE  MutableInv'
<1>1. k \in DOMAIN Kinds /\ Holds(message, expected)
  BY GotHolds DEF MutableInv
<1>2. PICK s : GetMessage(message, k) = Put(message, k, <<s>>)
  BY GotHolds
<1>3. PICK new : new = New(NestedKinds)
  OBVIOUS
<1>4. [GetMessage(message, k) EXCEPT !.slots[k] = <<new>>] = Put(message, k, <<new>>)
  BY <1>2, GotHolds
<1>5. NestedHolds(new, NestedDefaults) /\ IsNestedContent(NestedDefaults)
  BY <1>3, NewNestedHolds
<1>6. Holds(Put(message, k, <<new>>), [expected EXCEPT ![k] = NestedDefaults])
  BY <1>1, <1>5, PutKeeps
<1>7. Becomes([GetMessage(message, k) EXCEPT !.slots[k] = <<new>>],
              [expected EXCEPT ![k] = NestedDefaults])
  BY <1>3 DEF ReplaceMessage, NestedDefaults, NestedFields
<1> QED BY <1>4, <1>6, <1>7, BecomesHolds

\* Reading a field of a message in a field.
LEMMA ReadNestedKeeps ==
  ASSUME MutableInv, NEW k \in Messages, NEW j \in NestedFields, ReadNested(k, j)
  PROVE  MutableInv'
<1>1. /\ k \in DOMAIN Kinds /\ IsNestedContent(expected[k]) /\ IsContent(expected)
      /\ Holds(message, expected)
  BY GotHolds DEF MutableInv, Holds
<1>2. PICK s : /\ GetMessage(message, k) = Put(message, k, <<s>>)
               /\ GetMessage(message, k).slots[k] = <<s>> /\ NestedHolds(s, expected[k])
  BY GotHolds
<1>3. PICK t : t = GetField(s, NestedKinds, j)
  OBVIOUS
<1>4. NestedHolds(t, expected[k])
  BY <1>1, <1>2, <1>3, NestedGet
<1>5. [GetMessage(message, k) EXCEPT !.slots[k] = <<t>>] = Put(message, k, <<t>>)
  BY <1>2, GotHolds
<1>6. Holds(Put(message, k, <<t>>), [expected EXCEPT ![k] = expected[k]])
  BY <1>1, <1>4, PutKeeps
<1>7. Holds(Put(message, k, <<t>>), expected)
  BY <1>1, <1>6, SameContent
<1>8. GetMessage(message, k).slots[k][1] = s
  BY <1>2
<1>9. Becomes([GetMessage(message, k) EXCEPT !.slots[k] = <<GetField(@[1], NestedKinds, j)>>], expected)
  BY DEF ReadNested
<1>10. [GetMessage(message, k) EXCEPT !.slots[k] = <<GetField(@[1], NestedKinds, j)>>]
         = [GetMessage(message, k) EXCEPT !.slots[k] = <<t>>]
  BY <1>3, <1>8
<1> QED BY <1>5, <1>7, <1>9, <1>10, BecomesHolds

\* Writing one.
LEMMA WriteNestedKeeps ==
  ASSUME MutableInv, NEW k \in Messages, NEW j \in NestedFields, WriteNested(k, j)
  PROVE  MutableInv'
<1>1. /\ k \in DOMAIN Kinds /\ IsNestedContent(expected[k]) /\ IsContent(expected)
      /\ Holds(message, expected)
  BY GotHolds DEF MutableInv, Holds
<1>2. PICK s : /\ GetMessage(message, k) = Put(message, k, <<s>>)
               /\ GetMessage(message, k).slots[k] = <<s>> /\ NestedHolds(s, expected[k])
  BY GotHolds
<1>3. GetMessage(message, k).slots[k][1] = s
  BY <1>2
<1>4. PICK v \in NestedValues(j) \cup {<<>>} :
        Becomes([GetMessage(message, k) EXCEPT
                   !.slots[k] = <<[GetField(@[1], NestedKinds, j) EXCEPT !.slots[j] = v]>>],
                [expected EXCEPT ![k][j] = v])
  BY DEF WriteNested
<1>5. PICK t : t = Put(s, j, v)
  OBVIOUS
<1>6. [GetField(s, NestedKinds, j) EXCEPT !.slots[j] = v] = t
  <2>1. GetField(s, NestedKinds, j) = Put(s, j, expected[k][j])
    BY <1>1, <1>2, NestedGet
  <2>2. s.slots = [i \in NestedFields |-> s.slots[i]]
    BY <1>2, SlotsOf
  <2> QED BY <1>5, <2>1, <2>2, PutAgain
<1>7. PICK e : e = [expected[k] EXCEPT ![j] = v]
  OBVIOUS
<1>8. NestedHolds(t, e) /\ IsNestedContent(e)
  BY <1>1, <1>2, <1>5, <1>7, NestedPut
<1>9. Holds(Put(message, k, <<t>>), [expected EXCEPT ![k] = e])
  BY <1>1, <1>8, PutKeeps
<1>10. [expected EXCEPT ![k][j] = v] = [expected EXCEPT ![k] = e]
  BY <1>7
<1>11. [GetMessage(message, k) EXCEPT
          !.slots[k] = <<[GetField(@[1], NestedKinds, j) EXCEPT !.slots[j] = v]>>]
         = [GetMessage(message, k) EXCEPT !.slots[k] = <<t>>]
  BY <1>3, <1>6
<1>12. [GetMessage(message, k) EXCEPT !.slots[k] = <<t>>] = Put(message, k, <<t>>)
  BY <1>2, GotHolds
<1> QED BY <1>4, <1>9, <1>10, <1>11, <1>12, BecomesHolds

\* Serializing.
LEMMA SerializeKeeps ==
  ASSUME MutableInv, Serialize
  PROVE  MutableInv'
<1>1. ShowsAll(SerializedWords(message), expected)
  BY OutputShows DEF MutableInv, Holds, Serialize
<1>2. output' = SerializedWords(message) /\ message' = message /\ expected' = expected
  BY DEF Serialize
<1>3. ASSUME message.accessed # {}, ~Dragging
      PROVE  SerializedWords(message) = SerializedWords(Rebuilt(expected))
  <2>1. ~Clean(message) /\ ~Refused(Parts(message).units)
    BY <1>3 DEF Clean, Serialize
  <2>2. \A k \in DOMAIN Kinds : ~Dragged(message, k)
    BY <1>3 DEF Dragging, Dragged
  <2> QED BY <2>1, <2>2, OutputSame DEF MutableInv, Holds
<1>4. OutputIsCanonical'
  BY <1>2, <1>3 DEF OutputIsCanonical, Dragging
<1> QED BY <1>1, <1>2, <1>4 DEF MutableInv

\* Loading what was serialized.
LEMMA LoadKeeps ==
  ASSUME MutableInv, Load
  PROVE  MutableInv'
<1>1. ShowsAll(output, expected)
  BY DEF MutableInv, Load
<1>2. MessageHolds(Fresh(output, Len(Kinds)), expected)
  BY <1>1, FreshHolds
<1>3. message' = Fresh(output, Len(Kinds)) /\ output' = <<>> /\ expected' = expected
  BY DEF Load
<1> QED BY <1>2, <1>3 DEF MutableInv, Holds, OutputIsCanonical

\* The invariant is inductive.
LEMMA MutableKeeps == MutableInv /\ [MutableNext]_mutableVars => MutableInv'
<1> SUFFICES ASSUME MutableInv, [MutableNext]_mutableVars PROVE MutableInv'
  OBVIOUS
<1>1. ASSUME NEW k \in Flat, Read(k) \/ Write(k) PROVE MutableInv'
  BY <1>1, ReadKeeps, WriteKeeps
<1>2. ASSUME NEW k \in Messages, ReadMessage(k) \/ ReplaceMessage(k) PROVE MutableInv'
  BY <1>2, ReadMessageKeeps, ReplaceMessageKeeps
<1>3. ASSUME NEW k \in Messages, NEW j \in DOMAIN NestedKinds, ReadNested(k, j) \/ WriteNested(k, j)
      PROVE  MutableInv'
  <2>1. j \in NestedFields
    BY DEF NestedFields
  <2> QED BY <1>3, <2>1, ReadNestedKeeps, WriteNestedKeeps
<1>4. CASE Serialize
  BY <1>4, SerializeKeeps
<1>5. CASE Load
  BY <1>5, LoadKeeps
<1>6. CASE UNCHANGED mutableVars
  BY <1>6 DEF mutableVars, MutableInv, OutputIsCanonical, Dragging
<1> QED BY <1>1, <1>2, <1>3, <1>4, <1>5, <1>6 DEF MutableNext

\* What a state of the invariant means for a message: the types of its slots.
LEMMA SlotsTyped ==
  ASSUME MutableInv
  PROVE  MutableTypeOK
<1>1. /\ message.accessed \in SUBSET DOMAIN Kinds
      /\ \A k \in DOMAIN Kinds : FieldHolds(message, k, expected[k])
      /\ IsContent(expected)
  BY DEF MutableInv, Holds, MessageHolds
<1>2. ASSUME NEW k \in Flat PROVE message.slots[k] \in Values(k) \cup {<<>>}
  <2>1. k \in DOMAIN Kinds /\ k \notin Messages
    BY FieldNumbers
  <2>2. FieldHolds(message, k, expected[k]) /\ expected[k] \in Values(k) \cup {<<>>}
    BY <1>1, <2>1 DEF IsContent
  <2> QED BY <2>1, <2>2 DEF FieldHolds
<1>3. ASSUME NEW k \in Messages, k \in message.accessed, NEW m, m = message.slots[k][1]
      PROVE  /\ m.accessed \subseteq DOMAIN NestedKinds
             /\ \A j \in DOMAIN NestedKinds : m.slots[j] \in NestedValues(j) \cup {<<>>}
  <2>1. FieldHolds(message, k, expected[k]) /\ IsNestedContent(expected[k])
    BY <1>1, FieldNumbers DEF IsContent
  <2>2. PICK s : message.slots[k] = <<s>> /\ NestedHolds(s, expected[k])
    BY <1>3, <2>1 DEF FieldHolds
  <2>3. m = s
    BY <1>3, <2>2
  <2>4. /\ s.accessed \in SUBSET NestedFields
        /\ s.slots = [j \in NestedFields |-> IF j \in s.accessed THEN expected[k][j] ELSE <<>>]
    BY <2>2 DEF NestedHolds
  <2>5. \A j \in NestedFields : expected[k][j] \in NestedValues(j) \cup {<<>>}
    BY <2>1 DEF IsNestedContent
  <2>6. \A j \in NestedFields : s.slots[j] \in NestedValues(j) \cup {<<>>}
    BY <2>4, <2>5
  <2> QED BY <2>3, <2>4, <2>6 DEF NestedFields
<1>4. output \in Seq(Nat)
  <2>1. output # <<>> => output \in Seq(Nat)
    BY DEF MutableInv, ShowsAll
  <2>2. <<>> \in Seq(Nat)
    OBVIOUS
  <2> QED BY <2>1, <2>2
<1> QED BY <1>1, <1>2, <1>3, <1>4 DEF MutableTypeOK

\* And for what the getters return.
LEMMA MutableInvMeans == MutableInv => GettersReturnContent /\ RoundTrips
<1> SUFFICES ASSUME MutableInv PROVE GettersReturnContent /\ RoundTrips
  OBVIOUS
<1>1. MessageHolds(message, expected) /\ IsContent(expected)
  BY DEF MutableInv, Holds
<1>2. ContentOf(message) = expected
  BY <1>1, ContentIs
<1>3. ASSUME output # <<>> PROVE ContentOf(Fresh(output, Len(Kinds))) = expected
  <2>1. ShowsAll(output, expected)
    BY <1>3 DEF MutableInv
  <2>2. MessageHolds(Fresh(output, Len(Kinds)), expected)
    BY <2>1, FreshHolds
  <2> QED BY <1>1, <2>2, ContentIs
<1> QED BY <1>2, <1>3, SlotsTyped DEF GettersReturnContent, RoundTrips

(***************************************************************************)
(* Through any sequence of reads, writes, replacements, serializations and *)
(* loads, of a message with any fields and any values, the getters of      *)
(* mutable.rs return the values last set.                                  *)
(***************************************************************************)
THEOREM MutableReturnsContent == MutableSpec => []GettersReturnContent
<1>1. MutableSpec => []MutableInv
  BY MutableBegins, MutableKeeps, PTL DEF MutableSpec
<1>2. MutableInv => GettersReturnContent
  BY MutableInvMeans
<1> QED BY <1>1, <1>2, PTL

(***************************************************************************)
(* What SerializeWords gives decodes to the values last set: whichever of  *)
(* the fields were copied, encoded, folded or left out, and whatever came  *)
(* along behind a message that was copied.                                 *)
(***************************************************************************)
THEOREM MutableRoundTrips == MutableSpec => []RoundTrips
<1>1. MutableSpec => []MutableInv
  BY MutableBegins, MutableKeeps, PTL DEF MutableSpec
<1>2. MutableInv => RoundTrips
  BY MutableInvMeans
<1> QED BY <1>1, <1>2, PTL

(***************************************************************************)
(* Unless a message was accessed while its own fields were not, what       *)
(* SerializeWords gives depends on the values alone: a field that is       *)
(* copied from the words it was loaded from, trailing words of other       *)
(* fields cut off, is word for word what encoding its value would give,    *)
(* with the offsets to it adjusted to where it stands.                     *)
(***************************************************************************)
THEOREM MutableOutputIsCanonical == MutableSpec => []OutputIsCanonical
<1>1. MutableSpec => []MutableInv
  BY MutableBegins, MutableKeeps, PTL DEF MutableSpec
<1>2. MutableInv => OutputIsCanonical
  BY DEF MutableInv
<1> QED BY <1>1, <1>2, PTL

=============================================================================
