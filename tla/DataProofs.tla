------------------------------ MODULE DataProofs ------------------------------
(***************************************************************************)
(* Lemmas about the data the encoders work on: sums and concatenations, by *)
(* induction, tails of sequences, and the word buffer.                     *)
(***************************************************************************)
EXTENDS WordBuffer, Functions, SequencesExt,
        WellFoundedInduction, FiniteSetTheorems, SequenceTheorems, TLAPS

\* The order of the natural numbers, as a relation.
NatOrder == {ss \in Nat \X Nat : ss[1] < ss[2]}

\* Every nonempty set of natural numbers has a least member.
LEMMA LeastNat ==
  ASSUME NEW T \in SUBSET Nat, T # {}
  PROVE  \E x \in T : \A y \in T : x <= y
<1>1. IsWellFoundedOn(NatOrder, Nat)
  BY NatLessThanWellFounded DEF OpToRel, NatOrder
<1>2. PICK x \in T : \A y \in T : ~(<<y, x>> \in NatOrder)
  BY <1>1, WFMin
<1>3. ASSUME NEW y \in T PROVE x <= y
  <2>1. ~(<<y, x>> \in NatOrder) BY <1>2
  <2>2. x \in Nat /\ y \in Nat OBVIOUS
  <2>3. <<y, x>> \in Nat \X Nat BY <2>2
  <2>4. ~(y < x)
    BY <2>1, <2>2, <2>3 DEF NatOrder
  <2> QED BY <2>2, <2>4
<1> QED BY <1>3

\* Induction over the natural numbers, said of sets.
LEMMA NatInduct ==
  ASSUME NEW S \in SUBSET Nat, 0 \in S, \A n \in S : n + 1 \in S
  PROVE  S = Nat
<1>1. SUFFICES ASSUME Nat \ S # {} PROVE FALSE
  OBVIOUS
<1>2. PICK n \in Nat \ S : \A m \in Nat \ S : n <= m
  BY <1>1, LeastNat
<1>3. n # 0 /\ n - 1 \in Nat /\ n - 1 \notin Nat \ S
  BY <1>2
<1>4. n - 1 + 1 \in S
  BY <1>3
<1> QED BY <1>2, <1>4

\* Induction over an interval, said of sets.
LEMMA Climb ==
  ASSUME NEW n \in Nat, NEW S, 1 \in S, \A i \in 1..(n - 1) : i \in S => i + 1 \in S
  PROVE  \A i \in 1..n : i \in S
<1> DEFINE U == {k \in Nat : k + 1 <= n => k + 1 \in S}
<1>1. 0 \in U
  OBVIOUS
<1>2. ASSUME NEW k \in U PROVE k + 1 \in U
  <2> SUFFICES ASSUME (k + 1) + 1 <= n PROVE (k + 1) + 1 \in S
    OBVIOUS
  <2>1. k + 1 \in 1..(n - 1) /\ k + 1 \in S
    OBVIOUS
  <2> QED BY <2>1
<1>3. U = Nat
  <2> HIDE DEF U
  <2>1. U \in SUBSET Nat
    BY DEF U
  <2> QED BY <1>1, <1>2, <2>1, NatInduct
<1>4. ASSUME NEW i \in 1..n PROVE i \in S
  <2>1. PICK k \in Nat : i = k + 1
    <3>1. i - 1 \in Nat /\ i = (i - 1) + 1
      OBVIOUS
    <3> QED BY <3>1
  <2>2. k \in U
    BY <1>3
  <2> QED BY <2>1, <2>2
<1> QED BY <1>4

\* g starts with a and each further value is a step from the one before.
Recurs(g, a, step) == g[0] = a /\ \A n \in Nat : g[n + 1] = step[n][g[n]]

\* A function defined by primitive recursion exists.
LEMMA NatRecursion ==
  ASSUME NEW S, NEW a \in S, NEW step \in [Nat -> [S -> S]]
  PROVE  \E g \in [Nat -> S] : Recurs(g, a, step)
<1> DEFINE Ok(h, n) == h[0] = a /\ \A m \in 0..(n - 1) : h[m + 1] = step[m][h[m]]
           T == {n \in Nat : \E h \in [0..n -> S] : Ok(h, n)}
           H(n) == CHOOSE h \in [0..n -> S] : Ok(h, n)
           g == [n \in Nat |-> H(n)[n]]
           U == {m \in Nat : \A n \in Nat : n >= m => H(n)[m] = H(m)[m]}
<1>1. 0 \in T
  <2>1. [m \in 0..0 |-> a] \in [0..0 -> S] /\ Ok([m \in 0..0 |-> a], 0)
    OBVIOUS
  <2> QED BY <2>1
<1>2. ASSUME NEW n \in T PROVE n + 1 \in T
  <2>1. PICK h \in [0..n -> S] : Ok(h, n)
    OBVIOUS
  <2> DEFINE k == [m \in 0..(n + 1) |-> IF m <= n THEN h[m] ELSE step[n][h[n]]]
  <2>2. h[n] \in S /\ step[n][h[n]] \in S
    OBVIOUS
  <2>3. k \in [0..(n + 1) -> S]
    BY <2>2
  <2>4. ASSUME NEW m \in 0..n PROVE k[m + 1] = step[m][k[m]]
    BY <2>1
  <2>5. k[0] = a
    BY <2>1
  <2>6. n \in Nat /\ n + 1 \in Nat /\ (n + 1) - 1 = n
    OBVIOUS
  <2> HIDE DEF k
  <2>7. Ok(k, n + 1)
    BY <2>4, <2>5, <2>6
  <2> QED BY <2>3, <2>6, <2>7
<1>3. T = Nat
  <2> HIDE DEF T
  <2>1. T \in SUBSET Nat
    BY DEF T
  <2> QED BY <1>1, <1>2, <2>1, NatInduct
<1>4. ASSUME NEW n \in Nat PROVE H(n) \in [0..n -> S] /\ Ok(H(n), n)
  BY <1>3
<1> HIDE DEF T, H
<1>5. 0 \in U
  BY <1>4
<1>6. ASSUME NEW m \in U PROVE m + 1 \in U
  <2>1. ASSUME NEW n \in Nat, n >= m + 1 PROVE H(n)[m + 1] = step[m][H(m)[m]]
    <3>1. m \in 0..(n - 1) /\ n >= m
      BY <2>1
    <3>2. H(n)[m + 1] = step[m][H(n)[m]]
      BY <1>4, <3>1
    <3> QED BY <3>1, <3>2
  <2>2. m \in Nat /\ m + 1 \in Nat
    OBVIOUS
  <2> QED BY <2>1, <2>2
<1>7. U = Nat
  <2> HIDE DEF U
  <2>1. U \in SUBSET Nat
    BY DEF U
  <2> QED BY <1>5, <1>6, <2>1, NatInduct
<1>8. g \in [Nat -> S] /\ g[0] = a
  BY <1>4
<1>9. ASSUME NEW n \in Nat PROVE g[n + 1] = step[n][g[n]]
  <2>1. H(n + 1)[n] = H(n)[n]
    <3>1. n \in U /\ n + 1 \in Nat /\ n + 1 >= n
      BY <1>7
    <3> QED BY <3>1
  <2>2. n \in 0..((n + 1) - 1) /\ n + 1 \in Nat
    OBVIOUS
  <2>3. H(n + 1)[n + 1] = step[n][H(n + 1)[n]]
    BY <1>4, <2>2
  <2> QED BY <2>1, <2>2, <2>3
<1> QED
  <2> HIDE DEF g
  <2>1. Recurs(g, a, step)
    BY <1>8, <1>9 DEF Recurs
  <2> QED BY <1>8, <2>1

\* g[k] is the sum of f over the members of S up to k.
SumsUp(g, f, S) ==
  /\ g \in [Nat -> Nat]
  /\ g[0] = 0
  /\ \A k \in Nat : g[k + 1] = g[k] + (IF k + 1 \in S THEN f[k + 1] ELSE 0)

PrefixSums(f, S) == CHOOSE g : SumsUp(g, f, S)

\* There are such sums.
LEMMA PrefixSumsExist ==
  ASSUME NEW f, NEW S, \A k \in S : f[k] \in Nat
  PROVE  SumsUp(PrefixSums(f, S), f, S)
<1> DEFINE step == [k \in Nat |-> [v \in Nat |-> v + (IF k + 1 \in S THEN f[k + 1] ELSE 0)]]
<1>1. step \in [Nat -> [Nat -> Nat]]
  OBVIOUS
<1>2. \A k, v \in Nat : step[k][v] = v + (IF k + 1 \in S THEN f[k + 1] ELSE 0)
  OBVIOUS
<1> HIDE DEF step
<1>3. PICK g \in [Nat -> Nat] : Recurs(g, 0, step)
  <2>1. 0 \in Nat
    OBVIOUS
  <2> QED BY <1>1, <2>1, NatRecursion
<1>4. SumsUp(g, f, S)
  BY <1>2, <1>3 DEF Recurs, SumsUp
<1> QED BY <1>4 DEF PrefixSums

\* Taking an index out of the set takes its term out of the sum.
LEMMA PrefixSumsWithout ==
  ASSUME NEW n \in Nat, NEW S \in SUBSET (1..n), NEW x \in S, NEW f, \A k \in S : f[k] \in Nat
  PROVE  PrefixSums(f, S)[n] = f[x] + PrefixSums(f, S \ {x})[n]
<1> DEFINE g == PrefixSums(f, S)
           h == PrefixSums(f, S \ {x})
           U == {k \in Nat : g[k] = h[k] + (IF x <= k THEN f[x] ELSE 0)}
<1>1. /\ g \in [Nat -> Nat] /\ g[0] = 0
      /\ \A k \in Nat : g[k + 1] = g[k] + (IF k + 1 \in S THEN f[k + 1] ELSE 0)
  <2>1. SumsUp(g, f, S)
    BY PrefixSumsExist
  <2> HIDE DEF g, U
  <2> QED BY <2>1 DEF SumsUp
<1>2. /\ h \in [Nat -> Nat] /\ h[0] = 0
      /\ \A k \in Nat : h[k + 1] = h[k] + (IF k + 1 \in S \ {x} THEN f[k + 1] ELSE 0)
  <2>1. \A k \in S \ {x} : f[k] \in Nat
    OBVIOUS
  <2>2. SumsUp(h, f, S \ {x})
    BY <2>1, PrefixSumsExist
  <2> QED BY <2>2 DEF SumsUp
<1> HIDE DEF g, h
<1>3. x \in 1..n /\ f[x] \in Nat
  OBVIOUS
<1>4. 0 \in U
  BY <1>1, <1>2, <1>3
<1>5. ASSUME NEW k \in U PROVE k + 1 \in U
  <2>1. g[k] = h[k] + (IF x <= k THEN f[x] ELSE 0) /\ k \in Nat /\ g[k] \in Nat /\ h[k] \in Nat
    BY <1>1, <1>2
  <2>2. CASE k + 1 = x
    <3>1. g[k] = h[k]
      BY <1>3, <2>1, <2>2
    <3>2. g[k + 1] = g[k] + f[x]
      BY <1>1, <2>1, <2>2
    <3>3. h[k + 1] = h[k]
      BY <1>2, <2>1, <2>2
    <3> QED BY <1>3, <2>1, <2>2, <3>1, <3>2, <3>3
  <2>3. CASE k + 1 # x
    <3>1. (x <= k + 1) <=> (x <= k)
      BY <1>3, <2>1, <2>3
    <3>2. PICK d \in Nat : g[k + 1] = g[k] + d /\ h[k + 1] = h[k] + d
      <4>1. CASE k + 1 \in S
        BY <1>1, <1>2, <2>1, <2>3, <4>1
      <4>2. CASE k + 1 \notin S
        BY <1>1, <1>2, <2>1, <2>3, <4>2
      <4> QED BY <4>1, <4>2
    <3>3. g[k + 1] = h[k + 1] + (IF x <= k + 1 THEN f[x] ELSE 0)
      BY <1>3, <2>1, <3>1, <3>2
    <3> QED BY <2>1, <3>3
  <2> QED BY <2>2, <2>3
<1>6. U = Nat
  <2> HIDE DEF U
  <2>1. U \in SUBSET Nat
    BY DEF U
  <2> QED BY <1>4, <1>5, <2>1, NatInduct
<1>7. g[n] = h[n] + f[x]
  BY <1>3, <1>6
<1>8. f[x] \in Nat /\ g[n] \in Nat /\ h[n] \in Nat
  BY <1>1, <1>2, <1>3
<1>9. f[x] \in Nat /\ g[n] = f[x] + h[n]
  BY <1>7, <1>8
<1> QED
  BY <1>9 DEF g, h

\* Nothing sums to 0.
LEMMA PrefixSumsOfNone ==
  ASSUME NEW f, NEW n \in Nat
  PROVE  PrefixSums(f, {})[n] = 0
<1> DEFINE g == PrefixSums(f, {})
           U == {k \in Nat : g[k] = 0}
<1>1. SumsUp(g, f, {})
  BY PrefixSumsExist
<1> HIDE DEF g
<1>2. 0 \in U /\ \A k \in U : k + 1 \in U
  BY <1>1 DEF SumsUp
<1>3. U = Nat
  <2> HIDE DEF U
  <2>1. U \in SUBSET Nat
    BY DEF U
  <2> QED BY <1>2, <2>1, NatInduct
<1> QED
  BY <1>3 DEF g

\* Over a set of indices, the library's sum does not depend on the order in
\* which it takes them.
LEMMA SumIsPrefixSum ==
  ASSUME NEW n \in Nat, NEW S \in SUBSET (1..n), NEW f, \A k \in S : f[k] \in Nat
  PROVE  SumFunctionOnSet(f, S) = PrefixSums(f, S)[n]
<1> DEFINE G(s) == PrefixSums(f, s)[n]
           pick(s) == CHOOSE x \in s : TRUE
           Iter(g) == g = [s \in SUBSET S |-> IF s = {} THEN 0 ELSE f[pick(s)] + g[s \ {pick(s)}]]
           whole == [s \in SUBSET S |-> G(s)]
<1>1. SumFunctionOnSet(f, S) = (CHOOSE g : Iter(g))[S]
  BY DEF SumFunctionOnSet, FoldFunctionOnSet, MapThenFoldSet
<1>2. G({}) = 0
  BY PrefixSumsOfNone
<1>3. ASSUME NEW s \in SUBSET S, s # {}
      PROVE  pick(s) \in s /\ G(s) = f[pick(s)] + G(s \ {pick(s)})
  <2>1. pick(s) \in s
    BY <1>3
  <2>2. \A k \in s : f[k] \in Nat
    OBVIOUS
  <2>3. s \in SUBSET (1..n)
    OBVIOUS
  <2> HIDE DEF pick
  <2>4. \A p \in s : PrefixSums(f, s)[n] = f[p] + PrefixSums(f, s \ {p})[n]
    <3> TAKE p \in s
    <3>1. \E v \in Nat : v = f[p] /\ PrefixSums(f, s)[n] = v + PrefixSums(f, s \ {p})[n]
      BY <2>2, <2>3, PrefixSumsWithout
    <3> QED BY <3>1
  <2> QED BY <2>1, <2>4
<1> HIDE DEF G, pick
<1>4. Iter(whole)
  <2>1. ASSUME NEW s \in SUBSET S
        PROVE  G(s) = IF s = {} THEN 0 ELSE f[pick(s)] + whole[s \ {pick(s)}]
    <3>1. CASE s = {}
      BY <1>2, <3>1
    <3>2. CASE s # {}
      <4>1. whole[s \ {pick(s)}] = G(s \ {pick(s)})
        OBVIOUS
      <4> QED BY <1>3, <3>2, <4>1
    <3> QED BY <3>1, <3>2
  <2> HIDE DEF whole
  <2>2. [s \in SUBSET S |-> G(s)] = [s \in SUBSET S |-> IF s = {} THEN 0 ELSE f[pick(s)] + whole[s \ {pick(s)}]]
    BY <2>1, Zenon
  <2> QED BY <2>2, Zenon DEF whole
<1> DEFINE iter == CHOOSE g : Iter(g)
<1>5. Iter(iter)
  <2> HIDE DEF Iter
  <2> QED BY <1>4
<1>6. \A s \in SUBSET S : iter[s] = IF s = {} THEN 0 ELSE f[pick(s)] + iter[s \ {pick(s)}]
  <2> HIDE DEF iter
  <2>1. iter = [s \in SUBSET S |-> IF s = {} THEN 0 ELSE f[pick(s)] + iter[s \ {pick(s)}]]
    BY <1>5
  <2> QED BY <2>1, Zenon
<1> HIDE DEF Iter, whole
<1>7. ASSUME NEW s \in SUBSET S PROVE IsFiniteSet(s) /\ Cardinality(s) \in Nat
  <2>1. IsFiniteSet(1..n)
    BY FS_Interval
  <2>2. s \subseteq 1..n
    OBVIOUS
  <2> QED BY <2>1, <2>2, FS_Subset, FS_CardinalityType
<1> DEFINE W == {Cardinality(s) : s \in {t \in SUBSET S : iter[t] # G(t)}}
<1>8. W = {}
  <2> SUFFICES ASSUME W # {} PROVE FALSE
    OBVIOUS
  <2>1. W \in SUBSET Nat
    BY <1>7
  <2> HIDE DEF iter
  <2>2. PICK c \in W : \A d \in W : c <= d
    <3> HIDE DEF W
    <3> QED BY <2>1, LeastNat
  <2>3. PICK s \in SUBSET S : iter[s] # G(s) /\ Cardinality(s) = c
    OBVIOUS
  <2>4. s # {}
    BY <1>2, <1>6, <2>3
  <2> DEFINE r == s \ {pick(s)}
  <2>5. r \in SUBSET S /\ pick(s) \in s
    BY <1>3, <2>4
  <2>6. Cardinality(r) = Cardinality(s) - 1
    BY <1>7, <2>5, FS_RemoveElement
  <2>7. iter[r] = G(r)
    <3> SUFFICES ASSUME iter[r] # G(r) PROVE FALSE
      OBVIOUS
    <3>1. Cardinality(r) \in W
      BY <2>5
    <3>2. c <= Cardinality(r)
      BY <2>2, <3>1
    <3> QED BY <1>7, <2>3, <2>5, <2>6, <3>2
  <2>8. iter[s] = f[pick(s)] + iter[r]
    BY <1>6, <2>4
  <2>9. G(s) = f[pick(s)] + G(r)
    BY <1>3, <2>4
  <2> QED BY <2>3, <2>7, <2>8, <2>9
<1>9. iter[S] = G(S)
  BY <1>8
<1> QED
  BY <1>1, <1>9 DEF G

\* The same of the library's sum.
LEMMA SumOfNone ==
  ASSUME NEW f
  PROVE  SumFunctionOnSet(f, {}) = 0
<1>1. {} \in SUBSET (1..0) /\ 0 \in Nat
  OBVIOUS
<1> QED BY <1>1, SumIsPrefixSum, PrefixSumsOfNone

\* The library's sum is a natural number and gains each index's term.
LEMMA SumWithout ==
  ASSUME NEW n \in Nat, NEW S \in SUBSET (1..n), NEW f, \A k \in S : f[k] \in Nat
  PROVE  /\ SumFunctionOnSet(f, S) \in Nat
         /\ \A x \in S : SumFunctionOnSet(f, S) = f[x] + SumFunctionOnSet(f, S \ {x})
<1>1. SumFunctionOnSet(f, S) = PrefixSums(f, S)[n]
  BY SumIsPrefixSum
<1>2. PrefixSums(f, S)[n] \in Nat
  <2>1. PrefixSums(f, S) \in [Nat -> Nat]
    BY PrefixSumsExist DEF SumsUp
  <2> QED BY <2>1
<1>3. ASSUME NEW x \in S PROVE SumFunctionOnSet(f, S) = f[x] + SumFunctionOnSet(f, S \ {x})
  <2>1. PrefixSums(f, S)[n] = f[x] + PrefixSums(f, S \ {x})[n]
    <3>1. \E v \in Nat : v = f[x] /\ PrefixSums(f, S)[n] = v + PrefixSums(f, S \ {x})[n]
      BY PrefixSumsWithout
    <3> QED BY <3>1
  <2>2. S \ {x} \in SUBSET (1..n) /\ \A k \in S \ {x} : f[k] \in Nat
    OBVIOUS
  <2>3. SumFunctionOnSet(f, S \ {x}) = PrefixSums(f, S \ {x})[n]
    BY <2>2, SumIsPrefixSum
  <2> QED BY <1>1, <2>1, <2>3
<1> QED BY <1>1, <1>2, <1>3

\* Where the words of a concatenation come from.
LEMMA ConcatPlaces ==
  ASSUME NEW S, NEW a \in Seq(S), NEW b \in Seq(S)
  PROVE  /\ a \o b \in Seq(S)
         /\ Len(a \o b) = Len(a) + Len(b)
         /\ \A p \in 1..Len(a) : (a \o b)[p] = a[p]
         /\ \A p \in 1..Len(b) : (a \o b)[Len(a) + p] = b[p]
OBVIOUS

\* The library's concatenation, part by part.
LEMMA FlattenUnfolds ==
  ASSUME NEW S, NEW ss \in Seq(Seq(S)), ss # <<>>
  PROVE  \E g \in [1..Len(ss) -> Seq(S)] :
           /\ FlattenSeq(ss) = g[Len(ss)]
           /\ g[1] = ss[1]
           /\ \A i \in 2..Len(ss) : g[i] = g[i - 1] \o ss[i]
<1> DEFINE n == Len(ss)
           word(k) == IF k \in 1..n THEN ss[k] ELSE <<>>
           step == [k \in Nat |-> [v \in Seq(S) |-> v \o word(k + 1)]]
           Def(g, i) == IF i = 1 THEN ss[i] ELSE g[i - 1] \o ss[i]
           Iter(g) == g = [i \in 1..n |-> Def(g, i)]
           iter == CHOOSE g : Iter(g)
<1>1. n \in Nat /\ n # 0 /\ \A k \in 1..n : ss[k] \in Seq(S)
  BY EmptySeq
<1>2. FlattenSeq(ss) = iter[n]
  BY <1>1 DEF FlattenSeq
<1>3. <<>> \in Seq(S)
  OBVIOUS
<1>4. \A k \in Nat : word(k) \in Seq(S)
  BY <1>1, <1>3
<1> HIDE DEF n, word
<1>5. step \in [Nat -> [Seq(S) -> Seq(S)]]
  <2>1. ASSUME NEW k \in Nat, NEW v \in Seq(S) PROVE v \o word(k + 1) \in Seq(S)
    <3>1. word(k + 1) \in Seq(S)
      BY <1>4
    <3> QED BY <3>1, ConcatProperties
  <2> QED BY <2>1
<1>6. \A k \in Nat, v \in Seq(S) : step[k][v] = v \o word(k + 1)
  OBVIOUS
<1> HIDE DEF step
<1>7. PICK g \in [Nat -> Seq(S)] : Recurs(g, <<>>, step)
  BY <1>3, <1>5, NatRecursion
<1> DEFINE h == [i \in 1..n |-> g[i]]
<1>8. ASSUME NEW i \in 1..n PROVE g[i] = Def(h, i)
  <2>1. i \in Nat /\ i - 1 \in Nat /\ i = (i - 1) + 1
    BY <1>1
  <2>2. g[i - 1] \in Seq(S) /\ g[i] = g[i - 1] \o ss[i]
    BY <1>6, <1>7, <2>1 DEF Recurs, word
  <2>3. CASE i = 1
    <3>1. i - 1 = 0 /\ g[0] = <<>>
      BY <1>7, <2>3 DEF Recurs
    <3>2. ss[i] \in Seq(S) /\ g[i] = <<>> \o ss[i]
      BY <1>1, <2>2, <3>1
    <3>3. <<>> \o ss[i] = ss[i]
      BY <3>2
    <3> QED BY <2>3, <3>2, <3>3
  <2>4. CASE i # 1
    <3>1. i - 1 \in 1..n
      BY <1>1, <2>4
    <3> QED BY <2>2, <2>4, <3>1
  <2> QED BY <2>3, <2>4
<1>9. Iter(h)
  <2> HIDE DEF Def
  <2> QED BY <1>8
<1>10. Iter(iter)
  <2> HIDE DEF Iter
  <2> QED BY <1>9
<1> HIDE DEF iter
<1>11. \A i \in 1..n : iter[i] = IF i = 1 THEN ss[i] ELSE iter[i - 1] \o ss[i]
  <2>1. iter = [i \in 1..n |-> IF i = 1 THEN ss[i] ELSE iter[i - 1] \o ss[i]]
    BY <1>10
  <2> QED BY <2>1, Zenon
<1>12. iter[1] = ss[1]
  <2>1. 1 \in 1..n
    BY <1>1
  <2> QED BY <1>11, <2>1
<1>13. \A i \in 2..n : iter[i] = iter[i - 1] \o ss[i]
  <2> TAKE i \in 2..n
  <2>1. i \in 1..n /\ i # 1
    BY <1>1
  <2> QED BY <1>11, <2>1
<1>14. \A i \in 1..n : iter[i] \in Seq(S)
  <2> DEFINE U == {i \in 1..n : iter[i] \in Seq(S)}
  <2>1. 1 \in U
    BY <1>1, <1>12, SMTT(30)
  <2>2. ASSUME NEW i \in 1..(n - 1), i \in U PROVE i + 1 \in U
    <3>1. i + 1 \in 2..n /\ i + 1 \in 1..n /\ (i + 1) - 1 = i
      BY <1>1
    <3>2. iter[i + 1] = iter[i] \o ss[i + 1]
      BY <1>13, <3>1
    <3>3. iter[i] \in Seq(S) /\ ss[i + 1] \in Seq(S)
      BY <1>1, <2>2, <3>1
    <3>4. PICK a \in Seq(S), b \in Seq(S) : a = iter[i] /\ b = ss[i + 1]
      BY <3>3
    <3>5. a \o b \in Seq(S)
      BY ConcatPlaces
    <3> QED BY <3>1, <3>2, <3>4, <3>5
  <2> HIDE DEF U
  <2>3. \A i \in 1..n : i \in U
    BY <1>1, <2>1, <2>2, Climb
  <2> QED BY <2>3 DEF U
<1>15. iter \in [1..n -> Seq(S)]
  <2>1. iter = [i \in 1..n |-> Def(iter, i)]
    BY <1>10
  <2>2. iter = [i \in 1..n |-> iter[i]]
    <3> HIDE DEF Def
    <3> QED BY <2>1
  <2> QED BY <1>14, <2>2
<1> QED
  BY <1>2, <1>12, <1>13, <1>15 DEF n

\* start[k] is where the k-th of the concatenated sequences begins.
Starts(start, ss) ==
  /\ start \in [1..(Len(ss) + 1) -> Nat]
  /\ start[1] = 0
  /\ \A k \in 1..Len(ss) : start[k + 1] = start[k] + Len(ss[k])

\* Starts only grow.
LEMMA StartsGrow ==
  ASSUME NEW S, NEW ss \in Seq(Seq(S)), NEW start, Starts(start, ss)
  PROVE  /\ \A i \in 1..(Len(ss) + 1) : start[i] \in Nat
         /\ \A i \in 1..(Len(ss) + 1) : \A k \in 1..(i - 1) :
              start[k] + Len(ss[k]) <= start[i]
<1>1. PICK n \in Nat : n = Len(ss)
  OBVIOUS
<1>2. /\ \A i \in 1..(n + 1) : start[i] \in Nat
      /\ \A k \in 1..n : Len(ss[k]) \in Nat /\ start[k + 1] = start[k] + Len(ss[k])
  <2>1. \A k \in 1..n : Len(ss[k]) \in Nat
    BY <1>1
  <2> QED BY <1>1, <2>1 DEF Starts
<1> DEFINE U == {i \in 1..(n + 1) : \A k \in 1..(i - 1) : start[k] + Len(ss[k]) <= start[i]}
<1>3. 1 \in U
  OBVIOUS
<1>4. ASSUME NEW i \in 1..((n + 1) - 1), i \in U PROVE i + 1 \in U
  <2>1. i \in 1..n /\ i \in 1..(n + 1) /\ i + 1 \in 1..(n + 1) /\ start[i] \in Nat
    BY <1>2
  <2>2. start[i + 1] = start[i] + Len(ss[i]) /\ Len(ss[i]) \in Nat
    BY <1>2, <2>1
  <2>3. ASSUME NEW k \in 1..i PROVE start[k] + Len(ss[k]) <= start[i + 1]
    <3>1. CASE k = i
      BY <2>1, <2>2, <3>1
    <3>2. CASE k # i
      <4>1. k \in 1..(i - 1) /\ k \in 1..n /\ k \in 1..(n + 1)
        BY <2>1, <3>2
      <4>2. start[k] + Len(ss[k]) <= start[i] /\ start[k] \in Nat /\ Len(ss[k]) \in Nat
        BY <1>2, <1>4, <4>1
      <4> QED BY <2>1, <2>2, <4>2, SMTT(30)
    <3> QED BY <3>1, <3>2
  <2>4. (i + 1) - 1 = i
    BY <2>1
  <2> QED BY <2>1, <2>3, <2>4
<1>5. \A i \in 1..(n + 1) : i \in U
  <2> HIDE DEF U
  <2>1. n + 1 \in Nat
    OBVIOUS
  <2> QED BY <1>3, <1>4, <2>1, Climb
<1> QED
  BY <1>1, <1>2, <1>5

\* f consists of the sequences ss, each at its start.
Joined(f, start, ss) ==
  /\ Len(f) = start[Len(ss) + 1]
  /\ \A k \in 1..Len(ss) : \A j \in 1..Len(ss[k]) : f[start[k] + j] = ss[k][j]

\* Where the words of a concatenation come from, for every number of parts.
LEMMA FlattenPlaces ==
  ASSUME NEW S, NEW ss \in Seq(Seq(S)), NEW start, Starts(start, ss)
  PROVE  /\ FlattenSeq(ss) \in Seq(S)
         /\ Joined(FlattenSeq(ss), start, ss)
<1>0. PICK n \in Nat : n = Len(ss)
  OBVIOUS
<1>1. /\ \A k \in 1..n : ss[k] \in Seq(S) /\ Len(ss[k]) \in Nat
      /\ start[1] = 0
      /\ \A k \in 1..n : start[k + 1] = start[k] + Len(ss[k])
  BY <1>0 DEF Starts
<1>2. /\ \A i \in 1..(n + 1) : start[i] \in Nat
      /\ \A i \in 1..(n + 1) : \A k \in 1..(i - 1) : start[k] + Len(ss[k]) <= start[i]
  BY <1>0, StartsGrow
<1>3. CASE ss = <<>>
  BY <1>1, <1>3 DEF FlattenSeq, Joined
<1>4. CASE ss # <<>>
  <2>0. n # 0
    BY <1>0, <1>4, EmptySeq
  <2>1. PICK g \in [1..n -> Seq(S)] :
           /\ FlattenSeq(ss) = g[n]
           /\ g[1] = ss[1]
           /\ \A i \in 2..n : g[i] = g[i - 1] \o ss[i]
    BY <1>0, <1>4, FlattenUnfolds
  <2> DEFINE Good(i) == /\ Len(g[i]) = start[i + 1]
                        /\ \A k \in 1..i : \A j \in 1..Len(ss[k]) : g[i][start[k] + j] = ss[k][j]
             U == {i \in 1..n : Good(i)}
  <2>2. 1 \in U
    <3>1. 1 \in 1..n /\ start[1 + 1] = 0 + Len(ss[1]) /\ Len(ss[1]) \in Nat
      BY <1>1, <2>0, SMTT(30)
    <3>2. Len(g[1]) = start[1 + 1]
      BY <2>1, <3>1
    <3>3. ASSUME NEW k \in 1..1, NEW j \in 1..Len(ss[k]) PROVE g[1][start[k] + j] = ss[k][j]
      BY <1>1, <2>1, <3>1, SMTT(30)
    <3> QED BY <3>1, <3>2, <3>3
  <2>3. ASSUME NEW m \in 1..(n - 1), m \in U PROVE m + 1 \in U
    <3>1. PICK i \in 2..n : i = m + 1 /\ i \in 1..n /\ i - 1 = m /\ i \in Nat
      OBVIOUS
    <3>2. Good(m)
      BY <2>3
    <3>3. PICK a \in Seq(S), b \in Seq(S) : a = g[m] /\ b = ss[i] /\ g[i] = a \o b
      <4>1. m \in 1..n /\ g[m] \in Seq(S) /\ ss[i] \in Seq(S)
        BY <1>1, <2>1, <3>1
      <4>2. g[i] = g[m] \o ss[i]
        BY <2>1, <3>1
      <4> QED BY <4>1, <4>2
    <3>4. Len(a) = start[i] /\ start[i + 1] = start[i] + Len(b) /\ start[i] \in Nat
      <4>1. start[i] \in Nat /\ start[i + 1] = start[i] + Len(ss[i])
        BY <1>1, <1>2, <3>1
      <4>2. Len(g[m]) = start[i]
        BY <3>1, <3>2
      <4> QED BY <3>3, <4>1, <4>2
    <3>5. /\ Len(g[i]) = Len(a) + Len(b)
          /\ \A p \in 1..Len(a) : g[i][p] = a[p]
          /\ \A p \in 1..Len(b) : g[i][Len(a) + p] = b[p]
      <4>1. /\ Len(a \o b) = Len(a) + Len(b)
            /\ \A p \in 1..Len(a) : (a \o b)[p] = a[p]
            /\ \A p \in 1..Len(b) : (a \o b)[Len(a) + p] = b[p]
        BY ConcatPlaces
      <4> HIDE DEF U
      <4> QED BY <3>3, <4>1
    <3>6. ASSUME NEW k \in 1..i, NEW j \in 1..Len(ss[k]) PROVE g[i][start[k] + j] = ss[k][j]
      <4>1. CASE k = i
        BY <3>3, <3>4, <3>5, <4>1
      <4>2. CASE k # i
        <5>1. k \in 1..m /\ k \in 1..(i - 1) /\ k \in 1..n /\ i \in 1..(n + 1) /\ k \in 1..(n + 1)
          BY <3>1, <4>2
        <5>2. a[start[k] + j] = ss[k][j]
          BY <3>2, <3>3, <5>1
        <5>3. start[k] + Len(ss[k]) <= start[i] /\ start[k] \in Nat /\ Len(ss[k]) \in Nat
          BY <1>1, <1>2, <5>1
        <5>4. start[k] + j \in 1..Len(a)
          <6>1. PICK x, y, z \in Nat : x = start[k] /\ y = Len(ss[k]) /\ z = start[i]
            BY <3>4, <5>3
          <6>2. j \in 1..y /\ x + y <= z /\ Len(a) = z
            BY <3>4, <5>3, <6>1
          <6>3. x + j \in 1..z
            BY <6>2
          <6> QED BY <6>1, <6>2, <6>3
        <5> QED BY <3>5, <5>2, <5>4
      <4> QED BY <4>1, <4>2
    <3>7. Len(g[i]) = start[i + 1]
      BY <3>4, <3>5
    <3> QED BY <3>1, <3>6, <3>7
  <2>4. \A i \in 1..n : i \in U
    <3> HIDE DEF U
    <3> QED BY <2>2, <2>3, Climb
  <2>5. Good(n)
    <3>1. n \in 1..n
      BY <2>0
    <3> QED BY <2>4, <3>1
  <2> QED BY <1>0, <2>0, <2>1, <2>5 DEF Joined
<1> QED BY <1>3, <1>4

\* Position p of a concatenation belongs to one of its parts.
InPart(start, ss, p) == \E k \in 1..Len(ss) : \E j \in 1..Len(ss[k]) : p = start[k] + j

\* Every word of a concatenation is a word of one of its parts.
LEMMA StartsCover ==
  ASSUME NEW S, NEW ss \in Seq(Seq(S)), NEW start, Starts(start, ss)
  PROVE  \A p \in 1..start[Len(ss) + 1] : InPart(start, ss, p)
<1>1. PICK n \in Nat : n = Len(ss)
  OBVIOUS
<1>2. /\ \A i \in 1..(n + 1) : start[i] \in Nat
      /\ start[1] = 0
      /\ \A k \in 1..n : Len(ss[k]) \in Nat /\ start[k + 1] = start[k] + Len(ss[k])
  <2>1. \A k \in 1..n : Len(ss[k]) \in Nat
    BY <1>1
  <2> QED BY <1>1, <2>1 DEF Starts
<1> DEFINE Covered(p) == \E k \in 1..n : \E j \in 1..Len(ss[k]) : p = start[k] + j
           U == {i \in 1..(n + 1) : \A p \in 1..start[i] : Covered(p)}
<1>3. 1 \in U
  BY <1>2
<1>4. ASSUME NEW i \in 1..((n + 1) - 1), i \in U PROVE i + 1 \in U
  <2>1. i \in 1..n /\ i \in 1..(n + 1) /\ i + 1 \in 1..(n + 1)
    OBVIOUS
  <2>2. PICK x, y \in Nat : x = start[i] /\ y = Len(ss[i]) /\ start[i + 1] = x + y
    BY <1>2, <2>1
  <2>3. ASSUME NEW p \in 1..(x + y) PROVE Covered(p)
    <3>1. CASE p <= x
      <4>1. p \in 1..start[i]
        BY <2>2, <3>1
      <4> QED BY <1>4, <4>1
    <3>2. CASE ~(p <= x)
      <4>1. p - x \in 1..y /\ p = x + (p - x)
        BY <3>2
      <4>2. \E j \in 1..Len(ss[i]) : p = start[i] + j
        BY <2>2, <4>1
      <4> QED BY <2>1, <4>2
    <3> QED BY <3>1, <3>2
  <2> HIDE DEF Covered
  <2> QED BY <2>1, <2>2, <2>3
<1>5. \A i \in 1..(n + 1) : i \in U
  <2> HIDE DEF U
  <2>1. n + 1 \in Nat
    OBVIOUS
  <2> QED BY <1>3, <1>4, <2>1, Climb
<1>6. n + 1 \in 1..(n + 1)
  OBVIOUS
<1> QED BY <1>1, <1>5, <1>6 DEF InPart

\* Multiples of a pair's width.
LEMMA TimesStep ==
  \A a \in Nat, s \in 0..6 : a * s \in Nat /\ (a + 1) * s = a * s + s
<1> TAKE a \in Nat, s \in 0..6
<1>1. s = 0 \/ s = 1 \/ s = 2 \/ s = 3 \/ s = 4 \/ s = 5 \/ s = 6
  OBVIOUS
<1> QED BY <1>1

\* The sum of f over the members of S before k, and how it grows with k.
SumBefore(f, S, k) == SumFunctionOnSet(f, {j \in S : j < k})

SumGrows(f, S, n) ==
  /\ SumBefore(f, S, 1) = 0
  /\ SumBefore(f, S, n + 1) = SumFunctionOnSet(f, S)
  /\ \A k \in 1..(n + 1) : SumBefore(f, S, k) \in Nat
  /\ \A k \in S : SumBefore(f, S, k + 1) = SumBefore(f, S, k) + f[k]
  /\ \A k \in 1..n \ S : SumBefore(f, S, k + 1) = SumBefore(f, S, k)

\* A sum taken index by index.
LEMMA SumUpTo ==
  ASSUME NEW n \in Nat, NEW S \in SUBSET (1..n), NEW f, \A k \in S : f[k] \in Nat
  PROVE  SumGrows(f, S, n)
<1>0. \A j \in S : j \in 1..n
  OBVIOUS
<1>1. {j \in S : j < 1} = {} /\ {j \in S : j < n + 1} = S
  <2>1. \A j \in S : ~(j < 1) /\ j < n + 1
    BY <1>0
  <2> QED BY <2>1
<1>2. \A k \in 1..(n + 1) : SumBefore(f, S, k) \in Nat
  <2> TAKE k \in 1..(n + 1)
  <2>1. PICK T \in SUBSET (1..n) : T = {j \in S : j < k} /\ \A x \in T : f[x] \in Nat
    OBVIOUS
  <2>2. SumFunctionOnSet(f, T) \in Nat
    BY <2>1, SumWithout
  <2> QED BY <2>1, <2>2 DEF SumBefore
<1>3. ASSUME NEW k \in S PROVE SumBefore(f, S, k + 1) = SumBefore(f, S, k) + f[k]
  <2>0. k \in 1..(n + 1) /\ f[k] \in Nat
    BY <1>0
  <2>1. PICK x, y \in Nat : x = f[k] /\ y = SumBefore(f, S, k)
    BY <1>2, <2>0
  <2>2. PICK T \in SUBSET (1..n) : T = {j \in S : j < k + 1}
    OBVIOUS
  <2>3. k \in T /\ \A j \in T : f[j] \in Nat
    BY <1>0, <2>2
  <2>4. T \ {k} = {j \in S : j < k}
    <3>1. \A j \in S : j < k <=> (j < k + 1 /\ j # k)
      BY <1>0
    <3> QED BY <2>2, <3>1
  <2>5. SumFunctionOnSet(f, T) = f[k] + SumFunctionOnSet(f, T \ {k})
    BY <2>3, SumWithout
  <2>6. SumBefore(f, S, k + 1) = x + y
    BY <2>1, <2>2, <2>4, <2>5 DEF SumBefore
  <2> QED BY <2>1, <2>6
<1>4. ASSUME NEW k \in 1..n \ S PROVE SumBefore(f, S, k + 1) = SumBefore(f, S, k)
  <2>1. \A j \in S : j < k + 1 <=> j < k
    BY <1>0
  <2>2. {j \in S : j < k + 1} = {j \in S : j < k}
    BY <2>1
  <2> QED BY <2>2 DEF SumBefore
<1>5. SumBefore(f, S, 1) = 0 /\ SumBefore(f, S, n + 1) = SumFunctionOnSet(f, S)
  BY <1>1, SumOfNone DEF SumBefore
<1> QED BY <1>2, <1>3, <1>4, <1>5 DEF SumGrows

\* The sum over one index, or two.
LEMMA SumOfLanes ==
  ASSUME NEW L \in {1, 2}, NEW h, \A l \in 1..L : h[l] \in Nat
  PROVE  SumFunctionOnSet(h, 1..L) = IF L = 1 THEN h[1] ELSE h[1] + h[2]
<1>1. SumGrows(h, 1..L, L)
  BY SumUpTo
<1>2. 1 \in 1..L /\ SumBefore(h, 1..L, 1 + 1) = 0 + h[1] /\ h[1] \in Nat
  BY <1>1 DEF SumGrows
<1>3. CASE L = 1
  BY <1>1, <1>2, <1>3 DEF SumGrows
<1>4. CASE L = 2
  <2>1. 2 \in 1..L /\ SumBefore(h, 1..L, 2 + 1) = SumBefore(h, 1..L, 2) + h[2] /\ h[2] \in Nat
    BY <1>1, <1>4 DEF SumGrows
  <2> QED BY <1>1, <1>2, <1>4, <2>1 DEF SumGrows
<1> QED BY <1>3, <1>4

\* A function whose values do not fall from one index to the next.
LEMMA Nondecreasing ==
  ASSUME NEW n \in Nat, NEW g \in [1..(n + 1) -> Nat], \A k \in 1..n : g[k] <= g[k + 1]
  PROVE  \A i \in 1..(n + 1) : \A k \in 1..i : g[k] <= g[i]
<1> DEFINE U == {i \in 1..(n + 1) : \A k \in 1..i : g[k] <= g[i]}
<1>1. 1 \in U
  OBVIOUS
<1>2. ASSUME NEW i \in 1..((n + 1) - 1), i \in U PROVE i + 1 \in U
  <2>1. i \in 1..n /\ i \in 1..(n + 1) /\ i + 1 \in 1..(n + 1)
    OBVIOUS
  <2>2. g[i] <= g[i + 1] /\ g[i] \in Nat /\ g[i + 1] \in Nat
    BY <2>1
  <2>3. ASSUME NEW k \in 1..(i + 1) PROVE g[k] <= g[i + 1]
    <3>1. CASE k = i + 1
      BY <2>2, <3>1
    <3>2. CASE k # i + 1
      <4>1. k \in 1..i /\ k \in 1..(n + 1) /\ g[k] \in Nat
        BY <2>1, <3>2
      <4>2. g[k] <= g[i]
        BY <1>2, <4>1
      <4> QED BY <2>2, <4>1, <4>2
    <3> QED BY <3>1, <3>2
  <2> QED BY <2>1, <2>3
<1>3. \A i \in 1..(n + 1) : i \in U
  <2> HIDE DEF U
  <2>1. n + 1 \in Nat
    OBVIOUS
  <2> QED BY <1>1, <1>2, <2>1, Climb
<1> QED BY <1>3

\* A sum of lesser terms is not greater.
LEMMA SumNotGreater ==
  ASSUME NEW n \in Nat, NEW S \in SUBSET (1..n), NEW f, NEW g,
         \A k \in S : f[k] \in Nat /\ g[k] \in Nat /\ f[k] <= g[k]
  PROVE  SumFunctionOnSet(f, S) <= SumFunctionOnSet(g, S)
<1>1. SumGrows(f, S, n) /\ SumGrows(g, S, n)
  BY SumUpTo
<1> DEFINE U == {k \in 1..(n + 1) : SumBefore(f, S, k) <= SumBefore(g, S, k)}
<1>2. 1 \in U
  BY <1>1 DEF SumGrows
<1>3. ASSUME NEW k \in 1..((n + 1) - 1), k \in U PROVE k + 1 \in U
  <2>1. k \in 1..n /\ k + 1 \in 1..(n + 1) /\ k \in 1..(n + 1)
    OBVIOUS
  <2>2. PICK x, y \in Nat : x = SumBefore(f, S, k) /\ y = SumBefore(g, S, k) /\ x <= y
    BY <1>1, <1>3, <2>1 DEF SumGrows
  <2>3. CASE k \in S
    <3>1. SumBefore(f, S, k + 1) = x + f[k] /\ SumBefore(g, S, k + 1) = y + g[k]
      BY <1>1, <2>2, <2>3 DEF SumGrows
    <3>2. f[k] \in Nat /\ g[k] \in Nat /\ f[k] <= g[k]
      BY <2>3
    <3>3. x + f[k] <= y + g[k]
      BY <2>2, <3>2
    <3> QED BY <2>1, <3>1, <3>3
  <2>4. CASE k \notin S
    <3>1. SumBefore(f, S, k + 1) = x /\ SumBefore(g, S, k + 1) = y
      BY <1>1, <2>1, <2>2, <2>4 DEF SumGrows
    <3> QED BY <2>1, <2>2, <3>1
  <2> QED BY <2>3, <2>4
<1> HIDE DEF U
<1>4. \A k \in 1..(n + 1) : k \in U
  BY <1>2, <1>3, Climb
<1>5. n + 1 \in U
  BY <1>4
<1> QED BY <1>1, <1>5 DEF U, SumGrows

\* It is less when one of its terms is.
LEMMA SumLess ==
  ASSUME NEW n \in Nat, NEW S \in SUBSET (1..n), NEW f, NEW g,
         \A k \in S : f[k] \in Nat /\ g[k] \in Nat /\ f[k] <= g[k],
         NEW x \in S, f[x] < g[x]
  PROVE  SumFunctionOnSet(f, S) < SumFunctionOnSet(g, S)
<1>1. PICK T \in SUBSET (1..n) : T = S \ {x} /\ \A k \in T : f[k] \in Nat /\ g[k] \in Nat /\ f[k] <= g[k]
  OBVIOUS
<1>2. PICK a, b \in Nat : a = SumFunctionOnSet(f, T) /\ b = SumFunctionOnSet(g, T)
  BY <1>1, SumWithout
<1>3. a <= b
  BY <1>1, <1>2, SumNotGreater
<1>4. SumFunctionOnSet(f, S) = f[x] + a
  <2>1. \A k \in S : f[k] \in Nat
    OBVIOUS
  <2>2. SumFunctionOnSet(f, S) = f[x] + SumFunctionOnSet(f, S \ {x})
    BY <2>1, SumWithout
  <2> QED BY <1>1, <1>2, <2>2
<1>5. SumFunctionOnSet(g, S) = g[x] + b
  <2>1. \A k \in S : g[k] \in Nat
    OBVIOUS
  <2>2. SumFunctionOnSet(g, S) = g[x] + SumFunctionOnSet(g, S \ {x})
    BY <2>1, SumWithout
  <2> QED BY <1>1, <1>2, <2>2
<1>6. f[x] + a < g[x] + b
  BY <1>2, <1>3
<1> QED BY <1>4, <1>5, <1>6

\* The tail of a slice, as the views take it.
LEMMA TailWords ==
  ASSUME NEW words \in Seq(Nat), NEW m \in Nat, m <= Len(words)
  PROVE  /\ SubSeq(words, m + 1, Len(words)) \in Seq(Nat)
         /\ Len(SubSeq(words, m + 1, Len(words))) = Len(words) - m
         /\ \A j \in 1..(Len(words) - m) : SubSeq(words, m + 1, Len(words))[j] = words[m + j]
<1>1. PICK n \in Nat : n = Len(words)
  OBVIOUS
<1>2. \A j \in (m + 1)..n : j \in 1..n
  OBVIOUS
<1>3. PICK t : t = SubSeq(words, m + 1, n)
  OBVIOUS
<1>4. t \in Seq(Nat) /\ Len(t) = n - m /\ \A j \in 1..(n - m) : t[j] = words[m + j]
  BY <1>1, <1>2, <1>3, SubSeqProperties
<1> QED BY <1>1, <1>3, <1>4

\* Words that stand somewhere in a slice begin the slice's tail from there.
LEMMA PrefixAt ==
  ASSUME NEW words \in Seq(Nat), NEW m \in Nat, NEW v \in Seq(Nat),
         m + Len(v) <= Len(words), \A j \in 1..Len(v) : words[m + j] = v[j]
  PROVE  IsPrefix(v, SubSeq(words, m + 1, Len(words)))
<1>1. PICK l, n \in Nat : l = Len(v) /\ n = Len(words) /\ m + l <= n
  OBVIOUS
<1>2. PICK t \in Seq(Nat) : /\ t = SubSeq(words, m + 1, n) /\ Len(t) = n - m
                            /\ \A j \in 1..(n - m) : t[j] = words[m + j]
  <2>1. m <= Len(words)
    BY <1>1
  <2>2. /\ SubSeq(words, m + 1, Len(words)) \in Seq(Nat)
        /\ Len(SubSeq(words, m + 1, Len(words))) = Len(words) - m
        /\ \A j \in 1..(Len(words) - m) : SubSeq(words, m + 1, Len(words))[j] = words[m + j]
    BY <2>1, TailWords
  <2> QED BY <1>1, <2>2
<1>3. l <= n - m /\ \A j \in 1..l : j \in 1..(n - m)
  BY <1>1
<1>4. \A j \in 1..l : t[j] = v[j]
  BY <1>1, <1>2, <1>3
<1>5. SubSeq(t, 1, l) = [j \in 1..l |-> t[j]] /\ SubSeq(v, 1, l) = [j \in 1..l |-> v[j]]
  BY <1>1, <1>2, <1>3
<1> QED BY <1>1, <1>2, <1>3, <1>4, <1>5 DEF IsPrefix

\* The tail of a tail is a tail.
LEMMA TailOfTail ==
  ASSUME NEW words \in Seq(Nat), NEW m \in Nat, NEW d \in Nat, m + d <= Len(words),
         NEW t, t = SubSeq(words, m + 1, Len(words))
  PROVE  SubSeq(t, d + 1, Len(t)) = SubSeq(words, (m + d) + 1, Len(words))
<1>1. PICK n, e, i \in Nat : n = Len(words) /\ e = m + d /\ e <= n /\ m <= n /\ i = n - e
                             /\ i = (n - m) - d /\ d <= n - m
  OBVIOUS
<1>2. /\ t \in Seq(Nat) /\ Len(t) = n - m
      /\ \A j \in 1..(n - m) : t[j] = words[m + j]
  BY <1>1, TailWords
<1>3. PICK a \in Seq(Nat) : /\ a = SubSeq(t, d + 1, Len(t)) /\ Len(a) = i
                            /\ \A j \in 1..i : a[j] = t[d + j]
  <2>1. d <= Len(t) /\ Len(t) - d = i
    BY <1>1, <1>2
  <2>2. d <= Len(t) /\ t \in Seq(Nat)
    BY <1>2, <2>1
  <2>3. /\ SubSeq(t, d + 1, Len(t)) \in Seq(Nat)
        /\ Len(SubSeq(t, d + 1, Len(t))) = Len(t) - d
        /\ \A j \in 1..(Len(t) - d) : SubSeq(t, d + 1, Len(t))[j] = t[d + j]
    BY ONLY <2>2, d \in Nat, TailWords
  <2> QED BY ONLY <2>1, <2>3
<1>4. PICK b \in Seq(Nat) : /\ b = SubSeq(words, e + 1, n) /\ Len(b) = i
                            /\ \A j \in 1..i : b[j] = words[e + j]
  <2>1. e <= Len(words) /\ Len(words) - e = i
    BY <1>1
  <2>2. /\ SubSeq(words, e + 1, Len(words)) \in Seq(Nat)
        /\ Len(SubSeq(words, e + 1, Len(words))) = i
        /\ \A j \in 1..i : SubSeq(words, e + 1, Len(words))[j] = words[e + j]
    BY <2>1, TailWords
  <2> QED BY <1>1, <2>2
<1>5. \A j \in 1..i : d + j \in 1..(n - m) /\ m + (d + j) = e + j
  BY ONLY <1>1, m \in Nat, d \in Nat, n \in Nat, e \in Nat, i \in Nat
<1>6. ASSUME NEW j \in 1..i PROVE a[j] = b[j]
  <2>1. a[j] = t[d + j] /\ b[j] = words[e + j]
    BY <1>3, <1>4
  <2>2. t[d + j] = words[m + (d + j)] /\ m + (d + j) = e + j
    BY <1>2, <1>5
  <2> QED BY <2>1, <2>2
<1>7. a = b
  BY <1>3, <1>4, <1>6, SeqEqual
<1> QED BY <1>1, <1>3, <1>4, <1>7

\* The raw words of a cell are the scalar that was put into it.
LEMMA RawReads ==
  ASSUME NEW slice \in Seq(Nat), NEW m \in Nat, NEW value \in Seq(Nat),
         m + Len(value) <= Len(slice), \A j \in 1..Len(value) : slice[m + j] = value[j]
  PROVE  SubSeq(SubSeq(slice, m + 1, Len(slice)), 1, Len(value)) = value
<1>0. PICK l, n \in Nat : l = Len(value) /\ n = Len(slice)
  OBVIOUS
<1>1. l = Len(value) /\ n = Len(slice) /\ m <= n /\ l <= n - m
  BY <1>0
<1>2. PICK t \in Seq(Nat) : t = SubSeq(slice, m + 1, n) /\ Len(t) = n - m
  BY <1>1, TailWords
<1>3. IsPrefix(value, t)
  BY <1>1, <1>2, PrefixAt
<1>4. SubSeq(value, 1, l) = SubSeq(t, 1, l)
  BY <1>1, <1>3 DEF IsPrefix
<1>5. SubSeq(value, 1, l) = value
  BY <1>1
<1> QED BY <1>1, <1>2, <1>4, <1>5

\* A slice that begins with the words of a layout and goes on.
Continues(slice, words) ==
  slice \in Seq(Nat) /\ Len(words) <= Len(slice) /\ \A p \in 1..Len(words) : slice[p] = words[p]

-----------------------------------------------------------------------------
(***************************************************************************)
(* What the operations of the word buffer do, for every buffer: words keep *)
(* their distance from the end through growth, and a write changes only    *)
(* the words it covers.                                                    *)
(***************************************************************************)

\* A buffer whose active words are within its allocation.
Sound(b) == b \in Buffer /\ b.len <= Allocated(b)

\* What soundness says of the parts of a buffer.
LEMMA SoundParts ==
  ASSUME NEW b, Sound(b)
  PROVE  /\ b.data \in Seq(Nat) /\ b.len \in Nat /\ Allocated(b) \in Nat
         /\ b.len <= Allocated(b)
         /\ \A p \in 1..Allocated(b) : b.data[p] \in Nat
BY DEF Sound, Buffer, Allocated

\* grow() allocates at least what is needed (utils.rs, Buffer::grow).
LEMMA GrownSizeFits ==
  \A current, needed \in Nat :
    GrownSize(current, needed) \in Nat /\ GrownSize(current, needed) >= needed
<1> SUFFICES ASSUME NEW current \in Nat, NEW needed \in Nat
             PROVE  GrownSize(current, needed) \in Nat /\ GrownSize(current, needed) >= needed
  OBVIOUS
<1> DEFINE first == IF current < 8 THEN 8 ELSE current
           fits  == {w \in first..(first + 2 * needed) :
                       /\ w >= needed
                       /\ w = first \/ w < 2 * needed
                       /\ \E k \in 0..DoublingLimit : w = first * 2 ^ k}
           pick  == CHOOSE w \in fits : TRUE
<1>1. GrownSize(current, needed) = IF fits = {} THEN needed ELSE pick
  BY DEF GrownSize
<1>2. first \in Nat
  OBVIOUS
<1>3. ASSUME fits # {} PROVE pick \in fits
  BY <1>3
<1>4. \A w \in fits : w \in Nat /\ w >= needed
  BY <1>2
<1> HIDE DEF first, fits, pick
<1>5. CASE fits = {}
  BY <1>1, <1>5
<1>6. CASE fits # {}
  BY <1>1, <1>3, <1>4, <1>6
<1> QED
  BY <1>5, <1>6

\* Expanding moves no active word: each keeps its distance from the end.
LEMMA ExpandKeeps ==
  ASSUME NEW b, Sound(b), NEW delta \in Nat
  PROVE  /\ Sound(Expand(b, delta))
         /\ Expand(b, delta).len = b.len + delta
         /\ \A p \in 1..b.len : Expand(b, delta).data[p] = b.data[p]
<1> DEFINE size == GrownSize(Allocated(b), b.len + delta)
<1>1. b.len \in Nat /\ Allocated(b) \in Nat /\ \A p \in 1..Allocated(b) : b.data[p] \in Nat
  BY SoundParts
<1>2. size \in Nat /\ size >= b.len + delta
  <2>1. b.len + delta \in Nat
    BY <1>1
  <2> QED
    BY <1>1, <2>1, GrownSizeFits, Zenon
<1>3. CASE Allocated(b) - b.len < delta
  <2> DEFINE grown == [p \in 1..size |-> IF p <= b.len THEN b.data[p] ELSE 0]
  <2>1. Expand(b, delta) = [data |-> grown, len |-> b.len + delta]
    BY <1>3 DEF Expand, Grow
  <2>2. \A p \in 1..size : grown[p] \in Nat
    BY <1>1 DEF Sound, Allocated
  <2>3. grown \in Seq(Nat) /\ Len(grown) = size
    BY <1>2, <2>2
  <2> QED
    BY <1>1, <1>2, <2>1, <2>3 DEF Sound, Buffer, Allocated
<1>4. CASE ~(Allocated(b) - b.len < delta)
  <2>1. Expand(b, delta) = [data |-> b.data, len |-> b.len + delta]
    BY <1>4 DEF Expand
  <2> QED
    BY <1>1, <1>4, <2>1 DEF Sound, Buffer, Allocated
<1> QED
  BY <1>3, <1>4

\* Dropping words from the front leaves the others where they are.
LEMMA ShrinkKeeps ==
  ASSUME NEW b, Sound(b), NEW delta \in 0..b.len
  PROVE  /\ Sound(Shrink(b, delta))
         /\ Shrink(b, delta).len = b.len - delta
         /\ Shrink(b, delta).data = b.data
BY DEF Sound, Shrink, Buffer, Allocated

\* A write covers exactly the words it is given and changes no other.
LEMMA WriteAtChanges ==
  ASSUME NEW b, Sound(b), NEW words \in Seq(Nat), NEW pos \in Nat,
         Len(words) <= pos, pos <= Allocated(b)
  PROVE  /\ Sound(WriteAt(b, pos, words))
         /\ WriteAt(b, pos, words).len = b.len
         /\ \A p \in 1..Allocated(b) :
              WriteAt(b, pos, words).data[p] =
                IF pos - Len(words) < p /\ p <= pos THEN words[pos - p + 1] ELSE b.data[p]
<1> DEFINE new == [p \in 1..Allocated(b) |->
                     IF pos - Len(words) < p /\ p <= pos THEN words[pos - p + 1] ELSE b.data[p]]
<1>1. b.len \in Nat /\ Allocated(b) \in Nat /\ \A p \in 1..Allocated(b) : b.data[p] \in Nat
  BY SoundParts
<1>2. WriteAt(b, pos, words) = [data |-> new, len |-> b.len]
  BY DEF WriteAt
<1>3. \A p \in 1..Allocated(b) : new[p] \in Nat
  BY <1>1
<1>4. new \in Seq(Nat) /\ Len(new) = Allocated(b)
  BY SMTT(30), <1>1, <1>3
<1> QED
  BY <1>1, <1>2, <1>4 DEF Sound, Buffer, Allocated

\* Reading a range of a sound buffer gives as many words as asked for.
LEMMA ReadAtType ==
  ASSUME NEW b, Sound(b), NEW pos \in Nat, NEW n \in Nat, n <= pos, pos <= Allocated(b)
  PROVE  ReadAt(b, pos, n) \in Seq(Nat) /\ Len(ReadAt(b, pos, n)) = n
<1> DEFINE word(j) == b.data[pos - j + 1]
<1>1. ASSUME NEW j \in 1..n PROVE word(j) \in Nat
  <2>1. pos - j + 1 \in 1..Allocated(b)
    BY SoundParts
  <2> QED
    BY <2>1, SoundParts
<1>2. ReadAt(b, pos, n) = [j \in 1..n |-> word(j)]
  BY DEF ReadAt
<1> HIDE DEF word
<1>3. [j \in 1..n |-> word(j)] \in Seq(Nat) /\ Len([j \in 1..n |-> word(j)]) = n
  BY <1>1
<1> QED
  BY <1>2, <1>3

\* Two buffers that agree on a range read the same there.
LEMMA ReadAtSame ==
  ASSUME NEW b, NEW c, NEW pos \in Nat, NEW n \in Nat, n <= pos,
         \A p \in (pos - n + 1)..pos : c.data[p] = b.data[p]
  PROVE  ReadAt(c, pos, n) = ReadAt(b, pos, n)
BY DEF ReadAt

\* Prepended words are read back, and the words behind them are as before.
LEMMA PutWordsPrepends ==
  ASSUME NEW b, Sound(b), NEW words \in Seq(Nat)
  PROVE  /\ Sound(PutWords(b, words))
         /\ PutWords(b, words).len = b.len + Len(words)
         /\ \A p \in 1..b.len : PutWords(b, words).data[p] = b.data[p]
         /\ ReadAt(PutWords(b, words), b.len + Len(words), Len(words)) = words
<1> DEFINE n == Len(words)
           e == Expand(b, n)
           w == PutWords(b, words)
<1>1. b.len \in Nat /\ n \in Nat
  BY DEF Sound, Buffer
<1>2. Sound(e) /\ e.len = b.len + n /\ \A p \in 1..b.len : e.data[p] = b.data[p]
  BY <1>1, ExpandKeeps
<1>3. b.len + n <= Allocated(e) /\ Allocated(e) \in Nat
  BY <1>2 DEF Sound, Buffer, Allocated
<1>4. w = WriteAt(e, b.len + n, words)
  BY DEF PutWords
<1> HIDE DEF e, w
<1>5. /\ Sound(w) /\ w.len = e.len
      /\ \A p \in 1..Allocated(e) :
           w.data[p] = IF b.len + n - n < p /\ p <= b.len + n
                       THEN words[b.len + n - p + 1] ELSE e.data[p]
  BY SMTT(30), <1>1, <1>2, <1>3, <1>4, WriteAtChanges
<1>6. \A p \in 1..b.len : w.data[p] = b.data[p]
  <2> SUFFICES ASSUME NEW p \in 1..b.len PROVE w.data[p] = b.data[p]
    OBVIOUS
  <2>1. p \in 1..Allocated(e) /\ ~(b.len + n - n < p)
    BY <1>1, <1>3
  <2> QED
    BY <1>2, <1>5, <2>1
<1>7. \A j \in 1..n : w.data[b.len + n - j + 1] = words[j]
  <2> SUFFICES ASSUME NEW j \in 1..n PROVE w.data[b.len + n - j + 1] = words[j]
    OBVIOUS
  <2> DEFINE p == b.len + n - j + 1
  <2>1. p \in 1..Allocated(e) /\ b.len + n - n < p /\ p <= b.len + n /\ b.len + n - p + 1 = j
    <3>1. \A l, m, a \in Nat : \A i \in 1..m : l + m <= a =>
            /\ l + m - i + 1 \in 1..a
            /\ l + m - m < l + m - i + 1 /\ l + m - i + 1 <= l + m
            /\ l + m - (l + m - i + 1) + 1 = i
      OBVIOUS
    <3> QED
      BY <1>1, <1>3, <3>1, Zenon
  <2> HIDE DEF p
  <2>2. w.data[p] = words[b.len + n - p + 1]
    BY <1>5, <2>1
  <2> QED
    BY <2>1, <2>2 DEF p
<1>8. ReadAt(w, b.len + n, n) = words
  BY SMTT(30), <1>1, <1>7 DEF ReadAt
<1> QED
  BY <1>2, <1>5, <1>6, <1>8 DEF w

\* Moving a range, overlapping or not, delivers its words and touches nothing
\* outside the destination (slice::copy_within).
LEMMA CopyWithinMoves ==
  ASSUME NEW b, Sound(b), NEW from \in Nat, NEW to \in Nat, NEW n \in Nat,
         n <= from, from <= Allocated(b), n <= to, to <= Allocated(b)
  PROVE  /\ Sound(CopyWithin(b, from, to, n))
         /\ CopyWithin(b, from, to, n).len = b.len
         /\ ReadAt(CopyWithin(b, from, to, n), to, n) = ReadAt(b, from, n)
         /\ \A p \in 1..Allocated(b) : p <= to - n \/ p > to =>
              CopyWithin(b, from, to, n).data[p] = b.data[p]
<1> DEFINE words == ReadAt(b, from, n)
           w == CopyWithin(b, from, to, n)
<1>1. words \in Seq(Nat) /\ Len(words) = n
  BY ReadAtType
<1>2. w = WriteAt(b, to, words)
  BY DEF CopyWithin
<1>3. Allocated(b) \in Nat
  BY DEF Sound, Buffer, Allocated
<1>4. \A j \in 1..n : words[j] = b.data[from - j + 1]
  BY DEF ReadAt
<1> HIDE DEF words, w
<1>5. /\ Sound(w) /\ w.len = b.len
      /\ \A p \in 1..Allocated(b) :
           w.data[p] = IF to - n < p /\ p <= to THEN words[to - p + 1] ELSE b.data[p]
  BY <1>1, <1>2, WriteAtChanges
<1>6. \A j \in 1..n : w.data[to - j + 1] = words[j]
  BY <1>3, <1>5
<1>7. ReadAt(w, to, n) = ReadAt(b, from, n)
  BY <1>4, <1>6 DEF ReadAt
<1>8. \A p \in 1..Allocated(b) : p <= to - n \/ p > to => w.data[p] = b.data[p]
  BY <1>3, <1>5
<1> QED
  BY <1>5, <1>7, <1>8 DEF w
=============================================================================
