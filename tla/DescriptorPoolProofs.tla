------------------------ MODULE DescriptorPoolProofs ------------------------
(***************************************************************************)
(* Theorems about DescriptorPool and DescriptorFiles: whatever the files,  *)
(* what a pool hands out refers only to what it holds, a descriptor that   *)
(* is bound stays, the pool is what its files say by protobuf's scoping    *)
(* rule, and a file is refused when it cannot be represented, only then.   *)
(***************************************************************************)
EXTENDS DescriptorFiles, SequenceTheorems, FiniteSetTheorems, WellFoundedInduction, TLAPS

\* A field refers to nothing outside `known`, and is bound at all.
SoundField(field, known) == field.value = "Message" => field.type.path \in known

BoundField(field, known) == SoundField(field, known) /\ field.value # "Unknown"

\* The fields of a descriptor; an alias has no others.
Sound(d, known) ==
  /\ SoundField(d.alias, known)
  /\ \A n \in DOMAIN d.fields : SoundField(d.fields[n], known)
  /\ d.alias.value # "None" => DOMAIN d.fields = {}

Whole(d, known) ==
  /\ BoundField(d.alias, known)
  /\ \A n \in DOMAIN d.fields : BoundField(d.fields[n], known)

(***************************************************************************)
(* Inside a call the descriptors of this file may still hold unbound       *)
(* names, and they are the ones `list` has.                                *)
(***************************************************************************)
Listed(n, list) == \E i \in 1..Len(list) : list[i] = n

PoolSound(pool, list) ==
  /\ list \in Seq(DOMAIN pool)
  /\ \A n \in DOMAIN pool : Sound(pool[n], DOMAIN pool)
  /\ \A n \in DOMAIN pool : ~Listed(n, list) => Whole(pool[n], DOMAIN pool)

PoolInv ==
  pc # "failed" => PoolSound(descriptors, names) /\ (pc = "idle" => names = <<>>)

-----------------------------------------------------------------------------
(* The fields of descriptors that are made, and of those that are bound. *)

LEMMA ConvertedSound ==
  ASSUME NEW message, NEW name, NEW field
  PROVE  Converted(message, name, field).value # "Message"
<1>1. \A t : ConvertType(t) # "Message"
  BY DEF ConvertType, ScalarTypes, KeyTypes
<1> QED
  BY <1>1 DEF Converted

LEMMA DescribedSound ==
  ASSUME NEW message, NEW name, NEW known
  PROVE  Sound(DescriptorOf(message, name), known)
<1>1. CASE IsAlias(message.fields)
  <2>1. DescriptorOf(message, name) =
          [EmptyDescriptor EXCEPT !.alias = Converted(message, name, message.fields[1])]
    BY <1>1 DEF DescriptorOf
  <2>2. DescriptorOf(message, name).alias = Converted(message, name, message.fields[1])
    BY <2>1 DEF EmptyDescriptor
  <2>3. DOMAIN DescriptorOf(message, name).fields = {}
    BY <2>1 DEF EmptyDescriptor
  <2> QED
    BY <2>2, <2>3, ConvertedSound DEF Sound, SoundField
<1>2. CASE ~IsAlias(message.fields)
  <2>1. PICK g : g = [n \in {message.fields[i].name : i \in LiveOnes(message.fields)} |->
                       Converted(message, name, LastNamed(message.fields, n))]
    OBVIOUS
  <2>2. DescriptorOf(message, name) = [EmptyDescriptor EXCEPT !.fields = g]
    BY <1>2, <2>1 DEF DescriptorOf
  <2>3. DescriptorOf(message, name).alias = NoField /\ DescriptorOf(message, name).fields = g
    BY <2>2 DEF EmptyDescriptor
  <2>4. NoField.value = "None" /\ \A n \in DOMAIN g : g[n].value # "Message"
    BY <2>1, ConvertedSound DEF NoField
  <2> QED
    BY <2>3, <2>4 DEF Sound, SoundField
<1> QED
  BY <1>1, <1>2

LEMMA ResolvedBound ==
  ASSUME NEW name, NEW field,
         SoundField(field, DOMAIN descriptors), FieldResolves(name, field)
  PROVE  BoundField(Resolved(name, field), DOMAIN descriptors)
<1>1. CASE field.value # "Unknown"
  BY <1>1 DEF SoundField, BoundField, Resolved
<1>2. CASE field.value = "Unknown" /\ NameFor(name, field.type) \in enums
  BY <1>2 DEF SoundField, BoundField, Resolved
<1>3. CASE field.value = "Unknown" /\ NameFor(name, field.type) \notin enums
  <2>1. NameFor(name, field.type) \in DOMAIN descriptors
    BY <1>3 DEF FieldResolves, NameResolves, IsKnown
  <2> QED
    BY <1>3, <2>1 DEF SoundField, BoundField, Resolved
<1> QED
  BY <1>1, <1>2, <1>3

LEMMA BoundWhole ==
  ASSUME NEW name, NEW d, Sound(d, DOMAIN descriptors), AllResolve(name, d)
  PROVE  Whole(Bound(name, d), DOMAIN descriptors) /\ Sound(Bound(name, d), DOMAIN descriptors)
<1>1. CASE d.alias.value = "None"
  <2>1. Bound(name, d) = [alias |-> d.alias,
                          fields |-> [n \in DOMAIN d.fields |-> Resolved(name, d.fields[n])]]
    BY <1>1 DEF Bound
  <2>2. BoundField(d.alias, DOMAIN descriptors)
    BY <1>1 DEF BoundField, SoundField
  <2>3. \A n \in DOMAIN d.fields : BoundField(Resolved(name, d.fields[n]), DOMAIN descriptors)
    BY <1>1, ResolvedBound DEF Sound, AllResolve
  <2> QED
    BY <1>1, <2>1, <2>2, <2>3 DEF Whole, Sound, BoundField
<1>2. CASE d.alias.value # "None"
  <2>1. Bound(name, d) = [alias |-> Resolved(name, d.alias), fields |-> d.fields]
    BY <1>2 DEF Bound
  <2>2. BoundField(Resolved(name, d.alias), DOMAIN descriptors)
    BY <1>2, ResolvedBound DEF Sound, AllResolve
  <2>3. DOMAIN d.fields = {}
    BY <1>2 DEF Sound
  <2> QED
    BY <2>1, <2>2, <2>3 DEF Whole, Sound, BoundField
<1> QED
  BY <1>1, <1>2

-----------------------------------------------------------------------------
(* The two steps that change descriptors. *)

LEMMA InsertSound ==
  ASSUME NEW pool, NEW list, PoolSound(pool, list),
         NEW name, NEW d, \A known : Sound(d, known),
         NEW pool2, pool2 = [n \in DOMAIN pool \cup {name} |-> IF n = name THEN d ELSE pool[n]]
  PROVE  PoolSound(pool2, Append(list, name))
<1>1. DOMAIN pool2 = DOMAIN pool \cup {name}
  OBVIOUS
<1>2. Append(list, name) \in Seq(DOMAIN pool2)
  BY <1>1 DEF PoolSound
<1>3. \A n : Listed(n, list) => Listed(n, Append(list, name))
  BY DEF PoolSound, Listed
<1>4. Listed(name, Append(list, name))
  <2>1. Append(list, name)[Len(list) + 1] = name /\ Len(list) + 1 \in 1..Len(Append(list, name))
    BY DEF PoolSound
  <2> QED
    BY <2>1 DEF Listed
<1>5. ASSUME NEW n \in DOMAIN pool2 PROVE Sound(pool2[n], DOMAIN pool2)
  BY <1>1 DEF PoolSound, Sound, SoundField
<1>6. ASSUME NEW n \in DOMAIN pool2, ~Listed(n, Append(list, name))
      PROVE  Whole(pool2[n], DOMAIN pool2)
  <2>1. n \in DOMAIN pool /\ ~Listed(n, list) /\ pool2[n] = pool[n]
    BY <1>1, <1>3, <1>4, <1>6
  <2> QED
    BY <1>1, <2>1 DEF PoolSound, Whole, BoundField, SoundField
<1> QED
  BY <1>2, <1>5, <1>6 DEF PoolSound

LEMMA BindSound ==
  ASSUME NEW pool, NEW list, PoolSound(pool, list), list # <<>>,
         NEW d, Sound(d, DOMAIN pool), Whole(d, DOMAIN pool),
         NEW pool2, pool2 = [pool EXCEPT ![Head(list)] = d]
  PROVE  PoolSound(pool2, Tail(list))
<1>1. Head(list) \in DOMAIN pool /\ Tail(list) \in Seq(DOMAIN pool) /\ DOMAIN pool2 = DOMAIN pool
  BY DEF PoolSound
<1>2. \A n : Listed(n, list) => n = Head(list) \/ Listed(n, Tail(list))
  <2> SUFFICES ASSUME NEW i \in 1..Len(list), i # 1
               PROVE  Listed(list[i], Tail(list))
    BY DEF Listed, PoolSound
  <2>1. i - 1 \in 1..Len(Tail(list)) /\ Tail(list)[i - 1] = list[i]
    BY DEF PoolSound
  <2> QED
    BY <2>1 DEF Listed
<1>3. \A n \in DOMAIN pool : pool2[n] = IF n = Head(list) THEN d ELSE pool[n]
  BY <1>1
<1> QED
  BY <1>1, <1>2, <1>3 DEF PoolSound

-----------------------------------------------------------------------------
LEMMA InitPool == Init => PoolInv
<1> SUFFICES ASSUME Init PROVE PoolInv
  OBVIOUS
<1>1. DOMAIN descriptors = {}
  BY DEF Init, NoDescriptors
<1>2. names = <<>> /\ names \in Seq(DOMAIN descriptors)
  BY DEF Init
<1> QED
  BY <1>1, <1>2 DEF PoolInv, PoolSound

LEMMA NextPool == PoolInv /\ [Next]_vars => PoolInv'
<1> SUFFICES ASSUME PoolInv, [Next]_vars PROVE PoolInv'
  OBVIOUS
<1>1. CASE Register
  <2>1. pc = "idle" /\ names' = names /\ descriptors' = descriptors /\ pc' = "busy"
    BY <1>1 DEF Register, PoolInv
  <2> QED
    BY <2>1 DEF PoolInv
<1>2. CASE EnterMessage
  BY <1>2 DEF EnterMessage, PoolInv
<1>3. CASE InsertMessage
  <2>1. pc = "busy" /\ pc' = "busy"
    BY <1>3 DEF InsertMessage, Closing
  <2>2. \A known : Sound(DescriptorOf(Task1.message, NameOf(Task1)), known)
    BY DescribedSound
  <2>3. PoolSound(descriptors', names')
    BY <1>3, <2>1, <2>2, InsertSound, ZenonT(30) DEF InsertMessage, Inserted, PoolInv
  <2> QED
    BY <2>1, <2>3 DEF PoolInv
<1>4. CASE RefuseDuplicate \/ RefuseMessage \/ RefuseReference
  BY <1>4 DEF RefuseDuplicate, RefuseMessage, RefuseReference, PoolInv
<1>5. CASE ResolveMessage
  <2>1. pc = "busy" /\ pc' = "busy" /\ names # <<>>
    BY <1>5 DEF ResolveMessage, Resolving
  <2>2. PoolSound(descriptors, names) /\ Head(names) \in DOMAIN descriptors
    BY <2>1 DEF PoolInv, PoolSound
  <2>3. Sound(descriptors[Head(names)], DOMAIN descriptors)
    BY <2>2 DEF PoolSound
  <2>4. Whole(Bound(Head(names), descriptors[Head(names)]), DOMAIN descriptors)
          /\ Sound(Bound(Head(names), descriptors[Head(names)]), DOMAIN descriptors)
    BY <1>5, <2>3, BoundWhole DEF ResolveMessage
  <2>5. descriptors' = [descriptors EXCEPT ![Head(names)] =
                         Bound(Head(names), descriptors[Head(names)])]
    BY <1>5 DEF ResolveMessage
  <2>6. PoolSound(descriptors', Tail(names))
    BY <2>1, <2>2, <2>4, <2>5, BindSound
  <2> QED
    BY <1>5, <2>1, <2>6 DEF ResolveMessage, PoolInv
<1>6. CASE Accept
  BY <1>6 DEF Accept, PoolInv
<1>7. CASE Discard
  <2>1. DOMAIN descriptors' = {} /\ names' = <<>> /\ names' \in Seq(DOMAIN descriptors')
    BY <1>7 DEF Discard, NoDescriptors
  <2> QED
    BY <2>1 DEF PoolInv, PoolSound
<1>8. CASE UNCHANGED vars
  BY <1>8 DEF vars, PoolInv
<1> QED
  BY <1>1, <1>2, <1>3, <1>4, <1>5, <1>6, <1>7, <1>8 DEF Next, Working

LEMMA PoolInvariant == Spec => []PoolInv
<1> QED
  BY InitPool, NextPool, PTL DEF Spec

-----------------------------------------------------------------------------
\* Whatever the files: between calls every reference of the pool is bound, and
\* to a message of the pool.
THEOREM PoolIsClosed == Spec => []ReferencesResolve
<1>1. PoolInv => ReferencesResolve
  <2> SUFFICES ASSUME PoolInv, pc = "idle", NEW n \in DOMAIN descriptors
               PROVE  Settled(descriptors[n])
    BY DEF ReferencesResolve
  <2>1. Whole(descriptors[n], DOMAIN descriptors)
    BY DEF PoolInv, PoolSound, Listed
  <2> QED
    BY <2>1 DEF Whole, BoundField, SoundField, Settled, FieldSettled
<1> QED
  BY <1>1, PoolInvariant, PTL

\* Whatever the files: no step of a registration, those in which it fails
\* included, changes or drops a descriptor that is bound; but a message that is
\* refused as a duplicate has replaced the one descriptor of its own name.
THEOREM BoundDescriptorsStay == Spec => BoundStay
<1> DEFINE Stays(n) ==
             /\ n \in DOMAIN descriptors'
             /\ descriptors'[n] # descriptors[n] => pc' = "failed" /\ Redeclared(n)
           Keeps ==
             pc # "failed" => \A n \in {m \in DOMAIN descriptors : IsBound(m)} : Stays(n)
<1>1. PoolInv /\ [Next]_vars => [Keeps]_vars
  <2> SUFFICES ASSUME PoolInv, [Next]_vars, pc # "failed",
                      NEW n \in DOMAIN descriptors,
                      \A i \in 1..Len(names) : names[i] # n
               PROVE  Stays(n)
    BY DEF IsBound
  <2>1. CASE InsertMessage
    BY <2>1 DEF InsertMessage, Inserted
  <2>5. CASE RefuseDuplicate
    <3>1. /\ n \in DOMAIN descriptors' /\ pc' = "failed"
          /\ n # NameOf(Task1) => descriptors'[n] = descriptors[n]
      BY <2>5 DEF RefuseDuplicate, Inserted
    <3>2. tasks # <<>>
      BY <2>5 DEF RefuseDuplicate, Closing
    <3> QED
      BY <3>1, <3>2 DEF Redeclared
  <2>6. CASE RefuseReference
    <3>1. Head(names) = names[1] /\ 1 \in 1..Len(names)
      BY <2>6 DEF RefuseReference, Resolving, PoolInv, PoolSound
    <3> QED
      BY <2>6, <3>1 DEF RefuseReference
  <2>2. CASE ResolveMessage
    <3>1. Head(names) = names[1] /\ 1 \in 1..Len(names)
      BY <2>2 DEF ResolveMessage, Resolving, PoolInv, PoolSound
    <3> QED
      BY <2>2, <3>1 DEF ResolveMessage
  <2>3. CASE RefuseMessage \/ Discard
    BY <2>3 DEF RefuseMessage, Discard
  <2>4. CASE Register \/ EnterMessage \/ Accept \/ UNCHANGED vars
    BY <2>4 DEF Register, EnterMessage, Accept, vars
  <2> QED
    BY <2>1, <2>2, <2>3, <2>4, <2>5, <2>6 DEF Next, Working
<1> QED
  BY <1>1, PoolInvariant, PTL DEF Spec, BoundStay

\* The order of the natural numbers, as a relation.
NatOrder == {ss \in Nat \X Nat : ss[1] < ss[2]}

\* Every nonempty set of natural numbers has a least member.
LEMMA LeastNat ==
  ASSUME NEW T \in SUBSET Nat, T # {}
  PROVE  \E x \in T : \A y \in T : x <= y
<1>1. IsWellFoundedOn(NatOrder, Nat)
  BY NatLessThanWellFounded DEF OpToRel, NatOrder
<1>2. PICK x \in T : \A y \in T : ~(<<y, x>> \in NatOrder)
  BY <1>1, WFMin
<1>3. ASSUME NEW y \in T PROVE x <= y
  <2>1. ~(<<y, x>> \in NatOrder) BY <1>2
  <2>2. x \in Nat /\ y \in Nat OBVIOUS
  <2>3. <<y, x>> \in Nat \X Nat BY <2>2
  <2>4. ~(y < x)
    BY <2>1, <2>2, <2>3 DEF NatOrder
  <2> QED BY <2>2, <2>4
<1> QED BY <1>3

\* A nonempty set of numbers up to n has a greatest member.
LEMMA GreatestNat ==
  ASSUME NEW n \in Nat, NEW T \in SUBSET (0..n), T # {}
  PROVE  \E x \in T : \A y \in T : y <= x
<1> DEFINE U == {m \in Nat : \E x \in T : m = n - x}
<1>1. U \in SUBSET Nat /\ U # {}
  <2>1. PICK x \in T : TRUE
    OBVIOUS
  <2>2. x \in 0..n /\ n - x \in Nat
    OBVIOUS
  <2> QED BY <2>1, <2>2
<1>2. PICK m \in U : \A k \in U : m <= k
  <2> HIDE DEF U
  <2> QED BY <1>1, LeastNat
<1>3. PICK x \in T : m = n - x
  OBVIOUS
<1>4. ASSUME NEW y \in T PROVE y <= x
  <2>1. y \in 0..n /\ x \in 0..n /\ n - y \in Nat
    OBVIOUS
  <2>2. n - y \in U
    BY <2>1
  <2>3. n - x <= n - y
    <3> HIDE DEF U
    <3> QED BY <1>2, <1>3, <2>2
  <2> QED BY <2>1, <2>3
<1> QED BY <1>4

\* Induction up to n, said of sets.
LEMMA Climb ==
  ASSUME NEW n \in Nat, NEW S, 0 \in S, \A d \in 0..(n - 1) : d \in S => d + 1 \in S
  PROVE  \A d \in 0..n : d \in S
<1> SUFFICES ASSUME NEW e \in 0..n, e \notin S PROVE FALSE
  OBVIOUS
<1> DEFINE T == {d \in 0..n : d \notin S}
<1>1. T \in SUBSET Nat /\ T # {}
  OBVIOUS
<1>2. PICK d \in T : \A c \in T : d <= c
  <2> HIDE DEF T
  <2> QED BY <1>1, LeastNat
<1>3. d \in 0..n /\ d \notin S /\ d # 0
  OBVIOUS
<1>4. d - 1 \in 0..(n - 1) /\ d - 1 \in 0..n /\ (d - 1) + 1 = d
  BY <1>3
<1>5. d - 1 \notin T
  <2>1. ~(d <= d - 1)
    BY <1>3
  <2> HIDE DEF T
  <2> QED BY <1>2, <2>1
<1> QED BY <1>3, <1>4, <1>5

-----------------------------------------------------------------------------
\* The indices of a set, in order: each is listed, and once.
LEMMA NthLists ==
  ASSUME NEW n \in Nat, NEW S \in SUBSET (1..n)
  PROVE  /\ Cardinality(S) \in Nat
         /\ \A k \in 1..Cardinality(S) : Nth(S, k) \in S
         /\ \A j, k \in 1..Cardinality(S) : Nth(S, j) = Nth(S, k) => j = k
         /\ \A i \in S : \E k \in 1..Cardinality(S) : i = Nth(S, k)
<1> DEFINE upTo(i) == {j \in S : j <= i}
           rank == [i \in S |-> Cardinality(upTo(i))]
<1>1. IsFiniteSet(S) /\ Cardinality(S) \in Nat
  <2>1. IsFiniteSet(1..n)
    BY FS_Interval
  <2>2. IsFiniteSet(S)
    BY <2>1, FS_Subset
  <2> QED BY <2>2, FS_CardinalityType
<1>2. ASSUME NEW i \in S
      PROVE  /\ IsFiniteSet(upTo(i)) /\ Cardinality(upTo(i)) \in 1..Cardinality(S)
  <2>1. IsFiniteSet(upTo(i)) /\ Cardinality(upTo(i)) <= Cardinality(S)
    BY <1>1, FS_Subset
  <2>2. Cardinality(upTo(i)) \in Nat
    BY <2>1, FS_CardinalityType
  <2>3. Cardinality(upTo(i)) # 0
    BY <2>1, FS_EmptySet
  <2> QED BY <1>1, <2>1, <2>2, <2>3
<1>3. ASSUME NEW i \in S, NEW j \in S, i < j PROVE Cardinality(upTo(i)) # Cardinality(upTo(j))
  <2>1. upTo(i) \in SUBSET upTo(j) /\ j \in upTo(j) /\ j \notin upTo(i)
    <3>1. \A x \in upTo(i) : x \in upTo(j)
      BY <1>3
    <3>2. j \in upTo(j) /\ j \notin upTo(i)
      BY <1>3
    <3> QED BY <3>1, <3>2
  <2> HIDE DEF upTo
  <2>2. upTo(i) # upTo(j)
    BY <2>1
  <2> QED BY <1>2, <2>1, <2>2, FS_Subset
<1>4. \A i, j \in S : Cardinality(upTo(i)) = Cardinality(upTo(j)) => i = j
  <2> SUFFICES ASSUME NEW i \in S, NEW j \in S, i # j
               PROVE  Cardinality(upTo(i)) # Cardinality(upTo(j))
    OBVIOUS
  <2>1. i < j \/ j < i
    OBVIOUS
  <2> HIDE DEF upTo
  <2> QED BY <1>3, <2>1
<1>5. rank \in Surjection(S, 1..Cardinality(S))
  <2>1. rank \in Injection(S, 1..Cardinality(S))
    <3> HIDE DEF upTo
    <3>1. rank \in [S -> 1..Cardinality(S)]
      BY <1>2
    <3>2. \A i, j \in S : rank[i] = rank[j] => i = j
      BY <1>4
    <3> QED BY <3>1, <3>2 DEF Injection, IsInjective
  <2>2. IsFiniteSet(1..Cardinality(S)) /\ Cardinality(1..Cardinality(S)) = Cardinality(S)
    BY <1>1, FS_Interval
  <2> HIDE DEF rank
  <2> QED BY <2>1, <2>2, FS_Injection
<1>6. ASSUME NEW k \in 1..Cardinality(S)
      PROVE  \E i \in S : Cardinality(upTo(i)) = k
  <2>1. PICK i \in S : rank[i] = k
    BY <1>5 DEF Surjection
  <2> QED BY <2>1
<1>7. ASSUME NEW k \in 1..Cardinality(S)
      PROVE  Nth(S, k) \in S /\ Cardinality(upTo(Nth(S, k))) = k
  BY <1>6, <1>7 DEF Nth
<1> HIDE DEF upTo, rank
<1>8. ASSUME NEW i \in S PROVE \E k \in 1..Cardinality(S) : i = Nth(S, k)
  <2>1. PICK k \in 1..Cardinality(S) : Cardinality(upTo(i)) = k
    BY <1>2
  <2>2. Nth(S, k) \in S /\ Cardinality(upTo(Nth(S, k))) = Cardinality(upTo(i))
    BY <1>7, <2>1
  <2> QED BY <1>4, <2>2
<1> QED BY <1>1, <1>7, <1>8

-----------------------------------------------------------------------------
(* The messages of a file: the least set that has those at its top and the ones nested in others. *)

\* Those that are declared at the top of a file, and directly inside another.
Tops(file) == Declared(file.package, file.messages)

Kids(d) == Declared(d.name, d.message.nested)

\* What the levels of a file are, up to the n-th.
IsLevels(level, file, n) ==
  level = [d \in 0..n |-> IF d = 0 THEN Tops(file) ELSE NestedIn(level[d - 1])]

\* There is such a function, and Levels is it.
LEMMA LevelsExist ==
  ASSUME NEW file, MaxDepth \in Nat
  PROVE  IsLevels(Levels(file), file, MaxDepth)
<1> DEFINE S == {n \in Nat : \E level : IsLevels(level, file, n)}
<1>1. 0 \in S
  <2>1. PICK level : level = [d \in 0..0 |-> Tops(file)]
    OBVIOUS
  <2>2. \A d \in 0..0 : d = 0
    OBVIOUS
  <2>3. IsLevels(level, file, 0)
    BY <2>1, <2>2 DEF IsLevels
  <2> QED BY <2>3
<1>2. ASSUME NEW n \in 0..(MaxDepth - 1), n \in S PROVE n + 1 \in S
  <2>1. n \in Nat /\ n + 1 \in Nat
    OBVIOUS
  <2>2. PICK g : IsLevels(g, file, n)
    BY <1>2
  <2>3. PICK h : h = [d \in 0..(n + 1) |-> IF d = n + 1 THEN NestedIn(g[n]) ELSE g[d]]
    OBVIOUS
  <2>4. ASSUME NEW d \in 0..(n + 1)
        PROVE  h[d] = IF d = 0 THEN Tops(file) ELSE NestedIn(h[d - 1])
    <3>1. CASE d = n + 1
      <4>1. d # 0 /\ d - 1 = n /\ n # n + 1 /\ n \in 0..(n + 1)
        BY <2>1, <3>1
      <4>2. h[n] = g[n] /\ h[d] = NestedIn(g[n])
        BY <2>3, <3>1, <4>1
      <4> QED BY <4>1, <4>2
    <3>2. CASE d # n + 1
      <4>1. d \in 0..n
        BY <2>1, <3>2
      <4>2. h[d] = g[d] /\ g[d] = IF d = 0 THEN Tops(file) ELSE NestedIn(g[d - 1])
        BY <2>2, <2>3, <3>2, <4>1 DEF IsLevels
      <4>3. ASSUME d # 0 PROVE h[d - 1] = g[d - 1]
        <5>1. d - 1 \in 0..(n + 1) /\ d - 1 # n + 1
          BY <2>1, <4>1, <4>3
        <5> QED BY <2>3, <5>1
      <4> QED BY <4>2, <4>3
    <3> QED BY <3>1, <3>2
  <2>5. h = [d \in 0..(n + 1) |-> h[d]]
    BY <2>3
  <2>6. IsLevels(h, file, n + 1)
    BY <2>4, <2>5 DEF IsLevels
  <2> QED BY <2>1, <2>6
<1>3. MaxDepth \in S
  <2> HIDE DEF S
  <2>1. MaxDepth \in 0..MaxDepth
    OBVIOUS
  <2> QED BY <1>1, <1>2, <2>1, Climb
<1>4. PICK g : IsLevels(g, file, MaxDepth)
  BY <1>3
<1>5. Levels(file) = CHOOSE level : IsLevels(level, file, MaxDepth)
  BY DEF Levels, IsLevels, Tops
<1> QED BY <1>4, <1>5

\* The messages of a file: those at its top, those nested in others, and no more.
LEMMA LiveHasTops ==
  ASSUME NEW file \in Files
  PROVE  Tops(file) \subseteq LiveMessages(file)
<1>1. MaxDepth \in Nat
  BY FilesAssumption
<1>2. Levels(file)[0] = Tops(file) /\ 0 \in 0..MaxDepth
  BY <1>1, LevelsExist DEF IsLevels
<1> QED BY <1>2 DEF LiveMessages

LEMMA LiveHasNested ==
  ASSUME NEW file \in Files, NEW m \in LiveMessages(file)
  PROVE  Kids(m) \subseteq LiveMessages(file)
<1>1. MaxDepth \in Nat /\ Levels(file)[MaxDepth] = {}
  BY FilesAssumption
<1>2. PICK d \in 0..MaxDepth : m \in Levels(file)[d]
  BY DEF LiveMessages
<1>3. d # MaxDepth
  BY <1>1, <1>2
<1>4. d + 1 \in 0..MaxDepth /\ d + 1 # 0 /\ (d + 1) - 1 = d
  BY <1>1, <1>3
<1>5. Levels(file)[d + 1] = NestedIn(Levels(file)[d])
  BY <1>1, <1>4, LevelsExist DEF IsLevels
<1>6. Kids(m) \subseteq NestedIn(Levels(file)[d])
  BY <1>2 DEF NestedIn, Kids
<1> QED BY <1>4, <1>5, <1>6 DEF LiveMessages

\* A set that has those has all of them: induction over the nesting.
LEMMA LiveIsLeast ==
  ASSUME NEW file \in Files, NEW S, Tops(file) \subseteq S,
         \A m \in S \cap LiveMessages(file) : Kids(m) \subseteq S
  PROVE  LiveMessages(file) \subseteq S
<1>1. MaxDepth \in Nat
  BY FilesAssumption
<1> DEFINE T == {d \in 0..MaxDepth : Levels(file)[d] \subseteq S}
<1>2. 0 \in T
  <2>1. Levels(file)[0] = Tops(file)
    BY <1>1, LevelsExist DEF IsLevels
  <2> QED BY <1>1, <2>1
<1>3. ASSUME NEW d \in 0..(MaxDepth - 1), d \in T PROVE d + 1 \in T
  <2>1. d + 1 \in 0..MaxDepth /\ d \in 0..MaxDepth /\ d + 1 # 0 /\ (d + 1) - 1 = d
    BY <1>1
  <2>2. Levels(file)[d + 1] = NestedIn(Levels(file)[d])
    BY <1>1, <2>1, LevelsExist DEF IsLevels
  <2>3. Levels(file)[d] \subseteq S \cap LiveMessages(file)
    BY <1>3, <2>1 DEF LiveMessages
  <2>4. NestedIn(Levels(file)[d]) \subseteq S
    BY <2>3 DEF NestedIn, Kids
  <2> QED BY <2>1, <2>2, <2>4
<1>4. \A d \in 0..MaxDepth : d \in T
  <2> HIDE DEF T
  <2> QED BY <1>1, <1>2, <1>3, Climb
<1> QED BY <1>4 DEF LiveMessages

\* A name with at least one identifier.
Filled(name) == IsName(name) /\ name # <<>>

\* x and the messages nested in it, at any depth.
Tree(file, x) ==
  {y \in LiveMessages(file) :
    \A S \in SUBSET LiveMessages(file) :
      x \in S /\ (\A m \in S : Kids(m) \subseteq S) => y \in S}

\* A scope and one more identifier.
LEMMA AppendNames ==
  ASSUME NEW scope, IsName(scope), NEW id \in Identifiers
  PROVE  /\ Filled(Append(scope, id)) /\ Len(Append(scope, id)) = Len(scope) + 1
         /\ \A i \in 1..Len(scope) : Append(scope, id)[i] = scope[i]
         /\ Append(scope, id)[Len(scope) + 1] = id
<1>1. scope \in Seq(Identifiers)
  BY DEF IsName
<1>2. /\ Append(scope, id) \in Seq(Identifiers) /\ Append(scope, id) # <<>>
      /\ Len(Append(scope, id)) = Len(scope) + 1
      /\ \A i \in 1..Len(scope) : Append(scope, id)[i] = scope[i]
      /\ Append(scope, id)[Len(scope) + 1] = id
  BY <1>1, AppendProperties
<1> QED BY <1>2 DEF IsName, Filled

\* Every message of a file has a name and the parts of a message.
LEMMA LiveTyped ==
  ASSUME NEW file \in Files, NEW m \in LiveMessages(file)
  PROVE  /\ Filled(m.name) /\ WellFormed(m.message)
         /\ m = [name |-> m.name, message |-> m.message]
<1> DEFINE S == {x \in LiveMessages(file) : Filled(x.name) /\ x = [name |-> x.name, message |-> x.message]}
<1>1. \A x \in LiveMessages(file) : WellFormed(x.message)
  BY FilesAssumption
<1>2. Tops(file) \subseteq S
  <2> SUFFICES ASSUME NEW x \in Tops(file) PROVE x \in S
    OBVIOUS
  <2>1. PICK i \in Registered(file.messages) :
          x = [name |-> Append(file.package, file.messages[i].name), message |-> file.messages[i]]
    BY DEF Tops, Declared
  <2>2. i \in 1..Len(file.messages)
    BY DEF Registered, LiveOnes
  <2>3. IsName(file.package) /\ file.messages[i].name \in Identifiers
    BY <2>2, FilesAssumption
  <2>4. Filled(x.name)
    BY <2>1, <2>3, AppendNames
  <2> QED BY <2>1, <2>4, LiveHasTops
<1>3. ASSUME NEW x \in S \cap LiveMessages(file) PROVE Kids(x) \subseteq S
  <2> SUFFICES ASSUME NEW y \in Kids(x) PROVE y \in S
    OBVIOUS
  <2>1. PICK i \in Registered(x.message.nested) :
          y = [name |-> Append(x.name, x.message.nested[i].name), message |-> x.message.nested[i]]
    BY DEF Kids, Declared
  <2>2. i \in 1..Len(x.message.nested)
    BY DEF Registered, LiveOnes
  <2>3. IsName(x.name) /\ x.message.nested[i].name \in Identifiers
    BY <1>1, <2>2 DEF WellFormed, Filled
  <2>4. Filled(y.name)
    BY <2>1, <2>3, AppendNames
  <2> QED BY <2>1, <2>4, LiveHasNested
<1>4. LiveMessages(file) \subseteq S
  <2> HIDE DEF S
  <2> QED BY <1>2, <1>3, LiveIsLeast
<1> QED BY <1>1, <1>4

\* The tree of a message is the least set that has it and what is nested in it.
LEMMA TreeHasRoot ==
  ASSUME NEW file, NEW x \in LiveMessages(file)
  PROVE  x \in Tree(file, x)
  BY DEF Tree

LEMMA TreeHasNested ==
  ASSUME NEW file \in Files, NEW x, NEW m \in Tree(file, x)
  PROVE  Kids(m) \subseteq Tree(file, x)
<1>1. Kids(m) \subseteq LiveMessages(file)
  BY LiveHasNested DEF Tree
<1> QED BY <1>1 DEF Tree

LEMMA TreeIsLeast ==
  ASSUME NEW file \in Files, NEW x \in LiveMessages(file), NEW S, x \in S,
         \A m \in S \cap LiveMessages(file) : Kids(m) \subseteq S
  PROVE  Tree(file, x) \subseteq S
<1>1. \A m \in S \cap LiveMessages(file) : Kids(m) \subseteq S \cap LiveMessages(file)
  BY LiveHasNested
<1> QED BY <1>1 DEF Tree

\* A message, and what is nested in it.
LEMMA TreeSplit ==
  ASSUME NEW file \in Files, NEW x \in LiveMessages(file)
  PROVE  Tree(file, x) = {x} \cup UNION {Tree(file, c) : c \in Kids(x)}
<1> DEFINE S == {x} \cup UNION {Tree(file, c) : c \in Kids(x)}
<1>1. Kids(x) \subseteq S
  BY LiveHasNested, TreeHasRoot
<1>2. \A m \in S : Kids(m) \subseteq S
  <2> SUFFICES ASSUME NEW m \in S, m # x PROVE Kids(m) \subseteq S
    BY <1>1
  <2>1. PICK c \in Kids(x) : m \in Tree(file, c)
    OBVIOUS
  <2> QED BY <2>1, TreeHasNested
<1>3. Tree(file, x) \subseteq S
  <2> HIDE DEF S
  <2>1. x \in S
    BY DEF S
  <2> QED BY <1>2, <2>1, TreeIsLeast
<1>4. ASSUME NEW c \in Kids(x) PROVE Tree(file, c) \subseteq Tree(file, x)
  <2>1. c \in LiveMessages(file) /\ c \in Tree(file, x)
    BY LiveHasNested, TreeHasRoot, TreeHasNested
  <2> QED BY <2>1, TreeIsLeast, TreeHasNested
<1> QED BY <1>3, <1>4, TreeHasRoot

\* The messages of a file, and those nested in them.
LEMMA TopTrees ==
  ASSUME NEW file \in Files
  PROVE  LiveMessages(file) = UNION {Tree(file, x) : x \in Tops(file)}
<1> DEFINE S == UNION {Tree(file, x) : x \in Tops(file)}
<1>1. Tops(file) \subseteq S
  BY LiveHasTops, TreeHasRoot
<1>2. \A m \in S : Kids(m) \subseteq S
  BY TreeHasNested
<1>3. LiveMessages(file) \subseteq S
  <2> HIDE DEF S
  <2> QED BY <1>1, <1>2, LiveIsLeast
<1> QED BY <1>3 DEF Tree

\* The name begins with the scope.
Begins(name, scope) == Len(scope) <= Len(name) /\ \A i \in 1..Len(scope) : name[i] = scope[i]

\* What is nested in a message has a name that begins with the message's.
LEMMA TreeNames ==
  ASSUME NEW file \in Files, NEW x \in LiveMessages(file), NEW y \in Tree(file, x)
  PROVE  Begins(y.name, x.name)
<1> DEFINE S == {m \in LiveMessages(file) : Begins(m.name, x.name)}
<1>1. x \in S
  BY LiveTyped DEF Begins, Filled, IsName
<1>2. ASSUME NEW m \in S \cap LiveMessages(file) PROVE Kids(m) \subseteq S
  <2> SUFFICES ASSUME NEW c \in Kids(m) PROVE c \in S
    OBVIOUS
  <2>1. PICK i \in Registered(m.message.nested) : c.name = Append(m.name, m.message.nested[i].name)
    BY DEF Kids, Declared
  <2>2. IsName(m.name) /\ IsName(x.name) /\ m.message.nested[i].name \in Identifiers
    BY LiveTyped DEF Filled, WellFormed, Registered, LiveOnes
  <2>3. Len(c.name) = Len(m.name) + 1 /\ \A j \in 1..Len(m.name) : c.name[j] = m.name[j]
    BY <2>1, <2>2, AppendNames
  <2>4. Len(m.name) \in Nat /\ Len(x.name) \in Nat
    BY <2>2 DEF IsName
  <2>5. Begins(c.name, x.name)
    BY <2>3, <2>4 DEF Begins
  <2> QED BY <2>5, LiveHasNested
<1>3. Tree(file, x) \subseteq S
  <2> HIDE DEF S
  <2> QED BY <1>1, <1>2, TreeIsLeast
<1> QED BY <1>3

\* What is declared next to each other stays apart when the names do.
LEMMA TreesApart ==
  ASSUME NEW file \in Files, NEW x \in LiveMessages(file), NEW y \in LiveMessages(file),
         Len(x.name) = Len(y.name), x.name # y.name,
         NEW a \in Tree(file, x), NEW b \in Tree(file, y)
  PROVE  a.name # b.name
<1>1. Begins(a.name, x.name) /\ Begins(b.name, y.name)
  BY TreeNames
<1>2. PICK i \in 1..Len(x.name) : x.name[i] # y.name[i]
  <2>1. x.name \in Seq(Identifiers) /\ y.name \in Seq(Identifiers)
    BY LiveTyped DEF Filled, IsName
  <2> QED BY <2>1, SeqEqual
<1> QED BY <1>1, <1>2 DEF Begins

\* The first k parts of a name.
LEMMA PartOfName ==
  ASSUME NEW name, IsName(name), NEW k \in 0..Len(name)
  PROVE  /\ IsName(SubSeq(name, 1, k)) /\ Len(SubSeq(name, 1, k)) = k
         /\ \A i \in 1..k : SubSeq(name, 1, k)[i] = name[i]
<1>1. name \in Seq(Identifiers) /\ Len(name) \in Nat
  BY DEF IsName
<1>2. \A i \in 1..k : name[i] \in Identifiers
  BY <1>1
<1>3. SubSeq(name, 1, k) \in Seq(Identifiers) /\ Len(SubSeq(name, 1, k)) = (IF 1 <= k THEN k - 1 + 1 ELSE 0)
        /\ \A i \in 1..(k - 1 + 1) : SubSeq(name, 1, k)[i] = name[1 + i - 1]
  BY <1>1, <1>2, SubSeqProperties
<1>4. k \in Nat
  BY <1>1
<1> QED BY <1>3, <1>4 DEF IsName

\* A name is a prefix of another when that begins with it.
LEMMA BeginsIsPrefix ==
  ASSUME NEW name, IsName(name), NEW s, IsName(s)
  PROVE  s \in Prefixes(name) <=> Begins(name, s)
<1>1. s \in Seq(Identifiers) /\ Len(s) \in Nat /\ Len(name) \in Nat
  BY DEF IsName
<1>2. ASSUME s \in Prefixes(name) PROVE Begins(name, s)
  <2>1. PICK k \in 0..Len(name) : s = SubSeq(name, 1, k)
    BY <1>2 DEF Prefixes
  <2> QED BY <1>1, <2>1, PartOfName DEF Begins
<1>3. ASSUME Begins(name, s) PROVE s \in Prefixes(name)
  <2>1. Len(s) \in 0..Len(name)
    BY <1>1, <1>3 DEF Begins
  <2>2. IsName(SubSeq(name, 1, Len(s))) /\ Len(SubSeq(name, 1, Len(s))) = Len(s)
          /\ \A i \in 1..Len(s) : SubSeq(name, 1, Len(s))[i] = name[i]
    BY <2>1, PartOfName
  <2>3. \A i \in 1..Len(s) : s[i] = SubSeq(name, 1, Len(s))[i]
    BY <1>3, <2>2 DEF Begins
  <2>4. s = SubSeq(name, 1, Len(s))
    BY <1>1, <2>2, <2>3, SeqEqual DEF IsName
  <2> QED BY <2>1, <2>4 DEF Prefixes
<1> QED BY <1>2, <1>3

\* A name opens a set of names when one of them begins with it.
LEMMA OpensWhen ==
  ASSUME NEW T, \A n \in T : IsName(n), NEW s, IsName(s)
  PROVE  s \in Openers(T) <=> \E n \in T : Begins(n, s)
  BY BeginsIsPrefix DEF Openers

\* The prefixes of a name have different lengths.
LEMMA PrefixesDiffer ==
  ASSUME NEW name, IsName(name), NEW s \in Prefixes(name), NEW t \in Prefixes(name), Len(s) = Len(t)
  PROVE  s = t
<1>1. PICK j \in 0..Len(name) : s = SubSeq(name, 1, j)
  BY DEF Prefixes
<1>2. PICK k \in 0..Len(name) : t = SubSeq(name, 1, k)
  BY DEF Prefixes
<1>3. j = k
  BY <1>1, <1>2, PartOfName
<1> QED BY <1>1, <1>2, <1>3

\* The scopes in which a name's search ends.
Scopes(T, container, path) ==
  {s \in Prefixes(container) :
    IF Len(path) = 1 THEN s \o path \in T ELSE Append(s, path[1]) \in Openers(T)}

\* The code's search ends in a scope when the scope declares the first component.
LEMMA EndsInScope ==
  ASSUME NEW T, T = enums \cup DOMAIN descriptors, \A n \in T : IsName(n),
         NEW s, IsName(s), NEW path, Filled(path)
  PROVE  EndsIn(s, path) <=>
           IF Len(path) = 1 THEN s \o path \in T ELSE Append(s, path[1]) \in Openers(T)
<1>1. s \in Seq(Identifiers) /\ path \in Seq(Identifiers) /\ Len(s) \in Nat /\ Len(path) \in Nat /\ Len(path) # 0
  BY EmptySeq DEF IsName, Filled
<1>2. path[1] \in Identifiers
  BY <1>1
<1>3. PICK first : first = Append(s, path[1])
  OBVIOUS
<1>4. /\ IsName(first) /\ Len(first) = Len(s) + 1 /\ first[Len(s) + 1] = path[1]
      /\ \A i \in 1..Len(s) : first[i] = s[i]
  BY <1>2, <1>3, AppendNames DEF Filled
<1>5. \A n : IsKnown(n) <=> n \in T
  BY DEF IsKnown
<1>6. CASE Len(path) = 1
  <2>1. ~(Len(path) > 1)
    BY <1>6
  <2> QED BY <1>5, <1>6, <2>1 DEF EndsIn
<1>7. CASE Len(path) # 1
  <2>1. Len(path) > 1
    <3>1. \A l \in Nat : l # 0 /\ l # 1 => l > 1
      OBVIOUS
    <3> QED BY <1>1, <1>7, <3>1
  <2>2. first \in Openers(T) <=> \E n \in T : Begins(n, first)
    BY <1>4, OpensWhen
  <2>3. ASSUME IsKnown(s \o path) PROVE Begins(s \o path, first)
    <3>1. Len(s \o path) = Len(s) + Len(path)
            /\ \A i \in 1..(Len(s) + Len(path)) :
                 (s \o path)[i] = IF i <= Len(s) THEN s[i] ELSE path[i - Len(s)]
      BY <1>1, ConcatProperties
    <3>2. Len(first) <= Len(s \o path)
      BY <1>1, <1>4, <3>1
    <3>3. ASSUME NEW i \in 1..Len(first) PROVE (s \o path)[i] = first[i]
      <4>1. CASE i <= Len(s)
        <5>1. i \in 1..Len(s) /\ i \in 1..(Len(s) + Len(path))
          BY <1>1, <1>4, <4>1
        <5> QED BY <1>4, <3>1, <4>1, <5>1
      <4>2. CASE ~(i <= Len(s))
        <5>1. i = Len(s) + 1 /\ i \in 1..(Len(s) + Len(path)) /\ i - Len(s) = 1
          BY <1>1, <1>4, <4>2
        <5>2. (s \o path)[i] = path[1]
          BY <3>1, <4>2, <5>1
        <5> QED BY <1>4, <5>1, <5>2
      <4> QED BY <4>1, <4>2
    <3> QED BY <3>2, <3>3 DEF Begins
  <2>4. IsKnown(first) => Begins(first, first)
    BY <1>4, <1>1 DEF Begins
  <2>5. ASSUME IsNamespace(first) PROVE \E n \in T : Begins(n, first)
    <3>1. PICK n \in T : Len(n) > Len(first) /\ SubSeq(n, 1, Len(first)) = first
      BY <2>5 DEF IsNamespace
    <3>2. Len(first) \in 0..Len(n) /\ IsName(n)
      BY <1>1, <1>4, <3>1 DEF IsName
    <3>3. first \in Prefixes(n)
      BY <3>1, <3>2 DEF Prefixes
    <3> QED BY <1>4, <3>2, <3>3, BeginsIsPrefix
  <2>6. ASSUME NEW n \in T, Begins(n, first) PROVE IsKnown(first) \/ IsNamespace(first)
    <3>1. IsName(n) /\ n \in Seq(Identifiers) /\ first \in Seq(Identifiers) /\ Len(n) \in Nat
            /\ Len(first) \in Nat
      BY <1>4 DEF IsName
    <3>2. Len(first) <= Len(n) /\ \A i \in 1..Len(first) : n[i] = first[i]
      BY <2>6 DEF Begins
    <3>3. CASE Len(n) = Len(first)
      <4>1. n = first
        BY <3>1, <3>2, <3>3, SeqEqual
      <4> QED BY <1>5, <4>1
    <3>4. CASE Len(n) # Len(first)
      <4>1. Len(n) > Len(first) /\ Len(first) \in 0..Len(n)
        BY <3>1, <3>2, <3>4
      <4>2. first \in Prefixes(n)
        BY <1>4, <2>6, <3>1, BeginsIsPrefix
      <4>3. PICK k \in 0..Len(n) : first = SubSeq(n, 1, k)
        BY <4>2 DEF Prefixes
      <4>4. k = Len(first)
        BY <3>1, <4>3, PartOfName
      <4> QED BY <4>1, <4>3, <4>4 DEF IsNamespace
    <3> QED BY <3>3, <3>4
  <2>7. EndsIn(s, path) <=> IsKnown(s \o path) \/ IsKnown(first) \/ IsNamespace(first)
    BY <1>3, <2>1 DEF EndsIn
  <2> QED BY <1>3, <1>5, <1>7, <2>2, <2>3, <2>4, <2>5, <2>6, <2>7
<1> QED BY <1>6, <1>7

\* The innermost of some scopes is the one of greatest length.
LEMMA InnermostIs ==
  ASSUME NEW name, IsName(name), NEW scopes \in SUBSET Prefixes(name),
         NEW s \in scopes, \A t \in scopes : Len(t) <= Len(s)
  PROVE  Innermost(scopes) = s
<1>1. \A t \in scopes : Len(t) \in Nat
  BY PartOfName DEF Prefixes, IsName
<1>2. PICK u : u = Innermost(scopes)
  OBVIOUS
<1>3. u \in scopes /\ \A t \in scopes : Len(t) <= Len(u)
  BY <1>2 DEF Innermost
<1>4. Len(u) = Len(s)
  BY <1>1, <1>3
<1> QED BY <1>2, <1>3, <1>4, PrefixesDiffer

\* The search of the code finds what the name means.
LEMMA NameIsMeaning ==
  ASSUME NEW T, T = enums \cup DOMAIN descriptors, \A n \in T : Filled(n),
         NEW container, IsName(container), NEW type, Filled(type.path)
  PROVE  /\ NameResolves(container, type) <=> Meaning(T, container, type) \in T
         /\ NameResolves(container, type) =>
              NameFor(container, type) = Meaning(T, container, type)
<1>1. \A n : IsKnown(n) <=> n \in T
  BY DEF IsKnown
<1>2. CASE type.absolute
  BY <1>1, <1>2 DEF NameResolves, NameFor, Meaning, Filled
<1>3. CASE ~type.absolute
  <2> DEFINE path == type.path
             ends == EndingScopes(container, path)
             scopes == Scopes(T, container, path)
  <2>1. \A k \in 0..Len(container) : IsName(Scope(container, k)) /\ Len(Scope(container, k)) = k
    BY PartOfName DEF Scope
  <2>2. \A k \in 0..Len(container) : k \in ends <=> Scope(container, k) \in scopes
    <3> TAKE k \in 0..Len(container)
    <3>1. EndsIn(Scope(container, k), path) <=>
            IF Len(path) = 1 THEN Scope(container, k) \o path \in T
            ELSE Append(Scope(container, k), path[1]) \in Openers(T)
      BY <2>1, EndsInScope DEF Filled
    <3>2. Scope(container, k) \in Prefixes(container)
      BY DEF Scope, Prefixes
    <3> QED BY <3>1, <3>2 DEF EndingScopes, Scopes
  <2>3. \A s \in scopes : \E k \in ends : s = Scope(container, k)
    <3> SUFFICES ASSUME NEW s \in scopes PROVE \E k \in ends : s = Scope(container, k)
      OBVIOUS
    <3>1. PICK k \in 0..Len(container) : s = Scope(container, k)
      BY DEF Scopes, Prefixes, Scope
    <3> QED BY <2>2, <3>1
  <2>4. ends \in SUBSET (0..Len(container)) /\ scopes \in SUBSET Prefixes(container) /\ Len(container) \in Nat
    BY DEF EndingScopes, Scopes, IsName
  <2>5. Meaning(T, container, type) = IF scopes = {} THEN <<>> ELSE Innermost(scopes) \o path
    BY <1>3 DEF Meaning, Scopes
  <2>6. NameFor(container, type) =
          IF ends = {} THEN path
          ELSE Scope(container, CHOOSE k \in ends : \A j \in ends : j <= k) \o path
    BY <1>3 DEF NameFor
  <2>7. NameResolves(container, type) <=> NameFor(container, type) \in T
    BY <1>1 DEF NameResolves, Filled
  <2>8. CASE ends = {}
    <3>1. scopes = {} /\ <<>> \notin T
      BY <2>3, <2>8 DEF Filled
    <3>2. path \notin T
      <4>1. 0 \in 0..Len(container) /\ 0 \notin ends
        BY <2>4, <2>8
      <4>2. Scope(container, 0) = <<>>
        BY SubSeqEmpty DEF Scope
      <4>3. <<>> \o path = path
        BY ConcatEmptySeq DEF Filled, IsName
      <4>4. ~EndsIn(Scope(container, 0), path)
        BY <4>1 DEF EndingScopes
      <4> QED BY <1>1, <4>2, <4>3, <4>4 DEF EndsIn
    <3> HIDE DEF scopes, ends, path
    <3> QED BY <2>5, <2>6, <2>7, <2>8, <3>1, <3>2
  <2>9. CASE ends # {}
    <3> HIDE DEF scopes, ends, path
    <3>1. PICK top : top = CHOOSE k \in ends : \A j \in ends : j <= k
      OBVIOUS
    <3>2. top \in ends /\ \A j \in ends : j <= top
      BY <2>4, <2>9, <3>1, GreatestNat
    <3>3. Scope(container, top) \in scopes /\ top \in 0..Len(container)
      BY <2>2, <2>4, <3>2
    <3>4. \A t \in scopes : Len(t) <= Len(Scope(container, top))
      BY <2>1, <2>3, <2>4, <3>2, <3>3
    <3>5. Innermost(scopes) = Scope(container, top)
      BY <2>4, <3>3, <3>4, InnermostIs
    <3>6. NameFor(container, type) = Meaning(T, container, type)
      BY <2>5, <2>6, <2>9, <3>1, <3>3, <3>5
    <3> QED BY <2>7, <3>6
  <2> QED BY <2>8, <2>9
<1> QED BY <1>2, <1>3

(* What a file means, said of any sequence of files. *)

\* The types and enums of the first k files, and the messages before the k-th.
TypesIn(fs, k) == UNION {MessageNames(fs[j]) \cup EnumNames(fs[j]) : j \in 1..k}

EnumsIn(fs, k) == UNION {EnumNames(fs[j]) : j \in 1..k}

MessagesBefore(fs, k) == UNION {MessageNames(fs[j]) : j \in 1..(k - 1)}

\* Meant, for any set of types and of enums among them.
MeantField(types, es, name, field) ==
  IF field.value # "Unknown" THEN field
  ELSE LET target == Meaning(types, name, field.type)
       IN  IF target \in es
           THEN OfType(field, "Enum", Unbound)
           ELSE OfType(field, "Message", [absolute |-> TRUE, path |-> target])

\* Whether a descriptor is an alias', it says itself.
MeantBy(types, es, name, d) ==
  IF d.alias.value # "None"
  THEN [alias |-> MeantField(types, es, name, d.alias), fields |-> d.fields]
  ELSE [alias |-> d.alias,
        fields |-> [n \in DOMAIN d.fields |-> MeantField(types, es, name, d.fields[n])]]

\* Every name in the message means a type.
Refers(types, name, d) ==
  \A f \in FieldsOf(d) :
    f.value = "Unknown" => f.type.path # <<>> /\ Meaning(types, name, f.type) \in types

\* No two messages of a scope of the file have the same name.
Apart(file) ==
  NamesDiffer(file.messages) /\ \A m \in LiveMessages(file) : NamesDiffer(m.message.nested)

\* Representable, for any sequence of files.
RepresentableIn(fs, k) ==
  /\ Apart(fs[k])
  /\ \A m \in LiveMessages(fs[k]) :
       /\ Describable(m.message, m.name)
       /\ m.name \notin MessagesBefore(fs, k)
       /\ Refers(TypesIn(fs, k), m.name, DescriptorOf(m.message, m.name))

\* Both say the same of the files of the pool.
LEMMA RepresentableMeans ==
  ASSUME NEW k
  PROVE  Representable(k) <=> RepresentableIn(files, k)
<1>1. \A n : n \notin MessagesBefore(files, k) <=> \A j \in 1..(k - 1) : n \notin MessageNames(files[j])
  BY DEF MessagesBefore
<1>2. TypesUpTo(k) = TypesIn(files, k)
  BY DEF TypesUpTo, TypesIn
<1> QED BY <1>1, <1>2 DEF Representable, RepresentableIn, Apart, Refers

-----------------------------------------------------------------------------
(* The calls that are still to be made and to be completed. *)

\* The message of a task, with its name.
Found(t) == [name |-> NameOf(t), message |-> t.message]

\* What a task is still to register.
Waits(file, t) == IF t.phase = "enter" THEN Tree(file, Found(t)) ELSE {Found(t)}

\* The tasks that a file can give rise to.
TaskSet(file) ==
  {t \in [phase : {"enter", "close"}, scope : Seq(Identifiers),
          message : {m.message : m \in LiveMessages(file)}] : Found(t) \in LiveMessages(file)}

\* Entering lists the registered messages, each one once.
LEMMA EnteringLists ==
  ASSUME NEW scope, NEW messages, Len(messages) \in Nat
  PROVE  LET e == Entering(scope, messages)
             live == Registered(messages)
         IN  /\ Len(e) \in Nat /\ e = [n \in 1..Len(e) |-> e[n]]
             /\ \A n \in 1..Len(e) : \E i \in live : e[n] = Task("enter", scope, messages[i])
             /\ \A i \in live : \E n \in 1..Len(e) : e[n] = Task("enter", scope, messages[i])
             /\ NamesDiffer(messages) <=>
                  \A j, n \in 1..Len(e) : e[j].message.name = e[n].message.name => j = n
<1> DEFINE e == Entering(scope, messages)
           live == Registered(messages)
           c == Cardinality(live)
<1>1. live \in SUBSET (1..Len(messages))
  BY DEF Registered, LiveOnes
<1>2. /\ c \in Nat /\ \A k \in 1..c : Nth(live, k) \in live
      /\ \A j, k \in 1..c : Nth(live, j) = Nth(live, k) => j = k
      /\ \A i \in live : \E k \in 1..c : i = Nth(live, k)
  <2> DEFINE Lists(S) == /\ Cardinality(S) \in Nat /\ \A k \in 1..Cardinality(S) : Nth(S, k) \in S
                         /\ \A j, k \in 1..Cardinality(S) : Nth(S, j) = Nth(S, k) => j = k
                         /\ \A i \in S : \E k \in 1..Cardinality(S) : i = Nth(S, k)
  <2>1. ASSUME NEW n \in Nat, NEW S \in SUBSET (1..n) PROVE Lists(S)
    BY NthLists
  <2>2. Lists(live)
    <3> HIDE DEF live, Lists
    <3> QED BY <1>1, <2>1
  <2> HIDE DEF live
  <2> QED BY <2>2
<1>3. e = [n \in 1..c |-> Task("enter", scope, messages[Nth(live, n)])]
  BY DEF Entering
<1> HIDE DEF live, c, e
<1>4. Len(e) = c
  BY <1>2, <1>3
<1>5. \A n \in 1..c : e[n] = Task("enter", scope, messages[Nth(live, n)])
  BY <1>3
<1>6. NamesDiffer(messages) <=> \A i, j \in live : messages[i].name = messages[j].name => i = j
  BY DEF NamesDiffer, live
<1>7. \A n \in 1..c : e[n].message.name = messages[Nth(live, n)].name
  <2>1. \A m : Task("enter", scope, m).message = m
    BY DEF Task
  <2> QED BY <1>5, <2>1
<1>8. NamesDiffer(messages) <=>
         \A j, n \in 1..c : e[j].message.name = e[n].message.name => j = n
  BY <1>2, <1>6, <1>7
<1>9. \A n \in 1..c : \E i \in live : e[n] = Task("enter", scope, messages[i])
  BY <1>2, <1>5
<1>10. \A i \in live : \E n \in 1..c : e[n] = Task("enter", scope, messages[i])
  BY <1>2, <1>5
<1>11. e = [n \in 1..c |-> e[n]]
  BY <1>3
<1> QED BY <1>2, <1>4, <1>8, <1>9, <1>10, <1>11 DEF e, live

\* The tasks e are those of the messages declared in a scope.
Enters(e, scope, messages) ==
  /\ \A n \in 1..Len(e) :
       /\ e[n].phase = "enter" /\ Found(e[n]) \in Declared(scope, messages)
       /\ NameOf(e[n]) = Append(scope, e[n].message.name)
       /\ e[n].message.name \in Identifiers
       /\ e[n] = Task("enter", scope, Found(e[n]).message)
  /\ \A x \in Declared(scope, messages) : \E n \in 1..Len(e) : Found(e[n]) = x
  /\ NamesDiffer(messages) <=>
       \A j, n \in 1..Len(e) : NameOf(e[j]) = NameOf(e[n]) => j = n

\* The tasks of a scope enter what is declared in it.
LEMMA EnteringDeclared ==
  ASSUME NEW scope, IsName(scope), NEW messages, Len(messages) \in Nat,
         \A i \in 1..Len(messages) : messages[i].name \in Identifiers
  PROVE  Enters(Entering(scope, messages), scope, messages)
<1> DEFINE live == Registered(messages)
<1>1. PICK e : e = Entering(scope, messages)
  OBVIOUS
<1>2. /\ \A n \in 1..Len(e) : \E i \in live : e[n] = Task("enter", scope, messages[i])
      /\ \A i \in live : \E n \in 1..Len(e) : e[n] = Task("enter", scope, messages[i])
      /\ NamesDiffer(messages) <=>
           \A j, n \in 1..Len(e) : e[j].message.name = e[n].message.name => j = n
  BY <1>1, EnteringLists, SMTT(30)
<1>3. \A i \in live : messages[i].name \in Identifiers
  BY DEF Registered, LiveOnes
<1>4. \A i \in live : Found(Task("enter", scope, messages[i])) =
                        [name |-> Append(scope, messages[i].name), message |-> messages[i]]
  BY DEF Found, NameOf, Task
<1>5. ASSUME NEW n \in 1..Len(e)
      PROVE  /\ e[n].phase = "enter" /\ Found(e[n]) \in Declared(scope, messages)
             /\ NameOf(e[n]) = Append(scope, e[n].message.name)
             /\ e[n].message.name \in Identifiers
             /\ e[n] = Task("enter", scope, Found(e[n]).message)
  <2>1. PICK i \in live : e[n] = Task("enter", scope, messages[i])
    BY <1>2
  <2>2. Found(e[n]) \in Declared(scope, messages)
    BY <1>4, <2>1 DEF Declared
  <2>3. e[n].phase = "enter" /\ e[n].scope = scope /\ e[n].message = messages[i]
    BY <2>1 DEF Task
  <2>4. NameOf(e[n]) = Append(scope, e[n].message.name)
    BY <2>3 DEF NameOf
  <2>5. Found(e[n]).message = messages[i]
    BY <2>3 DEF Found
  <2> QED BY <1>3, <2>1, <2>2, <2>3, <2>4, <2>5
<1>6. ASSUME NEW x \in Declared(scope, messages) PROVE \E n \in 1..Len(e) : Found(e[n]) = x
  <2>1. PICK i \in live : x = [name |-> Append(scope, messages[i].name), message |-> messages[i]]
    BY DEF Declared
  <2>2. PICK n \in 1..Len(e) : e[n] = Task("enter", scope, messages[i])
    BY <1>2
  <2>3. Found(e[n]) = x
    BY <1>4, <2>1, <2>2
  <2> QED BY <2>3
<1>7. \A j, n \in 1..Len(e) :
         NameOf(e[j]) = NameOf(e[n]) <=> e[j].message.name = e[n].message.name
  <2> SUFFICES ASSUME NEW j \in 1..Len(e), NEW n \in 1..Len(e)
               PROVE  NameOf(e[j]) = NameOf(e[n]) <=> e[j].message.name = e[n].message.name
    OBVIOUS
  <2>1. \A a, b \in Identifiers : Append(scope, a) = Append(scope, b) => a = b
    BY AppendInjective DEF IsName
  <2>2. NameOf(e[j]) = Append(scope, e[j].message.name) /\ e[j].message.name \in Identifiers
    BY <1>5
  <2>3. NameOf(e[n]) = Append(scope, e[n].message.name) /\ e[n].message.name \in Identifiers
    BY <1>5
  <2>4. PICK a \in Identifiers, b \in Identifiers : a = e[j].message.name /\ b = e[n].message.name
    BY <2>2, <2>3
  <2> QED BY <2>1, <2>2, <2>3, <2>4
<1> HIDE DEF live
<1> QED BY <1>1, <1>2, <1>5, <1>6, <1>7 DEF Enters

\* What a task is about.
LEMMA TaskTyped ==
  ASSUME NEW file \in Files, NEW t \in TaskSet(file)
  PROVE  /\ Found(t) \in LiveMessages(file) /\ Found(t).name = NameOf(t) /\ Found(t).message = t.message
         /\ Filled(NameOf(t)) /\ WellFormed(t.message)
         /\ Waits(file, t) \subseteq LiveMessages(file) /\ Found(t) \in Waits(file, t)
         /\ Task("close", t.scope, t.message) \in TaskSet(file)
         /\ Found(Task("close", t.scope, t.message)) = Found(t)
<1>1. Found(t) \in LiveMessages(file) /\ Found(t).name = NameOf(t) /\ Found(t).message = t.message
  BY DEF TaskSet, Found
<1>2. Found(Task("close", t.scope, t.message)) = Found(t)
  BY DEF Found, NameOf, Task
<1>3. Task("close", t.scope, t.message) \in TaskSet(file)
  BY <1>1, <1>2 DEF TaskSet, Task
<1>4. Waits(file, t) \subseteq LiveMessages(file)
  BY <1>1 DEF Waits, Tree
<1>5. Found(t) \in Waits(file, t)
  BY <1>1, TreeHasRoot DEF Waits
<1> QED BY <1>1, <1>2, <1>3, <1>4, <1>5, LiveTyped

\* The tasks that a declaration adds.
LEMMA EnteringTasks ==
  ASSUME NEW file \in Files, NEW scope, IsName(scope), NEW messages, Len(messages) \in Nat,
         \A i \in 1..Len(messages) : messages[i].name \in Identifiers,
         Declared(scope, messages) \subseteq LiveMessages(file)
  PROVE  Entering(scope, messages) \in Seq(TaskSet(file))
<1>1. PICK e : e = Entering(scope, messages)
  OBVIOUS
<1>2. Len(e) \in Nat /\ e = [n \in 1..Len(e) |-> e[n]]
  BY <1>1, EnteringLists
<1>3. ASSUME NEW n \in 1..Len(e) PROVE e[n] \in TaskSet(file)
  <2>1. /\ e[n].phase = "enter" /\ Found(e[n]) \in LiveMessages(file)
        /\ e[n] = Task("enter", scope, Found(e[n]).message)
    BY <1>1, EnteringDeclared DEF Enters
  <2>2. scope \in Seq(Identifiers) /\ Found(e[n]).message \in {m.message : m \in LiveMessages(file)}
    BY <2>1 DEF IsName
  <2> QED BY <2>1, <2>2 DEF TaskSet, Task
<1>4. e \in [1..Len(e) -> TaskSet(file)]
  BY <1>2, <1>3
<1> QED BY <1>1, <1>2, <1>4

\* A message that is registered: described, and bound unless it is listed.
Described(types, es, old, pool, list, d) ==
  /\ Describable(d.message, d.name)
  /\ d.name \in DOMAIN pool /\ d.name \notin old
  /\ Listed(d.name, list) => pool[d.name] = DescriptorOf(d.message, d.name)
  /\ ~Listed(d.name, list) =>
       /\ Refers(types, d.name, DescriptorOf(d.message, d.name))
       /\ pool[d.name] = MeantBy(types, es, d.name, DescriptorOf(d.message, d.name))

\* The list has messages of this file that are described, each one once.
NamesOk(file, types, es, old, pool, list) ==
  /\ list \in Seq(DOMAIN pool)
  /\ \A i, j \in 1..Len(list) : list[i] = list[j] => i = j
  /\ \A i \in 1..Len(list) :
       \E d \in LiveMessages(file) : d.name = list[i] /\ Described(types, es, old, pool, list, d)

\* The pool has the older messages, and no others but this file's.
PoolOk(file, old, pool) ==
  old \subseteq DOMAIN pool /\ DOMAIN pool \subseteq old \cup MessageNames(file)

\* An enum that is not known yet is one of a message that is to be entered.
EnumsOk(file, es, known, todo) ==
  /\ known \subseteq es
  /\ \A e \in es \ known : \E i \in 1..Len(todo) :
       todo[i].phase = "enter"
         /\ \E d \in Tree(file, Found(todo[i])) : e \in LiveEnums(d.name, d.message.enums)

\* Every message of the file is described, or waits.
Covered(file, types, es, old, pool, list, todo) ==
  \A d \in LiveMessages(file) :
    Described(types, es, old, pool, list, d) \/ \E i \in 1..Len(todo) : d \in Waits(file, todo[i])

\* When no two names of the file are alike, what waits is not in the pool yet.
StayApart(file, old, pool, todo) ==
  Apart(file) =>
    /\ \A i, j \in 1..Len(todo) : i < j =>
         \A a \in Waits(file, todo[i]), b \in Waits(file, todo[j]) : a.name # b.name
    /\ \A i \in 1..Len(todo) : \A a \in Waits(file, todo[i]) : a.name \in DOMAIN pool => a.name \in old

\* When nothing that waits is alike, or like what is in the pool, nothing was.
Clean(file, pool, todo) ==
  /\ \A i, j \in 1..Len(todo) : i < j => NameOf(todo[i]) # NameOf(todo[j])
  /\ \A i \in 1..Len(todo) : NameOf(todo[i]) \notin DOMAIN pool
  /\ \A i \in 1..Len(todo) : todo[i].phase = "enter" =>
       \A d \in Tree(file, Found(todo[i])) : NamesDiffer(d.message.nested)

\* What is so all through a call that reads `file`.
Work(file, types, es, old, pool, list, todo, known) ==
  /\ todo \in Seq(TaskSet(file))
  /\ NamesOk(file, types, es, old, pool, list)
  /\ PoolOk(file, old, pool)
  /\ EnumsOk(file, es, known, todo)
  /\ Covered(file, types, es, old, pool, list, todo)
  /\ StayApart(file, old, pool, todo)
  /\ Clean(file, pool, todo) => Apart(file)

-----------------------------------------------------------------------------
\* q is e, c, and all of todo but its first.
Pushes(q, e, c, todo) ==
  /\ Len(q) = Len(e) + Len(todo) /\ Len(e) \in Nat /\ Len(todo) \in Nat \ {0}
  /\ \A i \in 1..Len(e) : i \in 1..Len(q) /\ q[i] = e[i]
  /\ Len(e) + 1 \in 1..Len(q) /\ q[Len(e) + 1] = c
  /\ \A i \in 2..Len(todo) : Len(e) + i \in 1..Len(q) /\ q[Len(e) + i] = todo[i]
  /\ \A i \in 1..Len(q) :
       i \in 1..Len(e) \/ i = Len(e) + 1 \/ \E j \in 2..Len(todo) : i = Len(e) + j

\* The tasks of a message, its completion and the tasks behind it, put together.
LEMMA Pushed ==
  ASSUME NEW S, NEW e \in Seq(S), NEW c \in S, NEW todo \in Seq(S), todo # <<>>,
         NEW q, q = e \o <<c>> \o Tail(todo)
  PROVE  q \in Seq(S) /\ Pushes(q, e, c, todo)
<1>1. Len(e) \in Nat /\ Len(todo) \in Nat \ {0} /\ <<c>> \in Seq(S) /\ Len(<<c>>) = 1 /\ <<c>>[1] = c
  BY EmptySeq
<1>2. PICK p : p = e \o <<c>>
  OBVIOUS
<1>3. /\ p \in Seq(S) /\ Len(p) = Len(e) + 1
      /\ \A i \in 1..(Len(e) + 1) : p[i] = IF i <= Len(e) THEN e[i] ELSE <<c>>[i - Len(e)]
  BY <1>1, <1>2, ConcatProperties
<1>4. /\ Tail(todo) \in Seq(S) /\ Len(Tail(todo)) = Len(todo) - 1
      /\ \A i \in 1..Len(Tail(todo)) : Tail(todo)[i] = todo[i + 1]
  BY HeadTailProperties
<1>5. /\ q \in Seq(S) /\ Len(q) = Len(p) + Len(Tail(todo))
      /\ \A i \in 1..(Len(p) + Len(Tail(todo))) : q[i] = IF i <= Len(p) THEN p[i] ELSE Tail(todo)[i - Len(p)]
  BY <1>2, <1>3, <1>4, ConcatProperties
<1>6. Len(q) = Len(e) + Len(todo)
  BY <1>1, <1>3, <1>4, <1>5
<1>7. ASSUME NEW i \in 1..Len(e) PROVE i \in 1..Len(q) /\ q[i] = e[i]
  <2>1. i \in 1..(Len(e) + 1) /\ i \in 1..Len(q) /\ i <= Len(p) /\ i <= Len(e)
    BY <1>1, <1>3, <1>6
  <2> QED BY <1>3, <1>5, <2>1
<1>8. Len(e) + 1 \in 1..Len(q) /\ q[Len(e) + 1] = c
  <2>1. PICK i : i = Len(e) + 1
    OBVIOUS
  <2>2. i \in 1..Len(q) /\ i \in 1..(Len(e) + 1) /\ i <= Len(p) /\ ~(i <= Len(e)) /\ i - Len(e) = 1
    BY <1>1, <1>3, <1>6, <2>1
  <2>3. q[i] = p[i] /\ p[i] = <<c>>[1]
    BY <1>3, <1>5, <2>2
  <2> QED BY <1>1, <2>1, <2>2, <2>3
<1>9. ASSUME NEW i \in 2..Len(todo) PROVE Len(e) + i \in 1..Len(q) /\ q[Len(e) + i] = todo[i]
  <2>1. PICK j : j = Len(e) + i
    OBVIOUS
  <2>2. j \in 1..Len(q) /\ ~(j <= Len(p)) /\ j - Len(p) = i - 1 /\ i - 1 \in 1..Len(Tail(todo)) /\ (i - 1) + 1 = i
    BY <1>1, <1>3, <1>4, <1>6, <2>1
  <2>3. q[j] = Tail(todo)[i - 1] /\ Tail(todo)[i - 1] = todo[i]
    BY <1>4, <1>5, <2>2
  <2> QED BY <2>1, <2>2, <2>3
<1>10. ASSUME NEW i \in 1..Len(q)
       PROVE  i \in 1..Len(e) \/ i = Len(e) + 1 \/ \E j \in 2..Len(todo) : i = Len(e) + j
  <2> SUFFICES ASSUME i \notin 1..Len(e), i # Len(e) + 1
               PROVE  \E j \in 2..Len(todo) : i = Len(e) + j
    OBVIOUS
  <2>1. i - Len(e) \in 2..Len(todo) /\ i = Len(e) + (i - Len(e))
    BY <1>1, <1>6
  <2> QED BY <2>1
<1> QED BY <1>1, <1>5, <1>6, <1>7, <1>8, <1>9, <1>10 DEF Pushes

\* A message is entered: it waits to be completed, after those nested in it.
LEMMA EnterTasks ==
  ASSUME NEW file \in Files, NEW todo \in Seq(TaskSet(file)), todo # <<>>,
         NEW t, t = Head(todo), NEW x, x = Found(t)
  PROVE  LET e == Entering(NameOf(t), t.message.nested)
             c == Task("close", t.scope, t.message)
         IN  /\ e \in Seq(TaskSet(file)) /\ c \in TaskSet(file) /\ Enters(e, x.name, x.message.nested)
             /\ c.phase = "close" /\ Found(c) = x /\ NameOf(c) = x.name
             /\ x \in LiveMessages(file) /\ x.name = NameOf(t) /\ x.message = t.message /\ t = todo[1]
<1>1. t \in TaskSet(file) /\ t = todo[1]
  BY EmptySeq
<1>2. /\ x \in LiveMessages(file) /\ x.name = NameOf(t) /\ x.message = t.message
      /\ Filled(NameOf(t)) /\ WellFormed(t.message)
      /\ Task("close", t.scope, t.message) \in TaskSet(file)
      /\ Found(Task("close", t.scope, t.message)) = x
  BY <1>1, TaskTyped
<1>3. IsName(NameOf(t)) /\ Len(t.message.nested) \in Nat
  BY <1>2 DEF Filled, WellFormed
<1>4. \A i \in 1..Len(t.message.nested) : t.message.nested[i].name \in Identifiers
  BY <1>2 DEF WellFormed
<1>5. Declared(NameOf(t), t.message.nested) = Kids(x)
  BY <1>2 DEF Kids
<1>6. PICK e : e = Entering(NameOf(t), t.message.nested)
  OBVIOUS
<1>7. e \in Seq(TaskSet(file))
  BY <1>2, <1>3, <1>4, <1>5, <1>6, LiveHasNested, EnteringTasks
<1>9. Enters(e, x.name, x.message.nested)
  BY <1>2, <1>3, <1>4, <1>6, EnteringDeclared
<1>10. PICK c : c = Task("close", t.scope, t.message)
  OBVIOUS
<1>11. c.phase = "close" /\ Found(c) = x
  BY <1>2, <1>10 DEF Task
<1>12. NameOf(c) = x.name
  BY <1>11 DEF Found
<1> QED BY <1>1, <1>2, <1>6, <1>7, <1>9, <1>10, <1>11, <1>12

\* Entering a message leaves Work true.
LEMMA EnterWork ==
  ASSUME NEW file \in Files, NEW types, NEW es, NEW old, NEW pool, NEW list, NEW todo, NEW known,
         Work(file, types, es, old, pool, list, todo, known),
         \A e \in LiveMessages(file) : LiveEnums(e.name, e.message.enums) \subseteq es,
         NEW t, t = todo[1], t.phase = "enter", NEW x, x = Found(t), x \in LiveMessages(file),
         x.name = NameOf(t), x.message = t.message,
         NEW e, Enters(e, x.name, x.message.nested), NEW c, c.phase = "close", Found(c) = x, NameOf(c) = x.name,
         NEW todo2, todo2 \in Seq(TaskSet(file)), Pushes(todo2, e, c, todo),
         NEW known2, known2 = known \cup LiveEnums(NameOf(t), t.message.enums)
  PROVE  Work(file, types, es, old, pool, list, todo2, known2)
<1>1. t = todo[1] /\ 1 \in 1..Len(todo) /\ Len(todo) \in Nat /\ Len(e) \in Nat
  BY DEF Pushes
<1>2. x = Found(t)
  OBVIOUS
<1>3. x \in LiveMessages(file) /\ x.name = NameOf(t) /\ x.message = t.message
  OBVIOUS
<1>4. IsName(x.name)
  BY LiveTyped DEF Filled
<1>5. \A i \in 1..Len(e) : i \in 1..Len(todo2) /\ todo2[i] = e[i]
  BY DEF Pushes
<1>6. Len(e) + 1 \in 1..Len(todo2) /\ todo2[Len(e) + 1] = c
  BY DEF Pushes
<1>7. \A i \in 2..Len(todo) : Len(e) + i \in 1..Len(todo2) /\ todo2[Len(e) + i] = todo[i]
  BY DEF Pushes
<1>8. \A i \in 1..Len(todo2) :
           i \in 1..Len(e) \/ i = Len(e) + 1 \/ \E j \in 2..Len(todo) : i = Len(e) + j
  BY DEF Pushes
<1>9. /\ \A n \in 1..Len(e) :
           /\ e[n].phase = "enter" /\ Found(e[n]) \in Kids(x)
           /\ NameOf(e[n]) = Append(x.name, e[n].message.name)
           /\ e[n].message.name \in Identifiers
      /\ \A y \in Kids(x) : \E n \in 1..Len(e) : Found(e[n]) = y
      /\ NamesDiffer(x.message.nested) <=>
           \A j, n \in 1..Len(e) : NameOf(e[j]) = NameOf(e[n]) => j = n
  BY DEF Enters, Kids
<1>10. c.phase = "close" /\ Found(c) = x /\ NameOf(c) = NameOf(t) /\ Waits(file, c) = {x}
  BY <1>3 DEF Waits
<1>11. Waits(file, t) = Tree(file, x) /\ Tree(file, x) = {x} \cup UNION {Tree(file, y) : y \in Kids(x)}
  BY <1>2, <1>3, TreeSplit DEF Waits
<1>12. \A n \in 1..Len(e) :
         /\ Waits(file, e[n]) = Tree(file, Found(e[n])) /\ Found(e[n]) \in LiveMessages(file)
         /\ Waits(file, e[n]) \subseteq Waits(file, t)
         /\ Len(Found(e[n]).name) = Len(x.name) + 1 /\ Found(e[n]).name = NameOf(e[n])
  <2> SUFFICES ASSUME NEW n \in 1..Len(e)
               PROVE /\ Waits(file, e[n]) = Tree(file, Found(e[n])) /\ Found(e[n]) \in LiveMessages(file)
                     /\ Waits(file, e[n]) \subseteq Waits(file, t)
                     /\ Len(Found(e[n]).name) = Len(x.name) + 1 /\ Found(e[n]).name = NameOf(e[n])
    OBVIOUS
  <2>1. Waits(file, e[n]) = Tree(file, Found(e[n])) /\ Found(e[n]) \in LiveMessages(file)
    BY <1>3, <1>9, LiveHasNested DEF Waits
  <2>2. Waits(file, e[n]) \subseteq Waits(file, t)
    BY <1>9, <1>11, <2>1
  <2>3. Found(e[n]).name = NameOf(e[n])
    BY DEF Found
  <2>4. Len(NameOf(e[n])) = Len(NameOf(t)) + 1
    BY <1>4, <1>9, AppendNames
  <2> QED BY <1>3, <2>1, <2>2, <2>3, <2>4
<1>13. EnumsOk(file, es, known2, todo2)
  <2>1. known2 \subseteq es
    BY <1>3 DEF Work, EnumsOk
  <2>2. ASSUME NEW m \in es \ known2
        PROVE  \E i \in 1..Len(todo2) : todo2[i].phase = "enter"
                 /\ \E d \in Tree(file, Found(todo2[i])) : m \in LiveEnums(d.name, d.message.enums)
    <3>0. m \in es \ known
      BY <2>2
    <3>4. PICK i \in 1..Len(todo) :
            todo[i].phase = "enter"
              /\ \E d \in Tree(file, Found(todo[i])) : m \in LiveEnums(d.name, d.message.enums)
      BY <3>0 DEF Work, EnumsOk
    <3>1. PICK d \in Tree(file, Found(todo[i])) :
            todo[i].phase = "enter" /\ m \in LiveEnums(d.name, d.message.enums)
      BY <3>4
    <3>2. CASE i = 1
      <4>1. d # x /\ d \in Tree(file, x)
        BY <1>1, <1>2, <1>3, <2>2, <3>1, <3>2
      <4>2. PICK y \in Kids(x) : d \in Tree(file, y)
        BY <1>11, <4>1
      <4>3. PICK n \in 1..Len(e) : Found(e[n]) = y
        BY <1>9
      <4>4. n \in 1..Len(todo2) /\ todo2[n] = e[n]
        BY <1>5, <1>6, <1>7, <1>8, <4>3
      <4>5. e[n].phase = "enter"
        BY <1>9
      <4> QED BY <3>1, <4>2, <4>3, <4>4, <4>5
    <3>3. CASE i # 1
      <4>1. i \in 2..Len(todo)
        BY <1>1, <3>3
      <4> QED BY <1>5, <1>6, <1>7, <1>8, <3>1, <4>1
    <3> QED BY <3>2, <3>3
  <2> QED BY <2>1, <2>2 DEF EnumsOk
<1>14. Covered(file, types, es, old, pool, list, todo2)
  <2> SUFFICES ASSUME NEW d \in LiveMessages(file), ~Described(types, es, old, pool, list, d)
               PROVE  \E i \in 1..Len(todo2) : d \in Waits(file, todo2[i])
    BY DEF Covered
  <2>1. PICK i \in 1..Len(todo) : d \in Waits(file, todo[i])
    BY DEF Work, Covered
  <2>2. CASE i = 1
    <3>1. d \in Tree(file, x)
      BY <1>1, <1>11, <2>1, <2>2
    <3>2. CASE d = x
      BY <1>5, <1>6, <1>7, <1>8, <1>10, <3>2
    <3>3. CASE d # x
      <4>1. PICK y \in Kids(x) : d \in Tree(file, y)
        BY <1>11, <3>1, <3>3
      <4>2. PICK n \in 1..Len(e) : Found(e[n]) = y
        BY <1>9
      <4> QED BY <1>5, <1>6, <1>7, <1>8, <1>12, <4>1, <4>2
    <3> QED BY <3>2, <3>3
  <2>3. CASE i # 1
    <3>1. i \in 2..Len(todo)
      BY <1>1, <2>3
    <3> QED BY <1>5, <1>6, <1>7, <1>8, <2>1, <3>1
  <2> QED BY <2>2, <2>3
<1>15. StayApart(file, old, pool, todo2)
  <2> SUFFICES ASSUME Apart(file)
               PROVE  /\ \A i, j \in 1..Len(todo2) : i < j =>
                           \A a \in Waits(file, todo2[i]), b \in Waits(file, todo2[j]) : a.name # b.name
                      /\ \A i \in 1..Len(todo2) : \A a \in Waits(file, todo2[i]) :
                           a.name \in DOMAIN pool => a.name \in old
    BY DEF StayApart
  <2>1. /\ \A i, j \in 1..Len(todo) : i < j =>
             \A a \in Waits(file, todo[i]), b \in Waits(file, todo[j]) : a.name # b.name
        /\ \A i \in 1..Len(todo) : \A a \in Waits(file, todo[i]) : a.name \in DOMAIN pool => a.name \in old
    BY DEF Work, StayApart
  <2>2. \A i \in 1..(Len(e) + 1) : Waits(file, todo2[i]) \subseteq Waits(file, t)
    <3> SUFFICES ASSUME NEW i \in 1..(Len(e) + 1), i \notin 1..Len(e)
                 PROVE  Waits(file, todo2[i]) \subseteq Waits(file, t)
      BY <1>5, <1>6, <1>7, <1>8, <1>12
    <3>1. i = Len(e) + 1
      BY <1>8
    <3> QED BY <1>5, <1>6, <1>7, <1>8, <1>10, <1>11, <3>1
  <2>3. ASSUME NEW i \in 1..Len(todo2), NEW j \in 1..Len(todo2), i < j,
               NEW a \in Waits(file, todo2[i]), NEW b \in Waits(file, todo2[j])
        PROVE  a.name # b.name
    <3>1. CASE j \in 1..Len(e)
      <4>1. i \in 1..Len(e) /\ i # j
        BY <2>3, <3>1
      <4>2. PICK y, z : y = Found(e[i]) /\ z = Found(e[j])
        OBVIOUS
      <4>3. a \in Tree(file, y) /\ b \in Tree(file, z) /\ y \in LiveMessages(file) /\ z \in LiveMessages(file)
              /\ Len(y.name) = Len(z.name)
        BY <1>5, <1>6, <1>7, <1>8, <1>12, <3>1, <4>1, <4>2
      <4>4. NamesDiffer(x.message.nested)
        BY <1>3 DEF Apart
      <4>5. y.name # z.name
        <5>1. y.name = NameOf(e[i]) /\ z.name = NameOf(e[j])
          BY <4>2 DEF Found
        <5>2. NameOf(e[i]) # NameOf(e[j])
          BY <1>9, <3>1, <4>1, <4>4
        <5> QED BY <5>1, <5>2
      <4> QED BY <4>3, <4>5, TreesApart
    <3>2. CASE j = Len(e) + 1
      <4>1. i \in 1..Len(e)
        BY <1>5, <1>6, <1>7, <1>8, <2>3, <3>2
      <4>2. b = x /\ a \in Tree(file, Found(e[i])) /\ Found(e[i]) \in LiveMessages(file)
        BY <1>5, <1>6, <1>7, <1>8, <1>10, <1>12, <3>2, <4>1
      <4>3. Len(a.name) >= Len(x.name) + 1 /\ Len(x.name) \in Nat
        <5>1. Len(Found(e[i]).name) <= Len(a.name)
          BY <4>2, TreeNames DEF Begins
        <5>2. Len(x.name) \in Nat /\ Len(Found(e[i]).name) = Len(x.name) + 1
          BY <1>3, <1>12, <4>1, LiveTyped DEF Filled, IsName
        <5>3. Len(a.name) \in Nat
          BY <1>5, <1>6, <1>7, <1>8, <1>12, <4>1, <4>2, LiveTyped DEF Filled, IsName, Tree
        <5> QED BY <5>1, <5>2, <5>3
      <4> QED BY <4>2, <4>3
    <3>3. ASSUME NEW l \in 2..Len(todo), j = Len(e) + l PROVE a.name # b.name
      <4>1. b \in Waits(file, todo[l]) /\ l \in 1..Len(todo) /\ 1 < l
        BY <1>1, <1>5, <1>6, <1>7, <1>8, <3>3
      <4>2. CASE i \in 1..(Len(e) + 1)
        <5>1. a \in Waits(file, todo[1])
          BY <1>1, <2>2, <4>2
        <5> QED BY <1>1, <2>1, <4>1, <5>1
      <4>3. CASE i \notin 1..(Len(e) + 1)
        <5>1. PICK k \in 2..Len(todo) : i = Len(e) + k
          <6>1. i \notin 1..Len(e) /\ i # Len(e) + 1
            BY <1>1, <4>3
          <6> QED BY <1>8, <6>1
        <5>2. a \in Waits(file, todo[k]) /\ k \in 1..Len(todo) /\ k < l
          BY <1>1, <1>5, <1>6, <1>7, <1>8, <2>3, <3>3, <5>1
        <5> QED BY <2>1, <4>1, <5>2
      <4> QED BY <4>2, <4>3
    <3> QED BY <1>5, <1>6, <1>7, <1>8, <3>1, <3>2, <3>3
  <2>4. ASSUME NEW i \in 1..Len(todo2), NEW a \in Waits(file, todo2[i]), a.name \in DOMAIN pool
        PROVE  a.name \in old
    <3>1. CASE i \in 1..(Len(e) + 1)
      <4>1. a \in Waits(file, todo[1])
        BY <1>1, <2>2, <3>1
      <4> QED BY <1>1, <2>1, <2>4, <4>1
    <3>2. CASE i \notin 1..(Len(e) + 1)
      <4>1. PICK k \in 2..Len(todo) : i = Len(e) + k
        BY <1>5, <1>6, <1>7, <1>8, <3>2
      <4>2. a \in Waits(file, todo[k]) /\ k \in 1..Len(todo)
        BY <1>1, <1>5, <1>6, <1>7, <1>8, <4>1
      <4> QED BY <2>1, <2>4, <4>2
    <3> QED BY <3>1, <3>2
  <2> QED BY <2>3, <2>4
<1>16. Clean(file, pool, todo2) => Apart(file)
  <2> SUFFICES ASSUME Clean(file, pool, todo2) PROVE Clean(file, pool, todo)
    BY DEF Work
  <2>1. /\ \A i, j \in 1..Len(todo2) : i < j => NameOf(todo2[i]) # NameOf(todo2[j])
        /\ \A i \in 1..Len(todo2) : NameOf(todo2[i]) \notin DOMAIN pool
        /\ \A i \in 1..Len(todo2) : todo2[i].phase = "enter" =>
             \A d \in Tree(file, Found(todo2[i])) : NamesDiffer(d.message.nested)
    BY DEF Clean
  <2>2. \A i \in 1..Len(todo) :
          /\ Len(e) + i \in 1..Len(todo2) /\ NameOf(todo2[Len(e) + i]) = NameOf(todo[i])
          /\ i # 1 => todo2[Len(e) + i] = todo[i]
    <3> SUFFICES ASSUME NEW i \in 1..Len(todo)
                 PROVE  /\ Len(e) + i \in 1..Len(todo2) /\ NameOf(todo2[Len(e) + i]) = NameOf(todo[i])
                        /\ i # 1 => todo2[Len(e) + i] = todo[i]
      OBVIOUS
    <3>1. i = 1 \/ i \in 2..Len(todo)
      BY <1>1
    <3> QED BY <1>1, <1>5, <1>6, <1>7, <1>8, <1>10, <3>1
  <2>3. ASSUME NEW i \in 1..Len(todo), NEW j \in 1..Len(todo), i < j
        PROVE  NameOf(todo[i]) # NameOf(todo[j])
    <3>1. Len(e) + i < Len(e) + j
      BY <1>5, <1>6, <1>7, <1>8, <2>3
    <3> QED BY <2>1, <2>2, <3>1
  <2>4. \A i \in 1..Len(todo) : NameOf(todo[i]) \notin DOMAIN pool
    BY <2>1, <2>2
  <2>5. ASSUME NEW i \in 1..Len(todo), todo[i].phase = "enter", NEW d \in Tree(file, Found(todo[i]))
        PROVE  NamesDiffer(d.message.nested)
    <3>1. CASE i # 1
      BY <2>1, <2>2, <2>5, <3>1
    <3>2. CASE i = 1 /\ d = x
      <4>1. \A j, n \in 1..Len(e) : j < n => NameOf(e[j]) # NameOf(e[n])
        BY <1>5, <1>6, <1>7, <1>8, <2>1
      <4>2. ASSUME NEW j \in 1..Len(e), NEW n \in 1..Len(e), j # n PROVE NameOf(e[j]) # NameOf(e[n])
        <5>1. j < n \/ n < j
          BY <4>2
        <5> QED BY <4>1, <5>1
      <4> QED BY <1>9, <3>2, <4>2
    <3>3. CASE i = 1 /\ d # x
      <4>1. PICK y \in Kids(x) : d \in Tree(file, y)
        BY <1>1, <1>2, <1>11, <3>3
      <4>2. PICK n \in 1..Len(e) : Found(e[n]) = y
        BY <1>9
      <4> QED BY <1>5, <1>6, <1>7, <1>8, <1>9, <2>1, <4>1, <4>2
    <3> QED BY <3>1, <3>2, <3>3
  <2> QED BY <2>3, <2>4, <2>5 DEF Clean
<1> QED BY <1>13, <1>14, <1>15, <1>16 DEF Work

\* A sequence without its first element.
LEMMA Rest ==
  ASSUME NEW S, NEW s \in Seq(S), s # <<>>
  PROVE  /\ Tail(s) \in Seq(S) /\ Len(s) \in Nat \ {0} /\ Len(Tail(s)) = Len(s) - 1
         /\ Head(s) = s[1] /\ 1 \in 1..Len(s) /\ Head(s) \in S
         /\ \A i \in 1..Len(Tail(s)) : i + 1 \in 2..Len(s) /\ Tail(s)[i] = s[i + 1]
         /\ \A i \in 2..Len(s) : i - 1 \in 1..Len(Tail(s)) /\ Tail(s)[i - 1] = s[i]
<1>1. Len(s) \in Nat \ {0}
  BY EmptySeq
<1>2. Tail(s) \in Seq(S) /\ Len(Tail(s)) = Len(s) - 1 /\ \A i \in 1..Len(Tail(s)) : Tail(s)[i] = s[i + 1]
  BY HeadTailProperties
<1>3. Head(s) = s[1] /\ 1 \in 1..Len(s) /\ Head(s) \in S
  BY <1>1
<1>4. \A i \in 1..Len(Tail(s)) : i + 1 \in 2..Len(s)
  BY <1>1, <1>2
<1>5. ASSUME NEW i \in 2..Len(s) PROVE i - 1 \in 1..Len(Tail(s)) /\ Tail(s)[i - 1] = s[i]
  <2>1. i - 1 \in 1..Len(Tail(s)) /\ (i - 1) + 1 = i
    BY <1>1, <1>2
  <2> QED BY <1>2, <2>1
<1> QED BY <1>1, <1>2, <1>3, <1>4, <1>5

\* A message is completed.
LEMMA InsertWork ==
  ASSUME NEW file \in Files, NEW types, NEW es, NEW old, NEW pool, NEW list, NEW todo, NEW known,
         Work(file, types, es, old, pool, list, todo, known),
         todo # <<>>, NEW t, t = Head(todo), t.phase = "close",
         Describable(t.message, NameOf(t)), NameOf(t) \notin DOMAIN pool,
         NEW pool2, pool2 = [n \in DOMAIN pool \cup {NameOf(t)} |->
                              IF n = NameOf(t) THEN DescriptorOf(t.message, NameOf(t)) ELSE pool[n]],
         NEW list2, list2 = Append(list, NameOf(t)),
         NEW todo2, todo2 = Tail(todo)
  PROVE  Work(file, types, es, old, pool2, list2, todo2, known)
<1>1. /\ todo \in Seq(TaskSet(file)) /\ t \in TaskSet(file) /\ t = todo[1] /\ 1 \in 1..Len(todo)
      /\ todo2 \in Seq(TaskSet(file)) /\ Len(todo) \in Nat /\ Len(todo2) \in Nat
      /\ \A i \in 1..Len(todo2) : i + 1 \in 2..Len(todo) /\ todo2[i] = todo[i + 1]
      /\ \A i \in 2..Len(todo) : i - 1 \in 1..Len(todo2) /\ todo2[i - 1] = todo[i]
  BY Rest DEF Work
<1>2. PICK x, name : x = Found(t) /\ name = NameOf(t)
  OBVIOUS
<1>3. /\ x \in LiveMessages(file) /\ x.name = name /\ x.message = t.message
      /\ Waits(file, t) = {x}
  BY <1>1, <1>2, TaskTyped DEF Waits
<1>4. /\ DOMAIN pool2 = DOMAIN pool \cup {name} /\ name \notin DOMAIN pool /\ name \notin old
      /\ pool2[name] = DescriptorOf(x.message, name)
      /\ \A n \in DOMAIN pool : pool2[n] = pool[n] /\ n # name
  BY <1>2, <1>3 DEF Work, PoolOk
<1>5. /\ list \in Seq(DOMAIN pool) /\ list2 \in Seq(DOMAIN pool2) /\ Len(list) \in Nat
      /\ Len(list2) = Len(list) + 1 /\ list2[Len(list) + 1] = name
      /\ \A i \in 1..Len(list) : list2[i] = list[i] /\ list[i] \in DOMAIN pool
  <2>1. list \in Seq(DOMAIN pool)
    BY DEF Work, NamesOk
  <2>2. list \in Seq(DOMAIN pool2) /\ name \in DOMAIN pool2 /\ list2 = Append(list, name)
    BY <1>2, <1>4, <2>1, SeqMonotonic
  <2> QED BY <2>1, <2>2, AppendProperties, ElementOfSeq
<1>6. \A n : Listed(n, list2) <=> n = name \/ Listed(n, list)
  <2> SUFFICES ASSUME NEW n PROVE Listed(n, list2) <=> n = name \/ Listed(n, list)
    OBVIOUS
  <2>1. \A i \in 1..Len(list2) : i \in 1..Len(list) \/ i = Len(list) + 1
    BY <1>5
  <2>2. Len(list) + 1 \in 1..Len(list2) /\ \A i \in 1..Len(list) : i \in 1..Len(list2)
    BY <1>5
  <2> QED BY <1>5, <2>1, <2>2 DEF Listed
<1>7. ASSUME NEW d \in LiveMessages(file), Described(types, es, old, pool, list, d)
      PROVE  Described(types, es, old, pool2, list2, d)
  BY <1>4, <1>6, <1>7 DEF Described
<1>8. Described(types, es, old, pool2, list2, x)
  BY <1>2, <1>3, <1>4, <1>6 DEF Described
<1>9. NamesOk(file, types, es, old, pool2, list2)
  <2>1. ASSUME NEW i \in 1..Len(list2), NEW j \in 1..Len(list2), list2[i] = list2[j] PROVE i = j
    <3>1. i \in 1..Len(list) \/ i = Len(list) + 1
      BY <1>5
    <3>2. j \in 1..Len(list) \/ j = Len(list) + 1
      BY <1>5
    <3> QED BY <1>4, <1>5, <2>1, <3>1, <3>2 DEF Work, NamesOk
  <2>2. ASSUME NEW i \in 1..Len(list2)
        PROVE \E d \in LiveMessages(file) : d.name = list2[i] /\ Described(types, es, old, pool2, list2, d)
    <3>1. CASE i \in 1..Len(list)
      <4>1. PICK d \in LiveMessages(file) : d.name = list[i] /\ Described(types, es, old, pool, list, d)
        BY <3>1 DEF Work, NamesOk
      <4> QED BY <1>5, <1>7, <3>1, <4>1
    <3>2. CASE i \notin 1..Len(list)
      <4>1. i = Len(list) + 1
        BY <1>5, <3>2
      <4> QED BY <1>3, <1>5, <1>8, <4>1
    <3> QED BY <3>1, <3>2
  <2> QED BY <1>5, <2>1, <2>2 DEF NamesOk
<1>10. PoolOk(file, old, pool2)
  BY <1>3, <1>4 DEF Work, PoolOk, MessageNames
<1>11. EnumsOk(file, es, known, todo2)
  <2>1. known \subseteq es
    BY DEF Work, EnumsOk
  <2>2. ASSUME NEW m \in es \ known
        PROVE  \E i \in 1..Len(todo2) : todo2[i].phase = "enter"
                 /\ \E d \in Tree(file, Found(todo2[i])) : m \in LiveEnums(d.name, d.message.enums)
    <3>1. PICK i \in 1..Len(todo) :
            todo[i].phase = "enter"
              /\ \E d \in Tree(file, Found(todo[i])) : m \in LiveEnums(d.name, d.message.enums)
      BY DEF Work, EnumsOk
    <3>2. i \in 2..Len(todo)
      BY <1>1, <3>1
    <3>3. i - 1 \in 1..Len(todo2) /\ todo2[i - 1] = todo[i]
      BY <1>1, <3>2
    <3> QED BY <3>1, <3>3
  <2> QED BY <2>1, <2>2 DEF EnumsOk
<1>12. Covered(file, types, es, old, pool2, list2, todo2)
  <2> SUFFICES ASSUME NEW d \in LiveMessages(file), ~Described(types, es, old, pool2, list2, d)
               PROVE  \E i \in 1..Len(todo2) : d \in Waits(file, todo2[i])
    BY DEF Covered
  <2>1. PICK i \in 1..Len(todo) : d \in Waits(file, todo[i])
    BY <1>7 DEF Work, Covered
  <2>2. i # 1
    BY <1>1, <1>3, <1>8, <2>1
  <2>3. i \in 2..Len(todo)
    BY <1>1, <2>2
  <2> QED BY <1>1, <2>1, <2>3
<1>13. StayApart(file, old, pool2, todo2)
  <2> SUFFICES ASSUME Apart(file)
               PROVE  /\ \A i, j \in 1..Len(todo2) : i < j =>
                           \A a \in Waits(file, todo2[i]), b \in Waits(file, todo2[j]) : a.name # b.name
                      /\ \A i \in 1..Len(todo2) : \A a \in Waits(file, todo2[i]) :
                           a.name \in DOMAIN pool2 => a.name \in old
    BY DEF StayApart
  <2>1. /\ \A i, j \in 1..Len(todo) : i < j =>
             \A a \in Waits(file, todo[i]), b \in Waits(file, todo[j]) : a.name # b.name
        /\ \A i \in 1..Len(todo) : \A a \in Waits(file, todo[i]) : a.name \in DOMAIN pool => a.name \in old
    BY DEF Work, StayApart
  <2>2. ASSUME NEW i \in 1..Len(todo2), NEW j \in 1..Len(todo2), i < j
        PROVE  \A a \in Waits(file, todo2[i]), b \in Waits(file, todo2[j]) : a.name # b.name
    <3>1. i + 1 \in 1..Len(todo) /\ j + 1 \in 1..Len(todo) /\ i + 1 < j + 1
            /\ todo2[i] = todo[i + 1] /\ todo2[j] = todo[j + 1]
      BY <1>1, <2>2
    <3> QED BY <2>1, <3>1
  <2>3. ASSUME NEW i \in 1..Len(todo2), NEW a \in Waits(file, todo2[i]), a.name \in DOMAIN pool2
        PROVE  a.name \in old
    <3>1. i + 1 \in 1..Len(todo) /\ 1 < i + 1 /\ a \in Waits(file, todo[i + 1])
      BY <1>1
    <3>2. a.name # name
      BY <1>1, <1>3, <2>1, <3>1
    <3> QED BY <1>4, <2>1, <2>3, <3>1, <3>2
  <2> QED BY <2>2, <2>3
<1>14. Clean(file, pool2, todo2) => Apart(file)
  <2> SUFFICES ASSUME Clean(file, pool2, todo2) PROVE Clean(file, pool, todo)
    BY DEF Work
  <2>1. /\ \A i, j \in 1..Len(todo2) : i < j => NameOf(todo2[i]) # NameOf(todo2[j])
        /\ \A i \in 1..Len(todo2) : NameOf(todo2[i]) \notin DOMAIN pool2
        /\ \A i \in 1..Len(todo2) : todo2[i].phase = "enter" =>
             \A d \in Tree(file, Found(todo2[i])) : NamesDiffer(d.message.nested)
    BY DEF Clean
  <2>2. \A i \in 1..Len(todo) : i = 1 \/ (i - 1 \in 1..Len(todo2) /\ todo2[i - 1] = todo[i] /\ i \in 2..Len(todo))
    BY <1>1
  <2>3. ASSUME NEW i \in 1..Len(todo), NEW j \in 1..Len(todo), i < j
        PROVE  NameOf(todo[i]) # NameOf(todo[j])
    <3>1. j - 1 \in 1..Len(todo2) /\ todo2[j - 1] = todo[j]
      BY <2>2, <2>3
    <3>2. CASE i = 1
      <4>1. NameOf(todo[j]) \notin DOMAIN pool2
        BY <2>1, <3>1
      <4>2. NameOf(todo[i]) \in DOMAIN pool2
        BY <1>1, <1>2, <1>4, <3>2
      <4> QED BY <4>1, <4>2
    <3>3. CASE i # 1
      <4>1. i - 1 \in 1..Len(todo2) /\ todo2[i - 1] = todo[i] /\ i - 1 < j - 1
        BY <2>2, <2>3, <3>3
      <4> QED BY <2>1, <3>1, <4>1
    <3> QED BY <3>2, <3>3
  <2>4. \A i \in 1..Len(todo) : NameOf(todo[i]) \notin DOMAIN pool
    <3> SUFFICES ASSUME NEW i \in 1..Len(todo) PROVE NameOf(todo[i]) \notin DOMAIN pool
      OBVIOUS
    <3>1. CASE i = 1
      BY <1>1, <1>2, <1>4, <3>1
    <3>2. CASE i # 1
      <4>1. i - 1 \in 1..Len(todo2) /\ todo2[i - 1] = todo[i]
        BY <2>2, <3>2
      <4>2. NameOf(todo[i]) \notin DOMAIN pool2
        BY <2>1, <4>1
      <4> QED BY <1>4, <4>2
    <3> QED BY <3>1, <3>2
  <2>5. \A i \in 1..Len(todo) : todo[i].phase = "enter" =>
             \A d \in Tree(file, Found(todo[i])) : NamesDiffer(d.message.nested)
    <3> SUFFICES ASSUME NEW i \in 1..Len(todo), todo[i].phase = "enter",
                        NEW d \in Tree(file, Found(todo[i]))
                 PROVE  NamesDiffer(d.message.nested)
      OBVIOUS
    <3>1. i # 1
      BY <1>1
    <3>2. i - 1 \in 1..Len(todo2) /\ todo2[i - 1] = todo[i]
      BY <2>2, <3>1
    <3> QED BY <2>1, <3>2
  <2> QED BY <2>3, <2>4, <2>5 DEF Clean
<1> QED BY <1>1, <1>9, <1>10, <1>11, <1>12, <1>13, <1>14 DEF Work

\* A message is bound to what its names mean.
LEMMA ResolveWork ==
  ASSUME NEW file \in Files, NEW types, NEW es, NEW old, NEW pool, NEW list, NEW known,
         Work(file, types, es, old, pool, list, <<>>, known), list # <<>>,
         NEW d \in LiveMessages(file), d.name = Head(list), Described(types, es, old, pool, list, d),
         Refers(types, d.name, DescriptorOf(d.message, d.name)),
         NEW pool2, pool2 = [pool EXCEPT ![Head(list)] =
                              MeantBy(types, es, d.name, DescriptorOf(d.message, d.name))],
         NEW list2, list2 = Tail(list)
  PROVE  Work(file, types, es, old, pool2, list2, <<>>, known)
<1>1. /\ list \in Seq(DOMAIN pool) /\ list2 \in Seq(DOMAIN pool) /\ Len(list) \in Nat /\ Len(list2) \in Nat
      /\ Head(list) = list[1] /\ 1 \in 1..Len(list)
      /\ \A i \in 1..Len(list2) : i + 1 \in 2..Len(list) /\ list2[i] = list[i + 1]
      /\ \A i \in 2..Len(list) : i - 1 \in 1..Len(list2) /\ list2[i - 1] = list[i]
  BY Rest DEF Work, NamesOk
<1>2. \A i, j \in 1..Len(list) : list[i] = list[j] => i = j
  BY DEF Work, NamesOk
<1>3. PICK name : name = Head(list)
  OBVIOUS
<1>4. /\ DOMAIN pool2 = DOMAIN pool /\ name \in DOMAIN pool /\ d.name = name
      /\ pool2[name] = MeantBy(types, es, name, DescriptorOf(d.message, name))
      /\ \A n \in DOMAIN pool : n # name => pool2[n] = pool[n]
  BY <1>1, <1>3 DEF Described
<1>5. ~Listed(name, list2) /\ Listed(name, list) /\ \A n : n # name => (Listed(n, list2) <=> Listed(n, list))
  <2>1. Listed(name, list)
    BY <1>1, <1>3 DEF Listed
  <2>2. ASSUME Listed(name, list2) PROVE FALSE
    <3>1. PICK i \in 1..Len(list2) : list2[i] = name
      BY <2>2 DEF Listed
    <3>2. i + 1 \in 1..Len(list) /\ i + 1 # 1 /\ list[i + 1] = name
      BY <1>1, <3>1
    <3> QED BY <1>1, <1>2, <1>3, <3>2
  <2>3. ASSUME NEW n, n # name PROVE Listed(n, list2) <=> Listed(n, list)
    <3>1. \A i \in 1..Len(list) : i = 1 \/ i \in 2..Len(list)
      BY <1>1
    <3>2. \A i \in 2..Len(list) : i \in 1..Len(list)
      BY <1>1
    <3>3. ASSUME NEW i \in 1..Len(list), list[i] = n PROVE \E j \in 1..Len(list2) : list2[j] = n
      <4>1. i \in 2..Len(list)
        BY <1>1, <1>3, <2>3, <3>1, <3>3
      <4> QED BY <1>1, <3>3, <4>1
    <3>4. ASSUME NEW i \in 1..Len(list2), list2[i] = n PROVE \E j \in 1..Len(list) : list[j] = n
      BY <1>1, <3>2, <3>4
    <3> QED BY <3>3, <3>4 DEF Listed
  <2> QED BY <2>1, <2>2, <2>3
<1>6. ASSUME NEW e \in LiveMessages(file), Described(types, es, old, pool, list, e)
      PROVE  Described(types, es, old, pool2, list2, e)
  <2>1. CASE e.name # name
    BY <1>4, <1>5, <1>6, <2>1 DEF Described
  <2>2. CASE e.name = name
    <3>1. DescriptorOf(e.message, name) = DescriptorOf(d.message, name)
      BY <1>4, <1>5, <1>6, <2>2 DEF Described
    <3> QED BY <1>4, <1>5, <1>6, <2>2, <3>1 DEF Described
  <2> QED BY <2>1, <2>2
<1>7. NamesOk(file, types, es, old, pool2, list2)
  <2>1. ASSUME NEW i \in 1..Len(list2), NEW j \in 1..Len(list2), list2[i] = list2[j] PROVE i = j
    <3>1. i + 1 \in 1..Len(list) /\ j + 1 \in 1..Len(list) /\ list[i + 1] = list[j + 1]
      BY <1>1, <2>1
    <3>2. i + 1 = j + 1
      BY <1>2, <3>1
    <3> QED BY <3>2
  <2>2. ASSUME NEW i \in 1..Len(list2)
        PROVE \E e \in LiveMessages(file) : e.name = list2[i] /\ Described(types, es, old, pool2, list2, e)
    <3>1. i + 1 \in 1..Len(list) /\ list2[i] = list[i + 1]
      BY <1>1
    <3>2. PICK e \in LiveMessages(file) : e.name = list[i + 1] /\ Described(types, es, old, pool, list, e)
      BY <3>1 DEF Work, NamesOk
    <3> QED BY <1>6, <3>1, <3>2
  <2> QED BY <1>1, <1>4, <2>1, <2>2 DEF NamesOk
<1>8. PoolOk(file, old, pool2) /\ StayApart(file, old, pool2, <<>>)
  BY <1>4 DEF Work, PoolOk, StayApart
<1>9. Covered(file, types, es, old, pool2, list2, <<>>)
  BY <1>6 DEF Work, Covered
<1>10. Clean(file, pool2, <<>>) => Apart(file)
  BY <1>4 DEF Work, Clean
<1> QED BY <1>7, <1>8, <1>9, <1>10 DEF Work

\* A file is given to a pool that holds `old`.
LEMMA StartWork ==
  ASSUME NEW file \in Files, NEW types, NEW es, NEW pool, NEW todo, NEW known,
         known \subseteq es,
         es \subseteq known \cup UNION {LiveEnums(m.name, m.message.enums) : m \in LiveMessages(file)},
         todo = Entering(file.package, file.messages)
  PROVE  Work(file, types, es, DOMAIN pool, pool, <<>>, todo, known)
<1>1. /\ IsName(file.package) /\ Len(file.messages) \in Nat
      /\ \A i \in 1..Len(file.messages) : file.messages[i].name \in Identifiers
      /\ Declared(file.package, file.messages) = Tops(file)
  BY FilesAssumption DEF Tops
<1>2. todo \in Seq(TaskSet(file))
  BY <1>1, LiveHasTops, EnteringTasks
<1>13. Enters(todo, file.package, file.messages)
  BY <1>1, EnteringDeclared
<1>3. /\ \A n \in 1..Len(todo) :
           /\ todo[n].phase = "enter" /\ Found(todo[n]) \in Tops(file)
           /\ NameOf(todo[n]) = Append(file.package, todo[n].message.name)
           /\ todo[n].message.name \in Identifiers
      /\ \A x \in Tops(file) : \E n \in 1..Len(todo) : Found(todo[n]) = x
      /\ NamesDiffer(file.messages) <=>
           \A j, n \in 1..Len(todo) : NameOf(todo[j]) = NameOf(todo[n]) => j = n
  BY <1>1, <1>13 DEF Enters
<1>4. /\ \A n \in 1..Len(todo) : Waits(file, todo[n]) = Tree(file, Found(todo[n]))
      /\ \A n \in 1..Len(todo) : Found(todo[n]).name = NameOf(todo[n])
      /\ \A n \in 1..Len(todo) : Found(todo[n]) \in LiveMessages(file)
  BY <1>3, LiveHasTops DEF Waits, Found
<1>5. \A n \in 1..Len(todo) : Len(NameOf(todo[n])) = Len(file.package) + 1
  BY <1>1, <1>3, AppendNames
<1>6. LiveMessages(file) = UNION {Tree(file, x) : x \in Tops(file)}
  BY TopTrees
<1>7. \A d \in LiveMessages(file) : \E n \in 1..Len(todo) : d \in Tree(file, Found(todo[n]))
  BY <1>3, <1>6
<1>8. NamesOk(file, types, es, DOMAIN pool, pool, <<>>) /\ PoolOk(file, DOMAIN pool, pool)
  <2>1. <<>> \in Seq(DOMAIN pool) /\ Len(<<>>) = 0
    BY EmptySeq
  <2> QED BY <2>1 DEF NamesOk, PoolOk
<1>9. EnumsOk(file, es, known, todo)
  <2> SUFFICES ASSUME NEW m \in es \ known
               PROVE  \E i \in 1..Len(todo) : todo[i].phase = "enter"
                 /\ \E d \in Tree(file, Found(todo[i])) : m \in LiveEnums(d.name, d.message.enums)
    BY DEF EnumsOk
  <2>1. PICK d \in LiveMessages(file) : m \in LiveEnums(d.name, d.message.enums)
    OBVIOUS
  <2> QED BY <1>3, <1>7, <2>1
<1>10. Covered(file, types, es, DOMAIN pool, pool, <<>>, todo)
  BY <1>4, <1>7 DEF Covered
<1>11. StayApart(file, DOMAIN pool, pool, todo)
  <2> SUFFICES ASSUME Apart(file), NEW i \in 1..Len(todo), NEW j \in 1..Len(todo), i < j,
                      NEW a \in Waits(file, todo[i]), NEW b \in Waits(file, todo[j])
               PROVE  a.name # b.name
    BY DEF StayApart
  <2>1. i # j /\ NamesDiffer(file.messages)
    BY DEF Apart
  <2>2. NameOf(todo[i]) # NameOf(todo[j])
    BY <1>3, <2>1
  <2> QED BY <1>4, <1>5, <2>2, TreesApart
<1>12. ASSUME Clean(file, pool, todo) PROVE Apart(file)
  <2>1. \A i, j \in 1..Len(todo) : i < j => NameOf(todo[i]) # NameOf(todo[j])
    BY <1>12 DEF Clean
  <2>2. ASSUME NEW i \in 1..Len(todo), NEW j \in 1..Len(todo), i # j
        PROVE  NameOf(todo[i]) # NameOf(todo[j])
    <3>1. i < j \/ j < i
      BY <2>2
    <3> QED BY <2>1, <3>1
  <2>3. NamesDiffer(file.messages)
    BY <1>3, <2>2
  <2>4. \A m \in LiveMessages(file) : NamesDiffer(m.message.nested)
    BY <1>3, <1>7, <1>12 DEF Clean
  <2> QED BY <2>3, <2>4 DEF Apart
<1> QED BY <1>2, <1>8, <1>9, <1>10, <1>11, <1>12 DEF Work

(* Fields of descriptors, and what their names mean. *)

\* A field of a descriptor that is made, not of none.
IsMade(f) ==
  /\ f = [repeated |-> f.repeated, key |-> f.key, value |-> f.value, type |-> f.type]
  /\ f.value # "None" /\ IsName(f.type.path)

\* convert_field makes a field.
LEMMA ConvertedMade ==
  ASSUME NEW message, WellFormed(message), NEW name, NEW i \in 1..Len(message.fields)
  PROVE  IsMade(Converted(message, name, message.fields[i]))
<1>1. PICK field : field = message.fields[i]
  OBVIOUS
<1>2. IsName(field.type.path) /\ Len(message.nested) \in Nat
  BY <1>1 DEF WellFormed
<1>3. \A v : ConvertType(v) # "None"
  BY DEF ConvertType, ScalarTypes, KeyTypes
<1>4. CASE IsMapField(message, name, field)
  <2>1. PICK found : found = EntriesNamed(name, message.nested, field.type)
    OBVIOUS
  <2>2. found # {} /\ found \in SUBSET (0..Len(message.nested)) /\ found \in SUBSET (1..Len(message.nested))
          /\ \A j \in found : message.nested[j].map
    BY <1>2, <1>4, <2>1 DEF IsMapField, EntriesNamed
  <2>3. PICK last : last = CHOOSE j \in found : \A l \in found : l <= j
    OBVIOUS
  <2>4. last \in found
    BY <1>2, <2>2, <2>3, GreatestNat
  <2>5. EntryFor(message, name, field) = message.nested[last]
    BY <2>1, <2>3 DEF EntryFor
  <2>6. IsName(message.nested[last].fields[2].type.path)
    BY <2>2, <2>4 DEF WellFormed
  <2>7. Converted(message, name, field) =
          [repeated |-> field.repeated, key |-> message.nested[last].fields[1].value,
           value |-> ConvertType(message.nested[last].fields[2].value),
           type |-> message.nested[last].fields[2].type]
    BY <1>4, <2>5 DEF Converted
  <2> QED BY <1>1, <1>3, <2>6, <2>7 DEF IsMade
<1>5. CASE ~IsMapField(message, name, field)
  <2>1. Converted(message, name, field) =
          [repeated |-> field.repeated, key |-> "None", value |-> ConvertType(field.value),
           type |-> IF ConvertType(field.value) = "Unknown" THEN field.type ELSE Unbound]
    BY <1>5 DEF Converted
  <2>2. IsName(Unbound.path)
    BY EmptySeq DEF Unbound, IsName
  <2> QED BY <1>1, <1>2, <1>3, <2>1, <2>2 DEF IsMade
<1> QED BY <1>4, <1>5

\* LastNamed is the last of the fields of that name.
LEMMA LastNamedIs ==
  ASSUME NEW fields, Len(fields) \in Nat, NEW k \in LiveOnes(fields)
  PROVE  \E i \in LiveOnes(fields) :
           /\ LastNamed(fields, fields[k].name) = fields[i] /\ fields[i].name = fields[k].name
           /\ \A j \in LiveOnes(fields) : fields[j].name = fields[k].name => j <= i
<1> DEFINE same == {i \in LiveOnes(fields) : fields[i].name = fields[k].name}
<1>1. same \in SUBSET (0..Len(fields)) /\ same # {}
  BY DEF LiveOnes
<1>2. \E i \in same : \A j \in same : j <= i
  <2> HIDE DEF same
  <2> QED BY <1>1, GreatestNat
<1>3. PICK i : i = CHOOSE j \in LiveOnes(fields) :
                 fields[j].name = fields[k].name
                   /\ \A l \in LiveOnes(fields) : fields[l].name = fields[k].name => l <= j
  OBVIOUS
<1>4. /\ i \in LiveOnes(fields) /\ fields[i].name = fields[k].name
      /\ \A j \in LiveOnes(fields) : fields[j].name = fields[k].name => j <= i
  BY <1>2, <1>3
<1>5. LastNamed(fields, fields[k].name) = fields[i]
  BY <1>3 DEF LastNamed
<1> QED BY <1>4, <1>5

\* What a descriptor is: one field that is an alias, or fields by name.
DescriptorShape(d) ==
  /\ d = [alias |-> d.alias, fields |-> d.fields]
  /\ d.fields = [n \in DOMAIN d.fields |-> d.fields[n]]
  /\ \/ IsMade(d.alias) /\ DOMAIN d.fields = {}
     \/ d.alias = NoField /\ \A n \in DOMAIN d.fields : IsMade(d.fields[n])

\* Every descriptor that is made has this shape.
LEMMA DescriptorShaped ==
  ASSUME NEW message, WellFormed(message), NEW name
  PROVE  /\ DescriptorShape(DescriptorOf(message, name))
         /\ IsAlias(message.fields) <=> DescriptorOf(message, name).alias.value # "None"
<1>1. PICK d : d = DescriptorOf(message, name)
  OBVIOUS
<1>2. Len(message.fields) \in Nat
  BY DEF WellFormed
<1>3. NoField.value = "None"
  BY DEF NoField
<1>4. CASE IsAlias(message.fields)
  <2>1. 1 \in 1..Len(message.fields)
    <3>1. PICK i \in 1..Len(message.fields) : message.fields[i].name = "_"
      BY <1>4 DEF IsAlias
    <3>2. \A l \in Nat : \A j \in 1..l : 1 \in 1..l
      OBVIOUS
    <3> QED BY <1>2, <3>1, <3>2
  <2>2. PICK f : f = Converted(message, name, message.fields[1])
    OBVIOUS
  <2>3. IsMade(f)
    BY <2>1, <2>2, ConvertedMade
  <2>4. d = [EmptyDescriptor EXCEPT !.alias = f]
    BY <1>1, <1>4, <2>2 DEF DescriptorOf
  <2>5. d.alias = f /\ d.fields = [n \in {} |-> NoField] /\ d = [alias |-> d.alias, fields |-> d.fields]
    BY <2>4 DEF EmptyDescriptor
  <2> QED BY <1>1, <1>4, <2>3, <2>5 DEF DescriptorShape, IsMade
<1>5. CASE ~IsAlias(message.fields)
  <2>1. PICK g : g = [n \in {message.fields[i].name : i \in LiveOnes(message.fields)} |->
                       Converted(message, name, LastNamed(message.fields, n))]
    OBVIOUS
  <2>2. d = [EmptyDescriptor EXCEPT !.fields = g]
    BY <1>1, <1>5, <2>1 DEF DescriptorOf
  <2>3. d.alias = NoField /\ d.fields = g /\ d = [alias |-> d.alias, fields |-> d.fields]
    BY <2>2 DEF EmptyDescriptor
  <2>4. ASSUME NEW n \in DOMAIN g PROVE IsMade(g[n])
    <3>1. PICK k \in LiveOnes(message.fields) : n = message.fields[k].name
      BY <2>1
    <3>2. PICK i \in LiveOnes(message.fields) : LastNamed(message.fields, n) = message.fields[i]
      BY <1>2, <3>1, LastNamedIs
    <3>3. i \in 1..Len(message.fields) /\ g[n] = Converted(message, name, message.fields[i])
      BY <2>1, <3>2 DEF LiveOnes
    <3> QED BY <3>3, ConvertedMade
  <2>5. g = [n \in DOMAIN g |-> g[n]]
    BY <2>1
  <2> QED BY <1>1, <1>3, <1>5, <2>3, <2>4, <2>5 DEF DescriptorShape
<1> QED BY <1>4, <1>5

\* Which fields such a descriptor has.
LEMMA FieldsOfShape ==
  ASSUME NEW d, DescriptorShape(d)
  PROVE  /\ \A f \in FieldsOf(d) : IsMade(f)
         /\ d.alias.value # "None" => FieldsOf(d) = {d.alias}
         /\ d.alias.value = "None" => FieldsOf(d) = {d.fields[n] : n \in DOMAIN d.fields}
<1>1. NoField.value = "None"
  BY DEF NoField
<1>2. CASE IsMade(d.alias) /\ DOMAIN d.fields = {}
  BY <1>1, <1>2 DEF FieldsOf, IsMade
<1>3. CASE d.alias = NoField /\ \A n \in DOMAIN d.fields : IsMade(d.fields[n])
  BY <1>1, <1>3 DEF FieldsOf
<1> QED BY <1>2, <1>3 DEF DescriptorShape

\* A field's name resolves just when it means a type, and is bound to that.
LEMMA FieldMeans ==
  ASSUME NEW T, T = enums \cup DOMAIN descriptors, \A n \in T : Filled(n),
         NEW name, IsName(name), NEW f, IsMade(f)
  PROVE  /\ FieldResolves(name, f) <=>
              (f.value = "Unknown" => f.type.path # <<>> /\ Meaning(T, name, f.type) \in T)
         /\ FieldResolves(name, f) => Resolved(name, f) = MeantField(T, enums, name, f)
<1>1. CASE f.value # "Unknown"
  BY <1>1 DEF FieldResolves, Resolved, MeantField
<1>2. CASE f.value = "Unknown" /\ f.type.path = <<>>
  BY <1>2 DEF FieldResolves, NameResolves
<1>3. CASE f.value = "Unknown" /\ f.type.path # <<>>
  <2>1. Filled(f.type.path)
    BY <1>3 DEF IsMade, Filled
  <2>2. /\ NameResolves(name, f.type) <=> Meaning(T, name, f.type) \in T
        /\ NameResolves(name, f.type) => NameFor(name, f.type) = Meaning(T, name, f.type)
    BY <2>1, NameIsMeaning
  <2>3. FieldResolves(name, f) <=> NameResolves(name, f.type)
    BY <1>3 DEF FieldResolves
  <2>4. ASSUME NameResolves(name, f.type) PROVE Resolved(name, f) = MeantField(T, enums, name, f)
    <3>1. PICK target : target = Meaning(T, name, f.type) /\ target = NameFor(name, f.type)
      BY <2>2, <2>4
    <3>4. Resolved(name, f) =
            IF target \in enums
            THEN [repeated |-> f.repeated, key |-> f.key, value |-> "Enum", type |-> Unbound]
            ELSE [repeated |-> f.repeated, key |-> f.key, value |-> "Message",
                  type |-> [absolute |-> TRUE, path |-> target]]
      BY <1>3, <3>1 DEF Resolved
    <3>5. MeantField(T, enums, name, f) =
            IF target \in enums THEN OfType(f, "Enum", Unbound)
            ELSE OfType(f, "Message", [absolute |-> TRUE, path |-> target])
      BY <1>3, <3>1 DEF MeantField
    <3> QED BY <3>4, <3>5 DEF OfType
  <2> QED BY <1>3, <2>2, <2>3, <2>4
<1> QED BY <1>1, <1>2, <1>3

\* A descriptor resolves just when all it refers to are types, and is bound to them.
LEMMA BoundMeans ==
  ASSUME NEW T, T = enums \cup DOMAIN descriptors, \A n \in T : Filled(n),
         NEW name, IsName(name), NEW d, DescriptorShape(d)
  PROVE  /\ AllResolve(name, d) <=> Refers(T, name, d)
         /\ AllResolve(name, d) => Bound(name, d) = MeantBy(T, enums, name, d)
<1>1. \A f \in FieldsOf(d) :
        /\ FieldResolves(name, f) <=>
              (f.value = "Unknown" => f.type.path # <<>> /\ Meaning(T, name, f.type) \in T)
        /\ FieldResolves(name, f) => Resolved(name, f) = MeantField(T, enums, name, f)
  BY FieldsOfShape, FieldMeans
<1>2. AllResolve(name, d) <=> \A f \in FieldsOf(d) : FieldResolves(name, f)
  <2>1. CASE d.alias.value # "None"
    BY <2>1, FieldsOfShape DEF AllResolve
  <2>2. CASE d.alias.value = "None"
    <3>1. FieldsOf(d) = {d.fields[n] : n \in DOMAIN d.fields}
      BY <2>2, FieldsOfShape
    <3> QED BY <2>2, <3>1 DEF AllResolve
  <2> QED BY <2>1, <2>2
<1>3. AllResolve(name, d) <=> Refers(T, name, d)
  BY <1>1, <1>2 DEF Refers
<1>4. ASSUME AllResolve(name, d) PROVE Bound(name, d) = MeantBy(T, enums, name, d)
  <2>1. CASE d.alias.value # "None"
    <3>1. d.alias \in FieldsOf(d)
      BY <2>1, FieldsOfShape
    <3> QED BY <1>1, <1>2, <1>4, <2>1, <3>1 DEF Bound, MeantBy
  <2>2. CASE d.alias.value = "None"
    <3>1. \A n \in DOMAIN d.fields : d.fields[n] \in FieldsOf(d)
      BY <2>2, FieldsOfShape
    <3>2. \A n \in DOMAIN d.fields : Resolved(name, d.fields[n]) = MeantField(T, enums, name, d.fields[n])
      BY <1>1, <1>2, <1>4, <3>1
    <3>3. [n \in DOMAIN d.fields |-> Resolved(name, d.fields[n])] =
            [n \in DOMAIN d.fields |-> MeantField(T, enums, name, d.fields[n])]
      BY <3>2
    <3> QED BY <2>2, <3>3 DEF Bound, MeantBy
  <2> QED BY <2>1, <2>2
<1> QED BY <1>3, <1>4

\* MeantDescriptor is MeantBy, said of the files of the pool.
LEMMA DescriptorMeans ==
  ASSUME NEW k, NEW m, WellFormed(m.message)
  PROVE  MeantDescriptor(k, m) =
           MeantBy(TypesIn(files, k), EnumsIn(files, k), m.name, DescriptorOf(m.message, m.name))
<1>1. TypesUpTo(k) = TypesIn(files, k) /\ EnumsUpTo(k) = EnumsIn(files, k)
  BY DEF TypesUpTo, TypesIn, EnumsUpTo, EnumsIn
<1>2. PICK d : d = DescriptorOf(m.message, m.name)
  OBVIOUS
<1>3. d = [alias |-> d.alias, fields |-> d.fields] /\ (IsAlias(m.message.fields) <=> d.alias.value # "None")
  <2>1. DescriptorShape(d) /\ (IsAlias(m.message.fields) <=> d.alias.value # "None")
    BY <1>2, DescriptorShaped
  <2> QED BY <2>1 DEF DescriptorShape
<1>4. \A a : [d EXCEPT !.alias = a] = [alias |-> a, fields |-> d.fields]
  BY <1>3
<1>5. \A g : [d EXCEPT !.fields = g] = [alias |-> d.alias, fields |-> g]
  BY <1>3
<1>6. \A f : Meant(k, m.name, f) = MeantField(TypesIn(files, k), EnumsIn(files, k), m.name, f)
  BY <1>1 DEF Meant, MeantField
<1>7. MeantDescriptor(k, m) =
        IF IsAlias(m.message.fields) THEN [d EXCEPT !.alias = Meant(k, m.name, d.alias)]
        ELSE [d EXCEPT !.fields = [n \in DOMAIN d.fields |-> Meant(k, m.name, d.fields[n])]]
  BY <1>2 DEF MeantDescriptor
<1> QED BY <1>2, <1>3, <1>4, <1>5, <1>6, <1>7 DEF MeantBy

(* Map entries: found by the names they can have. *)

\* Of some scopes around a name, one is the innermost.
LEMMA InnermostFound ==
  ASSUME NEW name, IsName(name), NEW scopes \in SUBSET Prefixes(name), scopes # {}
  PROVE  Innermost(scopes) \in scopes
<1> DEFINE lengths == {l \in 0..Len(name) : \E s \in scopes : l = Len(s)}
<1>1. \A s \in scopes : Len(s) \in lengths
  BY PartOfName DEF Prefixes
<1>2. PICK l \in lengths : \A j \in lengths : j <= l
  <2>1. lengths \in SUBSET (0..Len(name)) /\ lengths # {} /\ Len(name) \in Nat
    BY <1>1 DEF IsName
  <2> HIDE DEF lengths
  <2> QED BY <2>1, GreatestNat
<1>3. PICK s \in scopes : l = Len(s)
  OBVIOUS
<1>4. \A t \in scopes : Len(t) <= Len(s)
  <2> HIDE DEF lengths
  <2> QED BY <1>1, <1>2, <1>3
<1> QED BY <1>4, InnermostIs

\* Meaning, in terms of the scopes in which the search ends.
LEMMA ScopesAre ==
  ASSUME NEW declared, NEW container, NEW type, ~type.absolute
  PROVE  /\ Meaning(declared, container, type) =
              IF Scopes(declared, container, type.path) = {} THEN <<>>
              ELSE Innermost(Scopes(declared, container, type.path)) \o type.path
         /\ Scopes(declared, container, type.path) \in SUBSET Prefixes(container)
  BY DEF Meaning, Scopes

\* A name that leads to an entry from some scope means that entry, unless
\* something nearer has the name's first part.
LEMMA LeadsToEntry ==
  ASSUME NEW declared, \A n \in declared : IsName(n), NEW container, IsName(container),
         NEW type, ~type.absolute, Filled(type.path),
         NEW s \in Prefixes(container), NEW full \in declared, full = s \o type.path,
         Len(full) = Len(container) + 1,
         ~Shadowed(declared, container, type)
  PROVE  Meaning(declared, container, type) = full
<1> DEFINE path == type.path
           scopes == Scopes(declared, container, path)
<1>1. /\ IsName(s) /\ Len(s) \in Nat /\ Len(s) <= Len(container) /\ Len(container) \in Nat
      /\ path \in Seq(Identifiers) /\ Len(path) \in Nat /\ Len(path) # 0 /\ s \in Seq(Identifiers)
  <2>1. PICK k \in 0..Len(container) : s = SubSeq(container, 1, k)
    BY DEF Prefixes
  <2>2. Len(container) \in Nat
    BY DEF IsName
  <2>3. IsName(s) /\ Len(s) = k
    BY <2>1, PartOfName
  <2>4. path \in Seq(Identifiers) /\ path # <<>>
    BY DEF Filled, IsName
  <2>5. Len(path) # 0
    BY <2>4, EmptySeq
  <2>6. Len(s) \in Nat /\ Len(s) <= Len(container)
    BY <2>2, <2>3
  <2>7. s \in Seq(Identifiers)
    BY <2>3 DEF IsName
  <2>8. Len(path) \in Nat
    BY <2>4
  <2> QED BY <2>2, <2>3, <2>4, <2>5, <2>6, <2>7, <2>8
<1>2. /\ Len(full) = Len(s) + Len(path)
      /\ \A i \in 1..(Len(s) + Len(path)) : full[i] = IF i <= Len(s) THEN s[i] ELSE path[i - Len(s)]
  BY <1>1, ConcatProperties
<1>3. Len(s) + Len(path) = Len(container) + 1
  BY <1>2
<1> HIDE DEF path, scopes
<1>4. s \in scopes
  <2>1. CASE Len(path) = 1
    BY <2>1 DEF Scopes, scopes, path
  <2>2. CASE Len(path) # 1
    <3>1. PICK first : first = Append(s, path[1])
      OBVIOUS
    <3>2. path[1] \in Identifiers
      BY <1>1
    <3>3. /\ IsName(first) /\ Len(first) = Len(s) + 1 /\ first[Len(s) + 1] = path[1]
          /\ \A i \in 1..Len(s) : first[i] = s[i]
      BY <1>1, <3>1, <3>2, AppendNames DEF Filled
    <3>4. Len(first) <= Len(full)
      BY <1>1, <1>2, <3>3
    <3>5. ASSUME NEW i \in 1..Len(first) PROVE full[i] = first[i]
      <4>1. i \in 1..(Len(s) + Len(path))
        BY <1>1, <1>2, <3>3, <3>4
      <4>2. CASE i <= Len(s)
        <5>1. i \in 1..Len(s)
          BY <1>1, <4>1, <4>2
        <5> QED BY <1>2, <3>3, <4>1, <4>2, <5>1
      <4>3. CASE ~(i <= Len(s))
        <5>1. i = Len(s) + 1 /\ i - Len(s) = 1
          BY <1>1, <3>3, <4>3
        <5>2. full[i] = path[1]
          BY <1>2, <4>1, <4>3, <5>1
        <5> QED BY <3>3, <5>1, <5>2
      <4> QED BY <4>2, <4>3
    <3>6. first \in Openers(declared)
      BY <3>3, <3>4, <3>5, OpensWhen DEF Begins
    <3> QED BY <2>2, <3>1, <3>6 DEF Scopes, scopes
  <2> QED BY <2>1, <2>2
<1>5. ASSUME NEW t \in scopes PROVE Len(t) <= Len(s)
  <2>1. t \in Prefixes(container) /\ Len(t) \in Nat /\ Len(t) <= Len(container)
    <3>1. t \in Prefixes(container)
      BY DEF Scopes, scopes
    <3> QED BY <1>1, <3>1, PartOfName DEF Prefixes
  <2>2. CASE Len(path) = 1
    BY <1>1, <1>3, <2>1, <2>2
  <2>3. CASE Len(path) # 1
    <3>1. Append(t, path[1]) \in Openers(declared)
      BY <2>3 DEF Scopes, scopes
    <3>2. \A l \in Nat : l # 0 /\ l # 1 => l > 1
      OBVIOUS
    <3>3. Len(path) > 1
      BY <1>1, <2>3, <3>2
    <3>4. ~(Len(t) + Len(path) > Len(container) + 1)
      BY <2>1, <3>1, <3>3 DEF Shadowed, path
    <3>5. \A a, b, c, d \in Nat : a + b = c + 1 /\ ~(d + b > c + 1) => d <= a
      OBVIOUS
    <3> QED BY <1>1, <1>3, <2>1, <3>4, <3>5
  <2> QED BY <2>2, <2>3
<1>6. Innermost(scopes) = s
  BY <1>4, <1>5, ScopesAre, InnermostIs DEF scopes, path
<1> QED BY <1>4, <1>6, ScopesAre DEF scopes, path

\* The entries of a message and how they are written.
IsEntryOf(m, j) == j \in LiveOnes(m.message.nested) /\ m.message.nested[j].map

\* The three names by which register_map_entry_names keeps an entry.
WrittenAs(name, id, type) ==
  \/ type.path = Append(name, id)
  \/ ~type.absolute /\ type.path \in {<<id>>, <<name[Len(name)], id>>}

\* A type that is written so means the entry, unless something nearer shadows it.
LEMMA WrittenMeans ==
  ASSUME NEW declared, \A n \in declared : IsName(n), NEW name, Filled(name),
         NEW id \in Identifiers, Append(name, id) \in declared,
         NEW type, Filled(type.path), WrittenAs(name, id, type),
         ~Shadowed(declared, name, type)
  PROVE  Meaning(declared, name, type) = Append(name, id)
<1>1. PICK full : full = Append(name, id)
  OBVIOUS
<1>2. name \in Seq(Identifiers) /\ Len(name) \in Nat /\ Len(name) # 0 /\ IsName(name)
  BY EmptySeq DEF Filled, IsName
<1>3. /\ IsName(full) /\ Len(full) = Len(name) + 1 /\ full[Len(name) + 1] = id
      /\ \A i \in 1..Len(name) : full[i] = name[i]
  BY <1>1, <1>2, AppendNames DEF Filled
<1>4. CASE type.absolute
  BY <1>4 DEF WrittenAs, Meaning
<1>5. CASE ~type.absolute
  <2>1. CASE type.path = Append(name, id)
    <3>1. <<>> \in Prefixes(name)
      <4>1. SubSeq(name, 1, 0) = <<>> /\ 0 \in 0..Len(name)
        BY <1>2, SubSeqEmpty
      <4> QED BY <4>1 DEF Prefixes
    <3>2. full = <<>> \o type.path
      BY <1>1, <1>3, <2>1, ConcatEmptySeq DEF IsName
    <3> QED BY <1>1, <1>2, <1>3, <1>5, <3>1, <3>2, LeadsToEntry
  <2>2. CASE type.path = <<id>>
    <3>1. name \in Prefixes(name)
      <4>1. SubSeq(name, 1, Len(name)) = name /\ Len(name) \in 0..Len(name)
        BY <1>2, SubSeqFull
      <4> QED BY <4>1 DEF Prefixes
    <3>2. full = name \o type.path
      BY <1>1, <1>2, <2>2, AppendIsConcat
    <3> QED BY <1>1, <1>2, <1>3, <1>5, <3>1, <3>2, LeadsToEntry
  <2>3. CASE type.path = <<name[Len(name)], id>>
    <3>1. PICK l : l = Len(name) - 1
      OBVIOUS
    <3>2. l \in 0..Len(name) /\ l \in Nat /\ Len(name) = l + 1 /\ l + 1 \in 1..Len(name)
      BY <1>2, <3>1
    <3>3. PICK s : s = SubSeq(name, 1, l)
      OBVIOUS
    <3>4. s \in Prefixes(name) /\ IsName(s) /\ Len(s) = l /\ \A i \in 1..l : s[i] = name[i]
      BY <1>2, <3>2, <3>3, PartOfName DEF Prefixes
    <3>5. PICK path : path = type.path
      OBVIOUS
    <3>6. path \in Seq(Identifiers) /\ Len(path) = 2 /\ path[1] = name[l + 1] /\ path[2] = id
      BY <1>2, <2>3, <3>2, <3>5
    <3>7. PICK q : q = s \o path
      OBVIOUS
    <3>8. /\ q \in Seq(Identifiers) /\ Len(q) = l + 2
          /\ \A i \in 1..(l + 2) : q[i] = IF i <= l THEN s[i] ELSE path[i - l]
      <4>1. s \in Seq(Identifiers) /\ path \in Seq(Identifiers)
        BY <3>4, <3>6 DEF IsName
      <4>2. /\ q \in Seq(Identifiers) /\ Len(q) = Len(s) + Len(path)
            /\ \A i \in 1..(Len(s) + Len(path)) : q[i] = IF i <= Len(s) THEN s[i] ELSE path[i - Len(s)]
        BY <4>1, <3>7, ConcatProperties
      <4> QED BY <4>2, <3>4, <3>6
    <3>9. ASSUME NEW i \in 1..(l + 2) PROVE q[i] = full[i]
      <4>1. CASE i <= l
        <5>1. i \in 1..l /\ i \in 1..Len(name)
          BY <3>2, <4>1
        <5> QED BY <1>3, <3>4, <3>8, <4>1, <5>1
      <4>2. CASE i = l + 1
        <5>1. ~(i <= l) /\ i - l = 1 /\ i \in 1..Len(name)
          BY <3>2, <4>2
        <5>2. q[i] = path[1]
          BY <3>8, <5>1
        <5> QED BY <1>3, <3>6, <4>2, <5>1, <5>2
      <4>3. CASE i = l + 2
        <5>1. ~(i <= l) /\ i - l = 2 /\ i = Len(name) + 1
          BY <3>2, <4>3
        <5>2. q[i] = path[2]
          BY <3>8, <5>1
        <5> QED BY <1>3, <3>6, <5>1, <5>2
      <4> QED BY <3>2, <4>1, <4>2, <4>3
    <3>10. Len(full) = l + 2
      BY <1>3, <3>2
    <3>11. full = s \o path
      BY <1>3, <3>7, <3>8, <3>9, <3>10, SeqEqual DEF IsName
    <3> QED BY <1>1, <1>2, <1>3, <1>5, <3>4, <3>5, <3>11, LeadsToEntry
  <2> QED BY <1>5, <2>1, <2>2, <2>3 DEF WrittenAs
<1> QED BY <1>4, <1>5

\* A type that means the entry, and has one of those lengths, is written so.
LEMMA MeansWritten ==
  ASSUME NEW declared, \A n \in declared : Filled(n), NEW name, Filled(name),
         NEW id \in Identifiers,
         NEW type, Filled(type.path), IsEntryName(name, type),
         Meaning(declared, name, type) = Append(name, id)
  PROVE  WrittenAs(name, id, type)
<1>1. CASE type.absolute
  BY <1>1 DEF Meaning, WrittenAs
<1>2. CASE ~type.absolute
  <2>1. PICK full : full = Append(name, id)
    OBVIOUS
  <2>2. name \in Seq(Identifiers) /\ Len(name) \in Nat /\ Len(name) # 0 /\ IsName(name)
    BY EmptySeq DEF Filled, IsName
  <2>3. /\ Filled(full) /\ Len(full) = Len(name) + 1 /\ full[Len(name) + 1] = id
        /\ \A i \in 1..Len(name) : full[i] = name[i]
    BY <2>1, <2>2, AppendNames
  <2>4. PICK scopes : scopes = Scopes(declared, name, type.path)
    OBVIOUS
  <2>5. PICK path : path = type.path
    OBVIOUS
  <2>6. scopes # {} /\ scopes \in SUBSET Prefixes(name) /\ full = Innermost(scopes) \o path
    BY <1>2, <2>1, <2>3, <2>4, <2>5, ScopesAre DEF Filled
  <2>7. PICK s \in Prefixes(name) : full = s \o path
    BY <2>2, <2>6, InnermostFound
  <2>8. PICK k \in 0..Len(name) : s = SubSeq(name, 1, k)
    BY DEF Prefixes
  <2>9. IsName(s) /\ Len(s) = k /\ k \in Nat
    BY <2>2, <2>8, PartOfName
  <2>10. path \in Seq(Identifiers) /\ Len(path) \in Nat
    BY <2>5 DEF Filled, IsName
  <2>11. /\ Len(full) = k + Len(path)
         /\ \A i \in 1..(k + Len(path)) : full[i] = IF i <= k THEN s[i] ELSE path[i - k]
    BY <2>7, <2>9, <2>10, ConcatProperties DEF IsName
  <2>12. k + Len(path) = Len(name) + 1
    BY <2>3, <2>11
  <2>13. Len(path) \in {1, 2, Len(name) + 1}
    BY <1>2, <2>5 DEF IsEntryName
  <2>14. CASE Len(path) = 1
    <3>1. k = Len(name) /\ Len(name) + 1 \in 1..(k + Len(path)) /\ ~(Len(name) + 1 <= k) /\ Len(name) + 1 - k = 1
      BY <2>2, <2>9, <2>12, <2>14
    <3>2. path[1] = id
      BY <2>3, <2>11, <3>1
    <3>3. path = <<id>>
      BY <2>10, <2>14, <3>2
    <3> QED BY <1>2, <2>5, <3>3 DEF WrittenAs
  <2>15. CASE Len(path) = 2
    <3>1. /\ Len(name) = k + 1 /\ Len(name) + 1 \in 1..(k + Len(path)) /\ ~(Len(name) + 1 <= k)
          /\ Len(name) + 1 - k = 2
          /\ Len(name) \in 1..(k + Len(path)) /\ ~(Len(name) <= k) /\ Len(name) - k = 1
          /\ Len(name) \in 1..Len(name)
      BY <2>2, <2>9, <2>12, <2>15
    <3>2. path[2] = id
      BY <2>3, <2>11, <3>1
    <3>3. path[1] = name[Len(name)]
      BY <2>3, <2>11, <3>1
    <3>4. path = <<name[Len(name)], id>>
      BY <2>10, <2>15, <3>2, <3>3
    <3> QED BY <1>2, <2>5, <3>4 DEF WrittenAs
  <2>16. CASE Len(path) = Len(name) + 1
    <3>1. k = 0
      BY <2>2, <2>9, <2>12, <2>16
    <3>2. s = <<>>
      BY <2>8, <3>1, SubSeqEmpty
    <3>3. full = path
      BY <2>7, <2>10, <3>2, ConcatEmptySeq
    <3> QED BY <2>1, <2>5, <3>3 DEF WrittenAs
  <2> QED BY <2>13, <2>14, <2>15, <2>16
<1> QED BY <1>1, <1>2

\* A field finds an entry when its type is written as one.
LEMMA EntriesAre ==
  ASSUME NEW m, Len(m.message.nested) \in Nat, NEW type
  PROVE  EntriesNamed(m.name, m.message.nested, type) # {} <=>
           \E j : IsEntryOf(m, j) /\ WrittenAs(m.name, m.message.nested[j].name, type)
  BY DEF EntriesNamed, IsEntryOf, LiveOnes, WrittenAs

\* The fields of a message that are maps.
LEMMA MapsAre ==
  ASSUME NEW k, NEW m, WellFormed(m.message), Filled(m.name), Describable(m.message, m.name),
         \A n \in TypesUpTo(k) : Filled(n),
         NEW types, NEW es,
         descriptors[m.name] = MeantBy(types, es, m.name, DescriptorOf(m.message, m.name))
  PROVE  MapsFound(k, m)
<1> SUFFICES ASSUME NEW i \in LiveOnes(m.message.fields),
                    ~IsAlias(m.message.fields), m.message.fields[i].value = "Message",
                    m.message.fields[i].type.path # <<>>,
                    \A j \in LiveOnes(m.message.fields) :
                      m.message.fields[j].name = m.message.fields[i].name => j <= i
             PROVE  LET type == m.message.fields[i].type
                        declared == TypesUpTo(k) \cup EntryNames(m)
                        isEntry == Meaning(declared, m.name, type) \in EntryNames(m)
                        isMap == descriptors[m.name].fields[m.message.fields[i].name].key # "None"
                    IN  /\ isEntry /\ IsEntryName(m.name, type) => isMap
                        /\ isMap => isEntry \/ Shadowed(declared, m.name, type)
  BY DEF MapsFound
<1>1. PICK field, type, declared :
        field = m.message.fields[i] /\ type = field.type /\ declared = TypesUpTo(k) \cup EntryNames(m)
  OBVIOUS
<1>2. /\ Len(m.message.fields) \in Nat /\ Len(m.message.nested) \in Nat /\ Filled(type.path)
      /\ i \in 1..Len(m.message.fields) /\ ~field.deprecated
  BY <1>1 DEF WellFormed, LiveOnes, Filled
<1>3. \A j : IsEntryOf(m, j) => m.message.nested[j].name \in Identifiers
  BY DEF IsEntryOf, WellFormed, LiveOnes
<1>4. \A n : n \in EntryNames(m) <=> \E j : IsEntryOf(m, j) /\ n = Append(m.name, m.message.nested[j].name)
  BY DEF EntryNames, IsEntryOf
<1>5. \A n \in declared : Filled(n) /\ IsName(n)
  <2>1. ASSUME NEW n \in EntryNames(m) PROVE Filled(n)
    <3>1. PICK j : IsEntryOf(m, j) /\ n = Append(m.name, m.message.nested[j].name)
      BY <1>4
    <3>2. IsName(m.name) /\ m.message.nested[j].name \in Identifiers
      BY <1>3, <3>1 DEF Filled
    <3>3. Filled(Append(m.name, m.message.nested[j].name))
      BY <3>2, AppendNames
    <3> QED BY <3>1, <3>3
  <2> QED BY <1>1, <2>1 DEF Filled
<1>6. PICK d : d = DescriptorOf(m.message, m.name)
  OBVIOUS
<1>7. d.alias.value = "None" /\ DescriptorShape(d)
  BY <1>6, DescriptorShaped
<1>8. d.fields = [n \in {m.message.fields[j].name : j \in LiveOnes(m.message.fields)} |->
                   Converted(m.message, m.name, LastNamed(m.message.fields, n))]
  <2>1. PICK g : g = [n \in {m.message.fields[j].name : j \in LiveOnes(m.message.fields)} |->
                       Converted(m.message, m.name, LastNamed(m.message.fields, n))]
    OBVIOUS
  <2>2. d = [EmptyDescriptor EXCEPT !.fields = g]
    BY <1>6, <2>1 DEF DescriptorOf
  <2> QED BY <2>1, <2>2 DEF EmptyDescriptor
<1>9. field.name \in DOMAIN d.fields /\ d.fields[field.name] = Converted(m.message, m.name, field)
  <2>1. PICK j \in LiveOnes(m.message.fields) :
          /\ LastNamed(m.message.fields, field.name) = m.message.fields[j]
          /\ m.message.fields[j].name = field.name
          /\ \A l \in LiveOnes(m.message.fields) : m.message.fields[l].name = field.name => l <= j
    BY <1>1, <1>2, LastNamedIs
  <2>2. j <= i /\ i <= j /\ j \in Nat /\ i \in Nat
    BY <1>1, <1>2, <2>1 DEF LiveOnes
  <2>3. j = i
    BY <2>2
  <2> QED BY <1>1, <1>8, <2>1, <2>3
<1>10. descriptors[m.name].fields[field.name].key = Converted(m.message, m.name, field).key
  <2>1. PICK f : f = d.fields[field.name]
    OBVIOUS
  <2>2. descriptors[m.name].fields[field.name] = MeantField(types, es, m.name, f)
    BY <1>6, <1>7, <1>9, <2>1 DEF MeantBy
  <2>3. MeantField(types, es, m.name, f).key = f.key
    BY DEF MeantField, OfType
  <2> QED BY <1>9, <2>1, <2>2, <2>3
<1>11. ConvertType(field.value) = "Unknown"
  BY <1>1 DEF ConvertType, ScalarTypes, KeyTypes
<1>12. Converted(m.message, m.name, field).key # "None" <=> IsMapField(m.message, m.name, field)
  <2>1. CASE IsMapField(m.message, m.name, field)
    <3>1. FieldConverts(m.message, m.name, field)
      BY <1>1, <1>2 DEF Describable
    <3>2. EntryFor(m.message, m.name, field).fields[1].value \in KeyTypes
      BY <2>1, <3>1 DEF FieldConverts
    <3>3. Converted(m.message, m.name, field).key = EntryFor(m.message, m.name, field).fields[1].value
      BY <2>1 DEF Converted
    <3> QED BY <2>1, <3>2, <3>3 DEF KeyTypes
  <2>2. CASE ~IsMapField(m.message, m.name, field)
    BY <2>2 DEF Converted
  <2> QED BY <2>1, <2>2
<1>13. descriptors[m.name].fields[field.name].key # "None" <=>
         \E j : IsEntryOf(m, j) /\ WrittenAs(m.name, m.message.nested[j].name, type)
  BY <1>1, <1>2, <1>10, <1>11, <1>12, EntriesAre DEF IsMapField
<1>14. ASSUME Meaning(declared, m.name, type) \in EntryNames(m), IsEntryName(m.name, type)
       PROVE  \E j : IsEntryOf(m, j) /\ WrittenAs(m.name, m.message.nested[j].name, type)
  <2>1. PICK j : IsEntryOf(m, j) /\ Meaning(declared, m.name, type) = Append(m.name, m.message.nested[j].name)
    BY <1>4, <1>14
  <2> QED BY <1>2, <1>3, <1>5, <1>14, <2>1, MeansWritten
<1>15. ASSUME NEW j, IsEntryOf(m, j), WrittenAs(m.name, m.message.nested[j].name, type),
              ~Shadowed(declared, m.name, type)
       PROVE  Meaning(declared, m.name, type) \in EntryNames(m)
  <2>1. Append(m.name, m.message.nested[j].name) \in declared
    BY <1>1, <1>4, <1>15
  <2>2. Meaning(declared, m.name, type) = Append(m.name, m.message.nested[j].name)
    <3>1. PICK id : id = m.message.nested[j].name
      OBVIOUS
    <3>2. id \in Identifiers /\ Append(m.name, id) \in declared /\ WrittenAs(m.name, id, type)
      BY <1>3, <1>15, <2>1, <3>1
    <3>3. \A n \in declared : IsName(n)
      BY <1>5
    <3>4. PICK name : name = m.name
      OBVIOUS
    <3>5. Filled(name) /\ Filled(type.path) /\ ~Shadowed(declared, name, type)
      BY <1>2, <1>15, <3>4
    <3>6. Append(name, id) \in declared /\ WrittenAs(name, id, type)
      BY <3>2, <3>4
    <3>7. Meaning(declared, name, type) = Append(name, id)
      BY <3>2, <3>3, <3>5, <3>6, WrittenMeans
    <3>8. Meaning(declared, m.name, type) = Append(m.name, id)
      BY <3>4, <3>7
    <3> QED BY <3>1, <3>8
  <2> QED BY <1>4, <1>15, <2>2
<1> QED BY <1>1, <1>13, <1>14, <1>15

(***************************************************************************)
(* Inside a call and between calls.                                        *)
(***************************************************************************)
\* The j-th file is in the pool, bound.
Done(fs, j, pool, list) ==
  /\ RepresentableIn(fs, j)
  /\ \A m \in LiveMessages(fs[j]) :
       /\ m.name \in DOMAIN pool /\ ~Listed(m.name, list)
       /\ pool[m.name] = MeantBy(TypesIn(fs, j), EnumsIn(fs, j), m.name,
                                 DescriptorOf(m.message, m.name))

\* Work, for the k-th of some files.
WorkIn(fs, k, pool, list, todo, known) ==
  Work(fs[k], TypesIn(fs, k), EnumsIn(fs, k), MessagesBefore(fs, k), pool, list, todo, known)

\* Between calls every file is in the pool, and nothing is left to do.
IdleInv(fs, pool, list, todo, known) ==
  /\ list = <<>> /\ todo = <<>>
  /\ known = EnumsIn(fs, Len(fs))
  /\ DOMAIN pool = MessagesBefore(fs, Len(fs) + 1)
  /\ \A j \in 1..Len(fs) : Done(fs, j, pool, <<>>)

\* In a call all files but the last are in the pool, and Work is so of the last.
BusyInv(fs, pool, list, todo, known) ==
  /\ fs # <<>>
  /\ WorkIn(fs, Len(fs), pool, list, todo, known)
  /\ \A j \in 1..(Len(fs) - 1) : Done(fs, j, pool, list)

\* The inductive invariant: a file was refused because it is not representable.
MatchInv ==
  /\ files \in Seq(Files)
  /\ pc = "idle" => IdleInv(files, descriptors, names, tasks, enums)
  /\ pc = "busy" => BusyInv(files, descriptors, names, tasks, enums)
  /\ pc = "failed" => files # <<>> /\ ~RepresentableIn(files, Len(files))

-----------------------------------------------------------------------------
\* What is before the k-th file, and what the types are with it.
LEMMA TypesAre ==
  ASSUME NEW fs, Len(fs) \in Nat, NEW k \in 1..Len(fs)
  PROVE  /\ TypesIn(fs, k) = MessagesBefore(fs, k) \cup MessageNames(fs[k]) \cup EnumsIn(fs, k)
         /\ EnumsIn(fs, k) = EnumsIn(fs, k - 1) \cup EnumNames(fs[k])
         /\ MessagesBefore(fs, k + 1) = MessagesBefore(fs, k) \cup MessageNames(fs[k])
<1>1. (k + 1) - 1 = k /\ k \in Nat
  OBVIOUS
<1>2. PICK all, before : all = 1..k /\ before = 1..(k - 1)
  OBVIOUS
<1>3. all = before \cup {k}
  <2>1. \A j : j \in 1..k <=> j \in 1..(k - 1) \/ j = k
    BY <1>1
  <2> QED BY <1>2, <2>1
<1>4. EnumsIn(fs, k) = UNION {EnumNames(fs[j]) : j \in all}
  BY <1>2 DEF EnumsIn
<1>5. EnumsIn(fs, k - 1) = UNION {EnumNames(fs[j]) : j \in before}
  BY <1>2 DEF EnumsIn
<1>6. MessagesBefore(fs, k + 1) = UNION {MessageNames(fs[j]) : j \in all}
  BY <1>1, <1>2 DEF MessagesBefore
<1>7. MessagesBefore(fs, k) = UNION {MessageNames(fs[j]) : j \in before}
  BY <1>2 DEF MessagesBefore
<1>8. TypesIn(fs, k) = UNION {MessageNames(fs[j]) \cup EnumNames(fs[j]) : j \in all}
  BY <1>2 DEF TypesIn
<1>9. EnumsIn(fs, k) = EnumsIn(fs, k - 1) \cup EnumNames(fs[k])
  BY <1>3, <1>4, <1>5
<1>10. MessagesBefore(fs, k + 1) = MessagesBefore(fs, k) \cup MessageNames(fs[k])
  BY <1>3, <1>6, <1>7
<1>11. TypesIn(fs, k) = MessagesBefore(fs, k + 1) \cup EnumsIn(fs, k)
  BY <1>4, <1>6, <1>8
<1> QED BY <1>9, <1>10, <1>11

\* No type of a file has the empty name.
LEMMA TypesFilled ==
  ASSUME NEW fs \in Seq(Files), NEW k \in 0..Len(fs)
  PROVE  \A n \in TypesIn(fs, k) \cup EnumsIn(fs, k) : Filled(n)
<1> SUFFICES ASSUME NEW j \in 1..k, NEW n \in MessageNames(fs[j]) \cup EnumNames(fs[j])
             PROVE  Filled(n)
  BY DEF TypesIn, EnumsIn
<1>1. PICK file \in Files : file = fs[j]
  OBVIOUS
<1>2. CASE n \in MessageNames(file)
  BY <1>2, LiveTyped DEF MessageNames
<1>3. CASE n \in LiveEnums(file.package, file.enums)
  <2>1. PICK i \in 1..Len(file.enums) : n = Append(file.package, file.enums[i].name)
    BY <1>3 DEF LiveEnums, LiveOnes
  <2>2. IsName(file.package) /\ file.enums[i].name \in Identifiers
    BY FilesAssumption
  <2> QED BY <2>1, <2>2, AppendNames
<1>4. ASSUME NEW m \in LiveMessages(file), n \in LiveEnums(m.name, m.message.enums) PROVE Filled(n)
  <2>1. PICK i \in 1..Len(m.message.enums) : n = Append(m.name, m.message.enums[i].name)
    BY <1>4 DEF LiveEnums, LiveOnes
  <2>2. IsName(m.name) /\ m.message.enums[i].name \in Identifiers
    BY LiveTyped DEF Filled, WellFormed
  <2> QED BY <2>1, <2>2, AppendNames
<1> QED BY <1>1, <1>2, <1>3, <1>4 DEF EnumNames

\* One more file leaves the meaning of those before it alone.
Grows(fs2, fs, file, n) ==
  /\ fs2 \in Seq(Files) /\ n \in Nat /\ Len(fs2) = n + 1 /\ fs2[n + 1] = file /\ fs2 # <<>>
  /\ EnumsIn(fs2, n) = EnumsIn(fs, n)
  /\ MessagesBefore(fs2, n + 1) = MessagesBefore(fs, n + 1)
  /\ \A j \in 1..n : \A pool, list : Done(fs, j, pool, list) => Done(fs2, j, pool, list)

\* Appending a file does that.
LEMMA FilesGrow ==
  ASSUME NEW fs \in Seq(Files), NEW file \in Files
  PROVE  Grows(Append(fs, file), fs, file, Len(fs))
<1> SUFFICES ASSUME NEW fs2, fs2 = Append(fs, file), NEW n, n = Len(fs)
             PROVE  Grows(fs2, fs, file, n)
  OBVIOUS
<1>1. fs2 \in Seq(Files) /\ n \in Nat /\ Len(fs2) = n + 1 /\ fs2[n + 1] = file /\ fs2 # <<>>
        /\ \A j \in 1..n : fs2[j] = fs[j]
  BY AppendProperties
<1>2. \A k \in 0..n : \A j \in 1..k : fs2[j] = fs[j]
  BY <1>1
<1>3. \A k \in 0..n : TypesIn(fs2, k) = TypesIn(fs, k) /\ EnumsIn(fs2, k) = EnumsIn(fs, k)
  <2> SUFFICES ASSUME NEW k \in 0..n
               PROVE  TypesIn(fs2, k) = TypesIn(fs, k) /\ EnumsIn(fs2, k) = EnumsIn(fs, k)
    OBVIOUS
  <2>1. \A j \in 1..k : fs2[j] = fs[j]
    BY <1>2
  <2> QED BY <2>1 DEF TypesIn, EnumsIn
<1>4. \A k \in 1..(n + 1) : MessagesBefore(fs2, k) = MessagesBefore(fs, k)
  <2> SUFFICES ASSUME NEW k \in 1..(n + 1) PROVE MessagesBefore(fs2, k) = MessagesBefore(fs, k)
    OBVIOUS
  <2>1. k - 1 \in 0..n
    BY <1>1
  <2>2. \A j \in 1..(k - 1) : fs2[j] = fs[j]
    BY <1>2, <2>1
  <2> QED BY <2>2 DEF MessagesBefore
<1>5. ASSUME NEW j \in 1..n, NEW pool, NEW list, Done(fs, j, pool, list) PROVE Done(fs2, j, pool, list)
  <2>1. j \in 0..n /\ j \in 1..(n + 1)
    BY <1>1
  <2>2. /\ fs2[j] = fs[j] /\ TypesIn(fs2, j) = TypesIn(fs, j) /\ EnumsIn(fs2, j) = EnumsIn(fs, j)
        /\ MessagesBefore(fs2, j) = MessagesBefore(fs, j)
    BY <1>1, <1>3, <1>4, <2>1
  <2> QED BY <1>5, <2>2 DEF Done, RepresentableIn
<1>6. n \in 0..n /\ n + 1 \in 1..(n + 1)
  BY <1>1
<1> QED BY <1>1, <1>3, <1>4, <1>5, <1>6 DEF Grows

\* Nothing that happens to other names undoes a file.
LEMMA DoneStays ==
  ASSUME NEW fs, NEW j, NEW pool, NEW list, Done(fs, j, pool, list),
         NEW name, name \notin MessageNames(fs[j]), NEW pool2, NEW list2,
         DOMAIN pool \subseteq DOMAIN pool2,
         \A n \in DOMAIN pool : n # name => pool2[n] = pool[n],
         \A n : n # name /\ Listed(n, list2) => Listed(n, list)
  PROVE  Done(fs, j, pool2, list2)
<1> SUFFICES ASSUME NEW m \in LiveMessages(fs[j])
             PROVE  /\ m.name \in DOMAIN pool2 /\ ~Listed(m.name, list2)
                    /\ pool2[m.name] = pool[m.name]
  BY DEF Done
<1>1. m.name # name /\ m.name \in DOMAIN pool /\ ~Listed(m.name, list)
  BY DEF MessageNames, Done
<1> QED BY <1>1

-----------------------------------------------------------------------------
\* A call begins.
LEMMA RegisterMatches ==
  ASSUME NEW fs \in Seq(Files), NEW pool, NEW list, NEW todo, NEW known,
         IdleInv(fs, pool, list, todo, known), NEW file \in Files,
         NEW fs2, fs2 = Append(fs, file), NEW todo2, todo2 = Entering(file.package, file.messages),
         NEW known2, known2 = known \cup LiveEnums(file.package, file.enums)
  PROVE  fs2 \in Seq(Files) /\ BusyInv(fs2, pool, <<>>, todo2, known2)
<1>1. PICK n : n = Len(fs)
  OBVIOUS
<1>2. /\ fs2 \in Seq(Files) /\ n \in Nat /\ Len(fs2) = n + 1 /\ fs2[n + 1] = file /\ fs2 # <<>>
      /\ EnumsIn(fs2, n) = EnumsIn(fs, n)
      /\ MessagesBefore(fs2, n + 1) = MessagesBefore(fs, n + 1)
      /\ \A j \in 1..n : Done(fs, j, pool, <<>>) => Done(fs2, j, pool, <<>>)
  <2>1. Grows(fs2, fs, file, n)
    BY <1>1, FilesGrow
  <2> QED BY <2>1 DEF Grows
<1>3. known = EnumsIn(fs, n) /\ DOMAIN pool = MessagesBefore(fs2, n + 1) /\ \A j \in 1..n : Done(fs2, j, pool, <<>>)
  BY <1>1, <1>2 DEF IdleInv
<1>4. n + 1 \in 1..Len(fs2) /\ (n + 1) - 1 = n /\ Len(fs2) - 1 = n /\ Len(fs2) \in Nat
  BY <1>2
<1>5. EnumsIn(fs2, n + 1) = EnumsIn(fs2, n) \cup EnumNames(file)
  <2>1. PICK k : k = n + 1
    OBVIOUS
  <2>2. k \in 1..Len(fs2) /\ Len(fs2) \in Nat /\ fs2[k] = file /\ k - 1 = n
    BY <1>2, <1>4, <2>1
  <2>3. EnumsIn(fs2, k) = EnumsIn(fs2, k - 1) \cup EnumNames(fs2[k])
    BY <2>2, TypesAre
  <2> QED BY <2>1, <2>2, <2>3
<1>6. PICK es : es = EnumsIn(fs2, n + 1)
  OBVIOUS
<1>7. known2 \subseteq es /\ es \subseteq known2 \cup UNION {LiveEnums(m.name, m.message.enums) : m \in LiveMessages(file)}
  BY <1>2, <1>3, <1>5, <1>6 DEF EnumNames
<1>8. PICK types : types = TypesIn(fs2, n + 1)
  OBVIOUS
<1>9. Work(file, types, es, DOMAIN pool, pool, <<>>, todo2, known2)
  BY <1>7, StartWork
<1>10. WorkIn(fs2, n + 1, pool, <<>>, todo2, known2)
  BY <1>2, <1>3, <1>6, <1>8, <1>9 DEF WorkIn
<1> QED BY <1>2, <1>3, <1>4, <1>10 DEF BusyInv

\* The file that is read, and what is known of it.
LEMMA ReadFile ==
  ASSUME NEW fs \in Seq(Files), NEW pool, NEW list, NEW todo, NEW known,
         BusyInv(fs, pool, list, todo, known)
  PROVE  /\ Len(fs) \in Nat /\ Len(fs) \in 1..Len(fs) /\ fs[Len(fs)] \in Files
         /\ \A m \in LiveMessages(fs[Len(fs)]) :
              LiveEnums(m.name, m.message.enums) \subseteq EnumsIn(fs, Len(fs))
         /\ \A j \in 1..(Len(fs) - 1) : MessageNames(fs[j]) \subseteq MessagesBefore(fs, Len(fs))
<1>1. Len(fs) \in Nat /\ Len(fs) # 0 /\ Len(fs) \in 1..Len(fs) /\ fs[Len(fs)] \in Files
  <2>1. Len(fs) \in Nat /\ Len(fs) # 0
    BY EmptySeq DEF BusyInv
  <2> QED BY <2>1
<1>2. EnumNames(fs[Len(fs)]) \subseteq EnumsIn(fs, Len(fs))
  BY <1>1 DEF EnumsIn
<1> QED BY <1>1, <1>2 DEF EnumNames, MessagesBefore

\* A message is entered.
LEMMA EnterMatches ==
  ASSUME NEW fs \in Seq(Files), NEW pool, NEW list, NEW todo, NEW known,
         BusyInv(fs, pool, list, todo, known), todo # <<>>,
         NEW t, t = Head(todo), t.phase = "enter",
         NEW known2, known2 = known \cup LiveEnums(NameOf(t), t.message.enums),
         NEW todo2, todo2 = Entering(NameOf(t), t.message.nested)
                              \o <<Task("close", t.scope, t.message)>> \o Tail(todo)
  PROVE  BusyInv(fs, pool, list, todo2, known2)
<1>1. PICK file, types, es, old : /\ file = fs[Len(fs)] /\ types = TypesIn(fs, Len(fs))
                                  /\ es = EnumsIn(fs, Len(fs)) /\ old = MessagesBefore(fs, Len(fs))
  OBVIOUS
<1>2. /\ Work(file, types, es, old, pool, list, todo, known) /\ file \in Files
      /\ \A m \in LiveMessages(file) : LiveEnums(m.name, m.message.enums) \subseteq es
  BY <1>1, ReadFile DEF BusyInv, WorkIn
<1>3. todo \in Seq(TaskSet(file))
  BY <1>2 DEF Work
<1>4. PICK x : x = Found(t)
  OBVIOUS
<1>5. PICK e, c : e = Entering(NameOf(t), t.message.nested) /\ c = Task("close", t.scope, t.message)
  OBVIOUS
<1>6. /\ e \in Seq(TaskSet(file)) /\ c \in TaskSet(file) /\ Enters(e, x.name, x.message.nested)
      /\ c.phase = "close" /\ Found(c) = x /\ NameOf(c) = x.name
      /\ x \in LiveMessages(file) /\ x.name = NameOf(t) /\ x.message = t.message /\ t = todo[1]
  BY <1>2, <1>3, <1>4, <1>5, EnterTasks
<1>7. todo2 \in Seq(TaskSet(file)) /\ Pushes(todo2, e, c, todo)
  BY <1>3, <1>5, <1>6, Pushed
<1>8. Work(file, types, es, old, pool, list, todo2, known2)
  BY <1>2, <1>4, <1>6, <1>7, EnterWork
<1> QED BY <1>1, <1>8 DEF BusyInv, WorkIn

\* A message is described and inserted: older files keep what they have.
LEMMA InsertMatches ==
  ASSUME NEW fs \in Seq(Files), NEW pool, NEW list, NEW todo, NEW known,
         BusyInv(fs, pool, list, todo, known), todo # <<>>,
         NEW t, t = Head(todo), t.phase = "close",
         Describable(t.message, NameOf(t)), NameOf(t) \notin DOMAIN pool,
         NEW pool2, pool2 = [n \in DOMAIN pool \cup {NameOf(t)} |->
                              IF n = NameOf(t) THEN DescriptorOf(t.message, NameOf(t)) ELSE pool[n]],
         NEW list2, list2 = Append(list, NameOf(t)),
         NEW todo2, todo2 = Tail(todo)
  PROVE  BusyInv(fs, pool2, list2, todo2, known)
<1>1. PICK file, types, es, old : /\ file = fs[Len(fs)] /\ types = TypesIn(fs, Len(fs))
                                  /\ es = EnumsIn(fs, Len(fs)) /\ old = MessagesBefore(fs, Len(fs))
  OBVIOUS
<1>2. Work(file, types, es, old, pool, list, todo, known) /\ file \in Files
  BY <1>1, ReadFile DEF BusyInv, WorkIn
<1>3. Work(file, types, es, old, pool2, list2, todo2, known)
  BY <1>2, InsertWork
<1>4. PICK name : name = NameOf(t)
  OBVIOUS
<1>5. DOMAIN pool \subseteq DOMAIN pool2 /\ \A n \in DOMAIN pool : n # name => pool2[n] = pool[n]
  BY <1>4
<1>6. \A n : n # name /\ Listed(n, list2) => Listed(n, list)
  <2>1. list \in Seq(DOMAIN pool)
    BY <1>2 DEF Work, NamesOk
  <2>2. list \in Seq(DOMAIN pool \cup {name}) /\ Len(list) \in Nat
    BY <2>1, SeqMonotonic
  <2>3. /\ Len(list2) = Len(list) + 1 /\ list2[Len(list) + 1] = name
        /\ \A i \in 1..Len(list) : list2[i] = list[i]
    BY <1>4, <2>2, AppendProperties
  <2>4. \A i \in 1..Len(list2) : i \in 1..Len(list) \/ i = Len(list) + 1
    BY <2>2, <2>3
  <2> QED BY <2>3, <2>4 DEF Listed
<1>7. ASSUME NEW j \in 1..(Len(fs) - 1) PROVE Done(fs, j, pool2, list2)
  <2>1. Done(fs, j, pool, list)
    BY DEF BusyInv
  <2>2. name \notin MessageNames(fs[j])
    BY <1>4, <2>1 DEF Done, MessageNames
  <2> QED BY <1>5, <1>6, <2>1, <2>2, DoneStays
<1> QED BY <1>1, <1>3, <1>7 DEF BusyInv, WorkIn

\* A message that is refused makes its file unrepresentable.
LEMMA RefusedMessage ==
  ASSUME NEW fs \in Seq(Files), NEW pool, NEW list, NEW todo, NEW known,
         BusyInv(fs, pool, list, todo, known), todo # <<>>,
         NEW t, t = Head(todo), t.phase = "close",
         ~Describable(t.message, NameOf(t)) \/ NameOf(t) \in DOMAIN pool
  PROVE  fs # <<>> /\ ~RepresentableIn(fs, Len(fs))
<1> SUFFICES ASSUME RepresentableIn(fs, Len(fs)) PROVE FALSE
  BY DEF BusyInv
<1>1. PICK file, types, es, old : /\ file = fs[Len(fs)] /\ types = TypesIn(fs, Len(fs))
                                  /\ es = EnumsIn(fs, Len(fs)) /\ old = MessagesBefore(fs, Len(fs))
  OBVIOUS
<1>2. Work(file, types, es, old, pool, list, todo, known) /\ file \in Files
  BY <1>1, ReadFile DEF BusyInv, WorkIn
<1>3. t \in TaskSet(file) /\ t = todo[1] /\ 1 \in 1..Len(todo)
  BY <1>2, Rest DEF Work
<1>4. Found(t) \in LiveMessages(file) /\ Found(t).name = NameOf(t) /\ Found(t).message = t.message
        /\ Waits(file, t) = {Found(t)}
  BY <1>2, <1>3, TaskTyped DEF Waits
<1>5. Apart(file) /\ Describable(t.message, NameOf(t)) /\ NameOf(t) \notin old
  BY <1>1, <1>4 DEF RepresentableIn
<1>6. NameOf(t) \notin DOMAIN pool
  BY <1>2, <1>3, <1>4, <1>5 DEF Work, StayApart
<1> QED BY <1>5, <1>6

\* When every message is described, the file's types are all there are.
LEMMA AllKnown ==
  ASSUME NEW fs \in Seq(Files), NEW pool, NEW list, NEW known,
         BusyInv(fs, pool, list, <<>>, known)
  PROVE  /\ known = EnumsIn(fs, Len(fs)) /\ known \cup DOMAIN pool = TypesIn(fs, Len(fs))
         /\ DOMAIN pool = MessagesBefore(fs, Len(fs) + 1)
<1>1. PICK file, types, es, old : /\ file = fs[Len(fs)] /\ types = TypesIn(fs, Len(fs))
                                  /\ es = EnumsIn(fs, Len(fs)) /\ old = MessagesBefore(fs, Len(fs))
  OBVIOUS
<1>2. Work(file, types, es, old, pool, list, <<>>, known) /\ file \in Files
  BY <1>1, ReadFile DEF BusyInv, WorkIn
<1>3. \A i : i \notin 1..Len(<<>>)
  OBVIOUS
<1>4. known = es
  BY <1>2, <1>3 DEF Work, EnumsOk
<1>5. \A d \in LiveMessages(file) : d.name \in DOMAIN pool
  BY <1>2, <1>3 DEF Work, Covered, Described
<1>6. DOMAIN pool = old \cup MessageNames(file)
  BY <1>2, <1>5 DEF Work, PoolOk, MessageNames
<1>7. Len(fs) \in Nat /\ Len(fs) \in 1..Len(fs)
  BY ReadFile
<1>8. types = old \cup MessageNames(file) \cup es /\ MessagesBefore(fs, Len(fs) + 1) = old \cup MessageNames(file)
  BY <1>1, <1>7, TypesAre
<1> QED BY <1>1, <1>4, <1>6, <1>8

\* The message that is bound next.
LEMMA NextMessage ==
  ASSUME NEW fs \in Seq(Files), NEW pool, NEW list, NEW known,
         BusyInv(fs, pool, list, <<>>, known), list # <<>>
  PROVE  \E d \in LiveMessages(fs[Len(fs)]) :
           /\ d.name = Head(list) /\ WellFormed(d.message) /\ IsName(d.name)
           /\ d.name \in DOMAIN pool /\ d.name \notin MessagesBefore(fs, Len(fs))
           /\ pool[d.name] = DescriptorOf(d.message, d.name) /\ DescriptorShape(pool[d.name])
           /\ Described(TypesIn(fs, Len(fs)), EnumsIn(fs, Len(fs)), MessagesBefore(fs, Len(fs)), pool, list, d)
<1>1. PICK file, types, es, old : /\ file = fs[Len(fs)] /\ types = TypesIn(fs, Len(fs))
                                  /\ es = EnumsIn(fs, Len(fs)) /\ old = MessagesBefore(fs, Len(fs))
  OBVIOUS
<1>2. Work(file, types, es, old, pool, list, <<>>, known) /\ file \in Files
  BY <1>1, ReadFile DEF BusyInv, WorkIn
<1>3. Head(list) = list[1] /\ 1 \in 1..Len(list)
  BY <1>2, Rest DEF Work, NamesOk
<1>4. PICK d \in LiveMessages(file) : d.name = list[1] /\ Described(types, es, old, pool, list, d)
  BY <1>2, <1>3 DEF Work, NamesOk
<1>5. Listed(d.name, list)
  BY <1>3, <1>4 DEF Listed
<1>6. d.name \in DOMAIN pool /\ d.name \notin old /\ pool[d.name] = DescriptorOf(d.message, d.name)
  BY <1>4, <1>5 DEF Described
<1>7. WellFormed(d.message) /\ IsName(d.name)
  BY <1>2, LiveTyped DEF Filled
<1>8. DescriptorShape(pool[d.name])
  BY <1>6, <1>7, DescriptorShaped
<1> QED BY <1>1, <1>3, <1>4, <1>6, <1>7, <1>8

\* A message is bound: older files keep what they have.
LEMMA ResolveMatches ==
  ASSUME NEW fs \in Seq(Files), NEW pool, NEW list, NEW known,
         BusyInv(fs, pool, list, <<>>, known), list # <<>>,
         NEW d \in LiveMessages(fs[Len(fs)]), d.name = Head(list),
         d.name \notin MessagesBefore(fs, Len(fs)),
         Described(TypesIn(fs, Len(fs)), EnumsIn(fs, Len(fs)), MessagesBefore(fs, Len(fs)), pool, list, d),
         Refers(TypesIn(fs, Len(fs)), d.name, DescriptorOf(d.message, d.name)),
         NEW pool2, pool2 = [pool EXCEPT ![Head(list)] =
           MeantBy(TypesIn(fs, Len(fs)), EnumsIn(fs, Len(fs)), d.name, DescriptorOf(d.message, d.name))],
         NEW list2, list2 = Tail(list)
  PROVE  BusyInv(fs, pool2, list2, <<>>, known)
<1>1. PICK file, types, es, old : /\ file = fs[Len(fs)] /\ types = TypesIn(fs, Len(fs))
                                  /\ es = EnumsIn(fs, Len(fs)) /\ old = MessagesBefore(fs, Len(fs))
  OBVIOUS
<1>2. Work(file, types, es, old, pool, list, <<>>, known) /\ file \in Files
  BY <1>1, ReadFile DEF BusyInv, WorkIn
<1>3. Work(file, types, es, old, pool2, list2, <<>>, known)
  <2>1. /\ d \in LiveMessages(file) /\ Described(types, es, old, pool, list, d)
        /\ Refers(types, d.name, DescriptorOf(d.message, d.name))
        /\ pool2 = [pool EXCEPT ![Head(list)] = MeantBy(types, es, d.name, DescriptorOf(d.message, d.name))]
    BY <1>1
  <2> QED BY <1>2, <2>1, ResolveWork
<1>4. list \in Seq(DOMAIN pool) /\ list2 \in Seq(DOMAIN pool) /\ Len(list) \in Nat /\ Len(list2) \in Nat
        /\ \A i \in 1..Len(list2) : i + 1 \in 2..Len(list) /\ list2[i] = list[i + 1]
  BY <1>2, Rest DEF Work, NamesOk
<1>5. \A n : Listed(n, list2) => Listed(n, list)
  <2> SUFFICES ASSUME NEW i \in 1..Len(list2) PROVE Listed(list2[i], list)
    BY DEF Listed
  <2>1. i + 1 \in 1..Len(list) /\ list2[i] = list[i + 1]
    BY <1>4
  <2> QED BY <2>1 DEF Listed
<1>6. DOMAIN pool2 = DOMAIN pool /\ \A n \in DOMAIN pool : n # d.name => pool2[n] = pool[n]
  OBVIOUS
<1>7. ASSUME NEW j \in 1..(Len(fs) - 1) PROVE Done(fs, j, pool2, list2)
  <2>1. Done(fs, j, pool, list)
    BY DEF BusyInv
  <2>2. d.name \notin MessageNames(fs[j])
    BY ReadFile
  <2> QED BY <1>5, <1>6, <2>1, <2>2, DoneStays
<1> QED BY <1>1, <1>3, <1>7 DEF BusyInv, WorkIn

\* A call that has nothing left to do has done what the file says.
LEMMA AcceptMatches ==
  ASSUME NEW fs \in Seq(Files), NEW pool, NEW known, BusyInv(fs, pool, <<>>, <<>>, known)
  PROVE  IdleInv(fs, pool, <<>>, <<>>, known)
<1>1. PICK file, types, es, old : /\ file = fs[Len(fs)] /\ types = TypesIn(fs, Len(fs))
                                  /\ es = EnumsIn(fs, Len(fs)) /\ old = MessagesBefore(fs, Len(fs))
  OBVIOUS
<1>2. Work(file, types, es, old, pool, <<>>, <<>>, known) /\ file \in Files
  BY <1>1, ReadFile DEF BusyInv, WorkIn
<1>3. \A i : i \notin 1..Len(<<>>)
  OBVIOUS
<1>4. Apart(file)
  BY <1>2, <1>3 DEF Work, Clean
<1>5. \A n : ~Listed(n, <<>>)
  BY <1>3 DEF Listed
<1>6. \A d \in LiveMessages(file) : Described(types, es, old, pool, <<>>, d)
  BY <1>2, <1>3 DEF Work, Covered
<1>7. \A d \in LiveMessages(file) :
        /\ Describable(d.message, d.name) /\ d.name \in DOMAIN pool /\ d.name \notin old
        /\ Refers(types, d.name, DescriptorOf(d.message, d.name))
        /\ pool[d.name] = MeantBy(types, es, d.name, DescriptorOf(d.message, d.name))
  BY <1>5, <1>6 DEF Described
<1>8. Done(fs, Len(fs), pool, <<>>)
  <2>1. RepresentableIn(fs, Len(fs))
    BY <1>1, <1>4, <1>7 DEF RepresentableIn
  <2> QED BY <1>1, <1>5, <1>7, <2>1 DEF Done
<1>9. ASSUME NEW j \in 1..Len(fs) PROVE Done(fs, j, pool, <<>>)
  <2>1. j = Len(fs) \/ j \in 1..(Len(fs) - 1)
    BY ReadFile
  <2> QED BY <1>8, <2>1 DEF BusyInv
<1> QED BY <1>9, AllKnown DEF IdleInv

\* A new pool has no files.
LEMMA EmptyMatches ==
  ASSUME NEW pool, pool = NoDescriptors
  PROVE  <<>> \in Seq(Files) /\ IdleInv(<<>>, pool, <<>>, <<>>, {})
<1>1. \A i : i \notin 1..0
  OBVIOUS
<1>2. Len(<<>>) = 0 /\ (0 + 1) - 1 = 0 /\ <<>> \in Seq(Files)
  BY EmptySeq
<1>3. EnumsIn(<<>>, 0) = {} /\ MessagesBefore(<<>>, 0 + 1) = {}
  BY <1>1, <1>2 DEF EnumsIn, MessagesBefore
<1>4. DOMAIN pool = {}
  BY DEF NoDescriptors
<1> QED BY <1>1, <1>2, <1>3, <1>4 DEF IdleInv

-----------------------------------------------------------------------------
\* MatchInv holds at first, and every step keeps it.
LEMMA InitMatches == Init => MatchInv
  BY EmptyMatches DEF Init, MatchInv

\* What the names of the next message are, and what they mean.
LEMMA NextBinding ==
  ASSUME MatchInv, pc = "busy", tasks = <<>>, names # <<>>,
         NEW T, T = TypesIn(files, Len(files)), NEW E, E = EnumsIn(files, Len(files))
  PROVE  \E d \in LiveMessages(files[Len(files)]) :
           /\ d.name = Head(names) /\ d.name \notin MessagesBefore(files, Len(files))
           /\ d.name \in DOMAIN descriptors /\ DescriptorShape(descriptors[Head(names)])
           /\ Described(T, E, MessagesBefore(files, Len(files)), descriptors, names, d)
           /\ AllResolve(Head(names), descriptors[Head(names)]) <=>
                Refers(T, d.name, DescriptorOf(d.message, d.name))
           /\ AllResolve(Head(names), descriptors[Head(names)]) =>
                Bound(Head(names), descriptors[Head(names)]) =
                  MeantBy(T, E, d.name, DescriptorOf(d.message, d.name))
<1>1. files \in Seq(Files) /\ BusyInv(files, descriptors, names, <<>>, enums)
  BY DEF MatchInv
<1>2. enums = E /\ enums \cup DOMAIN descriptors = T
  BY <1>1, AllKnown
<1>3. \A n \in T : Filled(n)
  <2>1. Len(files) \in 0..Len(files)
    BY <1>1, ReadFile
  <2> QED BY <1>1, <2>1, TypesFilled
<1>4. PICK d \in LiveMessages(files[Len(files)]) :
           /\ d.name = Head(names) /\ WellFormed(d.message) /\ IsName(d.name)
           /\ d.name \in DOMAIN descriptors /\ d.name \notin MessagesBefore(files, Len(files))
           /\ descriptors[d.name] = DescriptorOf(d.message, d.name) /\ DescriptorShape(descriptors[d.name])
           /\ Described(T, E, MessagesBefore(files, Len(files)), descriptors, names, d)
  BY <1>1, NextMessage
<1>5. PICK name, r : name = d.name /\ r = descriptors[name]
  OBVIOUS
<1>6. /\ AllResolve(name, r) <=> Refers(T, name, r)
      /\ AllResolve(name, r) => Bound(name, r) = MeantBy(T, enums, name, r)
  <2>1. IsName(name) /\ DescriptorShape(r)
    BY <1>4, <1>5
  <2> QED BY <1>2, <1>3, <2>1, BoundMeans
<1> QED BY <1>2, <1>4, <1>5, <1>6

LEMMA NextMatches == MatchInv /\ [Next]_vars => MatchInv'
<1> SUFFICES ASSUME MatchInv, [Next]_vars PROVE MatchInv'
  OBVIOUS
<1>1. CASE Register
  <2>1. PICK file \in Files :
          /\ files' = Append(files, file)
          /\ enums' = enums \cup LiveEnums(file.package, file.enums)
          /\ tasks' = Entering(file.package, file.messages)
    BY <1>1 DEF Register
  <2>2. files \in Seq(Files) /\ IdleInv(files, descriptors, names, tasks, enums)
    BY <1>1 DEF Register, MatchInv
  <2>3. files' \in Seq(Files) /\ BusyInv(files', descriptors, <<>>, tasks', enums')
    BY <2>1, <2>2, RegisterMatches
  <2>4. names' = <<>> /\ pc' = "busy" /\ descriptors' = descriptors
    BY <1>1 DEF Register
  <2> QED BY <2>3, <2>4 DEF MatchInv
<1>2. CASE EnterMessage
  <2>1. /\ pc = "busy" /\ tasks # <<>> /\ Head(tasks).phase = "enter" /\ pc' = "busy"
        /\ descriptors' = descriptors /\ names' = names /\ files' = files
        /\ enums' = enums \cup LiveEnums(NameOf(Head(tasks)), Head(tasks).message.enums)
        /\ tasks' = Entering(NameOf(Head(tasks)), Head(tasks).message.nested)
                      \o <<Task("close", Head(tasks).scope, Head(tasks).message)>> \o Tail(tasks)
    BY <1>2 DEF EnterMessage, Task1
  <2>2. files \in Seq(Files) /\ BusyInv(files, descriptors, names, tasks, enums)
    BY <2>1 DEF MatchInv
  <2>3. BusyInv(files, descriptors, names, tasks', enums')
    BY <2>1, <2>2, EnterMatches
  <2> QED BY <2>1, <2>2, <2>3 DEF MatchInv
<1>3. CASE InsertMessage
  <2>1. /\ pc = "busy" /\ tasks # <<>> /\ Head(tasks).phase = "close" /\ pc' = "busy"
        /\ Describable(Head(tasks).message, NameOf(Head(tasks)))
        /\ NameOf(Head(tasks)) \notin DOMAIN descriptors
        /\ descriptors' = [n \in DOMAIN descriptors \cup {NameOf(Head(tasks))} |->
             IF n = NameOf(Head(tasks)) THEN DescriptorOf(Head(tasks).message, NameOf(Head(tasks)))
             ELSE descriptors[n]]
        /\ names' = Append(names, NameOf(Head(tasks))) /\ tasks' = Tail(tasks)
        /\ enums' = enums /\ files' = files
    BY <1>3, Zenon DEF InsertMessage, Closing, Task1, Inserted
  <2>2. files \in Seq(Files) /\ BusyInv(files, descriptors, names, tasks, enums)
    BY <2>1 DEF MatchInv
  <2>3. BusyInv(files, descriptors', names', tasks', enums)
    BY <2>1, <2>2, InsertMatches
  <2> QED BY <2>1, <2>2, <2>3 DEF MatchInv
<1>4. CASE RefuseDuplicate \/ RefuseMessage
  <2>1. /\ pc = "busy" /\ tasks # <<>> /\ Head(tasks).phase = "close" /\ pc' = "failed" /\ files' = files
        /\ ~Describable(Head(tasks).message, NameOf(Head(tasks))) \/ NameOf(Head(tasks)) \in DOMAIN descriptors
    BY <1>4 DEF RefuseDuplicate, RefuseMessage, Closing, Task1
  <2>2. files \in Seq(Files) /\ BusyInv(files, descriptors, names, tasks, enums)
    BY <2>1 DEF MatchInv
  <2>3. files # <<>> /\ ~RepresentableIn(files, Len(files))
    BY <2>1, <2>2, RefusedMessage
  <2> QED BY <2>1, <2>2, <2>3 DEF MatchInv
<1>5. CASE ResolveMessage \/ RefuseReference
  <2>1. /\ pc = "busy" /\ tasks = <<>> /\ names # <<>>
        /\ enums' = enums /\ tasks' = tasks /\ files' = files
    BY <1>5 DEF ResolveMessage, RefuseReference, Resolving
  <2>2. files \in Seq(Files) /\ BusyInv(files, descriptors, names, <<>>, enums)
    BY <2>1 DEF MatchInv
  <2>3. PICK T, E : T = TypesIn(files, Len(files)) /\ E = EnumsIn(files, Len(files))
    OBVIOUS
  <2>4. PICK d \in LiveMessages(files[Len(files)]) :
           /\ d.name = Head(names) /\ d.name \notin MessagesBefore(files, Len(files))
           /\ Described(T, E, MessagesBefore(files, Len(files)), descriptors, names, d)
           /\ AllResolve(Head(names), descriptors[Head(names)]) <=>
                Refers(T, d.name, DescriptorOf(d.message, d.name))
           /\ AllResolve(Head(names), descriptors[Head(names)]) =>
                Bound(Head(names), descriptors[Head(names)]) =
                  MeantBy(T, E, d.name, DescriptorOf(d.message, d.name))
    BY <2>1, <2>3, NextBinding
  <2>5. CASE ResolveMessage
    <3>1. /\ AllResolve(Head(names), descriptors[Head(names)]) /\ pc' = pc /\ names' = Tail(names)
          /\ descriptors' = [descriptors EXCEPT ![Head(names)] = Bound(Head(names), descriptors[Head(names)])]
      BY <2>5 DEF ResolveMessage
    <3>2. /\ Refers(T, d.name, DescriptorOf(d.message, d.name))
          /\ descriptors' = [descriptors EXCEPT ![Head(names)] =
                              MeantBy(T, E, d.name, DescriptorOf(d.message, d.name))]
      BY <2>4, <3>1
    <3>3. BusyInv(files, descriptors', names', <<>>, enums)
      BY <2>1, <2>2, <2>3, <2>4, <3>1, <3>2, ResolveMatches
    <3> QED BY <2>1, <2>2, <3>1, <3>3 DEF MatchInv
  <2>6. CASE RefuseReference
    <3>1. ~AllResolve(Head(names), descriptors[Head(names)]) /\ pc' = "failed"
      BY <2>6 DEF RefuseReference
    <3>2. ~RepresentableIn(files, Len(files))
      BY <2>3, <2>4, <3>1 DEF RepresentableIn
    <3>3. files # <<>>
      BY <2>2 DEF BusyInv
    <3> QED BY <2>1, <2>2, <3>1, <3>2, <3>3 DEF MatchInv
  <2> QED BY <1>5, <2>5, <2>6
<1>6. CASE Accept
  <2>1. /\ pc = "busy" /\ tasks = <<>> /\ names = <<>> /\ pc' = "idle"
        /\ enums' = enums /\ descriptors' = descriptors /\ tasks' = tasks /\ names' = names /\ files' = files
    BY <1>6 DEF Accept
  <2>2. files \in Seq(Files) /\ BusyInv(files, descriptors, <<>>, <<>>, enums)
    BY <2>1 DEF MatchInv
  <2>3. IdleInv(files, descriptors, <<>>, <<>>, enums)
    BY <2>2, AcceptMatches
  <2> QED BY <2>1, <2>2, <2>3 DEF MatchInv
<1>7. CASE Discard
  <2>1. /\ pc' = "idle" /\ enums' = {} /\ descriptors' = NoDescriptors
        /\ tasks' = <<>> /\ names' = <<>> /\ files' = <<>>
    BY <1>7 DEF Discard
  <2>2. <<>> \in Seq(Files) /\ IdleInv(<<>>, descriptors', <<>>, <<>>, {})
    BY <2>1, EmptyMatches
  <2> QED BY <2>1, <2>2 DEF MatchInv
<1>8. CASE UNCHANGED vars
  BY <1>8 DEF vars, MatchInv
<1> QED
  BY <1>1, <1>2, <1>3, <1>4, <1>5, <1>6, <1>7, <1>8 DEF Next, Working

LEMMA MatchInvariant == Spec => []MatchInv
<1> QED BY InitMatches, NextMatches, PTL DEF Spec

\* What the variables hold while nothing has failed.
Typed(pool, list, todo, known) ==
  /\ \A e \in known : e # <<>>
  /\ \A i \in 1..Len(list) : list[i] \in DOMAIN pool
  /\ \A i \in 1..Len(todo) : todo[i].phase \in {"enter", "close"}

\* The variables have their types while nothing has failed.
LEMMA MatchTyped ==
  ASSUME NEW fs \in Seq(Files), NEW pool, NEW list, NEW todo, NEW known,
         BusyInv(fs, pool, list, todo, known) \/ IdleInv(fs, pool, list, todo, known)
  PROVE  Typed(pool, list, todo, known)
<1>1. \A e \in EnumsIn(fs, Len(fs)) : e # <<>>
  <2>1. Len(fs) \in 0..Len(fs)
    OBVIOUS
  <2> QED BY <2>1, TypesFilled DEF Filled
<1>2. CASE IdleInv(fs, pool, list, todo, known)
  <2>1. \A i : i \notin 1..Len(<<>>)
    OBVIOUS
  <2> QED BY <1>1, <1>2, <2>1 DEF IdleInv, Typed
<1>3. CASE BusyInv(fs, pool, list, todo, known)
  <2>1. PICK file, types, es, old : /\ file = fs[Len(fs)] /\ types = TypesIn(fs, Len(fs))
                                    /\ es = EnumsIn(fs, Len(fs)) /\ old = MessagesBefore(fs, Len(fs))
    OBVIOUS
  <2>2. Work(file, types, es, old, pool, list, todo, known)
    BY <1>3, <2>1 DEF BusyInv, WorkIn
  <2>3. known \subseteq es /\ list \in Seq(DOMAIN pool) /\ todo \in Seq(TaskSet(file))
    BY <2>2 DEF Work, EnumsOk, NamesOk
  <2>4. \A i \in 1..Len(todo) : todo[i] \in TaskSet(file)
    BY <2>3
  <2>5. \A i \in 1..Len(list) : list[i] \in DOMAIN pool
    BY <2>3
  <2>6. \A t \in TaskSet(file) : t.phase \in {"enter", "close"}
    BY DEF TaskSet
  <2> QED BY <1>1, <2>1, <2>3, <2>4, <2>5, <2>6 DEF Typed
<1> QED BY <1>2, <1>3

\* Every descriptor has the two parts that it has in the code.
Parts(pool) == \A n \in DOMAIN pool : DOMAIN pool[n] = {"alias", "fields"}

\* The descriptor of the next message has its parts, and all keep theirs.
LEMMA TaskParts ==
  ASSUME MatchInv, pc = "busy", tasks # <<>>
  PROVE  DOMAIN DescriptorOf(Head(tasks).message, NameOf(Head(tasks))) = {"alias", "fields"}
<1>1. files \in Seq(Files) /\ BusyInv(files, descriptors, names, tasks, enums)
  BY DEF MatchInv
<1>2. PICK file : file = files[Len(files)] /\ file \in Files /\ tasks \in Seq(TaskSet(file))
  BY <1>1, ReadFile DEF BusyInv, WorkIn, Work
<1>3. PICK t \in TaskSet(file) : t = Head(tasks)
  BY <1>2, Rest
<1>4. DescriptorShape(DescriptorOf(t.message, NameOf(t)))
  BY <1>2, TaskTyped, DescriptorShaped
<1>5. PICK d : d = DescriptorOf(t.message, NameOf(t))
  OBVIOUS
<1>6. d = [alias |-> d.alias, fields |-> d.fields]
  BY <1>4, <1>5 DEF DescriptorShape
<1>7. DOMAIN d = {"alias", "fields"}
  BY <1>6
<1> QED BY <1>3, <1>5, <1>7

LEMMA NextParts ==
  ASSUME MatchInv, Parts(descriptors), [Next]_vars
  PROVE  Parts(descriptors')
<1>1. CASE InsertMessage \/ RefuseDuplicate
  <2>1. /\ pc = "busy" /\ tasks # <<>>
        /\ descriptors' = Inserted(NameOf(Task1), DescriptorOf(Task1.message, NameOf(Task1)))
    BY <1>1 DEF InsertMessage, RefuseDuplicate, Closing
  <2>2. PICK name, d : name = NameOf(Task1) /\ d = DescriptorOf(Task1.message, NameOf(Task1))
    OBVIOUS
  <2>3. DOMAIN d = {"alias", "fields"}
    BY <2>1, <2>2, TaskParts DEF Task1
  <2>4. descriptors' = [n \in DOMAIN descriptors \cup {name} |-> IF n = name THEN d ELSE descriptors[n]]
    BY <2>1, <2>2 DEF Inserted
  <2> QED BY <2>3, <2>4 DEF Parts
<1>2. CASE ResolveMessage
  <2>1. PICK name : name = Head(names)
    OBVIOUS
  <2>2. descriptors' = [descriptors EXCEPT ![name] = Bound(name, descriptors[name])]
    BY <1>2, <2>1 DEF ResolveMessage
  <2>3. \A d : DOMAIN Bound(name, d) = {"alias", "fields"}
    <3> TAKE d
    <3>1. CASE d.alias.value # "None"
      BY <3>1 DEF Bound
    <3>2. CASE d.alias.value = "None"
      BY <3>2 DEF Bound
    <3> QED BY <3>1, <3>2
  <2> QED BY <2>2, <2>3 DEF Parts
<1>3. CASE RefuseReference
  <2>1. PICK d : d = EmptyDescriptor
    OBVIOUS
  <2>2. DOMAIN d = {"alias", "fields"}
    BY <2>1 DEF EmptyDescriptor
  <2>3. descriptors' = [descriptors EXCEPT ![Head(names)] = d]
    BY <1>3, <2>1 DEF RefuseReference
  <2> QED BY <2>2, <2>3 DEF Parts
<1>4. CASE Discard
  BY <1>4 DEF Discard, NoDescriptors, Parts
<1>5. CASE Register \/ EnterMessage \/ RefuseMessage \/ Accept \/ UNCHANGED vars
  <2>1. descriptors' = descriptors
    BY <1>5 DEF Register, EnterMessage, RefuseMessage, Accept, vars
  <2> QED BY <2>1
<1> QED BY <1>1, <1>2, <1>3, <1>4, <1>5 DEF Next, Working

\* Every step keeps the types.
LEMMA NextTyped ==
  ASSUME MatchInv, MatchInv', TypeOK, [Next]_vars
  PROVE  TypeOK'
<1>1. pc \in {"idle", "busy", "failed"} /\ Parts(descriptors)
  BY DEF TypeOK, Parts
<1>2. Parts(descriptors')
  BY <1>1, NextParts
<1>3. pc' \in {"idle", "busy", "failed"}
  <2>1. CASE Next
    BY <1>1, <2>1 DEF Next, Working, Register, EnterMessage, InsertMessage, RefuseDuplicate, RefuseMessage,
         ResolveMessage, RefuseReference, Accept, Discard
  <2>2. CASE UNCHANGED vars
    BY <1>1, <2>2 DEF vars
  <2> QED BY <2>1, <2>2
<1>4. Len(files') <= MaxFiles
  <2>1. CASE Register
    <3>1. PICK file \in Files : files' = Append(files, file) /\ Len(files) < MaxFiles
      BY <2>1 DEF Register
    <3>2. Len(files) \in Nat /\ Len(files') = Len(files) + 1
      BY <3>1, AppendProperties DEF MatchInv
    <3> QED BY <3>1, <3>2, PoolAssumption
  <2>2. CASE Discard
    <3>1. files' = <<>>
      BY <2>2 DEF Discard
    <3> QED BY <3>1, PoolAssumption
  <2>3. CASE Working \/ UNCHANGED vars
    <3>1. files' = files
      BY <2>3 DEF Working, EnterMessage, InsertMessage, RefuseDuplicate, RefuseMessage, ResolveMessage,
           RefuseReference, Accept, vars
    <3> QED BY <3>1 DEF TypeOK
  <2> QED BY <2>1, <2>2, <2>3 DEF Next
<1>5. Typed(descriptors', names', tasks', enums')
  <2>1. CASE pc' # "failed"
    <3>1. /\ files' \in Seq(Files)
          /\ \/ BusyInv(files', descriptors', names', tasks', enums')
             \/ IdleInv(files', descriptors', names', tasks', enums')
      BY <1>3, <2>1 DEF MatchInv
    <3> QED BY <3>1, MatchTyped
  <2>2. CASE pc' = "failed"
    <3>1. /\ names' = names /\ tasks' = tasks /\ enums' = enums
          /\ DOMAIN descriptors \subseteq DOMAIN descriptors'
      <4>1. CASE RefuseDuplicate
        <5>1. names' = names /\ tasks' = tasks /\ enums' = enums
          BY <4>1 DEF RefuseDuplicate
        <5>2. DOMAIN descriptors \subseteq DOMAIN descriptors'
          BY <4>1 DEF RefuseDuplicate, Inserted
        <5> QED BY <5>1, <5>2
      <4>2. CASE RefuseMessage \/ RefuseReference \/ UNCHANGED vars
        BY <4>2 DEF RefuseMessage, RefuseReference, vars
      <4>3. CASE Register \/ EnterMessage \/ InsertMessage \/ ResolveMessage \/ Accept \/ Discard
        BY <2>2, <4>3 DEF Register, EnterMessage, InsertMessage, ResolveMessage, Accept, Discard, Closing, Resolving
      <4> QED BY <4>1, <4>2, <4>3 DEF Next, Working
    <3> QED BY <3>1 DEF TypeOK, Typed
  <2> QED BY <2>1, <2>2
<1> QED BY <1>2, <1>3, <1>4, <1>5 DEF TypeOK, Typed, Parts

LEMMA InitTyped == Init => TypeOK
<1> SUFFICES ASSUME Init PROVE TypeOK
  OBVIOUS
<1>1. \A i : i \notin 1..Len(<<>>)
  OBVIOUS
<1>2. DOMAIN descriptors = {} /\ Len(files) = 0
  BY DEF Init, NoDescriptors
<1> QED BY <1>1, <1>2, PoolAssumption DEF Init, TypeOK

LEMMA TypeInvariant == Spec => []TypeOK
<1>1. MatchInv /\ MatchInv' /\ TypeOK /\ [Next]_vars => TypeOK'
  BY NextTyped
<1> QED BY <1>1, InitTyped, MatchInvariant, PTL DEF Spec

\* Whatever the files: between calls the pool holds exactly the live types of
\* the files it was given, and every type name means what protobuf's scoping
\* rule makes it mean once the whole file is known.
THEOREM PoolIsWhatFilesSay == Spec => []PoolMatchesFiles
<1>1. MatchInv /\ TypeOK => PoolMatchesFiles
  <2> SUFFICES ASSUME MatchInv, TypeOK, pc = "idle"
               PROVE  /\ enums = EnumsUpTo(Len(files))
                      /\ DOMAIN descriptors = UNION {MessageNames(files[k]) : k \in 1..Len(files)}
                      /\ \A k \in 1..Len(files) : \A m \in LiveMessages(files[k]) :
                           descriptors[m.name] = MeantDescriptor(k, m) /\ MapsFound(k, m)
    BY DEF PoolMatchesFiles
  <2>1. files \in Seq(Files) /\ IdleInv(files, descriptors, names, tasks, enums)
    BY DEF MatchInv
  <2>2. enums = EnumsUpTo(Len(files))
    BY <2>1 DEF IdleInv, EnumsIn, EnumsUpTo
  <2>3. DOMAIN descriptors = UNION {MessageNames(files[k]) : k \in 1..Len(files)}
    <3>1. (Len(files) + 1) - 1 = Len(files)
      BY <2>1
    <3> QED BY <2>1, <3>1 DEF IdleInv, MessagesBefore
  <2>4. ASSUME NEW k \in 1..Len(files), NEW m \in LiveMessages(files[k])
        PROVE  descriptors[m.name] = MeantDescriptor(k, m) /\ MapsFound(k, m)
    <3>1. files[k] \in Files /\ k \in 0..Len(files)
      BY <2>1
    <3>2. WellFormed(m.message) /\ Filled(m.name)
      BY <3>1, LiveTyped
    <3>3. PICK types, es : types = TypesIn(files, k) /\ es = EnumsIn(files, k)
      OBVIOUS
    <3>4. /\ Describable(m.message, m.name)
          /\ descriptors[m.name] = MeantBy(types, es, m.name, DescriptorOf(m.message, m.name))
      BY <2>1, <3>3 DEF IdleInv, Done, RepresentableIn
    <3>5. descriptors[m.name] = MeantDescriptor(k, m)
      BY <3>2, <3>3, <3>4, DescriptorMeans
    <3>6. \A n \in TypesUpTo(k) : Filled(n)
      <4>1. TypesUpTo(k) = TypesIn(files, k)
        BY DEF TypesUpTo, TypesIn
      <4> QED BY <2>1, <3>1, <4>1, TypesFilled
    <3>7. MapsFound(k, m)
      BY <3>2, <3>4, <3>6, MapsAre
    <3> QED BY <3>5, <3>7
  <2> QED BY <2>2, <2>3, <2>4
<1> QED BY <1>1, MatchInvariant, TypeInvariant, PTL

\* Whatever the files: one is refused when it cannot be represented after the
\* files before it, and only then.
THEOREM RefusesJustTheInvalid == Spec => []RefusesExactlyInvalid
<1>1. MatchInv => RefusesExactlyInvalid
  BY RepresentableMeans DEF MatchInv, IdleInv, Done, RefusesExactlyInvalid
<1> QED BY <1>1, MatchInvariant, PTL
=============================================================================
