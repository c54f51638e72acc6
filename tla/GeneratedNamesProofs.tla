------------------------ MODULE GeneratedNamesProofs ------------------------
(***************************************************************************)
(* Proofs that assign_unique_names gives distinct names, and that the      *)
(* generated paths lead to the types they are written for, for every       *)
(* request and every runtime.  Names are never looked into.                *)
(***************************************************************************)
EXTENDS GeneratedModules, SequenceTheorems, TLAPS

\* A type that is through has a name no other type of its package has, one that
\* still waits for its turn included.
Settled(t) ==
  /\ names[t] \notin RuntimeNames
  /\ \A u \in registry \ {t} : u.package = t.package => names[u] # names[t]

TypesInv ==
  /\ todo \subseteq registry
  /\ \A t \in registry : <<t.package, names[t]>> \in reserved
  /\ \A t \in registry, name \in RuntimeNames : <<t.package, name>> \in reserved
  /\ \A t \in registry \ todo : Settled(t)

\* The same for mutable types; those that wait have no name yet.
MutableSettled(t) ==
  /\ mutables[t] \in reserved /\ mutables[t] \notin RootNames
  /\ \A u \in (DOMAIN mutables \ todo) \ {t} : mutables[u] # mutables[t]

MutablesInv ==
  /\ todo \subseteq DOMAIN mutables
  /\ RootNames \subseteq reserved
  /\ \A t \in DOMAIN mutables \ todo : MutableSettled(t)

NamesInv ==
  /\ phase \in {"read", "types", "mutables", "done"}
  /\ DOMAIN names = registry
  /\ phase = "types" => TypesInv
  /\ phase \in {"mutables", "done"} => \A t \in registry : Settled(t)
  /\ phase = "mutables" => MutablesInv
  /\ phase = "done" => MutablesInv /\ todo = {}

LEMMA NamesInit == Init => NamesInv
BY DEF Init, NamesInv

LEMMA ReadKeeps == ASSUME NEW file, ReadFile(file), NamesInv PROVE NamesInv'
BY DEF ReadFile, NamesInv

LEMMA GroupTypesEstablishes == GroupTypes /\ NamesInv => NamesInv'
<1> SUFFICES ASSUME GroupTypes, NamesInv PROVE NamesInv'
  OBVIOUS
<1>1. TypesInv'
  BY DEF GroupTypes, TypesInv, Settled, Ambiguous
<1>2. QED
  BY <1>1 DEF GroupTypes, NamesInv

LEMMA TryTypeKeeps == ASSUME NEW t \in todo, TryType(t), NamesInv PROVE NamesInv'
<1>1. phase = "types" /\ phase' = "types" /\ TypesInv /\ registry' = registry
  BY DEF TryType, NamesInv
<1> DEFINE name == Alternative(TypeBase(t), suffix)
<1>2. CASE <<t.package, name>> \in reserved
  <2>1. names' = names /\ reserved' = reserved /\ todo' = todo
    BY <1>2 DEF TryType
  <2>2. QED
    BY <1>1, <2>1 DEF NamesInv, TypesInv, Settled
<1>3. CASE <<t.package, name>> \notin reserved
  <2>1. /\ names' = [names EXCEPT ![t] = name]
        /\ reserved' = reserved \cup {<<t.package, name>>}
        /\ todo' = todo \ {t}
    BY <1>3 DEF TryType
  <2>2. t \in registry /\ DOMAIN names = registry
    BY <1>1 DEF NamesInv, TypesInv
  <2>3. names'[t] = name /\ \A u \in registry \ {t} : names'[u] = names[u]
    BY <2>1, <2>2
  <2>4. name \notin RuntimeNames
    BY <1>1, <1>3, <2>2 DEF TypesInv
  <2>5. \A u \in registry \ {t} : u.package = t.package => names[u] # name
    BY <1>1, <1>3 DEF TypesInv
  <2>6. Settled(t)'
    BY <1>1, <2>3, <2>4, <2>5 DEF Settled
  <2>7. \A v \in registry' \ todo' : Settled(v)'
    <3>1. SUFFICES ASSUME NEW v \in registry \ todo, v # t PROVE Settled(v)'
      BY <1>1, <2>1, <2>6
    <3>2. Settled(v)
      BY <1>1, <3>1 DEF TypesInv
    <3>3. QED
      BY <1>1, <2>3, <2>5, <3>1, <3>2 DEF Settled
  <2>8. \A u \in registry' : <<u.package, names'[u]>> \in reserved'
    BY <1>1, <2>1, <2>3 DEF TypesInv
  <2>9. TypesInv'
    BY <1>1, <2>1, <2>7, <2>8 DEF TypesInv
  <2>10. QED
    BY <1>1, <2>1, <2>2, <2>9 DEF NamesInv
<1>4. QED
  BY <1>2, <1>3

LEMMA GroupMutablesEstablishes == GroupMutables /\ NamesInv => NamesInv'
<1> SUFFICES ASSUME GroupMutables, NamesInv PROVE NamesInv'
  OBVIOUS
<1>1. \A t \in registry : Settled(t)'
  BY DEF GroupMutables, NamesInv, TypesInv, Settled
<1>2. RootNames' = RootNames /\ DOMAIN mutables' = DOMAIN mutables
  BY DEF GroupMutables, RootNames
<1>3. ASSUME NEW t \in DOMAIN mutables \ todo' PROVE ~MutableAmbiguous(t) /\ mutables'[t] = MutableDefault(t)
  BY <1>3 DEF GroupMutables
<1>4. MutablesInv'
  <2>1. ASSUME NEW t \in DOMAIN mutables \ todo' PROVE MutableSettled(t)'
    BY <1>2, <1>3, <2>1 DEF GroupMutables, MutableSettled, MutableAmbiguous
  <2>2. QED
    BY <1>2, <2>1 DEF GroupMutables, MutablesInv
<1>5. QED
  BY <1>1, <1>4 DEF GroupMutables, NamesInv

LEMMA TryMutableKeeps == ASSUME NEW t \in todo, TryMutable(t), NamesInv PROVE NamesInv'
<1>1. phase = "mutables" /\ phase' = "mutables" /\ MutablesInv /\ registry' = registry /\ names' = names
  BY DEF TryMutable, NamesInv
<1>2. RootNames' = RootNames /\ \A u \in registry : Settled(u)'
  BY <1>1 DEF RootNames, Settled, NamesInv
<1> DEFINE name == Alternative(MutableBase(t), suffix)
<1>3. CASE name \in reserved
  <2>1. mutables' = mutables /\ reserved' = reserved /\ todo' = todo
    BY <1>3 DEF TryMutable
  <2>2. MutablesInv'
    BY <1>1, <1>2, <2>1 DEF MutablesInv, MutableSettled
  <2>3. QED
    BY <1>1, <1>2, <2>2 DEF NamesInv
<1>4. CASE name \notin reserved
  <2>1. /\ mutables' = [mutables EXCEPT ![t] = name]
        /\ reserved' = reserved \cup {name}
        /\ todo' = todo \ {t}
    BY <1>4 DEF TryMutable
  <2>2. t \in DOMAIN mutables /\ DOMAIN mutables' = DOMAIN mutables
    BY <1>1, <2>1 DEF MutablesInv
  <2>3. mutables'[t] = name /\ \A u \in DOMAIN mutables \ {t} : mutables'[u] = mutables[u]
    BY <2>1, <2>2
  <2>4. name \notin RootNames /\ \A u \in DOMAIN mutables \ todo : mutables[u] # name
    BY <1>1, <1>4 DEF MutablesInv, MutableSettled
  <2>5. MutableSettled(t)'
    BY <1>2, <2>1, <2>2, <2>3, <2>4 DEF MutableSettled
  <2>6. ASSUME NEW v \in DOMAIN mutables \ todo PROVE MutableSettled(v)'
    <3>1. MutableSettled(v) /\ v # t
      BY <1>1, <2>6 DEF MutablesInv
    <3>2. mutables'[v] = mutables[v]
      BY <2>3, <2>6, <3>1
    <3>3. ASSUME NEW u \in (DOMAIN mutables \ todo') \ {v} PROVE mutables'[u] # mutables'[v]
      BY <2>1, <2>3, <2>4, <2>6, <3>1, <3>2, <3>3 DEF MutableSettled
    <3>4. QED
      BY <1>2, <2>1, <2>2, <3>1, <3>2, <3>3 DEF MutableSettled
  <2>7. MutablesInv'
    BY <1>1, <1>2, <2>1, <2>2, <2>5, <2>6 DEF MutablesInv
  <2>8. QED
    BY <1>1, <1>2, <2>7 DEF NamesInv
<1>5. QED
  BY <1>3, <1>4

LEMMA ReturnKeeps == Return /\ NamesInv => NamesInv'
BY DEF Return, NamesInv, Settled, MutablesInv, MutableSettled, RootNames

LEMMA StutterKeeps == UNCHANGED vars /\ NamesInv => NamesInv'
BY DEF vars, NamesInv, TypesInv, Settled, MutablesInv, MutableSettled, RootNames

LEMMA NamesInvariant == Spec => []NamesInv
<1>1. NamesInv /\ [Next]_vars => NamesInv'
  BY ReadKeeps, GroupTypesEstablishes, TryTypeKeeps, GroupMutablesEstablishes,
     TryMutableKeeps, ReturnKeeps, StutterKeeps DEF Next, Assign
<1>2. QED
  BY NamesInit, <1>1, PTL DEF Spec

\* Whatever the request declares, no two Rust types of a package are given the
\* same name, and none the name of something generated code takes from the runtime.
THEOREM TypesAreDistinct == Spec => []NamesDistinct
<1>1. NamesInv => NamesDistinct
  BY DEF NamesInv, Settled, NamesDistinct
<1>2. QED
  BY NamesInvariant, <1>1, PTL

\* All mutable types, of whatever packages, can be re-exported to one scope
\* beside the types of no package and the outermost modules.
THEOREM MutablesAreDistinct == Spec => []MutablesDistinct
<1>1. NamesInv => MutablesDistinct
  BY DEF NamesInv, MutablesInv, MutableSettled, MutablesDistinct, Done
<1>2. QED
  BY NamesInvariant, <1>1, PTL

-----------------------------------------------------------------------------
(* Only types whose first name is shared or taken are named anew.          *)

SharesDefault(t) ==
  \/ DefaultName(t) \in RuntimeNames
  \/ \E u \in registry \ {t} : u.package = t.package /\ DefaultName(u) = DefaultName(t)

KeptInv ==
  /\ phase = "read" => \A t \in registry : names[t] = DefaultName(t)
  /\ phase = "types" => \A t \in todo : SharesDefault(t)
  /\ \A t \in registry : names[t] = DefaultName(t) \/ SharesDefault(t)

LEMMA KeptByNaming ==
  ASSUME NEW t \in todo, TryType(t), NamesInv, KeptInv PROVE KeptInv'
<1>1. /\ phase' = phase /\ registry' = registry /\ phase = "types" /\ DOMAIN names = registry
      /\ todo' \subseteq todo /\ \A u \in registry : u = t \/ names'[u] = names[u]
  BY DEF TryType, NamesInv
<1>2. SharesDefault(t)
  BY <1>1 DEF KeptInv
<1>3. QED
  BY <1>1, <1>2 DEF KeptInv, SharesDefault

LEMMA KeptInductive == NamesInv /\ KeptInv /\ [Next]_vars => KeptInv'
<1> SUFFICES ASSUME NamesInv, KeptInv, [Next]_vars PROVE KeptInv'
  OBVIOUS
<1>1. ASSUME NEW file, ReadFile(file) PROVE KeptInv'
  BY <1>1 DEF ReadFile, KeptInv
<1>2. CASE GroupTypes
  BY <1>2 DEF GroupTypes, KeptInv, Ambiguous, SharesDefault
<1>3. ASSUME NEW t \in todo, TryType(t) PROVE KeptInv'
  BY <1>3, KeptByNaming
<1>4. CASE GroupMutables
  BY <1>4 DEF GroupMutables, KeptInv, SharesDefault
<1>5. ASSUME NEW t \in todo, TryMutable(t) PROVE KeptInv'
  BY <1>5 DEF TryMutable, KeptInv, SharesDefault
<1>6. CASE Return
  BY <1>6 DEF Return, KeptInv, SharesDefault
<1>7. CASE UNCHANGED vars
  BY <1>7 DEF vars, KeptInv, SharesDefault
<1>8. QED
  BY <1>1, <1>2, <1>3, <1>4, <1>5, <1>6, <1>7 DEF Next, Assign

\* A name that is unique in its package and not the runtime's is never changed,
\* whatever other types are named anew.
THEOREM UniqueNamesStay == Spec => []UniqueNamesKept
<1>1. Init => KeptInv
  BY DEF Init, KeptInv
<1>2. KeptInv => UniqueNamesKept
  BY DEF KeptInv, SharesDefault, UniqueNamesKept, Done
<1>3. QED
  BY NamesInvariant, KeptInductive, <1>1, <1>2, PTL DEF Spec

-----------------------------------------------------------------------------
(* Where types are written.                                                *)

\* The registry holds what the files read declare, and the loop's variables
\* have their types.
FoundInv ==
  /\ files \subseteq Files
  /\ registry = UNION {Collected(file) : file \in files}
  /\ DOMAIN mutables = {t \in registry : IsMessage(t)}
  /\ todo \subseteq registry
  /\ suffix \in Nat \ {0}
  /\ phase \in {"read", "done"} \/ todo = {} => suffix = 1

\* Reading a file adds what it declares.
LEMMA FoundByReading ==
  ASSUME NEW file \in Files, ReadFile(file), FoundInv PROVE FoundInv'
<1>1. /\ files' = files \cup {file} /\ registry' = registry \cup Collected(file)
      /\ phase' = phase /\ phase = "read" /\ todo' = todo /\ suffix' = suffix
      /\ DOMAIN mutables' = {t \in registry' : IsMessage(t)}
  BY DEF ReadFile
<1>2. registry' = UNION {Collected(f) : f \in files'}
  BY <1>1 DEF FoundInv
<1>3. QED
  BY <1>1, <1>2 DEF FoundInv

\* A turn of the loop for Rust types.
LEMMA FoundByTryType ==
  ASSUME NEW t \in todo, TryType(t), FoundInv PROVE FoundInv'
<1>1. /\ phase = "types" /\ phase' = phase /\ files' = files /\ registry' = registry /\ mutables' = mutables
      /\ \/ suffix' = suffix + 1 /\ todo' = todo
         \/ suffix' = 1 /\ todo' = todo \ {t}
  BY DEF TryType
<1>2. QED
  BY <1>1 DEF FoundInv

\* A turn of the loop for mutable types.
LEMMA FoundByTryMutable ==
  ASSUME NEW t \in todo, TryMutable(t), FoundInv PROVE FoundInv'
<1>1. /\ phase = "mutables" /\ phase' = phase /\ files' = files /\ registry' = registry
      /\ DOMAIN mutables' = DOMAIN mutables
      /\ \/ suffix' = suffix + 1 /\ todo' = todo
         \/ suffix' = 1 /\ todo' = todo \ {t}
  BY DEF TryMutable
<1>2. QED
  BY <1>1 DEF FoundInv

\* Every step keeps it.
LEMMA FoundInductive == NamesInv /\ FoundInv /\ [Next]_vars => FoundInv'
<1> SUFFICES ASSUME NamesInv, FoundInv, [Next]_vars PROVE FoundInv'
  OBVIOUS
<1>1. ASSUME NEW file \in Files \ files, ReadFile(file) PROVE FoundInv'
  BY <1>1, FoundByReading
<1>2. CASE GroupTypes
  BY <1>2 DEF GroupTypes, FoundInv
<1>3. ASSUME NEW t \in todo, TryType(t) PROVE FoundInv'
  BY <1>3, FoundByTryType
<1>4. CASE GroupMutables
  <2>1. /\ DOMAIN mutables' = DOMAIN mutables /\ todo' \subseteq DOMAIN mutables
        /\ files' = files /\ registry' = registry /\ suffix' = suffix /\ todo = {}
    BY <1>4 DEF GroupMutables
  <2>2. QED
    BY <2>1 DEF FoundInv
<1>5. ASSUME NEW t \in todo, TryMutable(t) PROVE FoundInv'
  BY <1>5, FoundByTryMutable
<1>6. CASE Return
  BY <1>6 DEF Return, FoundInv
<1>7. CASE UNCHANGED vars
  BY <1>7 DEF vars, FoundInv
<1>8. QED
  BY <1>1, <1>2, <1>3, <1>4, <1>5, <1>6, <1>7 DEF Next, Assign

\* The registry in every reachable state.
LEMMA FoundInvariant == Spec => []FoundInv
<1>1. Init => FoundInv
  BY DEF Init, FoundInv
<1>2. QED
  BY NamesInvariant, FoundInductive, <1>1, PTL DEF Spec

\* A prefix of a sequence, and a prefix of that.
LEMMA PrefixOfPrefix ==
  ASSUME NEW S, NEW s \in Seq(S), NEW k \in 1..Len(s), NEW l \in 0..k
  PROVE  /\ SubSeq(s, 1, k) \in Seq(S) /\ Len(SubSeq(s, 1, k)) = k
         /\ SubSeq(SubSeq(s, 1, k), 1, l) = SubSeq(s, 1, l)
<1> DEFINE t == SubSeq(s, 1, k)
<1>1. t \in Seq(S) /\ Len(t) = k /\ \A i \in 1..k : t[i] = s[i]
  OBVIOUS
<1>2. SubSeq(t, 1, l) \in Seq(S) /\ Len(SubSeq(t, 1, l)) = l /\ \A i \in 1..l : SubSeq(t, 1, l)[i] = t[i]
  BY <1>1
<1>3. SubSeq(s, 1, l) \in Seq(S) /\ Len(SubSeq(s, 1, l)) = l /\ \A i \in 1..l : SubSeq(s, 1, l)[i] = s[i]
  OBVIOUS
<1>4. \A i \in 1..l : SubSeq(t, 1, l)[i] = SubSeq(s, 1, l)[i]
  BY <1>1, <1>2, <1>3
<1> HIDE DEF t
<1>5. SubSeq(t, 1, l) = SubSeq(s, 1, l)
  BY <1>2, <1>3, <1>4, SeqEqual
<1>6. QED
  BY <1>1, <1>5 DEF t

\* What a kept declaration is nested in is kept, and a message.
LEMMA EnclosingKept ==
  ASSUME NEW file \in Files, NEW d \in Kept(file.types), NEW k \in 1..Len(d.path) - 1
  PROVE  \E e \in Kept(file.types) : e.path = SubSeq(d.path, 1, k) /\ e.sort # "enum"
<1>1. d \in file.types /\ \A e \in file.types : Encloses(e, d) => ~Skipped(e)
  BY DEF Kept
<1>2. PICK e \in file.types : e.path = SubSeq(d.path, 1, k) /\ e.sort # "enum"
  BY <1>1, DeclarationsAssumption
<1>3. ASSUME NEW c \in file.types, Encloses(c, e) PROVE Encloses(c, d)
  <2>1. PICK S : d.path \in Seq(S)
    BY <1>1, DeclarationsAssumption DEF IsSequence
  <2>2. PICK R : c.path \in Seq(R)
    BY DeclarationsAssumption DEF IsSequence
  <2>3. k \in 1..Len(d.path) /\ k \in Nat /\ Len(d.path) \in Nat /\ Len(c.path) \in Nat
    BY <2>1, <2>2, LenProperties
  <2>4. Len(e.path) = k
    BY <1>2, <2>1, <2>3, PrefixOfPrefix
  <2>5. Len(c.path) \in 0..k /\ c.path = SubSeq(SubSeq(d.path, 1, k), 1, Len(c.path))
    BY <1>2, <1>3, <2>3, <2>4 DEF Encloses
  <2>6. c.path = SubSeq(d.path, 1, Len(c.path))
    BY <2>1, <2>3, <2>5, PrefixOfPrefix
  <2>7. QED
    BY <2>3, <2>5, <2>6 DEF Encloses
<1>4. e \in Kept(file.types)
  BY <1>1, <1>3 DEF Kept
<1>5. QED
  BY <1>2, <1>4

\* Every registered type is written to the module of its package, because all it
\* is nested in is registered.
LEMMA RegisteredAreWritten ==
  ASSUME FoundInv
  PROVE  /\ \A t \in registry : \E file \in files : t \in Written(file) /\ t.package = file.package
         /\ \A file \in files : Written(file) \subseteq registry
<1>1. ASSUME NEW t \in registry
      PROVE  \E file \in files : t \in Written(file) /\ t.package = file.package
  <2>1. PICK file \in files : t \in Collected(file)
    BY <1>1 DEF FoundInv
  <2>2. PICK d \in Kept(file.types) :
          t = [package |-> file.package, path |-> d.path, sort |-> d.sort, file |-> file.name]
    BY <2>1 DEF Collected
  <2>3. file \in Files /\ t.package = file.package /\ t.path = d.path /\ t.file = file.name
    BY <2>2 DEF FoundInv
  <2>4. ASSUME NEW k \in 1..Len(t.path) - 1
        PROVE  \E u \in registry : IsMessage(u) /\ u.package = t.package /\ u.path = SubSeq(t.path, 1, k)
    <3>1. PICK e \in Kept(file.types) : e.path = SubSeq(d.path, 1, k) /\ e.sort # "enum"
      BY <2>3, EnclosingKept
    <3> DEFINE u == [package |-> file.package, path |-> e.path, sort |-> e.sort, file |-> file.name]
    <3>2. u \in Collected(file)
      BY DEF Collected
    <3>3. u \in registry
      BY <3>2 DEF FoundInv
    <3>4. IsMessage(u) /\ u.package = t.package /\ u.path = SubSeq(t.path, 1, k)
      BY <2>3, <3>1 DEF IsMessage
    <3>5. QED
      BY <3>3, <3>4
  <2>5. QED
    BY <2>3, <2>4 DEF Written
<1>2. QED
  BY <1>1 DEF Written

\* A name in the module of a type's package is that type's alone, and no import.
LEMMA NameFindsType ==
  ASSUME NamesInv, FoundInv, Done, NEW t \in registry
  PROVE  /\ t.package \in Modules
         /\ ~Imported(t.package, names[t]) /\ ~ReExported(t.package, names[t])
         /\ TypesIn(t.package, names[t]) = {t}
<1>1. PICK file \in files : t \in Written(file) /\ t.package = file.package
  BY RegisteredAreWritten
<1>2. Settled(t)
  BY DEF NamesInv, Done
<1>3. t.package \in Modules
  <2>1. file \in Files
    BY DEF FoundInv
  <2>2. PICK S : file.package \in Seq(S)
    BY <2>1, DeclarationsAssumption DEF IsSequence
  <2>3. Len(file.package) \in 0..Len(file.package) /\ SubSeq(file.package, 1, Len(file.package)) = file.package
    <3>1. Len(file.package) \in Nat
      BY <2>2, LenProperties
    <3>2. /\ SubSeq(file.package, 1, Len(file.package)) \in Seq(S)
          /\ Len(SubSeq(file.package, 1, Len(file.package))) = Len(file.package)
          /\ \A i \in 1..Len(file.package) : SubSeq(file.package, 1, Len(file.package))[i] = file.package[i]
      BY <2>2
    <3>3. SubSeq(file.package, 1, Len(file.package)) = file.package
      BY <2>2, <3>2, SeqEqual
    <3>4. QED
      BY <3>1, <3>3
  <2>4. file.package \in Prefixes(file.package)
    BY <2>3 DEF Prefixes
  <2>5. QED
    BY <1>1, <2>4 DEF Modules
<1>4. ~Imported(t.package, names[t])
  BY <1>2 DEF Settled, Imported
<1>5. t \in TypesIn(t.package, names[t])
  BY <1>1 DEF TypesIn
<1>6. ASSUME NEW u \in TypesIn(t.package, names[t]) PROVE u = t
  <2>1. u \in registry /\ u.package = t.package /\ names[u] = names[t]
    BY <1>6, RegisteredAreWritten DEF TypesIn
  <2>2. QED
    BY <1>2, <2>1 DEF Settled
<1>7. ~ReExported(t.package, names[t])
  <2> SUFFICES ASSUME t.package = <<>>, NEW u \in DOMAIN mutables PROVE mutables[u] # names[t]
    BY DEF ReExported
  <2>1. names[t] \in RootNames
    BY DEF RootNames
  <2>2. QED
    BY <2>1 DEF NamesInv, Done, MutablesInv, MutableSettled
<1>8. QED
  BY <1>3, <1>4, <1>5, <1>6, <1>7

\* Going up to the scope and down to a package leads to the package's module.
LEMMA PathFindsType ==
  ASSUME NamesInv, FoundInv, Done, NEW t \in registry,
         ~HasModule(t.package, names[t]),
         NEW S, NEW module \in Seq(S), NEW path, path.name = names[t],
         \/ path.up = Len(module) /\ path.down = t.package
         \/ path.up = 0 /\ path.down = <<>> /\ module = t.package
  PROVE  Meaning(module, path) = {t}
<1>1. Len(module) \in Nat
  BY LenProperties
<1>2. PICK R : t.package \in Seq(R)
  <2>1. PICK file \in files : t.package = file.package
    BY RegisteredAreWritten
  <2>2. QED
    BY <2>1, DeclarationsAssumption DEF FoundInv, IsSequence
<1>3. ~(path.up > Len(module))
  BY <1>1
<1>4. SubSeq(module, 1, Len(module) - path.up) \o path.down = t.package
  <2>1. CASE path.up = Len(module) /\ path.down = t.package
    <3>1. Len(module) - path.up = 0
      BY <1>1, <2>1
    <3>2. SubSeq(module, 1, 0) = <<>>
      BY SubSeqEmpty
    <3>3. <<>> \o t.package = t.package
      BY <1>2
    <3>4. QED
      BY <2>1, <3>1, <3>2, <3>3
  <2>2. CASE path.up = 0 /\ path.down = <<>> /\ module = t.package
    <3>1. Len(module) - path.up = Len(module)
      BY <1>1, <2>2
    <3>2. SubSeq(module, 1, Len(module)) = module
      <4>1. /\ SubSeq(module, 1, Len(module)) \in Seq(S) /\ Len(SubSeq(module, 1, Len(module))) = Len(module)
            /\ \A i \in 1..Len(module) : SubSeq(module, 1, Len(module))[i] = module[i]
        OBVIOUS
      <4>2. QED
        BY <4>1, SeqEqual
    <3>3. module \o <<>> = module
      OBVIOUS
    <3>4. QED
      BY <2>2, <3>1, <3>2, <3>3
  <2>3. QED
    BY <2>1, <2>2
<1>5. QED
  BY <1>3, <1>4, NameFindsType DEF Meaning

\* So does a mutable name.
LEMMA MutableFindsType ==
  ASSUME NamesInv, FoundInv, Done, NEW t \in registry, IsMessage(t), ~HasModule(<<>>, mutables[t]), NEW name
  PROVE  MutableMeaning(mutables[t], name, t) = {t}
<1>1. t \in DOMAIN mutables /\ \A u \in registry : IsMessage(u) => u \in DOMAIN mutables
  BY DEF FoundInv
<1>2. \A u \in DOMAIN mutables \ {t} : mutables[u] # mutables[t]
  BY <1>1 DEF NamesInv, Done, MutablesInv, MutableSettled
<1>3. t \in UNION {Written(file) : file \in files} /\ UNION {Written(file) : file \in files} \subseteq registry
  BY RegisteredAreWritten
<1>4. TypesIn(<<>>, mutables[t]) = {}
  <2> SUFFICES ASSUME NEW u \in TypesIn(<<>>, mutables[t]) PROVE FALSE
    OBVIOUS
  <2>1. u \in registry /\ u.package = <<>> /\ names[u] = mutables[t]
    BY <1>3 DEF TypesIn
  <2>2. mutables[t] \in RootNames
    BY <2>1 DEF RootNames
  <2>3. QED
    BY <1>1, <2>2 DEF NamesInv, Done, MutablesInv, MutableSettled
<1>5. QED
  BY <1>1, <1>2, <1>3, <1>4 DEF MutableMeaning

(***************************************************************************)
(* Every path that generate_file and generate_bundle write leads, where it *)
(* stands, to the type it was written for and to nothing else, whatever    *)
(* files a request has and however their packages nest, if only no module  *)
(* of a package lies beside that type under the type's name.               *)
(***************************************************************************)
THEOREM PathsLeadToTypes == Spec => []PathsFindTypes
<1>1. NamesInv /\ FoundInv => PathsFindTypes
  <2> SUFFICES ASSUME NamesInv, FoundInv PROVE PathsFindTypes
    OBVIOUS
  <2>1. TypeOK
    BY DEF NamesInv, FoundInv, TypeOK
  <2>2. ASSUME Done, NEW t \in registry, ~HasModule(t.package, names[t]), NEW file \in files
        PROVE  Meaning(file.package, TypePath(file.package, t)) = {t}
    <3>1. PICK S : file.package \in Seq(S)
      BY DeclarationsAssumption DEF FoundInv, IsSequence
    <3> DEFINE path == TypePath(file.package, t)
    <3>2. /\ path.name = names[t]
          /\ \/ path.up = Len(file.package) /\ path.down = t.package
             \/ path.up = 0 /\ path.down = <<>> /\ file.package = t.package
      BY DEF TypePath, PackageDepth
    <3> HIDE DEF path
    <3>3. Meaning(file.package, path) = {t}
      BY <2>2, <3>1, <3>2, PathFindsType
    <3>4. QED
      BY <3>3 DEF path
  <2>3. ASSUME Done, NEW t \in registry, ~HasModule(t.package, names[t]), NEW file \in files
        PROVE  Meaning(<<file.name>>, ExtraPath(t)) = {t}
    <3> DEFINE path == ExtraPath(t)
               module == <<file.name>>
    <3>1. module \in Seq({file.name}) /\ Len(module) = 1
      OBVIOUS
    <3>2. path.name = names[t] /\ path.up = Len(module) /\ path.down = t.package
      BY <3>1 DEF ExtraPath
    <3> HIDE DEF path, module
    <3>3. Meaning(module, path) = {t}
      BY <2>3, <3>1, <3>2, PathFindsType
    <3>4. QED
      BY <3>3 DEF path, module
  <2>4. QED
    BY <2>1, <2>2, <2>3, MutableFindsType DEF PathsFindTypes
<1>2. QED
  BY NamesInvariant, FoundInvariant, <1>1, PTL
=============================================================================
