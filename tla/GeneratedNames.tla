--------------------------- MODULE GeneratedNames ---------------------------
(***************************************************************************)
(* The names protoc-gen-pcrs (main.rs) gives to the Rust types it          *)
(* generates: build_registry with collect_message_types, flatten_name and  *)
(* assign_unique_names.                                                    *)
(*                                                                         *)
(* A Rust name is a sequence of tokens, so that names which are put        *)
(* together from different parts can be the same: "A" nested "BC" and      *)
(* "AB" nested "C" are both "ABC".  A protobuf name is a path of           *)
(* identifiers, each a sequence of tokens too.                             *)
(***************************************************************************)
EXTENDS Naturals, Sequences, FiniteSets

CONSTANTS
  Files,         \* files that can be part of a request
  MaxFiles,      \* bound on the files of a request
  RuntimeNames,  \* RUNTIME_NAMES: names the generated code uses unqualified
  Underscore,    \* the token of "_"
  Dot,           \* the token of "."
  MutableTokens, \* the tokens of "Mutable"
  Numeral(_),    \* the tokens of a number
  Before(_, _)   \* the order of texts

ASSUME NamesAssumption == MaxFiles \in Nat

IsSequence(s) == s \in Seq({s[i] : i \in DOMAIN s})

\* What is nested in something is nested in a message (or an alias or a map
\* entry, which are declared as messages) of the same file.
ASSUME DeclarationsAssumption ==
  \A file \in Files :
    /\ IsSequence(file.package)
    /\ \A d \in file.types :
         /\ IsSequence(d.path)
         /\ \A k \in 1..Len(d.path) - 1 :
              \E e \in file.types : e.path = SubSeq(d.path, 1, k) /\ e.sort # "enum"

VARIABLES
  phase,    \* reading files, naming types, naming mutable types, done
  files,    \* the files read
  registry, \* the types found in them
  names,    \* rust_types: the Rust name of each type
  mutables, \* mutable_names: the name of the mutable type of each message
  reserved, \* names that cannot be given any more
  todo,     \* types that still need another name than their first one
  suffix    \* what is tried next for a type; 1 stands for no suffix

vars == <<phase, files, registry, names, mutables, reserved, todo, suffix>>

-----------------------------------------------------------------------------
(* What a file declares.  A declaration has a path below the package of    *)
(* its file, and is a message, an alias, an enum or a map entry.           *)

\* collect_message_types leaves out map entries and deprecated messages, with
\* all they hold.
Skipped(d) == d.sort = "entry" \/ (d.sort # "enum" /\ d.deprecated)

Encloses(e, d) == Len(e.path) <= Len(d.path) /\ e.path = SubSeq(d.path, 1, Len(e.path))

Kept(types) == {d \in types : \A e \in types : Encloses(e, d) => ~Skipped(e)}

Collected(file) ==
  {[package |-> file.package, path |-> d.path, sort |-> d.sort, file |-> file.name] :
     d \in Kept(file.types)}

IsMessage(t) == t.sort # "enum"

Joined(parts, separator) ==
  LET upTo[k \in 0..Len(parts)] ==
        IF k = 0 THEN <<>>
        ELSE IF k = 1 THEN parts[1] ELSE upTo[k - 1] \o separator \o parts[k]
  IN  upTo[Len(parts)]

\* flatten_name; enums keep their own names.
DefaultName(t) ==
  IF t.sort = "enum" \/ (t.sort = "alias" /\ Len(t.path) > 1)
  THEN t.path[Len(t.path)] ELSE Joined(t.path, <<>>)

-----------------------------------------------------------------------------
(* The order of BTreeMap and sort, over a key's texts.                     *)

KeyBefore(k, l) ==
  \E i \in 1..Len(k) : Before(k[i], l[i]) /\ \A j \in 1..i - 1 : k[j] = l[j]

FullText(t) == Joined(t.package \o t.path, <<Dot>>)

TypeKey(t) == <<Joined(t.package, <<Dot>>), names[t], FullText(t)>>

MutableDefault(t) == names[t] \o MutableTokens

MutableKey(t) == <<MutableDefault(t), FullText(t)>>

-----------------------------------------------------------------------------
(* assign_unique_names.                                                    *)

Alternative(base, k) == IF k = 1 THEN base ELSE base \o <<Underscore>> \o Numeral(k)

\* Below the package, the enclosing names joined with underscores.
TypeBase(t) == Joined(t.path, <<Underscore>>)

MutableBase(t) == Joined(t.package \o t.path, <<Underscore>>) \o MutableTokens

\* Seeded fault: names are compared across packages.
SharesNameAnywhere(t) ==
  names[t] \in RuntimeNames \/ \E u \in registry \ {t} : names[u] = names[t]

Ambiguous(t) ==
  \/ names[t] \in RuntimeNames
  \/ \E u \in registry \ {t} : u.package = t.package /\ names[u] = names[t]

\* root_names: types of no package, and the outermost modules.
RootNames == {IF t.package = <<>> THEN names[t] ELSE t.package[1] : t \in registry}

\* Seeded fault: mutable names are compared with each other only.
MutableSharesOnly(t) ==
  \E u \in DOMAIN mutables \ {t} : MutableDefault(u) = MutableDefault(t)

MutableAmbiguous(t) ==
  \/ MutableDefault(t) \in RootNames
  \/ \E u \in DOMAIN mutables \ {t} : MutableDefault(u) = MutableDefault(t)

Init ==
  /\ phase = "read" /\ files = {} /\ registry = {}
  /\ names = [t \in {} |-> <<>>] /\ mutables = [t \in {} |-> <<>>]
  /\ reserved = {} /\ todo = {} /\ suffix = 1

\* collect_message_types and the enums of one file of the request.
ReadFile(file) ==
  LET found == registry \cup Collected(file) IN
  /\ phase = "read" /\ Cardinality(files) < MaxFiles
  /\ files' = files \cup {file}
  /\ registry' = found
  /\ names' = [t \in found |-> DefaultName(t)]
  /\ mutables' = [t \in {u \in found : IsMessage(u)} |-> <<>>]
  /\ UNCHANGED <<phase, reserved, todo, suffix>>

\* Seeded fault: names that stay as they are can be given again.
GroupTypesUnreserved ==
  /\ phase = "read" /\ phase' = "types"
  /\ reserved' = {<<t.package, name>> : t \in registry, name \in RuntimeNames}
  /\ todo' = {t \in registry : Ambiguous(t)}
  /\ UNCHANGED <<files, registry, names, mutables, suffix>>

GroupTypes ==
  /\ phase = "read" /\ phase' = "types"
  /\ reserved' = {<<t.package, names[t]>> : t \in registry}
                   \cup {<<t.package, name>> : t \in registry, name \in RuntimeNames}
  /\ todo' = {t \in registry : Ambiguous(t)}
  /\ UNCHANGED <<files, registry, names, mutables, suffix>>

\* Seeded fault: the loop tries the same name again.
TryTypeAgain(t) ==
  LET name == Alternative(TypeBase(t), suffix) IN
  /\ phase = "types"
  /\ t \in todo /\ \A u \in todo : ~KeyBefore(TypeKey(u), TypeKey(t))
  /\ <<t.package, name>> \notin reserved
  /\ names' = [names EXCEPT ![t] = name]
  /\ reserved' = reserved \cup {<<t.package, name>>}
  /\ todo' = todo \ {t}
  /\ UNCHANGED <<phase, files, registry, mutables, suffix>>

\* One turn of the loop for the type that comes first.
TryType(t) ==
  LET name == Alternative(TypeBase(t), suffix) IN
  /\ phase = "types"
  /\ t \in todo /\ \A u \in todo : ~KeyBefore(TypeKey(u), TypeKey(t))
  /\ IF <<t.package, name>> \in reserved
     THEN suffix' = suffix + 1 /\ UNCHANGED <<names, reserved, todo>>
     ELSE /\ names' = [names EXCEPT ![t] = name]
          /\ reserved' = reserved \cup {<<t.package, name>>}
          /\ todo' = todo \ {t} /\ suffix' = 1
  /\ UNCHANGED <<phase, files, registry, mutables>>

GroupMutables ==
  /\ phase = "types" /\ todo = {} /\ phase' = "mutables"
  /\ reserved' = {MutableDefault(t) : t \in DOMAIN mutables} \cup RootNames
  /\ todo' = {t \in DOMAIN mutables : MutableAmbiguous(t)}
  /\ mutables' = [t \in DOMAIN mutables |-> IF MutableAmbiguous(t) THEN <<>> ELSE MutableDefault(t)]
  /\ UNCHANGED <<files, registry, names, suffix>>

TryMutable(t) ==
  LET name == Alternative(MutableBase(t), suffix) IN
  /\ phase = "mutables"
  /\ t \in todo /\ \A u \in todo : ~KeyBefore(MutableKey(u), MutableKey(t))
  /\ IF name \in reserved
     THEN suffix' = suffix + 1 /\ UNCHANGED <<mutables, reserved, todo>>
     ELSE /\ mutables' = [mutables EXCEPT ![t] = name]
          /\ reserved' = reserved \cup {name}
          /\ todo' = todo \ {t} /\ suffix' = 1
  /\ UNCHANGED <<phase, files, registry, names>>

Return ==
  /\ phase = "mutables" /\ todo = {} /\ phase' = "done"
  /\ UNCHANGED <<files, registry, names, mutables, reserved, todo, suffix>>

Assign ==
  \/ GroupTypes \/ GroupMutables \/ Return
  \/ \E t \in todo : TryType(t)
  \/ \E t \in todo : TryMutable(t)

Next == Assign \/ \E file \in Files \ files : ReadFile(file)

\* assign_unique_names goes on until it returns; it is a loop of one thread.
Spec == Init /\ [][Next]_vars /\ WF_vars(Assign)
=============================================================================
