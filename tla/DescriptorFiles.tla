-------------------------- MODULE DescriptorFiles --------------------------
(***************************************************************************)
(* What a descriptor pool promises, said of the files it was given and     *)
(* not of how register goes through them: which types there are, what each *)
(* type name means, and which files are refused.                           *)
(***************************************************************************)
EXTENDS DescriptorPool

CONSTANT MaxDepth \* no message is nested that deep

\* The messages that are registered for a scope that has these messages.
Declared(scope, messages) ==
  {[name |-> Append(scope, messages[i].name), message |-> messages[i]] :
    i \in Registered(messages)}

\* And for these messages.
NestedIn(found) == UNION {Declared(m.name, m.message.nested) : m \in found}

\* By the number of messages around them.
Levels(file) ==
  LET level[d \in 0..MaxDepth] ==
        IF d = 0 THEN Declared(file.package, file.messages) ELSE NestedIn(level[d - 1])
  IN  level

LiveMessages(file) == UNION {Levels(file)[d] : d \in 0..MaxDepth}

MessageNames(file) == {m.name : m \in LiveMessages(file)}

EnumNames(file) ==
  LiveEnums(file.package, file.enums)
    \cup UNION {LiveEnums(m.name, m.message.enums) : m \in LiveMessages(file)}

TypesUpTo(k) == UNION {MessageNames(files[j]) \cup EnumNames(files[j]) : j \in 1..k}

EnumsUpTo(k) == UNION {EnumNames(files[j]) : j \in 1..k}

-----------------------------------------------------------------------------
(***************************************************************************)
(* Protobuf's rule: a relative name belongs to the innermost scope that    *)
(* declares its first component, as a type or as a part of a type's name.  *)
(***************************************************************************)
Prefixes(name) == {SubSeq(name, 1, k) : k \in 0..Len(name)}

Openers(declared) == UNION {Prefixes(name) : name \in declared}

Innermost(scopes) == CHOOSE s \in scopes : \A t \in scopes : Len(t) <= Len(s)

\* Where the name leads: <<>> when no scope declares its first component.
Meaning(declared, container, type) ==
  IF type.absolute THEN type.path
  ELSE LET openers == Openers(declared)
           scopes == {s \in Prefixes(container) :
                       IF Len(type.path) = 1 THEN s \o type.path \in declared
                       ELSE Append(s, type.path[1]) \in openers}
       IN  IF scopes = {} THEN <<>> ELSE Innermost(scopes) \o type.path

\* The field, of a type that its name means.
OfType(field, value, type) ==
  [repeated |-> field.repeated, key |-> field.key, value |-> value, type |-> type]

Meant(k, name, field) ==
  IF field.value # "Unknown" THEN field
  ELSE LET target == Meaning(TypesUpTo(k), name, field.type)
       IN  IF target \in EnumsUpTo(k)
           THEN OfType(field, "Enum", Unbound)
           ELSE OfType(field, "Message", [absolute |-> TRUE, path |-> target])

MeantDescriptor(k, m) ==
  LET d == DescriptorOf(m.message, m.name)
  IN  IF IsAlias(m.message.fields) THEN [d EXCEPT !.alias = Meant(k, m.name, @)]
      ELSE [d EXCEPT !.fields = [n \in DOMAIN d.fields |-> Meant(k, m.name, d.fields[n])]]

\* The map entries of a message: not types of the pool.
EntryNames(m) ==
  {Append(m.name, m.message.nested[i].name) :
    i \in {j \in LiveOnes(m.message.nested) : m.message.nested[j].map}}

\* Something inside the message, or nearer to it than what the name is written
\* for, is called like the name's first component.
Shadowed(declared, container, type) ==
  /\ ~type.absolute /\ Len(type.path) > 1
  /\ \E s \in Prefixes(container) :
       /\ Len(s) + Len(type.path) > Len(container) + 1
       /\ Append(s, type.path[1]) \in Openers(declared)

\* The ways to write the name of a map entry: whole, alone, or after the
\* message's own.
IsEntryName(container, type) ==
  type.absolute \/ Len(type.path) \in {1, 2, Len(container) + 1}

\* A field is a map when its type is one of the message's map entries, and only
\* then.  The code knows an entry by three names and does not look whether
\* something nearer is called like the first component of one.
MapsFound(k, m) ==
  \A i \in LiveOnes(m.message.fields) :
    LET fields == m.message.fields
        type == fields[i].type
        declared == TypesUpTo(k) \cup EntryNames(m)
        isEntry == Meaning(declared, m.name, type) \in EntryNames(m)
        isMap == descriptors[m.name].fields[fields[i].name].key # "None"
    IN  /\ ~IsAlias(fields) /\ fields[i].value = "Message" /\ type.path # <<>>
        /\ \A j \in LiveOnes(fields) : fields[j].name = fields[i].name => j <= i
        => /\ isEntry /\ IsEntryName(m.name, type) => isMap
           /\ isMap => isEntry \/ Shadowed(declared, m.name, type)

FieldsOf(d) == IF d.alias # NoField THEN {d.alias} ELSE {d.fields[n] : n \in DOMAIN d.fields}

\* No two messages of one scope that are registered have the same name.
NamesDiffer(messages) ==
  \A i, j \in Registered(messages) : messages[i].name = messages[j].name => i = j

\* The k-th file can be represented, after the ones before it.
Representable(k) ==
  LET live == LiveMessages(files[k])
      types == TypesUpTo(k)
  IN  /\ \A m \in live : Describable(m.message, m.name)
      /\ NamesDiffer(files[k].messages)
      /\ \A m \in live : NamesDiffer(m.message.nested)
      /\ \A m \in live : \A j \in 1..k - 1 : m.name \notin MessageNames(files[j])
      /\ \A m \in live : \A f \in FieldsOf(DescriptorOf(m.message, m.name)) :
           f.value = "Unknown" =>
             f.type.path # <<>> /\ Meaning(types, m.name, f.type) \in types

-----------------------------------------------------------------------------
(* What files are made of.                                                 *)

Identifiers == STRING

IsName(name) == name \in Seq(Identifiers)

WellFormed(message) ==
  /\ Len(message.fields) \in Nat /\ Len(message.nested) \in Nat /\ Len(message.enums) \in Nat
  /\ \A i \in 1..Len(message.fields) : IsName(message.fields[i].type.path)
  /\ \A i \in 1..Len(message.enums) : message.enums[i].name \in Identifiers
  /\ \A i \in 1..Len(message.nested) :
       /\ message.nested[i].name \in Identifiers
       /\ message.nested[i].map => IsName(message.nested[i].fields[2].type.path)

\* Files have the parts that protobuf gives them; MaxDepth bounds the nesting,
\* as some number does for any files that a program reads.
ASSUME FilesAssumption ==
  /\ MaxDepth \in Nat
  /\ \A file \in Files :
       /\ IsName(file.package)
       /\ Len(file.messages) \in Nat /\ Len(file.enums) \in Nat
       /\ \A i \in 1..Len(file.messages) : file.messages[i].name \in Identifiers
       /\ \A i \in 1..Len(file.enums) : file.enums[i].name \in Identifiers
       /\ \A m \in LiveMessages(file) : WellFormed(m.message)
       /\ Levels(file)[MaxDepth] = {}

-----------------------------------------------------------------------------
\* The variables are of their types.
TypeOK ==
  /\ pc \in {"idle", "busy", "failed"}
  /\ \A e \in enums : e # <<>>
  /\ \A n \in DOMAIN descriptors : DOMAIN descriptors[n] = {"alias", "fields"}
  /\ \A i \in 1..Len(names) : names[i] \in DOMAIN descriptors
  /\ \A i \in 1..Len(tasks) : tasks[i].phase \in {"enter", "close"}
  /\ Len(files) <= MaxFiles

\* Between calls the pool holds exactly the live types of the files it was
\* given, and every type name means what protobuf's scoping rule makes it mean
\* once the whole file is known: the order of messages in a file, and of nested
\* messages before the messages around them, has no part in it (register,
\* register_message, resolve_type_name).  The variables have their types.
PoolMatchesFiles ==
  TypeOK /\ (pc = "idle" =>
    /\ enums = EnumsUpTo(Len(files))
    /\ DOMAIN descriptors = UNION {MessageNames(files[k]) : k \in 1..Len(files)}
    /\ \A k \in 1..Len(files) : \A m \in LiveMessages(files[k]) :
         descriptors[m.name] = MeantDescriptor(k, m) /\ MapsFound(k, m))

\* A file is refused when it cannot be represented, and only then (every
\* RegisterError of register).
RefusesExactlyInvalid ==
  /\ pc = "idle" => \A k \in 1..Len(files) : Representable(k)
  /\ pc = "failed" => ~Representable(Len(files))

\* A call of register returns (register and register_message): nested messages
\* end, and no message is described or bound twice.
RegistrationEnds == pc = "busy" ~> pc # "busy"
=============================================================================
