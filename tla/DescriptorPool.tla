--------------------------- MODULE DescriptorPool ---------------------------
(***************************************************************************)
(* The pool of message descriptors of protocache-extension                 *)
(* (reflection.rs): DescriptorPool::register reads protobuf files one      *)
(* after another, keeps a descriptor of every message that is not          *)
(* deprecated, and binds the type names of their fields.                   *)
(*                                                                         *)
(* A qualified name is the sequence of its identifiers.  A file has a      *)
(* package, enums and messages; a message has enums, nested messages and   *)
(* fields.  register_message calls itself for nested messages: `tasks`     *)
(* holds the calls that are still to be made, and those to be completed.   *)
(***************************************************************************)
EXTENDS Naturals, Sequences, FiniteSets

CONSTANTS
  Files,      \* the files that are registered
  MaxFiles,   \* bound on the files given to one pool
  LastNumber, \* largest field number: 12 + 25 * 255
  Slack       \* unused numbers that are always accepted: 6

ASSUME PoolAssumption ==
  MaxFiles \in Nat /\ LastNumber \in Nat \ {0} /\ Slack \in Nat

VARIABLES
  pc,          \* between calls, in a call, or after one that failed
  enums,       \* names of the enums
  descriptors, \* descriptors of the messages, by name
  tasks,       \* calls of register_message to make and to complete
  names,       \* messages of this file whose types are not bound yet
  files        \* the files this pool was given

vars == <<pc, enums, descriptors, tasks, names, files>>

-----------------------------------------------------------------------------
(* Fields.  Message, enum and untyped fields are "Unknown" until bound.    *)

Unbound == [absolute |-> FALSE, path |-> <<>>]

NoField == [repeated |-> FALSE, key |-> "None", value |-> "None", type |-> Unbound]

EmptyDescriptor == [alias |-> NoField, fields |-> [n \in {} |-> NoField]]

NoDescriptors == [n \in {} |-> EmptyDescriptor]

KeyTypes == {"String", "Uint64", "Uint32", "Int64", "Int32"}

ScalarTypes == KeyTypes \cup {"Bytes", "Double", "Float", "Bool"}

Supported(declared) == declared # "Group"

\* convert_type: messages, enums and types not declared are known when bound.
ConvertType(declared) == IF declared \in ScalarTypes THEN declared ELSE "Unknown"

LiveOnes(items) == {i \in 1..Len(items) : ~items[i].deprecated}

LiveEnums(scope, items) == {Append(scope, items[i].name) : i \in LiveOnes(items)}

\* The map entries a field of this type could stand for, by the names under
\* which register_map_entry_names keeps them.
EntriesNamed(name, nested, type) ==
  {i \in 1..Len(nested) :
    /\ ~nested[i].deprecated /\ nested[i].map
    /\ LET full == Append(name, nested[i].name)
       IN  \/ type.path = full
           \/ /\ ~type.absolute
              /\ type.path \in {<<nested[i].name>>, <<name[Len(name)], nested[i].name>>}}

\* A name that is used twice stands for the later entry.
EntryFor(message, name, field) ==
  LET found == EntriesNamed(name, message.nested, field.type)
  IN  message.nested[CHOOSE i \in found : \A j \in found : j <= i]

IsMapField(message, name, field) ==
  /\ ConvertType(field.value) = "Unknown"
  /\ EntriesNamed(name, message.nested, field.type) # {}

FieldConverts(message, name, field) ==
  /\ Supported(field.value)
  /\ IsMapField(message, name, field) =>
       LET entry == EntryFor(message, name, field)
       IN  entry.fields[1].value \in KeyTypes /\ Supported(entry.fields[2].value)

\* convert_field.
Converted(message, name, field) ==
  IF IsMapField(message, name, field)
  THEN LET entry == EntryFor(message, name, field)
       IN  [repeated |-> field.repeated, key |-> entry.fields[1].value,
            value |-> ConvertType(entry.fields[2].value), type |-> entry.fields[2].type]
  ELSE [repeated |-> field.repeated, key |-> "None", value |-> ConvertType(field.value),
        type |-> IF ConvertType(field.value) = "Unknown" THEN field.type ELSE Unbound]

-----------------------------------------------------------------------------
(* The shape of a message, over all declared fields.                       *)

Numbers(fields) == {fields[i].number : i \in 1..Len(fields)}

TooSparse(fields, last) ==
  \/ last > LastNumber
  \/ last > Len(fields) + Slack /\ last > 2 * Len(fields)

\* validate_field_shape.
ShapeFits(fields) ==
  /\ fields # <<>>
  /\ \A i \in 1..Len(fields) : fields[i].number > 0
  /\ \A i, j \in 1..Len(fields) : fields[i].number = fields[j].number => i = j
  /\ \A last \in Numbers(fields) : ~TooSparse(fields, last)

IsAlias(fields) == \E i \in 1..Len(fields) : fields[i].name = "_" /\ ~fields[i].deprecated

\* alias_field: an alias has one field, declared ones counted.
AliasFits(fields) ==
  IsAlias(fields) => Len(fields) = 1 /\ fields[1].number = 1 /\ fields[1].repeated

\* Of live fields with one name the last one stays.
LastNamed(fields, name) ==
  fields[CHOOSE i \in LiveOnes(fields) :
    fields[i].name = name /\ \A j \in LiveOnes(fields) : fields[j].name = name => j <= i]

DescriptorOf(message, name) ==
  IF IsAlias(message.fields)
  THEN [EmptyDescriptor EXCEPT !.alias = Converted(message, name, message.fields[1])]
  ELSE [EmptyDescriptor EXCEPT !.fields =
         [n \in {message.fields[i].name : i \in LiveOnes(message.fields)} |->
           Converted(message, name, LastNamed(message.fields, n))]]

Describable(message, name) ==
  /\ ShapeFits(message.fields)
  /\ AliasFits(message.fields)
  /\ \A i \in 1..Len(message.fields) :
       ~message.fields[i].deprecated => FieldConverts(message, name, message.fields[i])

-----------------------------------------------------------------------------
(* Type names.                                                             *)

IsKnown(name) == name \in enums \/ name \in DOMAIN descriptors

\* Something is declared inside `name`.
IsNamespace(name) ==
  \E known \in enums \cup DOMAIN descriptors :
    Len(known) > Len(name) /\ SubSeq(known, 1, Len(name)) = name

\* Seeded fault: a missing suffix sends the search on to the outer scopes.
EndsInWhole(scope, path) == IsKnown(scope \o path)

\* The search in a scope ends there: the whole name is known, or its first
\* component is, and binds it.
EndsIn(scope, path) ==
  \/ IsKnown(scope \o path)
  \/ /\ Len(path) > 1
     /\ IsKnown(Append(scope, path[1])) \/ IsNamespace(Append(scope, path[1]))

\* The prefix of the containing name that is tried after Len - k others.
Scope(container, k) == SubSeq(container, 1, k)

EndingScopes(container, path) == {k \in 0..Len(container) : EndsIn(Scope(container, k), path)}

\* Seeded fault: scopes are tried from the root inwards.
NameFromRoot(container, type) ==
  IF type.absolute THEN type.path
  ELSE LET ends == EndingScopes(container, type.path)
       IN  IF ends = {} THEN type.path
           ELSE Scope(container, CHOOSE k \in ends : \A j \in ends : k <= j) \o type.path

\* resolve_type_name: scopes are tried from the containing type to the root.
NameFor(container, type) ==
  IF type.absolute THEN type.path
  ELSE LET ends == EndingScopes(container, type.path)
       IN  IF ends = {} THEN type.path
           ELSE Scope(container, CHOOSE k \in ends : \A j \in ends : j <= k) \o type.path

NameResolves(container, type) == type.path # <<>> /\ IsKnown(NameFor(container, type))

FieldResolves(container, field) ==
  field.value = "Unknown" => NameResolves(container, field.type)

\* resolve_field_type: a name that is an enum's and a message's is the enum's.
Resolved(container, field) ==
  IF field.value # "Unknown" THEN field
  ELSE IF NameFor(container, field.type) \in enums
  THEN [repeated |-> field.repeated, key |-> field.key, value |-> "Enum", type |-> Unbound]
  ELSE [repeated |-> field.repeated, key |-> field.key, value |-> "Message",
        type |-> [absolute |-> TRUE, path |-> NameFor(container, field.type)]]

\* Seeded fault: an alias keeps the name it was declared with.
BoundFieldsOnly(name, d) ==
  [alias |-> d.alias, fields |-> [n \in DOMAIN d.fields |-> Resolved(name, d.fields[n])]]

\* resolve_descriptor_types.
Bound(name, d) ==
  IF d.alias.value # "None" THEN [alias |-> Resolved(name, d.alias), fields |-> d.fields]
  ELSE [alias |-> d.alias, fields |-> [n \in DOMAIN d.fields |-> Resolved(name, d.fields[n])]]

AllResolve(name, d) ==
  IF d.alias.value # "None" THEN FieldResolves(name, d.alias)
  ELSE \A n \in DOMAIN d.fields : FieldResolves(name, d.fields[n])

-----------------------------------------------------------------------------
Task(phase, scope, message) == [phase |-> phase, scope |-> scope, message |-> message]

\* The messages that are registered: neither deprecated ones nor map entries.
Registered(messages) == {i \in LiveOnes(messages) : ~messages[i].map}

\* They are registered in the order of the file.
Nth(indices, n) == CHOOSE i \in indices : Cardinality({j \in indices : j <= i}) = n

Entering(scope, messages) ==
  [n \in 1..Cardinality(Registered(messages)) |->
    Task("enter", scope, messages[Nth(Registered(messages), n)])]

Init ==
  /\ pc = "idle"
  /\ enums = {} /\ descriptors = NoDescriptors
  /\ tasks = <<>> /\ names = <<>> /\ files = <<>>

\* register begins: the file's enums are known before its messages.
Register ==
  /\ pc = "idle" /\ Len(files) < MaxFiles
  /\ \E file \in Files :
       /\ files' = Append(files, file)
       /\ enums' = enums \cup LiveEnums(file.package, file.enums)
       /\ tasks' = Entering(file.package, file.messages)
  /\ names' = <<>>
  /\ pc' = "busy"
  /\ UNCHANGED descriptors

Task1 == Head(tasks)

NameOf(task) == Append(task.scope, task.message.name)

\* Seeded fault: the call is not completed after its nested ones, but made again.
EnterMessageAgain ==
  /\ pc = "busy" /\ tasks # <<>> /\ Task1.phase = "enter"
  /\ enums' = enums \cup LiveEnums(NameOf(Task1), Task1.message.enums)
  /\ tasks' = Entering(NameOf(Task1), Task1.message.nested) \o tasks
  /\ UNCHANGED <<pc, descriptors, names, files>>

\* register_message begins: its enums, then its nested messages.
EnterMessage ==
  /\ pc = "busy" /\ tasks # <<>> /\ Task1.phase = "enter"
  /\ enums' = enums \cup LiveEnums(NameOf(Task1), Task1.message.enums)
  /\ tasks' = Entering(NameOf(Task1), Task1.message.nested)
                \o <<Task("close", Task1.scope, Task1.message)>> \o Tail(tasks)
  /\ UNCHANGED <<pc, descriptors, names, files>>

Inserted(name, d) ==
  [n \in DOMAIN descriptors \cup {name} |-> IF n = name THEN d ELSE descriptors[n]]

Closing == pc = "busy" /\ tasks # <<>> /\ Task1.phase = "close"

\* Its nested messages are registered; it is described and inserted.
InsertMessage ==
  /\ Closing /\ Describable(Task1.message, NameOf(Task1))
  /\ NameOf(Task1) \notin DOMAIN descriptors
  /\ descriptors' = Inserted(NameOf(Task1), DescriptorOf(Task1.message, NameOf(Task1)))
  /\ names' = Append(names, NameOf(Task1))
  /\ tasks' = Tail(tasks)
  /\ UNCHANGED <<pc, enums, files>>

\* Seeded fault: a descriptor that is there is replaced.
ReplaceDuplicate ==
  /\ Closing /\ Describable(Task1.message, NameOf(Task1))
  /\ NameOf(Task1) \in DOMAIN descriptors
  /\ descriptors' = Inserted(NameOf(Task1), DescriptorOf(Task1.message, NameOf(Task1)))
  /\ names' = Append(names, NameOf(Task1))
  /\ tasks' = Tail(tasks)
  /\ UNCHANGED <<pc, enums, files>>

\* DuplicateDescriptor: the new descriptor has taken the old one's place.
RefuseDuplicate ==
  /\ Closing /\ Describable(Task1.message, NameOf(Task1))
  /\ NameOf(Task1) \in DOMAIN descriptors
  /\ descriptors' = Inserted(NameOf(Task1), DescriptorOf(Task1.message, NameOf(Task1)))
  /\ pc' = "failed"
  /\ UNCHANGED <<enums, tasks, names, files>>

\* Every other error of register_message.
RefuseMessage ==
  /\ Closing /\ ~Describable(Task1.message, NameOf(Task1))
  /\ pc' = "failed"
  /\ UNCHANGED <<enums, descriptors, tasks, names, files>>

Resolving == pc = "busy" /\ tasks = <<>> /\ names # <<>>

\* The descriptor is taken out of its slot, bound and put back.
ResolveMessage ==
  /\ Resolving /\ AllResolve(Head(names), descriptors[Head(names)])
  /\ descriptors' = [descriptors EXCEPT ![Head(names)] = Bound(Head(names), @)]
  /\ names' = Tail(names)
  /\ UNCHANGED <<pc, enums, tasks, files>>

\* UnknownType: the slot keeps the default descriptor.
RefuseReference ==
  /\ Resolving /\ ~AllResolve(Head(names), descriptors[Head(names)])
  /\ descriptors' = [descriptors EXCEPT ![Head(names)] = EmptyDescriptor]
  /\ pc' = "failed"
  /\ UNCHANGED <<enums, tasks, names, files>>

Accept ==
  /\ pc = "busy" /\ tasks = <<>> /\ names = <<>>
  /\ pc' = "idle"
  /\ UNCHANGED <<enums, descriptors, tasks, names, files>>

\* A pool whose registration failed is given up for a new one.
Discard ==
  /\ pc = "failed"
  /\ pc' = "idle"
  /\ enums' = {} /\ descriptors' = NoDescriptors
  /\ tasks' = <<>> /\ names' = <<>> /\ files' = <<>>

Working ==
  \/ EnterMessage
  \/ InsertMessage \/ RefuseDuplicate \/ RefuseMessage
  \/ ResolveMessage \/ RefuseReference
  \/ Accept

Next == Register \/ Working \/ Discard

\* A call, once begun, runs to its end: the code is sequential.
Spec == Init /\ [][Next]_vars /\ WF_vars(Working)

-----------------------------------------------------------------------------
FieldSettled(field) ==
  /\ field.value # "Unknown"
  /\ field.value = "Message" => field.type.path \in DOMAIN descriptors

Settled(d) == FieldSettled(d.alias) /\ \A n \in DOMAIN d.fields : FieldSettled(d.fields[n])

\* Between calls no type name is left unbound, and every message that a field,
\* an alias or a map refers to is in the pool: what the dynamic encoder and the
\* JSON bridge look up, they find (resolve_descriptor_types, find).
ReferencesResolve == pc = "idle" => \A n \in DOMAIN descriptors : Settled(descriptors[n])

IsBound(name) == name \in DOMAIN descriptors /\ \A i \in 1..Len(names) : names[i] # name

\* Types a file declares are in the file: `name` is declared anew in this one.
Redeclared(name) == tasks # <<>> /\ NameOf(Task1) = name

\* A descriptor that is bound is what it is for as long as the pool is used, over
\* all files and in whatever way a registration fails: other names are added and
\* bound, and what a refusal leaves behind is not among the bound ones.  There is
\* one exception, which the code makes before it looks: a message that is refused
\* because its name is there has taken the older one's place, and no other's
\* (register_message).  That step is a failure, so that the pool is given up
\* ("Registration is not transactional", register).
BoundStay ==
  [][pc # "failed" =>
       \A n \in {m \in DOMAIN descriptors : IsBound(m)} :
         /\ n \in DOMAIN descriptors'
         /\ descriptors'[n] # descriptors[n] => pc' = "failed" /\ Redeclared(n)]_vars
=============================================================================
