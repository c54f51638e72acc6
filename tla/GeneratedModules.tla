-------------------------- MODULE GeneratedModules --------------------------
(***************************************************************************)
(* The Rust modules protoc-gen-pcrs writes the named types to, and the     *)
(* paths by which the generated code refers to them: rust_type_name,       *)
(* rust_mutable_base_name, generate_bundle and generate_file of main.rs.   *)
(* The properties of GeneratedNames are stated here too.                   *)
(*                                                                         *)
(* The types of a package are in the module of that path below the scope   *)
(* the bindings are included in.  The mutable types of a file are in an    *)
(* extra module of that scope, and are re-exported from it to the scope.   *)
(***************************************************************************)
EXTENDS GeneratedNames

Prefixes(path) == {SubSeq(path, 1, k) : k \in 0..Len(path)}

\* The package modules of a bundle, the scope itself included.
Modules == UNION {Prefixes(file.package) : file \in files}

\* generate_message: a type in a message that is not registered is not written.
Written(file) ==
  {t \in registry :
    /\ t.file = file.name
    /\ \A k \in 1..Len(t.path) - 1 :
         \E u \in registry : IsMessage(u) /\ u.package = t.package /\ u.path = SubSeq(t.path, 1, k)}

TypesIn(module, name) ==
  {t \in UNION {Written(file) : file \in files} : t.package = module /\ names[t] = name}

\* Modules with types use the runtime's names.
Imported(module, name) == name \in RuntimeNames /\ \E file \in files : file.package = module

\* Seeded fault: one level too few.
DepthBelow(package) == IF package = <<>> THEN 0 ELSE Len(package) - 1

\* package_depth: "super" this often leads to the scope.
PackageDepth(package) == Len(package)

\* rust_type_name, in the readonly types of a package.
TypePath(package, t) ==
  IF t.package = package THEN [up |-> 0, down |-> <<>>, name |-> names[t]]
  ELSE [up |-> PackageDepth(package), down |-> t.package, name |-> names[t]]

\* rust_type_name in an extra module, which is one level below the scope.
ExtraPath(t) == [up |-> 1, down |-> t.package, name |-> names[t]]

\* A module has this module in it.  Types and modules share a name space, so that
\* Rust refuses a type of the same name beside it.
HasModule(module, name) == Append(module, name) \in Modules

\* The extra modules' types are re-exported to the scope.
ReExported(module, name) == module = <<>> /\ \E t \in DOMAIN mutables : mutables[t] = name

\* The types a path stands for in a module; nothing when something else has that
\* name, too, or the path leaves the scope.
Meaning(module, path) ==
  IF path.up > Len(module) THEN {}
  ELSE LET target == SubSeq(module, 1, Len(module) - path.up) \o path.down
       IN  IF \/ target \notin Modules \/ HasModule(target, path.name)
              \/ Imported(target, path.name) \/ ReExported(target, path.name)
           THEN {}
           ELSE TypesIn(target, path.name)

\* rust_mutable_base_name: the name alone in the file's own extra module, and
\* otherwise what the scope has under that name; nothing when the scope has a
\* readonly type or a module of that name.
MutableMeaning(name, from, t) ==
  {u \in UNION {Written(file) : file \in files} :
    /\ IsMessage(u) /\ mutables[u] = name /\ (t.file = from => u.file = from)
    /\ TypesIn(<<>>, name) = {} /\ ~HasModule(<<>>, name)}

-----------------------------------------------------------------------------
Done == phase = "done"

\* The registry and the loop's variables are of their types, and a type's first
\* candidate has no suffix.
TypeOK ==
  /\ phase \in {"read", "types", "mutables", "done"} /\ files \subseteq Files
  /\ DOMAIN names = registry /\ DOMAIN mutables = {t \in registry : IsMessage(t)}
  /\ todo \subseteq registry /\ suffix \in Nat \ {0}
  /\ phase \in {"read", "done"} \/ todo = {} => suffix = 1

\* Among the Rust types of a package no two have the same name, and none has a
\* name that generated code takes from the runtime or the prelude.
NamesDistinct ==
  phase \in {"mutables", "done"} =>
    \A t \in registry :
      /\ names[t] \notin RuntimeNames
      /\ \A u \in registry : t.package = u.package /\ names[t] = names[u] => t = u

\* The README: names are preserved when they are unique.
UniqueNamesKept ==
  Done =>
    \A t \in registry :
      \/ names[t] = DefaultName(t) \/ DefaultName(t) \in RuntimeNames
      \/ \E u \in registry \ {t} : u.package = t.package /\ DefaultName(u) = DefaultName(t)

\* Mutable types, which all share the scope the bindings are included in, have
\* names of their own there, next to types of no package and to the outermost
\* modules of all packages that have types (assign_unique_names).
MutablesDistinct ==
  Done =>
    \A t \in DOMAIN mutables :
      /\ mutables[t] \notin RootNames
      /\ \A u \in DOMAIN mutables : mutables[t] = mutables[u] => t = u

\* Wherever a type is referred to, the path that is written there leads to it
\* and to no other, from the package's own module, another package's, and the
\* extra modules; so do the names of mutable types (rust_type_name,
\* rust_mutable_base_name).  A type is lost in one way only, which the code does
\* not rule out: a package's module beside it has the name it was given.  That
\* is said of each type, so that others are found whatever modules there are.
\* (The variables have their types.)
PathsFindTypes ==
  TypeOK /\ (Done =>
    \A t \in registry, file \in files :
      /\ ~HasModule(t.package, names[t]) =>
           /\ Meaning(file.package, TypePath(file.package, t)) = {t}
           /\ Meaning(<<file.name>>, ExtraPath(t)) = {t}
      /\ IsMessage(t) /\ ~HasModule(<<>>, mutables[t]) =>
           MutableMeaning(mutables[t], file.name, t) = {t})

\* However many names are taken, the search for free ones ends.
NamingEnds == <>Done
=============================================================================
