----------------------------- MODULE MCDynamic -----------------------------
(***************************************************************************)
(* A schema for DynamicEncode with a message in a message, aliases of      *)
(* booleans, numbers, messages and maps, and fields over two sections; and *)
(* small messages of its types.                                            *)
(***************************************************************************)
EXTENDS DynamicView, TLC

One(n, sort, type) ==
  [number |-> n, card |-> "one", key |-> "", sort |-> sort, type |-> type,
   alias |-> FALSE, deprecated |-> FALSE]

List(n, sort, type) == [One(n, sort, type) EXCEPT !.card = "list"]

Map(n, key, sort, type) == [One(n, sort, type) EXCEPT !.card = "map", !.key = key]

Alias(f) == [f EXCEPT !.alias = TRUE]

Types ==
  [Leaf     |-> <<One(1, "scalar", ""), One(2, "text", "")>>,
   Flags    |-> <<Alias(List(1, "bool", ""))>>,
   Wides    |-> <<Alias(List(1, "wide", ""))>>,
   Leaves   |-> <<Alias(List(1, "message", "Leaf"))>>,
   Grid     |-> <<Alias(List(1, "message", "Wides"))>>,
   Book     |-> <<Alias(Map(1, "text", "message", "Leaves"))>>,
   Outer    |-> <<One(1, "bool", ""), One(2, "message", "Leaf"), One(3, "message", "Flags"),
                  [One(4, "scalar", "") EXCEPT !.deprecated = TRUE],
                  List(5, "message", "Leaf"), Map(6, "scalar", "message", "Flags")>>,
   Nothing  |-> <<>>,
   TwoFaced |-> <<Alias(List(1, "bool", "")), One(2, "scalar", "")>>,
   Holder   |-> <<One(2, "text", ""), One(1, "message", "Nothing")>>,
   Wrapper  |-> <<One(2, "message", "Book"), One(1, "message", "Wides")>>,
   TooFar   |-> <<One(9, "scalar", "")>>]

TheRoots == DOMAIN Types

Short == <<1, 0>>

Long == <<7, 5, 15, 1, 2, 3, 4, 9, 9, 9, 9, 9, 9>>

NoFields == [n \in {} |-> 0]

LeafValues == {NoFields, 1 :> <<8>>, (1 :> <<11>>) @@ (2 :> Short), 2 :> Long}

FlagsValues == {<<>>, <<0>>, <<1, 0, 1, 1>>}

WidesValues == {<<>>, <<<<1, 2>>>>, <<<<3, 3>>, <<5, 0>>>>}

LeavesValues == {<<>>, <<NoFields>>, <<2 :> Long, 1 :> <<8>>>>, <<1 :> <<8>>, NoFields, 2 :> Long>>}

\* A message with or without a value for each of its fields.
Maybe(n, choices) == {NoFields} \cup {n :> v : v \in choices}

Joined(left, right) == {l @@ r : l \in left, r \in right}

OuterValues ==
  Joined(Maybe(1, {1}), Joined(Maybe(2, {NoFields, 2 :> Long}), Maybe(3, {<<>>, <<1>>, <<1, 0, 1, 1>>})))
    \cup Joined(Maybe(2, {NoFields}),
           Joined(Maybe(5, {<<NoFields, 2 :> Short>>}),
                  Maybe(6, {<<<<<<4>>, <<>>>>, <<<<6>>, <<1, 0, 1, 1, 1>>>>>>})))
    \cup {4 :> <<8>>}

BookValues == {<<>>, <<<<Short, <<>>>>>>, <<<<Long, <<2 :> Long>>>>, <<Short, <<NoFields, 1 :> <<8>>>>>>>>}

ValuesOf(t) ==
  CASE t = "Leaf" -> LeafValues
    [] t = "Flags" -> FlagsValues
    [] t = "Wides" -> WidesValues
    [] t = "Leaves" -> LeavesValues
    [] t = "Grid" -> {<<<<>>, <<<<1, 2>>>>>>, <<<<<<3, 3>>, <<5, 0>>>>>>}
    [] t = "Book" -> BookValues
    [] t = "Outer" -> OuterValues
    [] t = "Nothing" -> {NoFields}
    [] t = "TwoFaced" -> {<<1>>}
    [] t = "Holder" -> {2 :> Long, 2 :> Long \o <<1>>, (1 :> NoFields) @@ (2 :> Long)}
    [] t = "Wrapper" -> Joined({1 :> <<<<1, 2>>>>, NoFields}, Maybe(2, BookValues))
    [] t = "TooFar" -> {NoFields}

Tail1 == <<5>>

Reversed(n, i) == n + 1 - i
=============================================================================
