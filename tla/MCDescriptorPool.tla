-------------------------- MODULE MCDescriptorPool --------------------------
(***************************************************************************)
(* Small files for DescriptorPool: names that could be found in several    *)
(* scopes, deprecated types in between, map entries, aliases and shapes    *)
(* that cannot be represented.                                             *)
(***************************************************************************)
EXTENDS DescriptorFiles

Relative(path) == [absolute |-> FALSE, path |-> path]

Absolute(path) == [absolute |-> TRUE, path |-> path]

Field(name, number, value, type) ==
  [name |-> name, number |-> number, repeated |-> FALSE, deprecated |-> FALSE,
   value |-> value, type |-> type]

Scalar(number) == Field("s", number, "Int32", Unbound)

Reference(type) == Field("x", 1, "Message", type)

AliasOf(field) == [field EXCEPT !.name = "_", !.repeated = TRUE]

Plain(name, nested, fields) ==
  [name |-> name, deprecated |-> FALSE, map |-> FALSE, enums |-> <<>>, nested |-> nested,
   fields |-> fields]

Deprecated(item) == [item EXCEPT !.deprecated = TRUE]

Leaf(name) == Plain(name, <<>>, <<Scalar(1)>>)

Entry(name, key, value) ==
  [Plain(name, <<>>, <<Field("key", 1, key, Unbound), value>>) EXCEPT !.map = TRUE]

File(package, enumItems, messages) ==
  [package |-> package, enums |-> enumItems, messages |-> messages]

EnumB == [name |-> "B", deprecated |-> FALSE]

\* A refers to a B that is nested in it, next to it, or both.
ScopeFiles ==
  {File(package, outer.enums, outer.before \o <<Plain("A", nested, <<Reference(type)>>)>> \o outer.after) :
    package \in {<<>>, <<"p">>},
    nested \in {<<>>, <<Leaf("B")>>, <<Deprecated(Leaf("B"))>>, <<Plain("B", <<Leaf("A")>>, <<Scalar(1)>>)>>},
    outer \in {[enums |-> <<>>, before |-> <<>>, after |-> <<>>],
               [enums |-> <<>>, before |-> <<Leaf("B")>>, after |-> <<>>],
               [enums |-> <<>>, before |-> <<>>, after |-> <<Leaf("B")>>],
               [enums |-> <<EnumB>>, before |-> <<>>, after |-> <<>>]},
    type \in {Relative(<<"B">>), Relative(<<"A", "B">>), Relative(<<"p", "B">>), Absolute(<<"p", "B">>)}}

OneMessage(m) == File(<<"p">>, <<>>, <<m>>)

Shapes ==
  {<<>>, <<Scalar(0)>>, <<Scalar(3)>>, <<Scalar(4)>>, <<Scalar(10)>>,
   [i \in 1..3 |-> Scalar(i + 3)], [i \in 1..3 |-> Scalar(i + 4)], <<Scalar(1), Reference(Relative(<<"C">>))>>,
   <<AliasOf(Scalar(1))>>, <<AliasOf(Reference(Relative(<<"C">>)))>>, <<AliasOf(Scalar(2))>>,
   <<AliasOf(Scalar(1)), Deprecated(Scalar(2))>>, <<Field("s", 1, "Group", Unbound)>>,
   <<Deprecated(Reference(Relative(<<"Z">>))), Field("y", 2, "Bool", Unbound)>>}

ShapeFiles == {OneMessage(Plain("C", <<>>, fields)) : fields \in Shapes}

MapFiles ==
  {OneMessage(Plain("C", <<entry>>, <<Reference(type)>>)) :
    entry \in {Entry("E", "Int32", Field("value", 2, "Message", Relative(<<"C">>))),
               Entry("E", "Bool", Scalar(2)), Entry("E", "String", Field("value", 2, "Group", Unbound)),
               Deprecated(Entry("E", "Int32", Scalar(2)))},
    type \in {Relative(<<"E">>), Relative(<<"C", "E">>), Absolute(<<"p", "C", "E">>), Absolute(<<"E">>)}}

\* The entry's name, written in ways that another type could have taken.
ShadowFiles ==
  {OneMessage(Plain("C", <<Leaf(other), Entry("E", "Int32", Scalar(2))>>, <<Reference(type)>>)) :
    other \in {"C", "p"},
    type \in {Relative(<<>>), Relative(<<"C", "E">>), Relative(<<"p", "C", "E">>)}}

OtherFiles ==
  {File(<<"q">>, <<>>, <<Plain("D", <<>>, <<Reference(type)>>)>>) :
    type \in {Relative(<<"p", "A">>), Relative(<<"p", "A", "B">>), Relative(<<"A">>), Relative(<<"A", "B">>)}}
  \cup
  {File(<<"p", "A">>, <<>>, <<Plain("D", <<>>, <<Reference(Relative(<<"p", "A", "B">>))>>)>>),
   File(<<"p">>, <<>>, <<Deprecated(Leaf("B")),
        [Plain("D", <<>>, <<Reference(Relative(<<"B">>))>>) EXCEPT !.enums = <<EnumB, Deprecated(EnumB)>>]>>)}

SomeFiles == ScopeFiles \cup ShapeFiles \cup MapFiles \cup ShadowFiles \cup OtherFiles
=============================================================================
