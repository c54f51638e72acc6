-------------------------- MODULE MCGeneratedNames --------------------------
(***************************************************************************)
(* Requests for the model checker: packages that nest and have types of    *)
(* the same names, nested types whose names run together to the same one,  *)
(* types called like what others could be renamed to, like the runtime's,  *)
(* modules called like a mutable type and like a renamed one, and one      *)
(* without types.                                                          *)
(***************************************************************************)
EXTENDS GeneratedModules, TLC

A == <<"A">>
B == <<"B">>
Boxed == <<"Box">>

Type(path, sort) == [path |-> path, sort |-> sort, deprecated |-> FALSE]

Old(path) == [path |-> path, sort |-> "message", deprecated |-> TRUE]

MCFiles == {
  [name |-> <<"f", "1">>, package |-> <<>>, types |->
    {Type(<<A>>, "message"), Type(<<A, <<"B", "C">>>>, "message"),
     Type(<<<<"A", "B">>>>, "message"), Type(<<<<"A", "B">>, <<"C">>>>, "enum"),
     Type(<<<<"A", "B">>, <<"A">>>>, "enum")}],
  [name |-> <<"f", "2">>, package |-> <<>>, types |->
    {Type(<<Boxed>>, "message"), Type(<<<<"A", "B", "C">>>>, "message"),
     Type(<<<<"A", "_", "B", "C">>>>, "message"), Type(<<<<"A", "_", "2">>>>, "enum"),
     Old(<<B>>), Type(<<B, Boxed>>, "message")}],
  [name |-> <<"f", "3">>, package |-> <<<<"a">>>>, types |->
    {Type(<<A>>, "message"), Type(<<A, B>>, "alias"), Type(<<B>>, "message"),
     Type(<<B, B>>, "alias"), Type(<<B, Boxed>>, "enum"), Type(<<B, A>>, "entry"),
     Type(<<<<"B", "_", "B">>>>, "enum")}],
  [name |-> <<"f", "4">>, package |-> <<<<"a">>, <<"A", "_", "B">>>>, types |->
    {Type(<<A>>, "message"), Type(<<Boxed>>, "alias"), Type(<<Boxed, B>>, "enum"), Old(<<Boxed, A>>)}],
  [name |-> <<"f", "5">>, package |-> <<<<"A", "Mutable">>>>, types |->
    {Type(<<A>>, "message"), Type(<<A, B>>, "message"), Type(<<<<"A", "B">>>>, "message"),
     Type(<<<<"A", "_", "B", "_", "2">>>>, "message")}],
  [name |-> <<"f", "6">>, package |-> <<<<"A", "B", "Mutable">>, <<"b">>>>, types |-> {Old(<<A>>)}]}

MCRuntimeNames == {Boxed}

MCMutableTokens == <<"Mutable">>

MCNumeral(n) == <<ToString(n)>>

Tokens == <<".", "2", "3", "4", "A", "B", "Box", "C", "Mutable", "_", "a", "b", "f">>

Rank(token) == CHOOSE i \in 1..Len(Tokens) : Tokens[i] = token

MCBefore(x, y) ==
  \E i \in 1..Len(y) :
    /\ \A j \in 1..i - 1 : j <= Len(x) /\ x[j] = y[j]
    /\ i > Len(x) \/ Rank(x[i]) < Rank(y[i])
=============================================================================
