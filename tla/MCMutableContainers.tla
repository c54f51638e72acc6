------------------------ MODULE MCMutableContainers ------------------------
(***************************************************************************)
(* Types for MutableContainers: arrays and maps of plain values, of each   *)
(* other, and arrays of arrays of booleans; texts of one word and of more, *)
(* and in some containers texts that are too long to be encoded.           *)
(***************************************************************************)
EXTENDS MutableContainers

Of(kind) == [kind |-> kind]

ArrayOf(t) == [kind |-> "array", item |-> t]

MapOf(key, t) == [kind |-> "map", key |-> key, item |-> t]

\* The type of texts that may be too long, so that an item of a container fails.
Refusable == [kind |-> "text", refusable |-> TRUE]

TooLong == [i \in 1..14 |-> 7]

MCTypes == {
  ArrayOf(Of("wide")), ArrayOf(Of("text")), ArrayOf(Of("bool")),
  ArrayOf(ArrayOf(Of("bool"))), ArrayOf(ArrayOf(Of("wide"))),
  MapOf(Of("scalar"), Of("text")), MapOf(Of("text"), ArrayOf(Of("scalar"))),
  ArrayOf(MapOf(Of("text"), Of("scalar"))),
  ArrayOf(ArrayOf(Refusable)), MapOf(Refusable, Of("text"))}

MCPlain(t) ==
  CASE t.kind = "scalar" -> {<<3>>, <<8>>}
    [] t.kind = "wide" -> {<<3, 7>>}
    [] t.kind = "bool" -> {0, 1}
    [] t = Refusable -> {<<7, 7, 7, 7, 7>>, TooLong}
    [] t.kind = "text" -> {<<1, 2>>, <<7, 7, 7, 7, 7>>}

Tail1 == <<5>>

Reversed(n, i) == n + 1 - i
=============================================================================
