------------------------------ MODULE MCInPlace ------------------------------
(***************************************************************************)
(* Values for the constants of InPlaceEncode: distinct words per slot, and *)
(* buffers with and without earlier words and stale storage.               *)
(***************************************************************************)
EXTENDS InPlaceEncode

CONSTANTS
  Lengths,   \* sizes of the objects in the first three slots
  Fourth,    \* sizes of those in the fourth
  Stale      \* words allocated and left dirty by earlier use

ObjectValue(k, size) == [j \in 1..size |-> 4 * (8 * k + j)]

ScalarValue(k, size) == [j \in 1..size |-> 4 * (8 * k + j) + 3]

SlotContents(k, kind) ==
  CASE kind = "scalar" -> {ScalarValue(k, 1)}
    [] kind = "wide"   -> {ScalarValue(k, 2)}
    [] kind = "object" -> {ObjectValue(k, size) : size \in IF k <= 3 THEN Lengths ELSE Fourth}

ArrayShapes == {<<kind>> : kind \in Kinds}

MapShapes == {<<key, value>> : key \in {"scalar", "object"}, value \in {"wide", "object"}}

AllShapes == ArrayShapes \cup MapShapes

Index == <<5>>

Buffers ==
  {[data |-> <<>>, len |-> 0]}
    \cup {[data |-> [p \in 1..Stale |-> 1000 + p], len |-> before] : before \in {2}}
=============================================================================
