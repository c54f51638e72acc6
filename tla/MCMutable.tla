------------------------------ MODULE MCMutable ------------------------------
(***************************************************************************)
(* Values for the constants of MutableMessage.  The words of a text differ *)
(* from those of every other one and from offsets and header words; a      *)
(* scalar looks like an offset.                                            *)
(***************************************************************************)
EXTENDS MutableMessage

CONSTANTS
  TextLengths,        \* sizes of a field's texts
  NestedTextLengths   \* sizes of the texts of a message in a field

Text(k, size) ==
  [j \in 1..size |-> 4 * (IF j = 1 THEN TextRange * (100 + 10 * k + size) + size
                          ELSE TextRange * (100 + 10 * k + size) + TextRange - j)]

Scalar == <<403, 7>>

FieldValues(k) ==
  CASE Kinds[k] = "scalar"  -> {Scalar}
    [] Kinds[k] = "message" -> {}
    [] OTHER                -> {Text(k, size) : size \in TextLengths}

InnerValues(k) ==
  IF NestedKinds[k] = "scalar" THEN {Scalar} ELSE {Text(k + 5, size) : size \in NestedTextLengths}

Mixed == <<"scalar", "message", "text">>

Inner == <<"scalar", "text">>
=============================================================================
