------------------------------ MODULE MCMessage ------------------------------
(***************************************************************************)
(* Values for the constants of MessageEncode: field words differ from      *)
(* field to field; scalars look like offsets, objects do not.              *)
(***************************************************************************)
EXTENDS MessageEncode

CONSTANTS
  Lengths,        \* sizes of the objects
  ScalarLengths,  \* sizes of the scalars
  Stale           \* words allocated and left dirty by earlier use

FieldObjects(k) == {[j \in 1..size |-> 4 * (8 * k + j)] : size \in Lengths}

FieldScalars(k) == {[j \in 1..size |-> 4 * (8 * k + j) + 3] : size \in ScalarLengths}

Buffers == {[data |-> [p \in 1..Stale |-> 1000 + p], len |-> 2]}
=============================================================================
