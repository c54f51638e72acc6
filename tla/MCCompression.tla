--------------------------- MODULE MCCompression ---------------------------
(***************************************************************************)
(* Values for the constants of Compression: nibbles of eight values, bytes *)
(* of 64, digits of four.  Literals tell their position in the data; the   *)
(* bytes a vector held before are no bytes of any stream.                  *)
(***************************************************************************)
EXTENDS Compression, SequencesExt

CONSTANTS
  MaxData,     \* longest data
  MaxStream    \* longest stream that is not the compressor's

\* All mixes of the two special bytes and literals.
Mixes ==
  {[i \in 1..n |-> CASE mix[i] = 0 -> 0 [] mix[i] = 1 -> ByteMax [] OTHER -> i] :
     <<n, mix>> \in UNION {{n} \X [1..n -> 0..2] : n \in 0..MaxData}}

(***************************************************************************)
(* The bytes of other streams, of which each may be taken for a digit, a   *)
(* mark or a literal: nothing; one, two and three literals; two zeros and  *)
(* a literal; literals and two of the other special byte.                  *)
(***************************************************************************)
OddStreams == SeqOf({0, 1, 2, 3, 13, 58}, MaxStream)

Used == {<<>>, [i \in 1..(MaxData - 2) |-> 1000]}
=============================================================================
