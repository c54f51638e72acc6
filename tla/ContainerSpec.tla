---------------------------- MODULE ContainerSpec ----------------------------
(***************************************************************************)
(* What encoding an array or a map promises: whatever order the slots are  *)
(* written in and whichever encoder runs, the outcome is the Layout of the *)
(* slots' words, or a refusal when that would exceed the size limit, or a  *)
(* failure because a slot's own encoding failed.                           *)
(*                                                                         *)
(* InPlaceEncode, which moves words about in a shared buffer, implements   *)
(* this specification.                                                     *)
(***************************************************************************)
EXTENDS ContainerLayout

CONSTANTS
  Shapes,          \* shapes of the containers encoded
  Counts,          \* numbers of slots
  Contents(_, _),  \* Contents(k, kind): the words slot k may hold
  SizeLimit        \* encoded size that is refused: 2^30 words in the code

VARIABLES
  shape,     \* the container's lanes
  content,   \* words of each slot; <<>> until the slot is written
  status,    \* "building", "encoded", "refused" or "failed"
  words      \* the encoded container

vars == <<shape, content, status, words>>

Whole(n, s) == n % Len(s) = 0

Init ==
  /\ shape \in Shapes
  /\ \E n \in Counts : Whole(n, shape) /\ content = [k \in 1..n |-> <<>>]
  /\ status = "building"
  /\ words = <<>>

Write(k) ==
  /\ status = "building"
  /\ content[k] = <<>>
  /\ \E value \in Contents(k, shape[Lane(shape, k)]) : content' = [content EXCEPT ![k] = value]
  /\ UNCHANGED <<shape, status, words>>

Written == \A k \in DOMAIN content : content[k] # <<>>

Encode ==
  /\ status = "building"
  /\ Written
  /\ \/ /\ content = <<>>
        /\ words' = EmptyContainer(shape)
        /\ status' = "encoded"
     \/ /\ content # <<>>
        /\ EncodedSize(Sizes(content), shape) < SizeLimit
        /\ words' = Layout(content, shape)
        /\ status' = "encoded"
     \/ /\ content # <<>>
        /\ EncodedSize(Sizes(content), shape) >= SizeLimit
        /\ status' = "refused"
        /\ words' = words
  /\ UNCHANGED <<shape, content>>

\* The encoding of a slot's own value fails and the error is passed on.
Fail ==
  /\ status = "building"
  /\ ~Written
  /\ status' = "failed"
  /\ UNCHANGED <<shape, content, words>>

Next == (\E k \in DOMAIN content : Write(k)) \/ Encode \/ Fail

Spec == Init /\ [][Next]_vars

-----------------------------------------------------------------------------
Encoded == status = "encoded" /\ content # <<>>

\* The values are what they are declared to be.
TypeOK ==
  /\ shape \in Shapes
  /\ content \in Seq(Seq(Nat))
  /\ status \in {"building", "encoded", "refused", "failed"}
  /\ words \in Seq(Nat)

(***************************************************************************)
(* Every accessor of the view over an encoded container yields the words   *)
(* that were put in: no scalar is stored as an offset, no cell is cut      *)
(* short, no offset leads astray, whatever follows the container in the    *)
(* slice.                                                                  *)
(***************************************************************************)
ReadsBack ==
  Encoded => \A rest \in {<<>>, <<3>>, <<9, 9>>} :
    LET slice == words \o rest IN
    /\ ReadCount(slice, shape) = Len(content)
    /\ \A k \in DOMAIN content : Reads(slice, shape, k, content[k])

(***************************************************************************)
(* The size compared with the limit is what is written (an array's header  *)
(* word is not counted), so that every offset stays below the limit and    *)
(* survives the two-bit shift of a 32-bit word.                            *)
(***************************************************************************)
SizeIsExact ==
  Encoded =>
    /\ Len(words) = EncodedSize(Sizes(content), shape) + (IF Len(shape) = 1 THEN 1 ELSE 0)
    /\ \A k \in DOMAIN content :
         LET first == words[FieldStart(words, shape, k) + 1]
         IN  shape[Lane(shape, k)] = "object" /\ IsOffset(first) => first \div 4 < SizeLimit
=============================================================================
