---------------------------- MODULE MessageEncode ----------------------------
(***************************************************************************)
(* Encoding one message into a shared Buffer: the caller encodes its       *)
(* fields from the last to the first, folding what is short, and then      *)
(* calls serialize_message_at (EncodeToUnit of the generated messages,     *)
(* encode_dynamic_message of the extension).                               *)
(***************************************************************************)
EXTENDS MessageLayout

CONSTANTS
  Counts,        \* numbers of fields
  Scalars(_),    \* Scalars(k): the words field k may have as a scalar
  Objects(_),    \* Objects(k): the words field k may have as an object
  StartBuffers   \* buffers at the call

ASSUME CountsAssumption == Counts \subseteq Nat
ASSUME ContentsAssumption ==
  \A n \in Counts : \A k \in 1..n : Scalars(k) \cup Objects(k) \subseteq Seq(Nat) \ {<<>>}
\* A scalar takes one word or two, and a Unit holds three.  An object that is
\* short enough to be folded does not begin with a word that reads as an offset:
\* the two low bits are 0 in a string, a message with three (or seven ...)
\* sections and an array with cells of three words are longer, and so is a map
\* of three pairs.
ASSUME ShortAssumption ==
  \A n \in Counts : \A k \in 1..n :
    /\ \A ws \in Scalars(k) : Len(ws) <= 3
    /\ \A ws \in Objects(k) : Len(ws) <= 3 => ~IsOffset(ws[1])
ASSUME StartAssumption == \A b \in StartBuffers : b \in Buffer /\ b.len <= Allocated(b)

VARIABLES
  content,   \* history: the words of each field, and whether it is an object
  buf,       \* the buffer
  last,      \* its length when the message was begun
  fields,    \* the Unit of each field
  slot,      \* fields still to be encoded
  pc,        \* "fields", then "encoded", "refused" or "failed"
  result     \* the Unit returned

vars == <<content, buf, last, fields, slot, pc, result>>

Absent == [object |-> FALSE, words |-> <<>>]

Init ==
  /\ buf \in StartBuffers
  /\ last = buf.len
  /\ \E n \in Counts : /\ fields = [k \in 1..n |-> EmptyUnit]
                       /\ content = [k \in 1..n |-> Absent]
                       /\ slot = n
  /\ pc = "fields"
  /\ result = EmptyUnit

Store(value, b, u) ==
  /\ content' = [content EXCEPT ![slot] = value]
  /\ fields' = [fields EXCEPT ![slot] = u]
  /\ buf' = b
  /\ slot' = slot - 1
  /\ UNCHANGED <<last, pc, result>>

\* A field that is not set, or has its default value.
LeaveOut ==
  /\ pc = "fields" /\ slot > 0
  /\ Store(Absent, buf, EmptyUnit)

WriteScalar ==
  /\ pc = "fields" /\ slot > 0
  /\ \E ws \in Scalars(slot) : Store([object |-> FALSE, words |-> ws], buf, InlineUnit(ws))

\* An object is written into the buffer and, when it is short, folded.
WriteObject ==
  /\ pc = "fields" /\ slot > 0
  /\ \E ws \in Objects(slot) :
       LET b    == PutWords(buf, ws)
           done == Folded(SegmentUnit(buf.len, b.len), b)
       IN  Store([object |-> TRUE, words |-> ws], done.buf, done.unit)

\* A field cannot be encoded; what was written stays in the buffer.
WriteFails ==
  /\ pc = "fields" /\ slot > 0
  /\ pc' = "failed"
  /\ UNCHANGED <<content, buf, last, fields, slot, result>>

Refuse ==
  /\ pc = "fields" /\ slot = 0
  /\ Refused(fields)
  /\ pc' = "refused"
  /\ UNCHANGED <<content, buf, last, fields, slot, result>>

Encode ==
  /\ pc = "fields" /\ slot = 0
  /\ ~Refused(fields)
  /\ LET done == Serialized(fields, buf, last)
     IN  buf' = done.buf /\ result' = done.unit
  /\ pc' = "encoded"
  /\ UNCHANGED <<content, last, fields, slot>>

Next == LeaveOut \/ WriteScalar \/ WriteObject \/ WriteFails \/ Refuse \/ Encode

Spec == Init /\ [][Next]_vars

-----------------------------------------------------------------------------
TypeOK ==
  /\ buf \in Buffer /\ buf.len <= Allocated(buf)
  /\ content \in Seq([object : BOOLEAN, words : Seq(Nat)])
  /\ Len(fields) = Len(content)
  /\ \A k \in 1..Len(fields) : Len(fields[k].inline) <= 3
  /\ slot \in 0..Len(fields)
  /\ pc \in {"fields", "encoded", "refused", "failed"}

\* The encoded message, with whatever follows it in the buffer.
Slice == ReadAt(buf, buf.len, buf.len)

(***************************************************************************)
(* Every section's count fits its bits.  This is not so for every message  *)
(* the encoder accepts: 6387 fields can have 19161 body words, and a count *)
(* has 14 bits.                                                            *)
(***************************************************************************)
CountsFit ==
  \A s \in 0..Sections(UsedLength(fields)) - 1 : BodyBefore(fields, SectionStart(s)) < CountRange

\* What a view of the encoded message sees of field k.
FieldReads(k) ==
  IF k > Len(content) \/ content[k].words = <<>> THEN ~HasField(Slice, k)
  ELSE /\ HasField(Slice, k)
       /\ IF content[k].object THEN IsPrefix(content[k].words, ObjectWords(Slice, k))
                               ELSE RawWords(Slice, k) = content[k].words

AllFieldsRead == \A k \in 1..HeadFields + SectionRange * SectionFields : FieldReads(k)

(***************************************************************************)
(* A view over an encoded message finds each field's words at its number,  *)
(* across the boundary of the header word and of every section, and no     *)
(* field that was left out, whatever was folded and wherever the payloads  *)
(* went.  (The variables have their types.)                                *)
(***************************************************************************)
ReadsBack == TypeOK /\ (pc = "encoded" /\ CountsFit => AllFieldsRead)

(***************************************************************************)
(* The generated detector, which stops at the first field that ends beyond *)
(* the body, finds the end of what the encoder returned: copying a field   *)
(* that was not touched takes all of it and nothing else.                  *)
(***************************************************************************)
DetectsExactExtent ==
  pc = "encoded" /\ CountsFit =>
    LET objects == {k \in 1..Len(content) : content[k].object}
        size    == [k \in objects |-> Len(content[k].words)]
    IN  DetectWhole(Slice, objects, size) = result.len

(***************************************************************************)
(* Words that were encoded before stay as they are, whatever is folded and *)
(* however the storage grows.                                              *)
(***************************************************************************)
EarlierWordsKept == [][ReadAt(buf', last, last) = ReadAt(buf, last, last)]_vars

(***************************************************************************)
(* Field numbers up to 12 + 25 * 255 can be represented, says the          *)
(* changelog.  Not in every message: see CountsFit.                        *)
(***************************************************************************)
EveryMessageReads == pc = "encoded" => AllFieldsRead
=============================================================================
