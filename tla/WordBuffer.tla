----------------------------- MODULE WordBuffer -----------------------------
(***************************************************************************)
(* The reusable, reverse-growing word buffer of protocache-core            *)
(* (utils.rs, struct Buffer) as a data type.                               *)
(*                                                                         *)
(* The code keeps a vector `data` and the index `off` of the first active  *)
(* word; encoders prepend, and refer to what they wrote by its distance    *)
(* from the END of the vector.  A buffer is modelled in those distances:   *)
(* data[p] is the p-th word counted from the back, so `off` is             *)
(* Len(data) - len and the word at index i of the active view is           *)
(* data[len - i].  data[p] with p > len is storage left by earlier use.    *)
(***************************************************************************)
EXTENDS Naturals, Sequences

\* The number of times grow() can double before usize saturates and its
\* final clamp applies (63 in the code; no model needs that many).
DoublingLimit == 20

Buffer == [data : Seq(Nat), len : Nat]

Allocated(b) == Len(b.data)

(***************************************************************************)
(* The size grow() allocates: the first of max(current, 8), doubled again  *)
(* and again, that holds `needed` words, or `needed` itself when doubling  *)
(* saturates below it.                                                     *)
(***************************************************************************)
GrownSize(current, needed) ==
  LET first == IF current < 8 THEN 8 ELSE current
      fits  == {w \in first..(first + 2 * needed) :
                  /\ w >= needed
                  /\ w = first \/ w < 2 * needed
                  /\ \E k \in 0..DoublingLimit : w = first * 2 ^ k}
  IN  IF fits = {} THEN needed ELSE CHOOSE w \in fits : TRUE

\* Seeded fault: the active words keep their place at the FRONT of the vector.
GrowKeepsIndex(b, needed) ==
  LET size  == GrownSize(Allocated(b), needed)
      shift == size - Allocated(b)
  IN  [data |-> [p \in 1..size |-> IF p > shift THEN b.data[p - shift] ELSE 0],
       len  |-> b.len]

\* grow: a zeroed vector whose back receives the active words.
Grow(b, needed) ==
  [data |-> [p \in 1..GrownSize(Allocated(b), needed) |->
               IF p <= b.len THEN b.data[p] ELSE 0],
   len  |-> b.len]

\* expand: prepend delta words, which keep whatever the storage held.
Expand(b, delta) ==
  LET roomy == IF Allocated(b) - b.len < delta THEN Grow(b, b.len + delta) ELSE b
  IN  [data |-> roomy.data, len |-> b.len + delta]

\* shrink: drop delta words from the front of the active view.
Shrink(b, delta) == [data |-> b.data, len |-> b.len - delta]

\* The n words whose first one lies at distance pos from the end.
ReadAt(b, pos, n) == [j \in 1..n |-> b.data[pos - j + 1]]

\* Overwrite the words from distance pos on (towards the end) with `words`.
WriteAt(b, pos, words) ==
  [data |-> [p \in 1..Allocated(b) |->
               IF pos - Len(words) < p /\ p <= pos THEN words[pos - p + 1] ELSE b.data[p]],
   len  |-> b.len]

\* put_words: prepend `words`.
PutWords(b, words) == WriteAt(Expand(b, Len(words)), b.len + Len(words), words)

\* copy_within on the active view, which allows the two ranges to overlap.
CopyWithin(b, from, to, n) == WriteAt(b, to, ReadAt(b, from, n))
=============================================================================
