------------------------- MODULE InPlaceEncodeProofs -------------------------
(***************************************************************************)
(* Compaction is safe for every number of slots, every shape and size of   *)
(* values, every earlier content of the buffer and every order of folding. *)
(***************************************************************************)
EXTENDS InPlaceEncode, DataProofs

-----------------------------------------------------------------------------
(***************************************************************************)
(* Where the words of an encoded container stand.                          *)
(***************************************************************************)

\* The widths fit the shape.
Shaped(lanes, cw) ==
  /\ Len(lanes) \in {1, 2}
  /\ cw \in Seq(1..3)
  /\ Len(cw) = Len(lanes)

\* Every slot has a lane, and the lane a width.
LEMMA LaneOf ==
  ASSUME NEW lanes, NEW cw, NEW k \in Nat \ {0}, Shaped(lanes, cw)
  PROVE  /\ Lane(lanes, k) \in 1..Len(lanes)
         /\ CellWidth(cw, lanes, k) \in 1..3
<1>1. (k - 1) % 1 = 0 /\ (k - 1) % 2 \in 0..1
  OBVIOUS
<1>2. Lane(lanes, k) \in 1..Len(lanes)
  <2>1. CASE Len(lanes) = 1
    BY <1>1, <2>1 DEF Lane
  <2>2. CASE Len(lanes) = 2
    BY <1>1, <2>2 DEF Lane
  <2> QED BY <2>1, <2>2 DEF Shaped
<1> QED BY <1>2 DEF CellWidth, Shaped

\* Each cell begins where the one before it ends.
LEMMA CellStartStep ==
  ASSUME NEW lanes, NEW cw, Shaped(lanes, cw)
  PROVE  /\ CellStart(cw, lanes, 1) = 0
         /\ \A k \in Nat \ {0} :
              /\ CellStart(cw, lanes, k) \in Nat
              /\ CellStart(cw, lanes, k + 1)
                   = CellStart(cw, lanes, k) + CellWidth(cw, lanes, k)
<1>1. CASE Len(lanes) = 1
  <2>0. cw \in Seq(1..3) /\ Len(cw) = 1
    BY <1>1 DEF Shaped
  <2>1. PICK w \in 1..3 : w = cw[1]
    BY <2>0
  <2>2. \A k \in Nat \ {0} : CellStart(cw, lanes, k) = (k - 1) * w
    BY <1>1, <2>1 DEF CellStart
  <2>3. \A k \in Nat \ {0} : CellWidth(cw, lanes, k) = w
    <3> TAKE k \in Nat \ {0}
    <3>1. Lane(lanes, k) = 1
      <4>1. Lane(lanes, k) \in 1..Len(lanes)
        BY LaneOf
      <4> QED BY <1>1, <4>1
    <3> QED BY <2>1, <3>1 DEF CellWidth
  <2>4. CellStart(cw, lanes, 1) = 0
    <3>1. (1 - 1) * w = 0
      OBVIOUS
    <3> QED BY <2>2, <3>1
  <2>5. ASSUME NEW k \in Nat \ {0}
        PROVE  /\ CellStart(cw, lanes, k) \in Nat
               /\ CellStart(cw, lanes, k + 1)
                    = CellStart(cw, lanes, k) + CellWidth(cw, lanes, k)
    <3>1. PICK a \in Nat : k = a + 1
      <4>1. k - 1 \in Nat /\ k = (k - 1) + 1
        OBVIOUS
      <4> QED BY <4>1
    <3>2. CellStart(cw, lanes, k) = a * w /\ CellStart(cw, lanes, k + 1) = (a + 1) * w
      <4>1. k - 1 = a /\ (k + 1) - 1 = a + 1 /\ k + 1 \in Nat \ {0}
        BY <3>1
      <4> QED BY <2>2, <4>1
    <3>3. a * w \in Nat /\ (a + 1) * w = a * w + w
      <4>1. w \in 0..6
        OBVIOUS
      <4> QED BY <4>1, TimesStep
    <3> QED BY <2>3, <3>2, <3>3
  <2> QED BY <2>4, <2>5
<1>2. CASE Len(lanes) = 2
  <2>1. PICK v \in 1..3, w \in 1..3 : v = cw[1] /\ w = cw[2]
    BY <1>2 DEF Shaped
  <2>2. PICK s \in 0..6 : s = v + w
    <3>1. v + w \in 0..6
      OBVIOUS
    <3> QED BY <3>1
  <2>3. \A k \in Nat \ {0} :
          CellStart(cw, lanes, k) =
            ((k - 1) \div 2) * s + (IF Lane(lanes, k) = 2 THEN v ELSE 0)
    BY <1>2, <2>1, <2>2 DEF CellStart
  <2>4. ASSUME NEW k \in Nat \ {0}
        PROVE  \/ \E a \in Nat : /\ k = 2 * a + 1 /\ Lane(lanes, k) = 1 /\ (k - 1) \div 2 = a
                                 /\ Lane(lanes, k + 1) = 2 /\ ((k + 1) - 1) \div 2 = a
               \/ \E a \in Nat : /\ k = 2 * a + 2 /\ Lane(lanes, k) = 2 /\ (k - 1) \div 2 = a
                                 /\ Lane(lanes, k + 1) = 1 /\ ((k + 1) - 1) \div 2 = a + 1
    <3>1. PICK a \in Nat : a = (k - 1) \div 2 /\ (k - 1 = 2 * a \/ k - 1 = 2 * a + 1)
      <4>1. (k - 1) \div 2 \in Nat
            /\ (k - 1 = 2 * ((k - 1) \div 2) \/ k - 1 = 2 * ((k - 1) \div 2) + 1)
        OBVIOUS
      <4> QED BY <4>1
    <3>2. CASE k - 1 = 2 * a
      <4>1. /\ k = 2 * a + 1 /\ (k - 1) % 2 = 0 /\ ((k + 1) - 1) % 2 = 1
            /\ ((k + 1) - 1) \div 2 = a
        BY <3>2
      <4> QED BY <1>2, <3>1, <4>1 DEF Lane
    <3>3. CASE k - 1 = 2 * a + 1
      <4>1. /\ k = 2 * a + 2 /\ (k - 1) % 2 = 1 /\ ((k + 1) - 1) % 2 = 0
            /\ ((k + 1) - 1) \div 2 = a + 1
        BY <3>3
      <4> QED BY <1>2, <3>1, <4>1 DEF Lane
    <3> QED BY <3>1, <3>2, <3>3
  <2>5. ASSUME NEW k \in Nat \ {0}
        PROVE  /\ CellStart(cw, lanes, k) \in Nat
               /\ CellStart(cw, lanes, k + 1)
                    = CellStart(cw, lanes, k) + CellWidth(cw, lanes, k)
    <3>0. k + 1 \in Nat \ {0}
      OBVIOUS
    <3>1. CASE \E a \in Nat : /\ k = 2 * a + 1 /\ Lane(lanes, k) = 1 /\ (k - 1) \div 2 = a
                              /\ Lane(lanes, k + 1) = 2 /\ ((k + 1) - 1) \div 2 = a
      <4>1. PICK a \in Nat : /\ Lane(lanes, k) = 1 /\ (k - 1) \div 2 = a
                             /\ Lane(lanes, k + 1) = 2 /\ ((k + 1) - 1) \div 2 = a
        BY <3>1
      <4>2. a * s \in Nat
        BY TimesStep
      <4>3. CellStart(cw, lanes, k) = a * s + 0 /\ CellStart(cw, lanes, k + 1) = a * s + v
        BY <2>3, <3>0, <4>1
      <4>4. CellWidth(cw, lanes, k) = v
        BY <2>1, <4>1 DEF CellWidth
      <4> QED BY <4>2, <4>3, <4>4
    <3>2. CASE \E a \in Nat : /\ k = 2 * a + 2 /\ Lane(lanes, k) = 2 /\ (k - 1) \div 2 = a
                              /\ Lane(lanes, k + 1) = 1 /\ ((k + 1) - 1) \div 2 = a + 1
      <4>1. PICK a \in Nat : /\ Lane(lanes, k) = 2 /\ (k - 1) \div 2 = a
                             /\ Lane(lanes, k + 1) = 1 /\ ((k + 1) - 1) \div 2 = a + 1
        BY <3>2
      <4>2. a * s \in Nat /\ (a + 1) * s = a * s + s
        BY TimesStep
      <4>3. CellStart(cw, lanes, k) = a * s + v
        BY <2>3, <4>1
      <4>4. CellStart(cw, lanes, k + 1) = (a + 1) * s + 0
        BY <2>3, <3>0, <4>1, SMTT(30)
      <4>5. CellWidth(cw, lanes, k) = w
        BY <2>1, <4>1 DEF CellWidth
      <4> QED BY <2>2, <4>2, <4>3, <4>4, <4>5
    <3> QED BY <2>4, <3>1, <3>2
  <2>6. CellStart(cw, lanes, 1) = 0
    <3>1. (1 - 1) \div 2 = 0 /\ (1 - 1) % 2 = 0 /\ 0 * s = 0
      OBVIOUS
    <3>2. Lane(lanes, 1) = 1
      BY <1>2, <3>1 DEF Lane
    <3> QED BY <2>3, <3>1, <3>2
  <2> QED BY <2>5, <2>6
<1> QED BY <1>1, <1>2 DEF Shaped

\* The words slot k adds to the payloads.
Payload(sizes, cw, lanes, k) ==
  IF sizes[k] > CellWidth(cw, lanes, k) THEN sizes[k] ELSE 0

\* Payloads follow the cells, each beginning where the one before it ends.
LEMMA PayloadStartStep ==
  ASSUME NEW lanes, NEW cw, NEW sizes \in Seq(Nat), Shaped(lanes, cw)
  PROVE  /\ PayloadStart(sizes, cw, lanes, 1) = CellStart(cw, lanes, Len(sizes) + 1)
         /\ \A k \in 1..(Len(sizes) + 1) : PayloadStart(sizes, cw, lanes, k) \in Nat
         /\ \A k \in 1..Len(sizes) :
              /\ Payload(sizes, cw, lanes, k) \in Nat
              /\ PayloadStart(sizes, cw, lanes, k + 1)
                   = PayloadStart(sizes, cw, lanes, k) + Payload(sizes, cw, lanes, k)
<1>1. PICK n \in Nat : n = Len(sizes) /\ \A k \in 1..n : sizes[k] \in Nat
  OBVIOUS
<1>2. PICK S \in SUBSET (1..n) : S = Outlined(sizes, cw, lanes)
  BY <1>1 DEF Outlined
<1>3. PICK c \in Nat : c = CellStart(cw, lanes, n + 1)
  <2>1. n + 1 \in Nat \ {0}
    OBVIOUS
  <2> QED BY <2>1, CellStartStep
<1>4. \A k : PayloadStart(sizes, cw, lanes, k) = c + SumBefore(sizes, S, k)
  BY <1>1, <1>2, <1>3 DEF PayloadStart, SumBefore
<1>5. SumGrows(sizes, S, n)
  <2>1. \A k \in S : sizes[k] \in Nat
    BY <1>1
  <2> QED BY <2>1, SumUpTo
<1>6. \A k \in 1..n : k \in S <=> sizes[k] > CellWidth(cw, lanes, k)
  BY <1>1, <1>2 DEF Outlined
<1>7. \A k \in 1..(n + 1) : PayloadStart(sizes, cw, lanes, k) \in Nat
  BY <1>4, <1>5 DEF SumGrows
<1>8. PayloadStart(sizes, cw, lanes, 1) = c
  BY <1>4, <1>5 DEF SumGrows
<1>9. ASSUME NEW k \in 1..n
      PROVE  /\ Payload(sizes, cw, lanes, k) \in Nat
             /\ PayloadStart(sizes, cw, lanes, k + 1)
                  = PayloadStart(sizes, cw, lanes, k) + Payload(sizes, cw, lanes, k)
  <2>1. PICK p \in Nat : p = Payload(sizes, cw, lanes, k) /\ p = (IF k \in S THEN sizes[k] ELSE 0)
    BY <1>1, <1>6 DEF Payload
  <2>2. PICK x \in Nat : x = SumBefore(sizes, S, k)
    BY <1>5 DEF SumGrows
  <2>3. SumBefore(sizes, S, k + 1) = x + p
    <3>1. CASE k \in S
      BY <1>5, <2>1, <2>2, <3>1 DEF SumGrows
    <3>2. CASE k \notin S
      BY <1>5, <2>1, <2>2, <3>2 DEF SumGrows
    <3> QED BY <3>1, <3>2
  <2>4. PayloadStart(sizes, cw, lanes, k + 1) = c + (x + p) /\ PayloadStart(sizes, cw, lanes, k) = c + x
    BY <1>4, <2>2, <2>3
  <2> QED BY <2>1, <2>4
<1> QED BY <1>1, <1>3, <1>7, <1>8, <1>9

\* The chosen widths are 1, 2 or 3.
LEMMA WidthsShaped ==
  ASSUME NEW sizes, NEW lanes, Len(lanes) \in {1, 2}
  PROVE  Shaped(lanes, Widths(sizes, lanes))
<1>1. \A l \in 1..Len(lanes) : BestWidth(sizes, lanes, l) \in 1..3
  BY DEF BestWidth
<1>2. Len(lanes) \in Nat
  OBVIOUS
<1> QED BY <1>1, <1>2 DEF Widths, Shaped

\* The size compared with the limit is the words the cells and payloads take.
LEMMA EncodedSizeIs ==
  ASSUME NEW lanes, NEW sizes \in Seq(Nat), Len(lanes) \in {1, 2}
  PROVE  EncodedSize(sizes, lanes)
           = PayloadStart(sizes, Widths(sizes, lanes), lanes, Len(sizes) + 1)
               + (IF Len(lanes) = 2 THEN 1 + Len(IndexTail) ELSE 0)
<1>1. PICK n \in Nat : n = Len(sizes) /\ \A k \in 1..n : sizes[k] \in Nat
  OBVIOUS
<1>2. PICK L \in {1, 2} : L = Len(lanes)
  OBVIOUS
<1>3. PICK cw \in Seq(1..3) : cw = Widths(sizes, lanes) /\ Shaped(lanes, cw)
  BY WidthsShaped DEF Shaped
<1>4. \A l \in 1..L : cw[l] = BestWidth(sizes, lanes, l) /\ cw[l] \in 1..3
  BY <1>2, <1>3 DEF Widths, Shaped
<1> DEFINE P(k) == PayloadStart(sizes, cw, lanes, k)
           C(k) == CellStart(cw, lanes, k)
           S(l) == Slots(sizes, lanes, l)
           f(l) == [k \in 1..n |-> cw[l] + IF sizes[k] > cw[l] THEN sizes[k] ELSE 0]
           h == [l \in 1..L |-> SumFunctionOnSet(f(l), S(l))]
           both(k) == IF L = 1 THEN SumBefore(f(1), S(1), k)
                               ELSE SumBefore(f(1), S(1), k) + SumBefore(f(2), S(2), k)
<1>5. ASSUME NEW l \in 1..L PROVE LaneTotal(sizes, lanes, l, cw[l]) = h[l]
  BY <1>1 DEF LaneTotal
<1>6. SumFunction([l \in 1..Len(lanes) |-> LaneTotal(sizes, lanes, l, BestWidth(sizes, lanes, l))])
        = SumFunctionOnSet(h, 1..L)
  <2> HIDE DEF h
  <2>1. [l \in 1..Len(lanes) |-> LaneTotal(sizes, lanes, l, BestWidth(sizes, lanes, l))]
          = [l \in 1..L |-> h[l]]
    BY <1>2, <1>4, <1>5
  <2>2. h = [l \in 1..L |-> h[l]]
    BY DEF h
  <2>3. DOMAIN [l \in 1..L |-> h[l]] = 1..L
    OBVIOUS
  <2> QED BY <2>1, <2>2, <2>3 DEF SumFunction
<1>7. \A l \in 1..L : S(l) \in SUBSET (1..n) /\ \A k \in 1..n : k \in S(l) <=> Lane(lanes, k) = l
  BY <1>1 DEF Slots
<1>8. \A l \in 1..L, k \in 1..n : f(l)[k] \in Nat
  <2> TAKE l \in 1..L, k \in 1..n
  <2>1. PICK w, size \in Nat : w = cw[l] /\ size = sizes[k]
    BY <1>1, <1>4
  <2>2. f(l)[k] = w + IF size > w THEN size ELSE 0
    BY <2>1
  <2> QED BY ONLY <2>2, w \in Nat, size \in Nat
<1>9. \A l \in 1..L : SumGrows(f(l), S(l), n)
  <2> TAKE l \in 1..L
  <2> HIDE DEF f, S
  <2>1. S(l) \in SUBSET (1..n) /\ \A k \in S(l) : f(l)[k] \in Nat
    BY <1>7, <1>8
  <2> QED BY <2>1, SumUpTo
<1>10. ASSUME NEW k \in 1..n
       PROVE  /\ Lane(lanes, k) \in 1..L
              /\ Payload(sizes, cw, lanes, k) \in Nat
              /\ CellWidth(cw, lanes, k) \in 1..3
              /\ f(Lane(lanes, k))[k] = CellWidth(cw, lanes, k) + Payload(sizes, cw, lanes, k)
  <2>1. k \in Nat \ {0}
    OBVIOUS
  <2>2. Lane(lanes, k) \in 1..L /\ CellWidth(cw, lanes, k) \in 1..3
    BY <1>2, <1>3, <2>1, LaneOf
  <2>3. Payload(sizes, cw, lanes, k) \in Nat
    BY <1>1, <2>2 DEF Payload
  <2> QED BY <2>2, <2>3 DEF Payload, CellWidth
<1>11. \A k \in 1..(n + 1) : P(k) \in Nat /\ C(k) \in Nat
  <2> TAKE k \in 1..(n + 1)
  <2>1. k \in Nat \ {0}
    OBVIOUS
  <2> QED BY <1>1, <1>3, <2>1, CellStartStep, PayloadStartStep
<1>12. /\ P(1) = C(n + 1) /\ C(1) = 0
       /\ \A k \in 1..n : /\ C(k + 1) = C(k) + CellWidth(cw, lanes, k)
                          /\ P(k + 1) = P(k) + Payload(sizes, cw, lanes, k)
  <2>1. C(1) = 0
    BY <1>3, CellStartStep
  <2>2. P(1) = C(n + 1)
    BY <1>1, <1>3, PayloadStartStep
  <2>3. ASSUME NEW k \in 1..n
        PROVE  /\ C(k + 1) = C(k) + CellWidth(cw, lanes, k)
               /\ P(k + 1) = P(k) + Payload(sizes, cw, lanes, k)
    <3>1. k \in Nat \ {0}
      OBVIOUS
    <3>2. C(k + 1) = C(k) + CellWidth(cw, lanes, k)
      BY <1>3, <3>1, CellStartStep
    <3>3. P(k + 1) = P(k) + Payload(sizes, cw, lanes, k)
      BY <1>1, <1>3, PayloadStartStep
    <3> QED BY <3>2, <3>3
  <2> QED BY <2>1, <2>2, <2>3
<1> HIDE DEF P, C, f, S, h
<1> DEFINE U == {k \in 1..(n + 1) : both(k) + P(1) = C(k) + P(k)}
<1>13. \A l \in 1..L, k \in 1..(n + 1) : SumBefore(f(l), S(l), k) \in Nat
  BY <1>9 DEF SumGrows
<1>14. 1 \in U
  <2>1. 1 \in 1..(n + 1) /\ P(1) \in Nat /\ C(1) = 0
    BY <1>11, <1>12
  <2>2. \A l \in 1..L : SumBefore(f(l), S(l), 1) = 0
    BY <1>9 DEF SumGrows
  <2>3. both(1) = 0
    BY <2>2
  <2> HIDE DEF both
  <2> QED BY <2>1, <2>3
<1>15. ASSUME NEW k \in 1..((n + 1) - 1), k \in U PROVE k + 1 \in U
  <2>1. k \in 1..n /\ k \in 1..(n + 1) /\ k + 1 \in 1..(n + 1)
    OBVIOUS
  <2>2. PICK l \in 1..L : l = Lane(lanes, k)
    BY <1>10, <2>1
  <2>3. PICK w, p, c, q, q1 \in Nat : /\ w = CellWidth(cw, lanes, k) /\ p = Payload(sizes, cw, lanes, k)
                              /\ c = C(k) /\ q = P(k) /\ q1 = P(1)
    <3>1. 1 \in 1..(n + 1)
      OBVIOUS
    <3>2. P(1) \in Nat
      BY <1>11, <3>1
    <3>3. CellWidth(cw, lanes, k) \in Nat
      BY <1>10, <2>1
    <3> QED BY <1>10, <1>11, <2>1, <3>2, <3>3
  <2>4. C(k + 1) = c + w /\ P(k + 1) = q + p
    BY <1>12, <2>1, <2>3
  <2>5. SumBefore(f(l), S(l), k + 1) = SumBefore(f(l), S(l), k) + (w + p)
    <3>1. k \in S(l)
      BY <1>7, <2>1, <2>2
    <3>2. f(l)[k] = w + p
      BY <1>10, <2>1, <2>2, <2>3
    <3>3. SumBefore(f(l), S(l), k + 1) = SumBefore(f(l), S(l), k) + f(l)[k]
      BY <1>9, <3>1 DEF SumGrows
    <3> QED BY <3>2, <3>3
  <2>6. \A m \in 1..L \ {l} : SumBefore(f(m), S(m), k + 1) = SumBefore(f(m), S(m), k)
    <3> TAKE m \in 1..L \ {l}
    <3>1. k \in 1..n \ S(m) /\ m \in 1..L
      BY <1>7, <2>1, <2>2
    <3> QED BY <1>9, <3>1 DEF SumGrows
  <2>7. both(k + 1) = both(k) + (w + p) /\ both(k) \in Nat
    <3>1. CASE L = 1
      <4>1. l = 1 /\ 1 \in 1..L
        BY <3>1
      <4>2. SumBefore(f(1), S(1), k) \in Nat
        BY <1>13, <2>1, <4>1
      <4> QED BY <2>5, <3>1, <4>1, <4>2
    <3>2. CASE L = 2
      <4>1. PICK x, y \in Nat : x = SumBefore(f(1), S(1), k) /\ y = SumBefore(f(2), S(2), k)
        <5>1. 1 \in 1..L /\ 2 \in 1..L
          BY <3>2
        <5> QED BY <1>13, <2>1, <5>1
      <4>2. CASE l = 1
        <5>1. 2 \in 1..L \ {l}
          BY <3>2, <4>2
        <5>2. SumBefore(f(2), S(2), k + 1) = y
          BY <2>6, <4>1, <5>1
        <5>3. SumBefore(f(1), S(1), k + 1) = x + (w + p)
          BY <2>5, <4>1, <4>2
        <5>4. both(k) = x + y /\ both(k + 1) = (x + (w + p)) + y
          BY <3>2, <4>1, <5>2, <5>3
        <5> HIDE DEF both
        <5> QED BY <5>4
      <4>3. CASE l = 2
        <5>1. 1 \in 1..L \ {l}
          BY <3>2, <4>3
        <5>2. SumBefore(f(1), S(1), k + 1) = x
          BY <2>6, <4>1, <5>1
        <5>3. SumBefore(f(2), S(2), k + 1) = y + (w + p)
          BY <2>5, <4>1, <4>3
        <5>4. both(k) = x + y /\ both(k + 1) = x + (y + (w + p))
          BY <3>2, <4>1, <5>2, <5>3
        <5> HIDE DEF both
        <5> QED BY <5>4
      <4> QED BY <3>2, <4>2, <4>3
    <3> QED BY <3>1, <3>2
  <2> HIDE DEF both
  <2>8. both(k) + q1 = c + q
    BY <1>15, <2>3
  <2>9. both(k + 1) + q1 = (c + w) + (q + p)
    <3>1. PICK b \in Nat : b = both(k)
      BY <2>7
    <3>2. b + q1 = c + q
      BY <2>8, <3>1
    <3> HIDE DEF U
    <3>3. (b + (w + p)) + q1 = (c + w) + (q + p)
      BY <3>2
    <3> QED BY <2>7, <3>1, <3>3
  <2> QED BY <2>1, <2>3, <2>4, <2>9
<1>16. n + 1 \in U
  <2> HIDE DEF U
  <2>1. n + 1 \in Nat /\ n + 1 \in 1..(n + 1)
    OBVIOUS
  <2>2. \A k \in 1..(n + 1) : k \in U
    BY <1>14, <1>15, <2>1, Climb
  <2> QED BY <2>1, <2>2
<1>17. both(n + 1) = P(n + 1)
  <2>1. both(n + 1) + P(1) = C(n + 1) + P(n + 1)
    BY <1>16
  <2>2. both(n + 1) \in Nat
    <3>1. n + 1 \in 1..(n + 1) /\ 1 \in 1..L
      OBVIOUS
    <3>2. SumBefore(f(1), S(1), n + 1) \in Nat
      BY <1>13, <3>1
    <3>3. CASE L = 1
      BY <3>2, <3>3
    <3>4. CASE L = 2
      <4>1. 2 \in 1..L
        BY <3>4
      <4>2. SumBefore(f(2), S(2), n + 1) \in Nat
        BY <1>13, <3>1, <4>1
      <4> QED BY <3>2, <3>4, <4>2
    <3> QED BY <3>3, <3>4
  <2>3. n + 1 \in 1..(n + 1)
    OBVIOUS
  <2>4. P(n + 1) \in Nat /\ C(n + 1) \in Nat /\ P(1) = C(n + 1)
    BY <1>11, <1>12, <2>3
  <2> HIDE DEF both
  <2> QED BY <2>1, <2>2, <2>4
<1>18. SumFunctionOnSet(h, 1..L) = both(n + 1)
  <2>1. \A l \in 1..L : h[l] = SumBefore(f(l), S(l), n + 1)
    BY <1>9 DEF SumGrows, h
  <2>2. \A l \in 1..L : h[l] \in Nat
    <3> TAKE l \in 1..L
    <3>1. n + 1 \in 1..(n + 1)
      OBVIOUS
    <3> QED BY <1>13, <2>1, <3>1
  <2>3. SumFunctionOnSet(h, 1..L) = IF L = 1 THEN h[1] ELSE h[1] + h[2]
    BY <2>2, SumOfLanes
  <2>4. CASE L = 1
    BY <2>1, <2>3, <2>4
  <2>5. CASE L = 2
    BY <2>1, <2>3, <2>5
  <2> QED BY <2>4, <2>5
<1>19. SumFunction([l \in 1..Len(lanes) |-> LaneTotal(sizes, lanes, l, BestWidth(sizes, lanes, l))])
        = PayloadStart(sizes, Widths(sizes, lanes), lanes, Len(sizes) + 1)
  BY <1>1, <1>3, <1>6, <1>17, <1>18, Zenon DEF P
<1> QED BY <1>19 DEF EncodedSize

\* Where cells and payloads begin.
LEMMA Places ==
  ASSUME NEW lanes, NEW cw, NEW sizes \in Seq(Nat), Shaped(lanes, cw)
  PROVE  \A k \in 1..(Len(sizes) + 1) :
           /\ CellStart(cw, lanes, k) \in Nat
           /\ PayloadStart(sizes, cw, lanes, k) \in Nat
           /\ CellStart(cw, lanes, k) <= PayloadStart(sizes, cw, lanes, 1)
           /\ PayloadStart(sizes, cw, lanes, 1) <= PayloadStart(sizes, cw, lanes, k)
           /\ PayloadStart(sizes, cw, lanes, k)
                <= PayloadStart(sizes, cw, lanes, Len(sizes) + 1)
<1>1. PICK n \in Nat : n = Len(sizes)
  OBVIOUS
<1> DEFINE C(k) == CellStart(cw, lanes, k)
           P(k) == PayloadStart(sizes, cw, lanes, k)
           c == [k \in 1..(n + 1) |-> C(k)]
           p == [k \in 1..(n + 1) |-> P(k)]
<1>2. \A k \in 1..(n + 1) : C(k) \in Nat
  <2> TAKE k \in 1..(n + 1)
  <2>1. k \in Nat \ {0}
    OBVIOUS
  <2> QED BY <2>1, CellStartStep
<1>3. \A k \in 1..(n + 1) : P(k) \in Nat
  BY <1>1, PayloadStartStep
<1>4. P(1) = C(n + 1)
  BY <1>1, PayloadStartStep
<1>5. \A k \in 1..n : C(k) <= C(k + 1)
  <2> TAKE k \in 1..n
  <2>1. k \in Nat \ {0} /\ k \in 1..(n + 1)
    OBVIOUS
  <2>2. C(k + 1) = C(k) + CellWidth(cw, lanes, k) /\ CellWidth(cw, lanes, k) \in 1..3
    BY <2>1, CellStartStep, LaneOf
  <2>3. PICK x \in Nat, w \in 1..3 : x = C(k) /\ w = CellWidth(cw, lanes, k)
    BY <1>2, <2>1, <2>2
  <2> HIDE DEF C
  <2>4. C(k + 1) = x + w
    BY <2>2, <2>3
  <2> QED BY <2>3, <2>4
<1>6. \A k \in 1..n : P(k) <= P(k + 1)
  <2> TAKE k \in 1..n
  <2>1. k \in 1..(n + 1) /\ P(k) \in Nat
    BY <1>3
  <2>2. /\ P(k + 1) = P(k) + Payload(sizes, cw, lanes, k)
        /\ Payload(sizes, cw, lanes, k) \in Nat
    BY <1>1, PayloadStartStep
  <2>3. PICK x \in Nat, y \in Nat : x = P(k) /\ y = Payload(sizes, cw, lanes, k)
    BY <2>1, <2>2
  <2> HIDE DEF P
  <2>4. P(k + 1) = x + y
    BY <2>2, <2>3
  <2> QED BY <2>3, <2>4
<1> HIDE DEF C, P
<1>7. c \in [1..(n + 1) -> Nat] /\ \A k \in 1..n : c[k] <= c[k + 1]
  BY <1>2, <1>5
<1>8. p \in [1..(n + 1) -> Nat] /\ \A k \in 1..n : p[k] <= p[k + 1]
  BY <1>3, <1>6
<1> HIDE DEF c, p
<1>9. ASSUME NEW k \in 1..(n + 1) PROVE C(k) <= P(1) /\ P(1) <= P(k) /\ P(k) <= P(n + 1)
  <2>1. k \in 1..(n + 1) /\ n + 1 \in 1..(n + 1) /\ 1 \in 1..k /\ 1 \in 1..(n + 1)
    OBVIOUS
  <2>2. c[k] <= c[n + 1]
    BY <1>7, <2>1, Nondecreasing
  <2>3. p[1] <= p[k] /\ p[k] <= p[n + 1]
    BY <1>8, <2>1, Nondecreasing
  <2> QED BY <1>4, <2>1, <2>2, <2>3 DEF c, p
<1> QED BY <1>1, <1>2, <1>3, <1>9 DEF C, P

\* A header is as long as the readers take it to be.
LEMMA HeaderWords ==
  ASSUME NEW n \in Nat, NEW lanes, NEW cw, Shaped(lanes, cw)
  PROVE  /\ Header(n, cw) \in Seq(Nat)
         /\ Len(Header(n, cw)) = HeaderLength(lanes)
         /\ HeaderLength(lanes) \in Nat \ {0}
         /\ Header(n, cw)[1] \in Nat
         /\ Header(n, cw)[1] =
              IF Len(lanes) = 1 THEN n * 4 + cw[1]
                                ELSE (n \div 2) * 16 + cw[1] * 4 + cw[2]
<1>1. CASE Len(lanes) = 1
  <2>1. cw[1] \in 1..3 /\ Len(cw) = 1
    BY <1>1, SMTT(30) DEF Shaped
  <2>2. n * 4 + cw[1] \in Nat
    BY <2>1
  <2> QED
    BY <1>1, <2>1, <2>2 DEF Header, HeaderLength
<1>2. CASE Len(lanes) = 2
  <2>0. cw \in Seq(1..3) /\ Len(cw) = 2
    BY <1>2 DEF Shaped
  <2>1. cw[1] \in 1..3 /\ cw[2] \in 1..3 /\ Len(cw) = 2
    BY <2>0
  <2> DEFINE head == (n \div 2) * 16 + cw[1] * 4 + cw[2]
  <2>2. head \in Nat
    BY <2>1
  <2>3. Header(n, cw) = <<head>> \o IndexTail
    BY <2>1 DEF Header
  <2>4. HeaderLength(lanes) = 1 + Len(IndexTail)
    BY <1>2 DEF HeaderLength
  <2>5. Len(IndexTail) \in Nat
    BY IndexTailAssumption
  <2> HIDE DEF head
  <2>6. /\ <<head>> \o IndexTail \in Seq(Nat) /\ (<<head>> \o IndexTail)[1] = head
        /\ Len(<<head>> \o IndexTail) = 1 + Len(IndexTail)
    BY <2>2, IndexTailAssumption
  <2>7. Header(n, cw)[1] = head
    BY <2>3, <2>6
  <2> QED
    BY <1>2, <2>2, <2>3, <2>4, <2>5, <2>6, <2>7 DEF head
<1> QED
  BY <1>1, <1>2 DEF Shaped

\* A padded cell has the width it is given.
LEMMA PadWords ==
  ASSUME NEW words \in Seq(Nat), NEW w \in 1..3
  PROVE  /\ Pad(words, w) \in Seq(Nat) /\ Len(Pad(words, w)) = w
         /\ \A j \in 1..w : Pad(words, w)[j] = IF j <= Len(words) THEN words[j] ELSE 0
<1>1. \A j \in 1..w : (IF j <= Len(words) THEN words[j] ELSE 0) \in Nat
  OBVIOUS
<1> QED
  BY <1>1 DEF Pad

\* The sizes of the slots' words.
LEMMA SizesType ==
  ASSUME NEW values \in Seq(Seq(Nat))
  PROVE  /\ Sizes(values) \in Seq(Nat) /\ Len(Sizes(values)) = Len(values)
         /\ \A k \in 1..Len(values) : /\ values[k] \in Seq(Nat)
                                       /\ Sizes(values)[k] = Len(values[k])
                                       /\ Len(values[k]) \in Nat
<1>1. \A k \in 1..Len(values) : values[k] \in Seq(Nat) /\ Len(values[k]) \in Nat
  OBVIOUS
<1> QED
  BY <1>1 DEF Sizes

\* A cell holds its slot's words or the distance to their payload.
LEMMA CellWords ==
  ASSUME NEW lanes, NEW cw, NEW values \in Seq(Seq(Nat)), NEW k \in 1..Len(values),
         Shaped(lanes, cw)
  PROVE  /\ Cell(values, cw, lanes, k) \in Seq(Nat)
         /\ Len(Cell(values, cw, lanes, k)) = CellWidth(cw, lanes, k)
         /\ CellWidth(cw, lanes, k) \in 1..3
         /\ PayloadStart(Sizes(values), cw, lanes, k) - CellStart(cw, lanes, k) \in Nat
<1>1. PICK w \in 1..3 : w = CellWidth(cw, lanes, k)
  <2>1. k \in Nat \ {0}
    OBVIOUS
  <2> QED BY <2>1, LaneOf
<1>2. /\ Sizes(values) \in Seq(Nat) /\ Len(Sizes(values)) = Len(values)
      /\ values[k] \in Seq(Nat)
  BY SizesType
<1>3. /\ CellStart(cw, lanes, k) \in Nat
      /\ PayloadStart(Sizes(values), cw, lanes, k) \in Nat
      /\ PayloadStart(Sizes(values), cw, lanes, 1) \in Nat
      /\ CellStart(cw, lanes, k) <= PayloadStart(Sizes(values), cw, lanes, 1)
      /\ PayloadStart(Sizes(values), cw, lanes, 1) <= PayloadStart(Sizes(values), cw, lanes, k)
  <2>1. k \in 1..(Len(Sizes(values)) + 1) /\ 1 \in 1..(Len(Sizes(values)) + 1)
    BY <1>2
  <2> QED BY <1>2, <2>1, Places
<1>4. PICK d \in Nat : d = PayloadStart(Sizes(values), cw, lanes, k) - CellStart(cw, lanes, k)
  <2>1. PICK x, y, z \in Nat : /\ x = CellStart(cw, lanes, k)
                               /\ y = PayloadStart(Sizes(values), cw, lanes, 1)
                               /\ z = PayloadStart(Sizes(values), cw, lanes, k)
    BY <1>3
  <2>2. z - x \in Nat
    BY <1>3, <2>1
  <2> QED BY <2>1, <2>2
<1>5. Offset(d) \in Nat /\ <<Offset(d)>> \in Seq(Nat)
  BY DEF Offset
<1>6. Cell(values, cw, lanes, k) = IF Len(values[k]) <= w THEN Pad(values[k], w) ELSE Pad(<<Offset(d)>>, w)
  BY <1>1, <1>4 DEF Cell
<1>7. /\ Pad(values[k], w) \in Seq(Nat) /\ Len(Pad(values[k], w)) = w
      /\ Pad(<<Offset(d)>>, w) \in Seq(Nat) /\ Len(Pad(<<Offset(d)>>, w)) = w
  BY <1>2, <1>5, PadWords
<1> QED BY <1>1, <1>4, <1>6, <1>7

(***************************************************************************)
(* The layout said word by word: what stands where.                        *)
(***************************************************************************)
CellsPlaced(words, from, values, cw, lanes) ==
  \A k \in 1..Len(values) : \A j \in 1..CellWidth(cw, lanes, k) :
    words[from + (CellStart(cw, lanes, k) + j)] = Cell(values, cw, lanes, k)[j]

\* Every payload stands where PayloadStart says.
PayloadsPlaced(words, from, values, cw, lanes) ==
  \A k \in 1..Len(values) : Len(values[k]) > CellWidth(cw, lanes, k) =>
    \A j \in 1..Len(values[k]) :
      words[from + (PayloadStart(Sizes(values), cw, lanes, k) + j)] = values[k][j]

\* The words behind the header.
BodyLength(values, cw, lanes) ==
  PayloadStart(Sizes(values), cw, lanes, Len(values) + 1)

\* A header, and behind it every cell and payload in its place, and no more.
Placed(words, values, cw, lanes) ==
  /\ words \in Seq(Nat)
  /\ Len(words) = HeaderLength(lanes) + BodyLength(values, cw, lanes)
  /\ \A j \in 1..HeaderLength(lanes) : words[j] = Header(Len(values), cw)[j]
  /\ CellsPlaced(words, HeaderLength(lanes), values, cw, lanes)
  /\ PayloadsPlaced(words, HeaderLength(lanes), values, cw, lanes)

\* The cells and the payloads as sequences, and where each begins.
CellSeq(values, cw, lanes) ==
  [k \in 1..Len(values) |-> Cell(values, cw, lanes, k)]

PayloadSeq(values, cw, lanes) ==
  [k \in 1..Len(values) |->
    IF k \in Outlined(Sizes(values), cw, lanes) THEN values[k] ELSE <<>>]

CellStarts(values, cw, lanes) ==
  [k \in 1..(Len(values) + 1) |-> CellStart(cw, lanes, k)]

PayloadStarts(values, cw, lanes) ==
  [k \in 1..(Len(values) + 1) |->
    PayloadStart(Sizes(values), cw, lanes, k) - PayloadStart(Sizes(values), cw, lanes, 1)]

\* The cells of Layout begin where CellStart says.
LEMMA CellsStart ==
  ASSUME NEW lanes, NEW cw, NEW values \in Seq(Seq(Nat)), Shaped(lanes, cw)
  PROVE  /\ CellSeq(values, cw, lanes) \in Seq(Seq(Nat))
         /\ Len(CellSeq(values, cw, lanes)) = Len(values)
         /\ Starts(CellStarts(values, cw, lanes), CellSeq(values, cw, lanes))
<1>1. PICK n \in Nat : n = Len(values)
  OBVIOUS
<1> DEFINE cs == CellSeq(values, cw, lanes)
           st == CellStarts(values, cw, lanes)
<1>2. \A k \in 1..n : /\ Cell(values, cw, lanes, k) \in Seq(Nat)
                      /\ Len(Cell(values, cw, lanes, k)) = CellWidth(cw, lanes, k)
  BY <1>1, CellWords
<1>3. cs \in Seq(Seq(Nat)) /\ Len(cs) = n /\ \A k \in 1..n : cs[k] = Cell(values, cw, lanes, k)
  BY <1>1, <1>2 DEF CellSeq
<1>4. \A k \in 1..(n + 1) : st[k] = CellStart(cw, lanes, k) /\ CellStart(cw, lanes, k) \in Nat
  <2> TAKE k \in 1..(n + 1)
  <2>1. k \in Nat \ {0}
    OBVIOUS
  <2> QED BY <1>1, <2>1, CellStartStep DEF CellStarts
<1>5. st \in [1..(n + 1) -> Nat]
  <2>1. st = [k \in 1..(n + 1) |-> CellStart(cw, lanes, k)]
    BY <1>1 DEF CellStarts
  <2> QED BY <1>4, <2>1
<1>6. \A k \in 1..n : CellStart(cw, lanes, k + 1) = CellStart(cw, lanes, k) + CellWidth(cw, lanes, k)
  <2> TAKE k \in 1..n
  <2>1. k \in Nat \ {0}
    OBVIOUS
  <2> QED BY <2>1, CellStartStep
<1>7. st[1] = 0
  <2>1. 1 \in 1..(n + 1) /\ CellStart(cw, lanes, 1) = 0
    BY CellStartStep
  <2> QED BY <1>4, <2>1
<1>8. \A k \in 1..n : st[k + 1] = st[k] + Len(cs[k])
  <2> TAKE k \in 1..n
  <2>1. k \in 1..(n + 1) /\ k + 1 \in 1..(n + 1)
    OBVIOUS
  <2> HIDE DEF st, cs
  <2> QED BY <1>2, <1>3, <1>4, <1>6, <2>1
<1> HIDE DEF st, cs
<1>9. Starts(st, cs)
  BY <1>3, <1>5, <1>7, <1>8 DEF Starts
<1> QED BY <1>1, <1>3, <1>9 DEF st, cs

\* The payloads of Layout begin where PayloadStart says.
LEMMA PayloadsStart ==
  ASSUME NEW lanes, NEW cw, NEW values \in Seq(Seq(Nat)), Shaped(lanes, cw)
  PROVE  /\ PayloadSeq(values, cw, lanes) \in Seq(Seq(Nat))
         /\ Len(PayloadSeq(values, cw, lanes)) = Len(values)
         /\ Starts(PayloadStarts(values, cw, lanes), PayloadSeq(values, cw, lanes))
<1>1. PICK n \in Nat : n = Len(values)
  OBVIOUS
<1>2. PICK sizes \in Seq(Nat) : /\ sizes = Sizes(values) /\ Len(sizes) = n
                                /\ \A k \in 1..n : sizes[k] = Len(values[k]) /\ values[k] \in Seq(Nat)
  BY <1>1, SizesType
<1> DEFINE ps == PayloadSeq(values, cw, lanes)
           st == PayloadStarts(values, cw, lanes)
           P(k) == PayloadStart(sizes, cw, lanes, k)
<1>3. \A k \in 1..n : /\ ps[k] = (IF sizes[k] > CellWidth(cw, lanes, k) THEN values[k] ELSE <<>>)
                      /\ ps[k] \in Seq(Nat)
                      /\ Len(ps[k]) = Payload(sizes, cw, lanes, k)
  <2> TAKE k \in 1..n
  <2>1. k \in Outlined(sizes, cw, lanes) <=> sizes[k] > CellWidth(cw, lanes, k)
    BY <1>2 DEF Outlined
  <2>2. ps[k] = IF sizes[k] > CellWidth(cw, lanes, k) THEN values[k] ELSE <<>>
    BY <1>1, <1>2, <2>1 DEF PayloadSeq
  <2> HIDE DEF ps
  <2>3. values[k] \in Seq(Nat) /\ Len(values[k]) = sizes[k] /\ <<>> \in Seq(Nat) /\ Len(<<>>) = 0
    BY <1>2
  <2> QED BY <2>2, <2>3 DEF Payload
<1>4. ps \in Seq(Seq(Nat)) /\ Len(ps) = n
  <2>1. ps = [k \in 1..n |-> ps[k]]
    BY <1>1 DEF PayloadSeq
  <2> HIDE DEF ps
  <2>2. \A k \in 1..n : ps[k] \in Seq(Nat)
    BY <1>3
  <2>3. ps \in [1..n -> Seq(Nat)]
    BY <2>1, <2>2, Zenon
  <2> QED BY <2>3
<1>5. \A k \in 1..(n + 1) : P(k) \in Nat /\ P(1) \in Nat /\ P(1) <= P(k)
  <2>1. 1 \in 1..(n + 1)
    OBVIOUS
  <2> QED BY <1>2, <2>1, Places
<1>6. \A k \in 1..n : P(k + 1) = P(k) + Payload(sizes, cw, lanes, k)
  <2> TAKE k \in 1..n
  <2>1. k \in 1..Len(sizes)
    BY <1>2
  <2> HIDE DEF ps, st
  <2>2. P(k + 1) = P(k) + Payload(sizes, cw, lanes, k)
    BY <2>1, PayloadStartStep
  <2> QED BY <2>2
<1>7. st = [k \in 1..(n + 1) |-> P(k) - P(1)]
  BY <1>1, <1>2 DEF PayloadStarts
<1> HIDE DEF P, st, ps
<1>8. st \in [1..(n + 1) -> Nat] /\ \A k \in 1..(n + 1) : st[k] = P(k) - P(1)
  <2>1. \A k \in 1..(n + 1) : P(k) - P(1) \in Nat
    BY <1>5
  <2> QED BY <1>7, <2>1
<1>9. st[1] = 0
  <2>1. 1 \in 1..(n + 1)
    OBVIOUS
  <2> QED BY <1>5, <1>8, <2>1
<1>10. \A k \in 1..n : st[k + 1] = st[k] + Len(ps[k])
  <2> TAKE k \in 1..n
  <2>1. k \in 1..(n + 1) /\ k + 1 \in 1..(n + 1)
    OBVIOUS
  <2>2. PICK x, y, z, l \in Nat : /\ x = P(1) /\ y = P(k) /\ z = P(k + 1) /\ l = Len(ps[k])
    BY <1>3, <1>5, <2>1
  <2>3. z = y + l /\ st[k + 1] = z - x /\ st[k] = y - x
    BY <1>3, <1>6, <1>8, <2>1, <2>2
  <2>4. z - x = (y - x) + l
    BY <2>3
  <2> QED BY <2>2, <2>3, <2>4
<1>11. Starts(st, ps)
  BY <1>4, <1>8, <1>9, <1>10 DEF Starts
<1> QED BY <1>1, <1>4, <1>11 DEF ps, st

\* Layout puts every word in its place.
LEMMA LayoutPlaced ==
  ASSUME NEW lanes, NEW values \in Seq(Seq(Nat)), Len(lanes) \in {1, 2}
  PROVE  Placed(Layout(values, lanes), values, Widths(Sizes(values), lanes), lanes)
<1>1. PICK n \in Nat : n = Len(values)
  OBVIOUS
<1>2. PICK cw \in Seq(1..3) : cw = Widths(Sizes(values), lanes) /\ Shaped(lanes, cw)
  BY WidthsShaped DEF Shaped
<1>3. PICK sizes \in Seq(Nat) : /\ sizes = Sizes(values) /\ Len(sizes) = n
                                /\ \A k \in 1..n : sizes[k] = Len(values[k]) /\ values[k] \in Seq(Nat)
  BY <1>1, SizesType
<1>4. PICK cs, cst :
        cs \in Seq(Seq(Nat)) /\ cs = CellSeq(values, cw, lanes) /\ cst = CellStarts(values, cw, lanes)
        /\ Starts(cst, cs) /\ Len(cs) = n
  BY <1>1, <1>2, CellsStart
<1>5. PICK ps, pst :
        ps \in Seq(Seq(Nat)) /\ ps = PayloadSeq(values, cw, lanes) /\ pst = PayloadStarts(values, cw, lanes)
        /\ Starts(pst, ps) /\ Len(ps) = n
  BY <1>1, <1>2, PayloadsStart
<1>6. PICK h \in Seq(Nat) : h = Header(n, cw) /\ Len(h) = HeaderLength(lanes)
  BY <1>2, HeaderWords
<1>7. PICK a \in Seq(Nat) :
        /\ a = FlattenSeq(cs) /\ Len(a) = cst[n + 1]
        /\ \A k \in 1..n : \A j \in 1..Len(cs[k]) : a[cst[k] + j] = cs[k][j]
  <2>1. FlattenSeq(cs) \in Seq(Nat) /\ Joined(FlattenSeq(cs), cst, cs)
    BY <1>4, FlattenPlaces
  <2> QED BY <1>4, <2>1 DEF Joined
<1>8. PICK b \in Seq(Nat) :
        /\ b = FlattenSeq(ps) /\ Len(b) = pst[n + 1]
        /\ \A k \in 1..n : \A j \in 1..Len(ps[k]) : b[pst[k] + j] = ps[k][j]
  <2>1. FlattenSeq(ps) \in Seq(Nat) /\ Joined(FlattenSeq(ps), pst, ps)
    BY <1>5, FlattenPlaces
  <2> QED BY <1>5, <2>1 DEF Joined
<1>9. Layout(values, lanes) = (h \o a) \o b
  <2>1. Payloads(values, cw, lanes) = b
    BY <1>5, <1>8 DEF Payloads, PayloadSeq
  <2>2. a = FlattenSeq([k \in 1..Len(values) |-> Cell(values, cw, lanes, k)])
    BY <1>4, <1>7 DEF CellSeq
  <2> QED BY <1>1, <1>2, <1>6, <2>1, <2>2 DEF Layout
<1>10. PICK ha \in Seq(Nat) :
         /\ ha = h \o a /\ Len(ha) = Len(h) + Len(a)
         /\ \A p \in 1..Len(h) : ha[p] = h[p]
         /\ \A p \in 1..Len(a) : ha[Len(h) + p] = a[p]
  <2>1. /\ h \o a \in Seq(Nat)
        /\ Len(h \o a) = Len(h) + Len(a)
        /\ \A p \in 1..Len(h) : (h \o a)[p] = h[p]
        /\ \A p \in 1..Len(a) : (h \o a)[Len(h) + p] = a[p]
    BY ConcatPlaces
  <2> QED BY <2>1
<1>11. PICK w \in Seq(Nat) :
         /\ w = ha \o b /\ Len(w) = Len(ha) + Len(b)
         /\ \A p \in 1..Len(ha) : w[p] = ha[p]
         /\ \A p \in 1..Len(b) : w[Len(ha) + p] = b[p]
  <2>1. /\ ha \o b \in Seq(Nat)
        /\ Len(ha \o b) = Len(ha) + Len(b)
        /\ \A p \in 1..Len(ha) : (ha \o b)[p] = ha[p]
        /\ \A p \in 1..Len(b) : (ha \o b)[Len(ha) + p] = b[p]
    BY ConcatPlaces
  <2> QED BY <2>1
<1> DEFINE C(k) == CellStart(cw, lanes, k)
           P(k) == PayloadStart(sizes, cw, lanes, k)
<1>12. \A k \in 1..(n + 1) : /\ C(k) \in Nat /\ P(k) \in Nat /\ P(1) \in Nat /\ P(n + 1) \in Nat
                             /\ P(1) <= P(k) /\ P(k) <= P(n + 1)
  <2>1. 1 \in 1..(n + 1) /\ n + 1 \in 1..(n + 1)
    OBVIOUS
  <2> QED BY <1>2, <1>3, <2>1, Places
<1>13. C(n + 1) = P(1)
  <2>1. PayloadStart(sizes, cw, lanes, 1) = CellStart(cw, lanes, Len(sizes) + 1)
    BY <1>2, PayloadStartStep
  <2> QED BY <1>3, <2>1
<1>14. \A k \in 1..(n + 1) : cst[k] = C(k)
  BY <1>1, <1>4 DEF CellStarts
<1>15. \A k \in 1..(n + 1) : pst[k] = P(k) - P(1)
  BY <1>1, <1>3, <1>5 DEF PayloadStarts
<1>16. Len(w) = HeaderLength(lanes) + P(n + 1)
  <2>1. n + 1 \in 1..(n + 1)
    OBVIOUS
  <2>2. Len(a) = P(1) /\ Len(b) = P(n + 1) - P(1)
    BY <1>7, <1>8, <1>13, <1>14, <1>15, <2>1
  <2>3. P(1) \in Nat /\ P(n + 1) \in Nat /\ HeaderLength(lanes) \in Nat
    BY <1>6, <1>12, <2>1
  <2> HIDE DEF P, C
  <2>4. PICK H, x, y \in Nat : H = HeaderLength(lanes) /\ x = P(1) /\ y = P(n + 1)
    BY <2>3
  <2>5. x <= y /\ Len(a) = x /\ Len(b) = y - x /\ Len(h) = H
    BY <1>6, <1>12, <2>1, <2>2, <2>4
  <2>6. Len(w) = (H + x) + (y - x)
    BY <1>10, <1>11, <2>5
  <2> QED BY <2>4, <2>5, <2>6
<1>17. \A j \in 1..HeaderLength(lanes) : w[j] = h[j]
  <2> TAKE j \in 1..HeaderLength(lanes)
  <2>1. j \in 1..Len(h) /\ j \in 1..Len(ha)
    BY <1>6, <1>10
  <2> QED BY <1>10, <1>11, <2>1
<1>18. ASSUME NEW k \in 1..n, NEW j \in 1..CellWidth(cw, lanes, k)
       PROVE  w[HeaderLength(lanes) + (C(k) + j)] = Cell(values, cw, lanes, k)[j]
  <2>1. cs[k] = Cell(values, cw, lanes, k) /\ Len(cs[k]) = CellWidth(cw, lanes, k)
    BY <1>1, <1>2, <1>4, CellWords DEF CellSeq
  <2>2. k \in 1..(n + 1) /\ C(k) \in Nat /\ cst[k] = C(k)
    BY <1>12, <1>14
  <2>3. a[C(k) + j] = cs[k][j]
    BY <1>7, <2>1, <2>2
  <2>4. C(k) + j \in 1..Len(a)
    <3>0. CellWidth(cw, lanes, k) \in 1..3
      BY <1>1, <1>2, CellWords
    <3>1. k + 1 \in 1..(n + 1) /\ CellWidth(cw, lanes, k) \in 1..3 /\ n + 1 \in 1..(n + 1)
      BY <3>0
    <3>2. cst[k] + Len(cs[k]) <= cst[n + 1]
      <4>1. k \in 1..((n + 1) - 1)
        OBVIOUS
      <4> QED BY <1>4, <3>1, <4>1, StartsGrow
    <3>3. PICK x, y, z \in Nat : x = C(k) /\ y = CellWidth(cw, lanes, k) /\ z = Len(a)
      BY <2>2, <3>1
    <3>4. x + y <= z
      BY <1>7, <2>1, <2>2, <3>2, <3>3
    <3>5. j \in 1..y
      BY <3>3
    <3> HIDE DEF C
    <3>6. x + j \in 1..z
      BY <3>4, <3>5
    <3> QED BY <3>3, <3>6
  <2>5. w[HeaderLength(lanes) + (C(k) + j)] = ha[Len(h) + (C(k) + j)]
    <3>1. Len(h) + (C(k) + j) \in 1..Len(ha)
      BY <1>10, <2>4
    <3> QED BY <1>6, <1>11, <3>1
  <2> QED BY <1>10, <2>1, <2>3, <2>4, <2>5
<1>19. ASSUME NEW k \in 1..n, Len(values[k]) > CellWidth(cw, lanes, k),
              NEW j \in 1..Len(values[k])
       PROVE  w[HeaderLength(lanes) + (P(k) + j)] = values[k][j]
  <2>1. ps[k] = values[k]
    <3>1. k \in Outlined(sizes, cw, lanes)
      BY <1>3, <1>19 DEF Outlined
    <3> QED BY <1>1, <1>3, <1>5, <3>1 DEF PayloadSeq
  <2>2. k \in 1..(n + 1) /\ pst[k] = P(k) - P(1) /\ P(k) \in Nat /\ P(1) \in Nat /\ P(1) <= P(k)
    BY <1>12, <1>15
  <2>3. b[pst[k] + j] = values[k][j]
    BY <1>8, <2>1
  <2>4. pst[k] + j \in 1..Len(b)
    <3>1. n + 1 \in 1..(n + 1) /\ k \in 1..((n + 1) - 1)
      OBVIOUS
    <3>2. pst[k] + Len(ps[k]) <= pst[n + 1]
      BY <1>5, <3>1, StartsGrow
    <3>3. PICK x, y, z \in Nat : x = pst[k] /\ y = Len(values[k]) /\ z = Len(b)
      <4>1. pst[k] \in Nat
        <5>1. PICK x, y \in Nat : x = P(1) /\ y = P(k)
          BY <2>2
        <5>2. x <= y /\ pst[k] = y - x
          BY <2>2, <5>1
        <5> QED BY <5>2
      <4>2. Len(values[k]) \in Nat /\ Len(b) \in Nat
        <5>1. values[k] \in Seq(Nat)
          BY <1>3
        <5> HIDE DEF P
        <5> QED BY <5>1, SMTT(30)
      <4> HIDE DEF P
      <4> QED BY <4>1, <4>2
    <3>4. x + y <= z
      BY <1>8, <2>1, <3>2, <3>3
    <3>5. j \in 1..y
      BY <3>3
    <3>6. x + j \in 1..z
      BY <3>4, <3>5
    <3> QED BY <3>3, <3>6
  <2>5. Len(ha) + (pst[k] + j) = HeaderLength(lanes) + (P(k) + j)
    <3>1. Len(a) = P(1)
      <4>1. n + 1 \in 1..(n + 1)
        OBVIOUS
      <4> QED BY <1>7, <1>13, <1>14, <4>1
    <3>2. PICK x, y, H \in Nat : x = P(1) /\ y = P(k) /\ H = HeaderLength(lanes)
      BY <1>6, <2>2
    <3>3. Len(ha) = H + x /\ pst[k] = y - x /\ j \in Nat
      BY <1>6, <1>10, <2>2, <3>1, <3>2
    <3>4. (H + x) + ((y - x) + j) = H + (y + j)
      BY <3>3
    <3> HIDE DEF P
    <3> QED BY <3>2, <3>3, <3>4
  <2>6. w[Len(ha) + (pst[k] + j)] = b[pst[k] + j]
    BY <1>11, <2>4
  <2> HIDE DEF P
  <2> QED BY <2>3, <2>5, <2>6
<1>20. Placed(w, values, cw, lanes)
  BY <1>1, <1>3, <1>6, <1>16, <1>17, <1>18, <1>19 DEF Placed, BodyLength, CellsPlaced, PayloadsPlaced
<1> QED BY <1>2, <1>9, <1>10, <1>11, <1>20

\* Position p behind the header belongs to a cell, or to a payload.
InCell(p, values, cw, lanes) ==
  \E k \in 1..Len(values) : \E j \in 1..CellWidth(cw, lanes, k) :
    p = CellStart(cw, lanes, k) + j

InPayload(p, values, cw, lanes) ==
  \E k \in 1..Len(values) :
    /\ Len(values[k]) > CellWidth(cw, lanes, k)
    /\ \E j \in 1..Len(values[k]) : p = PayloadStart(Sizes(values), cw, lanes, k) + j

\* Every word behind the header is a word of a cell or of a payload.
LEMMA BodyCovered ==
  ASSUME NEW lanes, NEW cw, NEW values \in Seq(Seq(Nat)), Shaped(lanes, cw)
  PROVE  \A p \in 1..BodyLength(values, cw, lanes) :
           InCell(p, values, cw, lanes) \/ InPayload(p, values, cw, lanes)
<1>1. PICK n \in Nat : n = Len(values)
  OBVIOUS
<1>2. PICK sizes \in Seq(Nat) : /\ sizes = Sizes(values) /\ Len(sizes) = n
                                /\ \A k \in 1..n : sizes[k] = Len(values[k]) /\ values[k] \in Seq(Nat)
  BY <1>1, SizesType
<1>3. PICK cs, cst :
        cs \in Seq(Seq(Nat)) /\ cs = CellSeq(values, cw, lanes) /\ cst = CellStarts(values, cw, lanes)
        /\ Starts(cst, cs) /\ Len(cs) = n
  BY <1>1, CellsStart
<1>4. PICK ps, pst :
        ps \in Seq(Seq(Nat)) /\ ps = PayloadSeq(values, cw, lanes) /\ pst = PayloadStarts(values, cw, lanes)
        /\ Starts(pst, ps) /\ Len(ps) = n
  BY <1>1, PayloadsStart
<1> DEFINE C(k) == CellStart(cw, lanes, k)
           P(k) == PayloadStart(sizes, cw, lanes, k)
<1>5. \A k \in 1..(n + 1) : /\ C(k) \in Nat /\ P(k) \in Nat /\ P(1) \in Nat
                            /\ P(1) <= P(k)
  <2>1. 1 \in 1..(n + 1)
    OBVIOUS
  <2> QED BY <1>2, <2>1, Places
<1>6. C(n + 1) = P(1)
  <2>1. PayloadStart(sizes, cw, lanes, 1) = CellStart(cw, lanes, Len(sizes) + 1)
    BY PayloadStartStep
  <2> QED BY <1>2, <2>1
<1>7. \A k \in 1..(n + 1) : cst[k] = C(k) /\ pst[k] = P(k) - P(1)
  BY <1>1, <1>2, <1>3, <1>4 DEF CellStarts, PayloadStarts
<1>8. \A k \in 1..n : Len(cs[k]) = CellWidth(cw, lanes, k)
  <2> TAKE k \in 1..n
  <2>1. cs[k] = Cell(values, cw, lanes, k)
    BY <1>1, <1>3 DEF CellSeq
  <2>2. Len(Cell(values, cw, lanes, k)) = CellWidth(cw, lanes, k)
    BY <1>1, CellWords
  <2> QED BY <2>1, <2>2
<1>9. \A k \in 1..n : Len(ps[k]) # 0 => ps[k] = values[k] /\ Len(values[k]) > CellWidth(cw, lanes, k)
  <2> TAKE k \in 1..n
  <2>1. ps[k] = IF k \in Outlined(sizes, cw, lanes) THEN values[k] ELSE <<>>
    BY <1>1, <1>2, <1>4 DEF PayloadSeq
  <2>2. k \in Outlined(sizes, cw, lanes) <=> Len(values[k]) > CellWidth(cw, lanes, k)
    BY <1>2 DEF Outlined
  <2>3. Len(<<>>) = 0
    OBVIOUS
  <2> QED BY <2>1, <2>2, <2>3
<1> SUFFICES ASSUME NEW p \in 1..P(n + 1)
             PROVE  \/ \E k \in 1..n : \E j \in 1..CellWidth(cw, lanes, k) : p = C(k) + j
                    \/ \E k \in 1..n : /\ Len(values[k]) > CellWidth(cw, lanes, k)
                                       /\ \E j \in 1..Len(values[k]) : p = P(k) + j
  BY <1>1, <1>2, SMTT(30) DEF BodyLength, InCell, InPayload
<1> HIDE DEF C, P
<1>10. n + 1 \in 1..(n + 1) /\ 1 \in 1..(n + 1)
  OBVIOUS
<1>11. CASE p <= P(1)
  <2>1. p \in 1..cst[Len(cs) + 1]
    BY <1>3, <1>5, <1>6, <1>7, <1>10, <1>11
  <2>2. InPart(cst, cs, p)
    BY <1>3, <2>1, StartsCover
  <2>3. PICK k \in 1..n : \E j \in 1..Len(cs[k]) : p = cst[k] + j
    BY <1>3, <2>2 DEF InPart
  <2>4. k \in 1..(n + 1)
    OBVIOUS
  <2>5. \E j \in 1..CellWidth(cw, lanes, k) : p = C(k) + j
    BY <1>7, <1>8, <2>3, <2>4
  <2> QED BY <2>5
<1>12. CASE ~(p <= P(1))
  <2>1. PICK x, z \in Nat : x = P(1) /\ z = P(n + 1)
    BY <1>5, <1>10
  <2>2. p - x \in 1..(z - x) /\ p = x + (p - x) /\ z - x = pst[n + 1]
    BY <1>7, <1>10, <1>12, <2>1
  <2>3. p - x \in 1..pst[Len(ps) + 1]
    BY <1>4, <2>2
  <2>4. InPart(pst, ps, p - x)
    BY <1>4, <2>3, StartsCover
  <2>5. PICK k \in 1..n : \E j \in 1..Len(ps[k]) : p - x = pst[k] + j
    BY <1>4, <2>4 DEF InPart
  <2>6. PICK j \in 1..Len(ps[k]) : p - x = pst[k] + j
    BY <2>5
  <2>7. Len(ps[k]) # 0
    OBVIOUS
  <2>8. ps[k] = values[k] /\ Len(values[k]) > CellWidth(cw, lanes, k)
    BY <1>9, <2>7
  <2>9. PICK y \in Nat : y = P(k) /\ pst[k] = y - x
    <3>1. k \in 1..(n + 1)
      OBVIOUS
    <3> QED BY <1>5, <1>7, <2>1, <3>1
  <2>10. p = y + j
    <3>1. p \in 1..z /\ x <= p
      BY <1>12, <2>1
    <3>2. j \in Nat
      OBVIOUS
    <3>3. p - x = (y - x) + j
      BY <2>6, <2>9
    <3> QED BY <3>1, <3>2, <3>3
  <2> QED BY <2>8, <2>9, <2>10
<1> QED BY <1>11, <1>12

\* What stands where determines the words.
LEMMA PlacedUnique ==
  ASSUME NEW lanes, NEW cw, NEW values \in Seq(Seq(Nat)), NEW w, NEW v, Shaped(lanes, cw),
         Placed(w, values, cw, lanes), Placed(v, values, cw, lanes)
  PROVE  w = v
<1>1. w \in Seq(Nat) /\ v \in Seq(Nat) /\ Len(w) = Len(v)
  BY DEF Placed
<1>2. PICK H, B \in Nat : H = HeaderLength(lanes) /\ B = BodyLength(values, cw, lanes)
                          /\ Len(w) = H + B
  <2>1. HeaderLength(lanes) \in Nat
    BY HeaderWords
  <2>2. BodyLength(values, cw, lanes) \in Nat
    <3>1. Sizes(values) \in Seq(Nat) /\ Len(Sizes(values)) = Len(values)
      BY SizesType
    <3>2. Len(values) + 1 \in 1..(Len(Sizes(values)) + 1)
      BY <3>1
    <3> QED BY <3>1, <3>2, PayloadStartStep DEF BodyLength
  <2> QED BY <2>1, <2>2 DEF Placed
<1>3. ASSUME NEW i \in 1..Len(w) PROVE w[i] = v[i]
  <2>1. CASE i <= H
    <3>1. i \in 1..H
      BY <2>1
    <3> QED BY <1>2, <3>1 DEF Placed
  <2>2. CASE ~(i <= H)
    <3>1. PICK p \in 1..B : i = H + p
      <4>1. i - H \in 1..B /\ i = H + (i - H)
        BY <1>2, <2>2
      <4> QED BY <4>1
    <3>2. CASE InCell(p, values, cw, lanes)
      <4>1. PICK k \in 1..Len(values) : \E j \in 1..CellWidth(cw, lanes, k) :
                p = CellStart(cw, lanes, k) + j
        BY <3>2 DEF InCell
      <4>2. PICK j \in 1..CellWidth(cw, lanes, k) : p = CellStart(cw, lanes, k) + j
        BY <4>1
      <4> QED BY <1>2, <3>1, <4>2 DEF Placed, CellsPlaced
    <3>3. CASE InPayload(p, values, cw, lanes)
      <4>1. PICK k \in 1..Len(values) :
                /\ Len(values[k]) > CellWidth(cw, lanes, k)
                /\ \E j \in 1..Len(values[k]) :
                     p = PayloadStart(Sizes(values), cw, lanes, k) + j
        BY <3>3 DEF InPayload
      <4>2. PICK j \in 1..Len(values[k]) : p = PayloadStart(Sizes(values), cw, lanes, k) + j
        BY <4>1
      <4> QED BY <1>2, <3>1, <4>1, <4>2, ZenonT(30) DEF Placed, PayloadsPlaced
    <3> QED BY <1>2, <3>1, <3>2, <3>3, BodyCovered
  <2> QED BY <2>1, <2>2
<1> QED BY <1>1, <1>3, SeqEqual

\* The bounds of a slot's cell and payload within the body.
Bounds(c, w, s, k) ==
  /\ CellStart(w, s, k) \in Nat /\ CellWidth(w, s, k) \in 1..3
  /\ CellStart(w, s, k) + CellWidth(w, s, k) <= BodyLength(c, w, s)
  /\ PayloadStart(Sizes(c), w, s, k) \in Nat /\ Len(c[k]) \in Nat
  /\ Len(c[k]) > CellWidth(w, s, k) =>
       PayloadStart(Sizes(c), w, s, k) + Len(c[k]) <= BodyLength(c, w, s)

\* Cells and payloads lie within the body.
LEMMA WithinBody ==
  ASSUME NEW c \in Seq(Seq(Nat)), NEW w, NEW s, Shaped(s, w)
  PROVE  BodyLength(c, w, s) \in Nat /\ \A k \in 1..Len(c) : Bounds(c, w, s, k)
<1>1. PICK n \in Nat : n = Len(c)
  OBVIOUS
<1>2. PICK sizes \in Seq(Nat) : /\ sizes = Sizes(c) /\ Len(sizes) = n
                                /\ \A k \in 1..n : sizes[k] = Len(c[k]) /\ Len(c[k]) \in Nat
  BY <1>1, SizesType
<1>3. PICK B \in Nat : B = BodyLength(c, w, s) /\ B = PayloadStart(sizes, w, s, n + 1)
  <2>1. n + 1 \in 1..(n + 1)
    OBVIOUS
  <2>2. PayloadStart(sizes, w, s, n + 1) \in Nat
    BY <1>2, <2>1, Places
  <2> QED BY <1>1, <1>2, <2>2 DEF BodyLength
<1>4. ASSUME NEW k \in 1..n PROVE Bounds(c, w, s, k)
  <2>1. k \in Nat \ {0} /\ k \in 1..(n + 1) /\ k + 1 \in 1..(n + 1) /\ 1 \in 1..(n + 1)
    OBVIOUS
  <2>2. PICK x, x2 \in Nat : x = CellStart(w, s, k) /\ x2 = CellStart(w, s, k + 1)
    BY <1>2, <2>1, Places
  <2>3. PICK y, y1, y2 \in Nat : /\ y = PayloadStart(sizes, w, s, k)
                                 /\ y1 = PayloadStart(sizes, w, s, 1)
                                 /\ y2 = PayloadStart(sizes, w, s, k + 1)
    BY <1>2, <2>1, Places
  <2>4. x2 <= y1 /\ y1 <= B /\ y2 <= B
    BY <1>2, <1>3, <2>1, <2>2, <2>3, Places
  <2>5. PICK v \in 1..3 : v = CellWidth(w, s, k) /\ x2 = x + v
    BY <2>1, <2>2, LaneOf, CellStartStep
  <2>6. y2 = y + Payload(sizes, w, s, k)
    BY <1>2, <2>3, PayloadStartStep
  <2>7. PICK l \in Nat : l = Len(c[k]) /\ l = sizes[k]
    BY <1>2
  <2>8. l > v => y2 = y + l
    BY <2>5, <2>6, <2>7 DEF Payload
  <2>9. x + v <= B /\ (l > v => y + l <= B)
    BY <2>4, <2>5, <2>8
  <2> QED
    BY <1>2, <1>3, <2>2, <2>3, <2>5, <2>7, <2>9 DEF Bounds
<1> QED
  BY <1>1, <1>3, <1>4

-----------------------------------------------------------------------------
(***************************************************************************)
(* The readers of access.rs over the words of a layout.                    *)
(***************************************************************************)

\* A lane of one-word slots has cells of one word, and one of two-word slots
\* cells of two (best_size of serialize.rs).
LEMMA UniformWidth ==
  ASSUME NEW sizes \in Seq(Nat), NEW lanes, NEW l, NEW v \in {1, 2},
         Slots(sizes, lanes, l) # {}, \A k \in Slots(sizes, lanes, l) : sizes[k] = v
  PROVE  BestWidth(sizes, lanes, l) = v
<1>1. PICK n \in Nat : n = Len(sizes)
  OBVIOUS
<1>2. PICK S \in SUBSET (1..n) : S = Slots(sizes, lanes, l)
  BY <1>1 DEF Slots
<1> DEFINE F(w) == [k \in 1..n |-> w + IF sizes[k] > w THEN sizes[k] ELSE 0]
           T(w) == LaneTotal(sizes, lanes, l, w)
<1>3. \A w : T(w) = SumFunctionOnSet(F(w), S)
  BY <1>1, <1>2 DEF LaneTotal
<1>4. PICK x \in S : TRUE
  BY <1>2
<1>5. \A k \in S : /\ F(1)[k] = (IF v = 1 THEN 1 ELSE 3)
                   /\ F(2)[k] = 2 /\ F(3)[k] = 3
  <2> TAKE k \in S
  <2>1. k \in 1..n /\ sizes[k] = v
    BY <1>2
  <2> QED BY <2>1
<1> HIDE DEF F, T
<1>6. \A k \in S : F(1)[k] \in Nat /\ F(2)[k] \in Nat /\ F(3)[k] \in Nat
  BY <1>5
<1>7. T(1) \in Nat /\ T(2) \in Nat /\ T(3) \in Nat
  BY <1>3, <1>6, SumWithout
<1>10. ASSUME NEW a, NEW b, \A k \in S : F(a)[k] \in Nat /\ F(b)[k] \in Nat /\ F(a)[k] < F(b)[k]
       PROVE  T(a) < T(b)
  <2>1. \A k \in S : F(a)[k] \in Nat /\ F(b)[k] \in Nat /\ F(a)[k] <= F(b)[k]
    BY <1>10
  <2>2. F(a)[x] < F(b)[x]
    BY <1>4, <1>10
  <2>3. SumFunctionOnSet(F(a), S) < SumFunctionOnSet(F(b), S)
    BY <1>4, <2>1, <2>2, SumLess
  <2> QED BY <1>3, <2>3
<1>8. CASE v = 1
  <2>1. T(1) < T(2) /\ T(1) < T(3)
    BY <1>5, <1>8, <1>10
  <2>2. ~(T(2) < T(1)) /\ ~(T(3) < T(1))
    BY <1>7, <2>1
  <2> QED BY <1>8, <2>2 DEF BestWidth, T
<1>9. CASE v = 2
  <2>1. T(2) < T(1) /\ T(2) < T(3)
    BY <1>5, <1>9, <1>10
  <2>2. T(2) < T(1) /\ ~(T(3) < T(2))
    BY <1>7, <2>1
  <2> QED BY <1>9, <2>2 DEF BestWidth, T
<1> QED BY <1>8, <1>9

\* An array's header word holds its length above its width.
LEMMA ArrayHeaderArithmetic ==
  \A n \in Nat, a \in 0..3 : (n * 4 + a) \div 4 = n /\ (n * 4 + a) % 4 = a
OBVIOUS

\* The widths of a map are told apart in the first word of its index.
LEMMA MapHeaderArithmetic ==
  ASSUME NEW m \in Nat, NEW a \in 1..3, NEW b \in 1..3, NEW x, x = m * 16 + a * 4 + b
  PROVE  x \div 16 = m /\ (x \div 4) % 4 = a /\ x % 4 = b
<1>1. x = (m * 4 + a) * 4 + b
  OBVIOUS
<1>2. x \div 4 = m * 4 + a /\ x % 4 = b
  BY <1>1, ArrayHeaderArithmetic
<1>3. (m * 4 + a) % 4 = a
  BY ArrayHeaderArithmetic
<1>4. PICK y \in 0..15 : y = a * 4 + b
  OBVIOUS
<1>5. (m * 16 + y) \div 16 = m
  OBVIOUS
<1> QED BY <1>2, <1>3, <1>4, <1>5

\* The views read the number of slots and the widths back from the header.
LEMMA HeaderReads ==
  ASSUME NEW n \in Nat, NEW lanes, NEW w, Shaped(lanes, w), n % Len(lanes) = 0,
         NEW words, words[1] = Header(n, w)[1]
  PROVE  ReadCount(words, lanes) = n /\ ReadWidths(words, lanes) = w
<1>0. w \in Seq(1..3) /\ Len(w) = Len(lanes)
  BY DEF Shaped
<1>1. CASE Len(lanes) = 1
  <2>1. PICK a \in 1..3 : a = w[1]
    BY ONLY <1>0, <1>1, SMTT(30)
  <2>2. words[1] = n * 4 + a
    BY <1>1, <2>1, HeaderWords
  <2>3. w = <<a>>
    <3>1. w \in Seq(1..3) /\ Len(w) = 1
      BY <1>1 DEF Shaped
    <3>2. w = [j \in 1..1 |-> w[j]]
      BY <3>1
    <3> QED BY <2>1, <3>2
  <2> QED BY <1>1, <2>2, <2>3, ArrayHeaderArithmetic DEF ReadCount, ReadWidths
<1>2. CASE Len(lanes) = 2
  <2>1. PICK a, b \in 1..3 : a = w[1] /\ b = w[2]
    BY <1>2, SMTT(30) DEF Shaped
  <2>2. PICK m \in Nat : m = n \div 2 /\ 2 * m = n
    BY <1>2
  <2>3. words[1] = m * 16 + a * 4 + b
    <3>1. Header(n, w)[1] = IF Len(lanes) = 1 THEN n * 4 + w[1] ELSE (n \div 2) * 16 + w[1] * 4 + w[2]
      BY HeaderWords
    <3> QED BY <1>2, <2>1, <2>2, <3>1
  <2>4. w = <<a, b>>
    BY <1>2, <2>1 DEF Shaped
  <2>5. words[1] \div 16 = m /\ (words[1] \div 4) % 4 = a /\ words[1] % 4 = b
    <3>1. PICK x : x = m * 16 + a * 4 + b
      OBVIOUS
    <3>2. x \div 16 = m /\ (x \div 4) % 4 = a /\ x % 4 = b
      BY ONLY <3>1, MapHeaderArithmetic, m \in Nat, a \in 1..3, b \in 1..3
    <3> QED BY ONLY <2>3, <3>1, <3>2
  <2> QED BY <1>2, <2>2, <2>4, <2>5 DEF ReadCount, ReadWidths
<1> QED BY <1>1, <1>2 DEF Shaped

\* What a slot of the kind may hold so that its accessor finds it again: as
\* many words as the cell when it is a scalar, and, when it is an object short
\* enough for a cell, no word that looks like an offset in front.
Suited(value, kind, width) ==
  IF kind = "object" THEN value # <<>> /\ (Len(value) <= 3 => ~IsOffset(value[1]))
                     ELSE Len(value) = width

\* An offset word is told from others and read back.
LEMMA OffsetReads ==
  \A d \in Nat : IsOffset(Offset(d)) /\ Offset(d) \div 4 = d /\ Offset(d) \in Nat
BY DEF IsOffset, Offset

\* An object in its cell is found where the cell begins.
LEMMA InlineReads ==
  ASSUME NEW slice \in Seq(Nat), NEW m \in Nat, NEW value \in Seq(Nat),
         value # <<>>, ~IsOffset(value[1]),
         m + Len(value) <= Len(slice), \A j \in 1..Len(value) : slice[m + j] = value[j]
  PROVE  IsPrefix(value, ObjectWords(SubSeq(slice, m + 1, Len(slice))))
<1>1. PICK l, n \in Nat : l = Len(value) /\ n = Len(slice) /\ m <= n /\ l <= n - m /\ 1 \in 1..l
  BY EmptySeq
<1>2. PICK t \in Seq(Nat) : t = SubSeq(slice, m + 1, n) /\ \A j \in 1..(n - m) : t[j] = slice[m + j]
  BY <1>1, TailWords
<1>3. t[1] = value[1]
  BY <1>1, <1>2
<1>4. ObjectWords(t) = t
  BY <1>3 DEF ObjectWords
<1>5. IsPrefix(value, SubSeq(slice, m + 1, Len(slice)))
  BY PrefixAt
<1> QED BY <1>1, <1>2, <1>4, <1>5

\* An object outside its cell is found where the offset in the cell leads.
LEMMA OutlinedReads ==
  ASSUME NEW slice \in Seq(Nat), NEW m \in Nat, NEW d \in Nat, NEW value \in Seq(Nat),
         m < Len(slice), slice[m + 1] = Offset(d),
         (m + d) + Len(value) <= Len(slice),
         \A j \in 1..Len(value) : slice[(m + d) + j] = value[j]
  PROVE  IsPrefix(value, ObjectWords(SubSeq(slice, m + 1, Len(slice))))
<1>0. PICK n, e \in Nat : n = Len(slice) /\ e = m + d /\ Len(value) \in Nat
  OBVIOUS
<1>1. n = Len(slice) /\ e = m + d /\ m <= n /\ e <= n /\ 1 \in 1..(n - m)
  BY <1>0
<1>2. PICK t \in Seq(Nat) : t = SubSeq(slice, m + 1, n) /\ \A j \in 1..(n - m) : t[j] = slice[m + j]
  BY <1>1, TailWords
<1>3. t[1] = Offset(d)
  BY <1>1, <1>2
<1>4. ObjectWords(t) = SubSeq(t, d + 1, Len(t))
  <2>1. IsOffset(t[1]) /\ t[1] \div 4 = d
    BY <1>3, OffsetReads
  <2> QED BY <2>1 DEF ObjectWords
<1>5. SubSeq(t, d + 1, Len(t)) = SubSeq(slice, e + 1, n)
  <2>1. m + d <= Len(slice) /\ t = SubSeq(slice, m + 1, Len(slice))
    BY <1>1, <1>2
  <2>2. SubSeq(t, d + 1, Len(t)) = SubSeq(slice, (m + d) + 1, Len(slice))
    BY <2>1, TailOfTail
  <2> QED BY <1>1, <2>2
<1>6. IsPrefix(value, SubSeq(slice, e + 1, n))
  BY <1>1, PrefixAt
<1> QED BY <1>1, <1>2, <1>4, <1>5, <1>6

\* Where a slot's cell and payload are within such a slice.
SlotPlaced(slice, c, w, s, k) ==
  LET m == HeaderLength(s) + CellStart(w, s, k)
      d == PayloadStart(Sizes(c), w, s, k) - CellStart(w, s, k)
      v == CellWidth(w, s, k)
      l == Len(c[k])
  IN  /\ m \in Nat /\ d \in Nat /\ l \in Nat /\ v \in 1..3
      /\ m + v <= Len(slice)
      /\ l <= v => \A j \in 1..l : slice[m + j] = c[k][j]
      /\ l > v => /\ slice[m + 1] = Offset(d)
                  /\ (m + d) + l <= Len(slice)
                  /\ \A j \in 1..l : slice[(m + d) + j] = c[k][j]

\* Where the words of a cell and of a payload are behind a header of H words.
CellBehind(H, C, v, B, L) ==
  /\ (H + C) + v <= L
  /\ \A j \in 1..v : (H + C) + j = H + (C + j) /\ H + (C + j) \in 1..(H + B)

PayloadBehind(H, C, P, l, B, L) ==
  /\ ((H + C) + (P - C)) + l <= L
  /\ \A j \in 1..l : /\ ((H + C) + (P - C)) + j = H + (P + j)
                     /\ H + (P + j) \in 1..(H + B)

\* Both are within the body.
LEMMA BehindHeader ==
  \A H, C, P, B, L, v, l \in Nat : H + B <= L =>
    /\ C + v <= B => CellBehind(H, C, v, B, L)
    /\ P + l <= B => PayloadBehind(H, C, P, l, B, L)
BY DEF CellBehind, PayloadBehind

\* In a slice that begins with a layout every slot is in its place.
LEMMA SlotsPlaced ==
  ASSUME NEW c \in Seq(Seq(Nat)), NEW s, NEW w, NEW words, NEW slice, NEW k \in 1..Len(c),
         Shaped(s, w), Placed(words, c, w, s), Continues(slice, words)
  PROVE  SlotPlaced(slice, c, w, s, k)
<1>1. PICK value \in Seq(Nat), l \in Nat : value = c[k] /\ l = Len(value)
  OBVIOUS
<1>2. PICK H \in Nat : H = HeaderLength(s)
  BY HeaderWords
<1>3. Bounds(c, w, s, k) /\ BodyLength(c, w, s) \in Nat
  BY WithinBody
<1>4. PICK C, P, B \in Nat, v \in 1..3 :
        /\ C = CellStart(w, s, k) /\ P = PayloadStart(Sizes(c), w, s, k) /\ B = BodyLength(c, w, s)
        /\ v = CellWidth(w, s, k) /\ C + v <= B /\ (l > v => P + l <= B)
  BY <1>1, <1>3 DEF Bounds
<1>5. P - C \in Nat
  BY <1>4, CellWords
<1>6. PICK L \in Nat : L = Len(slice) /\ H + B <= L /\ \A p \in 1..(H + B) : slice[p] = words[p]
  <2>1. Len(words) = H + B
    BY <1>2, <1>4 DEF Placed
  <2> QED BY <2>1 DEF Continues
<1>7. CellBehind(H, C, v, B, L) /\ (l > v => PayloadBehind(H, C, P, l, B, L))
  <2>1. v \in Nat /\ C + v <= B /\ (l > v => P + l <= B) /\ H + B <= L
    BY <1>4, <1>6, SMTT(30)
  <2>2. CellBehind(H, C, v, B, L)
    BY <2>1, BehindHeader
  <2>3. ASSUME l > v PROVE PayloadBehind(H, C, P, l, B, L)
    BY <2>1, <2>3, BehindHeader
  <2> QED BY <2>2, <2>3
<1>8. PICK cell : cell = Cell(c, w, s, k)
  OBVIOUS
<1>9. \A j \in 1..v : words[H + (C + j)] = cell[j]
  BY <1>2, <1>4, <1>8 DEF Placed, CellsPlaced
<1>10. \A j \in 1..v : slice[(H + C) + j] = cell[j]
  <2> TAKE j \in 1..v
  <2>1. (H + C) + j = H + (C + j) /\ H + (C + j) \in 1..(H + B)
    BY <1>7 DEF CellBehind
  <2>2. slice[H + (C + j)] = words[H + (C + j)]
    BY <1>6, <2>1
  <2> QED BY <1>9, <2>1, <2>2
<1>11. l <= v => \A j \in 1..l : slice[(H + C) + j] = value[j]
  <2> SUFFICES ASSUME l <= v, NEW j \in 1..l PROVE slice[(H + C) + j] = value[j]
    OBVIOUS
  <2>1. cell = Pad(value, v)
    BY <1>1, <1>4, <1>8 DEF Cell
  <2>2. j \in 1..v /\ j <= Len(value)
    BY <1>1
  <2>3. cell[j] = value[j]
    BY <2>1, <2>2 DEF Pad
  <2> QED BY <1>10, <2>2, <2>3
<1>12. l > v => slice[(H + C) + 1] = Offset(P - C)
  <2> SUFFICES ASSUME l > v PROVE slice[(H + C) + 1] = Offset(P - C)
    OBVIOUS
  <2>1. cell = Pad(<<Offset(P - C)>>, v)
    BY <1>1, <1>4, <1>8, SMTT(30) DEF Cell
  <2>2. 1 \in 1..v
    BY <1>4, SMTT(30)
  <2>3. cell[1] = Offset(P - C)
    BY <2>1, <2>2 DEF Pad
  <2> QED BY <1>10, <2>2, <2>3
<1>13. l > v => \A j \in 1..l : slice[((H + C) + (P - C)) + j] = value[j]
  <2> SUFFICES ASSUME l > v, NEW j \in 1..l PROVE slice[((H + C) + (P - C)) + j] = value[j]
    OBVIOUS
  <2>1. ((H + C) + (P - C)) + j = H + (P + j) /\ H + (P + j) \in 1..(H + B)
    BY <1>7 DEF PayloadBehind
  <2>2. words[H + (P + j)] = value[j]
    BY <1>1, <1>2, <1>4 DEF Placed, PayloadsPlaced
  <2>3. slice[H + (P + j)] = words[H + (P + j)]
    BY <1>6, <2>1
  <2> QED BY <2>1, <2>2, <2>3
<1>14. H + C \in Nat
  BY <1>2, <1>4, SMTT(30)
<1>15. (H + C) + v <= L /\ (l > v => ((H + C) + (P - C)) + l <= L)
  BY <1>7 DEF CellBehind, PayloadBehind
<1> QED
  BY <1>1, <1>2, <1>4, <1>5, <1>6, <1>11, <1>12, <1>13, <1>14, <1>15 DEF SlotPlaced

\* Within the words of a layout every accessor finds its slot's words.
LEMMA SlotReads ==
  ASSUME NEW c \in Seq(Seq(Nat)), NEW s, NEW w, NEW slice \in Seq(Nat), NEW k \in 1..Len(c),
         SlotPlaced(slice, c, w, s, k), ReadWidths(slice, s) = w,
         Suited(c[k], s[Lane(s, k)], CellWidth(w, s, k))
  PROVE  Reads(slice, s, k, c[k])
<1>1. PICK value \in Seq(Nat), l \in Nat : value = c[k] /\ l = Len(value)
  OBVIOUS
<1>2. PICK m, d \in Nat, v \in 1..3 :
        /\ m = HeaderLength(s) + CellStart(w, s, k)
        /\ d = PayloadStart(Sizes(c), w, s, k) - CellStart(w, s, k)
        /\ v = CellWidth(w, s, k)
        /\ m + v <= Len(slice)
        /\ l <= v => \A j \in 1..l : slice[m + j] = value[j]
        /\ l > v => /\ slice[m + 1] = Offset(d)
                    /\ (m + d) + l <= Len(slice)
                    /\ \A j \in 1..l : slice[(m + d) + j] = value[j]
  <2>1. PICK m, d \in Nat, v \in 1..3 : /\ m = HeaderLength(s) + CellStart(w, s, k)
                                        /\ d = PayloadStart(Sizes(c), w, s, k) - CellStart(w, s, k)
                                        /\ v = CellWidth(w, s, k)
    BY DEF SlotPlaced
  <2>2. /\ m + v <= Len(slice)
        /\ Len(c[k]) <= v => \A j \in 1..Len(c[k]) : slice[m + j] = c[k][j]
        /\ Len(c[k]) > v => /\ slice[m + 1] = Offset(d)
                            /\ (m + d) + Len(c[k]) <= Len(slice)
                            /\ \A j \in 1..Len(c[k]) : slice[(m + d) + j] = c[k][j]
    <3> DEFINE H == HeaderLength(s)
               C == CellStart(w, s, k)
               P == PayloadStart(Sizes(c), w, s, k)
    <3>1. /\ (H + C) + v <= Len(slice)
          /\ Len(c[k]) <= v => \A j \in 1..Len(c[k]) : slice[(H + C) + j] = c[k][j]
          /\ Len(c[k]) > v => /\ slice[(H + C) + 1] = Offset(P - C)
                              /\ ((H + C) + (P - C)) + Len(c[k]) <= Len(slice)
                              /\ \A j \in 1..Len(c[k]) : slice[((H + C) + (P - C)) + j] = c[k][j]
      BY <2>1 DEF SlotPlaced
    <3>2. m = H + C /\ d = P - C
      BY <2>1
    <3> QED BY <3>1, <3>2
  <2>3. /\ m + v <= Len(slice)
        /\ l <= v => \A j \in 1..l : slice[m + j] = value[j]
        /\ l > v => /\ slice[m + 1] = Offset(d)
                    /\ (m + d) + l <= Len(slice)
                    /\ \A j \in 1..l : slice[(m + d) + j] = value[j]
    BY ONLY <1>1, <2>2
  <2> QED BY ONLY <2>1, <2>3
<1>3. FieldTail(slice, s, k) = SubSeq(slice, m + 1, Len(slice))
  BY <1>2 DEF FieldTail, FieldStart
<1>4. CASE s[Lane(s, k)] # "object"
  <2>1. l = v /\ l <= v
    BY <1>1, <1>2, <1>4 DEF Suited
  <2>2. RawWords(slice, s, k) = SubSeq(SubSeq(slice, m + 1, Len(slice)), 1, Len(value))
    BY <1>1, <1>2, <1>3, <2>1 DEF RawWords
  <2>3. m + Len(value) <= Len(slice) /\ \A j \in 1..Len(value) : slice[m + j] = value[j]
    BY <1>1, <1>2, <2>1
  <2>4. RawWords(slice, s, k) = value
    BY <2>2, <2>3, RawReads
  <2> QED BY <1>1, <1>4, <2>4 DEF Reads
<1>5. CASE s[Lane(s, k)] = "object" /\ l <= v
  <2>0. Len(value) <= 3
    BY ONLY <1>1, <1>5, v \in 1..3, l \in Nat
  <2>1. value # <<>> /\ ~IsOffset(value[1])
    BY <1>1, <1>5, <2>0 DEF Suited
  <2>2. m + Len(value) <= Len(slice) /\ \A j \in 1..Len(value) : slice[m + j] = value[j]
    BY <1>1, <1>2, <1>5, SMTT(30)
  <2>3. IsPrefix(value, ObjectWords(SubSeq(slice, m + 1, Len(slice))))
    BY <2>1, <2>2, InlineReads
  <2> QED BY <1>1, <1>3, <1>5, <2>3 DEF Reads
<1>6. CASE s[Lane(s, k)] = "object" /\ l > v
  <2>1. m < Len(slice)
    BY <1>2, SMTT(30)
  <2>2. /\ slice[m + 1] = Offset(d) /\ (m + d) + Len(value) <= Len(slice)
        /\ \A j \in 1..Len(value) : slice[(m + d) + j] = value[j]
    BY <1>1, <1>2, <1>6
  <2>3. IsPrefix(value, ObjectWords(SubSeq(slice, m + 1, Len(slice))))
    BY <2>1, <2>2, OutlinedReads
  <2> QED BY <1>1, <1>3, <1>6, <2>3 DEF Reads
<1>7. l <= v \/ l > v
  BY <1>1, <1>2
<1> QED BY <1>4, <1>5, <1>6, <1>7

\* What is told apart of the values of each kind: a scalar takes one word, a
\* wide one two, and an object short enough for a cell does not begin with a
\* word that reads as an offset.
OfKind(value, kind) ==
  /\ kind \in Kinds
  /\ kind = "scalar" => Len(value) = 1
  /\ kind = "wide" => Len(value) = 2
  /\ kind = "object" => value # <<>> /\ (Len(value) <= 3 => ~IsOffset(value[1]))

\* Every slot holds a value of its lane's kind.
AllOfKind(c, s) == \A k \in 1..Len(c) : OfKind(c[k], s[Lane(s, k)])

\* The cells of a lane of scalars are as wide as its values.
LEMMA ValuesSuited ==
  ASSUME NEW c \in Seq(Seq(Nat)), NEW s, Len(s) \in {1, 2}, AllOfKind(c, s), NEW k \in 1..Len(c)
  PROVE  Suited(c[k], s[Lane(s, k)], CellWidth(Widths(Sizes(c), s), s, k))
<1>1. PICK sizes \in Seq(Nat) : /\ sizes = Sizes(c) /\ Len(sizes) = Len(c)
                                /\ \A j \in 1..Len(c) : sizes[j] = Len(c[j])
  BY SizesType
<1>2. PICK l \in 1..Len(s) : l = Lane(s, k)
  <2>1. Shaped(s, Widths(Sizes(c), s)) /\ k \in Nat \ {0}
    BY WidthsShaped
  <2> QED BY <2>1, LaneOf
<1>3. OfKind(c[k], s[l])
  BY <1>2 DEF AllOfKind
<1>4. CellWidth(Widths(sizes, s), s, k) = BestWidth(sizes, s, l)
  BY <1>2 DEF CellWidth, Widths
<1>5. k \in Slots(sizes, s, l)
  BY <1>1, <1>2 DEF Slots
<1>6. ASSUME NEW j \in Slots(sizes, s, l) PROVE OfKind(c[j], s[l]) /\ sizes[j] = Len(c[j])
  <2>1. j \in 1..Len(c) /\ Lane(s, j) = l
    BY <1>1 DEF Slots
  <2> QED BY <1>1, <2>1 DEF AllOfKind
<1>7. CASE s[l] = "object"
  BY <1>2, <1>3, <1>7 DEF Suited, OfKind
<1>8. CASE s[l] = "scalar"
  <2>1. \A j \in Slots(sizes, s, l) : sizes[j] = 1
    BY <1>6, <1>8 DEF OfKind
  <2>2. BestWidth(sizes, s, l) = 1
    BY <1>5, <2>1, UniformWidth
  <2>3. Len(c[k]) = 1
    BY <1>3, <1>8 DEF OfKind
  <2> QED BY <1>1, <1>2, <1>4, <1>8, <2>2, <2>3 DEF Suited
<1>9. CASE s[l] = "wide"
  <2>1. \A j \in Slots(sizes, s, l) : sizes[j] = 2
    BY <1>6, <1>9 DEF OfKind
  <2>2. BestWidth(sizes, s, l) = 2
    BY <1>5, <2>1, UniformWidth
  <2>3. Len(c[k]) = 2
    BY <1>3, <1>9 DEF OfKind
  <2> QED BY <1>1, <1>2, <1>4, <1>9, <2>2, <2>3 DEF Suited
<1> QED BY <1>3, <1>7, <1>8, <1>9 DEF OfKind, Kinds

\* Whatever follows an array or map in its slice, the views find the number of
\* its slots and every slot's words (access.rs).
LEMMA LayoutReads ==
  ASSUME NEW c \in Seq(Seq(Nat)), NEW s, Len(s) \in {1, 2}, Len(c) % Len(s) = 0,
         AllOfKind(c, s), NEW rest \in Seq(Nat)
  PROVE  /\ ReadCount(Layout(c, s) \o rest, s) = Len(c)
         /\ \A k \in 1..Len(c) : Reads(Layout(c, s) \o rest, s, k, c[k])
<1>1. PICK w : w = Widths(Sizes(c), s) /\ Shaped(s, w)
  BY WidthsShaped
<1>2. PICK words \in Seq(Nat) : words = Layout(c, s) /\ Placed(words, c, w, s)
  <2>1. Placed(Layout(c, s), c, w, s)
    BY <1>1, LayoutPlaced
  <2> QED BY <2>1 DEF Placed
<1>3. PICK slice \in Seq(Nat) : slice = words \o rest /\ Continues(slice, words)
  <2>1. /\ words \o rest \in Seq(Nat) /\ Len(words \o rest) = Len(words) + Len(rest)
        /\ \A p \in 1..Len(words) : (words \o rest)[p] = words[p]
    BY ConcatPlaces
  <2>2. Len(words) <= Len(words) + Len(rest)
    OBVIOUS
  <2> QED BY <2>1, <2>2 DEF Continues
<1>4. slice[1] = Header(Len(c), w)[1]
  <2>0. Len(c) \in Nat
    OBVIOUS
  <2>1. PICK H \in Nat \ {0} : H = HeaderLength(s) /\ 1 \in 1..H
    <3>1. HeaderLength(s) \in Nat \ {0}
      BY <1>1, <2>0, HeaderWords
    <3> QED BY ONLY <3>1
  <2>2. PICK B \in Nat : B = BodyLength(c, w, s)
    BY <1>1, WithinBody
  <2>3. Len(words) = H + B /\ words[1] = Header(Len(c), w)[1]
    BY <1>2, <2>1, <2>2 DEF Placed
  <2>4. 1 \in 1..Len(words)
    BY <2>1, <2>2, <2>3
  <2> QED BY <1>3, <2>3, <2>4 DEF Continues
<1>5. ReadCount(slice, s) = Len(c) /\ ReadWidths(slice, s) = w
  <2>1. PICK n \in Nat : n = Len(c)
    OBVIOUS
  <2>2. Shaped(s, w) /\ n % Len(s) = 0 /\ slice[1] = Header(n, w)[1]
    BY <1>1, <1>4, <2>1
  <2>3. ReadCount(slice, s) = n /\ ReadWidths(slice, s) = w
    BY ONLY <2>2, n \in Nat, HeaderReads
  <2> QED BY <2>1, <2>3
<1>6. ASSUME NEW k \in 1..Len(c) PROVE Reads(slice, s, k, c[k])
  <2>1. SlotPlaced(slice, c, w, s, k)
    BY <1>1, <1>2, <1>3, SlotsPlaced
  <2>2. Suited(c[k], s[Lane(s, k)], CellWidth(w, s, k))
    BY <1>1, ValuesSuited
  <2> QED BY <1>5, <2>1, <2>2, SlotReads
<1> QED BY <1>2, <1>3, <1>5, <1>6

\* The words of a container are as many as were compared with the limit (an
\* array's header word apart), and every offset among them is smaller.
LEMMA LayoutExtent ==
  ASSUME NEW c \in Seq(Seq(Nat)), NEW s, Len(s) \in {1, 2}, Len(c) % Len(s) = 0, AllOfKind(c, s)
  PROVE  /\ Len(Layout(c, s)) = EncodedSize(Sizes(c), s) + (IF Len(s) = 1 THEN 1 ELSE 0)
         /\ EncodedSize(Sizes(c), s) \in Nat
         /\ \A k \in 1..Len(c) :
              LET first == Layout(c, s)[FieldStart(Layout(c, s), s, k) + 1]
              IN  s[Lane(s, k)] = "object" /\ IsOffset(first)
                    => first \div 4 \in Nat /\ first \div 4 < EncodedSize(Sizes(c), s)
<1>1. PICK w : w = Widths(Sizes(c), s) /\ Shaped(s, w)
  BY WidthsShaped
<1>2. PICK words \in Seq(Nat) : words = Layout(c, s) /\ Placed(words, c, w, s)
  <2>1. Placed(Layout(c, s), c, w, s)
    BY <1>1, LayoutPlaced
  <2> QED BY <2>1 DEF Placed
<1>3. PICK B \in Nat : B = BodyLength(c, w, s) /\ \A k \in 1..Len(c) : Bounds(c, w, s, k)
  BY <1>1, WithinBody
<1>4. PICK H, T \in Nat : H = HeaderLength(s) /\ T = Len(IndexTail) /\ H # 0
  BY <1>1, HeaderWords, IndexTailAssumption
<1>5. PICK E : /\ E = EncodedSize(Sizes(c), s) /\ E = B + (IF Len(s) = 2 THEN 1 + T ELSE 0)
  <2>1. Sizes(c) \in Seq(Nat) /\ Len(Sizes(c)) = Len(c)
    BY SizesType
  <2> QED BY <1>1, <1>3, <1>4, <2>1, EncodedSizeIs DEF BodyLength
<1>6. H = IF Len(s) = 1 THEN 1 ELSE 1 + T
  BY <1>4 DEF HeaderLength
<1>7. Len(words) = H + B
  BY <1>2, <1>3, <1>4 DEF Placed
<1>8. E \in Nat /\ Len(words) = E + (IF Len(s) = 1 THEN 1 ELSE 0) /\ B <= E
  <2>1. Len(s) = 1 \/ Len(s) = 2
    OBVIOUS
  <2>2. B \in Nat /\ T \in Nat
    OBVIOUS
  <2>3. CASE Len(s) = 1
    <3>1. E = B /\ H = 1
      BY ONLY <1>5, <1>6, <2>2, <2>3
    <3> QED BY ONLY <1>7, <2>2, <2>3, <3>1
  <2>4. CASE Len(s) = 2
    <3>1. E = B + (1 + T) /\ H = 1 + T
      BY ONLY <1>5, <1>6, <2>2, <2>4
    <3> QED BY ONLY <1>7, <2>2, <2>4, <3>1
  <2> QED BY <2>1, <2>3, <2>4
<1>9. words[1] = Header(Len(c), w)[1] /\ Continues(words, words)
  <2>1. 1 \in 1..H
    BY <1>4
  <2> QED BY <1>2, <1>4, <2>1 DEF Placed, Continues
<1>10. ReadWidths(words, s) = w
  <2>1. Len(c) \in Nat
    OBVIOUS
  <2> QED BY <1>1, <1>9, <2>1, HeaderReads
<1>11. ASSUME NEW k \in 1..Len(c), s[Lane(s, k)] = "object",
              IsOffset(words[FieldStart(words, s, k) + 1])
       PROVE  words[FieldStart(words, s, k) + 1] \div 4 < E
              /\ words[FieldStart(words, s, k) + 1] \div 4 \in Nat
  <2>1. SlotPlaced(words, c, w, s, k)
    BY <1>1, <1>2, <1>9, SlotsPlaced
  <2>2. PICK value \in Seq(Nat), l \in Nat : value = c[k] /\ l = Len(value)
    OBVIOUS
  <2>3. PICK C, P \in Nat, v \in 1..3 : /\ C = CellStart(w, s, k)
                                        /\ P = PayloadStart(Sizes(c), w, s, k)
                                        /\ v = CellWidth(w, s, k)
                                        /\ l > v => P + l <= B
    BY <1>3, <2>2 DEF Bounds
  <2>4. FieldStart(words, s, k) = H + C
    BY <1>4, <1>10, <2>3 DEF FieldStart
  <2>5. OfKind(value, "object")
    BY <1>11, <2>2 DEF AllOfKind
  <2>6. CASE l <= v
    <3>1. l \in 1..l /\ 1 \in 1..l /\ Len(value) <= 3
      BY <2>2, <2>3, <2>5, <2>6, EmptySeq, SMTT(30) DEF OfKind
    <3>2. words[(H + C) + 1] = value[1]
      BY <1>4, <2>1, <2>2, <2>3, <2>6, <3>1 DEF SlotPlaced
    <3>3. ~IsOffset(value[1])
      BY <2>5, <3>1 DEF OfKind
    <3> QED BY <1>11, <2>4, <3>2, <3>3
  <2>7. CASE l > v
    <3>1. words[(H + C) + 1] = Offset(P - C) /\ P - C \in Nat
      BY <1>4, <2>1, <2>2, <2>3, <2>7 DEF SlotPlaced
    <3>2. words[(H + C) + 1] \div 4 = P - C
      BY <3>1, OffsetReads
    <3>3. P - C < E
      <4>1. l \in Nat /\ v \in Nat /\ C \in Nat /\ P \in Nat /\ B \in Nat /\ P + l <= B
        BY <2>3, <2>7, SMTT(30)
      <4> QED BY ONLY <1>8, <2>7, <4>1
    <3> QED BY <2>4, <3>1, <3>2, <3>3
  <2>8. l <= v \/ l > v
    BY <2>2, <2>3
  <2> QED BY <2>6, <2>7, <2>8
<1> QED BY <1>2, <1>5, <1>8, <1>11

-----------------------------------------------------------------------------
(***************************************************************************)
(* The body of a container, cells and payloads, stands in a buffer in      *)
(* front of `low` other words.                                             *)
(***************************************************************************)
BodyIn(b, low, c, w, s) ==
  \A k \in 1..Len(c) :
    /\ ReadAt(b, low + (BodyLength(c, w, s) - CellStart(w, s, k)), CellWidth(w, s, k))
         = Cell(c, w, s, k)
    /\ Len(c[k]) > CellWidth(w, s, k) =>
         ReadAt(b, low + (BodyLength(c, w, s) - PayloadStart(Sizes(c), w, s, k)), Len(c[k])) = c[k]

\* A position counted from the front of the body, and from the end of the buffer.
LEMMA FromFront ==
  \A low, B, H, x, l, j \in Nat : x + l <= B /\ j \in 1..l =>
    /\ H + (x + j) \in 1..(H + B)
    /\ (low + B + H) - (H + (x + j)) + 1 = (low + (B - x)) - j + 1
    /\ l <= low + (B - x) /\ low + (B - x) \in Nat
    /\ \A p \in ((low + (B - x)) - l + 1)..(low + (B - x)) : p \in 1..(low + B)
OBVIOUS

\* The body stays when words are put before it.
LEMMA BodyStays ==
  ASSUME NEW c \in Seq(Seq(Nat)), NEW w, NEW s, NEW b, NEW d, NEW low \in Nat,
         Shaped(s, w), BodyIn(b, low, c, w, s),
         \A p \in 1..(low + BodyLength(c, w, s)) : d.data[p] = b.data[p]
  PROVE  BodyIn(d, low, c, w, s)
<1>1. PICK B \in Nat : B = BodyLength(c, w, s)
  BY WithinBody
<1>2. ASSUME NEW x \in Nat, NEW l \in Nat, x + l <= B
      PROVE  ReadAt(d, low + (B - x), l) = ReadAt(b, low + (B - x), l)
  <2>1. PICK pos \in Nat : pos = low + (B - x) /\ l <= pos /\ pos <= low + B
    <3>1. low + (B - x) \in Nat /\ l <= low + (B - x) /\ low + (B - x) <= low + B
      BY <1>2
    <3> QED BY <3>1
  <2>2. \A p \in (pos - l + 1)..pos : p \in 1..(low + B)
    BY <2>1
  <2>3. \A p \in (pos - l + 1)..pos : d.data[p] = b.data[p]
    BY <1>1, <2>2
  <2>4. l <= pos
    BY <2>1
  <2>5. ReadAt(d, pos, l) = ReadAt(b, pos, l)
    <3>1. \A j \in 1..l : pos - j + 1 \in (pos - l + 1)..pos
      BY <2>4
    <3>2. \A j \in 1..l : d.data[pos - j + 1] = b.data[pos - j + 1]
      BY <2>3, <3>1
    <3> QED
      BY <3>2 DEF ReadAt
  <2> QED
    BY <2>1, <2>5
<1>3. ASSUME NEW k \in 1..Len(c)
      PROVE  /\ ReadAt(d, low + (B - CellStart(w, s, k)), CellWidth(w, s, k)) = Cell(c, w, s, k)
             /\ Len(c[k]) > CellWidth(w, s, k) =>
                  ReadAt(d, low + (B - PayloadStart(Sizes(c), w, s, k)), Len(c[k])) = c[k]
  <2>1. Bounds(c, w, s, k)
    BY WithinBody
  <2>2. CellWidth(w, s, k) \in Nat
    BY <2>1 DEF Bounds
  <2>3. ReadAt(d, low + (B - CellStart(w, s, k)), CellWidth(w, s, k))
          = ReadAt(b, low + (B - CellStart(w, s, k)), CellWidth(w, s, k))
    BY <1>1, <1>2, <2>1, <2>2 DEF Bounds
  <2>4. ASSUME Len(c[k]) > CellWidth(w, s, k)
        PROVE  ReadAt(d, low + (B - PayloadStart(Sizes(c), w, s, k)), Len(c[k]))
                 = ReadAt(b, low + (B - PayloadStart(Sizes(c), w, s, k)), Len(c[k]))
    BY <1>1, <1>2, <2>1, <2>4 DEF Bounds
  <2> QED
    BY <1>1, <2>3, <2>4 DEF BodyIn
<1> QED
  BY <1>1, <1>3 DEF BodyIn

\* A header in front of a body is the layout, whole.
LEMMA ReadsLayout ==
  ASSUME NEW c \in Seq(Seq(Nat)), NEW s, NEW b, NEW low \in Nat, NEW h \in Seq(Nat),
         Len(s) \in {1, 2}, Sound(b),
         BodyIn(b, low, c, Widths(Sizes(c), s), s),
         b.len = low + BodyLength(c, Widths(Sizes(c), s), s),
         h = Header(Len(c), Widths(Sizes(c), s))
  PROVE  ReadAt(PutWords(b, h), b.len + Len(h), (b.len + Len(h)) - low) = Layout(c, s)
<1>1. PICK w \in Seq(1..3) : w = Widths(Sizes(c), s) /\ Shaped(s, w)
  BY WidthsShaped DEF Shaped
<1>2. PICK B \in Nat : B = BodyLength(c, w, s)
  BY <1>1, WithinBody
<1>3. PICK n \in Nat : n = Len(c)
  OBVIOUS
<1>4. PICK H \in Nat : H = Len(h) /\ H = HeaderLength(s)
  BY <1>1, HeaderWords
<1>5. PICK d : /\ d = PutWords(b, h) /\ Sound(d) /\ d.len = b.len + Len(h)
               /\ \A p \in 1..b.len : d.data[p] = b.data[p]
               /\ ReadAt(d, b.len + Len(h), Len(h)) = h
  BY PutWordsPrepends
<1>6. b.len = low + B /\ d.len = low + B + H /\ (low + B + H) - low = H + B
  <2>1. b.len = low + B
    BY <1>1, <1>2
  <2>2. (low + B + H) - low = H + B
    OBVIOUS
  <2> QED
    BY <1>4, <1>5, <2>1, <2>2
<1>7. BodyIn(d, low, c, w, s)
  <2>1. BodyIn(b, low, c, w, s)
    BY <1>1
  <2>2. \A p \in 1..(low + BodyLength(c, w, s)) : d.data[p] = b.data[p]
    BY <1>2, <1>5, <1>6
  <2> QED
    BY <1>1, <2>1, <2>2, BodyStays
<1> DEFINE v == ReadAt(d, low + B + H, H + B)
<1>8. v \in Seq(Nat) /\ Len(v) = H + B /\ \A i \in 1..(H + B) : v[i] = d.data[(low + B + H) - i + 1]
  <2>1. PICK pos, m \in Nat : pos = low + B + H /\ m = H + B /\ m <= pos
    OBVIOUS
  <2>2. pos <= Allocated(d)
    BY <1>5, <1>6, <2>1 DEF Sound
  <2>3. ReadAt(d, pos, m) \in Seq(Nat) /\ Len(ReadAt(d, pos, m)) = m
    BY <1>5, <2>1, <2>2, ReadAtType
  <2>4. \A i \in 1..m : ReadAt(d, pos, m)[i] = d.data[pos - i + 1]
    BY DEF ReadAt
  <2> QED
    BY <2>1, <2>3, <2>4
<1> HIDE DEF v
<1>9. \A j \in 1..H : v[j] = h[j]
  <2> TAKE j \in 1..H
  <2>1. j \in 1..(H + B)
    OBVIOUS
  <2>2. v[j] = d.data[(low + B + H) - j + 1]
    BY <1>8, <2>1
  <2>3. ReadAt(d, low + B + H, H) = h
    BY <1>4, <1>5, <1>6
  <2>4. ReadAt(d, low + B + H, H)[j] = d.data[(low + B + H) - j + 1]
    BY DEF ReadAt
  <2> QED
    BY <2>2, <2>3, <2>4
<1>10. ASSUME NEW x \in Nat, NEW l \in Nat, x + l <= B, NEW j \in 1..l
       PROVE  v[H + (x + j)] = ReadAt(d, low + (B - x), l)[j]
  <2>1. /\ H + (x + j) \in 1..(H + B)
        /\ (low + B + H) - (H + (x + j)) + 1 = (low + (B - x)) - j + 1
    BY <1>10, FromFront
  <2>2. v[H + (x + j)] = d.data[(low + B + H) - (H + (x + j)) + 1]
    BY <1>8, <2>1
  <2>3. ReadAt(d, low + (B - x), l)[j] = d.data[(low + (B - x)) - j + 1]
    BY DEF ReadAt
  <2> QED
    BY <2>1, <2>2, <2>3
<1>11. CellsPlaced(v, H, c, w, s)
  <2> SUFFICES ASSUME NEW k \in 1..Len(c), NEW j \in 1..CellWidth(w, s, k)
               PROVE  v[H + (CellStart(w, s, k) + j)] = Cell(c, w, s, k)[j]
    BY DEF CellsPlaced
  <2>1. Bounds(c, w, s, k)
    BY <1>1, WithinBody
  <2>2. PICK x, l \in Nat : x = CellStart(w, s, k) /\ l = CellWidth(w, s, k) /\ x + l <= B
    BY <1>2, <2>1, SMTT(30) DEF Bounds
  <2>3. v[H + (x + j)] = ReadAt(d, low + (B - x), l)[j]
    BY <1>10, <2>2
  <2>4. ReadAt(d, low + (B - x), l) = Cell(c, w, s, k)
    BY <1>2, <1>7, <2>2 DEF BodyIn
  <2> QED
    BY <2>2, <2>3, <2>4
<1>12. PayloadsPlaced(v, H, c, w, s)
  <2> SUFFICES ASSUME NEW k \in 1..Len(c), Len(c[k]) > CellWidth(w, s, k), NEW j \in 1..Len(c[k])
               PROVE  v[H + (PayloadStart(Sizes(c), w, s, k) + j)] = c[k][j]
    BY DEF PayloadsPlaced
  <2>1. Bounds(c, w, s, k)
    BY <1>1, WithinBody
  <2>2. PICK x, l \in Nat : x = PayloadStart(Sizes(c), w, s, k) /\ l = Len(c[k]) /\ x + l <= B
    BY <1>2, <2>1 DEF Bounds
  <2>3. v[H + (x + j)] = ReadAt(d, low + (B - x), l)[j]
    BY <1>10, <2>2
  <2>4. ReadAt(d, low + (B - x), l) = c[k]
    BY <1>2, <1>7, <2>2 DEF BodyIn
  <2> QED
    BY <2>2, <2>3, <2>4
<1>13. Placed(v, c, w, s)
  BY <1>1, <1>2, <1>4, <1>8, <1>9, <1>11, <1>12 DEF Placed
<1>14. v = Layout(c, s)
  BY <1>1, <1>13, LayoutPlaced, PlacedUnique
<1> QED
  BY <1>4, <1>5, <1>6, <1>14 DEF v

-----------------------------------------------------------------------------
(***************************************************************************)
(* The encoders' steps.                                                    *)
(***************************************************************************)

\* The inductive invariant of what a unit stands for.
IInv == TypeOK /\ UnitsIntact /\ SegmentsLaidOut

-----------------------------------------------------------------------------
(***************************************************************************)
(* Types.                                                                  *)
(***************************************************************************)

\* A shape has one lane or two, of known kinds.
LEMMA ShapeLanes ==
  ASSUME NEW s \in Shapes
  PROVE  /\ Len(s) \in {1, 2} /\ DOMAIN s = 1..Len(s)
         /\ \A l \in 1..Len(s) : s[l] \in Kinds
<1>1. CASE s \in {<<a>> : a \in Kinds}
  BY <1>1
<1>2. CASE s \in Kinds \X Kinds
  <2>1. PICK a \in Kinds, b \in Kinds : s = <<a, b>>
    BY <1>2
  <2> QED
    BY <2>1
<1>3. s \in {<<a>> : a \in Kinds} \cup (Kinds \X Kinds)
  BY ShapesAssumption
<1> QED
  BY <1>1, <1>2, <1>3

\* The lane of a slot is one of the shape.
LEMMA LaneInRange ==
  ASSUME NEW s \in Shapes, NEW k \in Nat \ {0}
  PROVE  Lane(s, k) \in 1..Len(s) /\ s[Lane(s, k)] \in Kinds
<1>1. Len(s) \in {1, 2}
  BY ShapeLanes
<1>2. (k - 1) % 1 = 0 /\ (k - 1) % 2 \in 0..1
  OBVIOUS
<1>3. Lane(s, k) \in 1..Len(s)
  <2>1. CASE Len(s) = 1
    BY <1>2, <2>1 DEF Lane
  <2>2. CASE Len(s) = 2
    BY <1>2, <2>2 DEF Lane
  <2> QED
    BY <1>1, <2>1, <2>2
<1> QED
  BY <1>3, ShapeLanes

\* What the type invariant says of each slot, in the form the proofs use it.
LEMMA TypeFacts ==
  ASSUME TypeOK
  PROVE  /\ N \in Nat /\ Len(content) = N /\ slot \in 0..N
         /\ \A k \in 1..N : /\ units[k].inline \in Seq(Nat)
                            /\ units[k].pos \in Nat /\ units[k].len \in Nat
                            /\ units[k] \in UnitType
                            /\ content[k] \in Seq(Nat)
                            /\ Width(k) \in 1..3
                            /\ Kind(k) \in Kinds
         /\ Sound(buf) /\ buf.len \in Nat /\ last \in 0..buf.len
<1>1. N \in Nat /\ \A k \in 1..N : units[k] \in UnitType
  BY DEF TypeOK, N
<1>2. \A k \in 1..N : /\ units[k].inline \in Seq(Nat)
                      /\ units[k].pos \in Nat /\ units[k].len \in Nat
  BY <1>1 DEF UnitType
<1>3. Len(content) = N /\ \A k \in 1..N : content[k] \in Seq(Nat)
  BY <1>1 DEF TypeOK, N
<1>4. \A k \in 1..N : Width(k) \in 1..3 /\ Kind(k) \in Kinds
  BY SMTT(30), <1>1, LaneInRange DEF TypeOK, Width, CellWidth, Kind
<1>5. Sound(buf) /\ buf.len \in Nat /\ last \in 0..buf.len
  BY DEF TypeOK, Sound, Buffer
<1> QED
  BY <1>1, <1>2, <1>3, <1>4, <1>5 DEF TypeOK

\* Replacing one unit keeps the others.
LEMMA UnitReplaced ==
  ASSUME TypeOK, NEW k \in 1..N, NEW u \in UnitType
  PROVE  /\ [units EXCEPT ![k] = u] \in Seq(UnitType)
         /\ Len([units EXCEPT ![k] = u]) = N
         /\ \A j \in 1..N : [units EXCEPT ![k] = u][j] = IF j = k THEN u ELSE units[j]
BY DEF TypeOK, N

\* Replacing one slot's content keeps the others.
LEMMA ContentReplaced ==
  ASSUME TypeOK, NEW k \in 1..N, NEW value \in Seq(Nat)
  PROVE  /\ [content EXCEPT ![k] = value] \in Seq(Seq(Nat))
         /\ Len([content EXCEPT ![k] = value]) = N
         /\ \A j \in 1..N : [content EXCEPT ![k] = value][j] = IF j = k THEN value ELSE content[j]
BY DEF TypeOK, N

\* The next slot to write exists.
LEMMA NextSlotExists ==
  ASSUME TypeOK, slot > 0
  PROVE  NextSlot \in 1..N
<1>1. Len(shape) \in {1, 2} /\ N \in Nat /\ slot \in 1..N /\ N % Len(shape) = 0
  <2>1. N \in Nat /\ slot \in 0..N
    BY TypeFacts
  <2>2. shape \in Shapes /\ N % Len(shape) = 0
    BY DEF TypeOK
  <2>3. Len(shape) \in {1, 2}
    BY <2>2, ShapeLanes
  <2> QED
    BY <2>1, <2>2, <2>3
<1>2. CASE encoder = "in_place"
  BY <1>1, <1>2 DEF NextSlot
<1>3. CASE encoder = "copying" /\ Len(shape) = 1
  BY <1>1, <1>3 DEF NextSlot
<1>4. CASE encoder = "copying" /\ Len(shape) = 2
  <2>1. NextSlot = IF slot % 2 = 0 THEN slot - 1 ELSE slot + 1
    BY <1>4 DEF NextSlot
  <2>2. N % 2 = 0
    BY <1>1, <1>4
  <2> QED
    BY <1>1, <2>1, <2>2
<1> QED
  BY <1>1, <1>2, <1>3, <1>4 DEF TypeOK
-----------------------------------------------------------------------------
(***************************************************************************)
(* Writing and folding.                                                    *)
(***************************************************************************)

\* A unit stands for the same words in buffers that agree on its segment.
LEMMA UnitWordsKept ==
  ASSUME NEW u \in UnitType, NEW b, NEW c,
         IsSegment(u) => /\ u.len <= u.pos
                         /\ \A p \in (u.pos - u.len + 1)..u.pos : c.data[p] = b.data[p]
  PROVE  UnitWords(u, c) = UnitWords(u, b)
<1>1. u.inline \in Seq(Nat) /\ u.pos \in Nat /\ u.len \in Nat
  BY DEF UnitType
<1>2. CASE u.inline # <<>>
  BY <1>2 DEF UnitWords
<1>3. CASE u.inline = <<>> /\ u.len # 0
  <2>1. u.len <= u.pos /\ \A p \in (u.pos - u.len + 1)..u.pos : c.data[p] = b.data[p]
    BY <1>3 DEF IsSegment
  <2>2. PICK pos \in Nat, len \in Nat : pos = u.pos /\ len = u.len
    BY <1>1
  <2>3. len <= pos /\ \A p \in (pos - len + 1)..pos : c.data[p] = b.data[p]
    BY <2>1, <2>2
  <2>4. ReadAt(c, pos, len) = ReadAt(b, pos, len)
    BY <2>3, ReadAtSame
  <2> QED
    BY <1>3, <2>2, <2>4 DEF UnitWords
<1>4. CASE u.inline = <<>> /\ u.len = 0
  BY <1>4 DEF UnitWords, ReadAt
<1> QED
  BY <1>2, <1>3, <1>4

\* Whatever is stored next in a buffer that keeps the earlier words, inline or
\* as the new head, preserves the invariant.
LEMMA StoreInv ==
  ASSUME IInv, pc = "write", slot > 0,
         NEW value \in Seq(Nat) \ {<<>>}, NEW b, NEW u \in UnitType,
         Store(NextSlot, value, b, u),
         Sound(b), b.len >= buf.len, \A p \in 1..buf.len : b.data[p] = buf.data[p],
         UnitWords(u, b) = value, Len(u.inline) <= 3,
         IsSegment(u) => u.pos = b.len /\ u.len = b.len - buf.len
  PROVE  IInv'
<1> DEFINE k == NextSlot
<1>1. k \in 1..N
  BY NextSlotExists DEF IInv
<1>2. TypeOK
  BY DEF IInv
<1>3. /\ N \in Nat /\ slot \in 0..N /\ buf.len \in Nat /\ last \in 0..buf.len /\ b.len \in Nat
      /\ \A j \in 1..N : /\ units[j] \in UnitType /\ units[j].pos \in Nat
                         /\ units[j].len \in Nat /\ content[j] \in Seq(Nat)
      /\ u.pos \in Nat /\ u.len \in Nat
  BY <1>2, TypeFacts, SoundParts DEF UnitType
<1>4. /\ units' = [units EXCEPT ![k] = u] /\ content' = [content EXCEPT ![k] = value]
      /\ buf' = b /\ slot' = slot - 1 /\ pc' = "write" /\ last' = last
      /\ encoder' = encoder /\ shape' = shape
  BY DEF Store
<1>5. /\ units' \in Seq(UnitType) /\ N' = N
      /\ \A j \in 1..N : units'[j] = IF j = k THEN u ELSE units[j]
  BY <1>1, <1>2, <1>4, UnitReplaced DEF N
<1>6. /\ content' \in Seq(Seq(Nat)) /\ Len(content') = N
      /\ \A j \in 1..N : content'[j] = IF j = k THEN value ELSE content[j]
  BY <1>1, <1>2, <1>4, ContentReplaced
<1> HIDE DEF k
<1>7. TypeOK'
  <2>1. \A j \in 1..N' : Len(units'[j].inline) <= 3
    BY <1>2, <1>5 DEF TypeOK
  <2>2. buf' \in Buffer /\ buf'.len <= Allocated(buf') /\ last' \in Nat /\ last' <= buf'.len
    BY <1>3, <1>4 DEF Sound
  <2>3. slot' \in 0..N'
    BY <1>3, <1>4, <1>5
  <2> QED
    BY <1>2, <1>4, <1>5, <1>6, <2>1, <2>2, <2>3 DEF TypeOK, Store, copied, N
<1>8. \A j \in 1..N : IsSegment(units[j]) =>
        /\ last <= units[j].pos - units[j].len /\ units[j].pos <= buf.len
  BY DEF IInv, SegmentsLaidOut, WritingLaidOut, Between
<1>9. UnitsIntact'
  <2> SUFFICES ASSUME NEW j \in 1..N, content'[j] # <<>>
               PROVE  UnitWords(units'[j], b) = content'[j]
    BY <1>4, <1>5 DEF UnitsIntact
  <2>1. CASE j = k
    BY <1>5, <1>6, <2>1
  <2>2. CASE j # k
    <3>1. UnitWords(units[j], buf) = content[j]
      BY <1>6, <2>2 DEF IInv, UnitsIntact
    <3>2. IsSegment(units[j]) =>
            /\ units[j].len <= units[j].pos
            /\ \A p \in (units[j].pos - units[j].len + 1)..units[j].pos : b.data[p] = buf.data[p]
      <4> SUFFICES ASSUME IsSegment(units[j])
                   PROVE  /\ units[j].len <= units[j].pos
                          /\ \A p \in (units[j].pos - units[j].len + 1)..units[j].pos : b.data[p] = buf.data[p]
        OBVIOUS
      <4>1. last <= units[j].pos - units[j].len /\ units[j].pos <= buf.len
        BY <1>8
      <4>2. units[j].pos \in Nat /\ units[j].len \in Nat /\ buf.len \in Nat /\ last \in Nat
        BY <1>3
      <4>3. units[j].len <= units[j].pos
        BY <4>1, <4>2
      <4>4. \A p \in (units[j].pos - units[j].len + 1)..units[j].pos : p \in 1..buf.len
        BY SMTT(30), <4>1, <4>2
      <4> QED
        BY <4>3, <4>4
    <3>3. UnitWords(units[j], b) = UnitWords(units[j], buf)
      BY <1>3, <3>2, UnitWordsKept
    <3> QED
      BY <1>5, <1>6, <2>2, <3>1, <3>3
  <2> QED
    BY <2>1, <2>2
<1>10. WritingLaidOut'
  <2>1. ASSUME NEW j \in 1..N PROVE Between(units'[j], last, b.len)
    <3>1. CASE j = k
      BY SMTT(30), <1>3, <1>5, <3>1 DEF Between
    <3>2. CASE j # k
      <4>1. units'[j] = units[j]
        BY <1>5, <3>2
      <4>2. IsSegment(units[j]) => last <= units[j].pos - units[j].len /\ units[j].pos <= b.len
        <5> SUFFICES ASSUME IsSegment(units[j])
                     PROVE  last <= units[j].pos - units[j].len /\ units[j].pos <= b.len
          OBVIOUS
        <5>1. last <= units[j].pos - units[j].len /\ units[j].pos <= buf.len
          BY <1>8
        <5> QED
          BY SMTT(30), <1>3, <5>1
      <4> QED
        BY <4>1, <4>2 DEF Between
    <3> QED
      BY <3>1, <3>2
  <2>2. ASSUME NEW i \in 1..N, NEW j \in 1..N, i # j,
               IsSegment(units'[i]), IsSegment(units'[j])
        PROVE  Apart(units'[i], units'[j])
    <3>1. CASE i # k /\ j # k
      BY <1>5, <2>2, <3>1 DEF IInv, SegmentsLaidOut, WritingLaidOut
    <3>2. CASE i = k /\ j # k
      <4>1. units'[i] = u /\ units'[j] = units[j]
        BY <1>5, <3>2
      <4>2. units[j].pos <= buf.len /\ u.pos - u.len = buf.len
        BY <1>3, <1>8, <2>2, <4>1
      <4> QED
        BY <1>3, <4>1, <4>2 DEF Apart
    <3>3. CASE i # k /\ j = k
      <4>1. units'[j] = u /\ units'[i] = units[i]
        BY <1>5, <3>3
      <4>2. units[i].pos <= buf.len /\ u.pos - u.len = buf.len
        BY <1>3, <1>8, <2>2, <4>1
      <4> QED
        BY <1>3, <4>1, <4>2 DEF Apart
    <3> QED
      BY <2>2, <3>1, <3>2, <3>3
  <2> QED
    BY <1>4, <1>5, <2>1, <2>2 DEF WritingLaidOut
<1>11. InPlaceOrder'
  <2> SUFFICES ASSUME encoder = "in_place" PROVE InPlaceOrder'
    BY <1>4 DEF InPlaceOrder
  <2>1. k = slot
    BY DEF k, NextSlot
  <2>2. InPlaceOrder
    BY DEF IInv, SegmentsLaidOut
  <2>3. ASSUME NEW j \in 1..N, j <= slot'
        PROVE  content'[j] = <<>> /\ units'[j] = EmptyUnit
    <3>1. j # k /\ j <= slot
      <4>1. slot' = slot - 1
        BY <1>4
      <4>2. j <= slot - 1
        BY <2>3, <4>1
      <4> QED
        BY <1>3, <2>1, <4>2
    <3> QED
      BY <1>5, <1>6, <2>2, <3>1 DEF InPlaceOrder
  <2>4. ASSUME NEW j \in 1..N, j > slot'
        PROVE  content'[j] # <<>>
    <3>1. CASE j = k
      BY <1>6, <3>1
    <3>2. CASE j # k
      <4>1. j > slot
        BY <1>3, <1>4, <2>1, <2>4, <3>2
      <4> QED
        BY <1>6, <2>2, <3>2, <4>1 DEF InPlaceOrder
    <3> QED
      BY <3>1, <3>2
  <2>5. ASSUME NEW i \in 1..N, NEW j \in 1..N, i < j,
               IsSegment(units'[i]), IsSegment(units'[j])
        PROVE  units'[j].pos <= units'[i].pos - units'[i].len
    <3>1. \A m \in 1..N : m <= slot => ~IsSegment(units[m])
      BY <1>3, <2>2 DEF InPlaceOrder, EmptyUnit, InlineUnit, IsSegment
    <3>2. i >= slot
      <4> SUFFICES ASSUME i < slot
                   PROVE  FALSE
        BY <1>3
      <4>1. units'[i] = units[i]
        BY <1>3, <1>5, <2>1
      <4>2. i <= slot
        BY <1>3
      <4>3. ~IsSegment(units[i])
        BY <3>1, <4>2
      <4>4. IsSegment(units[i])
        BY <2>5, <4>1
      <4> QED
        BY <4>3, <4>4
    <3>3. CASE i = slot
      <4>1. units'[i] = u /\ units'[j] = units[j]
        BY <1>5, <2>1, <2>5, <3>3
      <4> QED
        BY <1>3, <1>8, <2>5, <4>1
    <3>4. CASE i > slot
      <4>1. units'[i] = units[i] /\ units'[j] = units[j]
        BY <1>3, <1>5, <2>1, <2>5, <3>4
      <4> QED
        BY <2>2, <2>5, <4>1 DEF InPlaceOrder
    <3> QED
      BY <1>3, <3>2, <3>3, <3>4
  <2> QED
    BY <1>4, <1>5, <2>3, <2>4, <2>5 DEF InPlaceOrder
<1>12. PickingLaidOut' /\ MarkingLaidOut'
  BY <1>4 DEF PickingLaidOut, MarkingLaidOut
<1> QED
  BY <1>7, <1>9, <1>10, <1>11, <1>12 DEF IInv, SegmentsLaidOut

\* Contents are sequences of words, never empty.
LEMMA ContentsType ==
  ASSUME TypeOK, NEW k \in 1..N, NEW value \in Contents(k, Kind(k))
  PROVE  value \in Seq(Nat) \ {<<>>}
BY TypeFacts, ContentsAssumption DEF TypeOK

\* Writing a slot inline touches neither the buffer nor other units.
LEMMA WriteInlineInv ==
  ASSUME IInv, WriteInline
  PROVE  IInv' /\ KeepsEarlierWords
<1>1. TypeOK /\ pc = "write" /\ slot > 0
  BY DEF IInv, WriteInline
<1>2. PICK value \in Contents(NextSlot, Kind(NextSlot)) :
        Len(value) <= 3 /\ Store(NextSlot, value, buf, InlineUnit(value))
  BY DEF WriteInline
<1>3. value \in Seq(Nat) \ {<<>>}
  BY <1>1, <1>2, NextSlotExists, ContentsType
<1> DEFINE u == InlineUnit(value)
<1>4. u \in UnitType /\ u.inline = value
  BY <1>3 DEF InlineUnit, UnitType
<1>5. UnitWords(u, buf) = value /\ ~IsSegment(u) /\ Len(u.inline) <= 3
  BY <1>2, <1>3, <1>4 DEF UnitWords, IsSegment
<1>6. Sound(buf) /\ buf.len \in Nat /\ last \in 0..buf.len
  BY <1>1, TypeFacts
<1> HIDE DEF u
<1>7. IInv'
  BY <1>1, <1>2, <1>3, <1>4, <1>5, <1>6, StoreInv DEF u
<1>8. buf' = buf
  BY <1>2 DEF Store
<1> QED
  BY <1>6, <1>7, <1>8 DEF KeepsEarlierWords

\* Writing a segment prepends it: older segments stay behind it.
LEMMA WriteSegmentInv ==
  ASSUME IInv, WriteSegment
  PROVE  IInv' /\ KeepsEarlierWords
<1>1. TypeOK /\ pc = "write" /\ slot > 0 /\ Kind(NextSlot) = "object"
  BY DEF IInv, WriteSegment
<1>2. PICK value \in Contents(NextSlot, Kind(NextSlot)) :
        Store(NextSlot, value, PutWords(buf, value), SegmentUnit(buf.len, buf.len + Len(value)))
  BY <1>1 DEF WriteSegment
<1>3. value \in Seq(Nat) \ {<<>>}
  BY <1>1, <1>2, NextSlotExists, ContentsType
<1>4. Sound(buf) /\ buf.len \in Nat /\ last \in 0..buf.len /\ Len(value) \in Nat
  BY <1>1, <1>3, TypeFacts
<1> DEFINE u == SegmentUnit(buf.len, buf.len + Len(value))
           b == PutWords(buf, value)
<1>5. /\ u.inline = <<>> /\ u.pos = buf.len + Len(value) /\ u.len = Len(value)
      /\ u \in UnitType
  BY <1>4 DEF SegmentUnit, UnitType
<1>6. /\ Sound(b) /\ b.len = buf.len + Len(value)
      /\ \A p \in 1..buf.len : b.data[p] = buf.data[p]
      /\ ReadAt(b, buf.len + Len(value), Len(value)) = value
  BY <1>3, <1>4, PutWordsPrepends
<1>7. UnitWords(u, b) = value
  BY <1>5, <1>6 DEF UnitWords
<1>8. Len(u.inline) <= 3 /\ u.len = b.len - buf.len /\ b.len >= buf.len
  BY <1>4, <1>5, <1>6
<1>9. Store(NextSlot, value, b, u)
  BY <1>2
<1> HIDE DEF u, b
<1>10. IInv'
  BY <1>1, <1>3, <1>5, <1>6, <1>7, <1>8, <1>9, StoreInv
<1>11. buf' = b
  BY <1>9 DEF Store
<1> QED
  BY <1>4, <1>6, <1>8, <1>10, <1>11 DEF KeepsEarlierWords

\* Taking the head segment back leaves every other segment in the buffer.
LEMMA FoldInv ==
  ASSUME IInv, NEW k \in 1..N, Fold(k)
  PROVE  IInv' /\ KeepsEarlierWords
<1> DEFINE v == units[k]
           words == ReadAt(buf, v.pos, v.len)
           u == InlineUnit(words)
           b == Shrink(buf, v.len)
<1>1. TypeOK
  BY DEF IInv
<1>2. /\ N \in Nat /\ slot \in 0..N /\ Sound(buf) /\ buf.len \in Nat /\ last \in 0..buf.len
      /\ \A j \in 1..N : /\ units[j] \in UnitType /\ units[j].pos \in Nat
                         /\ units[j].len \in Nat /\ content[j] \in Seq(Nat)
  BY <1>1, TypeFacts
<1>3. /\ pc = "write" /\ IsSegment(v) /\ v.len < 4 /\ v.pos = buf.len
      /\ units' = [units EXCEPT ![k] = u] /\ content' = content
      /\ buf' = b /\ slot' = slot /\ pc' = "write" /\ last' = last
      /\ encoder' = encoder /\ shape' = shape
  BY DEF Fold
<1>4. \A j \in 1..N : IsSegment(units[j]) =>
        last <= units[j].pos - units[j].len /\ units[j].pos <= buf.len
  BY <1>3 DEF IInv, SegmentsLaidOut, WritingLaidOut, Between
<1>5. last <= buf.len - v.len /\ v.len \in 1..3
  BY SMTT(30), <1>2, <1>3, <1>4 DEF IsSegment
<1>6. words \in Seq(Nat) /\ Len(words) = v.len
  <2>1. v.len <= v.pos /\ v.pos <= Allocated(buf)
    BY <1>2, <1>3, <1>5 DEF Sound
  <2> QED
    BY <1>2, <2>1, ReadAtType
<1>7. u \in UnitType /\ u.inline = words /\ words # <<>> /\ ~IsSegment(u) /\ Len(u.inline) <= 3
  BY <1>5, <1>6 DEF InlineUnit, UnitType, IsSegment
<1>8. Sound(b) /\ b.len = buf.len - v.len /\ b.data = buf.data
  <2>1. v.len \in 0..buf.len
    BY <1>2, <1>5
  <2> QED
    BY <1>2, <2>1, ShrinkKeeps
<1> HIDE DEF words, u, b
<1>9. /\ units' \in Seq(UnitType) /\ N' = N
      /\ \A j \in 1..N : units'[j] = IF j = k THEN u ELSE units[j]
  BY <1>1, <1>3, <1>7, UnitReplaced DEF N
<1>10. TypeOK'
  <2>1. \A j \in 1..N' : Len(units'[j].inline) <= 3
    BY <1>1, <1>7, <1>9 DEF TypeOK
  <2>2. buf' \in Buffer /\ buf'.len <= Allocated(buf') /\ last' \in Nat /\ last' <= buf'.len
    BY <1>2, <1>3, <1>5, <1>8 DEF Sound
  <2> QED
    BY <1>1, <1>3, <1>9, <2>1, <2>2 DEF TypeOK, Fold, copied, N
<1>11. UnitsIntact'
  <2> SUFFICES ASSUME NEW j \in 1..N, content[j] # <<>>
               PROVE  UnitWords(units'[j], b) = content[j]
    BY <1>3, <1>9 DEF UnitsIntact
  <2>1. UnitWords(units[j], buf) = content[j]
    BY <1>3 DEF IInv, UnitsIntact
  <2>2. CASE j = k
    BY <1>3, <1>7, <1>9, <2>1, <2>2 DEF UnitWords, IsSegment, words
  <2>3. CASE j # k
    BY <1>8, <1>9, <2>1, <2>3 DEF UnitWords, ReadAt
  <2> QED
    BY <2>2, <2>3
<1>12. ASSUME NEW j \in 1..N, j # k, IsSegment(units[j])
       PROVE  units[j].pos <= b.len
  <2>1. Apart(units[j], v)
    BY <1>3, <1>12 DEF IInv, SegmentsLaidOut, WritingLaidOut
  <2>2. units[j].pos <= buf.len /\ units[j].len # 0
    BY <1>4, <1>12 DEF IsSegment
  <2> QED
    BY <1>2, <1>3, <1>8, <2>1, <2>2 DEF Apart
<1>13. \A j \in 1..N : IsSegment(units'[j]) => j # k /\ units'[j] = units[j]
  BY <1>7, <1>9
<1>14. WritingLaidOut'
  <2>1. ASSUME NEW j \in 1..N PROVE Between(units'[j], last, b.len)
    BY <1>4, <1>12, <1>13 DEF Between
  <2>2. ASSUME NEW i \in 1..N, NEW j \in 1..N, i # j,
               IsSegment(units'[i]), IsSegment(units'[j])
        PROVE  Apart(units'[i], units'[j])
    BY <1>3, <1>13, <2>2 DEF IInv, SegmentsLaidOut, WritingLaidOut
  <2> QED
    BY <1>3, <1>9, <2>1, <2>2 DEF WritingLaidOut
<1>15. InPlaceOrder'
  <2> SUFFICES ASSUME encoder = "in_place" PROVE InPlaceOrder'
    BY <1>3 DEF InPlaceOrder
  <2>1. InPlaceOrder
    BY DEF IInv, SegmentsLaidOut
  <2>2. k > slot
    BY <1>2, <1>3, <2>1 DEF InPlaceOrder, EmptyUnit, InlineUnit, IsSegment
  <2>3. ASSUME NEW j \in 1..N, j <= slot PROVE content[j] = <<>> /\ units'[j] = EmptyUnit
    <3>1. j # k
      BY <1>2, <2>2, <2>3
    <3> QED
      BY <1>3, <1>9, <2>1, <2>3, <3>1 DEF InPlaceOrder
  <2>4. ASSUME NEW j \in 1..N, j > slot PROVE content[j] # <<>>
    BY <1>3, <2>1, <2>4 DEF InPlaceOrder
  <2>5. ASSUME NEW i \in 1..N, NEW j \in 1..N, i < j,
               IsSegment(units'[i]), IsSegment(units'[j])
        PROVE  units'[j].pos <= units'[i].pos - units'[i].len
    BY <1>3, <1>13, <2>1, <2>5 DEF InPlaceOrder
  <2> QED
    BY <1>3, <1>9, <2>3, <2>4, <2>5 DEF InPlaceOrder
<1>16. PickingLaidOut' /\ MarkingLaidOut'
  BY <1>3 DEF PickingLaidOut, MarkingLaidOut
<1>17. KeepsEarlierWords
  BY <1>2, <1>3, <1>5, <1>8 DEF KeepsEarlierWords
<1> QED
  BY <1>10, <1>11, <1>14, <1>15, <1>16, <1>17 DEF IInv, SegmentsLaidOut

-----------------------------------------------------------------------------
(***************************************************************************)
(* Leaving the writing phase, and copying.                                 *)
(***************************************************************************)

\* Nothing is claimed of the units once the outcome is known.
LEMMA OutcomeInv ==
  ASSUME TypeOK', pc' \in {"encoded", "refused", "failed"}
  PROVE  IInv'
BY DEF IInv, UnitsIntact, SegmentsLaidOut, WritingLaidOut, InPlaceOrder,
       PickingLaidOut, MarkingLaidOut

\* A step that leaves the buffer alone keeps the earlier words.
LEMMA SameBufferKeeps ==
  ASSUME TypeOK, buf' = buf
  PROVE  KeepsEarlierWords
BY TypeFacts DEF KeepsEarlierWords

\* A failure changes nothing but the control state.
LEMMA WriteFailsInv ==
  ASSUME IInv, WriteFails
  PROVE  IInv' /\ KeepsEarlierWords
<1>1. TypeOK'
  BY DEF IInv, TypeOK, WriteFails, N, copied
<1> QED
  BY <1>1, OutcomeInv, SameBufferKeeps DEF WriteFails, IInv

\* Refusing a container that is too large changes nothing but the control state.
LEMMA RefuseInv ==
  ASSUME IInv, Refuse
  PROVE  IInv' /\ KeepsEarlierWords
<1>1. TypeOK'
  BY DEF IInv, TypeOK, Refuse, N, copied
<1> QED
  BY <1>1, OutcomeInv, SameBufferKeeps DEF Refuse, IInv

\* A header is a sequence of words.
LEMMA HeaderType ==
  ASSUME NEW n \in Nat, NEW ws \in Seq(1..3), Len(ws) \in {1, 2}
  PROVE  /\ Header(n, ws) \in Seq(Nat)
         /\ Header(n, ws)[1] \in Nat
<1>1. CASE Len(ws) = 1
  <2>1. ws[1] \in 1..3
    BY <1>1
  <2>2. n * 4 + ws[1] \in Nat
    BY <2>1
  <2> QED
    BY <1>1, <2>2 DEF Header
<1>2. CASE Len(ws) = 2
  <2>1. ws[1] \in 1..3 /\ ws[2] \in 1..3
    BY <1>2
  <2> DEFINE head == (n \div 2) * 16 + ws[1] * 4 + ws[2]
  <2>2. head \in Nat
    BY <2>1
  <2>3. Header(n, ws) = <<head>> \o IndexTail
    BY <1>2 DEF Header
  <2> HIDE DEF head
  <2>4. <<head>> \o IndexTail \in Seq(Nat) /\ (<<head>> \o IndexTail)[1] = head
    BY <2>2, IndexTailAssumption
  <2> QED
    BY <2>2, <2>3, <2>4
<1> QED
  BY <1>1, <1>2

\* An empty container leaves the buffer alone.
LEMMA EncodeEmptyInv ==
  ASSUME IInv, EncodeEmpty
  PROVE  IInv' /\ KeepsEarlierWords
<1>1. Len(shape) \in {1, 2}
  BY ShapeLanes DEF IInv, TypeOK
<1> DEFINE ws == [l \in 1..Len(shape) |-> 1]
<1>2. ws \in Seq(1..3) /\ Len(ws) = Len(shape)
  BY <1>1
<1> HIDE DEF ws
<1>3. Header(0, ws)[1] \in Nat
  BY <1>1, <1>2, HeaderType
<1>4. InlineUnit(EmptyContainer(shape)) \in UnitType
  BY <1>3 DEF InlineUnit, UnitType, EmptyContainer, ws
<1>5. TypeOK'
  BY <1>4 DEF IInv, TypeOK, EncodeEmpty, Finish, N, copied
<1> QED
  BY <1>5, OutcomeInv, SameBufferKeeps DEF EncodeEmpty, Finish, IInv

\* The chosen widths are 1, 2 or 3.
LEMMA WidthsType ==
  ASSUME NEW s \in Shapes, NEW sizes
  PROVE  Widths(sizes, s) \in Seq(1..3) /\ Len(Widths(sizes, s)) = Len(s)
<1>1. \A l \in 1..Len(s) : BestWidth(sizes, s, l) \in 1..3
  BY DEF BestWidth
<1>2. Len(s) \in Nat
  BY ShapeLanes
<1> QED
  BY <1>1, <1>2 DEF Widths

\* Choosing the widths for copying leaves units and buffer alone.
LEMMA StartCopyInv ==
  ASSUME IInv, StartCopy
  PROVE  IInv' /\ KeepsEarlierWords
<1>1. TypeOK
  BY DEF IInv
<1>2. /\ pc = "write" /\ pc' = "copy" /\ slot' = N /\ N \in Nat
      /\ widths' = Widths(UnitSizes, shape)
      /\ UNCHANGED <<shape, encoder, content, buf, last, units, tail, cells, payloads, result>>
  BY <1>1, TypeFacts DEF StartCopy, Called, copied
<1>3. widths' \in Seq(1..3) /\ Len(widths') = Len(shape)
  BY <1>1, <1>2, WidthsType DEF TypeOK
<1>4. TypeOK'
  BY <1>1, <1>2, <1>3 DEF TypeOK, N
<1>5. UnitsIntact' /\ SegmentsLaidOut'
  BY <1>2 DEF IInv, UnitsIntact, SegmentsLaidOut, WritingLaidOut, InPlaceOrder,
              PickingLaidOut, MarkingLaidOut, N
<1> QED
  BY <1>1, <1>2, <1>4, <1>5, SameBufferKeeps DEF IInv

\* A padded cell has the width of its lane.
LEMMA PadType ==
  ASSUME NEW words \in Seq(Nat), NEW w \in 1..3
  PROVE  Pad(words, w) \in Seq(Nat) /\ Len(Pad(words, w)) = w
<1>1. \A j \in 1..w : (IF j <= Len(words) THEN words[j] ELSE 0) \in Nat
  OBVIOUS
<1> QED
  BY <1>1 DEF Pad

\* A written unit reads as a sequence of words.
LEMMA UnitWordsType ==
  ASSUME IInv, pc \in {"write", "copy"}, NEW k \in 1..N
  PROVE  UnitWords(units[k], buf) \in Seq(Nat)
<1>1. /\ units[k] \in UnitType /\ units[k].inline \in Seq(Nat) /\ units[k].pos \in Nat
      /\ units[k].len \in Nat /\ Sound(buf) /\ buf.len \in Nat /\ last \in 0..buf.len
  BY TypeFacts DEF IInv
<1>2. CASE units[k].inline # <<>>
  BY <1>1, <1>2 DEF UnitWords
<1>3. CASE units[k].inline = <<>> /\ units[k].len # 0
  <2>1. last <= units[k].pos - units[k].len /\ units[k].pos <= buf.len
    BY <1>3 DEF IInv, SegmentsLaidOut, WritingLaidOut, Between, IsSegment
  <2>2. units[k].len <= units[k].pos /\ units[k].pos <= Allocated(buf)
    BY <1>1, <2>1 DEF Sound, Allocated, Buffer
  <2> QED
    BY <1>1, <1>3, <2>2, ReadAtType DEF UnitWords
<1>4. CASE units[k].inline = <<>> /\ units[k].len = 0
  BY <1>4 DEF UnitWords, ReadAt
<1> QED
  BY <1>2, <1>3, <1>4

\* The cells end behind the start of every cell, so an offset to a payload,
\* which lies behind the cells, is never negative.
LEMMA CellsPrecedePayloads ==
  ASSUME TypeOK, NEW k \in 1..N
  PROVE  /\ CellStart(widths, shape, k) \in Nat
         /\ CellStart(widths, shape, N + 1) \in Nat
         /\ CellStart(widths, shape, k) <= CellStart(widths, shape, N + 1)
<1>1. /\ N \in Nat /\ shape \in Shapes /\ Len(shape) \in {1, 2} /\ N % Len(shape) = 0
      /\ widths \in Seq(1..3) /\ Len(widths) = Len(shape)
  BY TypeFacts, ShapeLanes DEF TypeOK
<1>2. CASE Len(shape) = 1
  <2>1. \A i : CellStart(widths, shape, i) = (i - 1) * widths[1]
    BY <1>2 DEF CellStart
  <2>2. widths[1] \in 1..3
    <3>1. Len(widths) = 1
      BY <1>1, <1>2
    <3> QED
      BY SMTT(30), <1>1, <3>1
  <2>3. CASE widths[1] = 1
    BY <1>1, <2>1, <2>3
  <2>4. CASE widths[1] = 2
    BY <1>1, <2>1, <2>4
  <2>5. CASE widths[1] = 3
    BY SMTT(30), <1>1, <2>1, <2>5
  <2> QED
    BY <2>2, <2>3, <2>4, <2>5
<1>3. CASE Len(shape) = 2
  <2> DEFINE s == widths[1] + widths[2]
             i == (k - 1) \div 2
             h == N \div 2
             first == IF Lane(shape, k) = 2 THEN widths[1] ELSE 0
  <2>1. widths[1] \in 1..3 /\ widths[2] \in 1..3 /\ N % 2 = 0
    BY SMTT(30), <1>1, <1>3
  <2>2. Lane(shape, N + 1) = 1
    BY <1>1, <1>3, <2>1 DEF Lane
  <2>3. /\ CellStart(widths, shape, k) = i * s + first
        /\ CellStart(widths, shape, N + 1) = h * s
    BY <1>1, <1>3, <2>1, <2>2 DEF CellStart
  <2>4. i \in Nat /\ h \in Nat /\ i + 1 <= h
    BY <1>1, <2>1
  <2>5. first \in Nat /\ s \in 2..6 /\ first <= s
    BY <2>1
  <2> HIDE DEF s, i, h, first
  <2>6. \A a, b \in Nat : a + 1 <= b => \A t \in 2..6 : a * t \in Nat /\ b * t \in Nat /\ a * t + t <= b * t
    <3> SUFFICES ASSUME NEW a \in Nat, NEW b \in Nat, a + 1 <= b, NEW t \in 2..6
                 PROVE  a * t \in Nat /\ b * t \in Nat /\ a * t + t <= b * t
      OBVIOUS
    <3>1. t = 2 \/ t = 3 \/ t = 4 \/ t = 5 \/ t = 6
      OBVIOUS
    <3> QED
      BY <3>1
  <2>7. i * s \in Nat /\ h * s \in Nat /\ i * s + s <= h * s
    BY <2>4, <2>5, <2>6
  <2> QED
    BY <2>3, <2>5, <2>7
<1> QED
  BY <1>1, <1>2, <1>3

\* Copying a slot changes only what is gathered outside the buffer.
LEMMA CopyStepInv ==
  ASSUME IInv, NEW k \in 1..N, CopyIntoCell(k) \/ CopyOutline(k)
  PROVE  IInv' /\ KeepsEarlierWords
<1>1. TypeOK
  BY DEF IInv
<1>2. /\ pc = "copy" /\ slot > 0 /\ slot' = slot - 1
      /\ UNCHANGED <<shape, encoder, content, buf, last, units, pc, tail, widths, result>>
  BY DEF CopyIntoCell, CopyOutline, Copying
<1>3. UnitWords(units[k], buf) \in Seq(Nat) /\ Width(k) \in 1..3 /\ slot \in 0..N /\ N \in Nat
  BY <1>1, <1>2, UnitWordsType, TypeFacts
<1>4. cells \in Seq(Nat) /\ payloads \in Seq(Nat)
  BY <1>1 DEF TypeOK
<1>5. cells' \in Seq(Nat) /\ payloads' \in Seq(Nat)
  <2>1. CASE CopyIntoCell(k)
    <3>1. Pad(UnitWords(units[k], buf), Width(k)) \in Seq(Nat)
      BY <1>3, PadType
    <3> QED
      BY <1>4, <2>1, <3>1 DEF CopyIntoCell
  <2>2. CASE CopyOutline(k)
    <3> DEFINE off == CellStart(widths, shape, N + 1) + Len(payloads) - CellStart(widths, shape, k)
    <3>1. off \in Nat
      BY <1>1, <1>4, CellsPrecedePayloads
    <3> HIDE DEF off
    <3>2. Offset(off) \in Nat
      BY <3>1 DEF Offset
    <3>3. Pad(<<Offset(off)>>, Width(k)) \in Seq(Nat)
      <4>1. <<Offset(off)>> \in Seq(Nat)
        BY <3>2
      <4> QED
        BY <1>3, <4>1, PadType
    <3>4. cells' = cells \o Pad(<<Offset(off)>>, Width(k)) /\ payloads' = payloads \o UnitWords(units[k], buf)
      BY <2>2 DEF CopyOutline, off
    <3> QED
      BY <1>3, <1>4, <3>3, <3>4
  <2> QED
    BY <2>1, <2>2
<1>6. TypeOK'
  BY <1>1, <1>2, <1>3, <1>5 DEF TypeOK, N
<1>7. UnitsIntact' /\ SegmentsLaidOut'
  BY <1>2 DEF IInv, UnitsIntact, SegmentsLaidOut, WritingLaidOut, InPlaceOrder,
              PickingLaidOut, MarkingLaidOut, N
<1> QED
  BY <1>1, <1>2, <1>6, <1>7, SameBufferKeeps DEF IInv

\* Replacing the slots' words leaves the earlier words alone.
LEMMA CopyHeaderInv ==
  ASSUME IInv, CopyHeader
  PROVE  IInv' /\ KeepsEarlierWords
<1> DEFINE b0 == Shrink(buf, buf.len - last)
           b1 == PutWords(b0, payloads)
           b2 == PutWords(b1, cells)
           b3 == PutWords(b2, Header(N, widths))
<1>1. TypeOK
  BY DEF IInv
<1>2. /\ Sound(buf) /\ buf.len \in Nat /\ last \in 0..buf.len /\ N \in Nat
      /\ payloads \in Seq(Nat) /\ cells \in Seq(Nat)
  BY <1>1, TypeFacts DEF TypeOK
<1>3. Header(N, widths) \in Seq(Nat)
  BY <1>1, <1>2, HeaderType, ShapeLanes DEF TypeOK
<1>4. Sound(b0) /\ b0.len = last /\ b0.data = buf.data
  <2>1. buf.len - last \in 0..buf.len
    BY <1>2
  <2> QED
    BY <1>2, <2>1, ShrinkKeeps
<1>5. /\ buf' = b3 /\ pc' = "encoded" /\ result' = SegmentUnit(last, b3.len)
      /\ UNCHANGED <<shape, encoder, content, last, units, slot, tail, cells, payloads, widths>>
  BY DEF CopyHeader, Finish, copied
<1> HIDE DEF b0
<1>6. /\ Sound(b1) /\ b1.len = last + Len(payloads)
      /\ \A p \in 1..last : b1.data[p] = buf.data[p]
  BY SMTT(30), <1>2, <1>4, PutWordsPrepends
<1> HIDE DEF b1
<1>7. /\ Sound(b2) /\ b2.len = b1.len + Len(cells)
      /\ \A p \in 1..b1.len : b2.data[p] = b1.data[p]
  BY <1>2, <1>6, PutWordsPrepends
<1> HIDE DEF b2
<1>8. /\ Sound(b3) /\ b3.len = b2.len + Len(Header(N, widths))
      /\ \A p \in 1..b2.len : b3.data[p] = b2.data[p]
  BY <1>3, <1>7, PutWordsPrepends
<1> HIDE DEF b3
<1>9. /\ last \in Nat /\ Len(payloads) \in Nat /\ Len(cells) \in Nat
      /\ Len(Header(N, widths)) \in Nat
  BY <1>2, <1>3
<1>10. last <= b1.len /\ b1.len <= b2.len /\ b2.len <= b3.len /\ b1.len \in Nat /\ b2.len \in Nat /\ b3.len \in Nat
  BY <1>6, <1>7, <1>8, <1>9
<1>11. \A p \in 1..last : b3.data[p] = buf.data[p]
  <2> SUFFICES ASSUME NEW p \in 1..last PROVE b3.data[p] = buf.data[p]
    OBVIOUS
  <2>1. p \in 1..b1.len /\ p \in 1..b2.len
    BY <1>9, <1>10
  <2> QED
    BY <1>6, <1>7, <1>8, <2>1
<1>12. result' \in UnitType
  BY <1>5, <1>9, <1>10 DEF SegmentUnit, UnitType
<1>13. TypeOK'
  BY <1>1, <1>5, <1>8, <1>10, <1>12 DEF TypeOK, N, Sound
<1>14. KeepsEarlierWords
  BY <1>5, <1>9, <1>10, <1>11 DEF KeepsEarlierWords
<1> QED
  BY <1>5, <1>13, <1>14, OutcomeInv

-----------------------------------------------------------------------------
(***************************************************************************)
(* Compaction.                                                             *)
(***************************************************************************)

\* Picking starts with the boundary at the head: all segments are behind it.
LEMMA StartPickInv ==
  ASSUME IInv, StartPick
  PROVE  IInv' /\ KeepsEarlierWords
<1>1. TypeOK
  BY DEF IInv
<1>2. /\ N \in Nat /\ buf.len \in Nat /\ last \in 0..buf.len
      /\ \A k \in 1..N : units[k].pos \in Nat /\ units[k].len \in Nat
  BY <1>1, TypeFacts
<1>3. /\ pc = "write" /\ slot = 0 /\ encoder = "in_place" /\ pc' = "pick" /\ slot' = N
      /\ tail' = buf.len - last /\ widths' = Widths(UnitSizes, shape)
      /\ UNCHANGED <<shape, encoder, content, buf, last, units, cells, payloads, result>>
  BY DEF StartPick, Called, copied
<1>4. widths' \in Seq(1..3) /\ Len(widths') = Len(shape)
  BY <1>1, <1>3, WidthsType DEF TypeOK
<1>5. N' = N /\ Boundary' = last /\ tail' \in Nat
  BY <1>2, <1>3 DEF N, Boundary
<1>6. TypeOK'
  BY <1>1, <1>2, <1>3, <1>4, <1>5 DEF TypeOK
<1>7. UnitsIntact'
  BY <1>3, <1>5 DEF IInv, UnitsIntact
<1>8. PickingLaidOut'
  <2>1. InPlaceOrder /\ WritingLaidOut
    BY DEF IInv, SegmentsLaidOut
  <2>2. tail' <= buf.len /\ last <= Boundary'
    BY <1>2, <1>3, <1>5
  <2>3. \A k \in 1..N : content[k] # <<>>
    BY <1>2, <1>3, <2>1 DEF InPlaceOrder
  <2>4. \A k \in 1..N : Between(units[k], last, buf.len)
    BY <1>3, <2>1 DEF WritingLaidOut
  <2>5. \A j, k \in 1..N :
          j < k /\ IsSegment(units[j]) /\ IsSegment(units[k]) =>
            units[k].pos <= units[j].pos - units[j].len
    BY <1>3, <2>1 DEF InPlaceOrder
  <2>6. \A k \in 1..N : ~(k > N)
    BY <1>2
  <2> QED
    BY <1>3, <1>5, <2>2, <2>3, <2>4, <2>5, <2>6 DEF PickingLaidOut
<1>9. WritingLaidOut' /\ InPlaceOrder' /\ MarkingLaidOut'
  BY <1>3 DEF WritingLaidOut, InPlaceOrder, MarkingLaidOut
<1> QED
  BY <1>1, <1>3, <1>6, <1>7, <1>8, <1>9, SameBufferKeeps DEF IInv, SegmentsLaidOut

\* A unit to be picked that is not inline is a segment: it stands for a value.
LEMMA UnpickedIsSegment ==
  ASSUME IInv, pc \in {"pick", "mark"}, NEW k \in 1..N, units[k].inline = <<>>
  PROVE  IsSegment(units[k]) /\ ReadAt(buf, units[k].pos, units[k].len) = content[k]
<1>1. content[k] # <<>>
  BY DEF IInv, SegmentsLaidOut, PickingLaidOut, MarkingLaidOut
<1>2. UnitWords(units[k], buf) = content[k]
  BY <1>1 DEF IInv, UnitsIntact
<1>3. ReadAt(buf, units[k].pos, units[k].len) = content[k]
  BY <1>2 DEF UnitWords
<1>4. units[k].len # 0
  BY <1>1, <1>3 DEF ReadAt
<1> QED
  BY <1>3, <1>4 DEF IsSegment

\* Where the words of a range lie.
LEMMA RangeWithin ==
  \A pos, len, low, size \in Nat : low <= pos - len /\ pos <= size =>
    len <= pos /\ \A p \in (pos - len + 1)..pos : p \in 1..size /\ p > low
OBVIOUS

\* The positions of a segment that ends at or before `high` do not exceed it.
LEMMA RangeBefore ==
  \A pos, len, high, size \in Nat : len <= pos /\ pos <= high /\ high <= size =>
    \A p \in (pos - len + 1)..pos : p \in 1..size /\ p <= high
OBVIOUS

\* What every way of picking a unit has to ensure: it changes words between
\* the old boundary and the new one only, the unit it leaves lies before the
\* new boundary or inline, and the segments still to be picked lie behind it.
LEMMA PickedInv ==
  ASSUME IInv, Picking, NEW u \in UnitType, NEW b, NEW t \in Nat, Picked(u, b, t),
         Len(u.inline) <= 3, Sound(b), b.len = buf.len, t <= tail,
         UnitWords(u, b) = content[slot],
         Between(u, last, buf.len - t),
         \A p \in 1..buf.len : p <= Boundary \/ p > buf.len - t => b.data[p] = buf.data[p],
         \A j \in 1..N : j < slot /\ IsSegment(units[j]) => buf.len - t <= units[j].pos - units[j].len
  PROVE  IInv' /\ KeepsEarlierWords
<1>1. TypeOK
  BY DEF IInv
<1>2. /\ N \in Nat /\ slot \in 1..N /\ buf.len \in Nat /\ last \in 0..buf.len
      /\ \A j \in 1..N : /\ units[j] \in UnitType /\ units[j].pos \in Nat
                         /\ units[j].len \in Nat /\ content[j] \in Seq(Nat)
      /\ u.pos \in Nat /\ u.len \in Nat /\ tail \in Nat
  BY <1>1, TypeFacts DEF UnitType, Picking, TypeOK
<1>3. /\ pc = "pick" /\ units' = [units EXCEPT ![slot] = u] /\ buf' = b /\ tail' = t
      /\ slot' = slot - 1
      /\ UNCHANGED <<shape, encoder, content, last, pc, cells, payloads, widths, result>>
  BY DEF Picking, Picked, copied
<1>4. /\ units' \in Seq(UnitType) /\ N' = N
      /\ \A j \in 1..N : units'[j] = IF j = slot THEN u ELSE units[j]
  BY <1>1, <1>2, <1>3, UnitReplaced DEF N
<1>5. /\ tail <= buf.len /\ last <= Boundary
      /\ \A j \in 1..N : content[j] # <<>>
      /\ \A j \in 1..N : j <= slot => Between(units[j], Boundary, buf.len)
      /\ \A j \in 1..N : j > slot => Between(units[j], last, Boundary)
      /\ \A i, j \in 1..N :
           i < j /\ j <= slot /\ IsSegment(units[i]) /\ IsSegment(units[j]) =>
             units[j].pos <= units[i].pos - units[i].len
  BY <1>3 DEF IInv, SegmentsLaidOut, PickingLaidOut
<1>6. Boundary \in 0..buf.len /\ Boundary' \in 0..buf.len /\ Boundary' = buf.len - t
      /\ Boundary <= Boundary'
  <2>1. Boundary = buf.len - tail /\ Boundary' = buf.len - t
    BY <1>3 DEF Boundary
  <2>2. tail \in Nat /\ tail <= buf.len
    BY <1>2, <1>5
  <2>3. /\ buf.len - tail \in 0..buf.len /\ buf.len - t \in 0..buf.len
        /\ buf.len - tail <= buf.len - t
    BY SMTT(30), <1>2, <2>2
  <2> QED
    BY <2>1, <2>3
<1>7. TypeOK'
  <2>1. \A j \in 1..N' : Len(units'[j].inline) <= 3
    BY <1>1, <1>4 DEF TypeOK
  <2>2. buf' \in Buffer /\ buf'.len <= Allocated(buf') /\ last' \in Nat /\ last' <= buf'.len
    BY <1>2, <1>3 DEF Sound
  <2>3. slot' \in 0..N' /\ tail' \in Nat
    BY <1>2, <1>3, <1>4
  <2> QED
    BY <1>1, <1>3, <1>4, <2>1, <2>2, <2>3 DEF TypeOK, N
<1>8. UnitsIntact'
  <2> SUFFICES ASSUME NEW j \in 1..N PROVE UnitWords(units'[j], b) = content[j]
    BY <1>3, <1>4 DEF UnitsIntact
  <2>1. CASE j = slot
    BY <1>4, <2>1
  <2>2. CASE j # slot
    <3>1. UnitWords(units[j], buf) = content[j]
      BY <1>3, <1>5 DEF IInv, UnitsIntact
    <3>2. IsSegment(units[j]) =>
            /\ units[j].len <= units[j].pos
            /\ \A p \in (units[j].pos - units[j].len + 1)..units[j].pos : b.data[p] = buf.data[p]
      <4> SUFFICES ASSUME IsSegment(units[j])
                   PROVE  /\ units[j].len <= units[j].pos
                          /\ \A p \in (units[j].pos - units[j].len + 1)..units[j].pos : b.data[p] = buf.data[p]
        OBVIOUS
      <4>1. CASE j < slot
        <5>1. Boundary' <= units[j].pos - units[j].len /\ units[j].pos <= buf.len
          <6>1. j <= slot
            BY <1>2, <4>1
          <6>2. Between(units[j], Boundary, buf.len)
            BY <1>5, <6>1
          <6> QED
            BY <1>6, <4>1, <6>2 DEF Between
        <5>2. units[j].len <= units[j].pos /\
              \A p \in (units[j].pos - units[j].len + 1)..units[j].pos :
                p \in 1..buf.len /\ p > Boundary'
          <6>1. units[j].pos \in Nat /\ units[j].len \in Nat /\ Boundary' \in Nat /\ buf.len \in Nat
            BY <1>2, <1>6, SMTT(30)
          <6> QED
            BY <5>1, <6>1, RangeWithin, Zenon
        <5>3. \A p \in 1..buf.len : p > Boundary' => b.data[p] = buf.data[p]
          BY <1>6
        <5> QED
          BY <5>2, <5>3
      <4>2. CASE j > slot
        <5>1. last <= units[j].pos - units[j].len /\ units[j].pos <= Boundary
          BY <1>5, <4>2 DEF Between
        <5>2. units[j].len <= units[j].pos /\
              \A p \in (units[j].pos - units[j].len + 1)..units[j].pos :
                p \in 1..buf.len /\ p <= Boundary
          <6>1. /\ units[j].pos \in Nat /\ units[j].len \in Nat /\ last \in Nat
                /\ Boundary \in Nat /\ Boundary <= buf.len /\ buf.len \in Nat
            BY <1>2, <1>6
          <6>2. units[j].len <= units[j].pos
            BY <5>1, <6>1
          <6> QED
            BY <5>1, <6>1, <6>2, RangeBefore, Zenon
        <5>3. \A p \in 1..buf.len : p <= Boundary => b.data[p] = buf.data[p]
          OBVIOUS
        <5> QED
          BY <5>2, <5>3
      <4> QED
        BY <1>2, <2>2, <4>1, <4>2
    <3>3. UnitWords(units[j], b) = UnitWords(units[j], buf)
      BY <1>2, <3>2, UnitWordsKept
    <3> QED
      BY <1>4, <2>2, <3>1, <3>3
  <2> QED
    BY <2>1, <2>2
<1>9. PickingLaidOut'
  <2>1. tail' <= buf'.len /\ last <= Boundary'
    BY SMTT(30), <1>2, <1>3, <1>5, <1>6
  <2>2. ASSUME NEW j \in 1..N, j <= slot' PROVE Between(units'[j], Boundary', b.len)
    <3>1. j < slot /\ j <= slot
      BY <1>2, <1>3, <2>2
    <3>2. units'[j] = units[j]
      BY <1>2, <1>4, <3>1
    <3> QED
      BY <1>5, <1>6, <3>1, <3>2 DEF Between
  <2>3. ASSUME NEW j \in 1..N, j > slot' PROVE Between(units'[j], last, Boundary')
    <3>1. CASE j = slot
      BY <1>4, <1>6, <3>1
    <3>2. CASE j > slot
      <4>1. j # slot /\ Between(units[j], last, Boundary)
        BY <1>2, <1>5, <3>2
      <4>2. units'[j] = units[j]
        BY <1>4, <4>1
      <4> QED
        BY <1>2, <1>6, <4>1, <4>2 DEF Between
    <3> QED
      BY <1>2, <1>3, <2>3, <3>1, <3>2
  <2>4. ASSUME NEW i \in 1..N, NEW j \in 1..N, i < j, j <= slot',
               IsSegment(units'[i]), IsSegment(units'[j])
        PROVE  units'[j].pos <= units'[i].pos - units'[i].len
    <3>1. i # slot /\ j # slot /\ j <= slot
      BY <1>2, <1>3, <2>4
    <3>2. units'[i] = units[i] /\ units'[j] = units[j]
      BY <1>4, <3>1
    <3> QED
      BY <1>5, <2>4, <3>1, <3>2
  <2> QED
    BY <1>3, <1>4, <1>5, <2>1, <2>2, <2>3, <2>4 DEF PickingLaidOut
<1>10. WritingLaidOut' /\ InPlaceOrder' /\ MarkingLaidOut'
  BY <1>3 DEF WritingLaidOut, InPlaceOrder, MarkingLaidOut
<1>11. KeepsEarlierWords
  <2>1. \A p \in 1..last : p \in 1..buf.len /\ p <= Boundary
    BY <1>2, <1>5, <1>6
  <2>2. \A p \in 1..buf.len : p <= Boundary => b.data[p] = buf.data[p]
    OBVIOUS
  <2>3. \A p \in 1..last : b.data[p] = buf.data[p]
    BY <2>1, <2>2
  <2> QED
    BY <1>2, <1>3, <2>3 DEF KeepsEarlierWords
<1> QED
  BY <1>7, <1>8, <1>9, <1>10, <1>11 DEF IInv, SegmentsLaidOut

\* What is known of the unit that is about to be picked.
LEMMA AboutToPick ==
  ASSUME IInv, Picking
  PROVE  /\ slot \in 1..N /\ pc = "pick" /\ tail \in Nat /\ buf.len \in Nat /\ Sound(buf)
         /\ tail <= buf.len /\ last <= Boundary /\ last \in Nat /\ Boundary = buf.len - tail
         /\ units[slot] \in UnitType /\ Len(units[slot].inline) <= 3
         /\ units[slot].pos \in Nat /\ units[slot].len \in Nat /\ Width(slot) \in 1..3
         /\ UnitWords(units[slot], buf) = content[slot] /\ content[slot] \in Seq(Nat)
         /\ Between(units[slot], Boundary, buf.len)
         /\ \A j \in 1..N : j < slot /\ IsSegment(units[j]) =>
              /\ units[j].pos \in Nat /\ units[j].len \in Nat
              /\ Boundary <= units[j].pos - units[j].len
              /\ IsSegment(units[slot]) => units[slot].pos <= units[j].pos - units[j].len
<1>1. TypeOK /\ pc = "pick" /\ slot > 0
  BY DEF IInv, Picking
<1>2. slot \in 1..N
  BY <1>1, TypeFacts
<1>3. PickingLaidOut
  BY DEF IInv, SegmentsLaidOut
<1>4. UnitWords(units[slot], buf) = content[slot]
  BY <1>1, <1>2, <1>3 DEF IInv, UnitsIntact, PickingLaidOut
<1>5. Between(units[slot], Boundary, buf.len)
  <2>1. slot <= slot
    BY <1>2, TypeFacts, <1>1
  <2> QED
    BY <1>1, <1>2, <1>3, <2>1 DEF PickingLaidOut
<1>6. ASSUME NEW j \in 1..N, j < slot, IsSegment(units[j])
      PROVE  /\ units[j].pos \in Nat /\ units[j].len \in Nat
             /\ Boundary <= units[j].pos - units[j].len
             /\ IsSegment(units[slot]) => units[slot].pos <= units[j].pos - units[j].len
  <2>1. j <= slot /\ slot <= slot
    BY <1>1, <1>2, <1>6, TypeFacts
  <2>2. Between(units[j], Boundary, buf.len)
    BY <1>1, <1>3, <2>1 DEF PickingLaidOut
  <2>3. IsSegment(units[slot]) => units[slot].pos <= units[j].pos - units[j].len
    BY <1>1, <1>2, <1>3, <1>6, <2>1 DEF PickingLaidOut
  <2> QED
    BY <1>1, <1>6, <2>2, <2>3, TypeFacts DEF Between
<1>7. Len(units[slot].inline) <= 3 /\ tail \in Nat /\ last \in Nat
  BY <1>1, <1>2 DEF TypeOK
<1>8. tail <= buf.len /\ last <= Boundary /\ Boundary = buf.len - tail
  BY <1>1, <1>3 DEF PickingLaidOut, Boundary
<1> QED
  BY <1>1, <1>2, <1>4, <1>5, <1>6, <1>7, <1>8, TypeFacts

\* An inline unit is left as it is.
LEMMA PickInlineInv ==
  ASSUME IInv, PickInline
  PROVE  IInv' /\ KeepsEarlierWords
<1>1. Picking /\ units[slot].inline # <<>> /\ Picked(units[slot], buf, tail)
  BY DEF PickInline
<1>2. Between(units[slot], last, buf.len - tail)
  BY <1>1 DEF Between, IsSegment
<1>3. tail <= tail /\ buf.len - tail = Boundary
  BY <1>1, AboutToPick
<1>4. \A j \in 1..N : j < slot /\ IsSegment(units[j]) => buf.len - tail <= units[j].pos - units[j].len
  BY <1>1, <1>3, AboutToPick
<1> QED
  BY <1>1, <1>2, <1>3, <1>4, AboutToPick, PickedInv

\* A segment taken into its cell keeps its words; none move.
LEMMA PickIntoCellInv ==
  ASSUME IInv, PickIntoCell
  PROVE  IInv' /\ KeepsEarlierWords
<1> DEFINE v == units[slot]
           words == ReadAt(buf, v.pos, v.len)
           u == [v EXCEPT !.inline = words]
<1>1. Picking /\ v.inline = <<>> /\ v.len <= Width(slot) /\ Picked(u, buf, tail)
  BY DEF PickIntoCell
<1>2. /\ slot \in 1..N /\ pc = "pick" /\ v \in UnitType /\ v.len \in Nat /\ Width(slot) \in 1..3
      /\ content[slot] \in Seq(Nat)
  BY <1>1, AboutToPick
<1>3. IsSegment(v) /\ words = content[slot]
  BY <1>1, <1>2, UnpickedIsSegment
<1>4. Len(words) = v.len /\ words # <<>>
  <2>1. v.len # 0
    BY <1>3 DEF IsSegment
  <2>2. Len(words) = v.len
    BY <1>2 DEF ReadAt
  <2> QED
    BY <1>2, <2>1, <2>2
<1>5. u \in UnitType /\ u.inline = words
  BY <1>2, <1>3 DEF UnitType
<1> HIDE DEF v, words, u
<1>6. Len(u.inline) <= 3
  BY <1>1, <1>2, <1>4, <1>5
<1>7. UnitWords(u, buf) = content[slot]
  BY <1>3, <1>4, <1>5 DEF UnitWords
<1>8. Between(u, last, buf.len - tail)
  BY <1>4, <1>5 DEF Between, IsSegment
<1>9. tail <= tail /\ buf.len - tail = Boundary
  BY <1>1, AboutToPick
<1>10. \A j \in 1..N : j < slot /\ IsSegment(units[j]) => buf.len - tail <= units[j].pos - units[j].len
  BY <1>1, <1>9, AboutToPick
<1> QED
  BY <1>1, <1>5, <1>6, <1>7, <1>8, <1>9, <1>10, AboutToPick, PickedInv

\* A slide writes only between the old boundary and the new one: what is still
\* to be picked lies behind the place the segment comes from.
LEMMA PickMoveInv ==
  ASSUME IInv, PickMove
  PROVE  IInv' /\ KeepsEarlierWords
<1> DEFINE v == units[slot]
           t == tail - v.len
           to == buf.len - t
           u == [v EXCEPT !.pos = v.pos - (t - PickStart(v))]
           b == CopyWithin(buf, v.pos, to, v.len)
<1>1. Picking /\ v.inline = <<>> /\ tail > PickEnd(v) /\ Picked(u, b, t)
  BY DEF PickMove
<1>2. /\ slot \in 1..N /\ pc = "pick" /\ v \in UnitType /\ v.len \in Nat /\ v.pos \in Nat
      /\ tail \in Nat /\ buf.len \in Nat /\ tail <= buf.len /\ Sound(buf)
      /\ last \in Nat /\ last <= Boundary /\ Boundary = buf.len - tail
      /\ Between(v, Boundary, buf.len)
  BY <1>1, AboutToPick
<1>3. IsSegment(v) /\ ReadAt(buf, v.pos, v.len) = content[slot]
  BY <1>1, <1>2, UnpickedIsSegment
<1>4. Boundary <= v.pos - v.len /\ v.pos <= buf.len
  BY <1>2, <1>3 DEF Between
<1>5. t \in Nat /\ t <= tail
  <2>1. PickEnd(v) = buf.len - v.pos + v.len
    BY DEF PickEnd, PickStart
  <2>2. tail > buf.len - v.pos + v.len /\ buf.len - v.pos \in Nat
    BY <1>1, <1>2, <1>4, <2>1
  <2> HIDE DEF v
  <2> QED
    BY <1>2, <2>2
<1>6. to \in Nat /\ to = Boundary + v.len /\ to <= v.pos /\ v.len <= to
  BY <1>2, <1>4, <1>5
<1>7. v.pos - (t - PickStart(v)) = to
  BY <1>2, <1>5 DEF PickStart
<1>8. u \in UnitType /\ u.pos = to /\ u.len = v.len /\ u.inline = <<>>
  BY <1>1, <1>2, <1>6, <1>7 DEF UnitType
<1> HIDE DEF v, u
<1>9. v.pos <= Allocated(buf) /\ to <= Allocated(buf) /\ v.len <= v.pos
  <2>1. Allocated(buf) \in Nat /\ buf.len <= Allocated(buf)
    BY <1>2, SoundParts
  <2>2. Boundary \in Nat
    BY <1>2
  <2> HIDE DEF to
  <2> QED
    BY <1>2, <1>4, <1>6, <2>1, <2>2
<1>10. Boundary = to - v.len
  <2> HIDE DEF to
  <2>1. Boundary \in Nat
    BY <1>2
  <2> QED
    BY <1>2, <1>6, <2>1
<1> HIDE DEF to
<1>11. /\ Sound(b) /\ b.len = buf.len /\ ReadAt(b, to, v.len) = ReadAt(buf, v.pos, v.len)
       /\ \A p \in 1..Allocated(buf) : p <= to - v.len \/ p > to => b.data[p] = buf.data[p]
  BY <1>2, <1>6, <1>9, CopyWithinMoves
<1> HIDE DEF b
<1>12. \A p \in 1..buf.len : p <= Boundary \/ p > buf.len - t => b.data[p] = buf.data[p]
  <2>1. \A p \in 1..buf.len : p \in 1..Allocated(buf)
    BY <1>2, SoundParts
  <2> QED
    BY <1>10, <1>11, <2>1 DEF to
<1>13. UnitWords(u, b) = content[slot] /\ Len(u.inline) <= 3
  BY <1>3, <1>8, <1>11 DEF UnitWords
<1>14. Between(u, last, buf.len - t)
  <2>1. last <= u.pos - u.len /\ u.pos <= to
    BY <1>2, <1>6, <1>8, <1>10
  <2> QED
    BY <2>1 DEF Between, to
<1>15. \A j \in 1..N : j < slot /\ IsSegment(units[j]) => buf.len - t <= units[j].pos - units[j].len
  <2> SUFFICES ASSUME NEW j \in 1..N, j < slot, IsSegment(units[j])
               PROVE  to <= units[j].pos - units[j].len
    BY DEF to
  <2>1. /\ v.pos <= units[j].pos - units[j].len
        /\ units[j].pos \in Nat /\ units[j].len \in Nat
    BY <1>1, <1>3, AboutToPick DEF v
  <2> QED
    BY <1>2, <1>6, <2>1
<1> HIDE DEF t
<1> QED
  BY <1>1, <1>5, <1>8, <1>11, <1>12, <1>13, <1>14, <1>15, PickedInv

\* A segment that stays ends exactly at the boundary and becomes picked.
LEMMA PickStayInv ==
  ASSUME IInv, PickStay
  PROVE  IInv' /\ KeepsEarlierWords
<1> DEFINE v == units[slot]
           t == tail - v.len
<1>1. Picking /\ v.inline = <<>> /\ tail <= PickEnd(v) /\ Picked(v, buf, t)
  BY DEF PickStay
<1>2. /\ slot \in 1..N /\ pc = "pick" /\ v \in UnitType /\ v.len \in Nat /\ v.pos \in Nat
      /\ tail \in Nat /\ buf.len \in Nat /\ tail <= buf.len /\ Sound(buf)
      /\ last \in Nat /\ last <= Boundary /\ Boundary = buf.len - tail
      /\ Between(v, Boundary, buf.len)
      /\ UnitWords(v, buf) = content[slot] /\ Len(v.inline) <= 3
  BY <1>1, AboutToPick
<1>3. IsSegment(v)
  BY <1>1, <1>2, UnpickedIsSegment
<1>4. Boundary <= v.pos - v.len /\ v.pos <= buf.len
  BY <1>2, <1>3 DEF Between
<1>5. t \in Nat /\ t <= tail /\ buf.len - t = v.pos /\ v.pos - v.len = Boundary
  <2>1. PickEnd(v) = buf.len - v.pos + v.len
    BY DEF PickEnd, PickStart
  <2>2. tail <= buf.len - v.pos + v.len /\ buf.len - tail <= v.pos - v.len
    BY <1>1, <1>2, <1>4, <2>1
  <2> HIDE DEF v
  <2>. v.len \in Nat /\ v.pos \in Nat /\ tail \in Nat /\ buf.len \in Nat
    BY <1>2
  <2>3. v.pos - v.len = buf.len - tail /\ v.len <= tail
    BY <1>4, <2>2
  <2>4. t \in Nat /\ t <= tail /\ buf.len - t = v.pos
    BY <2>3
  <2>5. v.pos - v.len = Boundary
    BY <1>2, <2>3
  <2> QED
    BY <2>4, <2>5
<1> HIDE DEF t
<1>6. Between(v, last, buf.len - t)
  <2>1. last <= v.pos - v.len /\ v.pos <= buf.len - t
    BY <1>2, <1>5
  <2> QED
    BY <2>1 DEF Between
<1>7. \A j \in 1..N : j < slot /\ IsSegment(units[j]) => buf.len - t <= units[j].pos - units[j].len
  BY <1>1, <1>3, <1>5, AboutToPick
<1> HIDE DEF v
<1> QED
  BY <1>1, <1>2, <1>5, <1>6, <1>7, PickedInv

-----------------------------------------------------------------------------
(***************************************************************************)
(* Marking the cells, the header, and the theorems.                        *)
(***************************************************************************)

\* The space given up when marking starts holds no segment.
LEMMA StartMarkInv ==
  ASSUME IInv, StartMark
  PROVE  IInv' /\ KeepsEarlierWords
<1>1. TypeOK
  BY DEF IInv
<1>2. /\ pc = "pick" /\ slot = 0 /\ buf' = Shrink(buf, tail) /\ pc' = "mark" /\ slot' = N
      /\ UNCHANGED <<shape, encoder, content, last, units, tail, cells, payloads, widths, result>>
  BY DEF StartMark, copied
<1>3. /\ N \in Nat /\ buf.len \in Nat /\ last \in 0..buf.len /\ tail \in Nat /\ Sound(buf)
  BY <1>1, TypeFacts DEF TypeOK
<1>4. PickingLaidOut
  BY DEF IInv, SegmentsLaidOut
<1>5. tail <= buf.len /\ last <= Boundary /\ Boundary = buf.len - tail
  BY <1>2, <1>4 DEF PickingLaidOut, Boundary
<1>6. tail \in 0..buf.len
  BY <1>3, <1>5
<1>7. Sound(buf') /\ buf'.len = Boundary /\ buf'.data = buf.data
  BY <1>2, <1>3, <1>5, <1>6, ShrinkKeeps
<1>8. TypeOK'
  BY <1>1, <1>2, <1>3, <1>5, <1>7 DEF TypeOK, N, Sound
<1>9. UnitsIntact'
  BY <1>2, <1>7 DEF IInv, UnitsIntact, UnitWords, ReadAt, N
<1>10. MarkingLaidOut'
  <2>1. \A k \in 1..N : k > slot
    BY <1>2, <1>3
  <2>2. \A k \in 1..N : content[k] # <<>> /\ Between(units[k], last, Boundary)
    BY <1>2, <1>4, <2>1 DEF PickingLaidOut
  <2>3. N' = N /\ units' = units /\ content' = content /\ last' = last
    BY <1>2 DEF N
  <2> QED
    BY <1>7, <2>2, <2>3 DEF MarkingLaidOut
<1>11. WritingLaidOut' /\ InPlaceOrder' /\ PickingLaidOut'
  BY <1>2 DEF WritingLaidOut, InPlaceOrder, PickingLaidOut
<1>12. KeepsEarlierWords
  BY <1>3, <1>5, <1>7 DEF KeepsEarlierWords
<1> QED
  BY <1>8, <1>9, <1>10, <1>11, <1>12 DEF IInv, SegmentsLaidOut

\* A marked cell is a cell's worth of words; in particular its offset counts
\* forward, because the payload lies behind the head of the buffer.
LEMMA MarkedCellType ==
  ASSUME IInv, pc = "mark", NEW k \in 1..N, NEW w \in 1..3
  PROVE  MarkedCell(units[k], buf, w) \in Seq(Nat) /\ Len(MarkedCell(units[k], buf, w)) = w
<1>1. /\ units[k] \in UnitType /\ units[k].inline \in Seq(Nat) /\ units[k].pos \in Nat
      /\ units[k].len \in Nat /\ buf.len \in Nat
  BY TypeFacts DEF IInv
<1>2. CASE units[k].inline # <<>>
  BY <1>1, <1>2, PadType DEF MarkedCell
<1>3. CASE units[k].inline = <<>>
  <2>1. units[k].pos <= buf.len
    BY <1>3, UnpickedIsSegment DEF IInv, SegmentsLaidOut, MarkingLaidOut, Between
  <2>2. buf.len + w - units[k].pos \in Nat
    BY <1>1, <2>1
  <2> DEFINE off == buf.len + w - units[k].pos
  <2> HIDE DEF off
  <2>3. Offset(off) \in Nat
    BY <2>2 DEF Offset, off
  <2>4. <<Offset(off)>> \in Seq(Nat)
    BY <2>3
  <2>5. MarkedCell(units[k], buf, w) = Pad(<<Offset(off)>>, w)
    BY <1>3 DEF MarkedCell, off
  <2> QED
    BY <2>4, <2>5, PadType
<1> QED
  BY <1>2, <1>3

\* Growing the buffer at its head disturbs no unit.
LEMMA MarkInv ==
  ASSUME IInv, Mark
  PROVE  IInv' /\ KeepsEarlierWords
<1> DEFINE w    == Width(slot)
           cell == MarkedCell(units[slot], buf, w)
           e    == Expand(buf, w)
           b    == WriteAt(e, buf.len + w, cell)
<1>1. TypeOK
  BY DEF IInv
<1>2. /\ pc = "mark" /\ slot > 0 /\ buf' = b /\ slot' = slot - 1
      /\ UNCHANGED <<shape, encoder, content, last, units, pc, tail, cells, payloads, widths, result>>
  BY DEF Mark, copied
<1>3. /\ N \in Nat /\ slot \in 1..N /\ buf.len \in Nat /\ last \in 0..buf.len /\ Sound(buf)
      /\ \A j \in 1..N : /\ units[j] \in UnitType /\ units[j].pos \in Nat /\ units[j].len \in Nat
      /\ w \in 1..3
  BY <1>1, <1>2, TypeFacts
<1>4. cell \in Seq(Nat) /\ Len(cell) = w
  BY <1>2, <1>3, MarkedCellType
<1> HIDE DEF w, cell
<1>5. w \in Nat /\ buf.len + w \in Nat /\ w <= buf.len + w
  BY <1>3
<1>6. Sound(e) /\ e.len = buf.len + w /\ \A p \in 1..buf.len : e.data[p] = buf.data[p]
  BY <1>3, <1>5, ExpandKeeps
<1> HIDE DEF e
<1>7. Allocated(e) \in Nat /\ buf.len + w <= Allocated(e)
  BY <1>6, SoundParts
<1>8. PICK at \in Nat : at = buf.len + w
  BY <1>5
<1>9. /\ Sound(b) /\ b.len = buf.len + w
      /\ \A p \in 1..buf.len : b.data[p] = buf.data[p]
  <2>1. Len(cell) <= at /\ at <= Allocated(e) /\ b = WriteAt(e, at, cell)
    BY <1>4, <1>6, <1>7, <1>8, <1>5
  <2> HIDE DEF b
  <2>2. /\ Sound(b) /\ b.len = e.len
        /\ \A p \in 1..Allocated(e) :
             b.data[p] = IF at - Len(cell) < p /\ p <= at THEN cell[at - p + 1] ELSE e.data[p]
    BY <1>4, <1>6, <2>1, WriteAtChanges
  <2>3. ASSUME NEW p \in 1..buf.len PROVE b.data[p] = buf.data[p]
    <3>1. p \in 1..Allocated(e) /\ ~(at - Len(cell) < p)
      BY <1>3, <1>4, <1>7, <1>8
    <3> QED
      BY <1>6, <2>2, <3>1
  <2> QED
    BY <1>6, <2>2, <2>3
<1> HIDE DEF b
<1>10. \A j \in 1..N : content[j] # <<>> /\ Between(units[j], last, buf.len)
  BY <1>2 DEF IInv, SegmentsLaidOut, MarkingLaidOut
<1>11. N' = N
  BY <1>2 DEF N
<1>12. TypeOK'
  BY SMTT(30), <1>1, <1>2, <1>3, <1>9 DEF TypeOK, N, Sound
<1>13. UnitsIntact'
  <2> SUFFICES ASSUME NEW j \in 1..N PROVE UnitWords(units[j], b) = content[j]
    BY <1>2, <1>11 DEF UnitsIntact
  <2>1. UnitWords(units[j], buf) = content[j]
    BY <1>2, <1>10 DEF IInv, UnitsIntact
  <2>2. IsSegment(units[j]) =>
          /\ units[j].len <= units[j].pos
          /\ \A p \in (units[j].pos - units[j].len + 1)..units[j].pos : b.data[p] = buf.data[p]
    <3> SUFFICES ASSUME IsSegment(units[j])
                 PROVE  /\ units[j].len <= units[j].pos
                        /\ \A p \in (units[j].pos - units[j].len + 1)..units[j].pos : b.data[p] = buf.data[p]
      OBVIOUS
    <3>1. last <= units[j].pos - units[j].len /\ units[j].pos <= buf.len
      BY <1>10 DEF Between
    <3>2. units[j].len <= units[j].pos
      BY <1>3, <3>1
    <3>3. \A p \in (units[j].pos - units[j].len + 1)..units[j].pos : p \in 1..buf.len
      BY <1>3, <3>1, <3>2
    <3> QED
      BY <1>9, <3>2, <3>3
  <2> QED
    BY <1>3, <2>1, <2>2, UnitWordsKept
<1>14. MarkingLaidOut'
  <2>1. \A j \in 1..N : Between(units[j], last, b.len)
    <3> SUFFICES ASSUME NEW j \in 1..N, IsSegment(units[j])
                 PROVE  last <= units[j].pos - units[j].len /\ units[j].pos <= b.len
      BY DEF Between
    <3>1. last <= units[j].pos - units[j].len /\ units[j].pos <= buf.len
      BY <1>10 DEF Between
    <3> QED
      BY <1>3, <1>9, <3>1
  <2> QED
    BY <1>2, <1>10, <1>11, <2>1 DEF MarkingLaidOut
<1>15. WritingLaidOut' /\ InPlaceOrder' /\ PickingLaidOut'
  BY <1>2 DEF WritingLaidOut, InPlaceOrder, PickingLaidOut
<1>16. KeepsEarlierWords
  <2>1. \A p \in 1..last : p \in 1..buf.len
    BY <1>3
  <2> QED
    BY <1>2, <1>3, <1>9, <2>1 DEF KeepsEarlierWords
<1> QED
  BY <1>12, <1>13, <1>14, <1>15, <1>16 DEF IInv, SegmentsLaidOut

\* The header is prepended; nothing else changes.
LEMMA MarkHeaderInv ==
  ASSUME IInv, MarkHeader
  PROVE  IInv' /\ KeepsEarlierWords
<1> DEFINE header == Header(N, widths)
           b == PutWords(buf, header)
<1>1. TypeOK
  BY DEF IInv
<1>2. /\ Sound(buf) /\ buf.len \in Nat /\ last \in 0..buf.len /\ N \in Nat
  BY <1>1, TypeFacts
<1>3. header \in Seq(Nat)
  BY <1>1, <1>2, HeaderType, ShapeLanes DEF TypeOK
<1>4. /\ buf' = b /\ pc' = "encoded" /\ result' = SegmentUnit(last, buf.len + Len(header))
      /\ UNCHANGED <<shape, encoder, content, last, units, slot, tail, cells, payloads, widths>>
  BY DEF MarkHeader, Finish, copied
<1> HIDE DEF header
<1>5. Sound(b) /\ b.len = buf.len + Len(header) /\ \A p \in 1..buf.len : b.data[p] = buf.data[p]
  BY <1>2, <1>3, PutWordsPrepends
<1> HIDE DEF b
<1>6. Len(header) \in Nat
  BY <1>3
<1>7. result' \in UnitType
  BY <1>2, <1>4, <1>6 DEF SegmentUnit, UnitType
<1>8. last \in Nat /\ last <= b.len
  BY <1>2, <1>5, <1>6
<1>9. TypeOK'
  BY <1>1, <1>4, <1>5, <1>7, <1>8 DEF TypeOK, N, Sound
<1>10. KeepsEarlierWords
  <2>1. \A p \in 1..last : p \in 1..buf.len
    BY <1>2
  <2> QED
    BY <1>4, <1>5, <1>8, <2>1 DEF KeepsEarlierWords
<1> QED
  BY <1>4, <1>9, <1>10, OutcomeInv

\* At the start no unit is written.
LEMMA InitInv == Init => IInv
<1> SUFFICES ASSUME Init PROVE IInv
  OBVIOUS
<1>1. PICK n \in Counts :
        /\ n % Len(shape) = 0
        /\ content = [k \in 1..n |-> <<>>]
        /\ units = [k \in 1..n |-> EmptyUnit]
        /\ slot = n
  BY DEF Init
<1>2. n \in Nat
  BY CountsAssumption
<1>3. EmptyUnit \in UnitType /\ EmptyUnit.inline = <<>> /\ EmptyUnit.len = 0
  BY DEF EmptyUnit, InlineUnit, UnitType
<1>4. units \in Seq(UnitType) /\ N = n /\ \A k \in 1..N : units[k] = EmptyUnit
  BY <1>1, <1>2, <1>3 DEF N
<1>5. content \in Seq(Seq(Nat)) /\ Len(content) = n /\ \A k \in 1..N : content[k] = <<>>
  BY <1>1, <1>2, <1>4
<1>6. /\ shape \in Shapes /\ encoder \in {"in_place", "copying"} /\ buf \in StartBuffers
      /\ last = buf.len /\ pc = "write" /\ tail = 0 /\ cells = <<>> /\ payloads = <<>>
      /\ widths = [l \in DOMAIN shape |-> 1] /\ result = EmptyUnit
  BY DEF Init
<1>7. Sound(buf) /\ buf.len \in Nat
  BY <1>6, StartAssumption DEF Sound, Buffer
<1>8. widths \in Seq(1..3) /\ Len(widths) = Len(shape)
  <2>1. Len(shape) \in Nat /\ DOMAIN shape = 1..Len(shape)
    BY <1>6, ShapeLanes
  <2> QED
    BY <1>6, <2>1
<1>9. TypeOK
  <2>1. \A k \in 1..N : Len(units[k].inline) <= 3
    BY <1>3, <1>4
  <2> QED
    BY <1>1, <1>2, <1>3, <1>4, <1>5, <1>6, <1>7, <1>8, <2>1 DEF TypeOK, Sound
<1>10. UnitsIntact
  BY <1>5 DEF UnitsIntact
<1>11. \A k \in 1..N : ~IsSegment(units[k])
  BY <1>3, <1>4 DEF IsSegment
<1>12. WritingLaidOut
  BY <1>11 DEF WritingLaidOut, Between
<1>13. InPlaceOrder
  <2>1. \A k \in 1..N : ~(k > slot)
    BY <1>1, <1>2, <1>4
  <2> QED
    BY <1>4, <1>5, <1>11, <2>1 DEF InPlaceOrder
<1>14. PickingLaidOut /\ MarkingLaidOut
  BY <1>6 DEF PickingLaidOut, MarkingLaidOut
<1> QED
  BY <1>9, <1>10, <1>12, <1>13, <1>14 DEF IInv, SegmentsLaidOut

\* Every step preserves the invariant and the words before `last`.
LEMMA NextInv ==
  ASSUME IInv, [Next]_vars
  PROVE  IInv' /\ KeepsEarlierWords
<1>1. CASE WriteInline
  BY <1>1, WriteInlineInv
<1>2. CASE WriteSegment
  BY <1>2, WriteSegmentInv
<1>3. ASSUME NEW k \in 1..N, Fold(k) PROVE IInv' /\ KeepsEarlierWords
  BY <1>3, FoldInv
<1>4. CASE WriteFails
  BY <1>4, WriteFailsInv
<1>5. CASE EncodeEmpty
  BY <1>5, EncodeEmptyInv
<1>6. CASE Refuse
  BY <1>6, RefuseInv
<1>7. CASE StartCopy
  BY <1>7, StartCopyInv
<1>8. ASSUME NEW k \in 1..N, CopyIntoCell(k) \/ CopyOutline(k) PROVE IInv' /\ KeepsEarlierWords
  BY <1>8, CopyStepInv
<1>9. CASE CopyHeader
  BY <1>9, CopyHeaderInv
<1>10. CASE StartPick
  BY <1>10, StartPickInv
<1>11. CASE PickInline
  BY <1>11, PickInlineInv
<1>12. CASE PickIntoCell
  BY <1>12, PickIntoCellInv
<1>13. CASE PickMove
  BY <1>13, PickMoveInv
<1>14. CASE PickStay
  BY <1>14, PickStayInv
<1>15. CASE StartMark
  BY <1>15, StartMarkInv
<1>16. CASE Mark
  BY <1>16, MarkInv
<1>17. CASE MarkHeader
  BY <1>17, MarkHeaderInv
<1>18. CASE UNCHANGED vars
  <2>1. UNCHANGED <<shape, encoder, content, buf, last, units, pc, slot, tail,
                    cells, payloads, widths, result>>
    BY <1>18 DEF vars
  <2>2. TypeOK'
    BY <2>1 DEF IInv, TypeOK, N
  <2>3. UnitsIntact'
    BY <2>1 DEF IInv, UnitsIntact, N
  <2>4. SegmentsLaidOut'
    BY <2>1 DEF IInv, SegmentsLaidOut, WritingLaidOut, InPlaceOrder, PickingLaidOut,
                MarkingLaidOut, N, Boundary
  <2> QED
    BY <2>1, <2>2, <2>3, <2>4, SameBufferKeeps DEF IInv
<1> QED
  BY <1>1, <1>2, <1>3, <1>4, <1>5, <1>6, <1>7, <1>8, <1>9, <1>10, <1>11, <1>12, <1>13,
     <1>14, <1>15, <1>16, <1>17, <1>18 DEF Next, Pick

\* The layout of the segments leaves `tail` room for what is still to be picked.
LEMMA TailFollows == IInv => TailCoversUnpicked
<1> SUFFICES ASSUME IInv, pc = "pick", NEW k \in 1..slot, units[k].inline = <<>>
             PROVE  PickEnd(units[k]) <= tail /\ units[k].pos <= buf.len
  BY DEF TailCoversUnpicked
<1>1. /\ slot \in 0..N /\ N \in Nat /\ buf.len \in Nat /\ tail \in Nat
  BY TypeFacts DEF IInv, TypeOK
<1>2. k \in 1..N /\ k <= slot
  BY <1>1
<1>3. units[k].pos \in Nat /\ units[k].len \in Nat
  BY <1>2, TypeFacts DEF IInv
<1>4. Between(units[k], Boundary, buf.len) /\ tail <= buf.len
  BY <1>2 DEF IInv, SegmentsLaidOut, PickingLaidOut
<1>5. IsSegment(units[k])
  BY <1>2, UnpickedIsSegment
<1>6. buf.len - tail <= units[k].pos - units[k].len /\ units[k].pos <= buf.len
  BY <1>4, <1>5 DEF Between, Boundary
<1>7. PickEnd(units[k]) = buf.len - units[k].pos + units[k].len
  BY DEF PickEnd, PickStart
<1> QED
  BY <1>1, <1>3, <1>4, <1>6, <1>7

\* The inductive invariant holds in every reachable state.
THEOREM Invariance == Spec => []IInv
<1>1. Init => IInv
  BY InitInv
<1>2. IInv /\ [Next]_vars => IInv'
  BY NextInv
<1> QED
  BY <1>1, <1>2, PTL DEF Spec

(***************************************************************************)
(* Types: in particular a segment's bounds, the free space and the offsets *)
(* computed from them never go below zero.                                 *)
(***************************************************************************)
THEOREM TypeCorrect == Spec => []TypeOK
<1>1. IInv => TypeOK
  BY DEF IInv
<1> QED
  BY <1>1, Invariance, PTL

(***************************************************************************)
(* Folding, picking and marking never damage the words of a written unit   *)
(* (fold_field, pick_unit and mark_unit of serialize.rs).                  *)
(***************************************************************************)
THEOREM UnitsStayIntact == Spec => []UnitsIntact
<1>1. IInv => UnitsIntact
  BY DEF IInv
<1> QED
  BY <1>1, Invariance, PTL

(***************************************************************************)
(* The segments stay in bounds, apart, and in the order compaction needs.  *)
(***************************************************************************)
THEOREM SegmentsStayLaidOut == Spec => []SegmentsLaidOut
<1>1. IInv => SegmentsLaidOut
  BY DEF IInv
<1> QED
  BY <1>1, Invariance, PTL

(***************************************************************************)
(* pick_unit's debug_assert never fires: `tail` has room for every segment *)
(* that is still to be picked.                                             *)
(***************************************************************************)
THEOREM TailNeverUnderflows == Spec => []TailCoversUnpicked
<1>1. IInv => TailCoversUnpicked
  BY TailFollows
<1> QED
  BY <1>1, Invariance, PTL

(***************************************************************************)
(* No step of encoding a container touches the words of fields encoded     *)
(* before it.                                                              *)
(***************************************************************************)
THEOREM EarlierWordsAreKept == Spec => EarlierWordsKept
<1>1. IInv /\ [Next]_vars => KeepsEarlierWords
  BY NextInv
<1> QED
  BY <1>1, Invariance, PTL DEF Spec, EarlierWordsKept

-----------------------------------------------------------------------------
(***************************************************************************)
(* Where the words are.  UnitsIntact says that no word is lost; Faithful   *)
(* says, of every step of both encoders, which words are already where the *)
(* layout has them: the cells and payloads gathered, the segments that     *)
(* have been picked, the cells that have been marked.                      *)
(***************************************************************************)

\* Slots a copying caller has still to write.
ToWrite(k) ==
  IF Len(shape) = 1 THEN k > N - slot
  ELSE IF slot % 2 = 0 THEN k <= slot ELSE k < slot \/ k = slot + 1

\* Before the call exactly the slots still to be written are empty.
WritesInOrder ==
  pc = "write" =>
    /\ cells = <<>> /\ payloads = <<>>
    /\ encoder = "copying" => \A k \in 1..N : content[k] = <<>> <=> ToWrite(k)

\* A slot's words are among those it may hold.
WordsChosen == \A k \in 1..N : content[k] # <<>> => content[k] \in Contents(k, Kind(k))

\* While an encoder works every slot is written, and widths and size are
\* those of the slots' words.
Encoding ==
  pc \in {"copy", "pick", "mark"} =>
    /\ N > 0
    /\ \A k \in 1..N : content[k] # <<>>
    /\ widths = Widths(Sizes(content), shape)
    /\ EncodedSize(Sizes(content), shape) < SizeLimit

\* Places within the container, and the words meant for a cell.
CStart(k) == CellStart(widths, shape, k)

PStart(k) == PayloadStart(Sizes(content), widths, shape, k)

CellOf(k) == Cell(content, widths, shape, k)

IsOutlined(k) == Len(content[k]) > Width(k)

\* The words of the container behind its header.
Extent == PStart(N + 1)

\* The distance from the end of what follows the first `start` of them.
FromEnd(start) == last + (Extent - start)

\* What the copying encoder has gathered of slot k.
CellGathered(k) ==
  /\ CStart(k) + Width(k) <= Len(cells)
  /\ \A j \in 1..Width(k) : cells[CStart(k) + j] = CellOf(k)[j]

PayloadGathered(k) ==
  IsOutlined(k) =>
    /\ (PStart(k) - PStart(1)) + Len(content[k]) <= Len(payloads)
    /\ \A j \in 1..Len(content[k]) : payloads[(PStart(k) - PStart(1)) + j] = content[k][j]

\* It has gathered the cells and payloads of the slots it has passed.
Gathered ==
  pc = "copy" =>
    /\ Len(cells) = CStart(N - slot + 1)
    /\ Len(payloads) = PStart(N - slot + 1) - PStart(1)
    /\ \A k \in 1..(N - slot) : CellGathered(k) /\ PayloadGathered(k)

\* A picked unit is inline, or its words are where the layout has them.
Settled(k) ==
  IF IsOutlined(k)
  THEN units[k].inline = <<>> /\ units[k].len = Len(content[k]) /\ units[k].pos = FromEnd(PStart(k))
  ELSE units[k].inline # <<>>

\* What is picked is compacted at the end, first slot first.
Compacted ==
  pc = "pick" =>
    /\ Boundary = FromEnd(PStart(slot + 1))
    /\ \A k \in 1..N : Len(units[k].inline) <= Width(k)
    /\ \A k \in 1..N : k > slot => Settled(k)

\* A marked cell holds what the layout has there.
CellMarked(k) ==
  /\ FromEnd(CStart(k)) <= buf.len
  /\ ReadAt(buf, FromEnd(CStart(k)), Width(k)) = CellOf(k)

\* The cells are marked from the last to the first.
Marked ==
  pc = "mark" =>
    /\ buf.len = FromEnd(CStart(slot + 1))
    /\ \A k \in 1..N : Settled(k)
    /\ \A k \in 1..N : k > slot => CellMarked(k)

\* The encoded container is the layout of its slots' words.
EncodedIsLayout ==
  pc = "encoded" /\ content # <<>> =>
    /\ \A k \in 1..N : content[k] # <<>>
    /\ UnitWords(result, buf) = Layout(content, shape)
    /\ EncodedSize(Sizes(content), shape) < SizeLimit

\* The words are where they belong.
Faithful ==
  /\ WritesInOrder /\ WordsChosen /\ Encoding /\ Gathered /\ Compacted /\ Marked
  /\ EncodedIsLayout

-----------------------------------------------------------------------------
(***************************************************************************)
(* Where the words go: the encoders build the words of Layout.             *)
(***************************************************************************)

\* The layout of the slots' words, in the form the proofs use it.
LEMMA Geometry ==
  ASSUME TypeOK
  PROVE  /\ Shaped(shape, widths) /\ N \in Nat /\ Len(content) = N
         /\ Extent \in Nat /\ Extent = BodyLength(content, widths, shape)
         /\ \A k \in 1..(N + 1) : /\ CStart(k) \in Nat /\ PStart(k) \in Nat
                                  /\ CStart(k) <= PStart(1) /\ PStart(1) <= PStart(k)
                                  /\ PStart(k) <= Extent
         /\ CStart(1) = 0 /\ CStart(N + 1) = PStart(1) /\ PStart(N + 1) = Extent
         /\ \A k \in 1..N : /\ CStart(k + 1) = CStart(k) + Width(k)
                            /\ PStart(k + 1) = PStart(k) + IF IsOutlined(k) THEN Len(content[k]) ELSE 0
                            /\ Width(k) \in 1..3 /\ Len(content[k]) \in Nat
                            /\ CellOf(k) \in Seq(Nat) /\ Len(CellOf(k)) = Width(k)
<1>1. PICK n \in Nat : n = N /\ n = Len(content)
  BY TypeFacts
<1>2. content \in Seq(Seq(Nat)) /\ shape \in Shapes /\ widths \in Seq(1..3) /\ Len(widths) = Len(shape)
  BY DEF TypeOK
<1>3. Shaped(shape, widths)
  BY <1>2, ShapeLanes DEF Shaped
<1>4. PICK sizes \in Seq(Nat) : /\ sizes = Sizes(content) /\ Len(sizes) = n
                                /\ \A k \in 1..n : sizes[k] = Len(content[k]) /\ Len(content[k]) \in Nat
  BY <1>1, <1>2, SizesType
<1>5. \A k \in 1..(n + 1) : /\ CStart(k) \in Nat /\ PStart(k) \in Nat
                            /\ CStart(k) <= PStart(1) /\ PStart(1) <= PStart(k)
                            /\ PStart(k) <= PStart(n + 1)
  BY <1>3, <1>4, Places DEF CStart, PStart
<1>6. CStart(1) = 0 /\ CStart(n + 1) = PStart(1)
  BY <1>3, <1>4, CellStartStep, PayloadStartStep, ZenonT(30) DEF CStart, PStart
<1>7. Extent = PStart(n + 1) /\ Extent \in Nat /\ Extent = BodyLength(content, widths, shape)
  <2>1. n + 1 \in 1..(n + 1)
    OBVIOUS
  <2> QED BY <1>1, <1>5, <2>1 DEF Extent, BodyLength, PStart
<1>8. ASSUME NEW k \in 1..n
      PROVE  /\ CStart(k + 1) = CStart(k) + Width(k)
             /\ PStart(k + 1) = PStart(k) + IF IsOutlined(k) THEN Len(content[k]) ELSE 0
             /\ Width(k) \in 1..3 /\ Len(content[k]) \in Nat
             /\ CellOf(k) \in Seq(Nat) /\ Len(CellOf(k)) = Width(k)
  <2>1. k \in Nat \ {0}
    OBVIOUS
  <2>2. CStart(k + 1) = CStart(k) + Width(k)
    BY <1>3, <2>1, CellStartStep DEF CStart, Width
  <2>3. PStart(k + 1) = PStart(k) + Payload(sizes, widths, shape, k)
    BY <1>3, <1>4, PayloadStartStep, ZenonT(30) DEF PStart
  <2>4. Payload(sizes, widths, shape, k) = IF IsOutlined(k) THEN Len(content[k]) ELSE 0
    BY <1>4 DEF Payload, IsOutlined, Width
  <2>5. /\ CellOf(k) \in Seq(Nat) /\ Len(CellOf(k)) = Width(k) /\ Width(k) \in 1..3
    BY <1>1, <1>2, <1>3, CellWords DEF CellOf, Width
  <2> QED BY <1>4, <2>2, <2>3, <2>4, <2>5
<1> QED BY <1>1, <1>3, <1>5, <1>6, <1>7, <1>8

\* The layout depends on the slots' words and the widths only.
LEMMA SameLayout ==
  ASSUME shape' = shape, content' = content, widths' = widths, last' = last, N' = N
  PROVE  /\ Extent' = Extent
         /\ \A k : /\ CStart(k)' = CStart(k) /\ PStart(k)' = PStart(k)
                   /\ Width(k)' = Width(k) /\ CellOf(k)' = CellOf(k)
                   /\ IsOutlined(k)' <=> IsOutlined(k)
         /\ \A s : FromEnd(s)' = FromEnd(s)
BY DEF Extent, CStart, PStart, Width, CellOf, IsOutlined, FromEnd

\* The words chosen for the slots stay so while no slot is written.
LEMMA StillChosen ==
  ASSUME WordsChosen, shape' = shape, content' = content, N' = N
  PROVE  WordsChosen'
BY DEF WordsChosen, Kind

\* What the encoders start from stays so while they work.
LEMMA StillEncoding ==
  ASSUME Encoding, pc \in {"copy", "pick", "mark"},
         shape' = shape, content' = content, widths' = widths, N' = N
  PROVE  Encoding'
BY DEF Encoding

\* A unit that stands for its slot's words is as long as they are.
LEMMA UnitSizeIs ==
  ASSUME IInv, NEW k \in 1..N, UnitWords(units[k], buf) = content[k]
  PROVE  UnitSize(units[k]) = Len(content[k])
<1>1. units[k].inline \in Seq(Nat) /\ units[k].len \in Nat
  BY TypeFacts DEF IInv
<1> QED
  BY <1>1 DEF UnitSize, UnitWords, ReadAt

\* When an encoder is called every slot is written and measured.
LEMMA CallFacts ==
  ASSUME IInv, Faithful, Called
  PROVE  /\ \A k \in 1..N : content[k] # <<>>
         /\ UnitSizes = Sizes(content)
         /\ cells = <<>> /\ payloads = <<>>
<1>1. TypeOK /\ pc = "write" /\ slot = 0
  BY DEF IInv, Called
<1>2. N \in Nat /\ Len(content) = N
  BY <1>1, TypeFacts
<1>3. \A k \in 1..N : content[k] # <<>>
  <2>1. CASE encoder = "in_place"
    <3>1. \A k \in 1..N : k > slot
      BY <1>1, <1>2
    <3> QED
      BY <1>1, <2>1, <3>1 DEF IInv, SegmentsLaidOut, InPlaceOrder
  <2>2. CASE encoder = "copying"
    <3>1. \A k \in 1..N : ~ToWrite(k)
      BY <1>1, <1>2 DEF ToWrite
    <3> QED
      BY <1>1, <2>2, <3>1 DEF Faithful, WritesInOrder
  <2> QED
    BY <1>1, <2>1, <2>2 DEF TypeOK
<1>4. \A k \in 1..N : UnitSize(units[k]) = Len(content[k])
  <2> TAKE k \in 1..N
  <2>1. UnitWords(units[k], buf) = content[k]
    BY <1>1, <1>3 DEF IInv, UnitsIntact
  <2> QED
    BY <2>1, UnitSizeIs
<1>5. DOMAIN units = 1..N
  BY <1>1 DEF TypeOK, N
<1> QED
  BY <1>1, <1>2, <1>3, <1>4, <1>5 DEF UnitSizes, Sizes, Faithful, WritesInOrder

-----------------------------------------------------------------------------

\* The slot written next is one that was not, and all others stay as they are.
LEMMA NextSlotIsFree ==
  ASSUME IInv, Faithful, pc = "write", slot > 0
  PROVE  content[NextSlot] = <<>>
<1>1. TypeOK /\ NextSlot \in 1..N
  BY NextSlotExists DEF IInv
<1>2. N \in Nat /\ slot \in 1..N
  BY <1>1, TypeFacts
<1>3. CASE encoder = "in_place"
  BY <1>1, <1>2, <1>3 DEF NextSlot, IInv, SegmentsLaidOut, InPlaceOrder
<1>4. CASE encoder = "copying"
  <2>1. ToWrite(NextSlot)
    <3>1. Len(shape) \in {1, 2}
      BY <1>1, ShapeLanes DEF TypeOK
    <3>2. CASE Len(shape) = 1
      BY <1>2, <1>4, <3>2 DEF NextSlot, ToWrite
    <3>3. CASE Len(shape) = 2
      <4>1. NextSlot = IF slot % 2 = 0 THEN slot - 1 ELSE slot + 1
        BY <1>4, <3>3 DEF NextSlot
      <4> QED
        BY <1>2, <3>3, <4>1 DEF ToWrite
    <3> QED
      BY <3>1, <3>2, <3>3
  <2> QED
    BY <1>1, <1>4, <2>1 DEF Faithful, WritesInOrder
<1> QED
  BY <1>1, <1>3, <1>4 DEF TypeOK

\* Writing a slot takes it off the slots to be written.
LEMMA StoreFaithful ==
  ASSUME IInv, Faithful, pc = "write", slot > 0,
         NEW value \in Contents(NextSlot, Kind(NextSlot)), NEW b, NEW u \in UnitType,
         Store(NextSlot, value, b, u)
  PROVE  Faithful'
<1>1. TypeOK /\ NextSlot \in 1..N
  BY NextSlotExists DEF IInv
<1>2. PICK k \in 1..N : k = NextSlot
  BY <1>1
<1>3. N \in Nat /\ slot \in 1..N /\ Len(content) = N
  BY <1>1, TypeFacts
<1>4. value \in Seq(Nat) \ {<<>>}
  BY <1>1, ContentsType
<1>5. /\ content' = [content EXCEPT ![k] = value] /\ slot' = slot - 1 /\ pc' = "write"
      /\ units' = [units EXCEPT ![k] = u] /\ shape' = shape /\ encoder' = encoder
      /\ cells' = cells /\ payloads' = payloads
  BY <1>2 DEF Store, copied
<1>6. N' = N
  BY <1>1, <1>2, <1>5, UnitReplaced DEF N
<1>7. \A j \in 1..N : content'[j] = IF j = k THEN value ELSE content[j]
  BY <1>1, <1>2, <1>4, <1>5, ContentReplaced
<1>8. WordsChosen'
  <2>1. \A j \in 1..N : Kind(j)' = Kind(j)
    BY <1>5 DEF Kind
  <2> QED
    BY <1>2, <1>6, <1>7, <2>1 DEF WordsChosen, Faithful
<1>9. WritesInOrder'
  <2>1. ASSUME encoder = "copying", NEW j \in 1..N
        PROVE  content'[j] = <<>> <=> ToWrite(j)'
    <3>1. content[j] = <<>> <=> ToWrite(j)
      BY <2>1 DEF Faithful, WritesInOrder
    <3>2. Len(shape) \in {1, 2} /\ N % Len(shape) = 0
      BY <1>1, ShapeLanes DEF TypeOK
    <3>3. ToWrite(j)' <=> (ToWrite(j) /\ j # k)
      <4>1. CASE Len(shape) = 1
        <5>1. k = N - slot + 1
          BY <1>2, <2>1, <4>1 DEF NextSlot
        <5>2. /\ ToWrite(j)  <=> j > N - slot
              /\ ToWrite(j)' <=> j > N - (slot - 1)
          BY <1>5, <1>6, <4>1 DEF ToWrite
        <5> QED
          BY <1>3, <5>1, <5>2
      <4>2. CASE Len(shape) = 2
        <5>1. k = IF slot % 2 = 0 THEN slot - 1 ELSE slot + 1
          BY <1>2, <2>1, <4>2 DEF NextSlot
        <5>2. /\ ToWrite(j)  <=> IF slot % 2 = 0 THEN j <= slot ELSE j < slot \/ j = slot + 1
              /\ ToWrite(j)' <=> IF (slot - 1) % 2 = 0 THEN j <= slot - 1
                                 ELSE j < slot - 1 \/ j = (slot - 1) + 1
          BY <1>5, <4>2 DEF ToWrite
        <5> QED
          BY <1>3, <5>1, <5>2
      <4> QED
        BY <3>2, <4>1, <4>2
    <3> QED
      BY <1>4, <1>7, <3>1, <3>3
  <2> QED
    BY <1>5, <1>6, <2>1 DEF Faithful, WritesInOrder
<1> QED
  BY <1>5, <1>8, <1>9 DEF Faithful, Encoding, Gathered, Compacted, Marked, EncodedIsLayout

\* Writing a slot, inline or as a segment.
LEMMA WriteFaithful ==
  ASSUME IInv, Faithful, WriteInline \/ WriteSegment
  PROVE  Faithful'
<1>1. TypeOK /\ pc = "write" /\ slot > 0 /\ NextSlot \in 1..N
  BY NextSlotExists DEF IInv, WriteInline, WriteSegment
<1>2. CASE WriteInline
  <2>1. PICK value \in Contents(NextSlot, Kind(NextSlot)) :
          Store(NextSlot, value, buf, InlineUnit(value))
    BY <1>2 DEF WriteInline
  <2>2. InlineUnit(value) \in UnitType
    BY <1>1, <2>1, ContentsType DEF InlineUnit, UnitType
  <2> QED
    BY <1>1, <2>1, <2>2, StoreFaithful
<1>3. CASE WriteSegment
  <2>1. PICK value \in Contents(NextSlot, Kind(NextSlot)) :
          Store(NextSlot, value, PutWords(buf, value), SegmentUnit(buf.len, buf.len + Len(value)))
    BY <1>3 DEF WriteSegment
  <2>2. value \in Seq(Nat) /\ buf.len \in Nat
    BY <1>1, <2>1, ContentsType, TypeFacts
  <2>3. SegmentUnit(buf.len, buf.len + Len(value)) \in UnitType
    BY <2>2 DEF SegmentUnit, UnitType
  <2> QED
    BY <1>1, <2>1, <2>3, StoreFaithful
<1> QED
  BY <1>2, <1>3

\* Folding a unit writes no slot.
LEMMA FoldFaithful ==
  ASSUME IInv, Faithful, NEW k \in 1..N, Fold(k)
  PROVE  Faithful'
<1>1. /\ pc = "write" /\ pc' = "write" /\ shape' = shape /\ content' = content /\ slot' = slot
      /\ encoder' = encoder /\ cells' = cells /\ payloads' = payloads
      /\ units' = [units EXCEPT ![k] = InlineUnit(ReadAt(buf, units[k].pos, units[k].len))]
  BY DEF Fold, copied
<1>2. N' = N
  BY <1>1 DEF N, IInv, TypeOK
<1>3. WordsChosen'
  BY <1>1, <1>2, StillChosen DEF Faithful
<1>4. \A j : ToWrite(j)' <=> ToWrite(j)
  BY <1>1, <1>2 DEF ToWrite
<1>5. WritesInOrder'
  BY <1>1, <1>2, <1>4 DEF Faithful, WritesInOrder
<1> QED
  BY <1>1, <1>3, <1>5 DEF Faithful, Encoding, Gathered, Compacted, Marked, EncodedIsLayout

\* Nothing is claimed after a failure or a refusal.
LEMMA GivenUpFaithful ==
  ASSUME IInv, Faithful, WriteFails \/ Refuse
  PROVE  Faithful'
<1>1. /\ pc' \in {"failed", "refused"} /\ shape' = shape /\ content' = content /\ units' = units
  BY DEF WriteFails, Refuse
<1>2. WordsChosen'
  BY <1>1, StillChosen DEF Faithful, N
<1> QED
  BY <1>1, <1>2 DEF Faithful, WritesInOrder, Encoding, Gathered, Compacted, Marked, EncodedIsLayout

\* An empty container has no slots to be laid out.
LEMMA EncodeEmptyFaithful ==
  ASSUME IInv, Faithful, EncodeEmpty
  PROVE  Faithful'
<1>1. /\ pc' = "encoded" /\ shape' = shape /\ content' = content /\ units' = units /\ N = 0
  BY DEF EncodeEmpty, Finish
<1>2. content' = <<>>
  <2>1. content \in Seq(Seq(Nat)) /\ Len(content) = 0
    BY <1>1, TypeFacts DEF IInv, TypeOK
  <2> QED
    BY <1>1, <2>1
<1>3. WordsChosen'
  BY <1>1, StillChosen DEF Faithful, N
<1> QED
  BY <1>1, <1>2, <1>3 DEF Faithful, WritesInOrder, Encoding, Gathered, Compacted, Marked, EncodedIsLayout

\* An encoder that starts to work has the written slots and their widths.
LEMMA StartEncoding ==
  ASSUME IInv, Faithful, Called, N > 0, EncodedSize(UnitSizes, shape) < SizeLimit,
         shape' = shape, content' = content, units' = units,
         widths' = Widths(UnitSizes, shape)
  PROVE  Encoding' /\ WordsChosen'
<1>1. UnitSizes = Sizes(content) /\ \A k \in 1..N : content[k] # <<>>
  BY CallFacts
<1>2. N' = N
  BY DEF N
<1> QED
  BY <1>1, <1>2, StillChosen DEF Encoding, Faithful

\* Where the layout chosen by a step begins.
LEMMA GeometryAfter ==
  ASSUME TypeOK'
  PROVE  CStart(1)' = 0 /\ PStart(1)' \in Nat /\ Extent' \in Nat
<1>1. PICK c \in Seq(Seq(Nat)), s \in Shapes, w \in Seq(1..3) :
        c = content' /\ s = shape' /\ w = widths' /\ Len(w) = Len(s)
  BY DEF TypeOK
<1>2. PICK n \in Nat : n = N' /\ n = Len(c)
  BY <1>1 DEF TypeOK, N
<1>3. Shaped(s, w)
  BY <1>1, ShapeLanes DEF Shaped
<1>4. PICK sizes \in Seq(Nat) : sizes = Sizes(c) /\ Len(sizes) = n
  BY <1>2, SizesType
<1>5. 1 \in 1..(n + 1) /\ n + 1 \in 1..(n + 1)
  OBVIOUS
<1>6. PayloadStart(sizes, w, s, 1) \in Nat /\ PayloadStart(sizes, w, s, n + 1) \in Nat
  BY <1>3, <1>4, <1>5, Places
<1>7. CellStart(w, s, 1) = 0
  BY <1>3, CellStartStep
<1> QED
  BY <1>1, <1>2, <1>4, <1>6, <1>7 DEF CStart, PStart, Extent

\* Nothing is gathered when copying starts.
LEMMA StartCopyFaithful ==
  ASSUME IInv, Faithful, StartCopy, TypeOK'
  PROVE  Faithful'
<1>1. /\ Called /\ N > 0 /\ EncodedSize(UnitSizes, shape) < SizeLimit
      /\ widths' = Widths(UnitSizes, shape) /\ pc' = "copy" /\ slot' = N
      /\ shape' = shape /\ content' = content /\ units' = units
      /\ cells' = cells /\ payloads' = payloads
  BY DEF StartCopy, copied
<1>2. Encoding' /\ WordsChosen'
  BY <1>1, StartEncoding
<1>3. cells' = <<>> /\ payloads' = <<>>
  BY <1>1, CallFacts
<1>4. N' = N /\ N' \in Nat
  BY <1>1, TypeFacts DEF N, IInv
<1>5. CStart(1)' = 0 /\ PStart(1)' \in Nat
  BY GeometryAfter
<1>6. Gathered'
  <2>1. N' - slot' + 1 = 1 /\ N' - slot' = 0
    BY <1>1, <1>4
  <2>2. Len(cells') = CStart(N - slot + 1)'
    BY <1>3, <1>5, <2>1
  <2>3. Len(payloads') = PStart(N - slot + 1)' - PStart(1)'
    BY <1>3, <1>5, <2>1
  <2>4. 1..(N' - slot') = {}
    BY <2>1
  <2> QED
    BY <2>2, <2>3, <2>4 DEF Gathered
<1> QED
  BY <1>1, <1>2, <1>6 DEF Faithful, WritesInOrder, Compacted, Marked, EncodedIsLayout

\* The words of a range of a sequence.
LEMMA WithinSum ==
  \A x, w, m, d \in Nat : x + w <= m => x + w <= m + d /\ \A j \in 1..w : x + j \in 1..m
OBVIOUS

\* What is gathered of a slot stays where it is when more is appended.
LEMMA StillGathered ==
  ASSUME TypeOK, NEW k \in 1..N, NEW c \in Seq(Nat), NEW p \in Seq(Nat),
         CellGathered(k), PayloadGathered(k),
         shape' = shape, content' = content, widths' = widths, last' = last, N' = N,
         cells' = cells \o c, payloads' = payloads \o p
  PROVE  CellGathered(k)' /\ PayloadGathered(k)'
<1>1. /\ CStart(k)' = CStart(k) /\ PStart(k)' = PStart(k) /\ PStart(1)' = PStart(1)
      /\ Width(k)' = Width(k) /\ CellOf(k)' = CellOf(k) /\ (IsOutlined(k)' <=> IsOutlined(k))
  BY SameLayout
<1>2. PICK x, y, z, w, l, r \in Nat :
        /\ x = CStart(k) /\ y = PStart(k) /\ z = PStart(1) /\ z <= y /\ r = y - z
        /\ w = Width(k) /\ l = Len(content[k])
  <2>1. k \in 1..(N + 1) /\ 1 \in 1..(N + 1) /\ k \in 1..N
    BY TypeFacts
  <2>2. CStart(k) \in Nat /\ PStart(k) \in Nat /\ PStart(1) \in Nat /\ PStart(1) <= PStart(k)
    BY <2>1, Geometry
  <2>3. Width(k) \in Nat /\ Len(content[k]) \in Nat
    BY <2>1, Geometry
  <2>4. PStart(k) - PStart(1) \in Nat
    BY <2>2
  <2> QED
    BY <2>2, <2>3, <2>4
<1>3. cells \in Seq(Nat) /\ payloads \in Seq(Nat)
  BY DEF TypeOK
<1>4. /\ Len(cells') = Len(cells) + Len(c)
      /\ \A i \in 1..Len(cells) : cells'[i] = cells[i]
  BY <1>3, ConcatPlaces
<1>5. /\ Len(payloads') = Len(payloads) + Len(p)
      /\ \A i \in 1..Len(payloads) : payloads'[i] = payloads[i]
  BY <1>3, ConcatPlaces
<1>6. PICK m, n, cl, pl \in Nat : m = Len(cells) /\ n = Len(payloads) /\ cl = Len(c) /\ pl = Len(p)
  BY <1>3
<1>7. CellGathered(k)'
  <2>1. x + w <= m /\ \A j \in 1..w : cells[x + j] = CellOf(k)[j]
    BY <1>2, <1>6 DEF CellGathered
  <2>2. x + w <= m + cl /\ \A j \in 1..w : x + j \in 1..m
    BY <2>1, WithinSum
  <2>3. \A j \in 1..w : cells'[x + j] = CellOf(k)[j]
    BY <1>4, <1>6, <2>1, <2>2
  <2> QED
    BY <1>1, <1>2, <1>4, <1>6, <2>2, <2>3 DEF CellGathered
<1>8. PayloadGathered(k)'
  <2> SUFFICES ASSUME IsOutlined(k)
               PROVE  /\ r + l <= Len(payloads')
                      /\ \A j \in 1..l : payloads'[r + j] = content[k][j]
    BY <1>1, <1>2 DEF PayloadGathered
  <2>1. r + l <= n /\ \A j \in 1..l : payloads[r + j] = content[k][j]
    BY <1>2, <1>6 DEF PayloadGathered
  <2>2. r + l <= n + pl /\ \A j \in 1..l : r + j \in 1..n
    BY <2>1, WithinSum
  <2> QED
    BY <1>5, <1>6, <2>1, <2>2
<1> QED
  BY <1>7, <1>8

\* Copying a slot appends its cell, and its words when they do not fit it.
LEMMA CopyStepFaithful ==
  ASSUME IInv, Faithful, NEW k \in 1..N, CopyIntoCell(k) \/ CopyOutline(k)
  PROVE  Faithful'
<1>1. TypeOK
  BY DEF IInv
<1>2. /\ pc = "copy" /\ pc' = "copy" /\ slot > 0 /\ slot' = slot - 1 /\ k = N - slot + 1
      /\ shape' = shape /\ content' = content /\ widths' = widths /\ last' = last
      /\ units' = units
  BY DEF CopyIntoCell, CopyOutline, Copying
<1>3. N' = N /\ N \in Nat /\ slot \in 1..N
  BY <1>1, <1>2, TypeFacts DEF N
<1>4. UnitWords(units[k], buf) = content[k]
  BY <1>2 DEF IInv, UnitsIntact, Faithful, Encoding
<1>5. /\ cells \in Seq(Nat) /\ payloads \in Seq(Nat) /\ content[k] \in Seq(Nat)
      /\ CellOf(k) \in Seq(Nat) /\ Len(CellOf(k)) = Width(k) /\ Width(k) \in 1..3
  BY <1>1, TypeFacts, Geometry DEF TypeOK
<1>6. PICK x, y, z, w, l, r \in Nat :
        /\ x = CStart(k) /\ y = PStart(k) /\ z = PStart(1) /\ z <= y /\ x <= z /\ r = y - z
        /\ w = Width(k) /\ l = Len(content[k])
  <2>1. k \in 1..(N + 1) /\ 1 \in 1..(N + 1)
    BY <1>3
  <2>2. CStart(k) \in Nat /\ PStart(k) \in Nat /\ PStart(1) \in Nat /\ PStart(1) <= PStart(k)
        /\ CStart(k) <= PStart(1)
    BY <1>1, <2>1, Geometry
  <2>3. Width(k) \in Nat /\ Len(content[k]) \in Nat
    BY <1>1, Geometry
  <2>4. PStart(k) - PStart(1) \in Nat
    BY <2>2
  <2> QED
    BY <2>2, <2>3, <2>4
<1>7. /\ Len(cells) = x /\ Len(payloads) = r
      /\ \A j \in 1..(N - slot) : CellGathered(j) /\ PayloadGathered(j)
  BY <1>2, <1>6 DEF Faithful, Gathered
<1>8. CStart(N + 1) = z /\ CStart(k + 1) = x + w
      /\ PStart(k + 1) = y + IF l > w THEN l ELSE 0
  BY <1>1, <1>6, Geometry DEF IsOutlined
<1> DEFINE p == IF l > w THEN content[k] ELSE <<>>
<1>9. cells' = cells \o CellOf(k) /\ payloads' = payloads \o p
  <2>1. CASE CopyIntoCell(k)
    <3>1. l <= w /\ cells' = cells \o Pad(content[k], Width(k)) /\ payloads' = payloads
      BY <1>4, <1>6, <2>1 DEF CopyIntoCell
    <3>2. CellOf(k) = Pad(content[k], Width(k))
      BY <1>6, <3>1 DEF CellOf, Cell, Width
    <3>3. payloads \o <<>> = payloads /\ ~(l > w)
      BY <1>5, <1>6, <3>1, SMTT(30)
    <3> QED
      BY <3>1, <3>2, <3>3
  <2>2. CASE CopyOutline(k)
    <3>1. /\ l > w /\ payloads' = payloads \o content[k]
          /\ cells' = cells \o Pad(<<Offset(z + r - x)>>, Width(k))
      BY <1>4, <1>6, <1>7, <1>8, <2>2 DEF CopyOutline, CStart
    <3>2. CellOf(k) = Pad(<<Offset(y - x)>>, Width(k))
      <4>1. CellOf(k) = IF Len(content[k]) <= Width(k) THEN Pad(content[k], Width(k))
                        ELSE Pad(<<Offset(PStart(k) - CStart(k))>>, Width(k))
        BY DEF CellOf, Cell, Width, PStart, CStart
      <4>2. ~(l <= w)
        <5>1. l > w
          BY <3>1
        <5> QED
          BY <5>1
      <4> QED
        BY <1>6, <4>1, <4>2
    <3>3. z + r - x = y - x
      <4>1. r = y - z
        BY <1>6
      <4> QED BY ONLY <4>1, x \in Nat, y \in Nat, z \in Nat, r \in Nat
    <3> QED
      BY <3>1, <3>2, <3>3
  <2> QED
    BY <2>1, <2>2
<1>10. PICK q \in Seq(Nat) : q = p
  <2>1. <<>> \in Seq(Nat)
    OBVIOUS
  <2>2. p \in Seq(Nat)
    BY <1>5, <2>1, Zenon
  <2> HIDE DEF p
  <2> QED
    BY <2>2
<1>17. (l > w => q = content[k] /\ Len(q) = l) /\ (~(l > w) => Len(q) = 0)
  BY <1>6, <1>10 DEF p
<1> HIDE DEF p
<1>11. \A i : CStart(i)' = CStart(i) /\ PStart(i)' = PStart(i)
  BY <1>2, <1>3, SameLayout
<1>12. N' - slot' + 1 = k + 1 /\ N' - slot' = k
  BY <1>2, <1>3
<1>13. /\ Len(cells') = Len(cells) + Len(CellOf(k))
       /\ \A i \in 1..Len(CellOf(k)) : cells'[Len(cells) + i] = CellOf(k)[i]
       /\ Len(payloads') = Len(payloads) + Len(q)
       /\ \A i \in 1..Len(q) : payloads'[Len(payloads) + i] = q[i]
  <2>1. /\ Len(cells') = Len(cells) + Len(CellOf(k))
        /\ \A i \in 1..Len(CellOf(k)) : cells'[Len(cells) + i] = CellOf(k)[i]
    <3>1. PICK c \in Seq(Nat) : c = CellOf(k)
      BY <1>5
    <3>0. cells \in Seq(Nat)
      BY <1>5
    <3>2. /\ Len(cells \o c) = Len(cells) + Len(c)
          /\ \A i \in 1..Len(c) : (cells \o c)[Len(cells) + i] = c[i]
      BY <3>0, ConcatPlaces
    <3> QED
      BY <1>9, <3>1, <3>2
  <2>2. payloads' = payloads \o q
    BY <1>9, <1>10
  <2>3. /\ Len(payloads') = Len(payloads) + Len(q)
        /\ \A i \in 1..Len(q) : payloads'[Len(payloads) + i] = q[i]
    <3>1. /\ Len(payloads \o q) = Len(payloads) + Len(q)
          /\ \A i \in 1..Len(q) : (payloads \o q)[Len(payloads) + i] = q[i]
      BY <1>5, ConcatPlaces
    <3> QED
      BY <2>2, <3>1
  <2> QED
    BY <2>1, <2>3
<1>14. CellGathered(k)' /\ PayloadGathered(k)'
  <2>1. /\ Width(k)' = Width(k) /\ CellOf(k)' = CellOf(k) /\ (IsOutlined(k)' <=> IsOutlined(k))
    BY <1>2, <1>3, SameLayout
  <2>2. CellGathered(k)'
    <3>1. Len(cells') = x + w /\ \A j \in 1..w : cells'[x + j] = CellOf(k)[j]
      BY <1>5, <1>6, <1>7, <1>13
    <3>2. x + w <= x + w
      OBVIOUS
    <3> QED
      BY <1>6, <1>11, <2>1, <3>1, <3>2 DEF CellGathered
  <2>3. PayloadGathered(k)'
    <3> SUFFICES ASSUME l > w
                 PROVE  /\ r + l <= Len(payloads')
                        /\ \A j \in 1..l : payloads'[r + j] = content[k][j]
      BY <1>2, <1>6, <1>11, <2>1 DEF PayloadGathered, IsOutlined
    <3>1. q = content[k] /\ Len(q) = l
      BY <1>17
    <3>2. Len(payloads') = r + l /\ \A j \in 1..l : payloads'[r + j] = content[k][j]
      BY <1>7, <1>13, <3>1
    <3> QED
      BY <3>2
  <2> QED
    BY <2>2, <2>3
<1>15. Gathered'
  <2>1. Len(cells') = CStart(k + 1)'
    BY <1>5, <1>6, <1>7, <1>8, <1>11, <1>13
  <2>2. Len(payloads') = PStart(k + 1)' - PStart(1)'
    <3>1. PICK d \in Nat : d = Len(q) /\ d = IF l > w THEN l ELSE 0
      BY <1>17
    <3>2. Len(payloads') = r + d /\ PStart(k + 1)' - PStart(1)' = (y + d) - z
      BY <1>6, <1>7, <1>8, <1>11, <1>13, <3>1
    <3>3. r + d = (y + d) - z
      BY <1>6
    <3> QED
      BY <3>2, <3>3
  <2>3. ASSUME NEW j \in 1..k PROVE CellGathered(j)' /\ PayloadGathered(j)'
    <3>1. CASE j = k
      BY <1>14, <3>1
    <3>2. CASE j # k
      <4>1. j \in 1..(N - slot) /\ j \in 1..N
        BY <1>2, <1>3, <3>2
      <4> QED
        BY <1>1, <1>2, <1>3, <1>5, <1>7, <1>9, <1>10, <4>1, StillGathered
    <3> QED
      BY <3>1, <3>2
  <2> QED
    BY <1>12, <2>1, <2>2, <2>3 DEF Gathered
<1>16. Encoding' /\ WordsChosen'
  BY <1>2, <1>3, StillEncoding, StillChosen DEF Faithful
<1> QED
  BY <1>2, <1>15, <1>16 DEF Faithful, WritesInOrder, Compacted, Marked, EncodedIsLayout

\* Putting the header before the body completes the container.
LEMMA HeaderCompletes ==
  ASSUME IInv, Faithful, pc \in {"copy", "mark"}, NEW b, Sound(b), b.len = last + Extent,
         BodyIn(b, last, content, widths, shape),
         buf' = PutWords(b, Header(N, widths)),
         result' = SegmentUnit(last, b.len + Len(Header(N, widths))),
         pc' = "encoded", shape' = shape, content' = content, units' = units
  PROVE  Faithful'
<1>1. TypeOK /\ N \in Nat /\ Len(content) = N /\ last \in Nat
  BY TypeFacts DEF IInv
<1>2. content \in Seq(Seq(Nat)) /\ shape \in Shapes
  BY <1>1 DEF TypeOK
<1>3. Len(shape) \in {1, 2}
  BY <1>2, ShapeLanes
<1>4. /\ widths = Widths(Sizes(content), shape) /\ \A k \in 1..N : content[k] # <<>>
      /\ EncodedSize(Sizes(content), shape) < SizeLimit
  BY DEF Faithful, Encoding
<1>5. Shaped(shape, widths) /\ Extent = BodyLength(content, widths, shape)
  BY <1>1, Geometry
<1>6. PICK h \in Seq(Nat) : h = Header(N, widths)
  BY <1>1, <1>5, HeaderWords
<1>7. ReadAt(PutWords(b, h), b.len + Len(h), (b.len + Len(h)) - last) = Layout(content, shape)
  <2>1. /\ BodyIn(b, last, content, Widths(Sizes(content), shape), shape)
        /\ b.len = last + BodyLength(content, Widths(Sizes(content), shape), shape)
        /\ h = Header(Len(content), Widths(Sizes(content), shape))
    BY <1>1, <1>4, <1>5, <1>6
  <2> QED
    BY <1>1, <1>2, <1>3, <2>1, ReadsLayout
<1>8. UnitWords(result', buf') = Layout(content, shape)
  <2>1. /\ result'.inline = <<>> /\ result'.pos = b.len + Len(h)
        /\ result'.len = (b.len + Len(h)) - last
    BY <1>6 DEF SegmentUnit
  <2> QED
    BY <1>6, <1>7, <2>1 DEF UnitWords
<1>9. EncodedIsLayout'
  BY <1>4, <1>8 DEF EncodedIsLayout, N
<1>10. WordsChosen'
  BY StillChosen DEF Faithful, N
<1> QED
  BY <1>9, <1>10 DEF Faithful, WritesInOrder, Encoding, Gathered, Compacted, Marked

\* A position in the payloads, counted in the whole body.
LEMMA FromBack ==
  \A a, B, y, z, l, j \in Nat : z <= y /\ z <= B /\ (y - z) + l <= B - z /\ j \in 1..l =>
    /\ (y - z) + j \in 1..(B - z)
    /\ (a + (B - y)) - j + 1 = (a + (B - z)) - ((y - z) + j) + 1
OBVIOUS

\* The gathered cells and payloads are the body.
LEMMA CopyHeaderFaithful ==
  ASSUME IInv, Faithful, CopyHeader
  PROVE  Faithful'
<1> DEFINE b0 == Shrink(buf, buf.len - last)
           b1 == PutWords(b0, payloads)
           b2 == PutWords(b1, cells)
<1>1. TypeOK /\ N \in Nat /\ Len(content) = N
  BY TypeFacts DEF IInv
<1>2. /\ Sound(buf) /\ buf.len \in Nat /\ last \in 0..buf.len /\ last \in Nat
      /\ payloads \in Seq(Nat) /\ cells \in Seq(Nat)
  BY <1>1, TypeFacts DEF TypeOK
<1>3. /\ pc = "copy" /\ slot = 0 /\ buf' = PutWords(b2, Header(N, widths)) /\ pc' = "encoded"
      /\ result' = SegmentUnit(last, PutWords(b2, Header(N, widths)).len)
      /\ shape' = shape /\ content' = content /\ units' = units
  BY DEF CopyHeader, Finish
<1>4. Sound(b0) /\ b0.len = last
  <2>1. buf.len - last \in 0..buf.len
    BY <1>2
  <2> QED
    BY <1>2, <2>1, ShrinkKeeps
<1> HIDE DEF b0
<1>5. /\ Sound(b1) /\ b1.len = last + Len(payloads)
      /\ ReadAt(b1, last + Len(payloads), Len(payloads)) = payloads
  BY SMTT(30), <1>2, <1>4, PutWordsPrepends
<1> HIDE DEF b1
<1>6. /\ Sound(b2) /\ b2.len = b1.len + Len(cells)
      /\ \A p \in 1..b1.len : b2.data[p] = b1.data[p]
      /\ ReadAt(b2, b1.len + Len(cells), Len(cells)) = cells
  BY <1>2, <1>5, PutWordsPrepends
<1> HIDE DEF b2
<1>7. PICK B, z, lp, lc, a \in Nat :
        /\ B = Extent /\ z = PStart(1) /\ z <= B /\ lp = Len(payloads) /\ lc = Len(cells) /\ a = last
  <2>1. 1 \in 1..(N + 1)
    BY <1>1
  <2>2. Extent \in Nat /\ PStart(1) \in Nat /\ PStart(1) <= Extent
    BY <1>1, <2>1, Geometry
  <2>3. Len(payloads) \in Nat /\ Len(cells) \in Nat
    BY <1>2
  <2> QED
    BY <1>2, <2>2, <2>3
<1>8. lc = z /\ lp = B - z /\ \A k \in 1..N : CellGathered(k) /\ PayloadGathered(k)
  <2>1. N - slot + 1 = N + 1 /\ N - slot = N
    BY <1>1, <1>3
  <2>2. CStart(N + 1) = PStart(1) /\ PStart(N + 1) = Extent
    BY <1>1, Geometry
  <2> QED
    BY <1>3, <1>7, <2>1, <2>2 DEF Faithful, Gathered
<1>9. b1.len = a + lp /\ b2.len = a + B /\ a + B = (a + lp) + lc
  <2>1. (a + lp) + lc = a + B
    BY <1>8, <1>7
  <2> QED
    BY <1>5, <1>6, <1>7, <2>1
<1>10. \A i \in 1..lc : b2.data[(a + B) - i + 1] = cells[i]
  <2> TAKE i \in 1..lc
  <2>1. ReadAt(b2, a + B, lc) = cells
    BY <1>6, <1>7, <1>9
  <2>2. ReadAt(b2, a + B, lc)[i] = b2.data[(a + B) - i + 1]
    BY DEF ReadAt
  <2> QED
    BY <2>1, <2>2
<1>11. \A i \in 1..lp : b2.data[(a + lp) - i + 1] = payloads[i]
  <2> TAKE i \in 1..lp
  <2>1. ReadAt(b1, a + lp, lp) = payloads
    BY <1>5, <1>7
  <2>2. ReadAt(b1, a + lp, lp)[i] = b1.data[(a + lp) - i + 1]
    BY DEF ReadAt
  <2>3. (a + lp) - i + 1 \in 1..(a + lp)
    BY <1>7
  <2> QED
    BY <1>6, <1>9, <2>1, <2>2, <2>3
<1>12. Shaped(shape, widths) /\ B = BodyLength(content, widths, shape)
  BY <1>1, <1>7, Geometry
<1>13. ASSUME NEW k \in 1..N
       PROVE  /\ ReadAt(b2, a + (B - CStart(k)), Width(k)) = CellOf(k)
              /\ IsOutlined(k) => ReadAt(b2, a + (B - PStart(k)), Len(content[k])) = content[k]
  <2>1. PICK x, y, w, l, r \in Nat :
          /\ x = CStart(k) /\ y = PStart(k) /\ w = Width(k) /\ l = Len(content[k])
          /\ z <= y /\ r = y - z
    <3>1. k \in 1..(N + 1)
      BY <1>1
    <3>2. CStart(k) \in Nat /\ PStart(k) \in Nat /\ PStart(1) <= PStart(k)
      BY <1>1, <3>1, Geometry
    <3>3. Width(k) \in Nat /\ Len(content[k]) \in Nat
      BY <1>1, Geometry
    <3>4. PStart(k) - z \in Nat
      BY <1>7, <3>2
    <3> QED
      BY <1>7, <3>2, <3>3, <3>4
  <2>2. ReadAt(b2, a + (B - x), w) = CellOf(k)
    <3>1. x + w <= lc /\ \A j \in 1..w : cells[x + j] = CellOf(k)[j]
      BY <1>7, <1>8, <2>1 DEF CellGathered
    <3>2. CellOf(k) \in Seq(Nat) /\ Len(CellOf(k)) = w
      BY <1>1, <2>1, Geometry
    <3>3. ASSUME NEW j \in 1..w PROVE b2.data[(a + (B - x)) - j + 1] = CellOf(k)[j]
      <4>1. x + j \in 1..lc /\ x + j <= B /\ (a + (B - x)) - j + 1 = (a + B) - (x + j) + 1
        BY <1>7, <1>8, <3>1
      <4> QED
        BY <1>10, <3>1, <4>1
    <3> QED
      BY <3>2, <3>3 DEF ReadAt
  <2>3. ASSUME IsOutlined(k) PROVE ReadAt(b2, a + (B - y), l) = content[k]
    <3>1. r + l <= lp /\ \A j \in 1..l : payloads[r + j] = content[k][j]
      BY <1>7, <1>8, <2>1, <2>3 DEF PayloadGathered
    <3>2. content[k] \in Seq(Nat) /\ Len(content[k]) = l
      BY <1>1, <2>1, TypeFacts
    <3>3. ASSUME NEW j \in 1..l PROVE b2.data[(a + (B - y)) - j + 1] = content[k][j]
      <4>1. r + j \in 1..lp /\ (a + (B - y)) - j + 1 = (a + lp) - (r + j) + 1
        <5>1. z <= y /\ z <= B /\ lp = B - z /\ r = y - z /\ r + l <= lp
          BY <1>7, <1>8, <2>1, <3>1
        <5>2. j \in Nat
          OBVIOUS
        <5> QED
          BY <5>1, <5>2, FromBack
      <4> QED
        BY <1>11, <3>1, <4>1
    <3>4. ReadAt(b2, a + (B - y), l) = [j \in 1..l |-> content[k][j]]
      BY <3>3 DEF ReadAt
    <3>5. content[k] = [j \in 1..l |-> content[k][j]]
      BY <3>2
    <3> QED
      BY <3>4, <3>5
  <2> QED
    BY <2>1, <2>2, <2>3
<1>14. BodyIn(b2, last, content, widths, shape)
  BY <1>1, <1>7, <1>12, <1>13 DEF BodyIn, CStart, PStart, Width, CellOf, IsOutlined
<1>15. PutWords(b2, Header(N, widths)).len = b2.len + Len(Header(N, widths))
  <2>1. PICK h \in Seq(Nat) : h = Header(N, widths)
    BY <1>1, <1>12, HeaderWords
  <2>2. PutWords(b2, h).len = b2.len + Len(h)
    BY <1>6, PutWordsPrepends
  <2> QED
    BY <2>1, <2>2
<1> QED
  BY <1>3, <1>6, <1>7, <1>9, <1>14, <1>15, HeaderCompletes

-----------------------------------------------------------------------------

\* Picking starts with the boundary at the end of the container to be.
LEMMA StartPickFaithful ==
  ASSUME IInv, Faithful, StartPick, TypeOK'
  PROVE  Faithful'
<1>1. /\ Called /\ N > 0 /\ EncodedSize(UnitSizes, shape) < SizeLimit
      /\ widths' = Widths(UnitSizes, shape) /\ pc' = "pick" /\ slot' = N
      /\ shape' = shape /\ content' = content /\ units' = units /\ buf' = buf /\ last' = last
      /\ tail' = buf.len - last /\ ~TooWide(Widths(UnitSizes, shape))
  BY DEF StartPick
<1>2. Encoding' /\ WordsChosen'
  BY <1>1, StartEncoding
<1>3. N' = N /\ N \in Nat /\ buf.len \in Nat /\ last \in 0..buf.len
  BY <1>1, TypeFacts DEF N, IInv
<1>4. Boundary' = FromEnd(PStart(slot + 1))'
  <2>1. Extent' \in Nat
    BY GeometryAfter
  <2>2. PStart(slot + 1)' = Extent'
    BY <1>1, <1>3 DEF PStart, Extent
  <2>3. Boundary' = last
    BY <1>1, <1>3 DEF Boundary
  <2>4. FromEnd(PStart(slot + 1))' = last + (Extent' - Extent')
    BY <1>1, <2>2 DEF FromEnd
  <2> QED
    BY <1>3, <2>1, <2>3, <2>4
<1>5. \A k \in 1..N : Len(units'[k].inline) <= Width(k)'
  <2> TAKE k \in 1..N
  <2>1. ~(Len(units[k].inline) > CellWidth(widths', shape, k))
    BY <1>1 DEF TooWide
  <2>2. Width(k)' = CellWidth(widths', shape, k)
    BY <1>1 DEF Width
  <2>3. Len(units[k].inline) \in Nat
    BY TypeFacts DEF IInv
  <2>4. CellWidth(widths', shape, k) \in 1..3
    <3>1. Shaped(shape, widths')
      BY <1>1, WidthsShaped, ShapeLanes DEF IInv, TypeOK
    <3> QED
      BY <3>1, LaneOf
  <2> QED
    BY <1>1, <2>1, <2>2, <2>3, <2>4
<1>6. \A k \in 1..N : ~(k > N)
  BY <1>3
<1> QED
  BY <1>1, <1>2, <1>3, <1>4, <1>5, <1>6
  DEF Faithful, WritesInOrder, Gathered, Compacted, Marked, EncodedIsLayout

\* What the layout says of the slot being picked.
LEMMA PickGeometry ==
  ASSUME IInv, Faithful, Picking
  PROVE  /\ slot \in 1..N /\ N \in Nat
         /\ content[slot] \in Seq(Nat) \ {<<>>} /\ UnitWords(units[slot], buf) = content[slot]
         /\ FromEnd(PStart(slot + 1)) = Boundary
         /\ IsOutlined(slot) => FromEnd(PStart(slot)) = Boundary + Len(content[slot])
         /\ ~IsOutlined(slot) => FromEnd(PStart(slot)) = Boundary
<1>1. TypeOK /\ pc = "pick" /\ slot \in 1..N /\ N \in Nat /\ last \in Nat
  BY TypeFacts DEF IInv, Picking
<1>2. content[slot] \in Seq(Nat) /\ content[slot] # <<>>
  BY <1>1, TypeFacts DEF Faithful, Encoding
<1>3. UnitWords(units[slot], buf) = content[slot]
  BY <1>1, <1>2 DEF IInv, UnitsIntact
<1>4. FromEnd(PStart(slot + 1)) = Boundary
  BY <1>1 DEF Faithful, Compacted
<1>5. PICK x, y, l, B, a \in Nat :
        /\ x = PStart(slot) /\ y = PStart(slot + 1) /\ l = Len(content[slot])
        /\ B = Extent /\ x <= B /\ y <= B /\ a = last
  <2>1. slot \in 1..(N + 1) /\ slot + 1 \in 1..(N + 1)
    BY <1>1
  <2>2. /\ PStart(slot) \in Nat /\ PStart(slot + 1) \in Nat /\ Extent \in Nat
        /\ PStart(slot) <= Extent /\ PStart(slot + 1) <= Extent
    BY <1>1, <2>1, Geometry
  <2> QED
    BY <1>1, <1>2, <2>2
<1>6. (IsOutlined(slot) => y = x + l) /\ (~IsOutlined(slot) => y = x)
  <2>1. y = x + IF IsOutlined(slot) THEN l ELSE 0
    BY <1>1, <1>5, Geometry
  <2> QED
    BY <2>1
<1>7. a + (B - y) = Boundary /\ FromEnd(PStart(slot)) = a + (B - x)
  BY <1>4, <1>5 DEF FromEnd
<1>8. y = x + l => a + (B - x) = (a + (B - y)) + l
  OBVIOUS
<1>9. FromEnd(PStart(slot)) = IF IsOutlined(slot) THEN Boundary + l ELSE Boundary
  BY <1>6, <1>7, <1>8
<1> QED
  BY <1>1, <1>2, <1>3, <1>4, <1>5, <1>9

\* The slot picked is settled, and the others as before.
LEMMA PickedFaithful ==
  ASSUME IInv, Faithful, Picking, NEW u, NEW b, NEW t,
         Picked(u, b, t), u \in UnitType, Len(u.inline) <= Width(slot),
         b.len - t = FromEnd(PStart(slot)),
         IF IsOutlined(slot)
         THEN u.inline = <<>> /\ u.len = Len(content[slot]) /\ u.pos = FromEnd(PStart(slot))
         ELSE u.inline # <<>>
  PROVE  Faithful'
<1>1. TypeOK /\ pc = "pick" /\ slot \in 1..N /\ N \in Nat
  BY TypeFacts DEF IInv, Picking
<1>2. /\ units' = [units EXCEPT ![slot] = u] /\ buf' = b /\ tail' = t /\ slot' = slot - 1
      /\ pc' = "pick" /\ shape' = shape /\ content' = content /\ last' = last /\ widths' = widths
  BY <1>1 DEF Picked
<1>3. N' = N /\ \A j \in 1..N : units'[j] = IF j = slot THEN u ELSE units[j]
  BY <1>1, <1>2, UnitReplaced DEF N
<1>4. Encoding' /\ WordsChosen'
  BY <1>1, <1>2, <1>3, StillEncoding, StillChosen DEF Faithful
<1>5. /\ \A k : PStart(k)' = PStart(k) /\ Width(k)' = Width(k) /\ (IsOutlined(k)' <=> IsOutlined(k))
      /\ \A s : FromEnd(s)' = FromEnd(s)
      /\ Extent' = Extent
  BY <1>2, <1>3, SameLayout
<1>6. Boundary' = FromEnd(PStart(slot + 1))'
  <2>1. slot' + 1 = slot
    BY <1>1, <1>2
  <2>2. PStart(slot + 1)' = PStart(slot)
    BY <1>2, <2>1 DEF PStart
  <2>3. FromEnd(PStart(slot + 1))' = FromEnd(PStart(slot))
    BY <1>2, <1>5, <2>2 DEF FromEnd
  <2> QED
    BY <1>2, <2>3 DEF Boundary
<1>7. ASSUME NEW k \in 1..N PROVE Len(units'[k].inline) <= Width(k)'
  BY <1>1, <1>3, <1>5 DEF Faithful, Compacted
<1>8. ASSUME NEW k \in 1..N, k > slot' PROVE Settled(k)'
  <2>1. FromEnd(PStart(k))' = FromEnd(PStart(k))
    BY <1>2, <1>5 DEF FromEnd
  <2>2. CASE k = slot
    BY <1>2, <1>3, <1>5, <2>1, <2>2 DEF Settled
  <2>3. CASE k # slot
    <3>1. k > slot
      BY <1>1, <1>2, <1>8, <2>3
    <3>2. Settled(k) /\ units'[k] = units[k]
      BY <1>1, <1>3, <2>3, <3>1 DEF Faithful, Compacted
    <3> QED
      BY <1>2, <1>5, <2>1, <3>2 DEF Settled
  <2> QED
    BY <2>2, <2>3
<1>9. Compacted'
  BY <1>3, <1>6, <1>7, <1>8 DEF Compacted
<1> QED
  BY <1>2, <1>4, <1>9 DEF Faithful, WritesInOrder, Gathered, Marked, EncodedIsLayout

\* Sliding a segment of l words at p up to t in m active words.
LEMMA Slide ==
  \A p, l, m, t \in Nat : (m - p) + l <= t /\ t <= m /\ p <= m =>
    /\ p - ((t - l) - (m - p)) = (m - t) + l
    /\ m - (t - l) = (m - t) + l /\ (m - t) + l \in Nat
    /\ t <= (m - p) + l => p = (m - t) + l
OBVIOUS

\* Each way of picking settles the slot.
LEMMA PickFaithful ==
  ASSUME IInv, Faithful, Pick
  PROVE  Faithful'
<1>1. Picking
  BY DEF Pick, PickInline, PickIntoCell, PickMove, PickStay
<1>2. TypeOK /\ pc = "pick" /\ slot \in 1..N /\ N \in Nat
  BY <1>1, TypeFacts DEF IInv, Picking
<1> DEFINE u == units[slot]
<1>3. /\ u \in UnitType /\ u.inline \in Seq(Nat) /\ u.pos \in Nat /\ u.len \in Nat
      /\ buf.len \in Nat /\ tail \in Nat /\ Width(slot) \in 1..3
  BY <1>2, TypeFacts DEF TypeOK
<1>4. /\ content[slot] \in Seq(Nat) \ {<<>>} /\ UnitWords(u, buf) = content[slot]
      /\ IsOutlined(slot) => FromEnd(PStart(slot)) = Boundary + Len(content[slot])
      /\ ~IsOutlined(slot) => FromEnd(PStart(slot)) = Boundary
  BY <1>1, PickGeometry
<1>5. Len(u.inline) <= Width(slot)
  BY <1>2 DEF Faithful, Compacted
<1>6. UnitSize(u) = Len(content[slot])
  BY <1>2, <1>4, UnitSizeIs
<1>7. Boundary = buf.len - tail
  BY DEF Boundary
<1> HIDE DEF u
<1>8. CASE PickInline
  <2>1. u.inline # <<>> /\ Picked(u, buf, tail)
    BY <1>8 DEF PickInline, u
  <2>2. ~IsOutlined(slot)
    <3>1. Len(u.inline) = Len(content[slot])
      BY <1>6, <2>1 DEF UnitSize
    <3> QED
      BY <1>3, <1>5, <3>1 DEF IsOutlined
  <2> QED
    BY <1>1, <1>3, <1>4, <1>5, <1>7, <2>1, <2>2, PickedFaithful
<1>9. CASE PickIntoCell
  <2> DEFINE v == [u EXCEPT !.inline = ReadAt(buf, u.pos, u.len)]
  <2>1. u.inline = <<>> /\ u.len <= Width(slot) /\ Picked(v, buf, tail)
    BY <1>9 DEF PickIntoCell, u
  <2>2. ReadAt(buf, u.pos, u.len) = content[slot] /\ u.len = Len(content[slot])
    BY <1>4, <1>6, <2>1 DEF UnitWords, UnitSize
  <2>3. v \in UnitType /\ v.inline = content[slot]
    BY <1>3, <1>4, <2>2 DEF UnitType
  <2>4. ~IsOutlined(slot)
    BY <1>3, <2>1, <2>2 DEF IsOutlined
  <2> HIDE DEF v
  <2> QED
    BY <1>1, <1>4, <1>7, <2>1, <2>2, <2>3, <2>4, PickedFaithful
<1>10. ASSUME u.inline = <<>>, u.len > Width(slot)
       PROVE  /\ IsOutlined(slot) /\ u.len = Len(content[slot])
              /\ FromEnd(PStart(slot)) = (buf.len - tail) + u.len
              /\ PickEnd(u) <= tail /\ tail <= buf.len /\ u.pos <= buf.len
  <2>1. u.len = Len(content[slot])
    BY <1>6, <1>10 DEF UnitSize
  <2>2. IsOutlined(slot)
    BY <1>10, <2>1 DEF IsOutlined
  <2>3. slot \in 1..slot
    BY <1>2
  <2>4. PickEnd(u) <= tail /\ u.pos <= buf.len
    BY <1>2, <1>10, <2>3, TailFollows DEF TailCoversUnpicked, u
  <2>5. tail <= buf.len
    BY <1>2 DEF IInv, SegmentsLaidOut, PickingLaidOut
  <2> QED
    BY <1>4, <1>7, <2>1, <2>2, <2>4, <2>5
<1>11. CASE PickMove
  <2> DEFINE new == tail - u.len
             v   == [u EXCEPT !.pos = u.pos - (new - PickStart(u))]
             b   == CopyWithin(buf, u.pos, buf.len - new, u.len)
  <2>1. u.inline = <<>> /\ u.len > Width(slot) /\ Picked(v, b, new)
    BY <1>11 DEF PickMove, u
  <2>2. PICK p, l, m, t \in Nat : p = u.pos /\ l = u.len /\ m = buf.len /\ t = tail
    BY <1>3
  <2>3. (m - p) + l <= t /\ t <= m /\ p <= m /\ l = Len(content[slot])
        /\ FromEnd(PStart(slot)) = (m - t) + l /\ IsOutlined(slot)
    BY <1>10, <2>1, <2>2 DEF PickEnd, PickStart
  <2>4. p - ((t - l) - (m - p)) = (m - t) + l /\ m - (t - l) = (m - t) + l /\ (m - t) + l \in Nat
    <3>1. (m - p) + l <= t /\ t <= m /\ p <= m
      BY <2>3
    <3> QED
      BY <3>1, Slide
  <2>5. v.inline = <<>> /\ v.len = l /\ v.pos = (m - t) + l /\ v \in UnitType
    <3>1. u.pos - (new - PickStart(u)) = (m - t) + l
      BY <2>2, <2>4 DEF PickStart
    <3> QED
      BY <1>3, <2>1, <2>2, <2>4, <3>1 DEF UnitType
  <2>6. b.len - new = (m - t) + l
    BY <2>2, <2>4 DEF CopyWithin, WriteAt
  <2>7. Len(v.inline) <= Width(slot)
    BY <1>3, <2>5
  <2> HIDE DEF v, b, new
  <2> QED
    BY <1>1, <2>1, <2>2, <2>3, <2>5, <2>6, <2>7, PickedFaithful
<1>12. CASE PickStay
  <2>1. u.inline = <<>> /\ u.len > Width(slot) /\ Picked(u, buf, tail - u.len) /\ tail <= PickEnd(u)
    BY <1>12 DEF PickStay, u
  <2>2. PICK p, l, m, t \in Nat : p = u.pos /\ l = u.len /\ m = buf.len /\ t = tail
    BY <1>3
  <2>3. (m - p) + l <= t /\ t <= (m - p) + l /\ t <= m /\ p <= m /\ l = Len(content[slot])
        /\ FromEnd(PStart(slot)) = (m - t) + l /\ IsOutlined(slot)
    BY <1>10, <2>1, <2>2 DEF PickEnd, PickStart
  <2>4. p = (m - t) + l /\ m - (t - l) = (m - t) + l
    <3>1. (m - p) + l <= t /\ t <= (m - p) + l /\ t <= m /\ p <= m
      BY <2>3
    <3> QED
      BY <3>1, Slide
  <2>5. buf.len - (tail - u.len) = FromEnd(PStart(slot)) /\ u.pos = FromEnd(PStart(slot))
    BY <2>2, <2>3, <2>4
  <2> QED
    BY <1>1, <1>3, <1>5, <2>1, <2>2, <2>3, <2>5, PickedFaithful
<1> QED
  BY <1>8, <1>9, <1>11, <1>12 DEF Pick

-----------------------------------------------------------------------------

\* A settled unit stays so while neither the units nor the layout change.
LEMMA StillSettled ==
  ASSUME NEW k \in 1..N, Settled(k),
         shape' = shape, content' = content, widths' = widths, last' = last, units' = units
  PROVE  Settled(k)'
<1>1. N' = N
  BY DEF N
<1>2. /\ PStart(k)' = PStart(k) /\ (IsOutlined(k)' <=> IsOutlined(k)) /\ Extent' = Extent
  BY <1>1, SameLayout
<1>3. FromEnd(PStart(k))' = FromEnd(PStart(k))
  BY <1>2 DEF FromEnd
<1> QED
  BY <1>2, <1>3 DEF Settled

\* Marking starts where the cells are to end.
LEMMA StartMarkFaithful ==
  ASSUME IInv, Faithful, StartMark
  PROVE  Faithful'
<1>1. /\ pc = "pick" /\ slot = 0 /\ buf' = Shrink(buf, tail) /\ pc' = "mark" /\ slot' = N
      /\ shape' = shape /\ content' = content /\ last' = last /\ units' = units /\ widths' = widths
  BY DEF StartMark
<1>2. TypeOK /\ N \in Nat /\ N' = N
  BY <1>1, TypeFacts DEF IInv, N
<1>3. Encoding' /\ WordsChosen'
  BY <1>1, <1>2, StillEncoding, StillChosen DEF Faithful
<1>4. \A k \in 1..N : Settled(k)
  <2>1. \A k \in 1..N : k > slot
    BY <1>1, <1>2
  <2> QED
    BY <1>1, <2>1 DEF Faithful, Compacted
<1>5. \A k \in 1..N : Settled(k)'
  BY <1>1, <1>4, StillSettled
<1>6. buf'.len = FromEnd(CStart(slot + 1))'
  <2>1. Boundary = FromEnd(PStart(1))
    BY <1>1 DEF Faithful, Compacted
  <2>2. buf'.len = Boundary
    BY <1>1 DEF Shrink, Boundary
  <2>3. CStart(slot + 1)' = CStart(N + 1) /\ Extent' = Extent
    BY <1>1, <1>2, SameLayout DEF CStart
  <2>4. CStart(N + 1) = PStart(1)
    BY <1>2, Geometry
  <2> QED
    BY <1>1, <2>1, <2>2, <2>3, <2>4 DEF FromEnd
<1>7. \A k \in 1..N : ~(k > N)
  BY <1>2
<1> QED
  BY <1>1, <1>2, <1>3, <1>5, <1>6, <1>7
  DEF Faithful, WritesInOrder, Gathered, Compacted, Marked, EncodedIsLayout

\* Where a marked cell and the payload it refers to lie.
LEMMA MarkPlaces ==
  \A a, B, x, y, w, m \in Nat : x + w <= B /\ x <= y /\ y <= B /\ m = a + (B - (x + w)) =>
    /\ m + w = a + (B - x)
    /\ (m + w) - (a + (B - y)) = y - x
OBVIOUS

\* A unit is marked by the cell of its slot.
LEMMA MarkedCellIs ==
  ASSUME IInv, Faithful, pc = "mark", slot > 0
  PROVE  /\ slot \in 1..N /\ buf.len + Width(slot) = FromEnd(CStart(slot))
         /\ MarkedCell(units[slot], buf, Width(slot)) = CellOf(slot)
<1>1. TypeOK /\ slot \in 1..N /\ N \in Nat /\ last \in Nat /\ buf.len \in Nat
  BY TypeFacts DEF IInv
<1>2. PICK a, B, x, y, w, m \in Nat :
        /\ a = last /\ B = Extent /\ x = CStart(slot) /\ y = PStart(slot) /\ w = Width(slot)
        /\ m = buf.len /\ x + w <= B /\ x <= y /\ y <= B /\ CStart(slot + 1) = x + w
  <2>1. slot \in 1..(N + 1) /\ slot + 1 \in 1..(N + 1) /\ 1 \in 1..(N + 1)
    BY <1>1
  <2>2. PICK x, y, y1, B \in Nat : /\ x = CStart(slot) /\ y = PStart(slot) /\ y1 = PStart(1)
                                   /\ B = Extent /\ x <= y1 /\ y1 <= y /\ y <= B /\ y1 <= B
    BY <1>1, <2>1, Geometry
  <2>3. PICK x2 \in Nat : x2 = CStart(slot + 1) /\ x2 <= y1
    BY <1>1, <2>1, <2>2, Geometry
  <2>4. PICK w \in Nat : w = Width(slot) /\ x2 = x + w
    BY <1>1, <2>2, <2>3, Geometry, SMTT(30)
  <2>5. x + w <= B /\ x <= y
    BY <2>2, <2>3, <2>4
  <2> QED
    BY <1>1, <2>2, <2>3, <2>4, <2>5
<1>3. m = a + (B - (x + w))
  BY <1>2 DEF Faithful, Marked, FromEnd
<1>4. m + w = a + (B - x) /\ (m + w) - (a + (B - y)) = y - x
  BY <1>2, <1>3, MarkPlaces
<1>5. Settled(slot) /\ content[slot] # <<>>
  BY <1>1 DEF Faithful, Marked, Encoding
<1>6. CellOf(slot) = IF Len(content[slot]) <= w THEN Pad(content[slot], w)
                     ELSE Pad(<<Offset(y - x)>>, w)
  BY <1>2 DEF CellOf, Cell, Width, PStart, CStart
<1>7. MarkedCell(units[slot], buf, w) = CellOf(slot)
  <2>0. content[slot] \in Seq(Nat) /\ Len(content[slot]) \in Nat
    BY <1>1, TypeFacts
  <2>1. CASE IsOutlined(slot)
    <3>1. units[slot].inline = <<>> /\ units[slot].pos = a + (B - y)
      BY <1>2, <1>5, <2>1 DEF Settled, FromEnd
    <3>0. buf.len = m
      BY <1>2
    <3>2. buf.len + w - units[slot].pos = y - x
      BY ONLY <1>4, <3>0, <3>1
    <3>4. MarkedCell(units[slot], buf, w) = Pad(<<Offset(y - x)>>, w)
      BY ONLY <3>1, <3>2 DEF MarkedCell
    <3>3. ~(Len(content[slot]) <= w)
      BY <1>2, <2>0, <2>1 DEF IsOutlined
    <3> QED
      BY <1>6, <3>3, <3>4
  <2>2. CASE ~IsOutlined(slot)
    <3>1. units[slot].inline # <<>>
      BY <1>5, <2>2 DEF Settled
    <3>2. units[slot].inline = content[slot]
      BY <1>1, <1>5, <3>1 DEF IInv, UnitsIntact, UnitWords
    <3>3. Len(content[slot]) <= w
      BY <1>2, <2>0, <2>2 DEF IsOutlined
    <3> QED
      BY <1>6, <3>1, <3>2, <3>3 DEF MarkedCell
  <2> QED
    BY <2>1, <2>2
<1> QED
  BY <1>1, <1>2, <1>4, <1>7 DEF FromEnd

\* Marking puts the slot's cell in front of those marked before.
LEMMA MarkFaithful ==
  ASSUME IInv, Faithful, Mark
  PROVE  Faithful'
<1>1. TypeOK /\ N \in Nat /\ last \in Nat
  BY TypeFacts DEF IInv
<1>2. /\ pc = "mark" /\ slot > 0
      /\ buf' = WriteAt(Expand(buf, Width(slot)), buf.len + Width(slot),
                        MarkedCell(units[slot], buf, Width(slot)))
      /\ slot' = slot - 1 /\ pc' = "mark"
      /\ shape' = shape /\ content' = content /\ last' = last /\ units' = units /\ widths' = widths
  BY DEF Mark
<1>3. /\ slot \in 1..N /\ buf.len + Width(slot) = FromEnd(CStart(slot))
      /\ MarkedCell(units[slot], buf, Width(slot)) = CellOf(slot)
  BY <1>2, MarkedCellIs
<1>4. N' = N
  BY <1>2 DEF N
<1>5. Encoding' /\ WordsChosen'
  BY <1>2, <1>4, StillEncoding, StillChosen DEF Faithful
<1>6. PICK m, w \in Nat : m = buf.len /\ w = Width(slot) /\ w \in 1..3
  BY <1>1, <1>3, TypeFacts
<1>7. PICK cell \in Seq(Nat) : cell = CellOf(slot) /\ Len(cell) = w
  BY <1>1, <1>3, <1>6, Geometry
<1>8. PICK e : e = Expand(buf, w) /\ Sound(e) /\ e.len = m + w /\ \A p \in 1..m : e.data[p] = buf.data[p]
  <2>1. Sound(buf)
    BY <1>1, TypeFacts
  <2>2. /\ Sound(Expand(buf, w)) /\ Expand(buf, w).len = m + w
        /\ \A p \in 1..m : Expand(buf, w).data[p] = buf.data[p]
    BY <1>6, <2>1, ExpandKeeps
  <2> QED
    BY <2>2
<1>9. m + w <= Allocated(e) /\ Allocated(e) \in Nat
  BY <1>8, SoundParts
<1>10. PICK at \in Nat : at = m + w /\ Len(cell) <= at /\ at <= Allocated(e)
  BY <1>7, <1>9
<1>11. /\ buf' = WriteAt(e, at, cell) /\ buf'.len = m + w
       /\ \A p \in 1..Allocated(e) :
            buf'.data[p] = IF at - Len(cell) < p /\ p <= at THEN cell[at - p + 1] ELSE e.data[p]
  <2>1. buf' = WriteAt(e, at, cell)
    BY <1>2, <1>3, <1>6, <1>7, <1>8, <1>10
  <2>2. /\ WriteAt(e, at, cell).len = e.len
        /\ \A p \in 1..Allocated(e) :
             WriteAt(e, at, cell).data[p] =
               IF at - Len(cell) < p /\ p <= at THEN cell[at - p + 1] ELSE e.data[p]
    BY <1>8, <1>10, WriteAtChanges
  <2> QED
    BY <1>8, <2>1, <2>2
<1>12. /\ \A p \in 1..m : buf'.data[p] = buf.data[p]
       /\ \A j \in 1..w : buf'.data[(m + w) - j + 1] = cell[j]
  <2>1. ASSUME NEW p \in 1..m PROVE buf'.data[p] = buf.data[p]
    <3>1. p \in 1..Allocated(e) /\ ~(at - Len(cell) < p)
      BY <1>7, <1>9, <1>10
    <3> QED
      BY <1>8, <1>11, <3>1
  <2>2. ASSUME NEW j \in 1..w PROVE buf'.data[(m + w) - j + 1] = cell[j]
    <3>1. /\ (m + w) - j + 1 \in 1..Allocated(e) /\ at - Len(cell) < (m + w) - j + 1
          /\ (m + w) - j + 1 <= at /\ at - ((m + w) - j + 1) + 1 = j
      BY <1>7, <1>9, <1>10
    <3> QED
      BY <1>11, <3>1
  <2> QED
    BY <2>1, <2>2
<1>13. /\ \A k : /\ CStart(k)' = CStart(k) /\ Width(k)' = Width(k) /\ CellOf(k)' = CellOf(k)
       /\ Extent' = Extent
  BY <1>2, <1>4, SameLayout
<1>14. \A k : FromEnd(CStart(k))' = FromEnd(CStart(k))
  BY <1>2, <1>13 DEF FromEnd
<1>15. buf'.len = FromEnd(CStart(slot + 1))'
  <2>1. slot' + 1 = slot
    BY <1>2, <1>3
  <2>2. CStart(slot + 1)' = CStart(slot)
    BY <1>2, <2>1 DEF CStart
  <2>3. FromEnd(CStart(slot + 1))' = FromEnd(CStart(slot))
    BY <1>2, <1>13, <2>2 DEF FromEnd
  <2> QED
    BY <1>3, <1>6, <1>11, <2>3
<1>16. ASSUME NEW k \in 1..N, k > slot' PROVE CellMarked(k)'
  <2>1. CASE k = slot
    <3>1. ReadAt(buf', m + w, w) = cell
      <4>1. ReadAt(buf', m + w, w) = [j \in 1..w |-> cell[j]]
        BY <1>12 DEF ReadAt
      <4>2. cell = [j \in 1..w |-> cell[j]]
        BY <1>7
      <4> QED
        BY <4>1, <4>2
    <3>2. FromEnd(CStart(k)) = m + w
      BY <1>3, <1>6, <2>1
    <3>3. m + w <= buf'.len
      BY <1>6, <1>11
    <3> QED
      BY <1>6, <1>7, <1>13, <1>14, <2>1, <3>1, <3>2, <3>3 DEF CellMarked
  <2>2. CASE k # slot
    <3>1. k > slot
      BY <1>2, <1>3, <1>16, <2>2
    <3>2. CellMarked(k)
      BY <1>2, <3>1 DEF Faithful, Marked
    <3>3. PICK pos, v \in Nat : pos = FromEnd(CStart(k)) /\ v = Width(k) /\ v <= pos
      <4>1. k \in 1..(N + 1) /\ k + 1 \in 1..(N + 1)
        BY <1>1
      <4>2. PICK x, x2, y1, B, v \in Nat :
              /\ x = CStart(k) /\ x2 = CStart(k + 1) /\ B = Extent /\ v = Width(k)
              /\ y1 = PStart(1) /\ y1 <= B /\ x2 <= y1 /\ x2 = x + v
        <5>0. 1 \in 1..(N + 1)
          BY <1>1
        <5>1. PICK x, y1, B \in Nat : x = CStart(k) /\ y1 = PStart(1) /\ B = Extent /\ y1 <= B
          BY <1>1, <4>1, <5>0, Geometry
        <5>2. PICK x2 \in Nat : x2 = CStart(k + 1) /\ x2 <= y1
          BY <1>1, <4>1, <5>1, Geometry
        <5>3. PICK v \in Nat : v = Width(k) /\ x2 = x + v
          BY <1>1, <5>1, <5>2, Geometry, SMTT(30)
        <5> QED
          BY <5>1, <5>2, <5>3
      <4>3. B - x \in Nat /\ v <= B - x
        BY <4>2, SMTT(30)
      <4>4. FromEnd(CStart(k)) = last + (B - x)
        BY <4>2 DEF FromEnd
      <4>5. last + (B - x) \in Nat /\ v <= last + (B - x)
        BY <1>1, <4>3
      <4> QED
        BY <4>2, <4>4, <4>5
    <3>4. pos <= m /\ ReadAt(buf, pos, v) = CellOf(k)
      BY <1>6, <3>2, <3>3 DEF CellMarked
    <3>5. ReadAt(buf', pos, v) = ReadAt(buf, pos, v)
      <4>1. \A j \in 1..v : pos - j + 1 \in 1..m
        BY <3>3, <3>4
      <4>2. \A j \in 1..v : buf'.data[pos - j + 1] = buf.data[pos - j + 1]
        BY <1>12, <4>1
      <4> QED
        BY <4>2 DEF ReadAt
    <3>6. pos <= buf'.len
      BY <1>11, <3>4
    <3> QED
      BY <1>13, <1>14, <3>3, <3>4, <3>5, <3>6 DEF CellMarked
  <2> QED
    BY <2>1, <2>2
<1>17. \A k \in 1..N : Settled(k)'
  <2>1. \A k \in 1..N : Settled(k)
    BY <1>2 DEF Faithful, Marked
  <2> QED
    BY <1>2, <2>1, StillSettled
<1> QED
  BY <1>2, <1>4, <1>5, <1>15, <1>16, <1>17
  DEF Faithful, WritesInOrder, Gathered, Compacted, Marked, EncodedIsLayout

\* When all cells are marked the body stands behind the head of the buffer.
LEMMA MarkHeaderFaithful ==
  ASSUME IInv, Faithful, MarkHeader
  PROVE  Faithful'
<1>1. TypeOK /\ N \in Nat /\ Len(content) = N /\ last \in Nat /\ Sound(buf)
  BY TypeFacts DEF IInv
<1>2. /\ pc = "mark" /\ slot = 0 /\ buf' = PutWords(buf, Header(N, widths)) /\ pc' = "encoded"
      /\ result' = SegmentUnit(last, buf.len + Len(Header(N, widths)))
      /\ shape' = shape /\ content' = content /\ units' = units
  BY DEF MarkHeader, Finish
<1>3. buf.len = last + Extent
  <2>1. buf.len = FromEnd(CStart(1))
    BY <1>2 DEF Faithful, Marked
  <2>2. CStart(1) = 0 /\ Extent \in Nat
    BY <1>1, Geometry
  <2> QED
    BY <2>1, <2>2 DEF FromEnd
<1>4. ASSUME NEW k \in 1..N
      PROVE  /\ ReadAt(buf, FromEnd(CStart(k)), Width(k)) = CellOf(k)
             /\ IsOutlined(k) => ReadAt(buf, FromEnd(PStart(k)), Len(content[k])) = content[k]
  <2>1. k > slot
    BY <1>2
  <2>2. CellMarked(k) /\ Settled(k) /\ content[k] # <<>>
    BY <1>2, <2>1 DEF Faithful, Marked, Encoding
  <2>3. ASSUME IsOutlined(k) PROVE ReadAt(buf, FromEnd(PStart(k)), Len(content[k])) = content[k]
    <3>1. units[k].inline = <<>> /\ units[k].len = Len(content[k]) /\ units[k].pos = FromEnd(PStart(k))
      BY <2>2, <2>3 DEF Settled
    <3>2. UnitWords(units[k], buf) = content[k]
      BY <1>2, <2>2 DEF IInv, UnitsIntact
    <3> QED
      BY <3>1, <3>2 DEF UnitWords
  <2> QED
    BY <2>2, <2>3 DEF CellMarked
<1>5. BodyIn(buf, last, content, widths, shape)
  <2>1. Extent = BodyLength(content, widths, shape)
    BY <1>1, Geometry
  <2> QED
    BY <1>1, <1>4, <2>1 DEF BodyIn, FromEnd, CStart, PStart, Width, CellOf, IsOutlined
<1> QED
  BY <1>1, <1>2, <1>3, <1>5, HeaderCompletes

-----------------------------------------------------------------------------

\* At the start nothing is written.
LEMMA InitFaithful == Init => Faithful
<1> SUFFICES ASSUME Init PROVE Faithful
  OBVIOUS
<1>1. PICK n \in Counts :
        /\ n % Len(shape) = 0
        /\ content = [k \in 1..n |-> <<>>]
        /\ units = [k \in 1..n |-> EmptyUnit]
        /\ slot = n
  BY DEF Init
<1>2. n \in Nat
  BY CountsAssumption
<1>3. N = n
  BY <1>1, <1>2 DEF N
<1>4. pc = "write" /\ cells = <<>> /\ payloads = <<>> /\ shape \in Shapes
  BY DEF Init
<1>5. \A k \in 1..N : content[k] = <<>>
  BY <1>1, <1>3
<1>6. \A k \in 1..N : ToWrite(k)
  <2> TAKE k \in 1..N
  <2>1. Len(shape) \in {1, 2}
    BY <1>4, ShapeLanes
  <2>2. CASE Len(shape) = 1
    BY <1>1, <1>2, <1>3, <2>2 DEF ToWrite
  <2>3. CASE Len(shape) = 2
    <3>1. n % 2 = 0
      BY <1>1, <2>3
    <3> QED
      BY <1>1, <1>2, <1>3, <2>3, <3>1 DEF ToWrite
  <2> QED
    BY <2>1, <2>2, <2>3
<1>7. WritesInOrder /\ WordsChosen
  BY <1>4, <1>5, <1>6 DEF WritesInOrder, WordsChosen
<1> QED
  BY <1>4, <1>7 DEF Faithful, Encoding, Gathered, Compacted, Marked, EncodedIsLayout

\* Every step keeps the words where they belong.
LEMMA NextFaithful ==
  ASSUME IInv, Faithful, [Next]_vars
  PROVE  Faithful'
<1>0. TypeOK'
  BY NextInv DEF IInv
<1>1. CASE WriteInline \/ WriteSegment
  BY <1>1, WriteFaithful
<1>2. ASSUME NEW k \in 1..N, Fold(k) PROVE Faithful'
  BY <1>2, FoldFaithful
<1>3. CASE WriteFails \/ Refuse
  BY <1>3, GivenUpFaithful
<1>4. CASE EncodeEmpty
  BY <1>4, EncodeEmptyFaithful
<1>5. CASE StartCopy
  BY <1>0, <1>5, StartCopyFaithful
<1>6. ASSUME NEW k \in 1..N, CopyIntoCell(k) \/ CopyOutline(k) PROVE Faithful'
  BY <1>6, CopyStepFaithful
<1>7. CASE CopyHeader
  BY <1>7, CopyHeaderFaithful
<1>8. CASE StartPick
  BY <1>0, <1>8, StartPickFaithful
<1>9. CASE Pick
  BY <1>9, PickFaithful
<1>10. CASE StartMark
  BY <1>10, StartMarkFaithful
<1>11. CASE Mark
  BY <1>11, MarkFaithful
<1>12. CASE MarkHeader
  BY <1>12, MarkHeaderFaithful
<1>13. CASE UNCHANGED vars
  <2>1. UNCHANGED <<shape, encoder, content, buf, last, units, pc, slot, tail,
                    cells, payloads, widths, result>>
    BY <1>13 DEF vars
  <2>2. WritesInOrder' /\ WordsChosen' /\ Encoding'
    BY <2>1 DEF Faithful, WritesInOrder, ToWrite, WordsChosen, Kind, Encoding, N
  <2>3. Gathered'
    BY <2>1 DEF Faithful, Gathered, CellGathered, PayloadGathered, CStart, PStart, CellOf,
                IsOutlined, Width, N
  <2>4. Compacted' /\ Marked'
    BY <2>1 DEF Faithful, Compacted, Marked, Settled, CellMarked, Boundary, FromEnd, Extent,
                CStart, PStart, CellOf, IsOutlined, Width, N
  <2>5. EncodedIsLayout'
    BY <2>1 DEF Faithful, EncodedIsLayout, N
  <2> QED
    BY <2>2, <2>3, <2>4, <2>5 DEF Faithful
<1> QED
  BY <1>1, <1>2, <1>3, <1>4, <1>5, <1>6, <1>7, <1>8, <1>9, <1>10, <1>11, <1>12, <1>13 DEF Next

\* The words are where they belong in every reachable state.
THEOREM WordsArePlaced == Spec => []Faithful
<1>1. Init => Faithful
  BY InitFaithful
<1>2. IInv /\ Faithful /\ [Next]_vars => Faithful'
  BY NextFaithful
<1> QED
  BY <1>1, <1>2, Invariance, PTL DEF Spec

-----------------------------------------------------------------------------
(***************************************************************************)
(* Refinement.  The specification of what encoding promises is instantiated *)
(* with the encoders' state; it lays words out as this module does.        *)
(***************************************************************************)

\* Lanes, sizes and widths are the same in the instance (serialize.rs, measure).
LEMMA AbstractWidths ==
  /\ \A s, k : Abstract!Lane(s, k) = Lane(s, k)
  /\ \A c : Abstract!Sizes(c) = Sizes(c)
  /\ \A z, s, l, w : Abstract!LaneTotal(z, s, l, w) = LaneTotal(z, s, l, w)
  /\ \A z, s, l : Abstract!BestWidth(z, s, l) = BestWidth(z, s, l)
  /\ \A z, s : Abstract!Widths(z, s) = Widths(z, s)
<1>1. \A s, k : Abstract!Lane(s, k) = Lane(s, k)
  BY DEF Abstract!Lane, Lane
<1>2. \A c : Abstract!Sizes(c) = Sizes(c)
  BY DEF Abstract!Sizes, Sizes
<1>3. \A f, S : Abstract!SumFunctionOnSet(f, S) = SumFunctionOnSet(f, S)
  BY DEF Abstract!SumFunctionOnSet, SumFunctionOnSet, Abstract!FoldFunctionOnSet,
         FoldFunctionOnSet, Abstract!MapThenFoldSet, MapThenFoldSet
<1>4. \A z, s, l : Abstract!Slots(z, s, l) = Slots(z, s, l)
  BY <1>1 DEF Abstract!Slots, Slots
<1>5. \A z, s, l, w : Abstract!LaneTotal(z, s, l, w) = LaneTotal(z, s, l, w)
  BY <1>3, <1>4 DEF Abstract!LaneTotal, LaneTotal
<1>6. \A z, s, l : Abstract!BestWidth(z, s, l) = BestWidth(z, s, l)
  BY <1>5 DEF Abstract!BestWidth, BestWidth
<1>7. \A z, s : Abstract!Widths(z, s) = Widths(z, s)
  BY <1>6 DEF Abstract!Widths, Widths
<1> QED
  BY <1>1, <1>2, <1>5, <1>6, <1>7

\* So is the size compared with the limit.
LEMMA AbstractEncodedSize ==
  \A z, s : Abstract!EncodedSize(z, s) = EncodedSize(z, s)
<1>1. \A f : Abstract!SumFunction(f) = SumFunction(f)
  BY DEF Abstract!SumFunction, SumFunction, Abstract!SumFunctionOnSet, SumFunctionOnSet,
         Abstract!FoldFunctionOnSet, FoldFunctionOnSet, Abstract!MapThenFoldSet, MapThenFoldSet
<1> QED
  BY <1>1, AbstractWidths DEF Abstract!EncodedSize, EncodedSize

\* So is the layout.
LEMMA AbstractLayout ==
  /\ \A s : Abstract!EmptyContainer(s) = EmptyContainer(s)
  /\ \A c, s : Abstract!Layout(c, s) = Layout(c, s)
<1>1. \A w, s, k : Abstract!CellWidth(w, s, k) = CellWidth(w, s, k)
  BY AbstractWidths DEF Abstract!CellWidth, CellWidth
<1>2. \A w, s, k : Abstract!CellStart(w, s, k) = CellStart(w, s, k)
  BY AbstractWidths DEF Abstract!CellStart, CellStart
<1>3. \A z, w, s : Abstract!Outlined(z, w, s) = Outlined(z, w, s)
  BY <1>1 DEF Abstract!Outlined, Outlined
<1>4. \A f, S : Abstract!SumFunctionOnSet(f, S) = SumFunctionOnSet(f, S)
  BY DEF Abstract!SumFunctionOnSet, SumFunctionOnSet, Abstract!FoldFunctionOnSet,
         FoldFunctionOnSet, Abstract!MapThenFoldSet, MapThenFoldSet
<1>5. \A z, w, s, k : Abstract!PayloadStart(z, w, s, k) = PayloadStart(z, w, s, k)
  BY <1>2, <1>3, <1>4 DEF Abstract!PayloadStart, PayloadStart
<1>6. \A o : Abstract!Offset(o) = Offset(o)
  BY DEF Abstract!Offset, Offset
<1>7. \A v, w : Abstract!Pad(v, w) = Pad(v, w)
  BY DEF Abstract!Pad, Pad
<1>8. \A c, w, s, k : Abstract!Cell(c, w, s, k) = Cell(c, w, s, k)
  BY <1>1, <1>2, <1>5, <1>6, <1>7, AbstractWidths DEF Abstract!Cell, Cell
<1>9. \A f : Abstract!FlattenSeq(f) = FlattenSeq(f)
  BY DEF Abstract!FlattenSeq, FlattenSeq
<1>10. \A c, w, s : Abstract!Payloads(c, w, s) = Payloads(c, w, s)
  BY <1>3, <1>9, AbstractWidths DEF Abstract!Payloads, Payloads
<1>11. \A n, w : Abstract!Header(n, w) = Header(n, w)
  BY DEF Abstract!Header, Header
<1>12. \A s : Abstract!EmptyContainer(s) = EmptyContainer(s)
  BY <1>11 DEF Abstract!EmptyContainer, EmptyContainer
<1>13. \A c, s : Abstract!Layout(c, s) = Layout(c, s)
  <2> TAKE c, s
  <2>1. [k \in 1..Len(c) |-> Abstract!Cell(c, Widths(Sizes(c), s), s, k)]
          = [k \in 1..Len(c) |-> Cell(c, Widths(Sizes(c), s), s, k)]
    BY <1>8
  <2>2. Abstract!Layout(c, s) =
          Header(Len(c), Widths(Sizes(c), s))
            \o FlattenSeq([k \in 1..Len(c) |-> Abstract!Cell(c, Widths(Sizes(c), s), s, k)])
            \o Payloads(c, Widths(Sizes(c), s), s)
    BY <1>9, <1>10, <1>11, AbstractWidths DEF Abstract!Layout
  <2> QED
    BY <2>1, <2>2 DEF Layout
<1> QED
  BY <1>12, <1>13

\* At the start the instance has every slot to write and no words yet.
LEMMA InitImplements == Init => Abstract!Init
<1> SUFFICES ASSUME Init PROVE Abstract!Init
  OBVIOUS
<1>1. PICK n \in Counts : n % Len(shape) = 0 /\ content = [k \in 1..n |-> <<>>]
  BY DEF Init
<1> QED
  BY <1>1 DEF Init, Abstract!Init, Abstract!Whole

\* Storing a slot's words is the instance's Write of that slot.
LEMMA StoreImplements ==
  ASSUME IInv, Faithful, pc = "write", slot > 0,
         NEW value \in Contents(NextSlot, Kind(NextSlot)), NEW b, NEW u,
         Store(NextSlot, value, b, u)
  PROVE  Abstract!Next
<1>1. NextSlot \in 1..N /\ Len(content) = N /\ content[NextSlot] = <<>>
  BY NextSlotExists, NextSlotIsFree, TypeFacts DEF IInv
<1>2. /\ content' = [content EXCEPT ![NextSlot] = value] /\ shape' = shape /\ pc' = pc
  BY DEF Store
<1>3. NextSlot \in DOMAIN content
  BY <1>1 DEF IInv, TypeOK
<1>4. Abstract!Write(NextSlot)
  BY <1>1, <1>2, AbstractWidths DEF Abstract!Write, Kind
<1> QED
  BY <1>3, <1>4 DEF Abstract!Next

\* When an encoder is called, every slot of the instance is written.
LEMMA CalledIsWritten ==
  ASSUME IInv, Faithful, Called
  PROVE  /\ Abstract!Written
         /\ Abstract!EncodedSize(Abstract!Sizes(content), shape) = EncodedSize(UnitSizes, shape)
         /\ N > 0 <=> content # <<>>
         /\ N = 0 <=> content = <<>>
<1>1. N \in Nat /\ Len(content) = N /\ content \in Seq(Seq(Nat))
  BY TypeFacts DEF IInv, TypeOK
<1> QED
  BY <1>1, CallFacts, AbstractWidths, AbstractEncodedSize DEF Abstract!Written

\* An empty container is encoded in one step.
LEMMA EncodeEmptyImplements ==
  ASSUME IInv, Faithful, EncodeEmpty
  PROVE  Abstract!Next
<1>1. /\ Called /\ pc = "write" /\ N = 0 /\ pc' = "encoded"
      /\ result' = InlineUnit(EmptyContainer(shape)) /\ shape' = shape /\ content' = content
  BY DEF EncodeEmpty, Finish, Called
<1>2. UnitWords(result', buf') = Abstract!EmptyContainer(shape)
  BY <1>1, AbstractLayout DEF UnitWords, InlineUnit, EmptyContainer
<1>3. Abstract!Encode
  BY <1>1, <1>2, CalledIsWritten DEF Abstract!Encode
<1> QED
  BY <1>3 DEF Abstract!Next

\* A container as large as the limit is refused.
LEMMA RefuseImplements ==
  ASSUME IInv, Faithful, Refuse
  PROVE  Abstract!Next
<1>1. /\ Called /\ pc = "write" /\ N > 0 /\ pc' = "refused" /\ shape' = shape /\ content' = content
      /\ EncodedSize(UnitSizes, shape) >= SizeLimit
  BY DEF Refuse, Called
<1>2. Abstract!Encode
  BY <1>1, CalledIsWritten DEF Abstract!Encode
<1> QED
  BY <1>2 DEF Abstract!Next

\* Writing the header completes the container: the instance encodes it.
LEMMA HeaderImplements ==
  ASSUME IInv, Faithful, Faithful', CopyHeader \/ MarkHeader
  PROVE  Abstract!Next
<1>1. /\ pc \in {"copy", "mark"} /\ pc' = "encoded" /\ shape' = shape /\ content' = content
  BY DEF CopyHeader, MarkHeader, Finish
<1>2. N \in Nat /\ Len(content) = N /\ content \in Seq(Seq(Nat))
  BY TypeFacts DEF IInv, TypeOK
<1>3. /\ N > 0 /\ \A k \in 1..N : content[k] # <<>>
      /\ EncodedSize(Sizes(content), shape) < SizeLimit
  BY <1>1 DEF Faithful, Encoding
<1>4. content # <<>> /\ Abstract!Written
  BY <1>2, <1>3 DEF Abstract!Written
<1>5. UnitWords(result', buf') = Abstract!Layout(content, shape)
  BY <1>1, <1>4, AbstractLayout DEF Faithful, EncodedIsLayout
<1>6. Abstract!EncodedSize(Abstract!Sizes(content), shape) < SizeLimit
  BY <1>3, AbstractWidths, AbstractEncodedSize
<1>7. Abstract!Encode
  BY <1>1, <1>4, <1>5, <1>6 DEF Abstract!Encode
<1> QED
  BY <1>7 DEF Abstract!Next

\* Every step of the encoders is a step of the instance, or none.
LEMMA NextImplements ==
  ASSUME IInv, Faithful, Faithful', [Next]_vars
  PROVE  [Abstract!Next]_Abstract!vars
<1>1. CASE WriteInline
  <2>1. PICK value \in Contents(NextSlot, Kind(NextSlot)) :
          Store(NextSlot, value, buf, InlineUnit(value))
    BY <1>1 DEF WriteInline
  <2> QED
    BY <1>1, <2>1, StoreImplements DEF WriteInline
<1>2. CASE WriteSegment
  <2>1. PICK value \in Contents(NextSlot, "object") :
          Store(NextSlot, value, PutWords(buf, value), SegmentUnit(buf.len, buf.len + Len(value)))
    BY <1>2 DEF WriteSegment
  <2>2. Kind(NextSlot) = "object" /\ pc = "write" /\ slot > 0
    BY <1>2 DEF WriteSegment
  <2> QED
    BY <2>1, <2>2, StoreImplements
<1>3. CASE WriteFails
  <2>1. /\ pc = "write" /\ slot > 0 /\ pc' = "failed" /\ shape' = shape /\ content' = content
    BY <1>3 DEF WriteFails
  <2>2. NextSlot \in DOMAIN content /\ content[NextSlot] = <<>>
    BY <2>1, NextSlotExists, NextSlotIsFree, TypeFacts DEF IInv, TypeOK
  <2>3. Abstract!Fail
    BY <2>1, <2>2 DEF Abstract!Fail, Abstract!Written
  <2> QED
    BY <2>3 DEF Abstract!Next
<1>4. CASE EncodeEmpty
  BY <1>4, EncodeEmptyImplements
<1>5. CASE Refuse
  BY <1>5, RefuseImplements
<1>6. CASE CopyHeader \/ MarkHeader
  BY <1>6, HeaderImplements
<1>7. ASSUME shape' = shape, content' = content,
             pc' = pc \/ {pc, pc'} \subseteq {"write", "copy", "pick", "mark"},
             pc = "encoded" => result' = result /\ buf' = buf
      PROVE  UNCHANGED Abstract!vars
  BY <1>7 DEF Abstract!vars
<1>8. CASE UNCHANGED vars
  BY <1>7, <1>8 DEF vars
<1>9. CASE StartCopy \/ StartPick
  BY <1>7, <1>9 DEF StartCopy, StartPick, Called
<1>10. CASE StartMark \/ Mark
  BY <1>7, <1>10 DEF StartMark, Mark
<1>11. CASE \E k \in 1..N : Fold(k)
  BY <1>7, <1>11 DEF Fold
<1>12. CASE \E k \in 1..N : CopyIntoCell(k) \/ CopyOutline(k)
  BY <1>7, <1>12 DEF CopyIntoCell, CopyOutline, Copying
<1>13. CASE Pick
  BY <1>7, <1>13 DEF Pick, PickInline, PickIntoCell, PickMove, PickStay, Picked, Picking
<1> QED
  BY <1>1, <1>2, <1>3, <1>4, <1>5, <1>6, <1>8, <1>9, <1>10, <1>11, <1>12, <1>13 DEF Next

(***************************************************************************)
(* Both encoders implement what encoding promises (serialize_array_at,     *)
(* serialize_map_at and their _mut forms): whatever the order of writing,  *)
(* the sizes, the folds and the words already in the buffer, the outcome   *)
(* is the layout of the slots' words, or a refusal exactly when that is    *)
(* too large, or a failure only when a slot is missing.                    *)
(***************************************************************************)
THEOREM EncodersImplement == Spec => ImplementsContainer
<1>1. Init => Abstract!Init
  BY InitImplements
<1>2. IInv /\ Faithful /\ Faithful' /\ [Next]_vars => [Abstract!Next]_Abstract!vars
  BY NextImplements
<1>3. Spec => []IInv
  BY Invariance
<1>4. Spec => []Faithful
  BY WordsArePlaced
<1> QED
  BY <1>1, <1>2, <1>3, <1>4, PTL DEF Spec, ImplementsContainer, Abstract!Spec

-----------------------------------------------------------------------------
(***************************************************************************)
(* What the views find.                                                    *)
(***************************************************************************)

\* The accessors are the same in the instance (access.rs).
LEMMA AbstractReaders ==
  /\ \A v, s : Abstract!ReadCount(v, s) = ReadCount(v, s)
  /\ \A v, s, k : Abstract!FieldStart(v, s, k) = FieldStart(v, s, k)
  /\ \A x : Abstract!IsOffset(x) <=> IsOffset(x)
  /\ \A v, s, k, c : Abstract!Reads(v, s, k, c) <=> Reads(v, s, k, c)
<1>1. \A v, s : Abstract!ReadCount(v, s) = ReadCount(v, s)
  BY DEF Abstract!ReadCount, ReadCount
<1>2. \A v, s : Abstract!ReadWidths(v, s) = ReadWidths(v, s)
  BY DEF Abstract!ReadWidths, ReadWidths
<1>3. \A s : Abstract!HeaderLength(s) = HeaderLength(s)
  BY DEF Abstract!HeaderLength, HeaderLength
<1>4. \A w, s, k : Abstract!CellStart(w, s, k) = CellStart(w, s, k)
  BY AbstractWidths DEF Abstract!CellStart, CellStart
<1>5. \A w, s, k : Abstract!CellWidth(w, s, k) = CellWidth(w, s, k)
  BY AbstractWidths DEF Abstract!CellWidth, CellWidth
<1>6. \A v, s, k : Abstract!FieldStart(v, s, k) = FieldStart(v, s, k)
  BY <1>2, <1>3, <1>4 DEF Abstract!FieldStart, FieldStart
<1>7. \A v, s, k : Abstract!FieldTail(v, s, k) = FieldTail(v, s, k)
  BY <1>6 DEF Abstract!FieldTail, FieldTail
<1>8. \A x : Abstract!IsOffset(x) <=> IsOffset(x)
  BY DEF Abstract!IsOffset, IsOffset
<1>9. \A t : Abstract!ObjectWords(t) = ObjectWords(t)
  BY <1>8 DEF Abstract!ObjectWords, ObjectWords
<1>10. \A v, s, k : Abstract!RawWords(v, s, k) = RawWords(v, s, k)
  BY <1>2, <1>5, <1>7 DEF Abstract!RawWords, RawWords
<1>11. \A a, b : Abstract!IsPrefix(a, b) <=> IsPrefix(a, b)
  BY DEF Abstract!IsPrefix, IsPrefix
<1>12. \A v, s, k, c : Abstract!Reads(v, s, k, c) <=> Reads(v, s, k, c)
  BY <1>7, <1>9, <1>10, <1>11, AbstractWidths DEF Abstract!Reads, Reads
<1> QED
  BY <1>1, <1>6, <1>8, <1>12

\* The slots of an encoded container hold words of their lane's kind.
LEMMA EncodedFacts ==
  ASSUME IInv, Faithful, Abstract!Encoded
  PROVE  /\ pc = "encoded" /\ content \in Seq(Seq(Nat)) /\ Len(content) = N /\ N \in Nat
         /\ DOMAIN content = 1..N
         /\ Len(shape) \in {1, 2} /\ N % Len(shape) = 0
         /\ AllOfKind(content, shape)
         /\ UnitWords(result, buf) = Layout(content, shape)
         /\ EncodedSize(Sizes(content), shape) < SizeLimit
<1>1. pc = "encoded" /\ content # <<>>
  BY DEF Abstract!Encoded, IInv, TypeOK
<1>2. /\ \A k \in 1..N : content[k] # <<>>
      /\ UnitWords(result, buf) = Layout(content, shape)
      /\ EncodedSize(Sizes(content), shape) < SizeLimit
  BY <1>1 DEF Faithful, EncodedIsLayout
<1>3. /\ content \in Seq(Seq(Nat)) /\ Len(content) = N /\ N \in Nat /\ N \in Counts
      /\ shape \in Shapes /\ N % Len(shape) = 0
  BY TypeFacts DEF IInv, TypeOK
<1>4. Len(shape) \in {1, 2} /\ DOMAIN content = 1..N
  BY <1>3, ShapeLanes
<1>5. ASSUME NEW k \in 1..N PROVE OfKind(content[k], shape[Lane(shape, k)])
  <2>1. shape[Lane(shape, k)] \in Kinds
    BY <1>3, LaneInRange
  <2>2. content[k] \in Contents(k, shape[Lane(shape, k)]) /\ content[k] # <<>>
    BY <1>2 DEF Faithful, WordsChosen, Kind
  <2> QED
    BY <1>3, <2>1, <2>2, ValuesAssumption DEF OfKind
<1>6. AllOfKind(content, shape)
  BY <1>3, <1>5 DEF AllOfKind
<1> QED
  BY <1>1, <1>2, <1>3, <1>4, <1>6

(***************************************************************************)
(* Every accessor of the view over an encoded array or map yields the      *)
(* words put into its slot, whatever follows the container (serialize.rs   *)
(* and access.rs).                                                         *)
(***************************************************************************)
THEOREM EncodersReadBack == Spec => []ReadsBack
<1>1. IInv /\ Faithful => ReadsBack
  <2>1. {<<>>, <<3>>, <<9, 9>>} \subseteq Seq(Nat)
    OBVIOUS
  <2> SUFFICES ASSUME IInv, Faithful, Abstract!Encoded, NEW rest \in Seq(Nat)
               PROVE  /\ ReadCount(UnitWords(result, buf) \o rest, shape) = Len(content)
                      /\ \A k \in DOMAIN content :
                           Reads(UnitWords(result, buf) \o rest, shape, k, content[k])
    BY <2>1, EncodedFacts, AbstractReaders DEF ReadsBack, Abstract!ReadsBack
  <2>2. /\ ReadCount(Layout(content, shape) \o rest, shape) = Len(content)
        /\ \A k \in 1..Len(content) : Reads(Layout(content, shape) \o rest, shape, k, content[k])
    <3>1. /\ content \in Seq(Seq(Nat)) /\ Len(shape) \in {1, 2} /\ Len(content) % Len(shape) = 0
          /\ AllOfKind(content, shape)
      BY EncodedFacts
    <3> QED
      BY <3>1, LayoutReads
  <2> QED
    BY <2>2, EncodedFacts
<1>2. Spec => []IInv
  BY Invariance
<1>3. Spec => []Faithful
  BY WordsArePlaced
<1> QED
  BY <1>1, <1>2, <1>3, PTL

(***************************************************************************)
(* The size compared with the limit is the size written, and no offset in  *)
(* a cell reaches the limit (serialize_array_at, serialize_map_at).        *)
(***************************************************************************)
THEOREM SizesAreExact == Spec => []SizeIsExact
<1>1. IInv /\ Faithful => SizeIsExact
  <2> SUFFICES ASSUME IInv, Faithful, Abstract!Encoded
               PROVE  /\ Len(Layout(content, shape))
                           = EncodedSize(Sizes(content), shape) + (IF Len(shape) = 1 THEN 1 ELSE 0)
                      /\ \A k \in DOMAIN content :
                           LET first == Layout(content, shape)[FieldStart(Layout(content, shape), shape, k) + 1]
                           IN  shape[Lane(shape, k)] = "object" /\ IsOffset(first)
                                 => first \div 4 < SizeLimit
    BY EncodedFacts, AbstractReaders, AbstractWidths, AbstractEncodedSize
       DEF SizeIsExact, Abstract!SizeIsExact
  <2>1. /\ Len(Layout(content, shape))
             = EncodedSize(Sizes(content), shape) + (IF Len(shape) = 1 THEN 1 ELSE 0)
        /\ EncodedSize(Sizes(content), shape) \in Nat
        /\ \A k \in 1..Len(content) :
             LET first == Layout(content, shape)[FieldStart(Layout(content, shape), shape, k) + 1]
             IN  shape[Lane(shape, k)] = "object" /\ IsOffset(first)
                   => first \div 4 \in Nat /\ first \div 4 < EncodedSize(Sizes(content), shape)
    BY EncodedFacts, LayoutExtent
  <2>2. EncodedSize(Sizes(content), shape) < SizeLimit /\ DOMAIN content = 1..Len(content)
    BY EncodedFacts
  <2>3. \A a, b, c \in Nat : a < b /\ b < c => a < c
    OBVIOUS
  <2> QED
    BY <2>1, <2>2, <2>3, LimitAssumption
<1>2. Spec => []IInv
  BY Invariance
<1>3. Spec => []Faithful
  BY WordsArePlaced
<1> QED
  BY <1>1, <1>2, <1>3, PTL
=============================================================================
