------------------------- MODULE Algorithms_proofs -------------------------
(***************************************************************************)
(* What the run of MCAlgorithms checks on small instances, proved for all:  *)
(* Poly1305 for limbs of any width, and with limbs of 26 bits the tag of   *)
(* every key and message; the pins of a GPIO of any size; the printed numbers    *)
(* of any width and what the displays show of any character.               *)
(*                                                                         *)
(* Poly1305.  Every sum and product of a block is bounded by a multiple of *)
(* the square of a quarter of a limb, so nothing wraps in 32 or 64 bits    *)
(* and the sums may be read as polynomials in the limb's width.  A block   *)
(* then multiplies the number the limbs stand for by that of the key, but  *)
(* for multiples of P.  After the last block one round of carries and one  *)
(* subtraction give the remainder itself.                                  *)
(***************************************************************************)
EXTENDS Poly1305, Gpio, Printing, Displays, CommonLemmas, FiniteSetTheorems

-----------------------------------------------------------------------------
(* The widths of limbs and of the code's integers.                         *)
Quarter == pow2[LIMB_BITS - 2]

(* All of them in limbs, and a limb in quarters.                           *)
LEMMA PolyWidths ==
  /\ Quarter \in Nat /\ Quarter >= 4
  /\ Limb = 4 * Quarter
  /\ UINT32 = 256 * Quarter
  /\ UINT64 = 65536 * (Quarter * Quarter)
  /\ pow2[LIMB_BITS * 0] = 1
  /\ pow2[LIMB_BITS * 1] = Limb
  /\ pow2[LIMB_BITS * 2] = Limb * Limb
  /\ pow2[LIMB_BITS * 3] = Limb * Limb * Limb
  /\ pow2[LIMB_BITS * 4] = Limb * Limb * Limb * Limb
  /\ TagSize = Quarter * (Limb * Limb * Limb * Limb)
  /\ P = Limb * Limb * Limb * Limb * Limb - 5
<1> DEFINE l == LIMB_BITS
<1>0. l \in Nat /\ l >= 4
  BY PolyAssumption
<1>1. pow2[1] = 2 /\ pow2[2] = 4 /\ pow2[4] = 16 /\ pow2[6] = 64
  BY SmallPowers
<1>2. Quarter \in Nat /\ Quarter >= 4
  <2>0. l - 4 \in Nat
    BY <1>0
  <2> DEFINE j == l - 4
  <2>1. pow2[j + 2] = pow2[j] * pow2[2] /\ pow2[j] \in Nat \ {0}
    <3> HIDE DEF j
    <3> QED BY <2>0, PowAdds, PowIs DEF j
  <2>2. (l - 4) + 2 = l - 2
    BY <1>0
  <2> QED BY <2>1, <2>2, <1>1 DEF Quarter
<1>3. Limb = 4 * Quarter
  <2>1. pow2[(l - 2) + 2] = pow2[l - 2] * pow2[2]
    BY <1>0, PowAdds
  <2>2. (l - 2) + 2 = l
    BY <1>0
  <2> QED BY <1>1, <1>2, <2>1, <2>2 DEF Limb, Quarter
<1>4. UINT32 = 256 * Quarter
  <2>1. pow2[l + 6] = pow2[l] * pow2[6]
    BY <1>0, PowAdds
  <2> QED BY <1>1, <1>2, <1>3, <2>1 DEF UINT32, Limb
<1>5. UINT64 = 65536 * (Quarter * Quarter)
  BY <1>2, <1>4 DEF UINT64
<1>6. /\ pow2[l * 0] = 1 /\ pow2[l * 1] = Limb
  BY <1>0, PowIs DEF Limb
<1>7. pow2[l * 2] = Limb * Limb
  <2>1. pow2[l + l] = Limb * Limb
    BY <1>0, PowAdds DEF Limb
  <2>2. l * 2 = l + l
    BY <1>0
  <2> QED BY <2>1, <2>2
<1>8. pow2[l * 3] = Limb * Limb * Limb
  <2>1. pow2[l * 2 + l] = Limb * Limb * Limb
    BY <1>0, <1>7, PowAdds DEF Limb
  <2>2. l * 3 = l * 2 + l
    BY <1>0
  <2> QED BY <2>1, <2>2
<1>9. pow2[l * 4] = Limb * Limb * Limb * Limb
  <2>1. pow2[l * 3 + l] = Limb * Limb * Limb * Limb
    BY <1>0, <1>8, PowAdds DEF Limb
  <2>2. l * 4 = l * 3 + l
    BY <1>0
  <2> QED BY <2>1, <2>2
<1>10. TagSize = Quarter * (Limb * Limb * Limb * Limb)
  <2>1. pow2[l * 4 + (l - 2)] = (Limb * Limb * Limb * Limb) * Quarter
    BY <1>0, <1>9, PowAdds DEF Quarter
  <2>2. 5 * l - 2 = l * 4 + (l - 2)
    BY <1>0
  <2> QED BY <1>2, <1>3, <2>1, <2>2 DEF TagSize
<1>11. P = Limb * Limb * Limb * Limb * Limb - 5
  <2>1. pow2[l * 4 + l] = Limb * Limb * Limb * Limb * Limb
    BY <1>0, <1>9, PowAdds DEF Limb
  <2>2. 5 * l = l * 4 + l
    BY <1>0
  <2> QED BY <2>1, <2>2 DEF P
<1> QED
  BY <1>2, <1>3, <1>4, <1>5, <1>6, <1>7, <1>8, <1>9, <1>10, <1>11

(* P is a modulus. *)
LEMMA PIsPositive == P \in Nat \ {0} /\ P > 5
<1>1. Quarter \in Nat /\ Quarter >= 4 /\ Limb = 4 * Quarter
      /\ P = Limb * Limb * Limb * Limb * Limb - 5
  BY PolyWidths
<1>2. Limb \in Nat /\ Limb >= 16
  BY <1>1
<1> DEFINE B == Limb
<1>3. B * B \in Nat /\ B * B >= 16
  <2> HIDE DEF B
  <2>1. B \in Nat /\ B >= 16
    BY <1>2 DEF B
  <2>2. 16 * B <= B * B
    BY <2>1
  <2> QED BY <2>1, <2>2
<1> DEFINE C == B * B
<1>4. C * C \in Nat /\ C * C >= 16
  <2> HIDE DEF C
  <2>1. C \in Nat /\ C >= 16
    BY <1>3 DEF C
  <2>2. 16 * C <= C * C
    BY <2>1
  <2> QED BY <2>1, <2>2
<1> DEFINE D == C * C
<1>5. D * B \in Nat /\ D * B >= 16
  <2> HIDE DEF D, B
  <2>1. D \in Nat /\ D >= 16 /\ B \in Nat /\ B >= 16
    BY <1>2, <1>4 DEF D, B
  <2>2. D * 16 <= D * B
    BY <2>1
  <2> QED BY <2>1, <2>2
<1>6. P = D * B - 5
  <2>1. D * B = B * B * B * B * B
    BY <1>2
  <2> QED BY <1>1, <2>1
<1> HIDE DEF D, B
<1> QED BY <1>5, <1>6

-----------------------------------------------------------------------------
(* Numbers and their limbs.                                                *)

(* A number of integer limbs is an integer. *)
LEMMA ValueIsInt ==
  ASSUME NEW x, \A k \in 0..4 : x[k] \in Int
  PROVE  Value(x) \in Int
<1> DEFINE B == Limb
<1>1. B \in Int /\ x[0] \in Int /\ x[1] \in Int /\ x[2] \in Int /\ x[3] \in Int /\ x[4] \in Int
  BY PolyWidths
<1>2. Value(x) = x[0] + B * (x[1] + B * (x[2] + B * (x[3] + B * x[4])))
  BY DEF Value
<1> HIDE DEF B
<1> QED BY <1>1, <1>2

(* Limbs may be added one by one. *)
Sums(x, y, z) == \A k \in 0..4 : y[k] \in Int /\ z[k] \in Int /\ x[k] = y[k] + z[k]

LEMMA ValueAdds ==
  ASSUME NEW x, NEW y, NEW z, Sums(x, y, z)
  PROVE  Value(x) = Value(y) + Value(z)
<1> DEFINE B == Limb
           y0 == y[0]  y1 == y[1]  y2 == y[2]  y3 == y[3]  y4 == y[4]
           z0 == z[0]  z1 == z[1]  z2 == z[2]  z3 == z[3]  z4 == z[4]
<1>1. /\ y0 \in Int /\ y1 \in Int /\ y2 \in Int /\ y3 \in Int /\ y4 \in Int
      /\ z0 \in Int /\ z1 \in Int /\ z2 \in Int /\ z3 \in Int /\ z4 \in Int
      /\ x[0] = y0 + z0 /\ x[1] = y1 + z1 /\ x[2] = y2 + z2 /\ x[3] = y3 + z3 /\ x[4] = y4 + z4
  <2>1. 0 \in 0..4 /\ 1 \in 0..4 /\ 2 \in 0..4 /\ 3 \in 0..4 /\ 4 \in 0..4
    OBVIOUS
  <2> QED BY <2>1 DEF Sums
<1>2. B \in Int
  BY PolyWidths
<1>3. /\ Value(x) = y0 + z0 + B * (y1 + z1 + B * (y2 + z2 + B * (y3 + z3 + B * (y4 + z4))))
      /\ Value(y) = y0 + B * (y1 + B * (y2 + B * (y3 + B * y4)))
      /\ Value(z) = z0 + B * (z1 + B * (z2 + B * (z3 + B * z4)))
  <2> HIDE DEF y0, y1, y2, y3, y4, z0, z1, z2, z3, z4
  <2>1. Value(x) = y0 + z0 + B * (y1 + z1 + B * (y2 + z2 + B * (y3 + z3 + B * (y4 + z4))))
    BY <1>1 DEF Value
  <2>2. Value(y) = y0 + B * (y1 + B * (y2 + B * (y3 + B * y4)))
    BY DEF Value, y0, y1, y2, y3, y4
  <2>3. Value(z) = z0 + B * (z1 + B * (z2 + B * (z3 + B * z4)))
    BY DEF Value, z0, z1, z2, z3, z4
  <2> QED BY <2>1, <2>2, <2>3
<1> HIDE DEF B, y0, y1, y2, y3, y4, z0, z1, z2, z3, z4
<1> QED
  BY <1>1, <1>2, <1>3

(* Five limbs of a number below TagSize, and their value.                  *)
LEMMA SplitIs ==
  ASSUME NEW n \in Nat, n < TagSize
  PROVE  /\ Split(n) \in [0..4 -> 0..(Limb - 1)]
         /\ Split(n)[4] < Quarter
         /\ Value(Split(n)) = n
<1> DEFINE B == Limb
           b == Quarter
           q1 == n \div B
           q2 == q1 \div B
           q3 == q2 \div B
           q4 == q3 \div B
           x == Split(n)
<1>1. /\ B \in Nat \ {0} /\ b \in Nat \ {0} /\ b <= B
      /\ TagSize = b * (B * B * B * B)
  BY PolyWidths
<1> HIDE DEF B, b
<1>2. /\ q1 \in Nat /\ n % B \in 0..(B - 1) /\ (n % B) + B * q1 = n
      /\ q2 \in Nat /\ q1 % B \in 0..(B - 1) /\ (q1 % B) + B * q2 = q1
      /\ q3 \in Nat /\ q2 % B \in 0..(B - 1) /\ (q2 % B) + B * q3 = q2
      /\ q4 \in Nat /\ q3 % B \in 0..(B - 1) /\ (q3 % B) + B * q4 = q3
  <2>1. q1 \in Nat /\ n % B \in 0..(B - 1) /\ (n % B) + B * q1 = n
    BY <1>1, DivNat
  <2>2. q2 \in Nat /\ q1 % B \in 0..(B - 1) /\ (q1 % B) + B * q2 = q1
    BY <1>1, <2>1, DivNat
  <2>3. q3 \in Nat /\ q2 % B \in 0..(B - 1) /\ (q2 % B) + B * q3 = q2
    BY <1>1, <2>2, DivNat
  <2>4. q4 \in Nat /\ q3 % B \in 0..(B - 1) /\ (q3 % B) + B * q4 = q3
    BY <1>1, <2>3, DivNat
  <2> QED BY <2>1, <2>2, <2>3, <2>4
<1>3. /\ n \div 1 = n
      /\ n \div (B * B) = q2
      /\ n \div (B * B * B) = q3
      /\ n \div (B * B * B * B) = q4
  <2>0. B * B \in Nat \ {0} /\ B * B * B \in Nat \ {0}
    BY <1>1
  <2>1. n \div (B * B) = q2
    BY <1>1, DivDiv
  <2>2. n \div (B * B * B) = (n \div (B * B)) \div B
    BY <1>1, <2>0, DivDiv
  <2>3. n \div (B * B * B * B) = (n \div (B * B * B)) \div B
    BY <1>1, <2>0, DivDiv
  <2> QED BY <2>1, <2>2, <2>3
<1>4. q4 < b
  <2>1. B * B * B * B \in Nat \ {0} /\ n < (B * B * B * B) * b
    BY <1>1
  <2> QED BY <1>1, <1>3, <2>1, DivLess
<1>5. q4 % B = q4
  BY <1>1, <1>2, <1>4
<1>6. /\ x[0] = n % B /\ x[1] = q1 % B /\ x[2] = q2 % B /\ x[3] = q3 % B /\ x[4] = q4
  <2>1. /\ x[0] = (n \div pow2[LIMB_BITS * 0]) % B
        /\ x[1] = (n \div pow2[LIMB_BITS * 1]) % B
        /\ x[2] = (n \div pow2[LIMB_BITS * 2]) % B
        /\ x[3] = (n \div pow2[LIMB_BITS * 3]) % B
        /\ x[4] = (n \div pow2[LIMB_BITS * 4]) % B
    BY DEF Split, B
  <2>2. /\ pow2[LIMB_BITS * 0] = 1 /\ pow2[LIMB_BITS * 1] = B
        /\ pow2[LIMB_BITS * 2] = B * B /\ pow2[LIMB_BITS * 3] = B * B * B
        /\ pow2[LIMB_BITS * 4] = B * B * B * B
    BY PolyWidths DEF B
  <2> HIDE DEF x, q1, q2, q3, q4
  <2>3. n \div B = q1
    BY DEF q1
  <2> QED BY <1>3, <1>5, <2>1, <2>2, <2>3
<1>7. x = [k \in 0..4 |-> x[k]]
  BY DEF Split
<1> HIDE DEF x, q1, q2, q3, q4
<1>8. \A k \in 0..4 : x[k] \in 0..(B - 1)
  <2>1. q4 \in 0..(B - 1)
    BY <1>1, <1>2, <1>4
  <2>2. x[0] \in 0..(B - 1) /\ x[1] \in 0..(B - 1) /\ x[2] \in 0..(B - 1) /\ x[3] \in 0..(B - 1)
        /\ x[4] \in 0..(B - 1)
    BY <1>2, <1>6, <2>1
  <2>3. \A k \in 0..4 : k = 0 \/ k = 1 \/ k = 2 \/ k = 3 \/ k = 4
    OBVIOUS
  <2> QED BY <2>2, <2>3
<1>9. x \in [0..4 -> 0..(B - 1)]
  BY <1>7, <1>8
<1>10. Value(x) = n
  <2>1. x[3] + B * x[4] = q3
    BY <1>1, <1>2, <1>6
  <2>2. x[2] + B * q3 = q2 /\ x[1] + B * q2 = q1 /\ x[0] + B * q1 = n
    BY <1>1, <1>2, <1>6
  <2> QED BY <2>1, <2>2 DEF Value, B
<1> QED
  BY <1>4, <1>6, <1>9, <1>10 DEF x, B, b

(* The weight of a byte. *)
ByteRange == 0..(pow2[BLOCK_BYTE] - 1)
PowerAt(i) == pow2[BLOCK_BYTE * i]

(* Each byte weighs as much as all values of those before. *)
LEMMA PowerAtNext ==
  ASSUME NEW i \in Nat
  PROVE  PowerAt(i) \in Nat \ {0} /\ PowerAt(i + 1) = pow2[BLOCK_BYTE] * PowerAt(i)
<1>1. BLOCK_BYTE \in Nat /\ BLOCK_BYTE * i \in Nat /\ BLOCK_BYTE * (i + 1) = BLOCK_BYTE + BLOCK_BYTE * i
  BY PolyAssumption
<1> DEFINE j == BLOCK_BYTE * i
<1>2. pow2[BLOCK_BYTE + j] = pow2[BLOCK_BYTE] * pow2[j] /\ pow2[j] \in Nat \ {0}
  <2> HIDE DEF j
  <2> QED BY <1>1, PowAdds, PowIs DEF j
<1> QED BY <1>1, <1>2 DEF PowerAt

(* The bytes of a block as a number.                                       *)
LEMMA NumberIs ==
  ASSUME NEW block \in Seq(ByteRange)
  PROVE  Number(block) \in Nat /\ Number(block) < PowerAt(Len(block))
<1> DEFINE n == Len(block)
           Next1(k, v) == v + block[k] * PowerAt(k - 1)
           Is(t) == t = [k \in 0..n |->
                           IF k = 0 THEN 0 ELSE t[k - 1] + block[k] * pow2[BLOCK_BYTE * (k - 1)]]
           g == [q \in Nat \X Nat |-> IF q[1] \in 1..n THEN Next1(q[1], q[2]) ELSE 0]
           value == CHOOSE t : Is(t)
<1>1. n \in Nat /\ \A k \in 1..n : block[k] \in ByteRange
  OBVIOUS
<1>2. pow2[BLOCK_BYTE] \in Nat \ {0} /\ ByteRange \subseteq Nat
  BY PolyAssumption, PowIs DEF ByteRange
<1> HIDE DEF n
<1>3. ASSUME NEW k \in 1..n, NEW v \in Nat PROVE Next1(k, v) \in Nat
  <2>1. block[k] \in Nat
    BY <1>1, <1>2
  <2>2. k - 1 \in Nat
    BY <1>1
  <2>3. PowerAt(k - 1) \in Nat
    BY <2>2, PowerAtNext
  <2> QED BY <2>1, <2>3
<1>4. g \in [Nat \X Nat -> Nat]
  <2> HIDE DEF Next1
  <2> QED BY <1>3
<1>5. \E t : Is(t)
  <2>1. PICK t \in [0..n -> Nat] : Recurs(t, 0, g, n)
    <3> HIDE DEF g
    <3> QED BY <1>1, <1>4, RecursionTo
  <2>2. ASSUME NEW k \in 1..n PROVE t[k] = Next1(k, t[k - 1])
    <3>1. t[k - 1] \in Nat /\ k \in Nat
      BY <1>1, <2>1
    <3>2. t[k] = g[<<k, t[k - 1]>>]
      <4> HIDE DEF g
      <4> QED BY <2>1 DEF Recurs
    <3> HIDE DEF Next1
    <3> QED BY <3>1, <3>2
  <2>3. t[0] = 0
    BY <2>1 DEF Recurs
  <2>4. Is(t)
    BY <2>1, <2>2, <2>3 DEF PowerAt
  <2> QED BY <2>4
<1>6. Is(value)
  <2> HIDE DEF Is
  <2> QED BY <1>5
<1>7. Number(block) = value[n]
  BY DEF Number, n
<1> HIDE DEF value
<1>8. value[0] = 0 /\ \A k \in 1..n : value[k] = Next1(k, value[k - 1])
  <2>1. ASSUME NEW k \in 0..n
        PROVE  value[k] = IF k = 0 THEN 0 ELSE Next1(k, value[k - 1])
    BY <1>6 DEF PowerAt
  <2>2. \A k \in 1..n : k \in 0..n /\ k # 0
    OBVIOUS
  <2>3. 0 \in 0..n
    BY <1>1
  <2> HIDE DEF Next1
  <2> QED BY <2>1, <2>2, <2>3
<1> HIDE DEF Is
<1> DEFINE T == {k \in Nat : k <= n => value[k] \in Nat /\ value[k] < PowerAt(k)}
<1>9. 0 \in T
  <2>1. value[0] = 0 /\ 0 \in Nat
    BY <1>8
  <2>2. PowerAt(0) \in Nat /\ 0 < PowerAt(0)
    BY <2>1, PowerAtNext
  <2> QED BY <2>1, <2>2
<1>10. ASSUME NEW k \in Nat, k \in T PROVE k + 1 \in T
  <2> SUFFICES ASSUME k + 1 <= n PROVE value[k + 1] \in Nat /\ value[k + 1] < PowerAt(k + 1)
    OBVIOUS
  <2>1. value[k] \in Nat /\ value[k] < PowerAt(k)
    BY <1>1, <1>10
  <2>2. k + 1 \in 1..n /\ (k + 1) - 1 = k
    OBVIOUS
  <2>3. value[k + 1] = value[k] + block[k + 1] * PowerAt(k)
    BY <1>8, <2>2
  <2>4. PowerAt(k) \in Nat \ {0} /\ PowerAt(k + 1) = pow2[BLOCK_BYTE] * PowerAt(k)
    BY PowerAtNext
  <2>5. block[k + 1] \in Nat /\ block[k + 1] <= pow2[BLOCK_BYTE] - 1
    BY <1>1, <1>2, <2>2 DEF ByteRange
  <2>6. ASSUME NEW v \in Nat, NEW p \in Nat \ {0}, v < p, NEW y \in Nat, NEW z \in Nat, y <= z - 1
        PROVE  v + y * p \in Nat /\ v + y * p < z * p
    <3>1. y * p <= (z - 1) * p
      BY <2>6
    <3>2. (z - 1) * p = z * p - p /\ y * p \in Nat /\ z * p \in Nat
      BY <2>6
    <3> QED BY <2>6, <3>1, <3>2
  <2> DEFINE v == value[k]
             p == PowerAt(k)
             y == block[k + 1]
             z == pow2[BLOCK_BYTE]
  <2>7. v + y * p \in Nat /\ v + y * p < z * p
    <3>1. v \in Nat /\ v < p /\ p \in Nat \ {0} /\ y \in Nat /\ z \in Nat /\ y <= z - 1
      BY <1>2, <2>1, <2>4, <2>5
    <3> HIDE DEF v, p, y, z
    <3> QED BY <2>6, <3>1
  <2> QED BY <2>3, <2>4, <2>7
<1>11. Nat \subseteq T
  <2> HIDE DEF T
  <2> QED BY <1>9, <1>10, InductionOnNat
<1> QED
  BY <1>1, <1>7, <1>11 DEF n

(* What a block adds to the accumulator.                                   *)
LEMMA BlockLimbsAre ==
  ASSUME NEW block \in Seq(ByteRange), Len(block) \in 1..BLOCK
  PROVE  LET x == BlockLimbs(block) IN
           /\ \A k \in 0..4 : x[k] \in 0..(Limb - 1)
           /\ x[4] < 2 * Quarter
           /\ Value(x) = Number(block) + PowerAt(Len(block))
<1> DEFINE n == Number(block)
           l == Len(block)
           x == BlockLimbs(block)
<1>1. n \in Nat /\ n < PowerAt(l) /\ l \in 1..BLOCK
  BY NumberIs
<1>2. BLOCK_BYTE \in Nat \ {0} /\ BLOCK \in Nat \ {0} /\ PowerAt(BLOCK) = TagSize
  BY PolyAssumption DEF PowerAt, TagSize
<1>3. pow2[BLOCK_BYTE] \in Nat /\ pow2[BLOCK_BYTE] >= 2
  BY <1>2, PowGrows
<1> HIDE DEF n, l
<1>4. CASE l = BLOCK
  <2>1. /\ Split(n) \in [0..4 -> 0..(Limb - 1)]
        /\ Split(n)[4] < Quarter
        /\ Value(Split(n)) = n
    BY <1>1, <1>2, <1>4, SplitIs
  <2>2. x = [Split(n) EXCEPT ![4] = @ + Quarter]
    BY <1>4 DEF BlockLimbs, n, l, Quarter
  <2> HIDE DEF x
  <2>3. /\ x[0] = Split(n)[0] /\ x[1] = Split(n)[1] /\ x[2] = Split(n)[2] /\ x[3] = Split(n)[3]
        /\ x[4] = Split(n)[4] + Quarter
    BY <2>1, <2>2
  <2> DEFINE y == Split(n)
  <2> HIDE DEF y
  <2>4. /\ Quarter \in Nat /\ Quarter >= 4 /\ Limb = 4 * Quarter
        /\ TagSize = Quarter * (Limb * Limb * Limb * Limb)
    BY PolyWidths
  <2>5. y[0] \in Nat /\ y[1] \in Nat /\ y[2] \in Nat /\ y[3] \in Nat /\ y[4] \in Nat
    BY <2>1, <2>4 DEF y
  <2>6. Value(x) = Value(y) + TagSize
    <3> DEFINE z == [k \in 0..4 |-> IF k = 4 THEN Quarter ELSE 0]
               B == Limb
    <3>1. z[0] = 0 /\ z[1] = 0 /\ z[2] = 0 /\ z[3] = 0 /\ z[4] = Quarter
      OBVIOUS
    <3> HIDE DEF z
    <3>2. Sums(x, y, z)
      <4>1. \A k \in 0..4 : k = 0 \/ k = 1 \/ k = 2 \/ k = 3 \/ k = 4
        OBVIOUS
      <4>2. x[0] = y[0] /\ x[1] = y[1] /\ x[2] = y[2] /\ x[3] = y[3] /\ x[4] = y[4] + Quarter
        BY <2>3 DEF y
      <4>3. \A k \in 0..4 : y[k] \in Int /\ z[k] \in Int
        BY <2>4, <2>5, <3>1, <4>1
      <4>4. \A k \in 0..4 : x[k] = y[k] + z[k]
        <5>1. \A k \in 0..4 : k # 4 => z[k] = 0 /\ x[k] = y[k]
          BY <3>1, <4>1, <4>2
        <5> QED BY SMTT(20), <3>1, <4>2, <4>3, <5>1
      <4> QED BY <4>3, <4>4 DEF Sums
    <3>3. Value(x) = Value(y) + Value(z)
      <4> HIDE DEF B
      <4> QED BY <3>2, ValueAdds
    <3>4. B \in Nat /\ Quarter \in Nat /\ Value(z) = 0 + B * (0 + B * (0 + B * (0 + B * Quarter)))
      BY <2>4, <3>1 DEF Value
    <3>5. TagSize = Quarter * (B * B * B * B)
      BY <2>4
    <3> HIDE DEF B
    <3> QED BY <3>3, <3>4, <3>5
  <2>7. x[4] < 2 * Quarter /\ x[4] \in 0..(Limb - 1)
    BY <2>1, <2>3, <2>4, <2>5 DEF y
  <2>8. \A k \in 0..4 : k # 4 => x[k] \in 0..(Limb - 1)
    BY <2>1, <2>2
  <2> QED BY <1>2, <1>4, <2>1, <2>6, <2>7, <2>8 DEF x, y, n, l
<1>5. CASE l < BLOCK
  <2> DEFINE m == n + PowerAt(l)
  <2>1. m \in Nat /\ m < TagSize
    <3>1. BLOCK - 1 \in Nat /\ l <= BLOCK - 1 /\ (BLOCK - 1) + 1 = BLOCK /\ l \in Nat
      BY <1>1, <1>2, <1>5
    <3>2. PowerAt(BLOCK) = pow2[BLOCK_BYTE] * PowerAt(BLOCK - 1) /\ PowerAt(BLOCK - 1) \in Nat \ {0}
      BY <3>1, PowerAtNext
    <3>3. PowerAt(l) <= PowerAt(BLOCK - 1) /\ PowerAt(l) \in Nat \ {0}
      <4>1. BLOCK_BYTE * l \in Nat /\ BLOCK_BYTE * (BLOCK - 1) - BLOCK_BYTE * l \in Nat
        BY <1>2, <3>1
      <4> DEFINE i == BLOCK_BYTE * l
                 j == BLOCK_BYTE * (BLOCK - 1) - BLOCK_BYTE * l
      <4>2. pow2[i + j] = pow2[i] * pow2[j] /\ pow2[i] \in Nat \ {0} /\ pow2[j] \in Nat \ {0}
        <5> HIDE DEF i, j
        <5> QED BY <4>1, PowAdds, PowIs DEF i, j
      <4>3. i + j = BLOCK_BYTE * (BLOCK - 1)
        BY <1>2, <3>1
      <4> HIDE DEF i, j
      <4> QED BY <4>2, <4>3 DEF PowerAt, i
    <3>4. 2 * PowerAt(BLOCK - 1) <= PowerAt(BLOCK)
      BY <1>3, <3>2
    <3>5. PowerAt(l) <= PowerAt(BLOCK - 1) /\ PowerAt(l) \in Nat /\ PowerAt(BLOCK - 1) \in Nat
      BY <3>2, <3>3
    <3>6. TagSize = PowerAt(BLOCK) /\ PowerAt(BLOCK) \in Nat
      BY <1>2, PowerAtNext
    <3> QED BY <1>1, <3>4, <3>5, <3>6
  <2>2. x = Split(m)
    BY <1>1, <1>5 DEF BlockLimbs, n, l, PowerAt
  <2> HIDE DEF m
  <2>3. /\ Split(m) \in [0..4 -> 0..(Limb - 1)]
        /\ Split(m)[4] < Quarter
        /\ Value(Split(m)) = m
    BY <2>1, SplitIs
  <2>4. Split(m)[4] \in Nat /\ Quarter \in Nat
    BY <2>3, PolyWidths
  <2> HIDE DEF x
  <2> QED BY <2>2, <2>3, <2>4 DEF x, m, n, l
<1> QED BY <1>1, <1>2, <1>4, <1>5

-----------------------------------------------------------------------------
(* Limbs of the key, of a sum and of a product.                            *)
KeyFits == \A k \in 0..4 : r[k] \in 0..(IF k = 4 THEN Quarter ELSE 4 * Quarter - 1)

SumFits(d) ==
  \A k \in 0..4 : d[k] \in 0..(CASE k = 1 -> 24 * Quarter [] k = 4 -> 6 * Quarter
                                 [] OTHER -> 8 * Quarter)

ProductFits(c) ==
  /\ c[0] \in 0..(592 * (Quarter * Quarter))
  /\ c[1] \in 0..(448 * (Quarter * Quarter))
  /\ c[2] \in 0..(320 * (Quarter * Quarter))
  /\ c[3] \in 0..(222 * (Quarter * Quarter))
  /\ c[4] \in 0..(192 * (Quarter * Quarter) - 46 * Quarter)

(* No sum of products is too large, whatever the key.                      *)
LEMMA ProductBounds ==
  ASSUME NEW d, SumFits(d), KeyFits
  PROVE  /\ d[0] * r[0] + d[1] * (5 * r[4]) + d[2] * (5 * r[3]) + d[3] * (5 * r[2]) + d[4] * (5 * r[1])
              \in 0..(592 * (Quarter * Quarter))
         /\ d[0] * r[1] + d[1] * r[0] + d[2] * (5 * r[4]) + d[3] * (5 * r[3]) + d[4] * (5 * r[2])
              \in 0..(448 * (Quarter * Quarter))
         /\ d[0] * r[2] + d[1] * r[1] + d[2] * r[0] + d[3] * (5 * r[4]) + d[4] * (5 * r[3])
              \in 0..(320 * (Quarter * Quarter))
         /\ d[0] * r[3] + d[1] * r[2] + d[2] * r[1] + d[3] * r[0] + d[4] * (5 * r[4])
              \in 0..(222 * (Quarter * Quarter))
         /\ d[0] * r[4] + d[1] * r[3] + d[2] * r[2] + d[3] * r[1] + d[4] * r[0]
              \in 0..(192 * (Quarter * Quarter) - 46 * Quarter)
<1> DEFINE b == Quarter
           bb == b * b
           d0 == d[0]  d1 == d[1]  d2 == d[2]  d3 == d[3]  d4 == d[4]
           r0 == r[0]  r1 == r[1]  r2 == r[2]  r3 == r[3]  r4 == r[4]
<1>1. b \in Nat /\ b >= 4
  BY PolyWidths
<1>2. /\ d0 \in 0..(8 * b) /\ d1 \in 0..(24 * b) /\ d2 \in 0..(8 * b)
      /\ d3 \in 0..(8 * b) /\ d4 \in 0..(6 * b)
  BY DEF SumFits
<1>3. /\ r0 \in 0..(4 * b - 1) /\ r1 \in 0..(4 * b - 1) /\ r2 \in 0..(4 * b - 1)
      /\ r3 \in 0..(4 * b - 1) /\ r4 \in 0..b
  BY DEF KeyFits
<1> HIDE DEF d0, d1, d2, d3, d4, r0, r1, r2, r3, r4, b
<1>4. b \in Nat /\ bb \in Nat /\ 4 * b <= bb
  BY <1>1, TimesGrows
<1>5. ASSUME NEW x \in 0..(8 * b)
      PROVE  /\ \A y \in 0..(4 * b - 1) : x * y \in 0..(32 * bb - 8 * b)
             /\ \A y \in 0..b : x * y \in 0..(8 * bb)
  <2>1. ASSUME NEW y \in 0..(4 * b - 1) PROVE x * y \in 0..(32 * bb - 8 * b)
    <3>1. 8 * b \in Nat /\ 4 * b - 1 \in Nat /\ (8 * b) * (4 * b - 1) = 32 * bb - 8 * b
      BY <1>4
    <3> HIDE DEF bb
    <3>2. x * y \in 0..((8 * b) * (4 * b - 1))
      BY <3>1, <1>1, TimesBound
    <3> QED BY <3>1, <3>2
  <2>2. ASSUME NEW y \in 0..b PROVE x * y \in 0..(8 * bb)
    <3>1. 8 * b \in Nat /\ (8 * b) * b = 8 * bb
      BY <1>4
    <3> HIDE DEF bb
    <3>2. x * y \in 0..((8 * b) * b)
      BY <3>1, <1>1, TimesBound
    <3> QED BY <3>1, <3>2
  <2> QED BY <2>1, <2>2
<1>6. ASSUME NEW x \in 0..(24 * b)
      PROVE  /\ \A y \in 0..(4 * b - 1) : x * y \in 0..(96 * bb - 24 * b)
             /\ \A y \in 0..b : x * y \in 0..(24 * bb)
  <2>1. ASSUME NEW y \in 0..(4 * b - 1) PROVE x * y \in 0..(96 * bb - 24 * b)
    <3>1. 24 * b \in Nat /\ 4 * b - 1 \in Nat /\ (24 * b) * (4 * b - 1) = 96 * bb - 24 * b
      BY <1>4
    <3> HIDE DEF bb
    <3>2. x * y \in 0..((24 * b) * (4 * b - 1))
      BY <3>1, <1>1, TimesBound
    <3> QED BY <3>1, <3>2
  <2>2. ASSUME NEW y \in 0..b PROVE x * y \in 0..(24 * bb)
    <3>1. 24 * b \in Nat /\ (24 * b) * b = 24 * bb
      BY <1>4
    <3> HIDE DEF bb
    <3>2. x * y \in 0..((24 * b) * b)
      BY <3>1, <1>1, TimesBound
    <3> QED BY <3>1, <3>2
  <2> QED BY <2>1, <2>2
<1>7. ASSUME NEW x \in 0..(6 * b)
      PROVE  /\ \A y \in 0..(4 * b - 1) : x * y \in 0..(24 * bb - 6 * b)
             /\ \A y \in 0..b : x * y \in 0..(6 * bb)
  <2>1. ASSUME NEW y \in 0..(4 * b - 1) PROVE x * y \in 0..(24 * bb - 6 * b)
    <3>1. 6 * b \in Nat /\ 4 * b - 1 \in Nat /\ (6 * b) * (4 * b - 1) = 24 * bb - 6 * b
      BY <1>4
    <3> HIDE DEF bb
    <3>2. x * y \in 0..((6 * b) * (4 * b - 1))
      BY <3>1, <1>1, TimesBound
    <3> QED BY <3>1, <3>2
  <2>2. ASSUME NEW y \in 0..b PROVE x * y \in 0..(6 * bb)
    <3>1. 6 * b \in Nat /\ (6 * b) * b = 6 * bb
      BY <1>4
    <3> HIDE DEF bb
    <3>2. x * y \in 0..((6 * b) * b)
      BY <3>1, <1>1, TimesBound
    <3> QED BY <3>1, <3>2
  <2> QED BY <2>1, <2>2
<1> HIDE DEF bb
<1>8. d0 * r0 + d1 * (5 * r4) + d2 * (5 * r3) + d3 * (5 * r2) + d4 * (5 * r1)
         \in 0..(592 * bb)
  <2>1. /\ d0 * r0 \in 0..(32 * bb - 8 * b) /\ d1 * r4 \in 0..(24 * bb)
        /\ d2 * r3 \in 0..(32 * bb - 8 * b) /\ d3 * r2 \in 0..(32 * bb - 8 * b)
        /\ d4 * r1 \in 0..(24 * bb - 6 * b)
    BY <1>2, <1>3, <1>5, <1>6, <1>7
  <2>2. /\ d1 * (5 * r4) = 5 * (d1 * r4)
        /\ d2 * (5 * r3) = 5 * (d2 * r3)
        /\ d3 * (5 * r2) = 5 * (d3 * r2)
        /\ d4 * (5 * r1) = 5 * (d4 * r1)
    BY <1>2, <1>3, <1>4
  <2> QED BY <1>4, <2>1, <2>2
<1>9. d0 * r1 + d1 * r0 + d2 * (5 * r4) + d3 * (5 * r3) + d4 * (5 * r2)
         \in 0..(448 * bb)
  <2>1. /\ d0 * r1 \in 0..(32 * bb - 8 * b) /\ d1 * r0 \in 0..(96 * bb - 24 * b)
        /\ d2 * r4 \in 0..(8 * bb) /\ d3 * r3 \in 0..(32 * bb - 8 * b)
        /\ d4 * r2 \in 0..(24 * bb - 6 * b)
    BY <1>2, <1>3, <1>5, <1>6, <1>7
  <2>2. /\ d2 * (5 * r4) = 5 * (d2 * r4)
        /\ d3 * (5 * r3) = 5 * (d3 * r3)
        /\ d4 * (5 * r2) = 5 * (d4 * r2)
    BY <1>2, <1>3, <1>4
  <2> QED BY <1>4, <2>1, <2>2
<1>10. d0 * r2 + d1 * r1 + d2 * r0 + d3 * (5 * r4) + d4 * (5 * r3)
         \in 0..(320 * bb)
  <2>1. /\ d0 * r2 \in 0..(32 * bb - 8 * b) /\ d1 * r1 \in 0..(96 * bb - 24 * b)
        /\ d2 * r0 \in 0..(32 * bb - 8 * b) /\ d3 * r4 \in 0..(8 * bb)
        /\ d4 * r3 \in 0..(24 * bb - 6 * b)
    BY <1>2, <1>3, <1>5, <1>6, <1>7
  <2>2. /\ d3 * (5 * r4) = 5 * (d3 * r4)
        /\ d4 * (5 * r3) = 5 * (d4 * r3)
    BY <1>2, <1>3, <1>4
  <2> QED BY <1>4, <2>1, <2>2
<1>11. d0 * r3 + d1 * r2 + d2 * r1 + d3 * r0 + d4 * (5 * r4)
         \in 0..(222 * bb)
  <2>1. /\ d0 * r3 \in 0..(32 * bb - 8 * b) /\ d1 * r2 \in 0..(96 * bb - 24 * b)
        /\ d2 * r1 \in 0..(32 * bb - 8 * b) /\ d3 * r0 \in 0..(32 * bb - 8 * b)
        /\ d4 * r4 \in 0..(6 * bb)
    BY <1>2, <1>3, <1>5, <1>6, <1>7
  <2>2. /\ d4 * (5 * r4) = 5 * (d4 * r4)
    BY <1>2, <1>3, <1>4
  <2> QED BY <1>4, <2>1, <2>2
<1>12. d0 * r4 + d1 * r3 + d2 * r2 + d3 * r1 + d4 * r0
         \in 0..(192 * bb - 46 * b)
  <2>1. /\ d0 * r4 \in 0..(8 * bb) /\ d1 * r3 \in 0..(96 * bb - 24 * b)
        /\ d2 * r2 \in 0..(32 * bb - 8 * b) /\ d3 * r1 \in 0..(32 * bb - 8 * b)
        /\ d4 * r0 \in 0..(24 * bb - 6 * b)
    BY <1>2, <1>3, <1>5, <1>6, <1>7
  <2> QED BY <1>4, <2>1
<1> QED
  BY <1>8, <1>9, <1>10, <1>11, <1>12 DEF bb, b, d0, d1, d2, d3, d4, r0, r1, r2, r3, r4

(* Within the widths of the code a product is the product of the polynomials, *)
(* modulo P.                                                               *)
LEMMA ProductIs ==
  ASSUME NEW d, SumFits(d), KeyFits
  PROVE  /\ ProductFits(Product(d))
         /\ \E k \in Int : Value(d) * Value(r) = Value(Product(d)) + P * k
<1> DEFINE B == Limb
           b == Quarter
           d0 == d[0]  d1 == d[1]  d2 == d[2]  d3 == d[3]  d4 == d[4]
           r0 == r[0]  r1 == r[1]  r2 == r[2]  r3 == r[3]  r4 == r[4]
           c0 == d0 * r0 + d1 * (5 * r4) + d2 * (5 * r3) + d3 * (5 * r2) + d4 * (5 * r1)
           c1 == d0 * r1 + d1 * r0 + d2 * (5 * r4) + d3 * (5 * r3) + d4 * (5 * r2)
           c2 == d0 * r2 + d1 * r1 + d2 * r0 + d3 * (5 * r4) + d4 * (5 * r3)
           c3 == d0 * r3 + d1 * r2 + d2 * r1 + d3 * r0 + d4 * (5 * r4)
           c4 == d0 * r4 + d1 * r3 + d2 * r2 + d3 * r1 + d4 * r0
           c == Product(d)
<1>1. /\ b \in Nat /\ b >= 4 /\ B \in Nat /\ UINT32 = 256 * b /\ UINT64 = 65536 * (b * b)
      /\ P = B * B * B * B * B - 5
  BY PolyWidths
<1>2. /\ d0 \in 0..(8 * b) /\ d1 \in 0..(24 * b) /\ d2 \in 0..(8 * b)
      /\ d3 \in 0..(8 * b) /\ d4 \in 0..(6 * b)
  BY DEF SumFits
<1>3. /\ r0 \in 0..(4 * b - 1) /\ r1 \in 0..(4 * b - 1) /\ r2 \in 0..(4 * b - 1)
      /\ r3 \in 0..(4 * b - 1) /\ r4 \in 0..b
  BY DEF KeyFits
<1>4. /\ (5 * r1) % UINT32 = 5 * r1 /\ (5 * r2) % UINT32 = 5 * r2
      /\ (5 * r3) % UINT32 = 5 * r3 /\ (5 * r4) % UINT32 = 5 * r4
  <2> HIDE DEF b, r1, r2, r3, r4
  <2> QED BY <1>1, <1>3
<1>5. /\ c[0] = c0 % UINT64 /\ c[1] = c1 % UINT64 /\ c[2] = c2 % UINT64
      /\ c[3] = c3 % UINT64 /\ c[4] = c4 % UINT64
  BY <1>4 DEF Product
<1>6. /\ c0 \in 0..(592 * (b * b)) /\ c1 \in 0..(448 * (b * b)) /\ c2 \in 0..(320 * (b * b))
      /\ c3 \in 0..(222 * (b * b)) /\ c4 \in 0..(192 * (b * b) - 46 * b)
  BY ProductBounds
<1> HIDE DEF c, d0, d1, d2, d3, d4, r0, r1, r2, r3, r4, B, b
<1>7. Value(d) * Value(r)
        = (c0 + B * (c1 + B * (c2 + B * (c3 + B * c4))))
            + P * ((d1 * r4 + d2 * r3 + d3 * r2 + d4 * r1)
                     + B * ((d2 * r4 + d3 * r3 + d4 * r2)
                              + B * ((d3 * r4 + d4 * r3) + B * (d4 * r4))))
  <2>1. /\ Value(d) = d0 + B * (d1 + B * (d2 + B * (d3 + B * d4)))
        /\ Value(r) = r0 + B * (r1 + B * (r2 + B * (r3 + B * r4)))
    BY DEF Value, B, d0, d1, d2, d3, d4, r0, r1, r2, r3, r4
  <2>2. /\ d0 \in Int /\ d1 \in Int /\ d2 \in Int /\ d3 \in Int /\ d4 \in Int
        /\ r0 \in Int /\ r1 \in Int /\ r2 \in Int /\ r3 \in Int /\ r4 \in Int
    BY <1>1, <1>2, <1>3
  <2> QED BY <1>1, <2>1, <2>2
<1>8. (d1 * r4 + d2 * r3 + d3 * r2 + d4 * r1)
         + B * ((d2 * r4 + d3 * r3 + d4 * r2) + B * ((d3 * r4 + d4 * r3) + B * (d4 * r4))) \in Int
  BY <1>1, <1>2, <1>3
<1> HIDE DEF c0, c1, c2, c3, c4
<1>9. c[0] = c0 /\ c[1] = c1 /\ c[2] = c2 /\ c[3] = c3 /\ c[4] = c4
  <2>1. b * b \in Nat /\ b * b >= 16
    BY <1>1
  <2> DEFINE bb == b * b
  <2> HIDE DEF bb
  <2>2. ASSUME NEW x \in Int, 0 <= x, x <= 592 * bb PROVE x % (65536 * bb) = x
    BY <2>1, <2>2 DEF bb
  <2> QED BY <1>1, <1>5, <1>6, <2>1, <2>2 DEF bb
<1>10. ProductFits(c)
  BY <1>6, <1>9 DEF ProductFits, b
<1>11. Value(c) = c0 + B * (c1 + B * (c2 + B * (c3 + B * c4)))
  BY <1>9 DEF Value, B
<1> QED
  BY <1>7, <1>8, <1>10, <1>11 DEF c

-----------------------------------------------------------------------------
(* The sums with the carries of the limbs below.                           *)
Carries(c) ==
  CHOOSE a : a = [k \in 0..4 |-> IF k = 0 THEN c[0] ELSE (c[k] + a[k - 1] \div Limb) % UINT64]

(* There is one such function. *)
LEMMA CarriesAre ==
  ASSUME NEW c
  PROVE  LET a == Carries(c) IN
           /\ a[0] = c[0]
           /\ a[1] = (c[1] + a[0] \div Limb) % UINT64
           /\ a[2] = (c[2] + a[1] \div Limb) % UINT64
           /\ a[3] = (c[3] + a[2] \div Limb) % UINT64
           /\ a[4] = (c[4] + a[3] \div Limb) % UINT64
<1> DEFINE Is(a) == a = [k \in 0..4 |-> IF k = 0 THEN c[0] ELSE (c[k] + a[k - 1] \div Limb) % UINT64]
           w1 == (c[1] + c[0] \div Limb) % UINT64
           w2 == (c[2] + w1 \div Limb) % UINT64
           w3 == (c[3] + w2 \div Limb) % UINT64
           w4 == (c[4] + w3 \div Limb) % UINT64
           w == [k \in 0..4 |-> CASE k = 0 -> c[0] [] k = 1 -> w1 [] k = 2 -> w2
                                  [] k = 3 -> w3 [] k = 4 -> w4]
<1>1. Is(w)
  <2>1. w[0] = c[0] /\ w[1] = w1 /\ w[2] = w2 /\ w[3] = w3 /\ w[4] = w4
    <3> HIDE DEF w1, w2, w3, w4
    <3> QED OBVIOUS
  <2>2. ASSUME NEW k \in 0..4
        PROVE  w[k] = IF k = 0 THEN c[0] ELSE (c[k] + w[k - 1] \div Limb) % UINT64
    <3> HIDE DEF w
    <3>1. CASE k = 0
      BY <2>1, <3>1
    <3>2. CASE k = 1
      BY <2>1, <3>2
    <3>3. CASE k = 2
      BY <2>1, <3>3
    <3>4. CASE k = 3
      BY <2>1, <3>4
    <3>5. CASE k = 4
      BY <2>1, <3>5
    <3> QED BY <3>1, <3>2, <3>3, <3>4, <3>5
  <2>3. w = [k \in 0..4 |-> w[k]]
    OBVIOUS
  <2> HIDE DEF w
  <2> QED
    BY <2>2, <2>3
<1>2. Is(Carries(c))
  <2>1. Carries(c) = CHOOSE a : Is(a)
    BY DEF Carries
  <2> HIDE DEF Is
  <2> QED
    BY <1>1, <2>1
<1>3. ASSUME NEW a, Is(a)
      PROVE  /\ a[0] = c[0]
             /\ a[1] = (c[1] + a[0] \div Limb) % UINT64
             /\ a[2] = (c[2] + a[1] \div Limb) % UINT64
             /\ a[3] = (c[3] + a[2] \div Limb) % UINT64
             /\ a[4] = (c[4] + a[3] \div Limb) % UINT64
  BY <1>3
<1> HIDE DEF Is
<1> QED
  BY <1>2, <1>3

(* What Reduced makes of it. *)
LEMMA ReducedFromCarries ==
  ASSUME NEW c
  PROVE  LET a == Carries(c)
             first == ((a[0] % Limb) + 5 * (a[4] \div Limb)) % UINT32
             x == Reduced(c)
         IN /\ x[0] = first % Limb
            /\ x[1] = (a[1] % Limb) + (first \div Limb)
            /\ x[2] = a[2] % Limb
            /\ x[3] = a[3] % Limb
            /\ x[4] = a[4] % Limb
            /\ x = [k \in 0..4 |-> x[k]]
BY SMTT(20) DEF Reduced, Carries

(* Between two blocks only the second limb may be too large.               *)
LimbsBetween(x) ==
  /\ x \in [0..4 -> Nat]
  /\ \A k \in {0, 2, 3, 4} : x[k] < Limb
  /\ x[1] <= Limb + 62

(* A carry is small against its sum. *)
LEMMA CarryBound ==
  ASSUME NEW b \in Nat, b >= 4, NEW k \in Nat, NEW x \in Nat, x < 4 * b * (k * b + 1)
  PROVE  x \div (4 * b) \in 0..(k * b)
<1>1. 4 * b \in Nat \ {0} /\ k * b + 1 \in Int
  OBVIOUS
<1>2. x \div (4 * b) \in Nat
  BY <1>1, DivNat
<1>3. x \div (4 * b) < k * b + 1
  BY <1>1, DivLess
<1> QED
  BY <1>2, <1>3

(* The carries move no value, but for multiples of P.                      *)
LEMMA ReducedIs ==
  ASSUME NEW c, ProductFits(c)
  PROVE  /\ LimbsBetween(Reduced(c))
         /\ \E k \in Int : Value(c) = Value(Reduced(c)) + P * k
<1> DEFINE B == Limb
           b == Quarter
           bb == b * b
           U == UINT64
           c0 == c[0]  c1 == c[1]  c2 == c[2]  c3 == c[3]  c4 == c[4]
           a == Carries(c)
           a0 == a[0]  a1 == a[1]  a2 == a[2]  a3 == a[3]  a4 == a[4]
           q0 == a0 \div B  q1 == a1 \div B  q2 == a2 \div B  q3 == a3 \div B  q4 == a4 \div B
           m0 == a0 % B     m1 == a1 % B     m2 == a2 % B     m3 == a3 % B     m4 == a4 % B
           first == m0 + 5 * q4
           x == Reduced(c)
<1>0. B \in Nat \ {0}
  BY PolyWidths
<1>1. /\ b \in Nat /\ b >= 4 /\ B \in Nat \ {0} /\ B = 4 * b /\ UINT32 = 256 * b /\ U = 65536 * bb
      /\ P = B * B * B * B * B - 5
  BY PolyWidths
<1>2. bb \in Nat /\ 4 * b <= bb
  BY <1>1, TimesGrows
<1>3. /\ c0 \in 0..(592 * bb) /\ c1 \in 0..(448 * bb) /\ c2 \in 0..(320 * bb)
      /\ c3 \in 0..(222 * bb) /\ c4 \in 0..(192 * bb - 46 * b)
  BY DEF ProductFits
<1>4. /\ a0 = c0 /\ a1 = (c1 + q0) % U /\ a2 = (c2 + q1) % U
      /\ a3 = (c3 + q2) % U /\ a4 = (c4 + q3) % U
  BY CarriesAre
<1>5. /\ x[0] = (first % UINT32) % B /\ x[1] = m1 + ((first % UINT32) \div B)
      /\ x[2] = m2 /\ x[3] = m3 /\ x[4] = m4 /\ x = [k \in 0..4 |-> x[k]]
  BY ReducedFromCarries
<1> HIDE DEF x, a0, a1, a2, a3, a4, c0, c1, c2, c3, c4, B, b, U
<1>6. a0 \in Nat /\ q0 \in 0..(148 * b) /\ m0 \in 0..(B - 1) /\ m0 + B * q0 = a0
  <2>1. a0 \in Nat /\ a0 < 4 * b * (148 * b + 1)
    <3>1. 4 * b * (148 * b + 1) = 592 * bb + 4 * b
      BY <1>1
    <3> HIDE DEF bb
    <3> QED BY <1>1, <1>2, <1>3, <1>4, <3>1
  <2>2. a0 \div (4 * b) \in 0..(148 * b)
    <3> HIDE DEF bb
    <3> QED BY <1>1, <2>1, CarryBound
  <2>3. q0 \in Nat /\ m0 \in 0..(B - 1) /\ m0 + B * q0 = a0
    <3>1. a0 \in Nat
      BY <2>1
    <3> QED BY <1>0, <3>1, DivNat
  <2> QED BY <1>1, <2>1, <2>2, <2>3
<1>7. /\ a1 = c1 + q0
       /\ a1 \in Nat /\ q1 \in 0..(122 * b) /\ m1 \in 0..(B - 1) /\ m1 + B * q1 = a1
  <2>0. c1 + q0 \in 0..(448 * bb + 148 * b)
    <3> HIDE DEF bb, q0
    <3> QED BY <1>1, <1>2, <1>3, <1>6
  <2>1. a1 = c1 + q0 /\ a1 \in Nat /\ a1 < 4 * b * (122 * b + 1)
    <3>1. 4 * b * (122 * b + 1) = 488 * bb + 4 * b
      BY <1>1
    <3> HIDE DEF bb, q0
    <3>2. c1 + q0 < U /\ c1 + q0 \in Nat /\ U \in Nat
      BY <1>1, <1>2, <2>0
    <3>3. a1 = c1 + q0
      BY <1>4, <3>2
    <3> QED BY <1>1, <1>2, <2>0, <3>1, <3>3
  <2>2. a1 \div (4 * b) \in 0..(122 * b)
    <3> HIDE DEF bb
    <3> QED BY <1>1, <2>1, CarryBound
  <2>3. q1 \in Nat /\ m1 \in 0..(B - 1) /\ m1 + B * q1 = a1
    <3>1. a1 \in Nat
      BY <2>1
    <3> QED BY <1>0, <3>1, DivNat
  <2> QED BY <1>1, <2>1, <2>2, <2>3
<1>8. /\ a2 = c2 + q1
       /\ a2 \in Nat /\ q2 \in 0..(88 * b) /\ m2 \in 0..(B - 1) /\ m2 + B * q2 = a2
  <2>0. c2 + q1 \in 0..(320 * bb + 122 * b)
    <3> HIDE DEF bb, q1
    <3> QED BY <1>1, <1>2, <1>3, <1>7
  <2>1. a2 = c2 + q1 /\ a2 \in Nat /\ a2 < 4 * b * (88 * b + 1)
    <3>1. 4 * b * (88 * b + 1) = 352 * bb + 4 * b
      BY <1>1
    <3> HIDE DEF bb, q1
    <3>2. c2 + q1 < U /\ c2 + q1 \in Nat /\ U \in Nat
      BY <1>1, <1>2, <2>0
    <3>3. a2 = c2 + q1
      BY <1>4, <3>2
    <3> QED BY <1>1, <1>2, <2>0, <3>1, <3>3
  <2>2. a2 \div (4 * b) \in 0..(88 * b)
    <3> HIDE DEF bb
    <3> QED BY <1>1, <2>1, CarryBound
  <2>3. q2 \in Nat /\ m2 \in 0..(B - 1) /\ m2 + B * q2 = a2
    <3>1. a2 \in Nat
      BY <2>1
    <3> QED BY <1>0, <3>1, DivNat
  <2> QED BY <1>1, <2>1, <2>2, <2>3
<1>9. /\ a3 = c3 + q2
       /\ a3 \in Nat /\ q3 \in 0..(61 * b) /\ m3 \in 0..(B - 1) /\ m3 + B * q3 = a3
  <2>0. c3 + q2 \in 0..(222 * bb + 88 * b)
    <3> HIDE DEF bb, q2
    <3> QED BY <1>1, <1>2, <1>3, <1>8
  <2>1. a3 = c3 + q2 /\ a3 \in Nat /\ a3 < 4 * b * (61 * b + 1)
    <3>1. 4 * b * (61 * b + 1) = 244 * bb + 4 * b
      BY <1>1
    <3> HIDE DEF bb, q2
    <3>2. c3 + q2 < U /\ c3 + q2 \in Nat /\ U \in Nat
      BY <1>1, <1>2, <2>0
    <3>3. a3 = c3 + q2
      BY <1>4, <3>2
    <3> QED BY <1>1, <1>2, <2>0, <3>1, <3>3
  <2>2. a3 \div (4 * b) \in 0..(61 * b)
    <3> HIDE DEF bb
    <3> QED BY <1>1, <2>1, CarryBound
  <2>3. q3 \in Nat /\ m3 \in 0..(B - 1) /\ m3 + B * q3 = a3
    <3>1. a3 \in Nat
      BY <2>1
    <3> QED BY <1>0, <3>1, DivNat
  <2> QED BY <1>1, <2>1, <2>2, <2>3
<1>10. /\ a4 = c4 + q3
       /\ a4 \in Nat /\ q4 \in 0..(49 * b) /\ m4 \in 0..(B - 1) /\ m4 + B * q4 = a4
  <2>0. c4 + q3 \in 0..(192 * bb + 61 * b - 46 * b)
    <3> HIDE DEF bb, q3
    <3> QED BY <1>1, <1>2, <1>3, <1>9
  <2>1. a4 = c4 + q3 /\ a4 \in Nat /\ a4 < 4 * b * (49 * b + 1)
    <3>1. 4 * b * (49 * b + 1) = 196 * bb + 4 * b
      BY <1>1
    <3> HIDE DEF bb, q3
    <3>2. c4 + q3 < U /\ c4 + q3 \in Nat /\ U \in Nat
      BY <1>1, <1>2, <2>0
    <3>3. a4 = c4 + q3
      BY <1>4, <3>2
    <3> QED BY <1>1, <1>2, <2>0, <3>1, <3>3
  <2>2. a4 \div (4 * b) \in 0..(49 * b)
    <3> HIDE DEF bb
    <3> QED BY <1>1, <2>1, CarryBound
  <2>3. q4 \in Nat /\ m4 \in 0..(B - 1) /\ m4 + B * q4 = a4
    <3>1. a4 \in Nat
      BY <2>1
    <3> QED BY <1>0, <3>1, DivNat
  <2> QED BY <1>1, <2>1, <2>2, <2>3
<1> HIDE DEF bb, q0, q1, q2, q3, q4, m0, m1, m2, m3, m4
<1>11. first % UINT32 = first /\ first \in Nat
       /\ first \div B \in 0..62 /\ first % B \in 0..(B - 1)
       /\ (first % B) + B * (first \div B) = first
  <2>1. first \in Nat /\ first < UINT32 /\ first < B * 63 /\ UINT32 \in Nat
    BY <1>1, <1>6, <1>10
  <2> HIDE DEF first
  <2>2. first \div B \in Nat /\ first % B \in 0..(B - 1)
        /\ (first % B) + B * (first \div B) = first
    <3>1. first \in Nat
      BY <2>1
    <3> QED BY <1>0, <3>1, DivNat
  <2>3. first \div B < 63
    BY <1>0, <2>1, DivLess
  <2>4. first % UINT32 = first
    BY <2>1
  <2> QED BY <2>1, <2>2, <2>3, <2>4
<1> DEFINE f == first \div B
           m == first % B
<1>12. x[0] = m /\ x[1] = m1 + f /\ x[2] = m2 /\ x[3] = m3 /\ x[4] = m4 /\ x = [k \in 0..4 |-> x[k]]
  <2> HIDE DEF first
  <2> QED BY <1>5, <1>11
<1>13. m \in 0..(B - 1) /\ f \in 0..62 /\ m + B * f = m0 + 5 * q4
  BY <1>11
<1> HIDE DEF m, f, first
<1>14. LimbsBetween(x)
  <2>1. \A k \in 0..4 : k = 0 \/ k = 1 \/ k = 2 \/ k = 3 \/ k = 4
    OBVIOUS
  <2>2. x[0] \in Nat /\ x[1] \in Nat /\ x[2] \in Nat /\ x[3] \in Nat /\ x[4] \in Nat
        /\ x[0] < B /\ x[1] <= B + 62 /\ x[2] < B /\ x[3] < B /\ x[4] < B
    BY <1>1, <1>7, <1>8, <1>9, <1>10, <1>12, <1>13
  <2>3. x \in [0..4 -> Nat]
    BY <1>12, <2>1, <2>2
  <2> QED BY <2>2, <2>3 DEF LimbsBetween, B
<1>15. Value(c) = Value(x) + P * q4
  <2>1. Value(c) = c0 + B * (c1 + B * (c2 + B * (c3 + B * c4)))
    BY DEF Value, c0, c1, c2, c3, c4, B
  <2>2. Value(x) = m + B * ((m1 + f) + B * (m2 + B * (m3 + B * m4)))
    BY <1>12 DEF Value, B
  <2>3. /\ c4 = m4 + B * q4 - q3 /\ c3 = m3 + B * q3 - q2 /\ c2 = m2 + B * q2 - q1
        /\ c1 = m1 + B * q1 - q0 /\ c0 = m0 + B * q0 /\ m0 = m + B * f - 5 * q4
    BY <1>1, <1>3, <1>4, <1>6, <1>7, <1>8, <1>9, <1>10, <1>13
  <2>4. /\ m \in Int /\ m1 \in Int /\ m2 \in Int /\ m3 \in Int /\ m4 \in Int /\ f \in Int
        /\ q0 \in Int /\ q1 \in Int /\ q2 \in Int /\ q3 \in Int /\ q4 \in Int /\ B \in Int
    BY <1>1, <1>6, <1>7, <1>8, <1>9, <1>10, <1>13
  <2>5. (m + B * f - 5 * q4) + B * q0
          + B * ((m1 + B * q1 - q0) + B * ((m2 + B * q2 - q1)
                   + B * ((m3 + B * q3 - q2) + B * (m4 + B * q4 - q3))))
        = (m + B * ((m1 + f) + B * (m2 + B * (m3 + B * m4)))) + (B * B * B * B * B - 5) * q4
    BY <2>4
  <2>6. Value(c) = (m + B * f - 5 * q4) + B * q0
          + B * ((m1 + B * q1 - q0) + B * ((m2 + B * q2 - q1)
                   + B * ((m3 + B * q3 - q2) + B * (m4 + B * q4 - q3))))
    BY <2>1, <2>3
  <2> QED BY <1>1, <2>2, <2>5, <2>6
<1>16. q4 \in Int
  BY <1>1, <1>10
<1> QED
  BY <1>14, <1>15, <1>16 DEF x

-----------------------------------------------------------------------------
(* The reference multiplication limb by limb is the product modulo P.      *)
LEMMA TimesModPIs ==
  ASSUME NEW a \in Int, NEW x, \A k \in 0..4 : x[k] \in Int
  PROVE  TimesModP(a, x) = (a * Value(x)) % P
<1> DEFINE B == Limb
           x0 == x[0]  x1 == x[1]  x2 == x[2]  x3 == x[3]  x4 == x[4]
           p4 == (0 * B + a * x4) % P
           p3 == (p4 * B + a * x3) % P
           p2 == (p3 * B + a * x2) % P
           p1 == (p2 * B + a * x1) % P
           p0 == (p1 * B + a * x0) % P
           Is(t) == t = [i \in 0..5 |-> IF i = 5 THEN 0 ELSE (t[i + 1] * Limb + a * x[i]) % P]
           w == [i \in 0..5 |-> CASE i = 0 -> p0 [] i = 1 -> p1 [] i = 2 -> p2
                                  [] i = 3 -> p3 [] i = 4 -> p4 [] i = 5 -> 0]
           part == CHOOSE t : Is(t)
<1>1. Is(w)
  <2>1. w[0] = p0 /\ w[1] = p1 /\ w[2] = p2 /\ w[3] = p3 /\ w[4] = p4 /\ w[5] = 0
    <3> HIDE DEF p0, p1, p2, p3, p4
    <3> QED OBVIOUS
  <2>2. ASSUME NEW i \in 0..5
        PROVE  w[i] = IF i = 5 THEN 0 ELSE (w[i + 1] * B + a * x[i]) % P
    <3> HIDE DEF w, B
    <3>1. CASE i = 0
      BY <2>1, <3>1
    <3>2. CASE i = 1
      BY <2>1, <3>2
    <3>3. CASE i = 2
      BY <2>1, <3>3
    <3>4. CASE i = 3
      BY <2>1, <3>4
    <3>5. CASE i = 4
      BY <2>1, <3>5
    <3>6. CASE i = 5
      BY <2>1, <3>6
    <3> QED BY <3>1, <3>2, <3>3, <3>4, <3>5, <3>6
  <2>3. w = [i \in 0..5 |-> w[i]]
    OBVIOUS
  <2> HIDE DEF w
  <2> QED BY <2>2, <2>3
<1>2. Is(part)
  <2> HIDE DEF Is
  <2> QED BY <1>1
<1>3. TimesModP(a, x) = part[0]
  BY DEF TimesModP
<1> HIDE DEF part
<1>4. part[0] = p0
  <2>1. ASSUME NEW i \in 0..5
        PROVE  part[i] = IF i = 5 THEN 0 ELSE (part[i + 1] * Limb + a * x[i]) % P
    BY <1>2
  <2>2. part[5] = 0
    BY <2>1
  <2>3. part[4] = p4
    BY <2>1, <2>2
  <2>4. part[3] = p3
    <3> HIDE DEF p4
    <3> QED BY <2>1, <2>3
  <2>5. part[2] = p2
    <3> HIDE DEF p3
    <3> QED BY <2>1, <2>4
  <2>6. part[1] = p1
    <3> HIDE DEF p2
    <3> QED BY <2>1, <2>5
  <2> HIDE DEF p1
  <2> QED BY <2>1, <2>6 DEF p0
<1>5. /\ x0 \in Int /\ x1 \in Int /\ x2 \in Int /\ x3 \in Int /\ x4 \in Int
      /\ B \in Int /\ P \in Nat \ {0}
  BY PolyWidths, PIsPositive
<1> HIDE DEF B, x0, x1, x2, x3, x4, Is, w
<1> DEFINE v3 == x3 + B * x4
           v2 == x2 + B * v3
           v1 == x1 + B * v2
           v0 == x0 + B * v1
<1>6. Value(x) = v0
  BY DEF Value, B, x0, x1, x2, x3, x4
<1>7. p4 = (a * x4) % P
  <2>1. 0 * B + a * x4 = a * x4
    BY <1>5
  <2> QED BY <2>1
<1>8. ASSUME NEW v \in Int, NEW y \in Int
      PROVE  (((a * v) % P) * B + a * y) % P = (a * (y + B * v)) % P
  <2> DEFINE c == a * v
             z == a * y
  <2>1. c \in Int /\ z \in Int /\ a * (y + B * v) = c * B + z
    BY <1>5
  <2> HIDE DEF c, z
  <2>2. ((c % P) * B + z) % P = (c * B + z) % P
    <3>1. P \in Nat \ {0} /\ c \in Int /\ B \in Int /\ z \in Int
      BY <1>5, <2>1
    <3> QED BY <3>1, ModMod, ZenonT(60)
  <2>3. (c * B + z) % P = (a * (y + B * v)) % P
    BY <2>1
  <2> QED BY <2>2, <2>3, Zenon DEF c, z
<1>9. v3 \in Int /\ v2 \in Int /\ v1 \in Int
  BY <1>5
<1>10. p3 = (a * v3) % P
  <2> HIDE DEF p4
  <2> QED BY <1>5, <1>7, <1>8
<1>11. p2 = (a * v2) % P
  <2> HIDE DEF p3, v3
  <2> QED BY <1>5, <1>8, <1>9, <1>10
<1>12. p1 = (a * v1) % P
  <2> HIDE DEF p2, v2
  <2> QED BY <1>5, <1>8, <1>9, <1>11
<1>13. p0 = (a * v0) % P
  <2> HIDE DEF p1, v1
  <2> QED BY <1>5, <1>8, <1>9, <1>12
<1> QED
  BY <1>3, <1>4, <1>6, <1>13

(* The inductive invariant: the key is clamped below its limbs' widths,     *)
(* without which the products would wrap; the limbs of the accumulator may *)
(* be too large only by the last carry, and stand for acc modulo P.        *)
PolyInv ==
  /\ KeyFits
  /\ s \in Nat
  /\ LimbsBetween(h)
  /\ acc \in 0..(P - 1)
  /\ Value(h) % P = acc

(* A key and no blocks. *)
LEMMA PolyInitTrue ==
  ASSUME Init
  PROVE  PolyInv
<1>1. PICK n \in KeysR : r = Clamped(n)
  BY DEF Init
<1>2. n \in Nat /\ n < TagSize /\ 0 < TagSize /\ s \in Nat
  <2>1. KeysR \subseteq 0..(TagSize - 1) /\ KeysS \subseteq 0..(TagSize - 1) /\ s \in KeysS
    BY PolyAssumption DEF Init
  <2>2. TagSize \in Nat \ {0}
    <3>1. 5 * LIMB_BITS - 2 \in Nat
      BY PolyAssumption
    <3> QED BY <3>1, PowIs DEF TagSize
  <2> QED BY <2>1, <2>2
<1>3. KeyFits
  <2> DEFINE x == Split(n)
  <2>1. x \in [0..4 -> 0..(Limb - 1)] /\ x[4] < Quarter
    BY <1>2, SplitIs
  <2>2. /\ Quarter \in Nat /\ Limb = 4 * Quarter
        /\ ClampMasks \in [0..4 -> 0..(Limb - 1)]
    BY PolyWidths, PolyAssumption
  <2> HIDE DEF x
  <2>3. ASSUME NEW k \in 0..4 PROVE r[k] \in Nat /\ r[k] <= x[k] /\ x[k] \in 0..(Limb - 1)
    <3>1. r[k] = And(x[k], ClampMasks[k])
      BY <1>1 DEF Clamped, x
    <3>2. x[k] \in 0..(Limb - 1) /\ ClampMasks[k] \in 0..(Limb - 1)
      BY <2>1, <2>2
    <3>3. x[k] \in Nat /\ ClampMasks[k] \in Nat
      BY <3>2
    <3> QED BY <3>1, <3>2, <3>3, AndBounds
  <2>4. ASSUME NEW k \in 0..4 PROVE r[k] \in 0..(IF k = 4 THEN Quarter ELSE 4 * Quarter - 1)
    <3>1. CASE k = 4
      BY <2>1, <2>2, <2>3, <3>1
    <3>2. CASE k # 4
      BY <2>2, <2>3, <3>2
    <3> QED BY <3>1, <3>2
  <2> QED BY <2>4 DEF KeyFits
<1>4. LimbsBetween(h) /\ Value(h) = 0
  <2>1. h = Split(0) /\ 0 \in Nat
    BY DEF Init
  <2>2. h \in [0..4 -> 0..(Limb - 1)] /\ Value(h) = 0
    BY <1>2, <2>1, SplitIs
  <2>3. Limb \in Nat
    BY PolyWidths
  <2> QED BY <2>2, <2>3 DEF LimbsBetween
<1>5. acc = 0 /\ acc \in 0..(P - 1) /\ 0 % P = 0
  BY PIsPositive DEF Init
<1> QED
  BY <1>2, <1>3, <1>4, <1>5 DEF PolyInv

(* One more block. *)
LEMMA AbsorbKeeps ==
  ASSUME PolyInv, NEW n \in 1..BLOCK, NEW block \in [1..n -> Values], Absorb(block)
  PROVE  PolyInv'
<1> DEFINE b == Quarter
           bl == BlockLimbs(block)
           d == [i \in 0..4 |-> h[i] + bl[i]]
           m == Number(block) + PowerAt(Len(block))
           R == Value(r)
<1>1. block \in Seq(ByteRange) /\ Len(block) = n
  <2>1. Values \subseteq ByteRange /\ n \in Nat
    BY PolyAssumption DEF ByteRange
  <2> QED BY <2>1
<1>2. /\ b \in Nat /\ b >= 4 /\ Limb = 4 * b
  BY PolyWidths
<1>3. /\ \A k \in 0..4 : bl[k] \in 0..(Limb - 1)
      /\ bl[4] < 2 * b
      /\ Value(bl) = m
  <2>1. Len(block) \in 1..BLOCK
    BY <1>1
  <2> QED BY <1>1, <2>1, BlockLimbsAre
<1>4. m \in Nat
  <2>1. Number(block) \in Nat
    BY <1>1, NumberIs
  <2>2. Len(block) \in Nat
    BY <1>1
  <2>3. PowerAt(Len(block)) \in Nat
    <3> DEFINE l == Len(block)
    <3> HIDE DEF l
    <3> QED BY <2>2, PowerAtNext DEF l
  <2> QED BY <2>1, <2>3
<1>5. h' = Reduced(Product(d)) /\ acc' = TimesModP((acc + m) % P, r) /\ r' = r /\ s' = s
  <2>1. acc + Number(block) + pow2[BLOCK_BYTE * Len(block)] = acc + m
    <3>1. acc \in Nat /\ Number(block) \in Nat /\ PowerAt(Len(block)) \in Nat
      BY PIsPositive, <1>1, NumberIs, PowerAtNext DEF PolyInv
    <3> QED BY <3>1 DEF PowerAt
  <2> QED BY <2>1 DEF Absorb
<1> HIDE DEF bl, m
<1>6. \A k \in 0..4 : k = 0 \/ k = 1 \/ k = 2 \/ k = 3 \/ k = 4
  OBVIOUS
<1>7. \A k \in 0..4 : d[k] = h[k] + bl[k] /\ h[k] \in Nat /\ bl[k] \in Nat
  <2>1. ASSUME NEW k \in 0..4 PROVE h[k] \in Nat
    BY DEF PolyInv, LimbsBetween
  <2>2. ASSUME NEW k \in 0..4 PROVE bl[k] \in Nat
    <3>1. Limb \in Nat /\ bl[k] \in 0..(Limb - 1)
      BY <1>2, <1>3
    <3> QED BY <3>1
  <2>3. ASSUME NEW k \in 0..4 PROVE d[k] = h[k] + bl[k]
    OBVIOUS
  <2> HIDE DEF d
  <2> QED BY <2>1, <2>2, <2>3
<1>8. SumFits(d)
  <2>1. /\ h[0] < 4 * b /\ h[1] <= 4 * b + 62 /\ h[2] < 4 * b /\ h[3] < 4 * b /\ h[4] < 4 * b
    BY <1>2 DEF PolyInv, LimbsBetween
  <2>2. /\ bl[0] < 4 * b /\ bl[1] < 4 * b /\ bl[2] < 4 * b /\ bl[3] < 4 * b /\ bl[4] < 2 * b
    BY SMTT(20), <1>2, <1>3
  <2> HIDE DEF d, b
  <2>4. /\ d[0] = h[0] + bl[0] /\ d[1] = h[1] + bl[1] /\ d[2] = h[2] + bl[2]
        /\ d[3] = h[3] + bl[3] /\ d[4] = h[4] + bl[4]
    BY <1>7
  <2>5. /\ h[0] \in Nat /\ h[1] \in Nat /\ h[2] \in Nat /\ h[3] \in Nat /\ h[4] \in Nat
        /\ bl[0] \in Nat /\ bl[1] \in Nat /\ bl[2] \in Nat /\ bl[3] \in Nat /\ bl[4] \in Nat
    BY <1>7
  <2>3. /\ d[0] \in 0..(8 * b) /\ d[1] \in 0..(24 * b) /\ d[2] \in 0..(8 * b)
        /\ d[3] \in 0..(8 * b) /\ d[4] \in 0..(6 * b)
    <3>1. ASSUME NEW x \in Nat, NEW y \in Nat, x < 4 * b, y < 4 * b
          PROVE  x + y \in 0..(8 * b)
      BY <1>2, <3>1
    <3>2. ASSUME NEW x \in Nat, NEW y \in Nat, x <= 4 * b + 62, y < 4 * b
          PROVE  x + y \in 0..(24 * b)
      BY <1>2, <3>2
    <3>3. ASSUME NEW x \in Nat, NEW y \in Nat, x < 4 * b, y < 2 * b
          PROVE  x + y \in 0..(6 * b)
      BY <1>2, <3>3
    <3> QED BY <2>1, <2>2, <2>4, <2>5, <3>1, <3>2, <3>3
  <2> QED BY <1>6, <2>3 DEF SumFits, b
<1>9. Value(d) = Value(h) + m
  <2> HIDE DEF d
  <2>1. Sums(d, h, bl)
    <3>1. ASSUME NEW k \in 0..4 PROVE h[k] \in Int /\ bl[k] \in Int /\ d[k] = h[k] + bl[k]
      <4>1. h[k] \in Nat /\ bl[k] \in Nat
        BY <1>7
      <4>2. d[k] = h[k] + bl[k]
        BY <1>7
      <4> QED BY <4>1, <4>2
    <3> QED BY <3>1 DEF Sums
  <2> QED BY <1>3, <2>1, ValueAdds
<1> HIDE DEF d
<1>10. PICK k1 \in Int : Value(d) * R = Value(Product(d)) + P * k1
  BY <1>8, ProductIs DEF PolyInv
<1>11. LimbsBetween(h') /\ \E k \in Int : Value(Product(d)) = Value(h') + P * k
  BY <1>5, <1>8, ProductIs, ReducedIs DEF PolyInv
<1>12. PICK k2 \in Int : Value(Product(d)) = Value(h') + P * k2
  BY <1>11
<1>13. \A k \in 0..4 : r[k] \in Int
  BY SMTT(20), <1>2 DEF PolyInv, KeyFits
<1>14. P \in Nat \ {0} /\ R \in Int /\ Value(h) \in Int /\ Value(h') \in Int
  <2>1. \A k \in 0..4 : h[k] \in Int
    BY DEF PolyInv, LimbsBetween
  <2>2. \A k \in 0..4 : h'[k] \in Int
    <3>1. h' \in [0..4 -> Nat]
      BY <1>11 DEF LimbsBetween
    <3> DEFINE x == h'
    <3> HIDE DEF x
    <3>2. x \in [0..4 -> Nat]
      BY <3>1 DEF x
    <3>3. \A k \in 0..4 : x[k] \in Int
      BY <3>2
    <3> QED BY <3>3 DEF x
  <2> QED BY <1>13, <2>1, <2>2, ValueIsInt, PIsPositive
<1> DEFINE k0 == Value(h) \div P
<1>15. k0 \in Int /\ acc \in Int /\ Value(h) = P * k0 + acc
  <2> DEFINE x == Value(h)
  <2>1. x \in Int /\ P \in Nat \ {0} /\ x % P = acc
    BY <1>14 DEF PolyInv
  <2> HIDE DEF x
  <2>2. x \div P \in Int /\ x % P \in 0..(P - 1) /\ x = P * (x \div P) + (x % P)
    <3>1. x \in Int /\ P \in Nat \ {0}
      BY <2>1
    <3> QED BY <3>1, DivMod
  <2> QED BY <2>1, <2>2 DEF x
<1>16. acc' = ((acc + m) * R) % P /\ acc' \in 0..(P - 1)
  <2> DEFINE y == (acc + m) % P
  <2>1. y \in Int
    BY <1>4, <1>14, <1>15, DivMod
  <2>2. acc' = (y * R) % P
    <3>1. TimesModP(y, r) = (y * Value(r)) % P
      <4> HIDE DEF y
      <4> QED BY <1>13, <2>1, TimesModPIs
    <3> QED BY <1>5, <3>1
  <2>3. ((acc + m) * R) \in Int /\ acc + m \in Int /\ y * R + 0 = y * R
    <3> HIDE DEF y, R
    <3>1. R \in Int
      BY <1>14 DEF R
    <3> QED BY <1>4, <1>15, <2>1, <3>1
  <2>4. (y * R + 0) % P = ((acc + m) * R + 0) % P
    <3> DEFINE x == acc + m
    <3>1. P \in Nat \ {0} /\ x \in Int /\ R \in Int /\ 0 \in Int
      BY <1>14, <2>3
    <3> HIDE DEF x, R
    <3>2. ((x % P) * R + 0) % P = (x * R + 0) % P
      BY <3>1, ModMod, ZenonT(60)
    <3> QED BY <3>2 DEF x
  <2> HIDE DEF y, R
  <2>5. acc' = ((acc + m) * R) % P
    BY <1>4, <1>14, <1>15, <2>1, <2>2, <2>3, <2>4
  <2> QED BY <1>14, <2>3, <2>5, DivMod
<1> HIDE DEF R, k0
<1>17. Value(h') % P = acc'
  <2> DEFINE x == (acc + m) * R
             k == k0 * R - k1 - k2
  <2>1. x \in Int /\ k \in Int
    BY <1>4, <1>14, <1>15
  <2>2. Value(h') = x + P * k
    BY <1>4, <1>9, <1>10, <1>12, <1>14, <1>15
  <2> HIDE DEF x, k
  <2>3. (x + P * k) % P = x % P
    <3>1. P \in Nat \ {0} /\ x \in Int /\ k \in Int
      BY <1>14, <2>1
    <3> QED BY <3>1, ModShift, Zenon
  <2> QED BY <1>16, <2>2, <2>3 DEF x
<1>18. KeyFits' /\ s' \in Nat
  BY <1>5 DEF PolyInv, KeyFits
<1> QED
  BY <1>11, <1>16, <1>17, <1>18 DEF PolyInv, Value, LimbsBetween

(* Any step. *)
LEMMA PolyStepKeeps ==
  ASSUME PolyInv, [Next]_vars
  PROVE  PolyInv'
<1>1. CASE Next
  BY <1>1, AbsorbKeeps DEF Next
<1>2. CASE UNCHANGED vars
  BY <1>2 DEF vars, PolyInv, KeyFits, LimbsBetween, Value
<1> QED BY <1>1, <1>2

(* And so any number of blocks. *)
LEMMA PolyInvHolds == Spec => []PolyInv
<1>1. Init => PolyInv
  BY PolyInitTrue
<1>2. PolyInv /\ [Next]_vars => PolyInv'
  BY PolyStepKeeps
<1> QED BY <1>1, <1>2, PTL DEF Spec

(* Between two blocks every limb but the second fits its width, and the     *)
(* second exceeds it only by the carry poly1305.c adds to it at the end of *)
(* a block: the sums of the next one stay within 64 bits, and 5 * r and    *)
(* the carry times five within 32 bits.                                    *)
THEOREM LimbsStayInWidth == Spec => []LimbsFit
<1>1. PolyInv => LimbsFit
  <2>1. Limb \in Nat
    BY PolyWidths
  <2> QED BY <2>1 DEF PolyInv, LimbsFit, LimbsBetween
<1> QED BY <1>1, PolyInvHolds, PTL

(* After each block the limbs stand for the polynomial of RFC 8439 modulo   *)
(* P, whatever key, bytes and partial last block: no carry is lost.        *)
THEOREM NoCarryIsLost == Spec => []AccumulatorRight
<1>1. PolyInv => AccumulatorRight
  BY DEF PolyInv, AccumulatorRight
<1> QED BY <1>1, PolyInvHolds, PTL

-----------------------------------------------------------------------------
(* Limbs that all fit, and what they can stand for.                        *)
LimbsFull(x) == x \in [0..4 -> Nat] /\ \A k \in 0..4 : x[k] < Limb

LEMMA ValueFits ==
  ASSUME NEW x, LimbsFull(x)
  PROVE  Value(x) \in 0..(P + 4)
<1> DEFINE B == Limb
           v3 == x[3] + B * x[4]
           v2 == x[2] + B * v3
           v1 == x[1] + B * v2
           v0 == x[0] + B * v1
<1>1. B \in Nat \ {0} /\ P = B * B * B * B * B - 5
  BY PolyWidths
<1>2. /\ x[0] \in Nat /\ x[1] \in Nat /\ x[2] \in Nat /\ x[3] \in Nat /\ x[4] \in Nat
      /\ x[0] < B /\ x[1] < B /\ x[2] < B /\ x[3] < B /\ x[4] < B
  BY DEF LimbsFull
<1>3. Value(x) = v0
  BY DEF Value
<1> HIDE DEF B
<1>4. ASSUME NEW y \in Nat, y < B, NEW z \in Nat, NEW c \in Nat, z < c
      PROVE  y + B * z \in Nat /\ y + B * z < B * c
  <2>1. B * z <= B * (c - 1)
    BY <1>1, <1>4, TimesGrows
  <2>2. B * (c - 1) = B * c - B /\ B * z \in Nat /\ B * c \in Nat
    BY <1>1, <1>4
  <2> QED BY <1>1, <1>4, <2>1, <2>2
<1>5. v3 \in Nat /\ v3 < B * B
  BY <1>1, <1>2, <1>4
<1>6. v2 \in Nat /\ v2 < B * (B * B)
  <2>1. B * B \in Nat
    BY <1>1
  <2> HIDE DEF v3
  <2> QED BY <1>2, <1>4, <1>5, <2>1
<1>7. v1 \in Nat /\ v1 < B * (B * (B * B))
  <2>1. B * (B * B) \in Nat
    BY <1>1
  <2> HIDE DEF v2
  <2> QED BY <1>2, <1>4, <1>6, <2>1
<1>8. v0 \in Nat /\ v0 < B * (B * (B * (B * B)))
  <2>1. B * (B * (B * B)) \in Nat
    BY <1>1
  <2> HIDE DEF v1
  <2> QED BY <1>2, <1>4, <1>7, <2>1
<1> HIDE DEF v0
<1>9. B * (B * (B * (B * B))) = P + 5
  BY <1>1
<1> QED BY <1>3, <1>8, <1>9, PIsPositive

(* The limbs put together with shifts and ors. *)
LEMMA PackedIs ==
  ASSUME NEW x, LimbsFull(x)
  PROVE  Packed(x) = Value(x) % TagSize
<1> DEFINE B == Limb
           p2 == B * B
           p3 == B * B * B
           p4 == B * B * B * B
           x0 == x[0]  x1 == x[1]  x2 == x[2]  x3 == x[3]  x4 == x[4]
           s1 == x0 + x1 * B
           s2 == s1 + x2 * p2
           s3 == s2 + x3 * p3
           s4 == s3 + x4 * p4
<1>1. B \in Nat \ {0} /\ p2 \in Nat /\ p3 \in Nat /\ p4 \in Nat
  <2>1. B \in Nat \ {0}
    BY PolyWidths
  <2> HIDE DEF B
  <2> QED BY <2>1
<1>2. /\ pow2[LIMB_BITS * 0] = 1 /\ pow2[LIMB_BITS * 1] = B /\ pow2[LIMB_BITS * 2] = p2
      /\ pow2[LIMB_BITS * 3] = p3 /\ pow2[LIMB_BITS * 4] = p4
  BY PolyWidths
<1>3. /\ LIMB_BITS * 1 \in Nat /\ LIMB_BITS * 2 \in Nat /\ LIMB_BITS * 3 \in Nat
      /\ LIMB_BITS * 4 \in Nat
  BY PolyAssumption
<1>4. /\ x0 \in Nat /\ x1 \in Nat /\ x2 \in Nat /\ x3 \in Nat /\ x4 \in Nat
      /\ x0 < B /\ x1 < B /\ x2 < B /\ x3 < B /\ x4 < B
  BY DEF LimbsFull
<1>5. Packed(x) = Or(Or(Or(Or(x0 * 1, x1 * B), x2 * p2), x3 * p3), x4 * p4) % TagSize
  <2> HIDE DEF p2, p3, p4, B
  <2> QED BY <1>2 DEF Packed
<1> HIDE DEF B, x0, x1, x2, x3, x4
<1>6. ASSUME NEW m \in Nat, NEW p \in Nat, m < p, NEW y \in Nat, y < B
      PROVE  m + y * p \in Nat /\ m + y * p < p * B
  <2>1. p * y <= p * (B - 1)
    BY <1>1, <1>6, TimesGrows
  <2>2. p * (B - 1) = p * B - p /\ p * y \in Nat /\ p * B \in Nat /\ y * p = p * y
    BY <1>1, <1>6
  <2> QED BY <1>1, <1>6, <2>1, <2>2
<1>7. ASSUME NEW k \in Nat, NEW p, pow2[k] = p, NEW m \in Nat, m < p, NEW y \in Nat
      PROVE  Or(m, y * p) = m + y * p
  BY <1>7, OrJoins
<1>8. Or(x0 * 1, x1 * B) = s1 /\ s1 \in Nat /\ s1 < p2
  <2>1. x0 * 1 = x0
    BY <1>4
  <2>2. /\ LIMB_BITS * 1 \in Nat /\ pow2[LIMB_BITS * 1] = B /\ B \in Nat
        /\ x0 \in Nat /\ x0 < B /\ x1 \in Nat /\ x1 < B
    BY <1>1, <1>2, <1>3, <1>4
  <2>3. Or(x0, x1 * B) = s1
    BY <1>7, <2>2, Zenon
  <2>4. s1 \in Nat /\ s1 < p2
    BY <1>6, <2>2, Zenon
  <2> QED BY <2>1, <2>3, <2>4
<1>9. Or(s1, x2 * p2) = s2 /\ s2 \in Nat /\ s2 < p3
  <2> HIDE DEF s1, p2
  <2>1. /\ LIMB_BITS * 2 \in Nat /\ pow2[LIMB_BITS * 2] = p2 /\ p2 \in Nat
        /\ s1 \in Nat /\ s1 < p2 /\ x2 \in Nat /\ x2 < B
    BY <1>1, <1>2, <1>3, <1>4, <1>8
  <2>2. Or(s1, x2 * p2) = s2
    BY <1>7, <2>1, Zenon
  <2>3. s2 \in Nat /\ s2 < p2 * B
    BY <1>6, <2>1, Zenon
  <2>4. p3 = p2 * B
    BY DEF p2
  <2> QED BY <2>2, <2>3, <2>4
<1>10. Or(s2, x3 * p3) = s3 /\ s3 \in Nat /\ s3 < p4
  <2> HIDE DEF s2, p3
  <2>1. /\ LIMB_BITS * 3 \in Nat /\ pow2[LIMB_BITS * 3] = p3 /\ p3 \in Nat
        /\ s2 \in Nat /\ s2 < p3 /\ x3 \in Nat /\ x3 < B
    BY <1>1, <1>2, <1>3, <1>4, <1>9
  <2>2. Or(s2, x3 * p3) = s3
    BY <1>7, <2>1, Zenon
  <2>3. s3 \in Nat /\ s3 < p3 * B
    BY <1>6, <2>1, Zenon
  <2>4. p4 = p3 * B
    BY DEF p3
  <2> QED BY <2>2, <2>3, <2>4
<1>11. Or(s3, x4 * p4) = s4
  <2> HIDE DEF s3, p4
  <2>1. /\ LIMB_BITS * 4 \in Nat /\ pow2[LIMB_BITS * 4] = p4 /\ p4 \in Nat
        /\ s3 \in Nat /\ s3 < p4 /\ x4 \in Nat /\ x4 < B
    BY <1>1, <1>2, <1>3, <1>4, <1>10
  <2>2. Or(s3, x4 * p4) = s4
    BY <1>7, <2>1, Zenon
  <2> QED BY <2>2
<1>12. s4 = Value(x)
  <2>1. Value(x) = x0 + B * (x1 + B * (x2 + B * (x3 + B * x4)))
    BY DEF Value, B, x0, x1, x2, x3, x4
  <2> QED BY <1>1, <1>4, <2>1
<1> HIDE DEF s1, s2, s3, s4, p2, p3, p4
<1> QED BY <1>5, <1>8, <1>9, <1>10, <1>11, <1>12

(* The last carries once round, of limbs between two blocks. *)
LEMMA CarriedIs ==
  ASSUME LIMB_BITS >= 6, NEW x, LimbsBetween(x)
  PROVE  /\ LimbsFull(Carried(x))
         /\ \E k \in Int : Value(x) = Value(Carried(x)) + P * k
<1> DEFINE B == Limb
           Is(t) == t = [k \in 1..4 |-> IF k = 1 THEN x[1] ELSE x[k] + t[k - 1] \div Limb]
           x0 == x[0]  x1 == x[1]  x2 == x[2]  x3 == x[3]  x4 == x[4]
           q1 == x1 \div B
           b2 == x2 + q1
           q2 == b2 \div B
           b3 == x3 + q2
           q3 == b3 \div B
           b4 == x4 + q3
           q4 == b4 \div B
           first == x0 + 5 * q4
           f == first \div B
           m0 == first % B
           m1 == x1 % B
           m2 == b2 % B
           m3 == b3 % B
           m4 == b4 % B
           w == [k \in 1..4 |-> CASE k = 1 -> x1 [] k = 2 -> b2 [] k = 3 -> b3 [] k = 4 -> b4]
           b == CHOOSE t : Is(t)
           y == Carried(x)
<1>1. Is(w)
  <2>1. w[1] = x1 /\ w[2] = b2 /\ w[3] = b3 /\ w[4] = b4
    <3> HIDE DEF x1, b2, b3, b4
    <3> QED OBVIOUS
  <2>2. ASSUME NEW k \in 1..4
        PROVE  w[k] = IF k = 1 THEN x[1] ELSE x[k] + w[k - 1] \div Limb
    <3> HIDE DEF w
    <3>1. CASE k = 1
      BY <2>1, <3>1
    <3>2. CASE k = 2
      BY <2>1, <3>2
    <3>3. CASE k = 3
      BY <2>1, <3>3
    <3>4. CASE k = 4
      BY <2>1, <3>4
    <3> QED BY <3>1, <3>2, <3>3, <3>4
  <2>3. w = [k \in 1..4 |-> w[k]]
    OBVIOUS
  <2> HIDE DEF w
  <2> QED BY <2>2, <2>3
<1>2. Is(b)
  <2> HIDE DEF Is
  <2> QED BY <1>1
<1>3. /\ y[0] = (x[0] + 5 * (b[4] \div Limb)) % Limb
      /\ y[1] = (b[1] % Limb) + ((x[0] + 5 * (b[4] \div Limb)) \div Limb)
      /\ y[2] = b[2] % Limb /\ y[3] = b[3] % Limb /\ y[4] = b[4] % Limb
      /\ y = [k \in 0..4 |-> y[k]]
  BY DEF Carried
<1> HIDE DEF b, y
<1>4. b[1] = x1 /\ b[2] = b2 /\ b[3] = b3 /\ b[4] = b4
  <2>1. ASSUME NEW k \in 1..4
        PROVE  b[k] = IF k = 1 THEN x[1] ELSE x[k] + b[k - 1] \div Limb
    BY <1>2
  <2>2. b[1] = x1
    BY <2>1
  <2>3. b[2] = b2
    <3> HIDE DEF x1
    <3> QED BY <2>1, <2>2
  <2>4. b[3] = b3
    <3> HIDE DEF b2
    <3> QED BY <2>1, <2>3
  <2> HIDE DEF b3
  <2> QED BY <2>1, <2>4
<1>5. y[0] = m0 /\ y[1] = m1 + f /\ y[2] = m2 /\ y[3] = m3 /\ y[4] = m4
  <2> HIDE DEF b4, b3, b2, x1
  <2> QED BY <1>3, <1>4
<1>6. B \in Nat /\ B >= 64 /\ P = B * B * B * B * B - 5
  <2>1. pow2[(LIMB_BITS - 6) + 6] = pow2[LIMB_BITS - 6] * pow2[6] /\ pow2[LIMB_BITS - 6] \in Nat \ {0}
    <3> DEFINE j == LIMB_BITS - 6
    <3>1. j \in Nat
      BY PolyAssumption
    <3> HIDE DEF j
    <3> QED BY <3>1, PowAdds, PowIs DEF j
  <2>2. (LIMB_BITS - 6) + 6 = LIMB_BITS
    BY PolyAssumption
  <2>3. pow2[6] = 64
    BY SmallPowers
  <2> QED BY <2>1, <2>2, <2>3, PolyWidths DEF Limb
<1>7. /\ x0 \in Nat /\ x1 \in Nat /\ x2 \in Nat /\ x3 \in Nat /\ x4 \in Nat
      /\ x0 < B /\ x1 <= B + 62 /\ x2 < B /\ x3 < B /\ x4 < B
  BY DEF LimbsBetween
<1> HIDE DEF B, x0, x1, x2, x3, x4, Is, w
<1>8. ASSUME NEW z \in Nat, z < 2 * B
      PROVE  /\ z \div B \in {0, 1} /\ z % B \in 0..(B - 1) /\ (z % B) + B * (z \div B) = z
             /\ z < B => z \div B = 0
  <2>1. z \div B \in Nat /\ z % B \in 0..(B - 1) /\ (z % B) + B * (z \div B) = z
    <3>1. B \in Nat \ {0}
      BY <1>6
    <3> QED BY <3>1, DivNat
  <2>2. z \div B < 2
    <3>1. B \in Nat \ {0} /\ z < B * 2
      BY <1>6, <1>8
    <3> QED BY <3>1, DivLess
  <2>3. z < B => z \div B < 1
    <3>1. B \in Nat \ {0} /\ (z < B => z < B * 1)
      BY <1>6
    <3> QED BY <3>1, DivLess
  <2> QED BY <2>1, <2>2, <2>3
<1>9. /\ q1 \in {0, 1} /\ m1 \in 0..(B - 1) /\ m1 + B * q1 = x1 /\ (x1 < B => q1 = 0)
  <2>1. x1 < 2 * B
    BY <1>6, <1>7
  <2> QED BY <1>7, <1>8, <2>1
<1>10. b2 \in Nat /\ q2 \in {0, 1} /\ m2 \in 0..(B - 1) /\ m2 + B * q2 = b2 /\ (b2 < B => q2 = 0)
  <2> HIDE DEF q1
  <2>1. b2 \in Nat /\ b2 < 2 * B
    BY <1>6, <1>7, <1>9
  <2> HIDE DEF b2
  <2> QED BY <1>8, <2>1
<1>11. b3 \in Nat /\ q3 \in {0, 1} /\ m3 \in 0..(B - 1) /\ m3 + B * q3 = b3 /\ (b3 < B => q3 = 0)
  <2> HIDE DEF q2
  <2>1. b3 \in Nat /\ b3 < 2 * B
    BY <1>6, <1>7, <1>10
  <2> HIDE DEF b3
  <2> QED BY <1>8, <2>1
<1>12. b4 \in Nat /\ q4 \in {0, 1} /\ m4 \in 0..(B - 1) /\ m4 + B * q4 = b4 /\ (b4 < B => q4 = 0)
  <2> HIDE DEF q3
  <2>1. b4 \in Nat /\ b4 < 2 * B
    BY <1>6, <1>7, <1>11
  <2> HIDE DEF b4
  <2> QED BY <1>8, <2>1
<1>13. first \in Nat /\ f \in {0, 1} /\ m0 \in 0..(B - 1) /\ m0 + B * f = first /\ (first < B => f = 0)
  <2> HIDE DEF q4
  <2>1. first \in Nat /\ first < 2 * B
    BY <1>6, <1>7, <1>12
  <2> HIDE DEF first
  <2> QED BY <1>8, <2>1
<1> HIDE DEF q1, q2, q3, q4, m0, m1, m2, m3, m4, f
<1>14. m1 + f \in 0..(B - 1)
  <2>1. CASE q1 = 0
    <3>1. q2 = 0
      BY <1>7, <1>10, <2>1
    <3>2. q3 = 0
      BY <1>7, <1>11, <3>1
    <3>3. q4 = 0
      BY <1>7, <1>12, <3>2
    <3>4. f = 0
      BY <1>7, <1>13, <3>3
    <3> QED BY <1>9, <3>4
  <2>2. CASE q1 = 1
    BY <1>6, <1>7, <1>9, <1>13, <2>2
  <2> QED BY <1>9, <2>1, <2>2
<1>15. LimbsFull(y)
  <2>1. \A k \in 0..4 : k = 0 \/ k = 1 \/ k = 2 \/ k = 3 \/ k = 4
    OBVIOUS
  <2>2. y[0] \in Nat /\ y[1] \in Nat /\ y[2] \in Nat /\ y[3] \in Nat /\ y[4] \in Nat
        /\ y[0] < B /\ y[1] < B /\ y[2] < B /\ y[3] < B /\ y[4] < B
    BY <1>5, <1>6, <1>10, <1>11, <1>12, <1>13, <1>14
  <2>3. \A k \in 0..4 : y[k] \in Nat /\ y[k] < B
    BY <2>1, <2>2
  <2>4. y \in [0..4 -> Nat]
    BY <1>3, <2>3
  <2> QED BY <2>3, <2>4 DEF LimbsFull, B
<1>16. Value(x) = Value(y) + P * q4
  <2>1. Value(x) = x0 + B * (x1 + B * (x2 + B * (x3 + B * x4)))
    BY DEF Value, x0, x1, x2, x3, x4, B
  <2>2. Value(y) = m0 + B * ((m1 + f) + B * (m2 + B * (m3 + B * m4)))
    BY <1>5 DEF Value, B
  <2>3. /\ x4 = m4 + B * q4 - q3 /\ x3 = m3 + B * q3 - q2 /\ x2 = m2 + B * q2 - q1
        /\ x1 = m1 + B * q1 /\ x0 = m0 + B * f - 5 * q4
    BY <1>6, <1>7, <1>9, <1>10, <1>11, <1>12, <1>13
  <2>4. /\ m0 \in Int /\ m1 \in Int /\ m2 \in Int /\ m3 \in Int /\ m4 \in Int /\ f \in Int
        /\ q1 \in Int /\ q2 \in Int /\ q3 \in Int /\ q4 \in Int /\ B \in Int
    BY <1>6, <1>9, <1>10, <1>11, <1>12, <1>13
  <2>5. (m0 + B * f - 5 * q4)
          + B * ((m1 + B * q1) + B * ((m2 + B * q2 - q1)
                   + B * ((m3 + B * q3 - q2) + B * (m4 + B * q4 - q3))))
        = (m0 + B * ((m1 + f) + B * (m2 + B * (m3 + B * m4)))) + (B * B * B * B * B - 5) * q4
    BY <2>4
  <2>6. Value(x) = (m0 + B * f - 5 * q4)
          + B * ((m1 + B * q1) + B * ((m2 + B * q2 - q1)
                   + B * ((m3 + B * q3 - q2) + B * (m4 + B * q4 - q3))))
    BY <2>1, <2>3
  <2> QED BY <1>6, <2>2, <2>5, <2>6
<1>17. q4 \in Int
  BY <1>12
<1> QED
  BY <1>15, <1>16, <1>17 DEF y

(* The subtraction of P, or not. *)
LEMMA CanonicalIs ==
  ASSUME NEW x, LimbsFull(x)
  PROVE  LimbsFull(Canonical(x)) /\ Value(Canonical(x)) = Value(x) % P
<1> DEFINE B == Limb
           Is(t) == t = [k \in 0..4 |-> x[k] + (IF k = 0 THEN 5 ELSE t[k - 1] \div Limb)]
           x0 == x[0]  x1 == x[1]  x2 == x[2]  x3 == x[3]  x4 == x[4]
           g0 == x0 + 5
           q0 == g0 \div B
           g1 == x1 + q0
           q1 == g1 \div B
           g2 == x2 + q1
           q2 == g2 \div B
           g3 == x3 + q2
           q3 == g3 \div B
           g4 == x4 + q3
           m0 == g0 % B
           m1 == g1 % B
           m2 == g2 % B
           m3 == g3 % B
           top == (g4 - B) % UINT32
           w == [k \in 0..4 |-> CASE k = 0 -> g0 [] k = 1 -> g1 [] k = 2 -> g2
                                  [] k = 3 -> g3 [] k = 4 -> g4]
           g == CHOOSE t : Is(t)
           y == Canonical(x)
           less == [k \in 0..4 |-> IF k = 4 THEN (g[4] - Limb) % UINT32 ELSE g[k] % Limb]
<1>1. Is(w)
  <2>1. w[0] = g0 /\ w[1] = g1 /\ w[2] = g2 /\ w[3] = g3 /\ w[4] = g4
    <3> HIDE DEF g0, g1, g2, g3, g4
    <3> QED OBVIOUS
  <2>2. ASSUME NEW k \in 0..4
        PROVE  w[k] = x[k] + (IF k = 0 THEN 5 ELSE w[k - 1] \div Limb)
    <3> HIDE DEF w
    <3>1. CASE k = 0
      BY <2>1, <3>1
    <3>2. CASE k = 1
      BY <2>1, <3>2
    <3>3. CASE k = 2
      BY <2>1, <3>3
    <3>4. CASE k = 3
      BY <2>1, <3>4
    <3>5. CASE k = 4
      BY <2>1, <3>5
    <3> QED BY <3>1, <3>2, <3>3, <3>4, <3>5
  <2>3. w = [k \in 0..4 |-> w[k]]
    OBVIOUS
  <2> HIDE DEF w
  <2> QED BY <2>2, <2>3
<1>2. Is(g)
  <2> HIDE DEF Is
  <2> QED BY <1>1
<1>3. y = IF (g[4] - Limb) % UINT32 >= UINT32 \div 2 THEN x ELSE less
  BY DEF Canonical
<1> HIDE DEF g, y
<1>4. g[0] = g0 /\ g[1] = g1 /\ g[2] = g2 /\ g[3] = g3 /\ g[4] = g4
  <2>1. ASSUME NEW k \in 0..4
        PROVE  g[k] = x[k] + (IF k = 0 THEN 5 ELSE g[k - 1] \div Limb)
    BY <1>2
  <2>2. g[0] = g0
    BY <2>1
  <2>3. g[1] = g1
    <3> HIDE DEF g0
    <3> QED BY <2>1, <2>2
  <2>4. g[2] = g2
    <3> HIDE DEF g1
    <3> QED BY <2>1, <2>3
  <2>5. g[3] = g3
    <3> HIDE DEF g2
    <3> QED BY <2>1, <2>4
  <2> HIDE DEF g3
  <2> QED BY <2>1, <2>5
<1>5. less[0] = m0 /\ less[1] = m1 /\ less[2] = m2 /\ less[3] = m3 /\ less[4] = top
  <2> HIDE DEF g0, g1, g2, g3, g4
  <2> QED BY <1>4
<1>6. less = [k \in 0..4 |-> less[k]]
  OBVIOUS
<1> HIDE DEF less
<1>7. B \in Nat /\ B >= 16 /\ P = B * B * B * B * B - 5 /\ UINT32 = 64 * B
  <2>1. Quarter \in Nat /\ Quarter >= 4 /\ B = 4 * Quarter /\ UINT32 = 256 * Quarter
        /\ P = B * B * B * B * B - 5
    BY PolyWidths
  <2> HIDE DEF B
  <2> QED BY <2>1
<1>8. /\ x0 \in 0..(B - 1) /\ x1 \in 0..(B - 1) /\ x2 \in 0..(B - 1) /\ x3 \in 0..(B - 1)
      /\ x4 \in 0..(B - 1)
  BY <1>7 DEF LimbsFull
<1> HIDE DEF B, x0, x1, x2, x3, x4, Is, w
<1>9. ASSUME NEW z \in Nat, z < 2 * B
      PROVE  z \div B \in {0, 1} /\ z % B \in 0..(B - 1) /\ (z % B) + B * (z \div B) = z
  <2>1. z \div B \in Nat /\ z % B \in 0..(B - 1) /\ (z % B) + B * (z \div B) = z
    <3>1. B \in Nat \ {0}
      BY <1>7
    <3> QED BY <3>1, DivNat
  <2>2. z \div B < 2
    <3>1. B \in Nat \ {0} /\ z < B * 2
      BY <1>7, <1>9
    <3> QED BY <3>1, DivLess
  <2> QED BY <2>1, <2>2
<1>10. q0 \in {0, 1} /\ m0 \in 0..(B - 1) /\ m0 + B * q0 = x0 + 5
  <2>1. g0 \in Nat /\ g0 < 2 * B
    BY <1>7, <1>8
  <2> HIDE DEF g0
  <2> QED BY <1>9, <2>1 DEF g0
<1>11. q1 \in {0, 1} /\ m1 \in 0..(B - 1) /\ m1 + B * q1 = x1 + q0
  <2> HIDE DEF q0
  <2>1. g1 \in Nat /\ g1 < 2 * B
    BY <1>7, <1>8, <1>10
  <2> HIDE DEF g1
  <2> QED BY <1>9, <2>1 DEF g1
<1>12. q2 \in {0, 1} /\ m2 \in 0..(B - 1) /\ m2 + B * q2 = x2 + q1
  <2> HIDE DEF q1
  <2>1. g2 \in Nat /\ g2 < 2 * B
    BY <1>7, <1>8, <1>11
  <2> HIDE DEF g2
  <2> QED BY <1>9, <2>1 DEF g2
<1>13. q3 \in {0, 1} /\ m3 \in 0..(B - 1) /\ m3 + B * q3 = x3 + q2
  <2> HIDE DEF q2
  <2>1. g3 \in Nat /\ g3 < 2 * B
    BY <1>7, <1>8, <1>12
  <2> HIDE DEF g3
  <2> QED BY <1>9, <2>1 DEF g3
<1>14. g4 \in 0..B /\ g4 = x4 + q3
  <2> HIDE DEF q3
  <2> QED BY <1>7, <1>8, <1>13
<1> HIDE DEF q0, q1, q2, q3, m0, m1, m2, m3, g4
(* What the sums with five carried through stand for. *)
<1>15. m0 + B * (m1 + B * (m2 + B * (m3 + B * (g4 - B)))) = Value(x) - P
  <2>1. Value(x) = x0 + B * (x1 + B * (x2 + B * (x3 + B * x4)))
    BY DEF Value, x0, x1, x2, x3, x4, B
  <2>2. /\ x4 = g4 - q3 /\ x3 = m3 + B * q3 - q2 /\ x2 = m2 + B * q2 - q1
        /\ x1 = m1 + B * q1 - q0 /\ x0 = m0 + B * q0 - 5
    BY <1>7, <1>8, <1>10, <1>11, <1>12, <1>13, <1>14
  <2>3. /\ m0 \in Int /\ m1 \in Int /\ m2 \in Int /\ m3 \in Int /\ g4 \in Int
        /\ q0 \in Int /\ q1 \in Int /\ q2 \in Int /\ q3 \in Int /\ B \in Int
    BY <1>7, <1>10, <1>11, <1>12, <1>13, <1>14
  <2>5. Value(x) = (m0 + B * q0 - 5)
          + B * ((m1 + B * q1 - q0) + B * ((m2 + B * q2 - q1)
                   + B * ((m3 + B * q3 - q2) + B * (g4 - q3))))
    BY <2>1, <2>2
  <2> DEFINE v == (m0 + B * q0 - 5)
                    + B * ((m1 + B * q1 - q0) + B * ((m2 + B * q2 - q1)
                             + B * ((m3 + B * q3 - q2) + B * (g4 - q3))))
             c == B * B * B * B * B - 5
             t == m0 + B * (m1 + B * (m2 + B * (m3 + B * (g4 - B))))
  <2>6. v - c = t
    BY <2>3
  <2>7. Value(x) = v
    BY <2>5
  <2>8. P = c
    BY <1>7
  <2> HIDE DEF v, c, t
  <2>9. t = Value(x) - P
    BY <2>6, <2>7, <2>8
  <2> QED BY <2>9 DEF t
<1>16. Value(x) \in 0..(P + 4) /\ P \in Nat \ {0} /\ P > 5
  BY ValueFits, PIsPositive
<1>17. ASSUME NEW z, LimbsFull(z), z[0] = m0, z[1] = m1, z[2] = m2, z[3] = m3
       PROVE  Value(z) = m0 + B * (m1 + B * (m2 + B * (m3 + B * z[4])))
  BY <1>17 DEF Value, B
<1>18. CASE g4 = B
  <2>1. top = 0 /\ ~((g[4] - Limb) % UINT32 >= UINT32 \div 2)
    <3>1. g4 - B = 0 /\ g[4] - Limb = 0
      BY <1>4, <1>7, <1>18 DEF B
    <3>2. 0 % UINT32 = 0 /\ ~(0 >= UINT32 \div 2)
      BY <1>7
    <3> QED BY <3>1, <3>2
  <2>2. y = less
    BY <1>3, <2>1
  <2> HIDE DEF top
  <2>3. LimbsFull(less)
    <3>1. \A k \in 0..4 : k = 0 \/ k = 1 \/ k = 2 \/ k = 3 \/ k = 4
      OBVIOUS
    <3>2. less[0] \in Nat /\ less[1] \in Nat /\ less[2] \in Nat /\ less[3] \in Nat /\ less[4] \in Nat
          /\ less[0] < B /\ less[1] < B /\ less[2] < B /\ less[3] < B /\ less[4] < B
      BY <1>5, <1>7, <1>10, <1>11, <1>12, <1>13, <2>1
    <3>3. \A k \in 0..4 : less[k] \in Nat /\ less[k] < B
      BY <3>1, <3>2
    <3>4. less \in [0..4 -> Nat]
      BY <1>6, <3>3
    <3> QED BY <3>3, <3>4 DEF LimbsFull, B
  <2>4. Value(less) = Value(x) - P
    <3>1. Value(less) = m0 + B * (m1 + B * (m2 + B * (m3 + B * less[4])))
      BY <1>5, <1>17, <2>3
    <3>2. less[4] = g4 - B
      BY <1>5, <1>7, <1>18, <2>1
    <3> QED BY <1>15, <3>1, <3>2
  <2>5. Value(less) \in 0..(P + 4)
    BY <2>3, ValueFits
  <2>6. Value(x) % P = Value(less)
    <3> DEFINE v == Value(less)
    <3>1. v \in 0..(P - 1) /\ Value(x) = P * 1 + v
      BY <1>16, <2>4, <2>5
    <3> HIDE DEF v
    <3>2. (P * 1 + v) % P = v
      <4>1. P \in Nat \ {0} /\ 1 \in Int /\ v \in 0..(P - 1)
        BY <1>16, <3>1
      <4> QED BY <4>1, DivModUnique, Zenon
    <3> QED BY <3>1, <3>2 DEF v
  <2> QED BY <2>2, <2>3, <2>6 DEF y
<1>19. CASE g4 # B
  <2>1. (g[4] - Limb) % UINT32 >= UINT32 \div 2
    <3>1. g4 - B \in Int /\ g4 - B < 0 /\ -B <= g4 - B /\ g[4] - Limb = g4 - B
      BY <1>4, <1>7, <1>14, <1>19 DEF B
    <3> DEFINE z == g4 - B
    <3> HIDE DEF z
    <3>2. z \in Int /\ z < 0 /\ -B <= z
      BY <3>1 DEF z
    <3>3. z % (64 * B) = z + 64 * B
      <4> DEFINE U == 64 * B
                 v == z + U
      <4>1. U \in Nat \ {0} /\ v \in 0..(U - 1) /\ z = U * (-1) + v /\ -1 \in Int
        BY <1>7, <3>2
      <4> HIDE DEF U, v
      <4>2. (U * (-1) + v) % U = v
        BY <4>1, DivModUnique, Zenon
      <4> QED BY <4>1, <4>2 DEF U, v
    <3>4. (64 * B) \div 2 = 32 * B
      BY <1>7
    <3>5. z + 64 * B >= 32 * B
      BY <1>7, <3>2
    <3> QED BY <1>7, <3>1, <3>3, <3>4, <3>5 DEF z
  <2>2. y = x
    BY <1>3, <2>1
  <2>3. Value(x) < P
    <3> DEFINE z == [k \in 0..4 |-> CASE k = 0 -> m0 [] k = 1 -> m1 [] k = 2 -> m2
                                      [] k = 3 -> m3 [] k = 4 -> g4]
    <3>1. z[0] = m0 /\ z[1] = m1 /\ z[2] = m2 /\ z[3] = m3 /\ z[4] = g4 /\ z = [k \in 0..4 |-> z[k]]
      OBVIOUS
    <3> HIDE DEF z
    <3>2. LimbsFull(z)
      <4>1. \A k \in 0..4 : k = 0 \/ k = 1 \/ k = 2 \/ k = 3 \/ k = 4
        OBVIOUS
      <4>2. z[0] \in Nat /\ z[1] \in Nat /\ z[2] \in Nat /\ z[3] \in Nat /\ z[4] \in Nat
            /\ z[0] < B /\ z[1] < B /\ z[2] < B /\ z[3] < B /\ z[4] < B
        BY <1>7, <1>10, <1>11, <1>12, <1>13, <1>14, <1>19, <3>1
      <4>3. \A k \in 0..4 : z[k] \in Nat /\ z[k] < B
        BY <4>1, <4>2
      <4>4. z \in [0..4 -> Nat]
        BY <3>1, <4>3
      <4> QED BY <4>3, <4>4 DEF LimbsFull, B
    <3>3. Value(z) \in 0..(P + 4)
      BY <3>2, ValueFits
    <3>4. Value(z) = m0 + B * (m1 + B * (m2 + B * (m3 + B * g4)))
      BY <1>17, <3>1, <3>2
    <3>5. m0 + B * (m1 + B * (m2 + B * (m3 + B * g4)))
            = (m0 + B * (m1 + B * (m2 + B * (m3 + B * (g4 - B))))) + B * B * B * B * B
      <4>1. m0 \in Int /\ m1 \in Int /\ m2 \in Int /\ m3 \in Int /\ g4 \in Int /\ B \in Int
        BY <1>7, <1>10, <1>11, <1>12, <1>13, <1>14
      <4> QED BY <4>1
    <3> DEFINE v == Value(x)
               c == B * B * B * B * B
               t == m0 + B * (m1 + B * (m2 + B * (m3 + B * (g4 - B))))
    <3>6. Value(z) = t + c /\ t = v - P /\ P = c - 5
      BY <1>7, <1>15, <3>4, <3>5
    <3>7. v \in 0..(P + 4) /\ c \in Int
      <4>1. c \in Int
        BY <1>7
      <4> QED BY <1>16, <4>1
    <3> HIDE DEF v, c, t
    <3> QED BY <1>16, <3>3, <3>6, <3>7 DEF v
  <2>4. Value(x) % P = Value(x)
    BY <1>16, <2>3
  <2> QED BY <2>2, <2>4 DEF y
<1> QED BY <1>18, <1>19

(* The tag poly1305_auth computes is that of RFC 8439, also when the        *)
(* accumulator lies between P and the next power of two and the final      *)
(* subtraction decides.  A limb must hold the last carry, 62 at most, and  *)
(* so have six bits; those of the code have 26.                            *)
THEOREM TagIsRight ==
  ASSUME LIMB_BITS >= 6
  PROVE  Spec => []TagRight
<1>1. PolyInv => TagRight
  <2> SUFFICES ASSUME PolyInv PROVE TagRight
    OBVIOUS
  <2> DEFINE x == Carried(h)
             y == Canonical(x)
  <2>1. LimbsFull(x) /\ \E k \in Int : Value(h) = Value(x) + P * k
    BY CarriedIs DEF PolyInv
  <2>2. PICK k \in Int : Value(h) = Value(x) + P * k
    BY <2>1
  <2> HIDE DEF x
  <2>3. LimbsFull(y) /\ Value(y) = Value(x) % P
    BY <2>1, CanonicalIs
  <2>4. Value(y) = acc
    <3>1. P \in Nat \ {0} /\ Value(x) \in Int
      BY <2>1, ValueFits, PIsPositive
    <3>2. (Value(x) + P * k) % P = Value(x) % P
      BY <3>1, ModShift, Zenon
    <3> QED BY <2>2, <2>3, <3>2 DEF PolyInv
  <2> HIDE DEF y
  <2>5. Packed(y) = acc % TagSize
    BY <2>3, <2>4, PackedIs
  <2>6. Tag = ((acc % TagSize) + s) % TagSize
    BY <2>5 DEF Tag, x, y
  <2>7. TagSize \in Nat \ {0} /\ acc \in Int /\ s \in Int
    <3>1. 5 * LIMB_BITS - 2 \in Nat
      BY PolyAssumption
    <3>2. TagSize \in Nat \ {0}
      BY <3>1, PowIs DEF TagSize
    <3> QED BY <3>2, PIsPositive DEF PolyInv
  <2>8. ((acc % TagSize) * 1 + s) % TagSize = (acc * 1 + s) % TagSize
    <3>1. 1 \in Int
      OBVIOUS
    <3> QED BY <2>7, <3>1, ModMod, ZenonT(60)
  <2>9. (acc % TagSize) * 1 = acc % TagSize /\ acc * 1 = acc
    <3>1. acc % TagSize \in Int
      BY <2>7, DivMod
    <3> QED BY <2>7, <3>1
  <2> QED BY <2>6, <2>8, <2>9 DEF TagRight
<1> QED BY <1>1, PolyInvHolds, PTL

-----------------------------------------------------------------------------
(* The GPIO driver.                                                        *)

(* Registers and histories have their shape.                               *)
GpioTyped ==
  /\ gpio_dir \in [Banks -> SUBSET Int]
  /\ gpio_data \in [Banks -> SUBSET Int]
  /\ written \in [Pins -> {0, 1, Unknown}]

(* A level is known of outputs only, and the register of the bank holds it: *)
(* without the first, a pin would turn into an output with a stale level.  *)
LevelsStored ==
  \A pin \in Pins :
    written[pin] # Unknown
      => /\ IsOutput(pin)
         /\ Bit(pin) \in gpio_data[Bank(pin)] <=> written[pin] = 1

GpioInv == GpioTyped /\ LevelsStored

(* No two pins share a bit of a register.                                  *)
LEMMA PinsApart ==
  ASSUME NEW p \in Pins, NEW q \in Pins, Bank(p) = Bank(q), Bit(p) = Bit(q)
  PROVE  p = q
BY GpioAssumption DEF Pins, Bank, Bit

LEMMA PinTypes ==
  ASSUME NEW p \in Pins
  PROVE  Bank(p) \in Banks /\ Bit(p) \in Int
BY GpioAssumption DEF Pins, Bank, Bit, Banks

(* A bank's data register reads the level of each of its pins.             *)
LEMMA LevelsAreHigh ==
  ASSUME NEW p \in Pins
  PROVE  Bit(p) \in Levels(Bank(p)) <=> High(p)
<1>1. ASSUME Bit(p) \in Levels(Bank(p)) PROVE High(p)
  <2>1. PICK q \in Pins : Bank(q) = Bank(p) /\ High(q) /\ Bit(q) = Bit(p)
    BY <1>1 DEF Levels
  <2> QED BY <2>1, PinsApart
<1>2. ASSUME High(p) PROVE Bit(p) \in Levels(Bank(p))
  BY <1>2 DEF Levels
<1> QED BY <1>1, <1>2

LEMMA LevelsAreBits ==
  ASSUME NEW bank \in Banks
  PROVE  Levels(bank) \subseteq Int
BY PinTypes DEF Levels

(* A write leaves the other outputs as they were.                          *)
LEMMA StoreKeeps ==
  ASSUME GpioInv, NEW p \in Pins, NEW value \in {0, 1}, Store(p, value)
  PROVE  GpioInv'
<1> USE PinTypes
<1>1. GpioTyped'
  BY LevelsAreBits DEF GpioInv, GpioTyped, Store, WithBit, Unknown
<1>2. SUFFICES ASSUME NEW q \in Pins, written'[q] # Unknown
               PROVE  /\ IsOutput(q)'
                      /\ Bit(q) \in gpio_data'[Bank(q)] <=> written'[q] = 1
  BY <1>1 DEF GpioInv, LevelsStored, IsOutput, Bit, Bank
<1>3. IsOutput(q) /\ IsOutput(q)'
  BY <1>2 DEF Store, IsOutput, GpioInv, LevelsStored, GpioTyped
<1>4. gpio_data'[Bank(p)] = WithBit(Levels(Bank(p)), p, value)
  BY DEF Store, GpioInv, GpioTyped
<1>5. CASE q = p
  <2>1. written'[q] = value
    BY <1>3, <1>5 DEF Store, GpioInv, GpioTyped
  <2> QED BY <1>3, <1>4, <1>5, <2>1 DEF WithBit
<1>6. CASE q # p
  <2>1. written'[q] = written[q]
    BY <1>6 DEF Store, GpioInv, GpioTyped
  <2>2. Bit(q) \in gpio_data[Bank(q)] <=> written[q] = 1
    BY <1>2, <2>1 DEF GpioInv, LevelsStored
  <2>3. CASE Bank(q) = Bank(p)
    <3>1. Bit(q) # Bit(p)
      BY <1>6, <2>3, PinsApart
    <3>2. Bit(q) \in Levels(Bank(q)) <=> Bit(q) \in gpio_data[Bank(q)]
      BY <1>3, LevelsAreHigh DEF High
    <3> QED BY <1>3, <1>4, <2>1, <2>2, <2>3, <3>1, <3>2 DEF WithBit
  <2>4. CASE Bank(q) # Bank(p)
    <3>1. gpio_data'[Bank(q)] = gpio_data[Bank(q)]
      BY <2>4 DEF Store, GpioInv, GpioTyped
    <3> QED BY <1>3, <2>1, <2>2, <3>1
  <2> QED BY <2>3, <2>4
<1> QED BY <1>5, <1>6

LEMMA GpioInitTrue ==
  ASSUME GpioInit
  PROVE  GpioInv
BY PinTypes DEF GpioInit, GpioInv, GpioTyped, LevelsStored, IsOutput, Banks, Unknown

LEMMA GpioStepKeeps ==
  ASSUME GpioInv, [GpioNext]_gpioVars
  PROVE  GpioInv'
<1> USE PinTypes DEF GpioInv
<1>1. CASE gpio_init
  <2>1. GpioTyped'
    BY <1>1 DEF gpio_init, GpioTyped, Banks, Unknown
  <2>2. LevelsStored'
    BY <1>1 DEF gpio_init, LevelsStored, IsOutput, Unknown
  <2> QED BY <2>1, <2>2
<1>2. ASSUME NEW p \in Pins, NEW output \in BOOLEAN, gpio_set_direction(p, output)
      PROVE  GpioInv'
  <2>1. GpioTyped'
    BY <1>2 DEF gpio_set_direction, GpioTyped, Unknown
  <2>2. SUFFICES ASSUME NEW q \in Pins, written'[q] # Unknown
                 PROVE  /\ IsOutput(q)'
                        /\ Bit(q) \in gpio_data'[Bank(q)] <=> written'[q] = 1
    BY <2>1 DEF LevelsStored, IsOutput, Bit, Bank
  <2>3. written'[q] = written[q] /\ gpio_data' = gpio_data /\ (q = p => output)
    BY <1>2, <2>2 DEF gpio_set_direction, GpioTyped
  <2>4. IsOutput(q) /\ (Bit(q) \in gpio_data[Bank(q)] <=> written[q] = 1)
    BY <2>2, <2>3 DEF LevelsStored
  <2>5. IsOutput(q)'
    <3>1. CASE q = p
      BY <1>2, <2>3, <3>1 DEF gpio_set_direction, IsOutput, GpioTyped
    <3>2. CASE q # p
      <4>1. Bank(q) = Bank(p) => Bit(q) # Bit(p)
        BY <3>2, PinsApart
      <4> QED BY <1>2, <2>4, <4>1 DEF gpio_set_direction, IsOutput, GpioTyped
    <3> QED BY <3>1, <3>2
  <2> QED BY <2>3, <2>4, <2>5
<1>3. ASSUME NEW p \in Pins, NEW value \in {0, 1}, gpio_write(p, value)
      PROVE  GpioInv'
  BY <1>3, StoreKeeps DEF gpio_write
<1>4. ASSUME NEW p \in Pins, gpio_toggle(p)
      PROVE  GpioInv'
  <2>1. 1 - gpio_read(p) \in {0, 1}
    BY DEF gpio_read
  <2> QED BY <1>4, <2>1, StoreKeeps DEF gpio_toggle
<1>5. CASE UNCHANGED <<gpio_dir, gpio_data, written>>
  BY <1>5 DEF GpioTyped, LevelsStored, IsOutput
<1> QED
  BY <1>1, <1>2, <1>3, <1>4, <1>5 DEF GpioNext, PinMoves, gpioVars

LEMMA GpioInvHolds == GpioSpec => []GpioInv
<1>1. GpioInit => GpioInv
  BY GpioInitTrue
<1>2. GpioInv /\ [GpioNext]_gpioVars => GpioInv'
  BY GpioStepKeeps
<1> QED BY <1>1, <1>2, PTL DEF GpioSpec

(* Whatever is done with the pins of a bank, in any order, and whatever     *)
(* levels come in, an output keeps and reads the level last written to it, *)
(* and an input reads the level it is given: gpio_write and gpio_toggle     *)
(* may share registers between pins of different directions.               *)
THEOREM OutputsKeepTheirLevels == GpioSpec => []PinsReadTrue
<1>1. ASSUME GpioInv, NEW pin \in Pins
      PROVE  IF IsOutput(pin)
               THEN written[pin] = Unknown \/ gpio_read(pin) = written[pin]
               ELSE gpio_read(pin) = (IF pin \in outside THEN 1 ELSE 0)
  <2>1. gpio_read(pin) = IF High(pin) THEN 1 ELSE 0
    BY LevelsAreHigh DEF gpio_read
  <2>2. CASE IsOutput(pin)
    <3>1. written[pin] \in {0, 1, Unknown}
      BY <1>1 DEF GpioInv, GpioTyped
    <3>2. written[pin] # Unknown => (High(pin) <=> written[pin] = 1)
      BY <1>1, <2>2 DEF GpioInv, LevelsStored, High
    <3> QED BY <2>1, <2>2, <3>1, <3>2
  <2>3. CASE ~IsOutput(pin)
    BY <2>1, <2>3 DEF High
  <2> QED BY <2>2, <2>3
<1>2. GpioInv => PinsReadTrue
  BY <1>1 DEF PinsReadTrue
<1> QED BY <1>2, GpioInvHolds, PTL

-----------------------------------------------------------------------------
(* The number that digits stand for.                                       *)
LEMMA Power10Is ==
  /\ power10[0] = 1
  /\ \A n \in Nat : power10[n] \in Nat \ {0} /\ power10[n + 1] = 10 * power10[n]
<1> DEFINE Is(t) == t = [n \in Nat |-> IF n = 0 THEN 1 ELSE 10 * t[n - 1]]
<1>1. \E t : Is(t)
  BY PowersExist DEF IsPowers
<1>2. power10 = CHOOSE t : Is(t)
  BY DEF power10
<1>3. Is(power10)
  <2> HIDE DEF Is
  <2> QED
    BY <1>1, <1>2
<1>4. IsPowers(power10, 10)
  BY <1>3 DEF IsPowers
<1> QED
  BY <1>4, PowersAre

(* It is found from the left, digit by digit. *)
Horner(f, digits, base) ==
  f[0] = 0 /\ \A i \in 1..Len(digits) : f[i] = f[i - 1] * base + digits[i]

LEMMA NumberOfReads ==
  ASSUME NEW base \in Int, NEW digits \in Seq(Int)
  PROVE  \E f : Horner(f, digits, base) /\ NumberOf(digits, base) = f[Len(digits)]
<1> DEFINE n == Len(digits)
           Is(t) == t = [i \in 0..Len(digits) |-> IF i = 0 THEN 0 ELSE t[i - 1] * base + digits[i]]
           g == [q \in Nat \X Int |->
                   IF q[1] \in 1..n THEN q[2] * base + digits[q[1]] ELSE 0]
           first == CHOOSE t : Is(t)
<1>1. n \in Nat /\ 0 \in Int
  OBVIOUS
<1>2. g \in [Nat \X Int -> Int]
  <2>1. ASSUME NEW i \in Nat, NEW c \in Int
        PROVE  (IF i \in 1..n THEN c * base + digits[i] ELSE 0) \in Int
    OBVIOUS
  <2> QED
    BY <2>1
<1>3. NumberOf(digits, base) = first[n]
  BY DEF NumberOf
<1>4. \E t : Is(t)
  <2>1. PICK t \in [0..n -> Int] : Recurs(t, 0, g, n)
    <3> HIDE DEF g, n
    <3> QED
      BY <1>1, <1>2, RecursionTo
  <2>2. ASSUME NEW i \in 1..n PROVE t[i] = t[i - 1] * base + digits[i]
    <3>1. t[i - 1] \in Int /\ i \in Nat
      <4> HIDE DEF n
      <4> QED
        BY <1>1, <2>1
    <3>2. t[i] = g[<<i, t[i - 1]>>]
      <4> HIDE DEF g, n
      <4> QED
        BY <2>1 DEF Recurs
    <3> QED
      BY <3>1, <3>2
  <2>3. t[0] = 0
    BY <2>1 DEF Recurs
  <2>4. Is(t)
    BY <2>1, <2>2, <2>3
  <2> QED
    BY <2>4
<1>5. Is(first)
  <2> HIDE DEF Is
  <2> QED
    BY <1>4
<1> HIDE DEF first
<1>6. Horner(first, digits, base)
  BY <1>5 DEF Horner
<1> QED
  BY <1>3, <1>6

LEMMA NumberOfIs ==
  ASSUME NEW base \in Int, NEW digits \in Seq(Int), NEW f, Horner(f, digits, base)
  PROVE  NumberOf(digits, base) = f[Len(digits)]
<1> DEFINE n == Len(digits)
<1>1. n \in Nat
  OBVIOUS
<1>2. PICK first : Horner(first, digits, base) /\ NumberOf(digits, base) = first[n]
  BY NumberOfReads
<1> DEFINE T == {i \in Nat : i <= n => f[i] = first[i]}
<1>3. 0 \in T
  BY <1>2 DEF Horner
<1>4. ASSUME NEW i \in Nat, i \in T PROVE i + 1 \in T
  <2> SUFFICES ASSUME i + 1 <= n PROVE f[i + 1] = first[i + 1]
    OBVIOUS
  <2>1. i + 1 \in 1..n /\ (i + 1) - 1 = i /\ i <= n
    BY <1>1
  <2> QED
    BY <1>2, <1>4, <2>1 DEF Horner
<1>5. Nat \subseteq T
  <2> HIDE DEF T
  <2> QED
    BY <1>3, <1>4, InductionOnNat
<1> QED
  BY <1>1, <1>2, <1>5

LEMMA NoDigits ==
  ASSUME NEW base \in Int
  PROVE  NumberOf(<<>>, base) = 0
<1>1. <<>> \in Seq(Int) /\ Len(<<>>) = 0
  OBVIOUS
<1>2. PICK f : Horner(f, <<>>, base) /\ NumberOf(<<>>, base) = f[Len(<<>>)]
  BY <1>1, NumberOfReads
<1> QED
  BY <1>1, <1>2 DEF Horner

LEMMA OneMoreDigit ==
  ASSUME NEW base \in Int, NEW digits \in Seq(Int), NEW d \in Int
  PROVE  /\ NumberOf(digits, base) \in Int
         /\ NumberOf(Append(digits, d), base) = NumberOf(digits, base) * base + d
<1> DEFINE n == Len(digits)
           more == Append(digits, d)
<1>1. n \in Nat /\ more \in Seq(Int) /\ Len(more) = n + 1 /\ more[n + 1] = d
      /\ \A i \in 1..n : more[i] = digits[i]
  OBVIOUS
<1> HIDE DEF more
<1>2. PICK f : Horner(f, more, base) /\ NumberOf(more, base) = f[n + 1]
  BY <1>1, NumberOfReads
<1>3. Horner(f, digits, base)
  <2>1. \A i \in 1..n : i \in 1..(n + 1)
    BY <1>1
  <2> QED
    BY <1>1, <1>2, <2>1 DEF Horner
<1>4. NumberOf(digits, base) = f[n]
  BY <1>3, NumberOfIs
<1>5. n + 1 \in 1..(n + 1) /\ (n + 1) - 1 = n
  BY <1>1
<1>6. f[n + 1] = f[n] * base + d
  BY <1>1, <1>2, <1>5 DEF Horner
<1> DEFINE T == {i \in Nat : i <= n => f[i] \in Int}
<1>7. 0 \in T
  BY <1>3 DEF Horner
<1>8. ASSUME NEW i \in Nat, i \in T PROVE i + 1 \in T
  <2> SUFFICES ASSUME i + 1 <= n PROVE f[i + 1] \in Int
    OBVIOUS
  <2>1. i + 1 \in 1..n /\ (i + 1) - 1 = i /\ f[i] \in Int
    BY <1>1, <1>8
  <2>2. f[i + 1] = f[i] * base + digits[i + 1] /\ digits[i + 1] \in Int
    BY <1>3, <2>1 DEF Horner
  <2> QED
    BY <2>1, <2>2
<1>9. Nat \subseteq T
  <2> HIDE DEF T
  <2> QED
    BY <1>7, <1>8, InductionOnNat
<1> QED
  BY <1>1, <1>2, <1>4, <1>6, <1>9 DEF more

-----------------------------------------------------------------------------
(* print_udec.  After i turns the divisor has a digit for each turn that is *)
(* left, and what is left of the number has no more digits than that.      *)
UdecStart(word) == [divisor |-> TOP_DIVISOR, rest |-> word, out |-> <<>>]
UdecStates == [divisor : Nat, rest : Nat, out : Seq(Nat)]

UdecTurns(t, word) ==
  /\ t[0] = UdecStart(word)
  /\ \A i \in 1..UDEC_DIGITS : t[i - 1].divisor # 0 => t[i] = AfterDivisor(t[i - 1])

UdecFits(so_far, word, bound) ==
  /\ so_far.rest < bound
  /\ \A j \in 1..Len(so_far.out) : so_far.out[j] \in 0..9
  /\ so_far.out # <<>> => so_far.out[1] # 0
  /\ word = NumberOf(so_far.out, 10) * bound + so_far.rest

UdecGood(t, word, i) ==
  /\ t[i] \in UdecStates
  /\ i < UDEC_DIGITS => t[i].divisor = power10[UDEC_DIGITS - 1 - i]
  /\ UdecFits(t[i], word, power10[UDEC_DIGITS - i])

(* A turn, with a divisor of p and 10 times as much to come before it. *)
LEMMA UdecTurn ==
  ASSUME NEW word \in Nat, NEW p \in Nat \ {0}, NEW so_far \in UdecStates,
         so_far.divisor = p, UdecFits(so_far, word, 10 * p)
  PROVE  /\ AfterDivisor(so_far) \in UdecStates
         /\ AfterDivisor(so_far).divisor = p \div 10
         /\ UdecFits(AfterDivisor(so_far), word, p)
<1> DEFINE out == so_far.out
           rest == so_far.rest
           d == rest \div p
           v == NumberOf(out, 10)
           more == Append(out, d)
           left == rest - d * p
           writes == d # 0 \/ out # <<>>
           next == AfterDivisor(so_far)
<1>1. rest \in Nat /\ out \in Seq(Nat) /\ p \in Nat
  BY DEF UdecStates
<1>2. out \in Seq(Int)
  <2>1. Nat \subseteq Int
    OBVIOUS
  <2> HIDE DEF out
  <2> QED
    BY <1>1, <2>1
<1>3. d \in 0..9 /\ left \in Nat /\ left < p /\ rest = d * p + left /\ p \div 10 \in Nat
  <2> HIDE DEF rest
  <2>1. d \in Nat
    BY <1>1, DivNat
  <2>2. rest = p * d + (rest % p) /\ rest % p \in 0..(p - 1)
    <3>1. rest \in Int
      BY <1>1
    <3> QED
      BY <3>1, DivMod, Zenon
  <2>3. d < 10
    <3>1. rest < p * 10
      BY <1>1 DEF rest, UdecFits
    <3> QED
      BY <1>1, <3>1, DivLess
  <2> HIDE DEF d
  <2>4. d * p \in Nat /\ p * d = d * p
    BY <1>1, <2>1
  <2>5. left = rest % p
    BY <1>1, <2>2, <2>4
  <2> QED
    BY <1>1, <2>1, <2>2, <2>3, <2>4, <2>5
<1>4. /\ next = [divisor |-> p \div 10, rest |-> left, out |-> next.out]
      /\ next.divisor = p \div 10 /\ next.rest = left
      /\ next.out = IF writes THEN more ELSE out
  BY DEF AfterDivisor
<1>5. word = v * (10 * p) + rest
  BY DEF UdecFits
<1>6. v \in Int /\ NumberOf(more, 10) = v * 10 + d
  <2> HIDE DEF d, out
  <2> QED
    BY <1>2, <1>3, OneMoreDigit
<1>7. out = <<>> => v = 0
  <2> HIDE DEF out
  <2> QED
    BY NoDigits
<1>8. (\A j \in 1..Len(out) : out[j] \in 0..9) /\ (out # <<>> => out[1] # 0)
  BY DEF UdecFits
<1> HIDE DEF out, rest, d, v, left, next
<1>9. /\ more \in Seq(Nat)
      /\ \A j \in 1..Len(more) : more[j] \in 0..9
      /\ d # 0 \/ out # <<>> => more[1] # 0
  <2>1. d \in Nat
    BY <1>3
  <2>2. more \in Seq(Nat) /\ Len(more) = Len(out) + 1 /\ more[Len(out) + 1] = d
        /\ \A j \in 1..Len(out) : more[j] = out[j]
    BY <1>1, <2>1
  <2>3. Len(out) \in Nat /\ (out = <<>> <=> Len(out) = 0)
    BY <1>1
  <2> HIDE DEF more
  <2>4. ASSUME NEW j \in 1..Len(more) PROVE more[j] \in 0..9
    <3>1. j \in 1..Len(out) \/ j = Len(out) + 1
      BY <2>2, <2>3
    <3> QED
      BY <1>3, <1>8, <2>2, <3>1
  <2>5. CASE out = <<>>
    BY <2>2, <2>3, <2>4, <2>5
  <2>6. CASE out # <<>>
    <3>1. 1 \in 1..Len(out)
      BY <2>3, <2>6
    <3> QED
      BY <1>8, <2>2, <2>4, <2>6, <3>1
  <2> QED
    BY <2>5, <2>6
<1>10. v * (10 * p) = (v * 10) * p /\ (v * 10 + d) * p = (v * 10) * p + d * p
  BY <1>1, <1>3, <1>6
<1> HIDE DEF more
<1>11. CASE writes
  <2>1. word = (v * 10 + d) * p + left
    <3> DEFINE u == (v * 10) * p
               w == d * p
    <3>0. v * 10 \in Int /\ d \in Int /\ p \in Int
      BY <1>1, <1>3, <1>6
    <3>1. u \in Int /\ w \in Int
      BY <3>0
    <3>2. word = u + rest /\ rest = w + left /\ (v * 10 + d) * p = u + w
      BY <1>3, <1>5, <1>10
    <3> HIDE DEF u, w
    <3> QED
      BY <1>1, <1>3, <3>1, <3>2
  <2>2. next.out = more
    BY <1>4, <1>11
  <2> HIDE DEF writes
  <2>3. next \in UdecStates
    BY <1>3, <1>4, <1>9, <2>2 DEF UdecStates
  <2>4. more[1] # 0
    BY <1>9, <1>11 DEF writes
  <2>5. UdecFits(next, word, p)
    BY <1>3, <1>4, <1>6, <1>9, <2>1, <2>2, <2>4 DEF UdecFits
  <2> QED
    BY <1>4, <2>3, <2>5 DEF next
<1>12. CASE ~writes
  <2>1. d = 0 /\ out = <<>> /\ v = 0
    BY <1>7, <1>12
  <2>2. word = v * p + left
    BY <1>1, <1>3, <1>5, <2>1
  <2>3. next.out = out
    BY <1>4, <1>12
  <2> HIDE DEF writes
  <2>4. next \in UdecStates
    BY <1>1, <1>3, <1>4, <2>3 DEF UdecStates
  <2>5. UdecFits(next, word, p)
    BY <1>3, <1>4, <1>8, <2>2, <2>3 DEF UdecFits, v
  <2> QED
    BY <1>4, <2>4, <2>5 DEF next
<1> QED
  BY <1>11, <1>12

LEMMA UdecStaysGood ==
  ASSUME NEW word \in Words, NEW t, UdecTurns(t, word)
  PROVE  \A i \in 0..UDEC_DIGITS : UdecGood(t, word, i)
<1> DEFINE n == UDEC_DIGITS
           T == {i \in Nat : i <= n => UdecGood(t, word, i)}
<1>1. n \in Nat \ {0} /\ word \in Nat /\ word < power10[n]
  <2> DEFINE top == pow2[WORD_BITS]
  <2>1. top \in Nat /\ power10[n] \in Nat /\ n \in Nat \ {0} /\ top <= power10[n]
    BY PrintingAssumption, PowIs, Power10Is
  <2>2. word \in 0..(top - 1)
    BY DEF Words
  <2> HIDE DEF top
  <2> QED
    BY <2>1, <2>2
<1>2. UdecGood(t, word, 0)
  <2>1. t[0] = UdecStart(word)
    BY DEF UdecTurns
  <2>2. n - 1 \in Nat /\ n - 1 - 0 = n - 1 /\ n - 0 = n
    BY <1>1
  <2>3. TOP_DIVISOR = power10[n - 1] /\ power10[n - 1] \in Nat /\ power10[n] \in Nat
    BY <1>1, <2>2, Power10Is DEF TOP_DIVISOR
  <2>4. <<>> \in Seq(Nat) /\ Len(<<>>) = 0
    OBVIOUS
  <2>5. t[0] \in UdecStates /\ t[0].divisor = power10[n - 1] /\ t[0].rest = word
        /\ t[0].out = <<>>
    BY <1>1, <2>1, <2>3, <2>4 DEF UdecStart, UdecStates
  <2>6. NumberOf(t[0].out, 10) = 0
    BY <2>5, NoDigits
  <2>7. word = 0 * power10[n] + word
    BY <1>1, <2>3
  <2> QED
    BY <1>1, <2>2, <2>4, <2>5, <2>6, <2>7 DEF UdecGood, UdecFits
<1>3. ASSUME NEW i \in Nat, i + 1 <= n, UdecGood(t, word, i) PROVE UdecGood(t, word, i + 1)
  <2> DEFINE k == n - 1 - i
             p == power10[k]
  <2>1. k \in Nat /\ n - i = k + 1 /\ n - (i + 1) = k /\ i < n /\ n - 1 - (i + 1) = k - 1
    BY <1>1, <1>3
  <2>2. p \in Nat \ {0} /\ power10[k + 1] = 10 * p
    BY <2>1, Power10Is
  <2>3. i + 1 \in 1..n /\ (i + 1) - 1 = i
    BY <1>1, <1>3
  <2> HIDE DEF p
  <2> DEFINE so_far == t[i]
  <2>4. so_far \in UdecStates /\ so_far.divisor = p /\ UdecFits(so_far, word, 10 * p)
    BY <1>3, <2>1, <2>2 DEF UdecGood, p
  <2>5. t[i + 1] = AfterDivisor(so_far)
    <3>1. so_far.divisor # 0
      BY <2>2, <2>4
    <3> QED
      BY <2>3, <3>1 DEF UdecTurns
  <2> HIDE DEF so_far
  <2>6. /\ t[i + 1] \in UdecStates /\ t[i + 1].divisor = p \div 10
        /\ UdecFits(t[i + 1], word, p)
    <3>1. word \in Nat /\ p \in Nat \ {0} /\ so_far \in UdecStates
          /\ so_far.divisor = p /\ UdecFits(so_far, word, 10 * p)
      BY <1>1, <2>2, <2>4
    <3>2. /\ AfterDivisor(so_far) \in UdecStates
          /\ AfterDivisor(so_far).divisor = p \div 10
          /\ UdecFits(AfterDivisor(so_far), word, p)
      BY ONLY <3>1, UdecTurn, Zenon
    <3> QED
      BY <2>5, <3>2
  <2>7. i + 1 < n => p \div 10 = power10[k - 1]
    <3> SUFFICES ASSUME i + 1 < n PROVE p \div 10 = power10[k - 1]
      OBVIOUS
    <3> DEFINE q == power10[k - 1]
    <3>1. k - 1 \in Nat /\ (k - 1) + 1 = k
      BY <1>1
    <3>2. q \in Nat /\ p = 10 * q
      BY <3>1, Power10Is DEF p
    <3> HIDE DEF q, p
    <3>3. p \div 10 = q
      BY <3>2
    <3> QED
      BY <3>3 DEF q
  <2> HIDE DEF k
  <2>8. i + 1 < n => t[i + 1].divisor = power10[n - 1 - (i + 1)]
    BY <2>1, <2>6, <2>7
  <2> QED
    BY <2>1, <2>6, <2>8 DEF UdecGood, p
<1>4. 0 \in T /\ \A i \in Nat : i \in T => i + 1 \in T
  BY <1>1, <1>2, <1>3
<1>5. Nat \subseteq T
  <2> HIDE DEF T
  <2> QED
    BY <1>4, InductionOnNat
<1> QED
  BY <1>1, <1>5

LEMMA UdecCloses ==
  ASSUME NEW so_far \in UdecStates, so_far.divisor # 0
  PROVE  AfterDivisor(so_far) \in UdecStates
<1> DEFINE p == so_far.divisor
           rest == so_far.rest
           out == so_far.out
           d == rest \div p
<1>1. p \in Nat \ {0} /\ rest \in Nat /\ out \in Seq(Nat)
  BY DEF UdecStates
<1>2. AfterDivisor(so_far) = [divisor |-> p \div 10, rest |-> rest - d * p,
                              out |-> IF d # 0 \/ out # <<>> THEN Append(out, d) ELSE out]
  BY DEF AfterDivisor
<1> HIDE DEF p, rest, out
<1>3. d \in Nat /\ p \div 10 \in Nat
  BY <1>1, DivNat
<1>4. rest = p * d + (rest % p) /\ rest % p \in 0..(p - 1)
  <2>1. rest \in Int
    BY <1>1
  <2> QED
    BY <1>1, <2>1, DivMod, Zenon
<1> HIDE DEF d
<1>5. d * p \in Nat /\ p * d = d * p
  BY <1>1, <1>3
<1>6. rest - d * p \in Nat
  BY <1>1, <1>4, <1>5
<1>7. (IF d # 0 \/ out # <<>> THEN Append(out, d) ELSE out) \in Seq(Nat)
  BY <1>1, <1>3
<1> QED
  BY <1>2, <1>3, <1>6, <1>7 DEF UdecStates

(* Every word prints as its numeral. *)
LEMMA UdecReads ==
  ASSUME NEW word \in Words
  PROVE  ReadsAs(print_udec(word), 10, word) /\ print_udec(word) \in Seq(Nat)
<1> DEFINE n == UDEC_DIGITS
           a == UdecStart(word)
           S == UdecStates
           Is(t) == t = [i \in 0..UDEC_DIGITS |->
                           IF i = 0 THEN [divisor |-> TOP_DIVISOR, rest |-> word, out |-> <<>>]
                             ELSE AfterDivisor(t[i - 1])]
           g == [q \in Nat \X S |-> IF q[2].divisor # 0 THEN AfterDivisor(q[2]) ELSE a]
           turn == CHOOSE t : Is(t)
           out == turn[n].out
<1>1. n \in Nat /\ n # 0 /\ a \in S
  <2>1. UDEC_DIGITS - 1 \in Nat /\ UDEC_DIGITS \in Nat \ {0}
    BY PrintingAssumption
  <2>2. TOP_DIVISOR \in Nat
    BY <2>1, Power10Is DEF TOP_DIVISOR
  <2>3. word \in Nat
    BY PowIs, PrintingAssumption DEF Words
  <2>4. <<>> \in Seq(Nat)
    OBVIOUS
  <2> QED
    BY <2>1, <2>2, <2>3, <2>4 DEF UdecStart, UdecStates
<1>2. g \in [Nat \X S -> S]
  <2>1. ASSUME NEW so_far \in S
        PROVE  (IF so_far.divisor # 0 THEN AfterDivisor(so_far) ELSE a) \in S
    BY <1>1, UdecCloses
  <2> HIDE DEF a, S
  <2> QED
    BY <2>1
<1>3. print_udec(word) = IF out = <<>> THEN <<0>> ELSE out
  BY DEF print_udec
<1> HIDE DEF S
<1>4. \E t : Is(t)
  <2>1. PICK t \in [0..n -> S] : Recurs(t, a, g, n)
    <3> HIDE DEF g, n, a
    <3> QED
      BY <1>1, <1>2, RecursionTo
  <2>2. ASSUME NEW i \in 1..n
        PROVE  t[i] = IF t[i - 1].divisor # 0 THEN AfterDivisor(t[i - 1]) ELSE a
    <3>1. t[i - 1] \in S /\ i \in Nat
      <4> HIDE DEF n
      <4> QED
        BY <1>1, <2>1
    <3>2. t[i] = g[<<i, t[i - 1]>>]
      <4> HIDE DEF g, n, a
      <4> QED
        BY <2>1 DEF Recurs
    <3> HIDE DEF a
    <3> QED
      BY <3>1, <3>2
  <2>3. t[0] = a
    BY <2>1 DEF Recurs
  <2>4. UdecTurns(t, word)
    BY <2>2, <2>3 DEF UdecTurns
  <2>5. ASSUME NEW i \in 1..n PROVE t[i - 1].divisor # 0
    <3>1. i - 1 \in 0..n /\ i - 1 < n /\ n - 1 - (i - 1) \in Nat
      BY <1>1
    <3>2. UdecGood(t, word, i - 1)
      BY <2>4, <3>1, UdecStaysGood
    <3>3. t[i - 1].divisor = power10[n - 1 - (i - 1)]
      BY <3>1, <3>2 DEF UdecGood
    <3> QED
      BY <3>1, <3>3, Power10Is
  <2>6. Is(t)
    <3>1. \A i \in 1..n : t[i] = AfterDivisor(t[i - 1])
      BY <2>2, <2>5
    <3>2. t[0] = [divisor |-> TOP_DIVISOR, rest |-> word, out |-> <<>>]
      BY <2>3 DEF UdecStart
    <3> QED
      BY <2>1, <3>1, <3>2
  <2> QED
    BY <2>6
<1>5. Is(turn)
  <2> HIDE DEF Is
  <2> QED
    BY <1>4
<1> HIDE DEF turn
<1>6. UdecTurns(turn, word)
  BY <1>1, <1>5 DEF UdecTurns, UdecStart
<1> HIDE DEF Is
<1>7. /\ out \in Seq(Nat)
      /\ \A j \in 1..Len(out) : out[j] \in 0..9
      /\ out # <<>> => out[1] # 0
      /\ word = NumberOf(out, 10)
  <2>1. n \in 0..UDEC_DIGITS /\ n - n = 0
    BY <1>1
  <2>2. turn[n] \in UdecStates /\ UdecFits(turn[n], word, power10[0])
    BY <1>6, <2>1, UdecStaysGood DEF UdecGood
  <2>3. out \in Seq(Nat) /\ turn[n].rest \in Nat
    BY <2>2 DEF UdecStates
  <2>4. turn[n].rest < 1 /\ word = NumberOf(out, 10) * 1 + turn[n].rest
    BY <2>2, Power10Is DEF UdecFits
  <2>5. NumberOf(out, 10) \in Int
    <3>1. Nat \subseteq Int
      OBVIOUS
    <3>2. out \in Seq(Int)
      BY ONLY <2>3, <3>1, MoreValues
    <3> HIDE DEF out
    <3> QED
      BY <3>2, OneMoreDigit
  <2>6. word = NumberOf(out, 10)
    BY <2>3, <2>4, <2>5
  <2> QED
    BY <2>2, <2>3, <2>6 DEF UdecFits
<1> HIDE DEF out
<1>8. CASE out # <<>>
  <2>1. DOMAIN out = 1..Len(out)
    BY <1>7
  <2> QED
    BY <1>3, <1>7, <1>8, <2>1 DEF ReadsAs, IsNumeral
<1>9. CASE out = <<>>
  <2>1. word = 0
    BY <1>7, <1>9, NoDigits
  <2>2. <<0>> = Append(<<>>, 0) /\ <<>> \in Seq(Int) /\ <<0>> \in Seq(Nat)
    OBVIOUS
  <2>3. NumberOf(<<0>>, 10) = 0
    <3>1. 10 \in Int /\ 0 \in Int
      OBVIOUS
    <3>2. NumberOf(<<>>, 10) = 0
      BY <3>1, NoDigits, Zenon
    <3>3. NumberOf(Append(<<>>, 0), 10) = NumberOf(<<>>, 10) * 10 + 0
      BY <2>2, <3>1, OneMoreDigit, Zenon
    <3> QED
      BY <2>2, <3>2, <3>3
  <2>4. IsNumeral(<<0>>, 10)
    BY DEF IsNumeral
  <2> QED
    BY <1>3, <1>9, <2>1, <2>2, <2>3, <2>4 DEF ReadsAs
<1> QED
  BY <1>8, <1>9

(* print_dec: a minus for what is negative, and the numeral of the rest.    *)
LEMMA DecReads ==
  ASSUME printed \in Words
  PROVE  LET out == print_dec(Signed) IN
           IF Signed < 0 THEN out[1] = Minus /\ ReadsAs(Tail(out), 10, -Signed)
                         ELSE ReadsAs(out, 10, Signed)
<1> DEFINE half == pow2[WORD_BITS - 1]
           top == pow2[WORD_BITS]
<1>1. half \in Nat \ {0} /\ top = 2 * half
  <2>1. WORD_BITS - 1 \in Nat /\ (WORD_BITS - 1) + 1 = WORD_BITS
    BY PrintingAssumption
  <2> QED
    BY <2>1, PowIs
<1>2. Words = 0..(top - 1) /\ Signed = IF printed < half THEN printed ELSE printed - top
  BY DEF Words, Signed
<1>3. print_dec(Signed) = IF Signed < 0 THEN <<Minus>> \o print_udec((-Signed) % top)
                                        ELSE print_udec(Signed)
  BY DEF print_dec
<1> HIDE DEF half, top
<1>4. printed \in 0..(top - 1)
  BY <1>2
<1>5. CASE printed < half
  <2>1. Signed = printed /\ ~(Signed < 0) /\ print_dec(Signed) = print_udec(Signed)
    BY <1>1, <1>2, <1>3, <1>4, <1>5
  <2> QED
    BY <2>1, UdecReads
<1>6. CASE ~(printed < half)
  <2> DEFINE word == top - printed
             u == print_udec(word)
  <2>1. Signed < 0 /\ -Signed = word /\ word \in 0..(top - 1) /\ word % top = word
    BY <1>1, <1>2, <1>4, <1>6
  <2>2. print_dec(Signed) = <<Minus>> \o u
    BY <1>3, <2>1
  <2>3. ReadsAs(u, 10, word) /\ u \in Seq(Nat)
    <3> HIDE DEF word
    <3> QED
      BY <1>2, <2>1, UdecReads
  <2> HIDE DEF u, word
  <2>4. Tail(<<Minus>> \o u) = u /\ (<<Minus>> \o u)[1] = Minus
    <3>1. u \in Seq(Int)
      <4>1. Nat \subseteq Int
        OBVIOUS
      <4> QED
        BY ONLY <2>3, <4>1, MoreValues
    <3>2. Minus \in Int
      BY DEF Minus
    <3> QED
      BY <3>1, <3>2
  <2> QED
    BY <2>1, <2>2, <2>3, <2>4
<1> QED
  BY <1>5, <1>6

(* print_hex and print_bin.  A number is its quotient and its remainder.    *)
LEMMA ModSplit ==
  ASSUME NEW m \in Nat \ {0}, NEW k \in Nat \ {0}, NEW x \in Int
  PROVE  x % (m * k) = ((x \div m) % k) * m + (x % m)
<1> DEFINE q == x \div m
           u == q \div k
           y == q % k
           z == x % m
<1>1. q \in Int /\ z \in 0..(m - 1) /\ x = m * q + z
  BY DivMod
<1>2. u \in Int /\ y \in 0..(k - 1) /\ q = k * u + y
  <2> HIDE DEF q
  <2> QED
    BY <1>1, DivMod
<1> HIDE DEF q, u, y, z
<1>3. m * k \in Nat \ {0} /\ m * y \in Nat /\ m * y <= m * k - m
  BY <1>2
<1>4. m * y + z \in 0..(m * k - 1)
  <2> DEFINE a == m * k
             b == m * y
  <2>1. a \in Nat /\ b \in Nat /\ b <= a - m
    BY <1>3
  <2> HIDE DEF a, b
  <2>2. b + z \in 0..(a - 1)
    BY <1>1, <2>1
  <2> QED
    BY <2>2 DEF a, b
<1>5. x = (m * k) * u + (m * y + z)
  <2>1. m * (k * u + y) = (m * k) * u + m * y
    BY <1>2
  <2> DEFINE a == (m * k) * u
             b == m * y
  <2>2. a \in Int /\ b \in Int
    <3>1. m * k \in Int
      BY <1>3
    <3> QED
      BY <1>2, <3>1
  <2>3. x = (a + b) + z
    BY <1>1, <1>2, <2>1
  <2> HIDE DEF a, b
  <2>4. x = a + (b + z)
    BY <1>1, <2>2, <2>3
  <2> QED
    BY <2>4 DEF a, b
<1>6. ((m * k) * u + (m * y + z)) % (m * k) = m * y + z
  BY <1>2, <1>3, <1>4, DivModUnique, Zenon
<1>7. m * y = y * m
  BY <1>2
<1> QED
  BY <1>5, <1>6, <1>7 DEF q, y, z

LEMMA FixedReads ==
  ASSUME NEW word \in Nat, NEW n \in Nat, NEW w \in Nat
  PROVE  NumberOf([i \in 1..n |-> (word \div pow2[w * (n - i)]) % pow2[w]], pow2[w])
           = word % pow2[w * n]
<1> DEFINE z == pow2[w]
           digits == [i \in 1..n |-> (word \div pow2[w * (n - i)]) % z]
           f == [i \in 0..n |-> (word \div pow2[w * (n - i)]) % pow2[w * i]]
<1>1. z \in Nat \ {0}
  BY PowIs
<1>2. ASSUME NEW i \in 0..n
      PROVE  /\ pow2[w * (n - i)] \in Nat \ {0} /\ pow2[w * i] \in Nat \ {0}
             /\ word \div pow2[w * (n - i)] \in Nat
  <2>1. n - i \in Nat /\ i \in Nat
    OBVIOUS
  <2>2. w * (n - i) \in Nat /\ w * i \in Nat
    BY <2>1
  <2>3. pow2[w * (n - i)] \in Nat \ {0} /\ pow2[w * i] \in Nat \ {0}
    BY <2>2, PowIs
  <2> QED
    BY <2>3, DivNat
<1>3. digits \in Seq(Int) /\ Len(digits) = n
  <2>1. ASSUME NEW i \in 1..n PROVE (word \div pow2[w * (n - i)]) % z \in Int
    <3>1. word \div pow2[w * (n - i)] \in Nat
      BY <1>2
    <3> HIDE DEF z
    <3> QED
      BY <1>1, <3>1
  <2> HIDE DEF z
  <2> QED
    BY <2>1
<1>4. f[0] = 0
  <2>1. f[0] = (word \div pow2[w * (n - 0)]) % pow2[w * 0]
    BY <1>1
  <2>2. w * 0 = 0 /\ pow2[0] = 1 /\ word \div pow2[w * (n - 0)] \in Nat
    BY SMTT(20), <1>2, PowIs
  <2> DEFINE q == word \div pow2[w * (n - 0)]
  <2> HIDE DEF f, q
  <2>3. q % 1 = 0
    BY <2>2 DEF q
  <2> QED
    BY <2>1, <2>2, <2>3 DEF q
<1>5. ASSUME NEW i \in 1..n PROVE f[i] = f[i - 1] * z + digits[i]
  <2> DEFINE p == pow2[w * (n - i)]
             a == word \div p
             m == pow2[w * (i - 1)]
  <2>1. i - 1 \in Nat /\ n - i \in Nat /\ i \in 0..n /\ i - 1 \in 0..n
    OBVIOUS
  <2>2. w * (n - i) \in Nat /\ w * (i - 1) \in Nat
    BY <2>1
  <2>3. w * (n - (i - 1)) = w * (n - i) + w /\ w * i = w + w * (i - 1)
    <3>1. n - (i - 1) = (n - i) + 1 /\ i = 1 + (i - 1)
      BY <2>1
    <3>2. w * ((n - i) + 1) = w * (n - i) + w /\ w * (1 + (i - 1)) = w + w * (i - 1)
      BY <2>1
    <3> QED
      BY <3>1, <3>2
  <2>4. pow2[w * (n - (i - 1))] = p * z /\ pow2[w * i] = z * m
    <3> DEFINE above == w * (n - i)  below == w * (i - 1)
    <3>1. pow2[above + w] = pow2[above] * pow2[w]
      <4> HIDE DEF above
      <4> QED
        BY <2>2, PowAdds DEF above
    <3>2. pow2[w + below] = pow2[w] * pow2[below]
      <4> HIDE DEF below
      <4> QED
        BY <2>2, PowAdds DEF below
    <3> QED
      BY <2>3, <3>1, <3>2, Zenon
  <2>5. p \in Nat \ {0} /\ m \in Nat \ {0} /\ a \in Nat
    BY <1>2, <2>1, <2>2, PowIs
  <2>6. f[i] = a % (z * m) /\ f[i - 1] = (word \div (p * z)) % m /\ digits[i] = a % z
    BY <2>1, <2>4
  <2> HIDE DEF f, digits, p, z, m
  <2>7. word \div (p * z) = a \div z
    <3>1. word \in Int
      OBVIOUS
    <3> QED
      BY <1>1, <2>5, <3>1, DivDiv
  <2> HIDE DEF a
  <2>8. a % (z * m) = ((a \div z) % m) * z + (a % z)
    <3>1. a \in Int
      BY <2>5
    <3> QED
      BY <1>1, <2>5, <3>1, ModSplit, Zenon
  <2> QED
    BY <2>6, <2>7, <2>8
<1>6. f[n] = word % pow2[w * n]
  <2>1. n - n = 0 /\ w * 0 = 0 /\ pow2[0] = 1 /\ n \in 0..n
    BY PowIs
  <2>2. f[n] = (word \div pow2[w * (n - n)]) % pow2[w * n]
    BY <2>1
  <2>3. word \div 1 = word
    OBVIOUS
  <2> HIDE DEF f
  <2> QED
    BY <2>1, <2>2, <2>3
<1> HIDE DEF f, digits, z
<1>7. Horner(f, digits, z)
  BY <1>3, <1>4, <1>5 DEF Horner
<1>8. NumberOf(digits, z) = f[n]
  <2>1. z \in Int
    BY <1>1
  <2> QED
    BY <1>3, <1>7, <2>1, NumberOfIs
<1> QED
  BY <1>6, <1>8 DEF digits, z

(* utoa.  What is left is at least halved by each division, so that there   *)
(* are no more digits than bits; and it is the number that the digits not   *)
(* yet written stand for.                                                  *)
UtoaRest(t, word, base) ==
  t[0] = word /\ \A i \in 1..WORD_BITS : t[i] = t[i - 1] \div base

LEMMA UtoaRestExists ==
  ASSUME NEW word \in Nat, NEW base \in Nat \ {0}
  PROVE  \E t : t = [i \in 0..WORD_BITS |-> IF i = 0 THEN word ELSE t[i - 1] \div base]
<1> DEFINE n == WORD_BITS
           g == [q \in Nat \X Nat |-> q[2] \div base]
<1>1. n \in Nat
  BY PrintingAssumption
<1>2. g \in [Nat \X Nat -> Nat]
  <2>1. ASSUME NEW c \in Nat PROVE c \div base \in Nat
    BY DivNat
  <2> QED
    BY <2>1
<1>3. PICK t \in [0..n -> Nat] : Recurs(t, word, g, n)
  <2> HIDE DEF g, n
  <2> QED
    BY <1>1, <1>2, RecursionTo
<1>4. ASSUME NEW i \in 1..n PROVE t[i] = t[i - 1] \div base
  <2>1. t[i - 1] \in Nat /\ i \in Nat
    <3> HIDE DEF n
    <3> QED
      BY <1>1, <1>3
  <2>2. t[i] = g[<<i, t[i - 1]>>]
    <3> HIDE DEF g, n
    <3> QED
      BY <1>3 DEF Recurs
  <2> QED
    BY <2>1, <2>2
<1>5. t[0] = word
  BY <1>3 DEF Recurs
<1>6. t = [i \in 0..n |-> IF i = 0 THEN word ELSE t[i - 1] \div base]
  BY <1>3, <1>4, <1>5
<1> QED
  BY <1>6

LEMMA UtoaRestFalls ==
  ASSUME NEW word \in Words, NEW base \in Nat, base >= 2, NEW t, UtoaRest(t, word, base)
  PROVE  \A i \in 0..WORD_BITS : t[i] \in Nat /\ t[i] < pow2[WORD_BITS - i]
<1> DEFINE n == WORD_BITS
           Good(i) == t[i] \in Nat /\ t[i] < pow2[n - i]
           T == {i \in Nat : i <= n => Good(i)}
<1>1. n \in Nat
  BY PrintingAssumption
<1>2. Good(0)
  <2> DEFINE top == pow2[n]
  <2>1. top \in Nat /\ n - 0 = n
    BY <1>1, PowIs
  <2>2. word \in 0..(top - 1) /\ t[0] = word
    BY DEF Words, UtoaRest
  <2> HIDE DEF top
  <2>3. word \in Nat /\ word < top
    BY <2>1, <2>2
  <2> QED
    BY <2>1, <2>2, <2>3 DEF top
<1>3. ASSUME NEW i \in Nat, Good(i), i + 1 <= n PROVE Good(i + 1)
  <2> DEFINE half == pow2[n - (i + 1)]
             c == t[i]
  <2>1. n - (i + 1) \in Nat /\ n - i = (n - (i + 1)) + 1 /\ i + 1 \in 1..n /\ (i + 1) - 1 = i
    BY <1>1, <1>3
  <2>2. half \in Nat \ {0} /\ pow2[n - i] = 2 * half
    BY <2>1, PowIs
  <2>3. t[i + 1] = c \div base
    BY <2>1 DEF UtoaRest
  <2>4. c \in Nat /\ c < 2 * half
    BY <1>3, <2>2
  <2> HIDE DEF half, c
  <2>5. c < base * half
    <3>1. base * half >= 2 * half
      BY <2>2
    <3>2. base * half \in Int
      BY <2>2
    <3> QED
      BY <2>2, <2>4, <3>1, <3>2
  <2>6. c \div base < half
    <3>1. base \in Nat \ {0} /\ half \in Int /\ c \in Int
      BY <2>2, <2>4
    <3> QED
      BY <2>5, <3>1, DivLess
  <2>7. c \div base \in Nat
    BY <2>4, DivNat
  <2> QED
    BY <2>3, <2>6, <2>7 DEF half
<1> HIDE DEF Good
<1>4. 0 \in T /\ \A i \in Nat : i \in T => i + 1 \in T
  BY <1>1, <1>2, <1>3
<1>5. Nat \subseteq T
  <2> HIDE DEF T
  <2> QED
    BY <1>4, InductionOnNat
<1> QED
  BY <1>1, <1>5 DEF Good

LEMMA UtoaReads ==
  ASSUME NEW word \in Words, NEW base \in 2..36
  PROVE  ReadsAs(utoa(word, base), base, word)
<1> DEFINE W == WORD_BITS
           Is(t) == t = [i \in 0..WORD_BITS |-> IF i = 0 THEN word ELSE t[i - 1] \div base]
           rest == CHOOSE t : Is(t)
           Ends(i) == rest[i] = 0 /\ \A j \in 1..(i - 1) : rest[j] # 0
           n == CHOOSE i \in 1..WORD_BITS : Ends(i)
           digits == [i \in 1..n |-> rest[n - i] % base]
           f == [i \in 0..n |-> rest[n - i]]
<1>1. W \in Nat /\ W # 0 /\ word \in Nat /\ base \in Nat \ {0} /\ base >= 2 /\ base \in Int
  BY PrintingAssumption, PowIs DEF Words
<1>2. utoa(word, base) = digits
  BY SMTT(20) DEF utoa
<1>3. Is(rest)
  <2>1. \E t : Is(t)
    BY <1>1, UtoaRestExists
  <2> HIDE DEF Is
  <2> QED
    BY <2>1
<1> HIDE DEF rest
<1>4. UtoaRest(rest, word, base)
  BY <1>1, <1>3 DEF UtoaRest
<1> HIDE DEF Is
<1>5. ASSUME NEW i \in 0..W PROVE rest[i] \in Nat
  BY <1>1, <1>4, UtoaRestFalls
<1>6. rest[W] = 0
  <2>1. W \in 0..W /\ W - W = 0
    BY <1>1
  <2> QED
    BY <1>1, <1>4, <2>1, UtoaRestFalls, PowIs
<1>7. n \in 1..W /\ Ends(n)
  <2> DEFINE Z == {i \in 1..W : rest[i] = 0}
  <2>1. W \in Z
    BY <1>1, <1>6
  <2>2. PICK i \in Z : \A j \in Z : i <= j
    <3>1. Z \in SUBSET Nat /\ Z # {}
      BY <2>1
    <3> HIDE DEF Z
    <3> QED
      BY <3>1, LeastNatural
  <2>3. i \in 1..W /\ rest[i] = 0
    BY <2>2
  <2>4. ASSUME NEW j \in 1..(i - 1) PROVE rest[j] # 0
    <3>1. j \in 1..W /\ ~(i <= j)
      BY <1>1, <2>3
    <3> QED
      BY <2>2, <3>1
  <2>5. Ends(i)
    BY <2>3, <2>4
  <2> HIDE DEF Ends
  <2> QED
    BY <2>3, <2>5
<1>8. n \in Nat /\ n \in 1..W /\ rest[n] = 0 /\ \A j \in 1..(n - 1) : rest[j] # 0
  BY <1>7
<1> HIDE DEF Ends, n
<1>9. ASSUME NEW i \in 1..n
      PROVE  /\ rest[n - i] \in Nat
             /\ rest[n - (i - 1)] = rest[n - i] \div base
  <2>1. n - i \in 0..W /\ n - (i - 1) \in 1..W /\ (n - (i - 1)) - 1 = n - i
    BY <1>1, <1>8
  <2> QED
    BY <1>4, <1>5, <2>1 DEF UtoaRest
<1>10. ASSUME NEW i \in 1..n
       PROVE  /\ rest[n - i] % base \in 0..(base - 1)
              /\ rest[n - i] = (rest[n - i] \div base) * base + (rest[n - i] % base)
  <2> DEFINE c == rest[n - i]
             q == c \div base
  <2>1. c \in Int
    BY <1>9
  <2> HIDE DEF c
  <2>2. q \in Int /\ c % base \in 0..(base - 1) /\ c = base * q + (c % base)
    BY <1>1, <2>1, DivMod, Zenon
  <2> HIDE DEF q
  <2>3. base * q = q * base
    BY <1>1, <2>2
  <2> QED
    BY <2>2, <2>3 DEF q, c
<1>11. /\ digits \in Seq(Int) /\ Len(digits) = n /\ DOMAIN digits = 1..n
       /\ \A i \in 1..n : digits[i] = rest[n - i] % base
  <2>1. \A i \in 1..n : rest[n - i] % base \in Int
    BY <1>1, <1>10
  <2> QED
    BY <1>8, <2>1
<1>12. f[0] = 0 /\ f[n] = word
  <2>1. n - 0 = n /\ n - n = 0 /\ 0 \in 0..n /\ n \in 0..n
    BY <1>8
  <2> QED
    BY <1>4, <1>8, <2>1 DEF UtoaRest
<1>13. ASSUME NEW i \in 1..n PROVE f[i] = f[i - 1] * base + digits[i]
  <2>1. f[i] = rest[n - i] /\ f[i - 1] = rest[n - (i - 1)]
    BY <1>8
  <2> HIDE DEF f, digits
  <2> QED
    BY <1>9, <1>10, <1>11, <2>1
<1> HIDE DEF f, digits
<1>14. NumberOf(digits, base) = word
  <2>1. Horner(f, digits, base)
    BY <1>11, <1>12, <1>13 DEF Horner
  <2> QED
    BY <1>1, <1>11, <1>12, <2>1, NumberOfIs
<1>15. Len(digits) > 1 => digits[1] # 0
  <2> SUFFICES ASSUME n > 1 PROVE digits[1] # 0
    BY <1>11
  <2> DEFINE c == rest[n - 1]
  <2>1. n - 1 \in 1..(n - 1) /\ 1 \in 1..n /\ n - (1 - 1) = n
    BY <1>8
  <2>2. c \in Nat /\ c # 0 /\ c \div base = 0 /\ digits[1] = c % base
        /\ c = (c \div base) * base + (c % base) /\ c % base \in Int
    <3>1. PICK i \in 1..n : i = 1
      BY <2>1
    <3>2. /\ rest[n - i] \in Nat /\ rest[n - (i - 1)] = rest[n - i] \div base
          /\ rest[n - i] % base \in 0..(base - 1)
          /\ rest[n - i] = (rest[n - i] \div base) * base + (rest[n - i] % base)
      BY <1>9, <1>10
    <3>3. n - i = n - 1 /\ n - (i - 1) = n
      BY <1>8, <3>1
    <3>4. \A d \in 0..(base - 1) : d \in Int
      BY <1>1
    <3>5. c # 0
      BY <1>8, <2>1
    <3>6. digits[1] = c % base
      BY <1>11, <2>1
    <3> QED
      BY <1>8, <3>2, <3>3, <3>4, <3>5, <3>6
  <2> HIDE DEF c
  <2> QED
    BY <1>1, <2>2
<1>16. IsNumeral(digits, base)
  <2>1. digits # <<>>
    BY <1>8, <1>11
  <2> QED
    BY <1>10, <1>11, <1>15, <2>1 DEF IsNumeral
<1> QED
  BY <1>2, <1>14, <1>16 DEF ReadsAs

(* PrintsReadBack, for words of any width and any bases: whatever is        *)
(* printed reads as the number that was given, in decimal, hexadecimal,    *)
(* binary and the bases of utoa.                                           *)
THEOREM NumbersReadBack == PrintingSpec => []PrintsReadBack
<1>1. ASSUME printed \in Words PROVE PrintsReadBack
  <2>1. ReadsAs(print_udec(printed), 10, printed)
    BY <1>1, UdecReads
  <2>2. printed \in Nat
    BY <1>1, PowIs, PrintingAssumption DEF Words
  <2>3. ASSUME NEW n \in 1..(WORD_BITS \div 4)
        PROVE  NumberOf(print_hex(printed, n), 16) = printed % pow2[4 * n]
    <3>1. NumberOf([i \in 1..n |-> (printed \div pow2[4 * (n - i)]) % pow2[4]], pow2[4])
            = printed % pow2[4 * n]
      <4>1. n \in Nat /\ 4 \in Nat
        OBVIOUS
      <4> QED
        BY <2>2, <4>1, FixedReads, Zenon
    <3> QED
      BY <3>1, SmallPowers DEF print_hex
  <2>4. ASSUME NEW n \in 1..WORD_BITS
        PROVE  NumberOf(print_bin(printed, n), 2) = printed % pow2[n]
    <3> DEFINE One(k) == 1 * k
    <3>1. NumberOf([i \in 1..n |-> (printed \div pow2[One(n - i)]) % pow2[1]], pow2[1])
            = printed % pow2[One(n)]
      <4>1. n \in Nat /\ 1 \in Nat
        OBVIOUS
      <4> QED
        BY <2>2, <4>1, FixedReads, Zenon
    <3>2. One(n) = n /\ \A i \in 1..n : One(n - i) = n - i
      OBVIOUS
    <3> HIDE DEF One
    <3>3. [i \in 1..n |-> (printed \div pow2[One(n - i)]) % pow2[1]]
            = [i \in 1..n |-> (printed \div pow2[n - i]) % pow2[1]]
      BY <3>2
    <3> QED
      BY <3>1, <3>2, <3>3, SmallPowers DEF print_bin
  <2>5. ASSUME NEW base \in Bases
        PROVE  IF base \in 2..36 THEN ReadsAs(utoa(printed, base), base, printed)
                                 ELSE utoa(printed, base) = <<>>
    <3>1. CASE base \in 2..36
      BY <1>1, <3>1, UtoaReads
    <3>2. CASE base \notin 2..36
      <4>1. base \in Int
        BY PrintingAssumption
      <4>2. base < 2 \/ base > 36
        BY <3>2, <4>1
      <4> QED
        BY <3>2, <4>2 DEF utoa
    <3> QED
      BY <3>1, <3>2
  <2> QED
    BY <1>1, <2>1, <2>3, <2>4, <2>5, DecReads DEF PrintsReadBack
<1>2. PrintingInit => printed \in Words
  <2> DEFINE top == pow2[WORD_BITS]
  <2>1. top \in Nat \ {0}
    BY PrintingAssumption, PowIs
  <2> HIDE DEF top
  <2>2. 0 \in 0..(top - 1)
    BY <2>1
  <2> QED
    BY <2>2 DEF PrintingInit, Words, top
<1>3. printed \in Words /\ [NextNumber]_printed => (printed \in Words)'
  BY DEF NextNumber, Words
<1> QED
  BY <1>1, <1>2, <1>3, PTL DEF PrintingSpec

-----------------------------------------------------------------------------
(* The displays.  No two digits look alike.                                *)
LEMMA DigitsApart ==
  ASSUME NEW d \in 0..15
  PROVE  Seen(seg_table[d + 1]) = d
<1> DEFINE at == {i \in DOMAIN seg_table : seg_table[i] = seg_table[d + 1]}
<1>1. DOMAIN seg_table = 1..16
  BY DEF seg_table
<1>2. \A i, j \in 1..16 : seg_table[i] = seg_table[j] => i = j
  BY DEF seg_table
<1> HIDE DEF seg_table
<1>3. d + 1 \in 1..16
  OBVIOUS
<1>4. at = {d + 1}
  BY <1>1, <1>2, <1>3
<1>5. (CHOOSE i \in at : TRUE) = d + 1
  BY <1>4
<1>6. Seen(seg_table[d + 1]) = IF at = {} THEN -1 ELSE (CHOOSE i \in at : TRUE) - 1
  BY DEF Seen
<1> HIDE DEF at
<1> QED
  BY <1>4, <1>5, <1>6

(* A number reads as its digits do. *)
LEMMA DigitsRead ==
  ASSUME NEW base \in Nat, base <= 16, NEW value,
         NEW digit \in [Positions -> 0..(base - 1)],
         display' = [pos \in Positions |-> seg_table[digit[pos] + 1]],
         asked' = [kind |-> "number", base |-> base, value |-> value],
         NumberOf([i \in 1..NUM_DISPLAYS |-> digit[NUM_DISPLAYS - i]], base) = value
  PROVE  DisplaysRead'
<1>1. ASSUME NEW pos \in Positions PROVE Seen(display'[pos]) = digit[pos]
  <2>1. display'[pos] = seg_table[digit[pos] + 1] /\ digit[pos] \in 0..15
    BY SMTT(20)
  <2> QED
    BY <2>1, DigitsApart
<1>2. \A i \in 1..NUM_DISPLAYS : NUM_DISPLAYS - i \in Positions
  BY DEF NUM_DISPLAYS, Positions
<1>3. [i \in 1..NUM_DISPLAYS |-> Seen(display'[NUM_DISPLAYS - i])]
        = [i \in 1..NUM_DISPLAYS |-> digit[NUM_DISPLAYS - i]]
  BY <1>1, <1>2
<1>4. Reading(base)' = value
  BY <1>3 DEF Reading
<1>5. asked'.kind = "number" /\ asked'.base = base /\ asked'.value = value
  OBVIOUS
<1>6. \A pos \in Positions : Seen(display'[pos]) \in 0..(base - 1)
  BY <1>1
<1> QED
  BY <1>4, <1>5, <1>6 DEF DisplaysRead

LEMMA HexIsRead ==
  ASSUME NEW number \in Nat, display_hex(number)
  PROVE  DisplaysRead'
<1> DEFINE digit == [pos \in Positions |-> (number \div pow2[4 * pos]) % 16]
           value == number % pow2[4 * NUM_DISPLAYS]
<1>1. digit \in [Positions -> 0..15]
  <2> SUFFICES ASSUME NEW pos \in Positions
               PROVE  (number \div pow2[4 * pos]) % 16 \in 0..15
    OBVIOUS
  <2>1. 4 * pos \in Nat
    BY DEF Positions
  <2>2. number \div pow2[4 * pos] \in Nat
    BY <2>1, PowIs, DivNat
  <2> QED
    BY <2>2
<1>2. display' = [pos \in Positions |-> seg_table[digit[pos] + 1]]
      /\ asked' = [kind |-> "number", base |-> 16, value |-> value]
  BY DEF display_hex
<1>3. NumberOf([i \in 1..NUM_DISPLAYS |-> digit[NUM_DISPLAYS - i]], 16) = value
  <2>1. NumberOf([i \in 1..NUM_DISPLAYS |->
                    (number \div pow2[4 * (NUM_DISPLAYS - i)]) % pow2[4]], pow2[4])
          = number % pow2[4 * NUM_DISPLAYS]
    <3>1. NUM_DISPLAYS \in Nat /\ 4 \in Nat
      BY DEF NUM_DISPLAYS
    <3> QED
      BY <3>1, FixedReads, Zenon
  <2>2. \A i \in 1..NUM_DISPLAYS : NUM_DISPLAYS - i \in Positions
    BY DEF NUM_DISPLAYS, Positions
  <2>3. pow2[4] = 16
    BY SmallPowers
  <2> HIDE DEF value
  <2>4. [i \in 1..NUM_DISPLAYS |-> digit[NUM_DISPLAYS - i]]
          = [i \in 1..NUM_DISPLAYS |-> (number \div pow2[4 * (NUM_DISPLAYS - i)]) % 16]
    BY <2>2
  <2> QED
    BY <2>1, <2>3, <2>4 DEF value
<1>4. 16 \in Nat /\ 16 <= 16 /\ 16 - 1 = 15
  OBVIOUS
<1> HIDE DEF digit, value
<1>5. digit \in [Positions -> 0..(16 - 1)]
  BY <1>1, <1>4
<1> QED
  BY <1>2, <1>3, <1>4, <1>5, DigitsRead

LEMMA RestExists ==
  ASSUME NEW m \in Nat
  PROVE  \E t : t = [pos \in Positions |-> IF pos = 0 THEN m ELSE t[pos - 1] \div 10]
<1> DEFINE g == [q \in Nat \X Nat |-> q[2] \div 10]
<1>1. g \in [Nat \X Nat -> Nat]
  OBVIOUS
<1>2. PICK t \in [0..5 -> Nat] : Recurs(t, m, g, 5)
  <2> HIDE DEF g
  <2>1. 5 \in Nat
    OBVIOUS
  <2> QED
    BY <1>1, <2>1, RecursionTo
<1>3. ASSUME NEW i \in 1..5 PROVE t[i] = t[i - 1] \div 10
  <2>1. t[i - 1] \in Nat /\ i \in Nat
    BY <1>2
  <2>2. t[i] = g[<<i, t[i - 1]>>]
    <3> HIDE DEF g
    <3> QED
      BY <1>2 DEF Recurs
  <2> QED
    BY <2>1, <2>2
<1>4. t[0] = m
  BY <1>2 DEF Recurs
<1>5. t = [pos \in 0..5 |-> IF pos = 0 THEN m ELSE t[pos - 1] \div 10]
  BY <1>2, <1>3, <1>4
<1> QED
  BY <1>5 DEF Positions, NUM_DISPLAYS

LEMMA DecimalIsRead ==
  ASSUME NEW number \in Nat, display_decimal(number)
  PROVE  DisplaysRead'
<1> DEFINE m == Limited(number)
           Is(t) == t = [pos \in Positions |-> IF pos = 0 THEN Limited(number)
                                                 ELSE t[pos - 1] \div 10]
           rest == CHOOSE t : Is(t)
           digit == [pos \in Positions |-> rest[pos] % 10]
           value == IF number < power10[NUM_DISPLAYS]
                      THEN number ELSE power10[NUM_DISPLAYS] - 1
           digits == [i \in 1..NUM_DISPLAYS |-> digit[NUM_DISPLAYS - i]]
           f == [i \in 0..NUM_DISPLAYS |-> IF i = 0 THEN 0 ELSE rest[NUM_DISPLAYS - i]]
<1>1. m \in Nat /\ m <= 999999
  BY DEF Limited
<1>2. display' = [pos \in Positions |-> seg_table[digit[pos] + 1]]
      /\ asked' = [kind |-> "number", base |-> 10, value |-> value]
  <2>1. display' = [pos \in Positions |-> seg_table[(rest[pos] % 10) + 1]]
        /\ asked' = [kind |-> "number", base |-> 10, value |-> value]
    BY DEF display_decimal
  <2> HIDE DEF rest, value
  <2> QED
    BY <2>1
<1>3. Is(rest)
  <2>1. \E t : Is(t)
    <3>1. m \in Nat
      BY <1>1
    <3> QED
      BY <3>1, RestExists
  <2> HIDE DEF Is
  <2> QED
    BY <2>1
<1> HIDE DEF rest
<1>4. Positions = 0..5 /\ NUM_DISPLAYS = 6
  BY DEF Positions, NUM_DISPLAYS
<1>5. /\ rest[0] = m /\ rest[1] = rest[0] \div 10 /\ rest[2] = rest[1] \div 10
      /\ rest[3] = rest[2] \div 10 /\ rest[4] = rest[3] \div 10 /\ rest[5] = rest[4] \div 10
  BY <1>3, <1>4
<1> HIDE DEF Is, m
<1>6. /\ rest[0] \in Nat /\ rest[0] <= 999999 /\ rest[1] \in Nat /\ rest[1] <= 99999
      /\ rest[2] \in Nat /\ rest[2] <= 9999 /\ rest[3] \in Nat /\ rest[3] <= 999
      /\ rest[4] \in Nat /\ rest[4] <= 99 /\ rest[5] \in Nat /\ rest[5] <= 9
  BY <1>1, <1>5
<1>7. digit \in [Positions -> 0..9]
  <2>1. ASSUME NEW pos \in 0..5 PROVE rest[pos] % 10 \in 0..9
    <3>1. rest[pos] \in Nat
      BY <1>6
    <3> QED
      BY <3>1
  <2> QED
    BY <1>4, <2>1
<1>8. digits \in Seq(Int) /\ Len(digits) = 6 /\ \A i \in 1..6 : digits[i] = rest[6 - i] % 10
  <2>1. \A i \in 1..6 : 6 - i \in Positions /\ digit[6 - i] \in Int
    BY <1>4, <1>7
  <2>2. \A i \in 1..6 : digit[6 - i] = rest[6 - i] % 10
    BY <2>1
  <2> HIDE DEF digit
  <2> QED
    BY <1>4, <2>1, <2>2
<1>9. Horner(f, digits, 10)
  <2>1. f[0] = 0
    BY <1>4
  <2>2. \A i \in 1..6 : f[i] = rest[6 - i]
    BY <1>4
  <2> HIDE DEF f, digits
  <2>3. ASSUME NEW i \in 1..6 PROVE f[i] = f[i - 1] * 10 + digits[i]
    <3>1. f[i] = rest[6 - i] /\ digits[i] = rest[6 - i] % 10
      BY <1>8, <2>2
    <3>2. CASE i = 1
      BY <1>6, <2>1, <3>1, <3>2
    <3>3. CASE i > 1
      <4>1. f[i - 1] = rest[7 - i]
        BY <2>2, <3>3
      <4>2. rest[7 - i] = rest[6 - i] \div 10 /\ rest[6 - i] \in Nat
        BY <1>5, <1>6, <3>3
      <4> QED
        BY <3>1, <4>1, <4>2
    <3> QED
      BY <3>2, <3>3
  <2> QED
    BY <1>8, <2>1, <2>3 DEF Horner
<1> HIDE DEF digit
<1>10. NumberOf(digits, 10) = m
  <2>1. f[6] = rest[0]
    BY <1>4
  <2> HIDE DEF f, digits
  <2>2. 10 \in Int
    OBVIOUS
  <2> QED
    BY <1>5, <1>8, <1>9, <2>1, <2>2, NumberOfIs
<1>11. value = m
  <2>1. power10[1] = 10 /\ power10[2] = 100 /\ power10[3] = 1000 /\ power10[4] = 10000
        /\ power10[5] = 100000 /\ power10[6] = 1000000
    <3>1. /\ power10[0 + 1] = 10 * power10[0] /\ power10[1 + 1] = 10 * power10[1]
          /\ power10[2 + 1] = 10 * power10[2] /\ power10[3 + 1] = 10 * power10[3]
          /\ power10[4 + 1] = 10 * power10[4] /\ power10[5 + 1] = 10 * power10[5]
          /\ power10[0] = 1
      BY Power10Is
    <3> QED
      BY <3>1
  <2> QED
    BY <1>4, <2>1 DEF Limited, m
<1> HIDE DEF value
<1>12. 10 \in Nat /\ 10 <= 16 /\ digit \in [Positions -> 0..(10 - 1)]
  BY <1>7
<1>13. NumberOf([i \in 1..NUM_DISPLAYS |-> digit[NUM_DISPLAYS - i]], 10) = value
  BY <1>10, <1>11
<1> QED
  BY <1>2, <1>12, <1>13, DigitsRead

LEMMA DigitIsRead ==
  ASSUME NEW pos \in Positions, NEW digit \in Nat, display_digit(pos, digit),
         DOMAIN display = Positions
  PROVE  DisplaysRead' /\ DOMAIN display' = Positions
<1>1. digit \in 0..15
  BY DEF display_digit
<1>2. display' = [display EXCEPT ![pos] = seg_table[digit + 1]]
      /\ asked' = [kind |-> "digit", value |-> digit, pos |-> pos]
  BY DEF display_digit
<1> HIDE DEF seg_table
<1>3. display'[pos] = seg_table[digit + 1]
  BY <1>2
<1>4. Seen(display'[asked'.pos]) = asked'.value /\ asked'.kind = "digit"
  BY <1>1, <1>2, <1>3, DigitsApart
<1>5. DOMAIN display' = Positions
  BY <1>2
<1> QED
  BY <1>4, <1>5 DEF DisplaysRead

LEMMA ClearIsRead ==
  ASSUME display_clear_all
  PROVE  DisplaysRead' /\ DOMAIN display' = Positions
<1>1. display' = Cleared /\ asked' = [kind |-> "text", value |-> <<>>]
  BY DEF display_clear_all
<1>2. \A pos \in Positions : display'[pos] = Blank
  BY <1>1 DEF Cleared
<1>3. asked'.kind = "text" /\ asked'.value = <<>> /\ Len(<<>>) = 0
  BY <1>1
<1> QED
  BY <1>1, <1>2, <1>3 DEF DisplaysRead, Cleared

(* One character more that can be shown, or none. *)
LEMMA ShownGrows ==
  ASSUME NEW text, NEW k \in Nat
  PROVE  /\ Shown(text, k) \in Nat
         /\ Shown(text, 0) = 0
         /\ Shown(text, k + 1) = IF Showable(text[k + 1]) THEN Shown(text, k) + 1
                                                          ELSE Shown(text, k)
<1> DEFINE at(i) == {j \in 1..i : Showable(text[j])}
<1>1. IsFiniteSet(at(k))
  <2>1. IsFiniteSet(1..k)
    BY FS_Interval
  <2>2. at(k) \in SUBSET (1..k)
    OBVIOUS
  <2> HIDE DEF at
  <2> QED
    BY <2>1, <2>2, FS_Subset
<1>2. at(0) = {} /\ k + 1 \notin at(k)
  OBVIOUS
<1>3. at(k + 1) = IF Showable(text[k + 1]) THEN at(k) \cup {k + 1} ELSE at(k)
  <2>1. 1..(k + 1) = (1..k) \cup {k + 1}
    OBVIOUS
  <2> QED
    BY <2>1
<1>4. Shown(text, k) = Cardinality(at(k)) /\ Shown(text, 0) = Cardinality(at(0))
      /\ Shown(text, k + 1) = Cardinality(at(k + 1))
  BY DEF Shown
<1> HIDE DEF at
<1>5. Cardinality(at(k)) \in Nat
  BY <1>1, FS_CardinalityType
<1>6. Cardinality(at(k) \cup {k + 1}) = Cardinality(at(k)) + 1
  BY <1>1, <1>2, FS_AddElement
<1> QED
  BY <1>2, <1>3, <1>4, <1>5, <1>6, FS_EmptySet

(* After i characters, those that can be shown fill the displays from the   *)
(* left and the rest is blank.                                             *)
ShownStates ==
  [pos : Int, display : [Positions -> {Blank} \cup {char_table[c] : c \in DOMAIN char_table}]]

Fills(shown, text, i) ==
  /\ shown.pos = IF Shown(text, i) <= 6 THEN 5 - Shown(text, i) ELSE -1
  /\ \A k \in 1..i : Shown(text, k) <= Shown(text, i)
  /\ \A k \in 1..i : Showable(text[k]) /\ Shown(text, k) <= 6 =>
                       shown.display[6 - Shown(text, k)] = char_table[text[k]]
  /\ \A pos \in Positions : 6 - pos > Shown(text, i) => shown.display[pos] = Blank

LEMMA CharKeepsStates ==
  ASSUME NEW shown \in ShownStates, NEW c
  PROVE  AfterChar(shown, c) \in ShownStates
<1> DEFINE V == {Blank} \cup {char_table[d] : d \in DOMAIN char_table}
<1>1. ShownStates = [pos : Int, display : [Positions -> V]]
  BY DEF ShownStates
<1>2. Showable(c) => char_table[c] \in V
  BY DEF Showable
<1> HIDE DEF V
<1>3. CASE ~(shown.pos < 0 \/ ~Showable(c))
  <2>1. AfterChar(shown, c) = [pos |-> shown.pos - 1,
                               display |-> [shown.display EXCEPT ![shown.pos] = char_table[c]]]
    BY <1>3 DEF AfterChar
  <2>2. shown.pos \in Int /\ shown.display \in [Positions -> V]
    BY <1>1
  <2>3. char_table[c] \in V
    BY <1>2, <1>3
  <2>4. [shown.display EXCEPT ![shown.pos] = char_table[c]] \in [Positions -> V]
    BY <2>2, <2>3
  <2> QED
    BY <1>1, <2>1, <2>2, <2>4
<1> QED
  BY <1>3 DEF AfterChar

LEMMA CharFills ==
  ASSUME NEW text, NEW i \in Nat, NEW shown \in ShownStates, Fills(shown, text, i)
  PROVE  Fills(AfterChar(shown, text[i + 1]), text, i + 1)
<1> DEFINE c == text[i + 1]
           filled == Shown(text, i)
           next == Shown(text, i + 1)
           after == AfterChar(shown, c)
<1>1. filled \in Nat /\ next = IF Showable(c) THEN filled + 1 ELSE filled
  BY ShownGrows
<1>2. ASSUME NEW k \in 1..(i + 1) PROVE k \in 1..i \/ k = i + 1
  OBVIOUS
<1>3. ASSUME NEW k \in 1..(i + 1), Showable(text[k]) PROVE Shown(text, k) \in Nat \ {0}
  <2>1. k - 1 \in Nat /\ (k - 1) + 1 = k
    OBVIOUS
  <2>2. Shown(text, k - 1) \in Nat
        /\ Shown(text, (k - 1) + 1) = IF Showable(text[(k - 1) + 1])
                                        THEN Shown(text, k - 1) + 1 ELSE Shown(text, k - 1)
    BY <2>1, ShownGrows
  <2> QED
    BY <1>3, <2>1, <2>2
<1>4. ASSUME NEW k \in 1..(i + 1) PROVE Shown(text, k) \in Nat
  <2>1. k \in Nat
    OBVIOUS
  <2> QED
    BY <2>1, ShownGrows
<1>5. \A k \in 1..(i + 1) : Shown(text, k) <= next
  BY <1>1, <1>2, <1>4 DEF Fills
<1>6. Positions = 0..5
  BY DEF Positions, NUM_DISPLAYS
<1>7. CASE shown.pos < 0
  <2>1. filled >= 6 /\ next >= 6 /\ after = shown
    BY <1>1, <1>7 DEF Fills, AfterChar
  <2>2. Showable(c) => next > 6
    BY <1>1, <2>1
  <2>3. shown.pos = -1
    BY <1>1, <2>1 DEF Fills
  <2>4. shown.pos = IF next <= 6 THEN 5 - next ELSE -1
    BY <1>1, <2>1, <2>3
  <2>5. ASSUME NEW k \in 1..(i + 1), Showable(text[k]), Shown(text, k) <= 6
        PROVE  shown.display[6 - Shown(text, k)] = char_table[text[k]]
    <3>1. k # i + 1
      BY <1>1, <2>2, <2>5
    <3> QED
      BY <1>2, <2>5, <3>1 DEF Fills
  <2>6. ASSUME NEW pos \in Positions PROVE ~(6 - pos > next)
    BY <1>1, <1>6, <2>1
  <2> HIDE DEF after, next
  <2> QED
    BY <1>5, <2>1, <2>4, <2>5, <2>6 DEF Fills, next, after
<1>8. CASE ~Showable(c)
  <2>1. next = filled /\ after = shown
    BY <1>1, <1>8 DEF AfterChar
  <2>2. ASSUME NEW k \in 1..(i + 1), Showable(text[k]), Shown(text, k) <= 6
        PROVE  shown.display[6 - Shown(text, k)] = char_table[text[k]]
    <3>1. k # i + 1
      BY <1>8, <2>2
    <3> QED
      BY <1>2, <2>2, <3>1 DEF Fills
  <2> HIDE DEF after, next
  <2> QED
    BY <1>5, <2>1, <2>2 DEF Fills, next, after
<1>9. CASE ~(shown.pos < 0) /\ Showable(c)
  <2>1. after = [pos |-> shown.pos - 1,
                 display |-> [shown.display EXCEPT ![shown.pos] = char_table[c]]]
    BY <1>9 DEF AfterChar
  <2>2. next = filled + 1 /\ filled <= 5 /\ shown.pos = 6 - next /\ shown.pos \in Positions
    BY <1>1, <1>6, <1>9 DEF Fills
  <2>3. DOMAIN shown.display = Positions
    BY DEF ShownStates
  <2>4. after.pos = 5 - next /\ next <= 6
    BY <1>1, <2>1, <2>2
  <2>5. after.display[shown.pos] = char_table[c]
        /\ \A pos \in Positions : pos # shown.pos => after.display[pos] = shown.display[pos]
    BY <2>1, <2>2, <2>3
  <2> HIDE DEF after
  <2>6. ASSUME NEW k \in 1..(i + 1), Showable(text[k]), Shown(text, k) <= 6
        PROVE  after.display[6 - Shown(text, k)] = char_table[text[k]]
    <3>1. CASE k = i + 1
      BY <2>2, <2>5, <3>1
    <3>2. CASE k \in 1..i
      <4>1. Shown(text, k) <= filled
        BY <3>2 DEF Fills
      <4>2. Shown(text, k) \in Nat \ {0}
        BY <1>3, <2>6
      <4>3. 6 - Shown(text, k) \in Positions /\ 6 - Shown(text, k) # shown.pos
        BY <1>1, <1>6, <2>2, <2>6, <4>1, <4>2
      <4> QED
        BY <2>5, <2>6, <3>2, <4>3 DEF Fills
    <3> QED
      BY <1>2, <3>1, <3>2
  <2>7. ASSUME NEW pos \in Positions, 6 - pos > next PROVE after.display[pos] = Blank
    <3>1. pos # shown.pos /\ 6 - pos > filled
      BY <1>1, <1>6, <2>2, <2>7
    <3> QED
      BY <2>5, <3>1 DEF Fills
  <2> HIDE DEF next
  <2> QED
    BY <1>5, <2>4, <2>6, <2>7 DEF Fills, next, after
<1> QED
  BY <1>7, <1>8, <1>9

LEMMA TextIsRead ==
  ASSUME NEW text \in Seq(STRING), display_string(text)
  PROVE  DisplaysRead' /\ DOMAIN display' = Positions
<1> DEFINE n == Len(text)
           start == [pos |-> NUM_DISPLAYS - 1, display |-> Cleared]
           Is(t) == t = [i \in 0..Len(text) |-> IF i = 0 THEN start
                                                  ELSE AfterChar(t[i - 1], text[i])]
           shown == CHOOSE t : Is(t)
           g == [q \in Nat \X ShownStates |-> AfterChar(q[2], text[q[1]])]
           T == {i \in Nat : i <= n => shown[i] \in ShownStates /\ Fills(shown[i], text, i)}
<1>1. n \in Nat
  OBVIOUS
<1>2. display' = shown[n].display /\ asked' = [kind |-> "text", value |-> text]
  BY DEF display_string
<1>3. start \in ShownStates
  BY DEF ShownStates, Cleared, NUM_DISPLAYS
<1>4. g \in [Nat \X ShownStates -> ShownStates]
  BY CharKeepsStates
<1>5. \E t : Is(t)
  <2>1. PICK t \in [0..n -> ShownStates] : Recurs(t, start, g, n)
    <3> HIDE DEF g, n, start
    <3> QED
      BY <1>1, <1>3, <1>4, RecursionTo
  <2> HIDE DEF start
  <2>2. ASSUME NEW i \in 1..n PROVE t[i] = AfterChar(t[i - 1], text[i])
    <3>1. t[i - 1] \in ShownStates /\ i \in Nat
      <4> HIDE DEF n
      <4> QED
        BY <1>1, <2>1
    <3>2. t[i] = g[<<i, t[i - 1]>>]
      <4> HIDE DEF g, n
      <4> QED
        BY <2>1 DEF Recurs
    <3> QED
      BY <3>1, <3>2
  <2>3. t[0] = start
    BY <2>1 DEF Recurs
  <2>4. t = [i \in 0..n |-> IF i = 0 THEN start ELSE AfterChar(t[i - 1], text[i])]
    <3> HIDE DEF n
    <3> QED
      BY <1>1, <2>1, <2>2, <2>3
  <2> QED
    BY <2>4
<1>6. Is(shown)
  <2> HIDE DEF Is
  <2> QED
    BY <1>5
<1> HIDE DEF shown, g
<1>7. shown[0] = start /\ \A i \in 1..n : shown[i] = AfterChar(shown[i - 1], text[i])
  <2> HIDE DEF start
  <2> QED
    BY <1>1, <1>6
<1>8. 0 \in T
  <2>1. Shown(text, 0) = 0
    BY ShownGrows
  <2>2. start.pos = 5 /\ \A pos \in Positions : start.display[pos] = Blank
    BY DEF Cleared, NUM_DISPLAYS
  <2> HIDE DEF start
  <2>3. Fills(start, text, 0)
    BY <2>1, <2>2 DEF Fills
  <2> QED
    BY <1>3, <1>7, <2>3
<1>9. ASSUME NEW i \in Nat, i \in T PROVE i + 1 \in T
  <2> HIDE DEF start
  <2> SUFFICES ASSUME i + 1 <= n
               PROVE  shown[i + 1] \in ShownStates /\ Fills(shown[i + 1], text, i + 1)
    OBVIOUS
  <2>1. i + 1 \in 1..n /\ (i + 1) - 1 = i
    BY <1>1
  <2>2. shown[i] \in ShownStates /\ Fills(shown[i], text, i)
    BY <1>1, <1>9
  <2>3. shown[i + 1] = AfterChar(shown[i], text[i + 1])
    BY <1>7, <2>1
  <2> QED
    BY <2>2, <2>3, CharKeepsStates, CharFills
<1>10. n \in T
  <2>1. Nat \subseteq T
    <3> HIDE DEF T
    <3> QED
      BY <1>8, <1>9, InductionOnNat
  <2> QED
    BY <1>1, <2>1
<1>11. shown[n] \in ShownStates /\ Fills(shown[n], text, n)
  BY <1>1, <1>10
<1> HIDE DEF T, Is, start
<1>12. display' \in [Positions -> {Blank} \cup {char_table[c] : c \in DOMAIN char_table}]
  BY <1>2, <1>11 DEF ShownStates
<1>13. DOMAIN display' = Positions
  BY <1>12
<1>14. asked'.kind = "text" /\ asked'.value = text
  BY <1>2
<1>15. /\ \A k \in 1..n : Showable(text[k]) /\ Shown(text, k) <= NUM_DISPLAYS =>
                            display'[NUM_DISPLAYS - Shown(text, k)] = char_table[text[k]]
       /\ \A pos \in Positions : NUM_DISPLAYS - pos > Shown(text, n) => display'[pos] = Blank
  <2> HIDE DEF n
  <2> QED
    BY <1>2, <1>11 DEF Fills, NUM_DISPLAYS
<1> QED
  BY <1>13, <1>14, <1>15 DEF DisplaysRead

(* What the displays show reads as what they were last asked to show        *)
(* (devices.h:58 to 61): a number in base 16 or 10, a digit in its place,  *)
(* or as much of a text as fits; whatever they showed before, and for all  *)
(* numbers, digits and texts.                                              *)
THEOREM DisplaysShowIt == DisplaysSpec => []DisplaysRead
<1> DEFINE Whole == DOMAIN display = Positions /\ DisplaysRead
<1>1. DisplaysInit => Whole
  BY DEF DisplaysInit, DisplaysRead
<1>2. Whole /\ [DisplaysNext]_displayVars => Whole'
  <2> SUFFICES ASSUME Whole, [DisplaysNext]_displayVars PROVE Whole'
    OBVIOUS
  <2>1. CASE display_clear_all
    BY <2>1, ClearIsRead
  <2>2. ASSUME NEW pos \in Positions, NEW digit \in Digits, display_digit(pos, digit)
        PROVE  Whole'
    <3>1. digit \in Nat
      BY DisplaysAssumption
    <3> QED
      BY <2>2, <3>1, DigitIsRead
  <2>3. ASSUME NEW number \in Numbers, display_hex(number) PROVE Whole'
    <3>1. number \in Nat
      BY DisplaysAssumption
    <3>2. DOMAIN display' = Positions
      BY <2>3 DEF display_hex
    <3> QED
      BY <2>3, <3>1, <3>2, HexIsRead
  <2>4. ASSUME NEW number \in Numbers, display_decimal(number) PROVE Whole'
    <3>1. number \in Nat
      BY DisplaysAssumption
    <3>2. DOMAIN display' = Positions
      BY <2>4 DEF display_decimal
    <3> QED
      BY <2>4, <3>1, <3>2, DecimalIsRead
  <2>5. ASSUME NEW text \in Texts, display_string(text) PROVE Whole'
    <3>1. text \in Seq(STRING)
      BY DisplaysAssumption
    <3> QED
      BY <2>5, <3>1, TextIsRead
  <2>6. CASE UNCHANGED displayVars
    BY <2>6 DEF displayVars, DisplaysRead, Reading
  <2> QED
    BY <2>1, <2>2, <2>3, <2>4, <2>5, <2>6 DEF DisplaysNext
<1> QED
  BY <1>1, <1>2, PTL DEF DisplaysSpec

=============================================================================
