------------------------------ MODULE Poly1305 ------------------------------
(***************************************************************************)
(* poly1305_auth of src/src/poly1305.c, block by block, beside the          *)
(* definition it computes: a polynomial in r modulo p, plus s.  The code   *)
(* keeps a number in five limbs and lets them grow within 32 and 64 bits;  *)
(* whether every carry is put back where it belongs shows only on rare     *)
(* values.  All widths follow from those of a limb and a byte, 26 and 8 in *)
(* the code, so that small ones meet the rare values often.                *)
(***************************************************************************)
EXTENDS Bits, Sequences

CONSTANTS
  LIMB_BITS,  \* bits of a limb (26)
  BLOCK_BYTE, \* bits of a byte of a block (8)
  BLOCK,      \* bytes of a block (16)
  ClampMasks, \* the masks of r, limb by limb
  KeysR,      \* numbers r before clamping
  KeysS,      \* numbers s
  Values,     \* bytes of the messages
  MaxBlocks   \* bound: blocks of a message

Limb == pow2[LIMB_BITS]
UINT32 == pow2[LIMB_BITS + 6]
UINT64 == UINT32 * UINT32
TagSize == pow2[5 * LIMB_BITS - 2]
P == pow2[5 * LIMB_BITS] - 5

ASSUME PolyAssumption ==
  /\ LIMB_BITS \in Nat /\ LIMB_BITS >= 4
  /\ BLOCK_BYTE \in Nat /\ BLOCK \in Nat
  /\ BLOCK_BYTE * BLOCK = 5 * LIMB_BITS - 2
  /\ ClampMasks \in [0..4 -> 0..(Limb - 1)]
  /\ KeysR \subseteq 0..(TagSize - 1)
  /\ KeysS \subseteq 0..(TagSize - 1)
  /\ Values \subseteq 0..(pow2[BLOCK_BYTE] - 1)

VARIABLES
  r, s,    \* the key: five limbs, and a number
  h,       \* the accumulator: five limbs
  blocks,  \* blocks absorbed so far
  ended,   \* the last one was shorter than a block
  acc      \* history: what the accumulator should be, modulo P

vars == <<r, s, h, blocks, ended, acc>>

-----------------------------------------------------------------------------
(* A number of at most five limbs, and the number limbs stand for. *)
Split(n) == [i \in 0..4 |-> (n \div pow2[LIMB_BITS * i]) % Limb]
Value(x) == x[0] + Limb * (x[1] + Limb * (x[2] + Limb * (x[3] + Limb * x[4])))

Clamped(n) == [i \in 0..4 |-> And(Split(n)[i], ClampMasks[i])]

(* The bytes of a block as a number, little endian, and a one behind them:  *)
(* in the next byte of a partial block, in the top limb of a full one.     *)
Number(block) ==
  LET value[i \in 0..Len(block)] ==
        IF i = 0 THEN 0 ELSE value[i - 1] + block[i] * pow2[BLOCK_BYTE * (i - 1)]
  IN value[Len(block)]

BlockLimbs_NoHibit(block) == Split(Number(block))
BlockLimbs(block) ==
  LET n == Number(block) IN
    IF Len(block) = BLOCK
      THEN [Split(n) EXCEPT ![4] = @ + pow2[LIMB_BITS - 2]]
      ELSE Split(n + pow2[BLOCK_BYTE * Len(block)])

(* The product of d and r; a limb beyond the fifth comes back times five. *)
Product(d) ==
  LET term(k, i) == d[i] * (IF i <= k THEN r[k - i] ELSE (5 * r[k - i + 5]) % UINT32)
  IN [k \in 0..4 |-> (term(k, 0) + term(k, 1) + term(k, 2) + term(k, 3) + term(k, 4))
                       % UINT64]

(* The carries of a product: up the limbs, from the fifth back to the first *)
(* times five, and once more into the second, which may be left too large. *)
Reduced_KeepsFirst(c) ==
  LET a[k \in 0..4] == IF k = 0 THEN c[0] ELSE (c[k] + a[k - 1] \div Limb) % UINT64
      first == ((a[0] % Limb) + 5 * (a[4] \div Limb)) % UINT32
  IN [k \in 0..4 |-> IF k = 0 THEN first ELSE a[k] % Limb]
Reduced_DropsLastCarry(c) ==
  LET a[k \in 0..4] == IF k = 0 THEN c[0] ELSE (c[k] + a[k - 1] \div Limb) % UINT64
      first == ((a[0] % Limb) + 5 * (a[4] \div Limb)) % UINT32
  IN [k \in 0..4 |-> IF k = 0 THEN first % Limb ELSE a[k] % Limb]
Reduced(c) ==
  LET a[k \in 0..4] == IF k = 0 THEN c[0] ELSE (c[k] + a[k - 1] \div Limb) % UINT64
      first == ((a[0] % Limb) + 5 * (a[4] \div Limb)) % UINT32
  IN [k \in 0..4 |-> CASE k = 0 -> first % Limb
                       [] k = 1 -> (a[1] % Limb) + (first \div Limb)
                       [] OTHER -> a[k] % Limb]

(* After the last block the carries go round once more. *)
Carried_NotAround(x) ==
  LET b[k \in 1..4] == IF k = 1 THEN x[1] ELSE x[k] + b[k - 1] \div Limb
  IN [k \in 0..4 |-> IF k = 0 THEN x[0] ELSE b[k] % Limb]
Carried(x) ==
  LET b[k \in 1..4] == IF k = 1 THEN x[1] ELSE x[k] + b[k - 1] \div Limb
      first == x[0] + 5 * (b[4] \div Limb)
  IN [k \in 0..4 |-> CASE k = 0 -> first % Limb
                       [] k = 1 -> (b[1] % Limb) + (first \div Limb)
                       [] OTHER -> b[k] % Limb]

(* x + 5 - 2^130 if that is not negative, which is to say x - P, else x. *)
Canonical(x) ==
  LET g[k \in 0..4] == x[k] + (IF k = 0 THEN 5 ELSE g[k - 1] \div Limb)
      top == (g[4] - Limb) % UINT32
  IN IF top >= UINT32 \div 2 THEN x
       ELSE [k \in 0..4 |-> IF k = 4 THEN top ELSE g[k] % Limb]

(* The limbs are put together with shifts and ors, and s is added. *)
Packed(x) ==
  LET at(i) == x[i] * pow2[LIMB_BITS * i]
  IN Or(Or(Or(Or(at(0), at(1)), at(2)), at(3)), at(4)) % TagSize

Tag == (Packed(Canonical(Carried(h))) + s) % TagSize

-----------------------------------------------------------------------------
Init ==
  /\ \E n \in KeysR : r = Clamped(n)
  /\ s \in KeysS
  /\ h = Split(0)
  /\ blocks = 0
  /\ ended = FALSE
  /\ acc = 0

(* (a * b) modulo P for the number b of the limbs x, limb by limb. *)
TimesModP(a, x) ==
  LET part[i \in 0..5] ==
        IF i = 5 THEN 0 ELSE (part[i + 1] * Limb + a * x[i]) % P
  IN part[0]

Absorb(block) ==
  /\ blocks < MaxBlocks
  /\ ~ended
  /\ h' = Reduced(Product([i \in 0..4 |-> h[i] + BlockLimbs(block)[i]]))
  /\ acc' = TimesModP((acc + Number(block) + pow2[BLOCK_BYTE * Len(block)]) % P, r)
  /\ blocks' = blocks + 1
  /\ ended' = (Len(block) < BLOCK)
  /\ UNCHANGED <<r, s>>

Next == \E n \in 1..BLOCK : \E block \in [1..n -> Values] : Absorb(block)

Spec == Init /\ [][Next]_vars

-----------------------------------------------------------------------------
(* Between two blocks every limb fits its width but the second, which has   *)
(* taken the last carry: the next sums and products stay within 64 bits.   *)
LimbsFit ==
  /\ \A i \in {0, 2, 3, 4} : h[i] \in 0..(Limb - 1)
  /\ h[1] \in 0..(Limb + 64)
  /\ acc \in 0..(P - 1)

(* No carry is lost or misplaced: the limbs stand for the polynomial of the *)
(* blocks absorbed so far.                                                 *)
AccumulatorRight == Value(h) % P = acc

(* The tag is what RFC 8439 (the comment at poly1305.c:4 to 11) says it is, *)
(* also when the accumulator lies between p and 2^130 and the final        *)
(* subtraction decides.                                                    *)
TagRight == Tag = (acc + s) % TagSize
=============================================================================
