-------------------------------- MODULE Bits --------------------------------
(* Powers of two and the bitwise operators of C, as recursive functions of *)
(* natural numbers, which can be reasoned about.                           *)
EXTENDS Integers

pow2[n \in Nat] == IF n = 0 THEN 1 ELSE 2 * pow2[n - 1]

(* The lowest bits, and twice the exclusive or of the others. *)
xor[p \in Nat \X Nat] ==
  IF p[1] = p[2] THEN 0
    ELSE ((p[1] + p[2]) % 2) + 2 * xor[<<p[1] \div 2, p[2] \div 2>>]

Xor(a, b) == xor[<<a, b>>]

(* A bit of both numbers counts twice in their sum, and not in Xor. *)
And(a, b) == (a + b - Xor(a, b)) \div 2
Or(a, b) == (a + b + Xor(a, b)) \div 2
=============================================================================
