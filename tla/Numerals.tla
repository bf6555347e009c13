------------------------------ MODULE Numerals ------------------------------
(* Powers of ten, and the number that a sequence of digits stands for.     *)
EXTENDS Bits, Sequences

power10[n \in Nat] == IF n = 0 THEN 1 ELSE 10 * power10[n - 1]

NumberOf(digits, base) ==
  LET first[i \in 0..Len(digits)] ==  \* of the first i digits
        IF i = 0 THEN 0 ELSE first[i - 1] * base + digits[i]
  IN first[Len(digits)]
=============================================================================
