------------------------------ MODULE Printing ------------------------------
(***************************************************************************)
(* The number formatting of src/src/dtekv-lib.c and src/src/utils.c, for   *)
(* words of a width of choice.  A digit stands for its character, whether  *)
(* that is upper or lower case, and what is printed is the sequence of its *)
(* characters, without the prefixes 0x and 0b.                             *)
(***************************************************************************)
EXTENDS Numerals

CONSTANTS
  WORD_BITS,    \* bits of an unsigned int (32)
  UDEC_DIGITS,  \* the most digits it has (10)
  Bases         \* bases utoa is called with

ASSUME PrintingAssumption ==
  /\ WORD_BITS \in Nat \ {0}
  /\ UDEC_DIGITS \in Nat \ {0}
  /\ pow2[WORD_BITS] <= power10[UDEC_DIGITS]
  /\ Bases \subseteq Int

Words == 0..(pow2[WORD_BITS] - 1)
TOP_DIVISOR == power10[UDEC_DIGITS - 1]  \* 1000000000
Minus == -1

VARIABLE printed  \* the word that is printed

-----------------------------------------------------------------------------
(* A turn of the loop of print_udec: zeros before the first digit are left  *)
(* out.                                                                    *)
AfterDivisor_DropsZeros(so_far) ==
  LET digit == so_far.rest \div so_far.divisor
  IN [divisor |-> so_far.divisor \div 10,
      rest    |-> so_far.rest - digit * so_far.divisor,
      out     |-> IF digit # 0 THEN Append(so_far.out, digit) ELSE so_far.out]
AfterDivisor(so_far) ==
  LET digit == so_far.rest \div so_far.divisor
  IN [divisor |-> so_far.divisor \div 10,
      rest    |-> so_far.rest - digit * so_far.divisor,
      out     |-> IF digit # 0 \/ so_far.out # <<>>
                    THEN Append(so_far.out, digit)
                    ELSE so_far.out]

(* The loop ends when the divisor is zero, after a turn for each digit. *)
print_udec(word) ==
  LET turn[i \in 0..UDEC_DIGITS] ==
        IF i = 0 THEN [divisor |-> TOP_DIVISOR, rest |-> word, out |-> <<>>]
          ELSE AfterDivisor(turn[i - 1])
      out == turn[UDEC_DIGITS].out
  IN IF out = <<>> THEN <<0>> ELSE out

(* The negative of the smallest int is that int again; printed as unsigned, *)
(* it is right all the same.                                               *)
print_dec(int) ==
  IF int < 0 THEN <<Minus>> \o print_udec((-int) % pow2[WORD_BITS]) ELSE print_udec(int)

print_hex(word, digits) ==
  [i \in 1..digits |-> (word \div pow2[4 * (digits - i)]) % 16]

print_bin(word, bits) ==
  [i \in 1..bits |-> (word \div pow2[bits - i]) % 2]

(* From the last digit on, until nothing is left, and turned round at the   *)
(* end; no digits for a base there are none for.                           *)
utoa(word, base) ==
  LET rest[i \in 0..WORD_BITS] == IF i = 0 THEN word ELSE rest[i - 1] \div base
      Ends(i) == rest[i] = 0 /\ \A j \in 1..(i - 1) : rest[j] # 0
      n == CHOOSE i \in 1..WORD_BITS : Ends(i)
  IN IF base < 2 \/ base > 36 THEN <<>> ELSE [i \in 1..n |-> rest[n - i] % base]

-----------------------------------------------------------------------------
PrintingInit == printed = 0

NextNumber == printed + 1 \in Words /\ printed' = printed + 1

PrintingSpec == PrintingInit /\ [][NextNumber]_printed

-----------------------------------------------------------------------------
(* The int that a word stands for. *)
Signed ==
  IF printed < pow2[WORD_BITS - 1] THEN printed ELSE printed - pow2[WORD_BITS]

(* A numeral: its digits are digits, and it begins with none too many. *)
IsNumeral(digits, base) ==
  /\ \A i \in DOMAIN digits : digits[i] \in 0..(base - 1)
  /\ digits # <<>>
  /\ Len(digits) > 1 => digits[1] # 0

ReadsAs(digits, base, value) == IsNumeral(digits, base) /\ NumberOf(digits, base) = value

(* Every number prints as the numeral that stands for it, the zeros inside  *)
(* and at the end included, the smallest int included; with a fixed width  *)
(* it prints as the lowest digits (dtekv-lib.c:48 to 103, utils.c:207).    *)
PrintsReadBack ==
  /\ ReadsAs(print_udec(printed), 10, printed)
  /\ LET out == print_dec(Signed) IN
       IF Signed < 0 THEN out[1] = Minus /\ ReadsAs(Tail(out), 10, -Signed)
                     ELSE ReadsAs(out, 10, Signed)
  /\ \A n \in 1..(WORD_BITS \div 4) :
       NumberOf(print_hex(printed, n), 16) = printed % pow2[4 * n]
  /\ \A n \in 1..WORD_BITS : NumberOf(print_bin(printed, n), 2) = printed % pow2[n]
  /\ \A base \in Bases :
       IF base \in 2..36 THEN ReadsAs(utoa(printed, base), base, printed)
                         ELSE utoa(printed, base) = <<>>
=============================================================================
