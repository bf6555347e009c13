------------------------------ MODULE Displays ------------------------------
(***************************************************************************)
(* The seven-segment displays of src/src/devices.c: six registers that can *)
(* only be written.  Position 0 is the rightmost.                          *)
(***************************************************************************)
EXTENDS Numerals, FiniteSets

CONSTANTS
  Numbers,  \* numbers displayed
  Digits,   \* single digits displayed
  Texts     \* strings displayed: sequences of characters

ASSUME DisplaysAssumption ==
  /\ Numbers \subseteq Nat
  /\ Digits \subseteq Nat
  /\ \A text \in Texts : text \in Seq(STRING)

NUM_DISPLAYS == 6
Positions == 0..(NUM_DISPLAYS - 1)

VARIABLES
  display,  \* the segments of each position
  asked     \* history: what was last asked for, [kind, value]

displayVars == <<display, asked>>

-----------------------------------------------------------------------------
(* Segments. *)

seg_table ==
  <<192, 249, 164, 176, 153, 146, 130, 248, 128, 144, 136, 131, 198, 161, 134, 142>>

Blank == 255

(* Characters that have segments; for all others the table holds 0. *)
CharRows ==
  {<<{" "}, 255>>, <<{"-"}, 191>>, <<{"_"}, 247>>,
   <<{"0"}, 192>>, <<{"1"}, 249>>, <<{"2"}, 164>>, <<{"3"}, 176>>, <<{"4"}, 153>>,
   <<{"5"}, 146>>, <<{"6"}, 130>>, <<{"7"}, 248>>, <<{"8"}, 128>>, <<{"9"}, 144>>,
   <<{"A", "a"}, 136>>, <<{"B", "b"}, 131>>, <<{"C", "c"}, 198>>, <<{"D", "d"}, 161>>,
   <<{"E", "e"}, 134>>, <<{"F", "f"}, 142>>, <<{"H", "h"}, 137>>, <<{"L", "l"}, 199>>,
   <<{"O", "o"}, 192>>, <<{"P", "p"}, 140>>, <<{"U", "u"}, 193>>}
char_table ==
  [c \in UNION {row[1] : row \in CharRows} |-> (CHOOSE row \in CharRows : c \in row[1])[2]]

Showable(c) == c \in DOMAIN char_table

-----------------------------------------------------------------------------
DisplaysInit ==
  /\ display \in [Positions -> {Blank, 0}]
  /\ asked = [kind |-> "nothing"]

Cleared == [pos \in Positions |-> Blank]

display_clear_all ==
  /\ display' = Cleared
  /\ asked' = [kind |-> "text", value |-> <<>>]

(* A position or a digit out of range changes nothing. *)
display_digit(pos, digit) ==
  /\ pos \in Positions
  /\ digit < 16
  /\ display' = [display EXCEPT ![pos] = seg_table[digit + 1]]
  /\ asked' = [kind |-> "digit", value |-> digit, pos |-> pos]

(* Nibble by nibble, from the left; what does not fit is cut off. *)
display_hex(number) ==
  /\ display' = [pos \in Positions |-> seg_table[((number \div pow2[4 * pos]) % 16) + 1]]
  /\ asked' = [kind |-> "number", base |-> 16, value |-> number % pow2[4 * NUM_DISPLAYS]]

(* Digit by digit, from the right; the number is divided as they go. *)
Limited(number) == IF number > 999999 THEN 999999 ELSE number
display_decimal(number) ==
  LET rest[pos \in Positions] ==
        IF pos = 0 THEN Limited(number) ELSE rest[pos - 1] \div 10
  IN /\ display' = [pos \in Positions |-> seg_table[(rest[pos] % 10) + 1]]
     /\ asked' = [kind |-> "number", base |-> 10,
                  value |-> IF number < power10[NUM_DISPLAYS]
                              THEN number ELSE power10[NUM_DISPLAYS] - 1]

(* Characters without segments take no place. *)
AfterChar_LeavesGaps(shown, c) ==
  IF shown.pos < 0 THEN shown
    ELSE [pos |-> shown.pos - 1,
          display |-> IF Showable(c)
                        THEN [shown.display EXCEPT ![shown.pos] = char_table[c]]
                        ELSE shown.display]
AfterChar(shown, c) ==
  IF shown.pos < 0 \/ ~Showable(c) THEN shown
    ELSE [pos |-> shown.pos - 1,
          display |-> [shown.display EXCEPT ![shown.pos] = char_table[c]]]
display_string(text) ==
  LET shown[i \in 0..Len(text)] ==  \* after the first i characters
        IF i = 0 THEN [pos |-> NUM_DISPLAYS - 1, display |-> Cleared]
          ELSE AfterChar(shown[i - 1], text[i])
  IN /\ display' = shown[Len(text)].display
     /\ asked' = [kind |-> "text", value |-> text]

DisplaysNext ==
  \/ display_clear_all
  \/ \E pos \in Positions, digit \in Digits : display_digit(pos, digit)
  \/ \E number \in Numbers : display_hex(number) \/ display_decimal(number)
  \/ \E text \in Texts : display_string(text)

DisplaysSpec == DisplaysInit /\ [][DisplaysNext]_displayVars

-----------------------------------------------------------------------------
(* The digit that segments look like. *)
Seen(segments) ==
  LET at == {i \in DOMAIN seg_table : seg_table[i] = segments}
  IN IF at = {} THEN -1 ELSE (CHOOSE i \in at : TRUE) - 1

(* The digits from the left. *)
Reading(base) == NumberOf([i \in 1..NUM_DISPLAYS |-> Seen(display[NUM_DISPLAYS - i])], base)

(* How many of the first k characters can be shown. *)
Shown(text, k) == Cardinality({j \in 1..k : Showable(text[j])})

(* What the displays show reads as what they were last asked to show        *)
(* (devices.h:58 to 61), whatever was there before: a number in its base,  *)
(* limited to six digits; a digit in its place; of a text the first six    *)
(* characters that can be shown, from the left, and nothing after them.    *)
DisplaysRead ==
  CASE asked.kind = "nothing" -> TRUE
    [] asked.kind = "number" ->
         /\ \A pos \in Positions : Seen(display[pos]) \in 0..(asked.base - 1)
         /\ Reading(asked.base) = asked.value
    [] asked.kind = "digit" -> Seen(display[asked.pos]) = asked.value
    [] asked.kind = "text" ->
         LET text == asked.value IN
           /\ \A k \in 1..Len(text) :
                Showable(text[k]) /\ Shown(text, k) <= NUM_DISPLAYS =>
                  display[NUM_DISPLAYS - Shown(text, k)] = char_table[text[k]]
           /\ \A pos \in Positions :
                NUM_DISPLAYS - pos > Shown(text, Len(text)) => display[pos] = Blank
=============================================================================
