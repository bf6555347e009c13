---------------------------- MODULE MCAlgorithms ----------------------------
(* The sequential parts of the program, each by itself: the wire codec,    *)
(* Poly1305, ChaCha20, number formatting, the displays and the GPIO driver. *)
(* A behaviour is about one of them; the others stand still.               *)
EXTENDS Poly1305, Codec, Gpio, Printing, Displays

CONSTANTS Topics

VARIABLES
  topic,                                          \* the part this behaviour is about
  job, state, working, turn, calls, len, out      \* chacha20

polyVars == vars
chachaVars == <<job, state, working, turn, calls, len, out>>

-----------------------------------------------------------------------------
(* Poly1305 with limbs of four bits: p is 2^20 - 5, a block three bytes of  *)
(* six bits.                                                               *)
MCMasks == [i \in 0..4 |-> IF i = 4 THEN 3 ELSE 15]

(* The masks in the code are, bit by bit, the clamping of RFC 8439: the top *)
(* four bits of bytes 3, 7, 11 and 15 of r are clear, and the two lowest   *)
(* of bytes 4, 8 and 12.                                                   *)
CodeMasks == <<67108863, 67108611, 67092735, 66076671, 1048575>>
KeptBits ==
  {k \in 0..129 : (CodeMasks[(k \div 26) + 1] \div 2^(k % 26)) % 2 = 1}
ASSUME MasksAreClamping ==
  0..127 \ KeptBits =
    {8 * byte + b : byte \in {3, 7, 11, 15}, b \in 4..7}
      \cup {8 * byte + b : byte \in {4, 8, 12}, b \in 0..1}

(* The codec has its real widths and its real CRC: CRC16-CCITT of the nine  *)
(* digits 1 to 9 in ASCII is 0x29B1.  Only the limits on messages and       *)
(* frames are small, so that messages reach them.                          *)
ASSUME CrcCheckValue == crc16_ccitt([i \in 1..9 |-> 48 + i]) = 10673

(* In a behaviour about another part the codec rests on a message that no   *)
(* frame has room for.                                                     *)
TooLong == [i \in 1..4 |-> CHAT_SYNC_BYTE]

(* ChaCha20 on the examples of its RFC. *)
Rfc8439 == INSTANCE Rfc8439Examples
ChaCha20 == INSTANCE ChaCha20 WITH Jobs <- Rfc8439!Examples

(* Texts with a character that cannot be shown, and longer than there are  *)
(* displays.                                                               *)
MCTexts == {<<"H", "?", "a">>, <<"c", "O", "d", "E", " ", "9">>,
            <<"o", "?", "-", "b", "_", "2", "u", "L">>}

-----------------------------------------------------------------------------
AlgorithmsInit ==
  /\ topic \in Topics
  /\ Init /\ (topic # "poly1305" => r = Clamped(1) /\ s = 0)
  /\ IF topic = "codec" THEN CodecInit ELSE from \in Users /\ said = TooLong
  /\ ChaCha20!Init /\ (topic # "chacha20" => job = Rfc8439!PolyKeyJob)
  /\ PrintingInit
  /\ DisplaysInit /\ (topic # "displays" => display = Cleared)
  /\ GpioInit /\ (topic # "gpio" => gpio_data = gpio_dir)

AlgorithmsNext ==
  \/ /\ topic = "poly1305" /\ Next
     /\ UNCHANGED <<topic, codecVars, chachaVars, printed, displayVars, gpioVars>>
  \/ /\ topic = "codec" /\ CodecNext
     /\ UNCHANGED <<topic, polyVars, chachaVars, printed, displayVars, gpioVars>>
  \/ /\ topic = "chacha20" /\ ChaCha20!Next
     /\ UNCHANGED <<topic, polyVars, codecVars, printed, displayVars, gpioVars>>
  \/ /\ topic = "printing" /\ NextNumber
     /\ UNCHANGED <<topic, polyVars, codecVars, chachaVars, displayVars, gpioVars>>
  \/ /\ topic = "displays" /\ DisplaysNext
     /\ UNCHANGED <<topic, polyVars, codecVars, chachaVars, printed, gpioVars>>
  \/ /\ topic = "gpio" /\ GpioNext
     /\ UNCHANGED <<topic, polyVars, codecVars, chachaVars, printed, displayVars>>

AlgorithmsSpec ==
  AlgorithmsInit /\ [][AlgorithmsNext]_<<topic, polyVars, codecVars, chachaVars, printed,
                                         displayVars, gpioVars>>

-----------------------------------------------------------------------------
(* chacha20_xor gives the bytes that RFC 8439 prints, in one call or in two. *)
StreamIsRfc8439 == topic = "chacha20" => ChaCha20!StreamIsRfc8439
=============================================================================
