---------------------------- MODULE ChatProtocol ----------------------------
(***************************************************************************)
(* The wire codec of src/src/chat_protocol.c and the two encoders and two   *)
(* decoders built on it: send_user_message and process_frame of the board  *)
(* (src/src/main.c), encode_frame and decode_frame of the Python client.   *)
(* Every width is a parameter; the code has bytes of 8 bits and a CRC of   *)
(* two bytes.                                                              *)
(***************************************************************************)
EXTENDS Bytes, Sequences

CONSTANTS
  CRC_POLY,          \* polynomial of the CRC, two bytes wide (0x1021)
  CHAT_SYNC_BYTE,    \* 0xAA
  CHAT_ESCAPE_BYTE,  \* 0xAB
  CHAT_MAX_MESSAGE,  \* 127
  CHAT_MAX_FRAME     \* 256

CRC_SIZE == pow2[2 * BYTE_BITS]

ASSUME CodecAssumption ==
  /\ CRC_POLY \in 0..(CRC_SIZE - 1)
  /\ CRC_POLY % 2 = 1
  /\ CHAT_SYNC_BYTE \in Byte \ {0, 1, CHAT_ESCAPE_BYTE}
  /\ CHAT_ESCAPE_BYTE \in Byte
  /\ CHAT_MAX_MESSAGE \in Nat
  /\ CHAT_MAX_FRAME \in Nat
  /\ CHAT_MAX_FRAME <= BYTE_SIZE

-----------------------------------------------------------------------------
(* One bit of the CRC: shift left, and subtract the polynomial when a one   *)
(* falls out.                                                              *)
CrcBit(crc) ==
  IF 2 * crc >= CRC_SIZE THEN Xor((2 * crc) % CRC_SIZE, CRC_POLY) ELSE 2 * crc

(* A byte enters at the top; it takes as many turns as it has bits. *)
CrcByte(crc, byte) ==
  LET turn[j \in 0..BYTE_BITS] ==
        IF j = 0 THEN Xor(crc, byte * BYTE_SIZE) ELSE CrcBit(turn[j - 1])
  IN turn[BYTE_BITS]

crc16_ccitt(data) ==
  LET crc[i \in 0..Len(data)] ==  \* of the first i bytes
        IF i = 0 THEN CRC_SIZE - 1 ELSE CrcByte(crc[i - 1], data[i])
  IN crc[Len(data)]

-----------------------------------------------------------------------------
(* What a C function of this module returns: a length, -1 for failure, and *)
(* the bytes it has written.                                               *)
Failure == [len |-> -1, out |-> <<>>]
Success(bytes) == [len |-> Len(bytes), out |-> bytes]

(* The two reserved bytes become a pair. *)
Escaped_EscOnly(b) ==
  IF b = CHAT_ESCAPE_BYTE THEN <<CHAT_ESCAPE_BYTE, 1>> ELSE <<b>>
Escaped_SyncOnly(b) ==
  IF b = CHAT_SYNC_BYTE THEN <<CHAT_ESCAPE_BYTE, 0>> ELSE <<b>>
Escaped(b) ==
  CASE b = CHAT_SYNC_BYTE   -> <<CHAT_ESCAPE_BYTE, 0>>
    [] b = CHAT_ESCAPE_BYTE -> <<CHAT_ESCAPE_BYTE, 1>>
    [] OTHER                -> <<b>>

(* A byte is refused when fewer than two places are left, even if it needs *)
(* only one; after that test its escape code always fits.                  *)
Stuff(r, b, max_output) ==
  IF r.len = -1 \/ r.len >= max_output - 1
    THEN Failure
    ELSE Success(r.out \o Escaped(b))

byte_stuff(input, max_output) ==
  LET r[i \in 0..Len(input)] ==  \* of the first i bytes
        IF i = 0 THEN Success(<<>>) ELSE Stuff(r[i - 1], input[i], max_output)
  IN r[Len(input)]

(* Reading an escape: its code has been seen (a pair of values) or not yet. *)
Unescaped(code) ==
  CASE code = 0 -> Success(<<CHAT_SYNC_BYTE>>)
    [] code = 1 -> Success(<<CHAT_ESCAPE_BYTE>>)
    [] OTHER    -> Failure

(* One byte of the input.  Failure: no room, or an unknown code. *)
Refused(s, b, max_output) ==
  \/ s.r.len = -1
  \/ s.escape /\ Unescaped(b).len = -1
  \/ ~s.escape /\ s.r.len >= max_output

Unstuff(s, b, max_output) ==
  IF Refused(s, b, max_output)
    THEN [escape |-> FALSE, r |-> Failure]
    ELSE IF ~s.escape /\ b = CHAT_ESCAPE_BYTE
           THEN [escape |-> TRUE, r |-> s.r]
           ELSE [escape |-> FALSE,
                 r |-> Success(s.r.out \o IF s.escape THEN Unescaped(b).out ELSE <<b>>)]

(* An escape with nothing after it is a failure, too. *)
byte_unstuff(input, max_output) ==
  LET s[i \in 0..Len(input)] ==  \* after the first i bytes
        IF i = 0 THEN [escape |-> FALSE, r |-> Success(<<>>)]
          ELSE Unstuff(s[i - 1], input[i], max_output)
      end == s[Len(input)]
  IN IF end.escape THEN Failure ELSE end.r

-----------------------------------------------------------------------------
(* USER_ID, MESSAGE and the CRC over both, high byte first. *)
Payload(user_id, message) ==
  LET body == <<user_id>> \o message
      crc  == crc16_ccitt(body)
  IN body \o <<crc \div BYTE_SIZE, crc % BYTE_SIZE>>

(* The frame around a stuffed payload; the length is cast to one byte. *)
OnWire(stuffed) ==
  <<CHAT_SYNC_BYTE, CHAT_SYNC_BYTE, stuffed.len % BYTE_SIZE>> \o stuffed.out

(* The bytes send_user_message of main.c transmits, none when it refuses. *)
send_user_message(user_id, message) ==
  LET stuffed == byte_stuff(Payload(user_id, message), CHAT_MAX_FRAME) IN
    IF Len(message) \in 1..(CHAT_MAX_MESSAGE - 1) /\ stuffed.len > 0
      THEN OnWire(stuffed) ELSE <<>>

(* encode_frame of the client; bytes([... len ...]) refuses a length that   *)
(* is not a byte, byte_stuff one that is too long: either way ValueError.  *)
encode_frame(user_id, message) ==
  LET stuffed == byte_stuff(Payload(user_id, message), CHAT_MAX_FRAME) IN
    IF stuffed.len \in Byte THEN OnWire(stuffed) ELSE <<>>

(* The receiving half of process_frame and decode_frame: the user id and    *)
(* the message, both only if the frame is long enough and its CRC right.   *)
BadFrame == [ok |-> FALSE, user_id |-> 0, message |-> <<>>]
CrcMatches_Never(data, crc) == TRUE
CrcMatches(data, crc) == crc16_ccitt(data) = crc
decode_frame(stuffed) ==
  LET u == byte_unstuff(stuffed, CHAT_MAX_FRAME)
      n == u.len - 2
      crc == u.out[n + 1] * BYTE_SIZE + u.out[n + 2]
  IN IF u.len >= 4 /\ CrcMatches(SubSeq(u.out, 1, n), crc)
       THEN [ok |-> TRUE, user_id |-> u.out[1], message |-> SubSeq(u.out, 2, n)]
       ELSE BadFrame
=============================================================================
