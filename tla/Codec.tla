------------------------------- MODULE Codec -------------------------------
(***************************************************************************)
(* Every message up to a bound, one byte longer at each step, put through  *)
(* the codec of ChatProtocol: what one end encodes, the other must decode. *)
(***************************************************************************)
EXTENDS ChatProtocol

CONSTANTS
  Users,     \* the user ids on the line
  Alphabet,  \* the bytes messages are made of
  MaxLen     \* bound: length of the longest message

ASSUME MessagesAssumption ==
  /\ Users \subseteq Byte
  /\ Alphabet \subseteq Byte

VARIABLES from, said  \* the user id and the message

codecVars == <<from, said>>

CodecInit == from \in Users /\ said = <<>>

Extend(b) ==
  /\ Len(said) < MaxLen
  /\ said' = Append(said, b)
  /\ UNCHANGED from

CodecNext == \E b \in Alphabet : Extend(b)

CodecSpec == CodecInit /\ [][CodecNext]_codecVars

-----------------------------------------------------------------------------
ReadsBack(frame, user_id, message) ==
  LET stuffed == SubSeq(frame, 4, Len(frame))
  IN /\ frame[3] = Len(stuffed)
     /\ decode_frame(stuffed) = [ok |-> TRUE, user_id |-> user_id, message |-> message]

(* As many stuffed bytes as a byte has values are announced as none. *)
Unheard(frame) == Len(frame) = 3 + BYTE_SIZE /\ frame[3] = 0

RoundTrips(user_id, message) ==
  LET board  == send_user_message(user_id, message)
      client == encode_frame(user_id, message)
  IN message # <<>> =>
       /\ client # <<>> => ReadsBack(client, user_id, message)
       /\ board # <<>> => ReadsBack(board, user_id, message) \/ Unheard(board)

(* A frame either end sends is decoded by the other to the same user id and *)
(* message, with a length byte that tells where it ends (send_user_message, *)
(* encode_frame, decode_frame).  There is one exception: 256 stuffed bytes, *)
(* which the client refuses and the board announces as none (main.c:90),   *)
(* a length that no receiver takes.                                        *)
FrameRoundTrip == RoundTrips(from, said)

StuffsAllSyncs(user_id, message) ==
  LET stuffed == byte_stuff(Payload(user_id, message), CHAT_MAX_FRAME)
  IN \A i \in 1..stuffed.len : stuffed.out[i] # CHAT_SYNC_BYTE

(* PROTOCOL.md, "Byte Stuffing": no sync byte after the header, so that a   *)
(* receiver that has lost a frame finds the next one (byte_stuff).         *)
NoSyncInside == StuffsAllSyncs(from, said)

(* Noise on the line changes one byte of the stuffed frame, without making  *)
(* or unmaking an escape, which would move all the bytes behind it.        *)
OneByteDamaged(s) ==
  {[s EXCEPT ![i] = b] : i \in {j \in DOMAIN s : s[j] # CHAT_ESCAPE_BYTE},
                         b \in Byte \ {CHAT_ESCAPE_BYTE}}

DetectsDamage(user_id, message) ==
  LET stuffed == byte_stuff(Payload(user_id, message), CHAT_MAX_FRAME) IN
    stuffed.len > 0 =>
      \A s \in OneByteDamaged(stuffed.out) \ {stuffed.out} : ~decode_frame(s).ok

(* What the CRC is there for: such a frame is rejected, never delivered as  *)
(* another message, wherever the damage is, the CRC bytes included         *)
(* (crc16_ccitt, decode_frame).                                            *)
DamageIsRejected == DetectsDamage(from, said)
=============================================================================
