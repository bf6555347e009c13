------------------------------- MODULE Framer -------------------------------
(***************************************************************************)
(* The byte-wise framer of src/src/chat_framer.c, driven as src/src/main.c  *)
(* drives it: one feed for every byte popped from the receive ring, a take *)
(* right after a feed that reports a frame, and one tick with a timeout    *)
(* check for every round of the outer loop.                                *)
(***************************************************************************)
EXTENDS Integers, Sequences

CONSTANTS
  Byte,            \* the values a byte can take
  CHAT_SYNC_BYTE,  \* starts a frame when sent twice (0xAA)
  CHAT_MAX_FRAME,  \* size of the buffer (256)
  TIMEOUT_TICKS,   \* the limit main passes to check_timeout (1000)
  UINT_MAX         \* the largest unsigned int (2^32 - 1)

ASSUME FramerAssumption ==
  /\ Byte \subseteq Nat
  /\ 0 \in Byte
  /\ CHAT_SYNC_BYTE \in Byte
  /\ CHAT_MAX_FRAME \in Nat \ {0}
  /\ TIMEOUT_TICKS \in Nat
  /\ UINT_MAX \in Nat
  /\ TIMEOUT_TICKS < UINT_MAX

VARIABLES
  state,            \* PLAINTEXT, SYNC1, SYNC2 or DATA
  buffer,           \* payload bytes collected so far, indexed from 0
  index,            \* where the next payload byte goes
  expected_length,  \* the LEN byte of the frame under way
  inactivity_ticks, \* rounds of the outer loop since the last byte
  has_frame,        \* a complete payload is in the buffer
  ready_length      \* and this is its length

vars == <<state, buffer, index, expected_length, inactivity_ticks, has_frame,
          ready_length>>

States == {"PLAINTEXT", "SYNC1", "SYNC2", "DATA"}

-----------------------------------------------------------------------------
(* chat_framer_init; the buffer is static and starts as zeroes. *)
Init ==
  /\ state = "PLAINTEXT"
  /\ buffer = [i \in 0..(CHAT_MAX_FRAME - 1) |-> 0]
  /\ index = 0
  /\ expected_length = 0
  /\ inactivity_ticks = 0
  /\ has_frame = 0
  /\ ready_length = 0

FeedPlaintext(b) ==
  /\ state = "PLAINTEXT"
  /\ state' = IF b = CHAT_SYNC_BYTE THEN "SYNC1" ELSE "PLAINTEXT"
  /\ UNCHANGED <<buffer, index, expected_length, has_frame, ready_length>>

FeedSync1(b) ==
  /\ state = "SYNC1"
  /\ state' = IF b = CHAT_SYNC_BYTE THEN "SYNC2" ELSE "PLAINTEXT"
  /\ UNCHANGED <<buffer, index, expected_length, has_frame, ready_length>>

(* A length the buffer can hold starts the payload; any other ends it. *)
Accepts_NoMaximum(b) == b > 0
Accepts(b) == b > 0 /\ b <= CHAT_MAX_FRAME

FeedSync2_KeepsIndex(b) ==
  /\ state = "SYNC2"
  /\ IF Accepts(b)
       THEN expected_length' = b /\ state' = "DATA"
       ELSE state' = "PLAINTEXT" /\ UNCHANGED expected_length
  /\ UNCHANGED <<index, buffer, has_frame, ready_length>>
FeedSync2(b) ==
  /\ state = "SYNC2"
  /\ IF Accepts(b)
       THEN expected_length' = b /\ index' = 0 /\ state' = "DATA"
       ELSE state' = "PLAINTEXT" /\ UNCHANGED <<expected_length, index>>
  /\ UNCHANGED <<buffer, has_frame, ready_length>>

(* A payload byte is stored; the last one makes a frame.  The first branch  *)
(* is CHAT_FRAMER_ERROR, which NeverOverruns shows is never returned.      *)
FeedData_OneTooMany(b) ==
  /\ state = "DATA"
  /\ IF index >= CHAT_MAX_FRAME
       THEN /\ state' = "PLAINTEXT"
            /\ index' = 0
            /\ UNCHANGED <<buffer, has_frame, ready_length>>
       ELSE /\ buffer' = [buffer EXCEPT ![index] = b]
            /\ index' = index + 1
            /\ IF index + 1 > expected_length
                 THEN /\ has_frame' = 1
                      /\ ready_length' = expected_length
                      /\ state' = "PLAINTEXT"
                 ELSE UNCHANGED <<state, has_frame, ready_length>>
  /\ UNCHANGED expected_length
FeedData(b) ==
  /\ state = "DATA"
  /\ IF index >= CHAT_MAX_FRAME
       THEN /\ state' = "PLAINTEXT"
            /\ index' = 0
            /\ UNCHANGED <<buffer, has_frame, ready_length>>
       ELSE /\ buffer' = [buffer EXCEPT ![index] = b]
            /\ index' = index + 1
            /\ IF index + 1 >= expected_length
                 THEN /\ has_frame' = 1
                      /\ ready_length' = expected_length
                      /\ state' = "PLAINTEXT"
                 ELSE UNCHANGED <<state, has_frame, ready_length>>
  /\ UNCHANGED expected_length

(* The feed returns CHAT_FRAMER_FRAME_READY. *)
FrameReady == state = "DATA" /\ index < CHAT_MAX_FRAME /\ index + 1 >= expected_length

(* chat_framer_feed. *)
FeedByte(b) ==
  /\ inactivity_ticks' = 0
  /\ \/ FeedPlaintext(b)
     \/ FeedSync1(b)
     \/ FeedSync2(b)
     \/ FeedData(b)

(* main takes a frame before it feeds the next byte. *)
Feed(b) == has_frame = 0 /\ FeedByte(b)

(* chat_framer_tick adds in unsigned arithmetic and keeps the old value     *)
(* when the sum wraps.                                                     *)
Ticked(ticks) ==
  LET next == (inactivity_ticks + ticks) % (UINT_MAX + 1) IN
    IF next < inactivity_ticks THEN inactivity_ticks ELSE next

(* The timeout recovery of a round of main's outer loop: a tick, then the   *)
(* check.  Both do nothing in PLAINTEXT.                                   *)
TimeoutRecovery_KeepsState ==
  /\ state # "PLAINTEXT"
  /\ IF Ticked(1) > TIMEOUT_TICKS
       THEN /\ UNCHANGED state
            /\ index' = 0
            /\ expected_length' = 0
            /\ has_frame' = 0
            /\ ready_length' = 0
            /\ inactivity_ticks' = 0
       ELSE /\ inactivity_ticks' = Ticked(1)
            /\ UNCHANGED <<state, index, expected_length, has_frame, ready_length>>
  /\ UNCHANGED buffer
TimeoutRecovery ==
  /\ state # "PLAINTEXT"
  /\ IF Ticked(1) > TIMEOUT_TICKS
       THEN /\ state' = "PLAINTEXT"
            /\ index' = 0
            /\ expected_length' = 0
            /\ has_frame' = 0
            /\ ready_length' = 0
            /\ inactivity_ticks' = 0
       ELSE /\ inactivity_ticks' = Ticked(1)
            /\ UNCHANGED <<state, index, expected_length, has_frame, ready_length>>
  /\ UNCHANGED buffer

(* The bytes chat_framer_take copies out. *)
Taken == [i \in 1..ready_length |-> buffer[i - 1]]

(* chat_framer_take(f, out, CHAT_MAX_FRAME), called by process_frame right  *)
(* after the feed that completed the frame; it refuses a frame longer than *)
(* out and leaves it.                                                      *)
Take ==
  /\ has_frame = 1
  /\ IF ready_length > CHAT_MAX_FRAME
       THEN UNCHANGED <<has_frame, ready_length>>
       ELSE has_frame' = 0 /\ ready_length' = 0
  /\ UNCHANGED <<state, buffer, index, expected_length, inactivity_ticks>>

Next ==
  \/ \E b \in Byte : Feed(b)
  \/ TimeoutRecovery
  \/ Take

Spec == Init /\ [][Next]_vars

(* While a frame is under way or waiting to be taken, the main loop, which  *)
(* never stops, goes on: its next step on the framer feeds the next byte,  *)
(* takes the frame or, when no byte has come, counts a quiet round.        *)
Busy == state # "PLAINTEXT" \/ has_frame = 1

FairSpec == Spec /\ WF_vars(Busy /\ Next)

-----------------------------------------------------------------------------
TypeOK ==
  /\ state \in States
  /\ buffer \in [0..(CHAT_MAX_FRAME - 1) -> Byte]
  /\ index \in 0..CHAT_MAX_FRAME
  /\ expected_length \in 0..CHAT_MAX_FRAME
  /\ inactivity_ticks \in 0..UINT_MAX
  /\ has_frame \in {0, 1}
  /\ ready_length \in 0..CHAT_MAX_FRAME

(* The payload never outgrows the length it announced nor the buffer: the   *)
(* overrun test of chat_framer_feed, which returns CHAT_FRAMER_ERROR that  *)
(* main ignores, is never what saves the buffer.                           *)
NeverOverruns ==
  state = "DATA" => index < expected_length /\ expected_length <= CHAT_MAX_FRAME

(* The bytes of the frame under way, read back from state and buffer. *)
Pending ==
  CASE state = "PLAINTEXT" -> <<>>
    [] state = "SYNC1" -> <<CHAT_SYNC_BYTE>>
    [] state = "SYNC2" -> <<CHAT_SYNC_BYTE, CHAT_SYNC_BYTE>>
    [] state = "DATA" -> <<CHAT_SYNC_BYTE, CHAT_SYNC_BYTE, expected_length>>
                           \o [i \in 1..index |-> buffer[i - 1]]

Decoder == INSTANCE FrameDecoder WITH
             pending <- Pending,
             frame   <- IF has_frame = 1 THEN Taken ELSE <<>>,
             quiet   <- inactivity_ticks

(* A byte fed is never ignored or taken for another, which a step of        *)
(* Decoder!Spec, where bytes have no name, could hide as a stutter.        *)
HearsEveryByte == \A b \in Byte : Feed(b) => Decoder!Feed(b)

(* The state machine recognises exactly the frames of the wire format: it   *)
(* hands over the payload the header announced, byte for byte, forgets a   *)
(* partial frame at the byte that breaks it, and gives up only when quiet. *)
ImplementsFrameDecoder == Decoder!Spec /\ [][HearsEveryByte]_vars

(* No prefix, however cut, leaves the framer waiting for ever: it is back   *)
(* in PLAINTEXT in the end, by more bytes or by the timeout.               *)
FramerRecovers == state # "PLAINTEXT" ~> state = "PLAINTEXT"
=============================================================================
