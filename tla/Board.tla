-------------------------------- MODULE Board --------------------------------
(***************************************************************************)
(* The firmware as a whole: the main loop of src/src/main.c with the        *)
(* receive ring of RxRing, the framer of Framer, the codec of ChatProtocol *)
(* and the cipher of Aead, interrupted at any memory access by the UART    *)
(* receiver and by the send button.  Frames, damaged frames and fragments  *)
(* arrive on the line in any order and with any pauses.                    *)
(*                                                                         *)
(* process_frame and send_message are one step each: they work on what no  *)
(* interrupt handler touches, so bytes that arrive while they transmit are *)
(* bytes that arrive just before or just after.                            *)
(***************************************************************************)
EXTENDS Aead, ChatProtocol, FiniteSets

CONSTANTS
  UART_RX_BUFFER_SIZE,  \* slots of the receive ring (256)
  TIMEOUT_TICKS,        \* limit of check_timeout (1000)
  UINT_MAX,             \* the largest unsigned int
  USER_ID_BOARD,        \* 0x00
  ButtonMessage,        \* the text send_message makes of the switches
  Chunks,               \* what may come over the line, see below
  MaxEvents,            \* bound: presses in one behaviour; a chunk counts twice
  MaxArrivals           \* bound: bytes that arrive in one behaviour

(* A chunk is a run of bytes on the line, [bytes |-> ..., says |-> ...]:    *)
(* says is the [user_id, text] that a whole frame carries, Nothing for a   *)
(* damaged frame or a fragment of one.                                     *)
Nothing == [user_id |-> -1, text |-> <<>>]

ASSUME BoardAssumption ==
  /\ Byte \subseteq Nat
  /\ 0 \in Byte
  /\ CHAT_SYNC_BYTE \in Byte
  /\ CHAT_MAX_FRAME \in Nat \ {0}
  /\ TIMEOUT_TICKS \in Nat
  /\ UINT_MAX \in Nat
  /\ TIMEOUT_TICKS < UINT_MAX
  /\ UART_RX_BUFFER_SIZE \in Nat
  /\ UART_RX_BUFFER_SIZE >= 2
  /\ MaxArrivals \in Nat
  /\ \A chunk \in Chunks : chunk.bytes \in Seq(Byte)

VARIABLES
  \* the receive ring and where main is in its loop, as in RxRing
  rx_buffer, rx_buffer_head, rx_buffer_tail, rx_bytes_received,
  pc, loaded, c, total_bytes_received, arrived,
  \* the framer, as in Framer
  state, buffer, index, expected_length, inactivity_ticks, has_frame,
  ready_length,
  \* the rest of the firmware
  send_flag,     \* set by the button interrupt, cleared by main
  s_nonce_ctr,   \* the next nonce of aead.c
  led,           \* LED 0
  \* the world outside
  line,          \* bytes of the chunk under way that are still to arrive
  chunks,        \* chunks begun
  button,        \* level of the button
  btn_edge,      \* its edge capture bit: an interrupt is pending
  presses,       \* presses so far
  \* history
  due,           \* what the whole frames so far said, in order
  tx,            \* the frames transmitted: [frame, from], from the button or the line
  pressed,       \* a press has been seen and nothing sent since
  spoilt,        \* since the board was last settled at the begin of a chunk, a
                 \* byte was dropped, a timeout struck or a chunk was no frame
  missed         \* whole frames unanswered when it was last settled

ringVars == <<rx_buffer, rx_buffer_head, rx_buffer_tail, rx_bytes_received,
              loaded, c, total_bytes_received, arrived>>
framerVars == <<state, buffer, index, expected_length, inactivity_ticks,
                has_frame, ready_length>>
appVars == <<send_flag, s_nonce_ctr, led, tx, pressed>>
lineVars == <<line, chunks, due>>
buttonVars == <<button, btn_edge, presses>>
vars == <<ringVars, pc, framerVars, appVars, lineVars, buttonVars, spoilt,
          missed>>

Events == 2 * chunks + presses

Ring == INSTANCE RxRing
Framer == INSTANCE Framer

Init ==
  /\ Ring!Init
  /\ Framer!Init
  /\ send_flag = 0
  /\ s_nonce_ctr = 1
  /\ led = 0
  /\ line = <<>>
  /\ chunks = 0
  /\ button = 0
  /\ btn_edge = 0
  /\ presses = 0
  /\ due = <<>>
  /\ tx = <<>>
  /\ pressed = FALSE
  /\ spoilt = FALSE
  /\ missed = 0

-----------------------------------------------------------------------------
(* The world outside, and the interrupt handlers. *)

(* No byte of the line is still on its way through the board. *)
Drained ==
  /\ line = <<>>
  /\ rx_buffer_head = rx_buffer_tail
  /\ pc \in {"empty", "clear", "send", "toggle", "tick"}

Settled == Drained /\ state = "PLAINTEXT"

(* The frames transmitted that answer a frame from the line. *)
Answers == {i \in DOMAIN tx : tx[i].from = "line"}

(* The next chunk begins on the line. *)
NewChunk(chunk) ==
  /\ line = <<>>
  /\ Events + 2 <= MaxEvents
  /\ line' = chunk.bytes
  /\ chunks' = chunks + 1
  /\ due' = IF chunk.says = Nothing THEN due ELSE Append(due, chunk.says)
  /\ spoilt' = ((spoilt /\ ~Settled) \/ chunk.says = Nothing)
  /\ missed' = IF Settled THEN Len(due) - Cardinality(Answers) ELSE missed
  /\ UNCHANGED <<ringVars, pc, framerVars, appVars, buttonVars>>

(* A byte is complete: uart_rx_isr pushes it, or drops it. *)
UartRxIsr ==
  /\ line # <<>>
  /\ Ring!UartRxIsr(Head(line))
  /\ line' = Tail(line)
  /\ spoilt' = (spoilt \/ Ring!Full)
  /\ UNCHANGED <<chunks, due, missed, framerVars, appVars, buttonVars>>

Press ==
  /\ button = 0
  /\ Events < MaxEvents
  /\ button' = 1
  /\ btn_edge' = 1
  /\ presses' = presses + 1
  /\ UNCHANGED <<ringVars, pc, framerVars, appVars, lineVars, spoilt, missed>>

(* A finger stays on the button until the interrupt has been taken. *)
Release ==
  /\ button = 1
  /\ btn_edge = 0
  /\ button' = 0
  /\ btn_edge' = 1
  /\ UNCHANGED <<ringVars, pc, framerVars, appVars, lineVars, presses, spoilt, missed>>

my_button_handler(button_state) ==
  send_flag' = IF button_state = 1 THEN 1 ELSE send_flag

(* handle_interrupt reads the level, clears the capture bit and calls the   *)
(* handler.                                                                *)
ButtonIsr ==
  /\ btn_edge = 1
  /\ btn_edge' = 0
  /\ my_button_handler(button)
  /\ pressed' = (pressed \/ button = 1)
  /\ UNCHANGED <<ringVars, pc, framerVars, lineVars, s_nonce_ctr, led, tx,
                 button, presses, spoilt, missed>>

-----------------------------------------------------------------------------
(* The inner loop of main: a byte is popped as RxRing says ... *)
PopStep ==
  /\ \/ Ring!UartRxAvailable
     \/ Ring!GetcTest
     \/ Ring!GetcLoad
     \/ Ring!GetcAdvance
  /\ UNCHANGED <<framerVars, appVars, lineVars, buttonVars, spoilt, missed>>

(* ... and fed; when that completes a frame, process_frame is called.       *)
AfterFeed_NeverProcesses == "poll"
AfterFeed_SkipsPoll == IF Framer!FrameReady THEN "process" ELSE "getc"
AfterFeed == IF Framer!FrameReady THEN "process" ELSE "poll"
FeedByte ==
  /\ pc = "got"
  /\ Framer!FeedByte(c)
  /\ pc' = AfterFeed
  /\ UNCHANGED <<ringVars, appVars, lineVars, buttonVars, spoilt, missed>>

(* What a transmission adds to tx, nothing when send_user_message refuses;   *)
(* uart_tx_char and uart_tx_bytes wait out every bit: when they return, the *)
(* whole frame has been on the line.                                       *)
Sent(from, frame) ==
  IF frame = <<>> THEN <<>> ELSE <<[frame |-> frame, from |-> from]>>

(* transform_message: the board's own id asks for encryption, any other for *)
(* decryption.                                                             *)
Transformed(ctr, user_id, message) ==
  IF user_id = USER_ID_BOARD
    THEN aead_encrypt_pack(ctr, message, CHAT_MAX_MESSAGE)
    ELSE aead_decrypt_unpack(message, CHAT_MAX_MESSAGE)

ConsumesNonce(user_id, message) ==
  user_id = USER_ID_BOARD /\ Fits(message, CHAT_MAX_MESSAGE)

(* What process_frame makes of a payload: a bad frame and a failed          *)
(* transform end it early, send_user_message may refuse the answer.        *)
Answer(ctr, payload) ==
  LET in  == decode_frame(payload)
      alt == Transformed(ctr, in.user_id, in.message)
  IN IF in.ok /\ alt.len >= 0
       THEN [done |-> TRUE, frame |-> send_user_message(in.user_id, alt.out)]
       ELSE [done |-> FALSE, frame |-> <<>>]

(* A chunk that says something is a frame of the wire format, and one that  *)
(* the board answers whatever its nonce counter is.                        *)
WholeChunk(chunk) ==
  LET payload == SubSeq(chunk.bytes, 4, Len(chunk.bytes)) IN
    /\ chunk.bytes = <<CHAT_SYNC_BYTE, CHAT_SYNC_BYTE, Len(payload)>> \o payload
    /\ Len(payload) \in Byte \cap 1..CHAT_MAX_FRAME
    /\ \A ctr \in 0..(CTR_SIZE - 1) : Answer(ctr, payload).frame # <<>>

ASSUME ChunksAssumption ==
  \A chunk \in Chunks : chunk.says # Nothing => WholeChunk(chunk)

(* process_frame; the LED is toggled even when the answer was refused. *)
ProcessFrame ==
  LET in     == decode_frame(Framer!Taken)
      answer == Answer(s_nonce_ctr, Framer!Taken)
  IN /\ pc = "process"
     /\ Framer!Take
     /\ tx' = tx \o Sent("line", answer.frame)
     /\ led' = IF answer.done THEN 1 - led ELSE led
     /\ s_nonce_ctr' = IF in.ok /\ ConsumesNonce(in.user_id, in.message)
                         THEN NextCtr(s_nonce_ctr) ELSE s_nonce_ctr
     /\ pc' = "poll"
     /\ UNCHANGED <<ringVars, send_flag, pressed, lineVars, buttonVars, spoilt, missed>>

(* if (send_flag), after the inner loop. *)
TestSendFlag ==
  /\ pc = "empty"
  /\ pc' = IF send_flag = 1 THEN "clear" ELSE "tick"
  /\ UNCHANGED <<ringVars, framerVars, appVars, lineVars, buttonVars, spoilt, missed>>

ClearSendFlag ==
  /\ pc = "clear"
  /\ send_flag' = 0
  /\ pc' = "send"
  /\ UNCHANGED <<ringVars, framerVars, s_nonce_ctr, led, tx, pressed, lineVars,
                 buttonVars, spoilt, missed>>

(* send_message reads the switches and transmits, without encryption ... *)
SendMessage ==
  /\ pc = "send"
  /\ tx' = tx \o Sent("button", send_user_message(USER_ID_BOARD, ButtonMessage))
  /\ pressed' = FALSE
  /\ pc' = "toggle"
  /\ UNCHANGED <<ringVars, framerVars, send_flag, s_nonce_ctr, led, lineVars,
                 buttonVars, spoilt, missed>>

(* ... and toggles the LED; send_flag may have been set again meanwhile. *)
FlagAfterSend_Cleared == 0
FlagAfterSend == send_flag
ToggleLed ==
  /\ pc = "toggle"
  /\ led' = 1 - led
  /\ send_flag' = FlagAfterSend
  /\ pc' = "tick"
  /\ UNCHANGED <<ringVars, framerVars, s_nonce_ctr, tx, pressed, lineVars,
                 buttonVars, spoilt, missed>>

(* Timeout recovery, and round again. *)
Tick ==
  /\ pc = "tick"
  /\ \/ Framer!TimeoutRecovery
     \/ state = "PLAINTEXT" /\ UNCHANGED framerVars
  /\ pc' = "poll"
  /\ spoilt' = (spoilt \/ (state # "PLAINTEXT" /\ state' = "PLAINTEXT"))
  /\ UNCHANGED <<ringVars, appVars, lineVars, buttonVars, missed>>

Main ==
  \/ PopStep
  \/ FeedByte
  \/ ProcessFrame
  \/ TestSendFlag
  \/ ClearSendFlag
  \/ SendMessage
  \/ ToggleLed
  \/ Tick

Next ==
  \/ Main
  \/ \E chunk \in Chunks : NewChunk(chunk)
  \/ UartRxIsr
  \/ Press
  \/ Release
  \/ ButtonIsr

Spec == Init /\ [][Next]_vars

(* Main never stops: it has a step at every place (with UsesFramerProperly,  *)
(* ProcessFrame is never without a frame), so its weak fairness is that it *)
(* goes on for ever.  A pending interrupt is taken.  The sender, the line  *)
(* and the finger owe nothing.                                             *)
FairSpec == Spec /\ []<><<Main>>_pc /\ WF_vars(ButtonIsr)

-----------------------------------------------------------------------------
Places == {"poll", "getc", "load", "advance", "got", "process", "empty",
           "clear", "send", "toggle", "tick"}

TypeOK ==
  /\ Framer!TypeOK
  /\ rx_buffer \in [Ring!Slots -> Byte]
  /\ {rx_buffer_head, rx_buffer_tail} \subseteq Ring!Slots
  /\ pc \in Places
  /\ send_flag \in {0, 1}
  /\ s_nonce_ctr \in 0..(CTR_SIZE - 1)
  /\ led \in {0, 1}
  /\ button \in {0, 1}
  /\ btn_edge \in {0, 1}
  /\ pressed \in BOOLEAN
  /\ spoilt \in BOOLEAN

(* What a peer that holds the key reads in a transmitted frame. *)
ReadBy(frame) ==
  LET in == decode_frame(SubSeq(frame, 4, Len(frame)))
      pt == aead_decrypt_unpack(in.message, CHAT_MAX_MESSAGE)
  IN [user_id |-> in.user_id,
      text    |-> IF in.user_id = USER_ID_BOARD THEN pt.out ELSE in.message]

(* The answers, as their readers read them. *)
AnswersRead ==
  LET fromLine(t) == t.from = "line"
      answers     == SelectSeq(tx, fromLine)
  IN [i \in DOMAIN answers |-> ReadBy(answers[i].frame)]

IsSubsequence(p, q) ==
  \E f \in [DOMAIN p -> DOMAIN q] :
    /\ \A i, j \in DOMAIN p : i < j => f[i] < f[j]
    /\ \A i \in DOMAIN p : p[i] = q[f[i]]

(* Every answer repeats what a whole frame on the line said, once and in    *)
(* order: damage, fragments, dropped bytes and timeouts can suppress an    *)
(* answer but neither forge nor duplicate one.                             *)
OnlyIntactFramesAnswered == IsSubsequence(AnswersRead, due)

(* Whatever came before, a frame that begins on a settled board and runs    *)
(* into no full ring, no timeout and no broken frame has been answered by  *)
(* the time main has worked off the ring: none sticks in the framer, and   *)
(* no fragment or damage keeps the board from the frames after it.         *)
EveryFrameAnswered ==
  Drained /\ ~spoilt => Len(due) - Cardinality(Answers) = missed

(* A press whose interrupt comes between the test of send_flag, its reset   *)
(* and the transmission is not forgotten.                                  *)
PressRemembered ==
  pressed => send_flag = 1 \/ pc = "send"

(* Once the line falls silent, a press is followed by a transmission. *)
PressIsSent == pressed ~> ~pressed

(* Main uses the framer as Framer assumes: a frame is taken before the next *)
(* byte is fed, and only when there is one.                                *)
UsesFramerProperly == Framer!Spec

(* With the places of Board mapped to those of RxRing, the board's loop is  *)
(* the loop that RxRing studies, and its proofs apply.                     *)
RingView == INSTANCE RxRing WITH
  pc <- CASE pc = "process" -> "got"
          [] pc \in {"clear", "send", "toggle", "tick"} -> "empty"
          [] OTHER -> pc

UsesRingProperly == RingView!Spec
=============================================================================
