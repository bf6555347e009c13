------------------------------- MODULE Client -------------------------------
(***************************************************************************)
(* The Python client of src/chat_client_protocol.py: the main thread, which *)
(* reads lines and sends them, the receive thread, which decodes what the  *)
(* bridge delivers, and the stop_event and the socket they share.  TCP     *)
(* delivers the bytes in order; the bridge may close or reset the          *)
(* connection at any time.                                                 *)
(***************************************************************************)
EXTENDS Aead, ChatProtocol

CONSTANTS
  USER_ID_BOARD,  \* 0x00: a client with this id leaves the cipher to the board
  ClientId,       \* the id this client runs under
  RECV_MAX,       \* the most bytes one recv returns (1024)
  NotUtf8,        \* the texts that are not UTF-8
  NotPrintable,   \* the texts that are, but not in the output's encoding
  Chunks,         \* what may come from the bridge, see below
  MaxChunks,      \* bound: chunks in one behaviour
  Lines,          \* the lines that may be typed, <<>> is a blank one
  MaxLines        \* bound: lines in one behaviour

(* A chunk is a run of bytes, [bytes |-> ..., whole |-> ..., says |-> ...]: *)
(* whole when it is a frame with the right CRC, and then says is what it   *)
(* holds for this client: <<[user_id, text]>>, <<>> for an echo of its own.*)
(* A text is told as it is displayed, see Readout.                         *)

ASSUME ClientAssumption ==
  /\ Byte \subseteq Nat
  /\ CHAT_SYNC_BYTE \in Byte
  /\ CHAT_MAX_FRAME \in Nat
  /\ RECV_MAX \in Nat
  /\ \A chunk \in Chunks : chunk.bytes \in Seq(Byte) /\ chunk.whole \in BOOLEAN
  /\ ClientId \in Byte
  /\ Lines \subseteq Seq(Byte)

(* The keystream is made of bytes, and so is a tag, TAG_LEN of them. *)
ASSUME CipherAssumption ==
  \A ctr \in 0..(CTR_SIZE - 1), line \in Lines :
    LET nonce == Nonce(ctr)
        tag   == Mac(nonce, chacha20_xor(nonce, line))
    IN /\ \A i \in 1..Len(line) : Keystream(nonce, i) \in Byte
       /\ tag \in Seq(Byte)
       /\ Len(tag) = TAG_LEN

VARIABLES
  \* shared by the two threads
  stop_event,
  sock,                \* the client's end: "open" or "closed"
  \* the receive thread
  rx,                  \* where it is: top, select, recv, bytes or frame; gone,
                       \* or failed: it has died of a text it was to display
  data,                \* what recv has returned and is still to be processed
  rx_state,            \* PLAINTEXT, SYNC1, SYNC2 or DATA
  rx_frame_buffer,
  rx_expected_length,
  \* the main thread
  main,                \* top, input, check, send, stop, close, return or done
  message,             \* the line it has read
  s_nonce_ctr,         \* the nonce counter of its copy of aead.c
  \* the world outside
  stream,              \* bytes that have arrived and wait for recv
  peer,                \* the bridge's end: "open", "closed" or "reset"
  chunks,              \* chunks so far
  lines,               \* lines typed so far
  \* history
  due,                 \* what the whole frames so far said to this client
  shown,               \* the messages displayed: [user_id, text]
  raw,                 \* the bytes printed as they came, outside frames
  spoken,              \* the lines that were sent
  sent,                \* and the frames that carried them
  late,                \* message was typed after stop_event
  complained,          \* an error was displayed while the client was running
  spoilt,              \* since the client was last settled when a chunk
                       \* arrived, one was no whole frame
  missed               \* whole frames not shown when it was last settled

rxVars == <<data, rx_state, rx_frame_buffer, rx_expected_length, shown, raw>>
mainVars == <<message, s_nonce_ctr, spoken, sent, late>>
worldVars == <<peer, chunks, lines, due, spoilt, missed>>
vars == <<stop_event, sock, rx, rxVars, main, mainVars, stream, worldVars,
          complained>>

(* ChatClient.__init__, and connect has succeeded. *)
Init ==
  /\ stop_event = FALSE
  /\ sock = "open"
  /\ rx = "top"
  /\ data = <<>>
  /\ rx_state = "PLAINTEXT"
  /\ rx_frame_buffer = <<>>
  /\ rx_expected_length = 0
  /\ main = "top"
  /\ message = <<>>
  /\ s_nonce_ctr = 1
  /\ stream = <<>>
  /\ peer = "open"
  /\ chunks = 0
  /\ lines = 0
  /\ due = <<>>
  /\ shown = <<>>
  /\ raw = <<>>
  /\ spoken = <<>>
  /\ sent = <<>>
  /\ late = FALSE
  /\ complained = FALSE
  /\ spoilt = FALSE
  /\ missed = 0

-----------------------------------------------------------------------------
(* The world outside. *)

(* A whole payload waits for decode_frame, or keeps what could not be       *)
(* displayed.                                                              *)
Holding == rx \in {"frame", "failed"}

Drained == stream = <<>> /\ data = <<>> /\ ~Holding

Settled == Drained /\ rx_state = "PLAINTEXT"

Arrive(chunk) ==
  /\ peer = "open"
  /\ chunks < MaxChunks
  /\ chunks' = chunks + 1
  /\ stream' = stream \o chunk.bytes
  /\ due' = due \o chunk.says
  /\ spoilt' = ((spoilt /\ ~Settled) \/ ~chunk.whole)
  /\ missed' = IF Settled THEN Len(due) - Len(shown) ELSE missed
  /\ UNCHANGED <<stop_event, sock, rx, rxVars, main, mainVars, peer, lines,
                 complained>>

Disconnect ==
  /\ peer = "open"
  /\ peer' \in {"closed", "reset"}
  /\ UNCHANGED <<stop_event, sock, rx, rxVars, main, mainVars, stream, chunks,
                 lines, due, spoilt, missed, complained>>

-----------------------------------------------------------------------------
(* receive_thread.  It is a daemon thread: once the main thread has         *)
(* returned it takes no more steps.                                        *)

(* while self.running *)
RxTop ==
  /\ rx = "top"
  /\ rx' = IF stop_event THEN "gone" ELSE "select"
  /\ UNCHANGED <<stop_event, rxVars, stream, complained>>

(* except Exception: an error is displayed unless the client is stopping,   *)
(* and the thread ends; it does not stop the client.                       *)
Raise ==
  /\ rx' = "gone"
  /\ complained' = (complained \/ ~stop_event)
  /\ UNCHANGED <<stop_event, rxVars, stream>>

Readable == stream # <<>> \/ peer # "open"

(* select for a tenth of a second. *)
RxSelect ==
  /\ rx = "select"
  /\ \/ sock = "closed" /\ Raise
     \/ /\ sock = "open"
        /\ Readable
        /\ rx' = "recv"
        /\ UNCHANGED <<stop_event, rxVars, stream, complained>>
     \/ /\ sock = "open"
        /\ ~Readable
        /\ rx' = "top"
        /\ UNCHANGED <<stop_event, rxVars, stream, complained>>

RxRecv ==
  /\ rx = "recv"
  /\ \/ sock = "closed" /\ Raise
     \/ /\ sock = "open"
        /\ stream # <<>>
        /\ \E n \in 1..RECV_MAX :
             /\ n <= Len(stream)
             /\ data' = SubSeq(stream, 1, n)
             /\ stream' = SubSeq(stream, n + 1, Len(stream))
        /\ rx' = "bytes"
        /\ UNCHANGED <<stop_event, rx_state, rx_frame_buffer,
                       rx_expected_length, shown, raw, complained>>
     \/ /\ sock = "open"
        /\ stream = <<>>
        /\ peer = "closed"
        /\ stop_event' = TRUE
        /\ rx' = "gone"
        /\ UNCHANGED <<rxVars, stream, complained>>
     \/ sock = "open" /\ peer = "reset" /\ Raise

(* process_rx_byte up to the frame's last byte.  What is in no frame is     *)
(* printed, the first sync byte of a broken header excepted.               *)
ByteInPlaintext(b) ==
  /\ rx_state = "PLAINTEXT"
  /\ IF b = CHAT_SYNC_BYTE
       THEN rx_state' = "SYNC1" /\ UNCHANGED raw
       ELSE UNCHANGED rx_state /\ raw' = Append(raw, b)
  /\ UNCHANGED <<rx, rx_frame_buffer, rx_expected_length>>

ByteInSync1_Stays(b) ==
  /\ rx_state = "SYNC1"
  /\ IF b = CHAT_SYNC_BYTE
       THEN rx_state' = "SYNC2" /\ UNCHANGED raw
       ELSE UNCHANGED rx_state /\ raw' = Append(raw, b)
  /\ UNCHANGED <<rx, rx_frame_buffer, rx_expected_length>>
ByteInSync1(b) ==
  /\ rx_state = "SYNC1"
  /\ IF b = CHAT_SYNC_BYTE
       THEN rx_state' = "SYNC2" /\ UNCHANGED raw
       ELSE rx_state' = "PLAINTEXT" /\ raw' = Append(raw, b)
  /\ UNCHANGED <<rx, rx_frame_buffer, rx_expected_length>>

ByteInSync2(b) ==
  /\ rx_state = "SYNC2"
  /\ IF b > 0 /\ b <= CHAT_MAX_FRAME
       THEN rx_expected_length' = b /\ rx_frame_buffer' = <<>> /\ rx_state' = "DATA"
       ELSE rx_state' = "PLAINTEXT" /\ UNCHANGED <<rx_expected_length, rx_frame_buffer>>
  /\ UNCHANGED <<rx, raw>>

LastByte_Early == Len(rx_frame_buffer) + 2 >= rx_expected_length
LastByte_OffByOne == Len(rx_frame_buffer) + 1 > rx_expected_length
LastByte == Len(rx_frame_buffer) + 1 >= rx_expected_length

ByteInData(b) ==
  /\ rx_state = "DATA"
  /\ rx_frame_buffer' = Append(rx_frame_buffer, b)
  /\ rx' = IF LastByte THEN "frame" ELSE "bytes"
  /\ UNCHANGED <<rx_state, rx_expected_length, raw>>

RxByte ==
  /\ rx = "bytes"
  /\ data # <<>>
  /\ data' = Tail(data)
  /\ LET b == Head(data) IN
       ByteInPlaintext(b) \/ ByteInSync1(b) \/ ByteInSync2(b) \/ ByteInData(b)
  /\ UNCHANGED <<stop_event, stream, shown, complained>>

(* The wrapper aead_decrypt: room for any plain text the message can hold.  *)
aead_decrypt(packed) ==
  LET max_pt == Len(packed) - (NONCE_LEN + TAG_LEN) IN
    IF max_pt < 0 THEN AeadFailure ELSE aead_decrypt_unpack(packed, max_pt + 1)

(* What cannot be deciphered is taken as it came. *)
_try_decrypt(text) ==
  LET pt == aead_decrypt(text) IN
    IF ClientId = USER_ID_BOARD \/ pt.len < 0 THEN text ELSE pt.out

(* A text as it is displayed: of one that is not UTF-8 only the length. *)
Readout(packed) ==
  LET text == _try_decrypt(packed) IN
    IF text \in NotUtf8 THEN <<"binary", Len(text)>> ELSE <<"text", text>>

(* What the decoder must find in a chunk, told with the sender's side of    *)
(* Chunks: a payload of any valid length, with a right CRC, and its text.  *)
WholeChunk(chunk) ==
  LET payload == SubSeq(chunk.bytes, 4, Len(chunk.bytes))
      in      == decode_frame(payload)
  IN /\ Len(payload) \in Byte \cap 1..CHAT_MAX_FRAME
     /\ chunk.bytes = <<CHAT_SYNC_BYTE, CHAT_SYNC_BYTE, Len(payload)>> \o payload
     /\ in.ok
     /\ chunk.says = IF in.user_id = ClientId THEN <<>>
                      ELSE <<[user_id |-> in.user_id, text |-> Readout(in.message)]>>

ASSUME ChunksAssumption ==
  \A chunk \in Chunks :
    IF chunk.whole THEN WholeChunk(chunk) ELSE chunk.says = <<>>

(* The rest of process_rx_byte: the frame is decoded and, unless it is bad  *)
(* or an echo, displayed.                                                  *)
Heard(in) == in.ok /\ in.user_id # ClientId

(* print raises UnicodeEncodeError, which only receive_thread catches. *)
Undisplayable ==
  LET in == decode_frame(rx_frame_buffer)
  IN Heard(in) /\ _try_decrypt(in.message) \in NotPrintable \ NotUtf8

RxFrame ==
  /\ rx = "frame"
  /\ ~Undisplayable
  /\ LET in == decode_frame(rx_frame_buffer) IN
       shown' = IF Heard(in)
                  THEN Append(shown, [user_id |-> in.user_id,
                                      text |-> Readout(in.message)])
                  ELSE shown
  /\ rx_state' = "PLAINTEXT"
  /\ rx_frame_buffer' = <<>>
  /\ rx' = "bytes"
  /\ UNCHANGED <<stop_event, data, rx_expected_length, raw, stream, complained>>

RxFrameFails ==
  /\ rx = "frame"
  /\ Undisplayable
  /\ rx' = "failed"
  /\ complained' = (complained \/ ~stop_event)
  /\ UNCHANGED <<stop_event, rxVars, stream>>

RxBytesDone ==
  /\ rx = "bytes"
  /\ data = <<>>
  /\ rx' = "top"
  /\ UNCHANGED <<stop_event, rxVars, stream, complained>>

receive_thread ==
  /\ main # "done"
  /\ \/ RxTop
     \/ RxSelect
     \/ RxRecv
     \/ RxByte
     \/ RxFrame
     \/ RxFrameFails
     \/ RxBytesDone
  /\ UNCHANGED <<sock, main, mainVars, worldVars>>

-----------------------------------------------------------------------------
(* The main thread: run and send_message. *)

MainTop ==
  /\ main = "top"
  /\ main' = IF stop_event THEN "stop" ELSE "input"
  /\ UNCHANGED <<stop_event, sock, mainVars, lines>>

(* input() returns a line. *)
Input(l) ==
  /\ main = "input"
  /\ lines < MaxLines
  /\ lines' = lines + 1
  /\ message' = l
  /\ late' = stop_event
  /\ main' = "check"
  /\ UNCHANGED <<stop_event, sock, s_nonce_ctr, spoken, sent>>

(* Ctrl+C, or the end of the input. *)
Interrupt ==
  /\ main \in {"top", "input", "check", "send"}
  /\ main' = "stop"
  /\ UNCHANGED <<stop_event, sock, mainVars, lines>>

(* if not self.running: break; a blank line is not sent. *)
AfterInput_Unchecked == IF message = <<>> THEN "top" ELSE "send"
AfterInput ==
  IF stop_event THEN "stop" ELSE IF message = <<>> THEN "top" ELSE "send"
MainCheck ==
  /\ main = "check"
  /\ main' = AfterInput
  /\ UNCHANGED <<stop_event, sock, mainVars, lines>>

(* The wrapper aead_encrypt gives the library all the room it needs. *)
aead_encrypt(text) ==
  aead_encrypt_pack(s_nonce_ctr, text, NONCE_LEN + Len(text) + TAG_LEN)

(* What is put into the frame. *)
Wrapped(text) ==
  IF ClientId = USER_ID_BOARD THEN text ELSE aead_encrypt(text).out

(* stop_event once send_message has caught an error. *)
AfterSendError_Ignored == stop_event
AfterSendError == TRUE

(* send_message; a ValueError of encode_frame or an error of sendall stops  *)
(* the client.  sendall fails on a reset connection; on one the bridge has *)
(* closed it may.                                                          *)
MainSend ==
  LET frame == encode_frame(ClientId, Wrapped(message)) IN
    /\ main = "send"
    /\ s_nonce_ctr' = IF ClientId = USER_ID_BOARD THEN s_nonce_ctr
                      ELSE NextCtr(s_nonce_ctr)
    /\ \/ /\ frame # <<>>
          /\ peer # "reset"
          /\ sent' = Append(sent, frame)
          /\ spoken' = Append(spoken, message)
          /\ UNCHANGED stop_event
       \/ /\ frame = <<>> \/ peer # "open"
          /\ stop_event' = AfterSendError
          /\ UNCHANGED <<sent, spoken>>
    /\ main' = "top"
    /\ UNCHANGED <<sock, message, late, lines>>

(* finally: first self.stop(), then self.sock.close(). *)
MainStop_CloseFirst ==
  /\ main = "stop"
  /\ sock' = "closed"
  /\ main' = "close"
  /\ UNCHANGED <<stop_event, mainVars, lines>>
MainStop ==
  /\ main = "stop"
  /\ stop_event' = TRUE
  /\ main' = "close"
  /\ UNCHANGED <<sock, mainVars, lines>>

MainClose ==
  /\ main = "close"
  /\ sock' = "closed"
  /\ main' = "return"
  /\ UNCHANGED <<stop_event, mainVars, lines>>

MainReturn ==
  /\ main = "return"
  /\ main' = "done"
  /\ UNCHANGED <<stop_event, sock, mainVars, lines>>

MainStep ==
  \/ MainTop
  \/ MainCheck
  \/ MainSend
  \/ MainStop
  \/ MainClose
  \/ MainReturn

Keyboard == Interrupt \/ \E l \in Lines : Input(l)

MainThread ==
  /\ MainStep \/ Keyboard
  /\ UNCHANGED <<rx, rxVars, stream, peer, chunks, due, spoilt, missed,
                 complained>>

Next ==
  \/ \E chunk \in Chunks : Arrive(chunk)
  \/ Disconnect
  \/ receive_thread
  \/ MainThread

Spec == Init /\ [][Next]_vars

(* The steps of the two threads, as far as they move the thread on. *)
RxMoves ==
  /\ main # "done"
  /\ \/ RxTop \/ RxSelect \/ RxRecv \/ RxByte \/ RxBytesDone
     \/ rx = "frame" /\ rx' \in {"bytes", "failed"} /\ UNCHANGED data

MainMoves ==
  \/ MainTop \/ MainCheck \/ MainStop \/ MainClose \/ MainReturn
  \/ main = "send" /\ main' = "top"

(* The interpreter runs both threads: each goes on until it ends or, the    *)
(* main thread, sits in input().  No one need ever type, and the bridge    *)
(* need never send.                                                        *)
FairSpec == Spec /\ WF_<<rx, data>>(RxMoves) /\ WF_main(MainMoves)

-----------------------------------------------------------------------------
TypeOK ==
  /\ stop_event \in BOOLEAN
  /\ sock \in {"open", "closed"}
  /\ rx \in {"top", "select", "recv", "bytes", "frame", "gone", "failed"}
  /\ data \in Seq(Byte)
  /\ Len(data) <= RECV_MAX
  /\ rx_state \in {"PLAINTEXT", "SYNC1", "SYNC2", "DATA"}
  /\ rx_frame_buffer \in Seq(Byte)
  /\ Len(rx_frame_buffer) <= rx_expected_length
  /\ rx_expected_length \in 0..CHAT_MAX_FRAME
  /\ main \in {"top", "input", "check", "send", "stop", "close", "return", "done"}
  /\ peer \in {"open", "closed", "reset"}

IsSubsequence(p, q) ==
  \E f \in [DOMAIN p -> DOMAIN q] :
    /\ \A i, j \in DOMAIN p : i < j => f[i] < f[j]
    /\ \A i \in DOMAIN p : p[i] = q[f[i]]

(* However recv cuts the stream, the client displays as messages only what  *)
(* whole frames of others said, each once and in order: no damage, fragment *)
(* or echo comes under the name of a user.                                 *)
OnlyWholeFramesShown == IsSubsequence(shown, due)

(* Bytes are printed as they came (chat_client_protocol.py:212 and 222) only *)
(* after damage: of frames that arrive whole, between frames, not one byte *)
(* escapes to the display, however recv cuts them.                         *)
RawOnlyAfterDamage == [][raw' # raw => spoilt]_vars

(* A frame that arrives at a client between frames, with no broken chunk    *)
(* before it, has been displayed when the receive thread has worked off    *)
(* its bytes.                                                              *)
EveryFrameShown ==
  Drained /\ ~spoilt => Len(due) - Len(shown) = missed

(* The bytes of the frame under way, read back from rx_state. *)
Pending ==
  CASE Holding \/ rx_state = "PLAINTEXT" -> <<>>
    [] ~Holding /\ rx_state = "SYNC1" -> <<CHAT_SYNC_BYTE>>
    [] ~Holding /\ rx_state = "SYNC2" -> <<CHAT_SYNC_BYTE, CHAT_SYNC_BYTE>>
    [] ~Holding /\ rx_state = "DATA" ->
         <<CHAT_SYNC_BYTE, CHAT_SYNC_BYTE, rx_expected_length>> \o rx_frame_buffer

Decoder == INSTANCE FrameDecoder WITH
             pending       <- Pending,
             frame         <- IF Holding THEN rx_frame_buffer ELSE <<>>,
             quiet         <- 0,
             TIMEOUT_TICKS <- 0

(* No byte is ignored or taken for another, which a step of Decoder!Spec,   *)
(* where bytes have no name, could hide as a stutter.                      *)
HearsEveryByte ==
  data # <<>> /\ data' = Tail(data) => Decoder!Feed(Head(data))

(* The client's framer recognises the frames of the wire format: it         *)
(* implements the very specification that the board's framer implements.   *)
ImplementsFrameDecoder == Decoder!Spec /\ [][HearsEveryByte]_vars

(* What the board reads in a frame: with an id of its own the client sends  *)
(* cipher text, with the board's id plain text.                            *)
ReadByBoard(frame) ==
  LET in == decode_frame(SubSeq(frame, 4, Len(frame)))
  IN IF in.user_id = USER_ID_BOARD THEN in.message
       ELSE aead_decrypt_unpack(in.message, CHAT_MAX_MESSAGE).out

(* Every line sent is read by the board as it was typed, if the board has   *)
(* room for it: the client itself refuses only what does not fit a frame.  *)
SentIsReadable ==
  /\ Len(sent) = Len(spoken)
  /\ \A i \in 1..Len(sent) :
       Len(spoken[i]) <= CHAT_MAX_MESSAGE => ReadByBoard(sent[i]) = spoken[i]

(* A line typed into a client that has lost its connection is never sent,   *)
(* though the main thread sits in input() while the receive thread sets    *)
(* stop_event.                                                             *)
NothingLateIsSent == [][sent' # sent => ~late]_vars

(* Leaving the client displays no error: the receive thread complains only  *)
(* when the bridge has reset the connection or a text cannot be displayed, *)
(* never because the main thread has closed the socket under it.           *)
LeavesQuietly == complained => peer = "reset" \/ rx = "failed"

(* A reset connection ends the receive thread but does not stop the client. *)
(* The next line that is typed does: a client that has lost its connection *)
(* does not go on sending without hearing.  One whose receive thread has   *)
(* failed on a text, the connection open, goes on: it is not in this.      *)
DeafClientEnds ==
  (rx = "gone" /\ main = "check" /\ message # <<>>) ~> main = "done"

(* README.md:72, "Timeout: partial frames are dropped after ~1 second of    *)
(* inactivity"; PROTOCOL.md:40 says it of RX in general.                   *)
PartialFrameDropped ==
  rx_state # "PLAINTEXT" ~> (rx_state = "PLAINTEXT" \/ rx \in {"gone", "failed"} \/ main = "done")
=============================================================================
