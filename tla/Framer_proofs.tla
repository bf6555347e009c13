--------------------------- MODULE Framer_proofs ---------------------------
(***************************************************************************)
(* Proofs about the framer, for every byte range, buffer size and timeout: *)
(* its types, that the buffer is never overrun, and that the state machine *)
(* implements the decoder of FrameDecoder.                                 *)
(***************************************************************************)
EXTENDS Framer, CommonLemmas

USE FramerAssumption

-----------------------------------------------------------------------------
(* What makes the invariants inductive.  A payload under way has started   *)
(* from a valid length; a frame waits only in PLAINTEXT; the tick counter  *)
(* stops at the limit, so its unsigned addition never wraps.               *)
PayloadStarted ==
  state = "DATA" => /\ expected_length \in Byte
                    /\ expected_length <= CHAT_MAX_FRAME
                    /\ index < expected_length

FrameWaitsInPlaintext ==
  has_frame = 1 => /\ state = "PLAINTEXT"
                    /\ ready_length > 0
                    /\ ready_length \in Byte

TicksStopAtLimit == inactivity_ticks <= TIMEOUT_TICKS

IInv ==
  /\ TypeOK
  /\ PayloadStarted
  /\ FrameWaitsInPlaintext
  /\ TicksStopAtLimit

LEMMA InitEstablishesIInv == Init => IInv
BY DEF Init, IInv, TypeOK, States, PayloadStarted, FrameWaitsInPlaintext,
       TicksStopAtLimit

(* Below its maximum the unsigned counter counts. *)
LEMMA TickedIs ==
  ASSUME TypeOK, TicksStopAtLimit
  PROVE  Ticked(1) = inactivity_ticks + 1
BY DEF TypeOK, TicksStopAtLimit, Ticked

LEMMA FeedKeepsIInv ==
  ASSUME IInv, NEW b \in Byte, Feed(b)
  PROVE  IInv'
<1> USE DEF IInv, TypeOK, States, PayloadStarted, FrameWaitsInPlaintext,
            TicksStopAtLimit
<1>1. CASE FeedPlaintext(b)
  BY <1>1 DEF Feed, FeedByte, FeedPlaintext
<1>2. CASE FeedSync1(b)
  BY <1>2 DEF Feed, FeedByte, FeedSync1
<1>3. CASE FeedSync2(b)
  <2>1. CASE Accepts(b)
    BY <1>3, <2>1 DEF Feed, FeedByte, FeedSync2, Accepts
  <2>2. CASE ~Accepts(b)
    BY <1>3, <2>2 DEF Feed, FeedByte, FeedSync2
  <2> QED
    BY <2>1, <2>2
<1>4. CASE FeedData(b)
  <2>1. /\ state = "DATA" /\ ~(index >= CHAT_MAX_FRAME)
        /\ buffer' = [buffer EXCEPT ![index] = b]
        /\ index' = index + 1
        /\ expected_length' = expected_length
        /\ inactivity_ticks' = 0
    BY <1>4 DEF Feed, FeedByte, FeedData
  <2>2. buffer' \in [0..(CHAT_MAX_FRAME - 1) -> Byte]
    BY <2>1
  <2>3. CASE index + 1 >= expected_length
    BY <1>4, <2>1, <2>2, <2>3 DEF Feed, FeedByte, FeedData
  <2>4. CASE ~(index + 1 >= expected_length)
    BY <1>4, <2>1, <2>2, <2>4 DEF Feed, FeedByte, FeedData
  <2> QED
    BY <2>3, <2>4
<1> QED
  BY <1>1, <1>2, <1>3, <1>4 DEF Feed, FeedByte

LEMMA StepKeepsIInv == IInv /\ [Next]_vars => IInv'
<1> SUFFICES ASSUME IInv, [Next]_vars PROVE IInv'
  OBVIOUS
<1>1. ASSUME NEW b \in Byte, Feed(b) PROVE IInv'
  BY <1>1, FeedKeepsIInv
<1>2. CASE TimeoutRecovery
  BY <1>2, TickedIs
     DEF TimeoutRecovery, IInv, TypeOK, States, PayloadStarted,
         FrameWaitsInPlaintext, TicksStopAtLimit
<1>3. CASE Take
  BY <1>3 DEF Take, IInv, TypeOK, States, PayloadStarted,
              FrameWaitsInPlaintext, TicksStopAtLimit
<1>4. CASE UNCHANGED vars
  BY <1>4 DEF vars, IInv, TypeOK, States, PayloadStarted,
              FrameWaitsInPlaintext, TicksStopAtLimit
<1> QED
  BY <1>1, <1>2, <1>3, <1>4 DEF Next

LEMMA IInvIsInvariant == Spec => []IInv
BY InitEstablishesIInv, StepKeepsIInv, PTL DEF Spec

(* Type correctness: in particular index stays inside the buffer or just   *)
(* past its end, and the tick counter inside an unsigned int.              *)
THEOREM TypeCorrect == Spec => []TypeOK
BY IInvIsInvariant, PTL DEF IInv

(* The overrun test of chat_framer_feed never fires: the length byte read   *)
(* in SYNC2 and the reset of index there already keep the buffer safe.     *)
THEOREM NoOverrun == Spec => []NeverOverruns
<1>1. IInv => NeverOverruns
  BY DEF IInv, PayloadStarted, NeverOverruns
<1> QED
  BY <1>1, IInvIsInvariant, PTL

-----------------------------------------------------------------------------
(* The bytes of the frame under way, as a sequence. *)
LEMMA PendingInData ==
  ASSUME IInv, state = "DATA"
  PROVE  /\ Pending \in Seq(Byte)
         /\ Len(Pending) = 3 + index
         /\ Pending[1] = CHAT_SYNC_BYTE
         /\ Pending[2] = CHAT_SYNC_BYTE
         /\ Pending[3] = expected_length
         /\ \A i \in 1..index : Pending[3 + i] = buffer[i - 1]
<1> DEFINE header  == <<CHAT_SYNC_BYTE, CHAT_SYNC_BYTE, expected_length>>
           payload == [i \in 1..index |-> buffer[i - 1]]
<1>1. Pending = header \o payload
  BY DEF Pending
<1>2. header \in Seq(Byte) /\ Len(header) = 3
  BY DEF IInv, PayloadStarted
<1>3. index \in Nat /\ \A i \in 1..index : buffer[i - 1] \in Byte
  BY DEF IInv, TypeOK, PayloadStarted
<1>4. payload \in Seq(Byte) /\ Len(payload) = index
  BY <1>3
<1> QED
  BY <1>1, <1>2, <1>3, <1>4

(* A byte fed between frames, or after one sync byte. *)
LEMMA HeaderByteRefines ==
  ASSUME IInv, NEW b \in Byte, Feed(b), FeedPlaintext(b) \/ FeedSync1(b)
  PROVE  Decoder!Feed(b)
<1>1. /\ has_frame = 0 /\ has_frame' = 0 /\ inactivity_ticks' = 0
  BY DEF Feed, FeedByte, FeedPlaintext, FeedSync1
<1>2. CASE FeedPlaintext(b)
  <2>1. Pending = <<>> /\ Append(Pending, b) = <<b>>
    BY <1>2 DEF FeedPlaintext, Pending
  <2>2. ~Decoder!Complete(<<b>>)
    BY DEF Decoder!Complete
  <2>3. Decoder!Viable(<<b>>) <=> b = CHAT_SYNC_BYTE
    BY DEF Decoder!Viable, Decoder!HeaderFits
  <2>4. Pending' = IF b = CHAT_SYNC_BYTE THEN <<b>> ELSE <<>>
    BY <1>2 DEF FeedPlaintext, Pending
  <2> QED
    BY <1>1, <2>1, <2>2, <2>3, <2>4 DEF Decoder!Feed
<1>3. CASE FeedSync1(b)
  <2>1. Append(Pending, b) = <<CHAT_SYNC_BYTE, b>>
    <3>1. Pending = <<CHAT_SYNC_BYTE>>
      BY <1>3 DEF FeedSync1, Pending
    <3> QED
      BY <3>1, AppendToHeader
  <2>2. ~Decoder!Complete(<<CHAT_SYNC_BYTE, b>>)
    BY DEF Decoder!Complete
  <2>3. Decoder!Viable(<<CHAT_SYNC_BYTE, b>>) <=> b = CHAT_SYNC_BYTE
    BY DEF Decoder!Viable, Decoder!HeaderFits
  <2>4. Pending' = IF b = CHAT_SYNC_BYTE THEN <<CHAT_SYNC_BYTE, b>> ELSE <<>>
    <3>1. CASE b = CHAT_SYNC_BYTE
      BY <1>3, <3>1 DEF FeedSync1, Pending
    <3>2. CASE b # CHAT_SYNC_BYTE
      BY <1>3, <3>2 DEF FeedSync1, Pending
    <3> QED
      BY <3>1, <3>2
  <2> QED
    BY <1>1, <2>1, <2>2, <2>3, <2>4 DEF Decoder!Feed
<1> QED
  BY <1>2, <1>3

(* The length byte. *)
LEMMA LengthByteRefines ==
  ASSUME IInv, IInv', NEW b \in Byte, Feed(b), FeedSync2(b)
  PROVE  Decoder!Feed(b)
<1> DEFINE p == <<CHAT_SYNC_BYTE, CHAT_SYNC_BYTE, b>>
<1>1. /\ has_frame = 0 /\ has_frame' = 0 /\ inactivity_ticks' = 0
  BY DEF Feed, FeedByte, FeedSync2
<1>2. Append(Pending, b) = p
  <2>1. Pending = <<CHAT_SYNC_BYTE, CHAT_SYNC_BYTE>>
    BY DEF FeedSync2, Pending
  <2>2. CHAT_SYNC_BYTE \in Byte /\ b \in Byte
    OBVIOUS
  <2>3. Append(<<CHAT_SYNC_BYTE, CHAT_SYNC_BYTE>>, b)
          = <<CHAT_SYNC_BYTE, CHAT_SYNC_BYTE, b>>
    BY ONLY <2>2, AppendToHeader, Zenon
  <2> QED
    BY <2>1, <2>3
<1>3. /\ p \in Seq(Byte) /\ Len(p) = 3 /\ p[3] = b
      /\ p[1] = CHAT_SYNC_BYTE /\ p[2] = CHAT_SYNC_BYTE
  <2>1. Len(p) = 3 /\ p[3] = b /\ p[1] = CHAT_SYNC_BYTE /\ p[2] = CHAT_SYNC_BYTE
    OBVIOUS
  <2>2. p \in Seq(Byte)
    OBVIOUS
  <2> QED
    BY <2>1, <2>2
<1>4. ~Decoder!Complete(p)
  BY <1>3 DEF Decoder!Complete, Decoder!HeaderFits, Decoder!Lengths
<1>5. Accepts(b) <=> Decoder!Viable(p)
  BY <1>3 DEF Decoder!Viable, Decoder!HeaderFits, Decoder!Lengths, Accepts
<1>6. Pending' = IF Accepts(b) THEN p ELSE <<>>
  <2>1. CASE Accepts(b)
    <3>1. state' = "DATA" /\ index' = 0 /\ expected_length' = b
      BY <2>1 DEF FeedSync2
    <3>2. Pending' = p \o [i \in 1..0 |-> buffer'[i - 1]]
      BY <3>1 DEF Pending
    <3>3. [i \in 1..0 |-> buffer'[i - 1]] = <<>>
      OBVIOUS
    <3>4. p \o <<>> = p
      BY <1>3
    <3> QED
      BY <2>1, <3>2, <3>3, <3>4
  <2>2. CASE ~Accepts(b)
    BY <2>2 DEF FeedSync2, Pending
  <2> QED
    BY <2>1, <2>2
<1> HIDE DEF p
<1> QED
  BY <1>1, <1>2, <1>4, <1>5, <1>6 DEF Decoder!Feed

(* A payload byte: the last one completes the frame. *)
LEMMA PayloadByteRefines ==
  ASSUME IInv, IInv', NEW b \in Byte, Feed(b), FeedData(b)
  PROVE  Decoder!Feed(b)
<1> DEFINE p == Append(Pending, b)
<1>1. /\ state = "DATA" /\ has_frame = 0 /\ inactivity_ticks' = 0
      /\ index \in 0..(CHAT_MAX_FRAME - 1) /\ index < expected_length
      /\ expected_length \in Byte /\ expected_length \in 1..CHAT_MAX_FRAME
      /\ buffer' = [buffer EXCEPT ![index] = b]
      /\ index' = index + 1 /\ expected_length' = expected_length
  BY DEF IInv, TypeOK, PayloadStarted, Feed, FeedByte, FeedData
<1>2. /\ p \in Seq(Byte) /\ Len(p) = 4 + index
      /\ p[1] = CHAT_SYNC_BYTE /\ p[2] = CHAT_SYNC_BYTE /\ p[3] = expected_length
      /\ \A i \in 1..(index + 1) : p[3 + i] = buffer'[i - 1]
  <2>1. /\ p \in Seq(Byte) /\ Len(p) = 4 + index
        /\ \A i \in 1..(3 + index) : p[i] = Pending[i]
        /\ p[4 + index] = b
    BY <1>1, PendingInData
  <2>2. /\ p[1] = CHAT_SYNC_BYTE /\ p[2] = CHAT_SYNC_BYTE /\ p[3] = expected_length
    BY <1>1, <2>1, PendingInData
  <2>3. ASSUME NEW i \in 1..(index + 1)
        PROVE  p[3 + i] = buffer'[i - 1]
    <3>1. CASE i = index + 1
      BY <1>1, <2>1, <3>1 DEF IInv, TypeOK
    <3>2. CASE i # index + 1
      <4>1. i \in 1..index /\ 3 + i \in 1..(3 + index) /\ i - 1 # index
        BY <1>1, <3>2
      <4>2. p[3 + i] = buffer[i - 1]
        BY <1>1, <2>1, <4>1, PendingInData
      <4>3. buffer'[i - 1] = buffer[i - 1]
        BY <1>1, <4>1 DEF IInv, TypeOK
      <4> QED
        BY <4>2, <4>3
    <3> QED
      BY <3>1, <3>2
  <2> QED
    BY <2>1, <2>2, <2>3
<1> HIDE DEF p
<1>3. Decoder!HeaderFits(p)
  BY <1>1, <1>2 DEF Decoder!HeaderFits, Decoder!Lengths
<1>4. CASE index + 1 >= expected_length
  <2>1. /\ index + 1 = expected_length
        /\ state' = "PLAINTEXT" /\ has_frame' = 1 /\ ready_length' = index + 1
    BY <1>1, <1>4 DEF FeedData
  <2>2. Decoder!Complete(p)
    BY <1>1, <1>2, <1>3, <2>1 DEF Decoder!Complete
  <2>3. Pending' = <<>>
    BY <2>1 DEF Pending
  <2>4. Taken' = Decoder!Payload(p)
    <3>1. /\ Decoder!Payload(p) \in Seq(Byte)
          /\ Len(Decoder!Payload(p)) = index + 1
          /\ \A i \in 1..(index + 1) : Decoder!Payload(p)[i] = p[3 + i]
      BY <1>1, <1>2 DEF Decoder!Payload
    <3>2. \A i \in 1..(index + 1) : buffer'[i - 1] \in Byte
      BY <1>1 DEF IInv, TypeOK
    <3>3. /\ Taken' \in Seq(Byte)
          /\ Len(Taken') = index + 1
          /\ \A i \in 1..(index + 1) : Taken'[i] = buffer'[i - 1]
      BY <1>1, <2>1, <3>2 DEF Taken
    <3> DEFINE payload == Decoder!Payload(p)
    <3>4. \A i \in 1..(index + 1) : Taken'[i] = payload[i]
      BY <1>2, <3>1, <3>3
    <3> HIDE DEF payload
    <3> QED
      BY <3>1, <3>3, <3>4, SeqEqual DEF payload
  <2> QED
    BY <1>1, <2>1, <2>2, <2>3, <2>4 DEF Decoder!Feed, p
<1>5. CASE ~(index + 1 >= expected_length)
  <2>1. state' = "DATA" /\ has_frame' = 0
    BY <1>1, <1>5 DEF FeedData
  <2>2. ~Decoder!Complete(p) /\ Decoder!Viable(p)
    BY <1>1, <1>2, <1>3, <1>5 DEF Decoder!Complete, Decoder!Viable
  <2>3. Pending' = p
    <3>1. /\ Pending' \in Seq(Byte)
          /\ Len(Pending') = 4 + index
          /\ Pending'[1] = CHAT_SYNC_BYTE
          /\ Pending'[2] = CHAT_SYNC_BYTE
          /\ Pending'[3] = expected_length
          /\ \A i \in 1..(index + 1) : Pending'[3 + i] = buffer'[i - 1]
      <4> DEFINE header  == <<CHAT_SYNC_BYTE, CHAT_SYNC_BYTE, expected_length>>
                 payload == [i \in 1..(index + 1) |-> buffer'[i - 1]]
      <4>1. Pending' = header \o payload
        BY <1>1, <2>1 DEF Pending
      <4>2. header \in Seq(Byte) /\ Len(header) = 3
        BY <1>1
      <4>3. \A i \in 1..(index + 1) : buffer'[i - 1] \in Byte
        BY <1>1 DEF IInv, TypeOK
      <4>4. payload \in Seq(Byte) /\ Len(payload) = index + 1
        BY <1>1, <4>3
      <4> QED
        BY <1>1, <4>1, <4>2, <4>3, <4>4
    <3>2. ASSUME NEW i \in 1..(4 + index) PROVE Pending'[i] = p[i]
      <4>1. CASE i \in {1, 2, 3}
        BY <1>2, <3>1, <4>1
      <4>2. CASE i \notin {1, 2, 3}
        <5>1. PICK j \in 1..(index + 1) : i = 3 + j
          <6>1. i - 3 \in 1..(index + 1) /\ i = 3 + (i - 3)
            BY <1>1, <4>2
          <6> QED
            BY <6>1
        <5> QED
          BY <1>2, <3>1, <5>1
      <4> QED
        BY <4>1, <4>2
    <3> QED
      BY <1>2, <3>1, <3>2, SeqEqual
  <2> QED
    BY <1>1, <2>1, <2>2, <2>3 DEF Decoder!Feed, p
<1> QED
  BY <1>4, <1>5

(* A round of the outer loop waits, or gives up at the limit. *)
LEMMA TimeoutRefines ==
  ASSUME IInv, TimeoutRecovery
  PROVE  Decoder!Wait \/ Decoder!GiveUp
<1>1. /\ has_frame = 0 /\ has_frame' = 0 /\ Ticked(1) = inactivity_ticks + 1
      /\ inactivity_ticks \in Nat
  BY TickedIs DEF TimeoutRecovery, IInv, FrameWaitsInPlaintext, TypeOK
<1>2. Pending # <<>>
  <2>1. CASE state = "DATA"
    BY <2>1, PendingInData DEF IInv, TypeOK
  <2>2. CASE state # "DATA"
    BY <2>2 DEF TimeoutRecovery, IInv, TypeOK, States, Pending
  <2> QED
    BY <2>1, <2>2
<1>3. CASE inactivity_ticks < TIMEOUT_TICKS
  <2>1. /\ inactivity_ticks' = inactivity_ticks + 1
        /\ UNCHANGED <<state, index, expected_length, buffer>>
    BY <1>1, <1>3 DEF TimeoutRecovery
  <2>2. Pending' = Pending
    BY <2>1 DEF Pending
  <2> QED
    BY <1>1, <1>2, <1>3, <2>1, <2>2 DEF Decoder!Wait
<1>4. CASE ~(inactivity_ticks < TIMEOUT_TICKS)
  <2>1. state' = "PLAINTEXT" /\ inactivity_ticks' = 0
    BY <1>1, <1>4 DEF TimeoutRecovery
  <2>2. Pending' = <<>>
    BY <2>1 DEF Pending
  <2> QED
    BY <1>1, <1>2, <1>4, <2>1, <2>2 DEF Decoder!GiveUp
<1> QED
  BY <1>3, <1>4

LEMMA TakeRefines ==
  ASSUME IInv, Take
  PROVE  Decoder!Take
<1>1. Taken # <<>>
  <2>1. ready_length \in Nat /\ ready_length > 0
    BY DEF Take, IInv, TypeOK, FrameWaitsInPlaintext
  <2>2. 1 \in DOMAIN Taken
    BY <2>1 DEF Taken
  <2> QED
    BY <2>2
<1>2. has_frame = 1 /\ has_frame' = 0 /\ UNCHANGED <<Pending, inactivity_ticks>>
  BY DEF Take, IInv, TypeOK, Pending
<1> QED
  BY <1>1, <1>2 DEF Decoder!Take

LEMMA FeedRefines ==
  ASSUME IInv, IInv', NEW b \in Byte, Feed(b)
  PROVE  Decoder!Feed(b)
BY HeaderByteRefines, LengthByteRefines, PayloadByteRefines DEF Feed, FeedByte

LEMMA StepRefines ==
  ASSUME IInv, IInv', [Next]_vars
  PROVE  /\ [Decoder!Next]_(Decoder!vars)
         /\ [HearsEveryByte]_vars
<1>1. CASE UNCHANGED vars
  BY <1>1 DEF vars, Decoder!vars, Pending, Taken
<1>2. [Decoder!Next]_(Decoder!vars)
  BY <1>1, FeedRefines, TimeoutRefines, TakeRefines DEF Next, Decoder!Next
<1>3. HearsEveryByte
  BY FeedRefines DEF HearsEveryByte
<1> QED
  BY <1>2, <1>3

(* chat_framer_feed, chat_framer_tick with chat_framer_check_timeout, and   *)
(* chat_framer_take together recognise the wire format: each step is a     *)
(* step of the decoder that remembers whole frames, and each byte fed is   *)
(* a byte the decoder is fed.                                              *)
THEOREM FramerImplementsDecoder == Spec => ImplementsFrameDecoder
<1>1. Init => Decoder!Init
  BY DEF Init, Decoder!Init, Pending
<1> QED
  BY <1>1, IInvIsInvariant, StepRefines, PTL
     DEF Spec, ImplementsFrameDecoder, Decoder!Spec

-----------------------------------------------------------------------------
(* What the framer holds of the line: the frame that waits to be taken, or  *)
(* the bytes of the frame under way.                                       *)
Held ==
  IF has_frame = 1 THEN InFrame(CHAT_SYNC_BYTE, ready_length, Taken) ELSE Pending

LEMMA HeldIs ==
  ASSUME IInv
  PROVE  /\ Pending \in Seq(Byte) /\ Unfinished(Pending) /\ Held \in Seq(Byte)
         /\ has_frame = 1 => /\ Taken \in Seq(Byte)
                             /\ ready_length \in Byte
                             /\ Held = InFrame(CHAT_SYNC_BYTE, ready_length, Taken)
                             /\ IsFrame(Byte, CHAT_SYNC_BYTE, CHAT_MAX_FRAME, Held)
                             /\ Pending = <<>>
<1>1. Pending \in Seq(Byte) /\ Unfinished(Pending)
  <2> USE DEF Unfinished
  <2>1. CASE state = "DATA"
    <3> DEFINE p == Pending
    <3>1. p \in Seq(Byte) /\ Len(p) = 3 + index /\ p[3] = expected_length
      BY <2>1, PendingInData
    <3>2. index < expected_length /\ index \in Nat /\ expected_length \in Nat
      BY <2>1 DEF IInv, TypeOK, PayloadStarted
    <3> HIDE DEF p
    <3>3. p \in Seq(Byte) /\ (Len(p) >= 3 => Len(p) < 3 + p[3])
      BY <3>1, <3>2
    <3> QED
      BY <3>3 DEF p
  <2>2. CASE state = "PLAINTEXT"
    <3>1. Pending = <<>>
      BY <2>2 DEF Pending
    <3> QED
      BY <3>1
  <2>3. CASE state = "SYNC1"
    <3>1. Pending = <<CHAT_SYNC_BYTE>>
      BY <2>3 DEF Pending
    <3> QED
      BY <3>1
  <2>4. CASE state = "SYNC2"
    <3>1. Pending = <<CHAT_SYNC_BYTE, CHAT_SYNC_BYTE>>
      BY <2>4 DEF Pending
    <3> QED
      BY <3>1
  <2> QED
    BY <2>1, <2>2, <2>3, <2>4 DEF IInv, TypeOK, States
<1>2. ASSUME has_frame = 1
      PROVE  /\ Taken \in Seq(Byte) /\ ready_length \in Byte
             /\ Held = InFrame(CHAT_SYNC_BYTE, ready_length, Taken)
             /\ IsFrame(Byte, CHAT_SYNC_BYTE, CHAT_MAX_FRAME, Held)
             /\ Held \in Seq(Byte)
             /\ Pending = <<>>
  <2>1. /\ ready_length \in Byte \cap 1..CHAT_MAX_FRAME
        /\ state = "PLAINTEXT"
        /\ \A i \in 1..ready_length : buffer[i - 1] \in Byte
    BY <1>2 DEF IInv, TypeOK, FrameWaitsInPlaintext
  <2>2. Taken \in Seq(Byte) /\ Len(Taken) = ready_length
    BY <2>1 DEF Taken
  <2> DEFINE g == InFrame(CHAT_SYNC_BYTE, ready_length, Taken)
  <2>3. /\ g \in Seq(Byte) /\ Len(g) = 3 + Len(Taken)
        /\ g[1] = CHAT_SYNC_BYTE /\ g[2] = CHAT_SYNC_BYTE /\ g[3] = ready_length
    BY <2>1, <2>2, InFrameStarts
  <2>4. Held = g
    BY <1>2 DEF Held
  <2>5. Pending = <<>>
    BY <2>1 DEF Pending
  <2> HIDE DEF g
  <2>6. IsFrame(Byte, CHAT_SYNC_BYTE, CHAT_MAX_FRAME, g)
    BY <2>1, <2>2, <2>3 DEF IsFrame
  <2> QED
    BY <2>1, <2>2, <2>3, <2>4, <2>5, <2>6 DEF g
<1>3. has_frame # 1 => Held = Pending
  BY DEF Held
<1> QED
  BY <1>1, <1>2, <1>3

(* A byte that goes on with a frame is kept, with all before it. *)
LEMMA NothingIsForgotten ==
  ASSUME IInv, IInv', NEW b \in Byte, Feed(b), Pending \in Seq(Byte),
         NEW f, IsFrame(Byte, CHAT_SYNC_BYTE, CHAT_MAX_FRAME, f),
         StartsWith(f, Append(Pending, b))
  PROVE  Held' = Append(Pending, b)
<1> DEFINE p == Append(Pending, b)
<1>1. /\ p \in Seq(Byte) /\ Len(p) \in Nat /\ Len(p) >= 1
      /\ Len(p) <= Len(f) /\ \A i \in 1..Len(p) : p[i] = f[i]
  BY DEF StartsWith
<1>2. /\ f \in Seq(Byte) /\ Len(f) >= 3 /\ Len(f) = 3 + f[3]
      /\ f[1] = CHAT_SYNC_BYTE /\ f[2] = CHAT_SYNC_BYTE
      /\ f[3] \in Byte \cap 1..CHAT_MAX_FRAME
  BY DEF IsFrame
<1>3. Decoder!Feed(b)
  BY FeedRefines
<1>4. /\ (IF has_frame = 1 THEN Taken ELSE <<>>) = <<>>
      /\ \/ /\ Decoder!Complete(p)
            /\ (IF has_frame' = 1 THEN Taken' ELSE <<>>) = Decoder!Payload(p)
         \/ /\ ~Decoder!Complete(p)
            /\ Pending' = IF Decoder!Viable(p) THEN p ELSE <<>>
            /\ (IF has_frame' = 1 THEN Taken' ELSE <<>>)
                 = (IF has_frame = 1 THEN Taken ELSE <<>>)
  BY <1>3 DEF Decoder!Feed
<1>5. has_frame' = 1 => Taken' # <<>> /\ ready_length' \in Nat
  <2> SUFFICES ASSUME has_frame' = 1 PROVE Taken' # <<>> /\ ready_length' \in Nat
    OBVIOUS
  <2>1. ready_length' \in Nat /\ ready_length' > 0
    BY DEF IInv, TypeOK, FrameWaitsInPlaintext
  <2>2. 1 \in DOMAIN Taken'
    <3>1. DOMAIN Taken' = 1..ready_length'
      BY DEF Taken
    <3> QED
      BY <2>1, <3>1
  <2>3. Taken' # <<>>
    <3>1. DOMAIN <<>> = {}
      OBVIOUS
    <3> QED
      BY <2>2, <3>1
  <2> QED
    BY <2>1, <2>3
<1> HIDE DEF p
<1>6. Decoder!HeaderFits(p)
  BY <1>1, <1>2, SMTT(20) DEF Decoder!HeaderFits, Decoder!Lengths
<1>7. CASE Decoder!Complete(p)
  <2> DEFINE payload == SubSeq(p, 4, Len(p))
  <2>1. /\ Len(p) >= 3 /\ Len(p) = 3 + p[3] /\ p[3] = f[3]
        /\ p[1] = CHAT_SYNC_BYTE /\ p[2] = CHAT_SYNC_BYTE
    <3>1. Len(p) >= 3 /\ Len(p) = 3 + p[3]
      BY <1>7 DEF Decoder!Complete
    <3>2. 1 \in 1..Len(p) /\ 2 \in 1..Len(p) /\ 3 \in 1..Len(p)
      BY <1>1, <3>1
    <3> QED
      BY <1>1, <1>2, <3>1, <3>2
  <2>2. p = InFrame(CHAT_SYNC_BYTE, p[3], payload) /\ payload \in Seq(Byte)
    BY <1>1, <2>1, InFrameIs
  <2>3. Len(payload) = p[3] /\ payload # <<>>
    <3>1. 3 + p[3] - 4 + 1 = p[3] /\ p[3] >= 1 /\ p[3] \in Nat
      BY <1>2, <2>1
    <3>2. Len(payload) = p[3]
      BY <1>1, <2>1, <3>1
    <3> QED
      BY <3>1, <3>2
  <2>4. (IF has_frame' = 1 THEN Taken' ELSE <<>>) = payload
    BY <1>4, <1>7 DEF Decoder!Payload
  <2> HIDE DEF payload
  <2>5. has_frame' = 1 /\ Taken' = payload
    BY <2>3, <2>4
  <2>6. ready_length' = p[3]
    <3>1. Len(Taken') = ready_length'
      BY <1>5, <2>5 DEF Taken
    <3> QED
      BY <2>3, <2>5, <3>1
  <2> QED
    BY <2>2, <2>5, <2>6 DEF Held, p
<1>8. CASE ~Decoder!Complete(p)
  <2>1. Decoder!Viable(p)
    <3>1. ASSUME Len(p) >= 3 PROVE Len(p) < 3 + p[3]
      <4>1. p[3] = f[3] /\ Len(p) <= 3 + p[3]
        BY <1>1, <1>2, <3>1
      <4>2. Len(p) # 3 + p[3]
        BY <1>6, <1>8, <3>1 DEF Decoder!Complete
      <4> QED
        BY <1>1, <1>2, <4>1, <4>2
    <3> QED
      BY <1>6, <3>1 DEF Decoder!Viable
  <2>2. has_frame' # 1 /\ Pending' = p
    BY <1>4, <1>5, <1>8, <2>1
  <2> QED
    BY <2>2 DEF Held, p
<1> QED
  BY <1>7, <1>8
=============================================================================
