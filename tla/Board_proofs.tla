---------------------------- MODULE Board_proofs ----------------------------
(***************************************************************************)
(* Proofs about the firmware as a whole, for every width of the bytes, size *)
(* of the ring and timeout, every set of chunks on the line and any number *)
(* of presses: the main loop uses its ring and its framer as they assume,  *)
(* so what is proved about them holds on the board; no press of the button *)
(* is forgotten; whole frames are answered; and every variable keeps its   *)
(* type.                                                                   *)
(***************************************************************************)
EXTENDS Board, CommonLemmas, FiniteSetTheorems

USE BoardAssumption

(* The nonce counter has at least two values. *)
LEMMA CtrSizeIs == CTR_SIZE \in Nat /\ CTR_SIZE >= 2
<1>1. BYTE_BITS * CTR_LEN \in Nat \ {0}
  BY BytesAssumption, AeadAssumption
<1>2. CTR_SIZE \in Nat \ {0, 1}
  BY <1>1, PowGrows DEF CTR_SIZE
<1> HIDE DEF CTR_SIZE
<1> QED
  BY <1>2

(* The proofs about the two components, as the board instantiates them. *)
RingProofs == INSTANCE RxRing_proofs WITH
  pc <- CASE pc = "process" -> "got"
          [] pc \in {"clear", "send", "toggle", "tick"} -> "empty"
          [] OTHER -> pc

FramerProofs == INSTANCE Framer_proofs

(* What they assume of the constants, the board provides. *)
LEMMA ComponentsAssumed ==
  /\ RingProofs!RingAssumption
  /\ FramerProofs!FramerAssumption
BY DEF RingProofs!RingAssumption, FramerProofs!FramerAssumption

LEMMA SameRingInit == RingView!Init <=> RingProofs!Init
BY DEF RingView!Init, RingProofs!Init, RingView!Slots, RingProofs!Slots

LEMMA SameRingNext ==
  [RingView!Next]_(RingView!vars) <=> [RingProofs!Next]_(RingProofs!vars)
BY DEF RingView!Next, RingProofs!Next, RingView!vars, RingProofs!vars,
       RingView!Main, RingProofs!Main,
       RingView!UartRxIsr, RingProofs!UartRxIsr,
       RingView!UartRxAvailable, RingProofs!UartRxAvailable,
       RingView!GetcTest, RingProofs!GetcTest,
       RingView!GetcLoad, RingProofs!GetcLoad,
       RingView!GetcAdvance, RingProofs!GetcAdvance,
       RingView!HandleByte, RingProofs!HandleByte,
       RingView!GoRound, RingProofs!GoRound, RingView!Push, RingProofs!Push,
       RingView!Drop, RingProofs!Drop, RingView!Full, RingProofs!Full,
       RingView!Count, RingProofs!Count,
       RingView!SomeAvailable, RingProofs!SomeAvailable,
       RingView!NextSlot, RingProofs!NextSlot,
       RingView!ringVars, RingProofs!ringVars,
       RingView!mainVars, RingProofs!mainVars

LEMMA SameFramerInit == Framer!Init <=> FramerProofs!Init
BY DEF Framer!Init, FramerProofs!Init

LEMMA SameFramerNext ==
  [Framer!Next]_(Framer!vars) <=> [FramerProofs!Next]_(FramerProofs!vars)
BY DEF Framer!Next, FramerProofs!Next, Framer!vars, FramerProofs!vars,
       Framer!Feed, FramerProofs!Feed, Framer!FeedByte, FramerProofs!FeedByte,
       Framer!FeedPlaintext, FramerProofs!FeedPlaintext,
       Framer!FeedSync1, FramerProofs!FeedSync1,
       Framer!FeedSync2, FramerProofs!FeedSync2,
       Framer!Accepts, FramerProofs!Accepts,
       Framer!FeedData, FramerProofs!FeedData,
       Framer!TimeoutRecovery, FramerProofs!TimeoutRecovery,
       Framer!Ticked, FramerProofs!Ticked, Framer!Take, FramerProofs!Take

-----------------------------------------------------------------------------
(* A press is remembered by send_flag from the interrupt on, and by the     *)
(* place of main from the reset of send_flag to the transmission.          *)
THEOREM NoPressForgotten == Spec => []PressRemembered
<1>1. Init => PressRemembered
  BY DEF Init, PressRemembered
<1>2. PressRemembered /\ [Next]_vars => PressRemembered'
  <2> SUFFICES ASSUME PressRemembered, [Next]_vars PROVE PressRemembered'
    OBVIOUS
  <2> USE DEF PressRemembered
  <2>1. CASE PopStep
    BY <2>1 DEF PopStep, appVars, Ring!UartRxAvailable, Ring!GetcTest,
                Ring!GetcLoad, Ring!GetcAdvance
  <2>2. CASE FeedByte
    BY <2>2 DEF FeedByte, AfterFeed, appVars
  <2>3. CASE ProcessFrame
    BY <2>3 DEF ProcessFrame
  <2>4. CASE TestSendFlag
    BY <2>4 DEF TestSendFlag, appVars
  <2>5. CASE ClearSendFlag
    BY <2>5 DEF ClearSendFlag
  <2>6. CASE SendMessage
    BY <2>6 DEF SendMessage
  <2>7. CASE ToggleLed
    BY <2>7 DEF ToggleLed, FlagAfterSend
  <2>8. CASE Tick
    BY <2>8 DEF Tick, appVars
  <2>9. ASSUME NEW chunk \in Chunks, NewChunk(chunk) PROVE PressRemembered'
    BY <2>9 DEF NewChunk, appVars
  <2>10. CASE UartRxIsr
    BY <2>10 DEF UartRxIsr, Ring!UartRxIsr, Ring!mainVars, appVars
  <2>11. CASE Press \/ Release
    BY <2>11 DEF Press, Release, appVars
  <2>12. CASE ButtonIsr
    <3>1. pc' = pc /\ pressed' = (pressed \/ button = 1)
          /\ send_flag' = IF button = 1 THEN 1 ELSE send_flag
      BY <2>12 DEF ButtonIsr, my_button_handler
    <3> QED
      BY <3>1
  <2>13. CASE UNCHANGED vars
    BY <2>13 DEF vars, appVars
  <2> QED
    BY <2>1, <2>2, <2>3, <2>4, <2>5, <2>6, <2>7, <2>8, <2>9, <2>10, <2>11,
       <2>12, <2>13 DEF Next, Main
<1> QED
  BY <1>1, <1>2, PTL DEF Spec

-----------------------------------------------------------------------------
(* What main and the line keep to: the bytes on the line are bytes, and     *)
(* main has a frame to take just when it is about to take it.              *)
Handover ==
  /\ line \in Seq(Byte)
  /\ pc \in Places
  /\ has_frame = 1 <=> pc = "process"

LEMMA StepUsesRing ==
  ASSUME Handover, [Next]_vars
  PROVE  [RingView!Next]_(RingView!vars)
<1> USE DEF RingView!Next, RingView!Main, RingView!vars, RingView!ringVars,
            RingView!mainVars
<1>1. CASE PopStep
  <2>1. Ring!UartRxAvailable => RingView!UartRxAvailable
    BY DEF Ring!UartRxAvailable, RingView!UartRxAvailable, Ring!SomeAvailable,
           RingView!SomeAvailable, Ring!Count, RingView!Count, Ring!ringVars
  <2>2. Ring!GetcTest => RingView!GetcTest
    BY DEF Ring!GetcTest, RingView!GetcTest, Ring!ringVars
  <2>3. Ring!GetcLoad => RingView!GetcLoad
    BY DEF Ring!GetcLoad, RingView!GetcLoad, Ring!ringVars
  <2>4. Ring!GetcAdvance => RingView!GetcAdvance
    BY DEF Ring!GetcAdvance, RingView!GetcAdvance, Ring!NextSlot, RingView!NextSlot
  <2> QED
    BY <1>1, <2>1, <2>2, <2>3, <2>4 DEF PopStep
<1>2. CASE FeedByte
  <2>1. CASE Framer!FrameReady
    BY <1>2, <2>1 DEF FeedByte, AfterFeed, ringVars
  <2>2. CASE ~Framer!FrameReady
    BY <1>2, <2>2 DEF FeedByte, AfterFeed, ringVars, RingView!HandleByte
  <2> QED
    BY <2>1, <2>2
<1>3. CASE ProcessFrame
  BY <1>3 DEF ProcessFrame, ringVars, RingView!HandleByte
<1>4. CASE Tick
  BY <1>4 DEF Tick, ringVars, RingView!GoRound
<1>5. CASE TestSendFlag
  BY <1>5 DEF TestSendFlag, ringVars
<1>6. CASE ClearSendFlag \/ SendMessage \/ ToggleLed
  BY <1>6 DEF ClearSendFlag, SendMessage, ToggleLed, ringVars
<1>7. CASE UartRxIsr
  <2>1. Head(line) \in Byte
    BY <1>7 DEF UartRxIsr, Handover
  <2>2. Ring!UartRxIsr(Head(line)) => RingView!UartRxIsr(Head(line))
    BY DEF Ring!UartRxIsr, RingView!UartRxIsr, Ring!Full, RingView!Full,
           Ring!Push, RingView!Push, Ring!Drop, RingView!Drop, Ring!NextSlot,
           RingView!NextSlot, Ring!mainVars
  <2> QED
    BY <1>7, <2>1, <2>2 DEF UartRxIsr
<1>8. CASE Press \/ Release \/ ButtonIsr \/ UNCHANGED vars
           \/ \E chunk \in Chunks : NewChunk(chunk)
  BY <1>8 DEF Press, Release, ButtonIsr, NewChunk, vars, ringVars
<1> QED
  BY <1>1, <1>2, <1>3, <1>4, <1>5, <1>6, <1>7, <1>8 DEF Next, Main

LEMMA StepUsesFramer ==
  ASSUME Handover, c \in Byte, FramerProofs!IInv, [Next]_vars
  PROVE  [Framer!Next]_(Framer!vars)
<1>1. CASE FeedByte
  <2>1. Framer!Feed(c)
    BY <1>1 DEF FeedByte, Framer!Feed, Handover, FramerProofs!IInv,
                FramerProofs!TypeOK
  <2> QED
    BY <2>1 DEF Framer!Next
<1>2. CASE ProcessFrame
  BY <1>2 DEF ProcessFrame, Framer!Next
<1>3. CASE Tick
  BY <1>3 DEF Tick, Framer!Next, Framer!vars, framerVars
<1>4. CASE UNCHANGED framerVars
  BY <1>4 DEF Framer!vars, framerVars
<1> QED
  BY <1>1, <1>2, <1>3, <1>4
     DEF Next, Main, PopStep, TestSendFlag, ClearSendFlag, SendMessage,
         ToggleLed, NewChunk, UartRxIsr, Press, Release, ButtonIsr, vars

LEMMA StepKeepsHandover ==
  ASSUME Handover, FramerProofs!IInv, [Next]_vars
  PROVE  Handover'
<1> USE DEF Handover, Places
<1>1. CASE PopStep
  BY <1>1 DEF PopStep, lineVars, framerVars, Ring!UartRxAvailable, Ring!GetcTest,
              Ring!GetcLoad, Ring!GetcAdvance
<1>2. CASE FeedByte
  <2>1. has_frame' = 1 <=> Framer!FrameReady
    BY <1>2 DEF FeedByte, Framer!FrameReady, Framer!FeedByte, Framer!FeedPlaintext,
                Framer!FeedSync1, Framer!FeedSync2, Framer!FeedData,
                FramerProofs!IInv, FramerProofs!TypeOK
  <2> QED
    BY <1>2, <2>1 DEF FeedByte, AfterFeed, lineVars
<1>3. CASE ProcessFrame
  <2>1. has_frame' = 0
    BY <1>3 DEF ProcessFrame, Framer!Take, FramerProofs!IInv, FramerProofs!TypeOK
  <2> QED
    BY <1>3, <2>1 DEF ProcessFrame, lineVars
<1>4. CASE Tick
  BY <1>4 DEF Tick, Framer!TimeoutRecovery, framerVars, lineVars
<1>5. CASE TestSendFlag \/ ClearSendFlag \/ SendMessage \/ ToggleLed
  BY <1>5 DEF TestSendFlag, ClearSendFlag, SendMessage, ToggleLed, framerVars,
              lineVars
<1>6. CASE UartRxIsr
  BY <1>6 DEF UartRxIsr, Ring!UartRxIsr, Ring!mainVars, framerVars
<1>7. ASSUME NEW chunk \in Chunks, NewChunk(chunk) PROVE Handover'
  BY <1>7 DEF NewChunk, framerVars
<1>8. CASE Press \/ Release \/ ButtonIsr \/ UNCHANGED vars
  BY <1>8 DEF Press, Release, ButtonIsr, vars, framerVars, lineVars
<1> QED
  BY <1>1, <1>2, <1>3, <1>4, <1>5, <1>6, <1>7, <1>8 DEF Next, Main

(* Each of the three needs the others: the framer's invariant that c is a   *)
(* byte, the hand-over that the framer accepts every frame length.         *)
BInv ==
  /\ Handover
  /\ RingProofs!IInv
  /\ FramerProofs!IInv

LEMMA InitEstablishesBInv ==
  Init => BInv /\ RingView!Init /\ Framer!Init
<1> SUFFICES ASSUME Init PROVE BInv /\ RingView!Init /\ Framer!Init
  OBVIOUS
<1>1. RingView!Init
  BY DEF Init, Ring!Init, RingView!Init, Ring!Slots, RingView!Slots
<1>2. Framer!Init
  BY DEF Init
<1>3. RingProofs!IInv
  BY <1>1, SameRingInit, RingProofs!InitEstablishesIInv
<1>4. FramerProofs!IInv
  BY <1>2, SameFramerInit, FramerProofs!InitEstablishesIInv
<1>5. Handover
  BY DEF Init, Ring!Init, Framer!Init, Handover, Places
<1> QED
  BY <1>1, <1>2, <1>3, <1>4, <1>5 DEF BInv

LEMMA StepKeepsBInv ==
  ASSUME BInv, [Next]_vars
  PROVE  /\ BInv'
         /\ [RingView!Next]_(RingView!vars)
         /\ [Framer!Next]_(Framer!vars)
<1>1. [RingView!Next]_(RingView!vars)
  BY StepUsesRing DEF BInv
<1>2. RingProofs!IInv'
  BY <1>1, SameRingNext, RingProofs!StepKeepsIInv DEF BInv
<1>3. [Framer!Next]_(Framer!vars)
  BY StepUsesFramer DEF BInv, RingProofs!IInv, RingProofs!TypeOK
<1>4. FramerProofs!IInv'
  BY <1>3, SameFramerNext, FramerProofs!StepKeepsIInv DEF BInv
<1>5. Handover'
  BY StepKeepsHandover DEF BInv
<1> QED
  BY <1>1, <1>2, <1>3, <1>4, <1>5 DEF BInv

LEMMA BInvIsInvariant == Spec => []BInv
BY InitEstablishesBInv, StepKeepsBInv, PTL DEF Spec

(* The inner loop of main, with its calls of process_frame and the rest of  *)
(* the outer loop in between, is the loop that RxRing studies.             *)
THEOREM RingUsedProperly == Spec => UsesRingProperly
BY InitEstablishesBInv, StepKeepsBInv, BInvIsInvariant, PTL
   DEF Spec, UsesRingProperly, RingView!Spec

(* Main takes a frame before it feeds the next byte, takes none that is not *)
(* there, and ticks only between bytes.                                    *)
THEOREM FramerUsedProperly == Spec => UsesFramerProperly
BY InitEstablishesBInv, StepKeepsBInv, BInvIsInvariant, PTL
   DEF Spec, UsesFramerProperly, Framer!Spec

(* So the results about the components hold on the board: nothing is lost   *)
(* between uart_rx_isr and main, and no frame overruns the framer.         *)
THEOREM ComponentsSafe ==
  Spec => [](RingView!NothingLostInside /\ RingView!AvailableNeverGoesStale
               /\ RingView!LoadedByteIsStillThere /\ Framer!NeverOverruns)
<1>1. BInv => /\ RingView!NothingLostInside
              /\ RingView!AvailableNeverGoesStale
              /\ RingView!LoadedByteIsStillThere
  BY DEF BInv, RingProofs!IInv, RingProofs!NothingLostInside,
         RingProofs!AvailableNeverGoesStale, RingProofs!LoadedByteIsStillThere,
         RingView!NothingLostInside, RingView!AvailableNeverGoesStale,
         RingView!LoadedByteIsStillThere, RingProofs!Count, RingView!Count
<1>2. BInv => Framer!NeverOverruns
  BY DEF BInv, FramerProofs!IInv, FramerProofs!PayloadStarted,
         Framer!NeverOverruns
<1> QED
  BY <1>1, <1>2, BInvIsInvariant, PTL

-----------------------------------------------------------------------------
(* What is on its way through the board: what the framer holds, the byte    *)
(* that main has popped, the unread bytes of the ring, and the rest of the *)
(* chunk on the line.  While nothing is spoilt, this is a stream of whole  *)
(* frames, as many as are still to be answered.                            *)
Got == IF pc = "got" THEN <<c>> ELSE <<>>

Flight == (FramerProofs!Held \o Got) \o (RingProofs!Unread \o line)

Frames ==
  {[bytes |-> chunk.bytes, count |-> 1] :
     chunk \in {k \in Chunks : k.says # Nothing}}

OnlyFramesInFlight ==
  ~spoilt => \E n \in Nat : /\ Counts(Byte, Frames, Flight, n)
                            /\ Len(due) - Cardinality(Answers) = missed + n

IsSequence(s) == \E S : s \in Seq(S)

AnswerInv ==
  /\ IsSequence(due)
  /\ IsSequence(tx)
  /\ missed \in Int
  /\ spoilt \in BOOLEAN
  /\ s_nonce_ctr \in 0..(CTR_SIZE - 1)
  /\ OnlyFramesInFlight

LEMMA LongerSequence ==
  ASSUME NEW s, IsSequence(s), NEW x
  PROVE  /\ IsSequence(s \o <<x>>)
         /\ Len(s) \in Nat /\ Len(s \o <<x>>) \in Nat
         /\ Len(s \o <<x>>) - Len(s) = 1
         /\ \A i \in 1..Len(s) : (s \o <<x>>)[i] = s[i]
         /\ (s \o <<x>>)[Len(s) + 1] = x
<1>1. PICK S : s \in Seq(S)
  BY DEF IsSequence
<1>2. /\ s \o <<x>> \in Seq(S \cup {x})
      /\ Len(s \o <<x>>) - Len(s) = 1
      /\ \A i \in 1..Len(s) : (s \o <<x>>)[i] = s[i]
      /\ (s \o <<x>>)[Len(s) + 1] = x
  BY <1>1, OneMoreEntry
<1> DEFINE t == s \o <<x>>
<1> HIDE DEF t
<1>3. t \in Seq(S \cup {x})
  BY <1>2 DEF t
<1>4. Len(s) \in Nat /\ Len(t) \in Nat
  BY <1>1, <1>3, LenProperties
<1>5. IsSequence(t)
  BY <1>3 DEF IsSequence
<1> QED
  BY <1>2, <1>4, <1>5 DEF t

(* A transmission counts as an answer when it is one. *)
LEMMA SentCounts ==
  ASSUME IsSequence(tx), NEW from, NEW frame, tx' = tx \o Sent(from, frame)
  PROVE  /\ IsSequence(tx')
         /\ Cardinality(Answers) \in Nat /\ Cardinality(Answers') \in Nat
         /\ Cardinality(Answers') - Cardinality(Answers) =
              IF frame # <<>> /\ from = "line" THEN 1 ELSE 0
<1>1. PICK S : tx \in Seq(S)
  BY DEF IsSequence
<1>2. Len(tx) \in Nat /\ DOMAIN tx = 1..Len(tx)
  BY <1>1, LenProperties
<1>3. IsFiniteSet(Answers) /\ Cardinality(Answers) \in Nat
  <2>1. IsFiniteSet(1..Len(tx))
    BY <1>2, FS_Interval
  <2>2. Answers \in SUBSET (1..Len(tx))
    BY <1>2 DEF Answers
  <2>3. IsFiniteSet(Answers)
    BY <2>1, <2>2, FS_Subset
  <2> QED
    BY <2>3, FS_CardinalityType
<1>4. CASE frame = <<>>
  <2>1. tx' = tx
    BY <1>1, <1>4, ConcatEmptySeq DEF Sent
  <2>2. Answers' = Answers
    BY <2>1 DEF Answers
  <2>3. IsSequence(tx')
    BY <2>1, Zenon
  <2> DEFINE was == Cardinality(Answers)  now == Cardinality(Answers')
  <2>4. was \in Nat /\ now = was
    BY <1>3, <2>2
  <2> HIDE DEF was, now
  <2>5. now \in Nat /\ now - was = 0
    BY <2>4
  <2> QED
    BY <1>4, <2>3, <2>4, <2>5 DEF was, now
<1>5. CASE frame # <<>>
  <2> DEFINE x == [frame |-> frame, from |-> from]
  <2>1. tx' = tx \o <<x>>
    BY <1>5 DEF Sent
  <2>2. x.from = from
    OBVIOUS
  <2> HIDE DEF x
  <2>3. /\ IsSequence(tx') /\ Len(tx') \in Nat /\ Len(tx') - Len(tx) = 1
        /\ \A i \in 1..Len(tx) : tx'[i] = tx[i]
        /\ tx'[Len(tx) + 1] = x
    BY <2>1, LongerSequence
  <2>4. DOMAIN tx' = 1..Len(tx')
    <3>1. PICK R : tx' \in Seq(R)
      BY <2>3 DEF IsSequence
    <3> QED
      BY <3>1, LenProperties
  <2>5. DOMAIN tx' = (1..Len(tx)) \cup {Len(tx) + 1}
    <3>1. Len(tx') = Len(tx) + 1
      BY <1>2, <2>3
    <3> QED
      BY <1>2, <2>4, <3>1
  <2> DEFINE next == Len(tx) + 1
  <2>6. next \notin 1..Len(tx)
    BY <1>2
  <2> HIDE DEF next
  <2>7. next \notin Answers
    BY <1>2, <2>6 DEF Answers
  <2>8. CASE from = "line"
    <3>1. Answers' = Answers \cup {next}
      BY <1>2, <2>2, <2>3, <2>5, <2>8 DEF Answers, next
    <3>2. Cardinality(Answers \cup {next}) = Cardinality(Answers) + 1
      BY <1>3, <2>7, FS_AddElement
    <3> DEFINE was == Cardinality(Answers)  now == Cardinality(Answers')
    <3>3. was \in Nat /\ now = was + 1
      BY <1>3, <3>1, <3>2
    <3> HIDE DEF was, now
    <3>4. now \in Nat /\ now - was = 1
      BY <3>3
    <3> QED
      BY <1>5, <2>3, <2>8, <3>3, <3>4 DEF was, now
  <2>9. CASE from # "line"
    <3>1. Answers' = Answers
      BY <1>2, <2>2, <2>3, <2>5, <2>9 DEF Answers, next
    <3> QED
      BY <1>3, <2>3, <2>9, <3>1
  <2> QED
    BY <2>8, <2>9
<1> QED
  BY <1>4, <1>5

(* A chunk that says something is a frame of its own. *)
LEMMA WholeChunkIsFrame ==
  ASSUME NEW chunk \in Chunks, chunk.says # Nothing
  PROVE  IsFrame(Byte, CHAT_SYNC_BYTE, CHAT_MAX_FRAME, chunk.bytes)
<1> DEFINE payload == SubSeq(chunk.bytes, 4, Len(chunk.bytes))
<1>1. /\ Len(payload) \in Byte \cap 1..CHAT_MAX_FRAME
      /\ chunk.bytes = InFrame(CHAT_SYNC_BYTE, Len(payload), payload)
  BY ChunksAssumption DEF WholeChunk, InFrame
<1>2. payload \in Seq(Byte)
  <2>1. chunk.bytes \in Seq(Byte)
    OBVIOUS
  <2> QED
    BY <1>1, <2>1
<1> DEFINE len == Len(payload)
           f   == InFrame(CHAT_SYNC_BYTE, len, payload)
<1> HIDE DEF payload
<1>3. len \in Byte \cap 1..CHAT_MAX_FRAME /\ CHAT_SYNC_BYTE \in Byte
  BY <1>1
<1>4. chunk.bytes = f
  BY <1>1
<1>5. Len(f) = 3 + Len(payload)
  <2> HIDE DEF len
  <2> QED
    BY <1>2, <1>3, InFrameStarts
<1> HIDE DEF len
<1>6. /\ f \in Seq(Byte)
      /\ f[1] = CHAT_SYNC_BYTE /\ f[2] = CHAT_SYNC_BYTE /\ f[3] = len
  BY <1>2, <1>3, InFrameStarts
<1> HIDE DEF f
<1>7. Len(f) = 3 + len
  BY <1>5 DEF len
<1>8. IsFrame(Byte, CHAT_SYNC_BYTE, CHAT_MAX_FRAME, f)
  BY <1>3, <1>6, <1>7 DEF IsFrame
<1> QED
  BY <1>4, <1>8

(* Whatever the nonce counter, the board has an answer to its payload. *)
LEMMA WholeChunkIsAnswered ==
  ASSUME NEW chunk \in Chunks, chunk.says # Nothing,
         NEW len \in Byte, NEW payload \in Seq(Byte),
         chunk.bytes = InFrame(CHAT_SYNC_BYTE, len, payload),
         NEW ctr \in 0..(CTR_SIZE - 1)
  PROVE  Answer(ctr, payload).frame # <<>>
<1>1. Len(chunk.bytes) = 3 + Len(payload)
  BY InFrameStarts
<1>2. SubSeq(chunk.bytes, 4, 3 + Len(payload)) = payload
  BY InFrameEnds
<1>3. SubSeq(chunk.bytes, 4, Len(chunk.bytes)) = payload
  BY <1>1, <1>2
<1>4. WholeChunk(chunk)
  BY ChunksAssumption
<1> QED
  BY <1>3, <1>4 DEF WholeChunk

LEMMA FramesAreItems == AreItems(Byte, Frames)
BY DEF AreItems, Frames

(* While frames are under way, one of them comes first. *)
LEMMA FrameComesFirst ==
  ASSUME NEW s \in Seq(Byte), NEW n \in Nat, Counts(Byte, Frames, s, n)
  PROVE  \/ s = <<>> /\ n = 0
         \/ \E chunk \in Chunks, q \in Seq(Byte), m \in Nat :
              /\ chunk.says # Nothing
              /\ IsFrame(Byte, CHAT_SYNC_BYTE, CHAT_MAX_FRAME, chunk.bytes)
              /\ s = chunk.bytes \o q
              /\ Counts(Byte, Frames, q, m)
              /\ n = 1 + m
<1>1. HeadFirst(Byte, Frames, s, n)
  BY FrameFirst, FramesAreItems
<1>2. ASSUME NEW f \in Frames, NEW q \in Seq(Byte), NEW m \in Nat,
             Counts(Byte, Frames, q, m), s = f.bytes \o q, n = f.count + m
      PROVE  \E chunk \in Chunks, r \in Seq(Byte), k \in Nat :
               /\ chunk.says # Nothing
               /\ IsFrame(Byte, CHAT_SYNC_BYTE, CHAT_MAX_FRAME, chunk.bytes)
               /\ s = chunk.bytes \o r
               /\ Counts(Byte, Frames, r, k)
               /\ n = 1 + k
  <2>1. PICK chunk \in Chunks :
               chunk.says # Nothing /\ f = [bytes |-> chunk.bytes, count |-> 1]
    BY DEF Frames
  <2>2. f.bytes = chunk.bytes /\ f.count = 1
    BY <2>1
  <2> QED
    BY <1>2, <2>1, <2>2, WholeChunkIsFrame
<1> QED
  BY <1>1, <1>2 DEF HeadFirst

(* The parts of the flight. *)
LEMMA PartsOfFlight ==
  ASSUME BInv
  PROVE  /\ FramerProofs!Pending \in Seq(Byte) /\ Unfinished(FramerProofs!Pending)
         /\ FramerProofs!Held \in Seq(Byte) /\ Got \in Seq(Byte)
         /\ RingProofs!Unread \in Seq(Byte) /\ line \in Seq(Byte)
         /\ FramerProofs!Held \o Got \in Seq(Byte)
         /\ RingProofs!Unread \o line \in Seq(Byte)
         /\ Flight \in Seq(Byte)
<1>1. /\ FramerProofs!Pending \in Seq(Byte) /\ Unfinished(FramerProofs!Pending)
      /\ FramerProofs!Held \in Seq(Byte)
  BY FramerProofs!HeldIs DEF BInv, FramerProofs!Unfinished, Unfinished
<1>2. RingProofs!Unread \in Seq(Byte)
  BY RingProofs!UnreadIs DEF BInv, RingProofs!IInv
<1>3. c \in Byte /\ line \in Seq(Byte)
  BY DEF BInv, Handover, RingProofs!IInv, RingProofs!TypeOK
<1>4. Got \in Seq(Byte)
  BY <1>3 DEF Got
<1> QED
  BY <1>1, <1>2, <1>3, <1>4, ConcatProperties DEF Flight

LEMMA SameFlight ==
  ASSUME UNCHANGED <<state, buffer, index, expected_length, has_frame, ready_length,
                     rx_buffer, rx_buffer_head, rx_buffer_tail, line>>,
         Got' = Got
  PROVE  Flight' = Flight
<1>1. FramerProofs!Held' = FramerProofs!Held
  BY DEF FramerProofs!Held, FramerProofs!Pending, FramerProofs!Taken
<1>2. RingProofs!Unread' = RingProofs!Unread
  BY DEF RingProofs!Unread, RingProofs!Count
<1> QED
  BY <1>1, <1>2 DEF Flight

(* A byte that main pops goes from the ring to c. *)
LEMMA PopKeepsFlight ==
  ASSUME BInv, BInv', PopStep
  PROVE  Flight' = Flight
<1> USE DEF PopStep, framerVars, lineVars
<1>1. CASE Ring!UartRxAvailable \/ Ring!GetcTest \/ Ring!GetcLoad
  <2>1. Got' = Got
    BY <1>1 DEF Ring!UartRxAvailable, Ring!GetcTest, Ring!GetcLoad, Got
  <2> QED
    BY <1>1, <2>1, SameFlight
       DEF Ring!UartRxAvailable, Ring!GetcTest, Ring!GetcLoad, Ring!ringVars
<1>2. CASE Ring!GetcAdvance
  <2>1. RingProofs!GetcAdvance /\ pc = "advance" /\ c' = loaded /\ pc' = "got"
    BY <1>2 DEF Ring!GetcAdvance, RingProofs!GetcAdvance, Ring!NextSlot,
                RingProofs!NextSlot
  <2>2. /\ RingProofs!TypeOK /\ RingProofs!TypeOK'
        /\ rx_buffer_head # rx_buffer_tail /\ rx_buffer[rx_buffer_tail] = loaded
    BY <2>1 DEF BInv, RingProofs!IInv, RingProofs!LoadedByteIsStillThere
  <2> DEFINE unread == RingProofs!Unread
             held   == FramerProofs!Held
  <2>3. /\ unread # <<>> /\ Head(unread) = loaded /\ unread' = Tail(unread)
    BY <2>1, <2>2, RingProofs!AdvanceTakesHead
  <2>4. held' = held /\ line' = line
    BY DEF FramerProofs!Held, FramerProofs!Pending, FramerProofs!Taken
  <2>5. Got = <<>> /\ Got' = <<loaded>>
    BY <2>1 DEF Got
  <2>6. held \in Seq(Byte) /\ unread \in Seq(Byte) /\ line \in Seq(Byte)
    BY PartsOfFlight
  <2>7. /\ Flight = (held \o <<>>) \o (unread \o line)
        /\ Flight' = (held \o <<loaded>>) \o (Tail(unread) \o line)
    BY <2>3, <2>4, <2>5 DEF Flight
  <2> HIDE DEF held, unread
  <2>8. held \o <<>> = held
    <3>1. held \in Seq(Byte)
      BY <2>6
    <3> QED
      BY ONLY <3>1, ConcatEmptySeq
  <2> DEFINE left == Tail(unread)
  <2>9. loaded = Head(unread) /\ left = Tail(unread) /\ unread # <<>>
    BY <2>3
  <2> HIDE DEF left
  <2>10. held \o (unread \o line) = (held \o <<loaded>>) \o (left \o line)
    BY <2>6, <2>9, ByteMoves, SMTT(20)
  <2> QED
    BY <2>7, <2>8, <2>10 DEF left
<1> QED
  BY <1>1, <1>2

(* A byte that is complete goes from the line to the ring, if there is room. *)
LEMMA IsrKeepsFlight ==
  ASSUME BInv, BInv', UartRxIsr, ~Ring!Full
  PROVE  Flight' = Flight
<1> DEFINE b == Head(line)
           unread == RingProofs!Unread
           front  == FramerProofs!Held \o Got
<1>1. /\ line # <<>> /\ line' = Tail(line) /\ b \in Byte
      /\ RingProofs!Push(b) /\ ~RingProofs!Full
      /\ UNCHANGED <<rx_buffer_tail, pc, c, framerVars>>
  BY DEF UartRxIsr, Ring!UartRxIsr, Ring!Push, RingProofs!Push, Ring!Full,
         RingProofs!Full, Ring!NextSlot, RingProofs!NextSlot, Ring!mainVars,
         BInv, Handover
<1>2. RingProofs!TypeOK /\ RingProofs!TypeOK'
  BY DEF BInv, RingProofs!IInv
<1>3. unread' = Append(unread, b)
  BY <1>1, <1>2, RingProofs!PushAppends
<1>4. front' = front
  BY <1>1 DEF FramerProofs!Held, FramerProofs!Pending, FramerProofs!Taken, Got,
              framerVars
<1>5. unread \in Seq(Byte) /\ line \in Seq(Byte)
  BY PartsOfFlight
<1>6. Flight = front \o (unread \o line) /\ Flight' = front \o (unread' \o line')
  BY <1>4 DEF Flight
<1> HIDE DEF unread, front
<1>7. unread \o line = Append(unread, b) \o Tail(line)
  BY <1>1, <1>5, ByteIsAppended
<1> HIDE DEF b
<1> QED
  BY <1>1, <1>3, <1>6, <1>7

(* Of whole frames the framer lets no byte pass. *)
LEMMA FeedKeepsFlight ==
  ASSUME BInv, BInv', FeedByte, NEW n \in Nat, Counts(Byte, Frames, Flight, n)
  PROVE  Flight' = Flight
<1> DEFINE pending == FramerProofs!Pending
           held    == FramerProofs!Held
           a       == Append(pending, c)
           rest    == RingProofs!Unread \o line
<1>1. /\ pc = "got" /\ pc' # "got" /\ c \in Byte /\ has_frame = 0
      /\ UNCHANGED <<rx_buffer, rx_buffer_head, rx_buffer_tail, line>>
  BY DEF FeedByte, AfterFeed, ringVars, lineVars, BInv, Handover, RingProofs!IInv,
         RingProofs!TypeOK, FramerProofs!IInv, FramerProofs!TypeOK
<1>2. FramerProofs!Feed(c)
  BY <1>1 DEF FeedByte, FramerProofs!Feed, Framer!FeedByte, FramerProofs!FeedByte,
       Framer!FeedPlaintext, FramerProofs!FeedPlaintext,
       Framer!FeedSync1, FramerProofs!FeedSync1,
       Framer!FeedSync2, FramerProofs!FeedSync2,
       Framer!Accepts, FramerProofs!Accepts,
       Framer!FeedData, FramerProofs!FeedData
<1>3. /\ pending \in Seq(Byte) /\ Unfinished(pending) /\ rest \in Seq(Byte)
      /\ Flight \in Seq(Byte) /\ held = pending
  BY <1>1, PartsOfFlight DEF FramerProofs!Held
<1>4. Got = <<c>> /\ Got' = <<>> /\ rest' = rest
  BY <1>1 DEF Got, RingProofs!Unread, RingProofs!Count
<1>5. Flight = (pending \o <<c>>) \o rest /\ Flight' = (held' \o <<>>) \o rest
  BY <1>3, <1>4 DEF Flight
<1>6. a \in Seq(Byte) /\ Len(a) = Len(pending) + 1 /\ Len(pending) \in Nat
      /\ OneMore(pending, a)
  <2> HIDE DEF pending
  <2> QED
    BY <1>1, <1>3 DEF OneMore
<1>7. Flight = a \o rest
  <2> HIDE DEF pending, rest
  <2>1. a = pending \o <<c>>
    BY <1>1, <1>3, AppendIsConcat
  <2> QED
    BY <1>5, <2>1
<1>8. Flight # <<>>
  <2> HIDE DEF a, rest, pending
  <2>1. a # <<>>
    BY <1>6
  <2> QED
    BY <1>3, <1>6, <1>7, <2>1, ConcatSimplifications
<1>9. PICK chunk \in Chunks, q \in Seq(Byte) :
        /\ IsFrame(Byte, CHAT_SYNC_BYTE, CHAT_MAX_FRAME, chunk.bytes)
        /\ Flight = chunk.bytes \o q
  BY <1>3, <1>8, FrameComesFirst
<1> DEFINE f == chunk.bytes
<1>10. StartsWith(f, a)
  <2>1. a \o rest = f \o q /\ IsFrame(Byte, CHAT_SYNC_BYTE, CHAT_MAX_FRAME, f)
    BY <1>7, <1>9
  <2>2. CHAT_SYNC_BYTE \in Byte /\ CHAT_MAX_FRAME \in Nat
    OBVIOUS
  <2> HIDE DEF a, rest, f, pending
  <2> QED
    BY <1>3, <1>6, <2>1, <2>2, StartOfFrame
<1>11. held' = a
  <2>1. /\ FramerProofs!IsFrame(Byte, CHAT_SYNC_BYTE, CHAT_MAX_FRAME, f)
        /\ FramerProofs!StartsWith(f, a)
    BY <1>9, <1>10 DEF FramerProofs!IsFrame, IsFrame, FramerProofs!StartsWith,
                       StartsWith
  <2> HIDE DEF f
  <2> QED
    BY <1>1, <1>2, <1>3, <2>1, FramerProofs!NothingIsForgotten DEF BInv
<1> HIDE DEF a, rest, held, pending
<1>12. a \o <<>> = a
  BY <1>6, ConcatEmptySeq
<1> QED
  BY <1>5, <1>7, <1>11, <1>12

(* The frame that is processed is the one that comes first, and is answered. *)
LEMMA ProcessKeepsAnswerInv ==
  ASSUME BInv, BInv', AnswerInv, ProcessFrame
  PROVE  AnswerInv'
<1> DEFINE answer == Answer(s_nonce_ctr, FramerProofs!Taken)
           g == FramerProofs!Held
           r == RingProofs!Unread \o line
<1>1. /\ pc = "process" /\ pc' = "poll" /\ has_frame = 1 /\ has_frame' = 0
      /\ state' = state
      /\ tx' = tx \o Sent("line", answer.frame)
      /\ s_nonce_ctr' \in {s_nonce_ctr, NextCtr(s_nonce_ctr)}
      /\ UNCHANGED <<rx_buffer, rx_buffer_head, rx_buffer_tail, line, due, missed, spoilt>>
  <2>1. has_frame' = 0
    BY DEF ProcessFrame, Framer!Take, BInv, FramerProofs!IInv, FramerProofs!TypeOK
  <2>2. tx' = tx \o Sent("line", answer.frame)
    BY DEF ProcessFrame, Framer!Taken, FramerProofs!Taken
  <2>3. s_nonce_ctr' \in {s_nonce_ctr, NextCtr(s_nonce_ctr)}
    BY DEF ProcessFrame
  <2> QED
    BY <2>1, <2>2, <2>3 DEF ProcessFrame, Framer!Take, ringVars, lineVars
<1>2. s_nonce_ctr' \in 0..(CTR_SIZE - 1)
  <2>1. /\ CTR_SIZE \in Nat /\ CTR_SIZE >= 2
        /\ s_nonce_ctr \in 0..(CTR_SIZE - 1)
    BY CtrSizeIs DEF AnswerInv
  <2>2. (s_nonce_ctr + 1) % CTR_SIZE \in 0..(CTR_SIZE - 1)
    <3> HIDE DEF CTR_SIZE
    <3> QED
      BY <2>1
  <2> QED
    BY <1>1, <2>1, <2>2 DEF NextCtr
<1>3. /\ g \in Seq(Byte) /\ IsFrame(Byte, CHAT_SYNC_BYTE, CHAT_MAX_FRAME, g)
      /\ FramerProofs!Taken \in Seq(Byte) /\ ready_length \in Byte
      /\ g = InFrame(CHAT_SYNC_BYTE, ready_length, FramerProofs!Taken)
  BY <1>1, FramerProofs!HeldIs
     DEF BInv, FramerProofs!IsFrame, IsFrame, FramerProofs!InFrame, InFrame
<1>4. r \in Seq(Byte) /\ Flight \in Seq(Byte)
  BY PartsOfFlight
<1>5. Flight = g \o r /\ Flight' = r
  <2>1. Got = <<>> /\ Got' = <<>> /\ r' = r
    BY <1>1 DEF Got, RingProofs!Unread, RingProofs!Count
  <2>2. g' = <<>>
    <3>1. state = "PLAINTEXT"
      BY <1>1 DEF BInv, FramerProofs!IInv, FramerProofs!FrameWaitsInPlaintext
    <3> QED
      BY <1>1, <3>1 DEF FramerProofs!Held, FramerProofs!Pending
  <2>3. Flight = (g \o <<>>) \o r /\ Flight' = (<<>> \o <<>>) \o r
    BY <2>1, <2>2 DEF Flight
  <2> HIDE DEF g, r
  <2>4. g \o <<>> = g /\ <<>> \o r = r
    BY <1>3, <1>4, ConcatEmptySeq
  <2>5. <<>> \o <<>> = <<>>
    OBVIOUS
  <2> QED
    BY <2>3, <2>4, <2>5
<1>6. /\ IsSequence(tx')
      /\ Cardinality(Answers) \in Nat /\ Cardinality(Answers') \in Nat
      /\ Cardinality(Answers') - Cardinality(Answers) =
           IF answer.frame # <<>> THEN 1 ELSE 0
  <2> HIDE DEF answer
  <2>1. IsSequence(tx)
    BY DEF AnswerInv
  <2> QED
    BY <1>1, <2>1, SentCounts
<1>7. ASSUME ~spoilt
      PROVE  \E m \in Nat : /\ Counts(Byte, Frames, r, m)
                            /\ Len(due) - Cardinality(Answers') = missed + m
  <2>1. PICK n \in Nat : /\ Counts(Byte, Frames, Flight, n)
                         /\ Len(due) - Cardinality(Answers) = missed + n
    BY <1>7 DEF AnswerInv, OnlyFramesInFlight
  <2>2. Flight # <<>>
    <3>1. g # <<>>
      <4> HIDE DEF g
      <4> QED
        BY <1>3 DEF IsFrame
    <3> HIDE DEF g, r
    <3> QED
      BY <1>3, <1>4, <1>5, <3>1, ConcatSimplifications
  <2>3. PICK chunk \in Chunks, q \in Seq(Byte), m \in Nat :
          /\ chunk.says # Nothing
          /\ IsFrame(Byte, CHAT_SYNC_BYTE, CHAT_MAX_FRAME, chunk.bytes)
          /\ Flight = chunk.bytes \o q
          /\ Counts(Byte, Frames, q, m)
          /\ n = 1 + m
    BY <1>4, <2>1, <2>2, FrameComesFirst
  <2> DEFINE f == chunk.bytes
  <2>4. f = g /\ q = r
    <3>1. FrameThen(Byte, CHAT_SYNC_BYTE, CHAT_MAX_FRAME, f, q, Flight)
      BY <2>3 DEF FrameThen
    <3>2. FrameThen(Byte, CHAT_SYNC_BYTE, CHAT_MAX_FRAME, g, r, Flight)
      BY <1>3, <1>4, <1>5 DEF FrameThen
    <3>3. CHAT_MAX_FRAME \in Nat
      OBVIOUS
    <3> HIDE DEF f, g, r
    <3> QED
      BY <3>1, <3>2, <3>3, SameFrame
  <2>5. answer.frame # <<>>
    <3> DEFINE payload == FramerProofs!Taken
    <3>1. /\ payload \in Seq(Byte) /\ ready_length \in Byte
          /\ chunk.bytes = InFrame(CHAT_SYNC_BYTE, ready_length, payload)
          /\ s_nonce_ctr \in 0..(CTR_SIZE - 1)
      BY <1>3, <2>4 DEF AnswerInv
    <3> HIDE DEF payload
    <3>2. Answer(s_nonce_ctr, payload).frame # <<>>
      BY <2>3, <3>1, WholeChunkIsAnswered
    <3> QED
      BY <3>2 DEF payload
  <2> DEFINE was == Cardinality(Answers)  now == Cardinality(Answers')
             all == Len(due)
  <2>6. /\ was \in Nat /\ now \in Nat /\ now - was = 1
        /\ all \in Nat /\ missed \in Int /\ m \in Nat
        /\ all - was = missed + (1 + m)
    <3>1. all \in Nat
      BY LenProperties DEF AnswerInv, IsSequence
    <3> QED
      BY <1>6, <2>1, <2>3, <2>5, <3>1 DEF AnswerInv
  <2> HIDE DEF was, now, all
  <2>7. all - now = missed + m
    BY <2>6
  <2> HIDE DEF r
  <2> QED
    BY <2>3, <2>4, <2>7 DEF all, now
<1> HIDE DEF g, r, answer
<1>8. OnlyFramesInFlight'
  BY <1>1, <1>5, <1>7 DEF OnlyFramesInFlight
<1> QED
  BY <1>1, <1>2, <1>6, <1>8 DEF AnswerInv

(* A chunk begins behind all that is under way, which is nothing when the   *)
(* board is settled.                                                       *)
LEMMA ChunkKeepsAnswerInv ==
  ASSUME BInv, AnswerInv, NEW chunk \in Chunks, NewChunk(chunk)
  PROVE  AnswerInv'
<1> DEFINE whole == chunk.says # Nothing
<1>1. /\ line = <<>> /\ line' = chunk.bytes
      /\ due' = IF whole THEN Append(due, chunk.says) ELSE due
      /\ spoilt' = ((spoilt /\ ~Settled) \/ ~whole)
      /\ missed' = IF Settled THEN Len(due) - Cardinality(Answers) ELSE missed
      /\ UNCHANGED <<pc, c, framerVars, rx_buffer, rx_buffer_head, rx_buffer_tail,
                     tx, s_nonce_ctr>>
      /\ Answers' = Answers
  BY DEF NewChunk, ringVars, appVars, Answers
<1> HIDE DEF whole
<1>2. /\ IsSequence(due) /\ Len(due) \in Nat /\ IsSequence(tx)
      /\ Cardinality(Answers) \in Nat /\ missed \in Int
  <2>1. Len(due) \in Nat
    BY LenProperties DEF AnswerInv, IsSequence
  <2>2. tx \o Sent("line", <<>>) = tx
    BY ConcatEmptySeq DEF AnswerInv, IsSequence, Sent
  <2>3. Cardinality(Answers) \in Nat
    <3>1. PICK S : tx \in Seq(S)
      BY DEF AnswerInv, IsSequence
    <3>2. Answers \in SUBSET (1..Len(tx)) /\ Len(tx) \in Nat
      BY <3>1, LenProperties DEF Answers
    <3>3. IsFiniteSet(1..Len(tx))
      BY <3>2, FS_Interval
    <3>4. IsFiniteSet(Answers)
      BY <3>2, <3>3, FS_Subset
    <3> QED
      BY <3>4, FS_CardinalityType
  <2> QED
    BY <2>1, <2>3 DEF AnswerInv
<1>3. /\ IsSequence(due')
      /\ whole => Len(due') \in Nat /\ Len(due') - Len(due) = 1
  <2>1. CASE whole
    <3>1. Append(due, chunk.says) = due \o <<chunk.says>>
      <4>1. PICK S : due \in Seq(S)
        BY <1>2 DEF IsSequence
      <4> DEFINE x == chunk.says
      <4> HIDE DEF x
      <4>2. due \in Seq(S \cup {x}) /\ x \in S \cup {x}
        BY <4>1
      <4>3. Append(due, x) = due \o <<x>>
        BY <4>2, AppendIsConcat
      <4> QED
        BY <4>3 DEF x
    <3> DEFINE t == due \o <<chunk.says>>
    <3>2. IsSequence(t) /\ Len(t) \in Nat /\ Len(t) - Len(due) = 1
      BY <1>2, LongerSequence
    <3>3. due' = t
      BY <1>1, <2>1, <3>1
    <3> HIDE DEF t
    <3> QED
      BY <3>2, <3>3
  <2>2. CASE ~whole
    <3>1. due' = due
      BY <1>1, <2>2
    <3> QED
      BY <1>2, <2>2, <3>1
  <2> QED
    BY <2>1, <2>2
<1>4. missed' \in Int /\ spoilt' \in BOOLEAN
  BY <1>1, <1>2 DEF AnswerInv
<1> DEFINE front == FramerProofs!Held \o Got
           unread == RingProofs!Unread
<1>5. /\ front \in Seq(Byte) /\ unread \in Seq(Byte) /\ chunk.bytes \in Seq(Byte)
      /\ front \o unread \in Seq(Byte)
      /\ Flight = front \o (unread \o <<>>)
      /\ Flight' = front \o (unread \o chunk.bytes)
  <2>1. front' = front /\ unread' = unread
    BY <1>1 DEF FramerProofs!Held, FramerProofs!Pending, FramerProofs!Taken, Got,
                framerVars, RingProofs!Unread, RingProofs!Count
  <2>2. Flight = front \o (unread \o line) /\ Flight' = front' \o (unread' \o line')
    BY DEF Flight
  <2>3. front \in Seq(Byte) /\ unread \in Seq(Byte)
    BY PartsOfFlight
  <2> HIDE DEF front, unread
  <2>4. front \o unread \in Seq(Byte)
    BY <2>3, ConcatProperties
  <2> QED
    BY <1>1, <2>1, <2>2, <2>3, <2>4
<1> HIDE DEF front, unread
<1>6. Flight = front \o unread /\ Flight' = Flight \o chunk.bytes
      /\ Flight \in Seq(Byte)
  <2>1. unread \o <<>> = unread
    BY <1>5, ConcatEmptySeq
  <2> DEFINE bytes == chunk.bytes
  <2>2. front \in Seq(Byte) /\ unread \in Seq(Byte) /\ bytes \in Seq(Byte)
    BY <1>5
  <2> HIDE DEF bytes
  <2>3. (front \o unread) \o bytes = front \o (unread \o bytes)
    <3>1. Associates(front, unread, bytes)
      BY <2>2, Regroup
    <3> QED
      BY <3>1 DEF Associates
  <2> QED
    BY <1>5, <2>1, <2>3 DEF bytes
<1>7. ASSUME whole, NEW n \in Nat, Counts(Byte, Frames, Flight, n),
             Len(due) - Cardinality(Answers) = missed' + n
      PROVE  \E m \in Nat : /\ Counts(Byte, Frames, Flight', m)
                            /\ Len(due') - Cardinality(Answers) = missed' + m
  <2> DEFINE f == [bytes |-> chunk.bytes, count |-> 1]
  <2>1. f \in Frames /\ f.bytes = chunk.bytes /\ f.count = 1
    BY <1>7 DEF Frames, whole
  <2> HIDE DEF f
  <2>2. Counts(Byte, Frames, Flight \o f.bytes, n + f.count)
    BY <1>6, <1>7, <2>1, FrameAdds
  <2>3. Counts(Byte, Frames, Flight', n + 1)
    BY <1>6, <2>1, <2>2
  <2> DEFINE now == Len(due')  was == Len(due)  done == Cardinality(Answers)
             lost == missed'
  <2>4. /\ now \in Nat /\ was \in Nat /\ done \in Nat /\ now - was = 1
        /\ was - done = lost + n /\ lost \in Int /\ n \in Nat
    BY <1>2, <1>3, <1>4, <1>7
  <2> HIDE DEF now, was, done, lost
  <2>5. now - done = lost + (n + 1) /\ n + 1 \in Nat
    BY <2>4
  <2> QED
    BY <2>3, <2>5 DEF now, done, lost
<1>8. ASSUME ~spoilt'
      PROVE  \E m \in Nat : /\ Counts(Byte, Frames, Flight', m)
                            /\ Len(due') - Cardinality(Answers) = missed' + m
  <2>1. whole /\ (~spoilt \/ Settled)
    BY <1>1, <1>8
  <2>2. CASE Settled
    <3>1. Flight = <<>>
      <4>1. Got = <<>>
        BY <2>2 DEF Settled, Drained, Got
      <4>2. FramerProofs!Held = <<>>
        <5>1. has_frame # 1
          BY <2>2 DEF Settled, Drained, BInv, Handover
        <5> QED
          BY <2>2, <5>1 DEF Settled, FramerProofs!Held, FramerProofs!Pending
      <4>3. unread = <<>>
        <5>1. RingProofs!Count = 0 /\ Len(unread) = RingProofs!Count
          BY <2>2, RingProofs!CountIs, RingProofs!UnreadIs
             DEF Settled, Drained, BInv, RingProofs!IInv, RingProofs!TypeOK, unread
        <5> QED
          BY <1>5, <5>1
      <4> QED
        BY <1>6, <4>1, <4>2, <4>3 DEF front
    <3>2. Counts(Byte, Frames, Flight, 0)
      BY <3>1, EmptyCounts
    <3>3. Len(due) - Cardinality(Answers) = missed' + 0
      BY <1>1, <1>2, <2>2
    <3> QED
      BY <1>7, <2>1, <3>2, <3>3
  <2>3. CASE ~Settled
    <3>1. PICK n \in Nat : /\ Counts(Byte, Frames, Flight, n)
                           /\ Len(due) - Cardinality(Answers) = missed + n
      BY <2>1, <2>3 DEF AnswerInv, OnlyFramesInFlight
    <3>2. Len(due) - Cardinality(Answers) = missed' + n
      BY <1>1, <2>3, <3>1
    <3> QED
      BY <1>7, <2>1, <3>1, <3>2
  <2> QED
    BY <2>2, <2>3
<1>9. OnlyFramesInFlight'
  BY <1>1, <1>8 DEF OnlyFramesInFlight
<1> QED
  BY <1>1, <1>2, <1>3, <1>4, <1>9 DEF AnswerInv

(* A step that leaves all this alone, or only lets something be spoilt. *)
LEMMA OthersKeepAnswerInv ==
  ASSUME AnswerInv, UNCHANGED <<due, missed, s_nonce_ctr>>,
         spoilt' \in BOOLEAN, ~spoilt' => ~spoilt,
         \/ tx' = tx
         \/ \E frame : tx' = tx \o Sent("button", frame),
         ~spoilt' => Flight' = Flight
  PROVE  AnswerInv'
<1>1. IsSequence(tx') /\ Cardinality(Answers') = Cardinality(Answers)
  <2>1. IsSequence(tx)
    BY DEF AnswerInv
  <2>2. CASE tx' = tx
    <3>1. IsSequence(tx')
      BY <2>1, <2>2, Zenon
    <3> QED
      BY <2>2, <3>1 DEF Answers
  <2>3. ASSUME NEW frame, tx' = tx \o Sent("button", frame)
        PROVE  IsSequence(tx') /\ Cardinality(Answers') = Cardinality(Answers)
    <3> DEFINE was == Cardinality(Answers)  now == Cardinality(Answers')
    <3>1. IsSequence(tx') /\ was \in Nat /\ now \in Nat /\ now - was = 0
      BY <2>1, <2>3, SentCounts
    <3> HIDE DEF was, now
    <3>2. now = was
      BY <3>1
    <3> QED
      BY <3>1, <3>2 DEF was, now
  <2> QED
    BY <2>2, <2>3
<1>2. OnlyFramesInFlight'
  BY <1>1 DEF AnswerInv, OnlyFramesInFlight
<1> QED
  BY <1>1, <1>2 DEF AnswerInv

LEMMA StepKeepsAnswerInv ==
  ASSUME BInv, BInv', AnswerInv, [Next]_vars
  PROVE  AnswerInv'
<1>0. spoilt \in BOOLEAN
  BY DEF AnswerInv
<1>1. CASE PopStep
  BY <1>0, <1>1, PopKeepsFlight, OthersKeepAnswerInv DEF PopStep, appVars, lineVars
<1>2. CASE FeedByte
  <2>1. UNCHANGED <<due, missed, spoilt, s_nonce_ctr, tx>>
    BY <1>2 DEF FeedByte, appVars, lineVars
  <2>2. OnlyFramesInFlight'
    <3>1. ASSUME NEW n \in Nat, Counts(Byte, Frames, Flight, n)
          PROVE  Counts(Byte, Frames, Flight', n)
      BY <1>2, <3>1, FeedKeepsFlight
    <3>2. Answers' = Answers
      BY <2>1 DEF Answers
    <3> QED
      BY <2>1, <3>1, <3>2 DEF AnswerInv, OnlyFramesInFlight
  <2>3. IsSequence(due') /\ IsSequence(tx')
    BY <2>1 DEF AnswerInv, IsSequence
  <2> QED
    BY <2>1, <2>2, <2>3 DEF AnswerInv
<1>3. CASE ProcessFrame
  BY <1>3, ProcessKeepsAnswerInv
<1>4. CASE TestSendFlag \/ ClearSendFlag \/ SendMessage \/ ToggleLed
  <2>1. /\ UNCHANGED <<due, missed, spoilt, s_nonce_ctr, line, framerVars, ringVars>>
        /\ pc # "got" /\ pc' # "got"
    BY <1>4 DEF TestSendFlag, ClearSendFlag, SendMessage, ToggleLed, appVars, lineVars
  <2>2. Flight' = Flight
    <3>1. Got' = Got
      BY <2>1 DEF Got
    <3> QED
      BY <2>1, <3>1, SameFlight DEF framerVars, ringVars
  <2>3. tx' = tx \/ \E frame : tx' = tx \o Sent("button", frame)
    BY <1>4 DEF TestSendFlag, ClearSendFlag, SendMessage, ToggleLed, appVars
  <2> QED
    BY <1>0, <2>1, <2>2, <2>3, OthersKeepAnswerInv
<1>5. CASE Tick
  <2>1. /\ UNCHANGED <<due, missed, s_nonce_ctr, tx, line, ringVars, buffer>>
        /\ pc # "got" /\ pc' # "got"
        /\ spoilt' = (spoilt \/ (state # "PLAINTEXT" /\ state' = "PLAINTEXT"))
    BY <1>5 DEF Tick, appVars, lineVars, Framer!TimeoutRecovery, framerVars
  <2>2. ASSUME ~spoilt' PROVE Flight' = Flight
    <3>1. UNCHANGED <<state, buffer, index, expected_length, has_frame, ready_length>>
      BY <1>5, <2>1, <2>2 DEF Tick, Framer!TimeoutRecovery, framerVars
    <3>2. Got' = Got
      BY <2>1 DEF Got
    <3> QED
      BY <2>1, <3>1, <3>2, SameFlight DEF ringVars
  <2>3. spoilt' \in BOOLEAN /\ (~spoilt' => ~spoilt)
    BY <1>0, <2>1
  <2> QED
    BY <2>1, <2>2, <2>3, OthersKeepAnswerInv
<1>6. ASSUME NEW chunk \in Chunks, NewChunk(chunk) PROVE AnswerInv'
  BY <1>6, ChunkKeepsAnswerInv
<1>7. CASE UartRxIsr
  <2>1. UNCHANGED <<due, missed, s_nonce_ctr, tx>> /\ spoilt' = (spoilt \/ Ring!Full)
    BY <1>7 DEF UartRxIsr, appVars
  <2>2. Ring!Full \in BOOLEAN
    BY DEF Ring!Full
  <2>3. spoilt' \in BOOLEAN /\ (~spoilt' => ~spoilt /\ ~Ring!Full)
    BY <1>0, <2>1, <2>2
  <2>4. ~spoilt' => Flight' = Flight
    BY <1>7, <2>3, IsrKeepsFlight
  <2> QED
    BY <2>1, <2>3, <2>4, OthersKeepAnswerInv
<1>8. CASE Press \/ Release \/ ButtonIsr \/ UNCHANGED vars
  <2>1. UNCHANGED <<due, missed, spoilt, s_nonce_ctr, tx, line, framerVars, ringVars, pc>>
    BY <1>8 DEF Press, Release, ButtonIsr, vars, appVars, lineVars
  <2>2. Flight' = Flight
    <3>1. Got' = Got
      BY <2>1 DEF Got, ringVars
    <3> QED
      BY <2>1, <3>1, SameFlight DEF framerVars, ringVars
  <2> QED
    BY <1>0, <2>1, <2>2, OthersKeepAnswerInv
<1> QED
  BY <1>1, <1>2, <1>3, <1>4, <1>5, <1>6, <1>7, <1>8 DEF Next, Main

LEMMA InitEstablishesAnswerInv == Init => AnswerInv
<1> SUFFICES ASSUME Init PROVE AnswerInv
  OBVIOUS
<1>1. /\ due = <<>> /\ tx = <<>> /\ missed = 0 /\ spoilt = FALSE /\ s_nonce_ctr = 1
      /\ line = <<>> /\ pc = "poll" /\ has_frame = 0 /\ state = "PLAINTEXT"
      /\ rx_buffer_head = 0 /\ rx_buffer_tail = 0
  BY DEF Init, Ring!Init, Framer!Init
<1>2. Flight = <<>>
  <2>1. Got = <<>> /\ FramerProofs!Held = <<>>
    BY <1>1 DEF Got, FramerProofs!Held, FramerProofs!Pending
  <2>2. RingProofs!Unread = <<>>
    <3>1. RingProofs!Count = 0 /\ RingProofs!Unread \in Seq(Byte)
          /\ Len(RingProofs!Unread) = RingProofs!Count
      BY InitEstablishesBInv, RingProofs!CountIs, RingProofs!UnreadIs, <1>1
         DEF BInv, RingProofs!IInv, RingProofs!TypeOK
    <3> QED
      BY <3>1
  <2>3. Flight = (<<>> \o <<>>) \o (<<>> \o <<>>)
    BY <1>1, <2>1, <2>2 DEF Flight
  <2>4. <<>> \o <<>> = <<>>
    OBVIOUS
  <2> QED
    BY <2>3, <2>4
<1>3. Counts(Byte, Frames, Flight, 0)
  BY <1>2, EmptyCounts
<1>4. Len(due) - Cardinality(Answers) = missed + 0
  <2>1. Answers = {} /\ Len(due) = 0
    BY <1>1 DEF Answers
  <2>2. Cardinality(Answers) = 0
    BY <2>1, FS_EmptySet
  <2> QED
    BY <1>1, <2>1, <2>2
<1>5. OnlyFramesInFlight
  BY <1>3, <1>4 DEF OnlyFramesInFlight
<1>6. IsSequence(due) /\ IsSequence(tx)
  <2>1. <<>> \in Seq(Byte)
    OBVIOUS
  <2> QED
    BY <1>1, <2>1 DEF IsSequence
<1>7. s_nonce_ctr \in 0..(CTR_SIZE - 1)
  <2>1. CTR_SIZE \in Nat /\ CTR_SIZE >= 2
    BY CtrSizeIs
  <2> HIDE DEF CTR_SIZE
  <2> QED
    BY <1>1, <2>1
<1>8. missed \in Int
  BY <1>1
<1>9. spoilt \in BOOLEAN
  BY <1>1
<1> QED
  BY <1>5, <1>6, <1>7, <1>8, <1>9 DEF AnswerInv

LEMMA AnswerInvIsInvariant == Spec => []AnswerInv
<1>1. BInv /\ BInv' /\ AnswerInv /\ [Next]_vars => AnswerInv'
  BY StepKeepsAnswerInv
<1> QED
  BY <1>1, InitEstablishesAnswerInv, BInvIsInvariant, PTL DEF Spec

(* Whatever fragments and damaged frames came before, every whole frame     *)
(* since the board was last settled has been answered once main has worked *)
(* off what has arrived, unless the ring was full or a timeout struck.     *)
THEOREM WholeFramesAreAnswered == Spec => []EveryFrameAnswered
<1>1. BInv /\ AnswerInv => EveryFrameAnswered
  <2> SUFFICES ASSUME BInv, AnswerInv, Drained, ~spoilt
               PROVE  Len(due) - Cardinality(Answers) = missed
    BY DEF EveryFrameAnswered
  <2>1. PICK n \in Nat : /\ Counts(Byte, Frames, Flight, n)
                         /\ Len(due) - Cardinality(Answers) = missed + n
    BY DEF AnswerInv, OnlyFramesInFlight
  <2> DEFINE pending == FramerProofs!Pending
  <2>2. Flight = pending
    <3>1. Got = <<>> /\ line = <<>>
      BY DEF Drained, Got
    <3>2. FramerProofs!Held = pending
      BY DEF Drained, BInv, Handover, FramerProofs!Held
    <3>3. RingProofs!Unread = <<>>
      <4>1. /\ RingProofs!Count = 0 /\ RingProofs!Unread \in Seq(Byte)
            /\ Len(RingProofs!Unread) = RingProofs!Count
        BY RingProofs!CountIs, RingProofs!UnreadIs
           DEF Drained, BInv, RingProofs!IInv, RingProofs!TypeOK
      <4> QED
        BY <4>1
    <3>4. Flight = (pending \o <<>>) \o (<<>> \o <<>>)
      BY <3>1, <3>2, <3>3 DEF Flight
    <3>5. pending \in Seq(Byte)
      BY PartsOfFlight
    <3> HIDE DEF pending
    <3>6. pending \o <<>> = pending
      BY <3>5, ConcatEmptySeq
    <3>7. <<>> \o <<>> = <<>>
      OBVIOUS
    <3> QED
      BY <3>4, <3>6, <3>7
  <2>3. n = 0
    <3> SUFFICES ASSUME n # 0 PROVE FALSE
      OBVIOUS
    <3>1. pending \in Seq(Byte) /\ Unfinished(pending)
      BY PartsOfFlight
    <3> HIDE DEF pending
    <3>2. PICK chunk \in Chunks, q \in Seq(Byte) :
            /\ IsFrame(Byte, CHAT_SYNC_BYTE, CHAT_MAX_FRAME, chunk.bytes)
            /\ pending = chunk.bytes \o q
      BY <2>1, <2>2, <3>1, FrameComesFirst
    <3>3. ~Unfinished(chunk.bytes \o q)
      BY <3>2, NothingUnfinished
    <3> QED
      BY <3>1, <3>2, <3>3
  <2>4. missed \in Int
    BY DEF AnswerInv
  <2> QED
    BY <2>1, <2>3, <2>4
<1> QED
  BY <1>1, BInvIsInvariant, AnswerInvIsInvariant, PTL
-----------------------------------------------------------------------------
(* The button and what it sets. *)
Bit == {0, 1}

ButtonTypeOK ==
  /\ send_flag \in Bit
  /\ led \in Bit
  /\ button \in Bit
  /\ btn_edge \in Bit
  /\ pressed \in BOOLEAN

LEMMA StepKeepsButtonTypeOK ==
  ASSUME ButtonTypeOK, [Next]_vars
  PROVE  ButtonTypeOK'
<1> USE DEF ButtonTypeOK, Bit
<1>1. CASE PopStep \/ FeedByte \/ TestSendFlag \/ Tick
  BY <1>1 DEF PopStep, FeedByte, TestSendFlag, Tick, appVars, buttonVars
<1>2. CASE ProcessFrame
  <2>1. UNCHANGED <<send_flag, pressed, buttonVars>> /\ (led' = 1 - led \/ led' = led)
    BY <1>2 DEF ProcessFrame
  <2> QED
    BY <2>1 DEF buttonVars
<1>3. CASE ClearSendFlag
  BY <1>3 DEF ClearSendFlag, buttonVars
<1>4. CASE SendMessage
  BY <1>4 DEF SendMessage, buttonVars
<1>5. CASE ToggleLed
  BY <1>5 DEF ToggleLed, FlagAfterSend, buttonVars
<1>6. CASE Press \/ Release
  BY <1>6 DEF Press, Release, appVars
<1>7. CASE ButtonIsr
  <2>1. UNCHANGED <<led, button>> /\ btn_edge' = 0
    BY <1>7 DEF ButtonIsr
  <2>2. send_flag' = IF button = 1 THEN 1 ELSE send_flag
    BY <1>7 DEF ButtonIsr, my_button_handler
  <2>3. pressed' = (pressed \/ button = 1)
    BY <1>7 DEF ButtonIsr
  <2>4. pressed' \in BOOLEAN
    BY <2>3
  <2> QED
    BY <2>1, <2>2, <2>4
<1>8. CASE UartRxIsr \/ UNCHANGED vars \/ \E chunk \in Chunks : NewChunk(chunk)
  BY <1>8 DEF UartRxIsr, NewChunk, vars, appVars, buttonVars
<1> QED
  BY <1>1, <1>2, <1>3, <1>4, <1>5, <1>6, <1>7, <1>8 DEF Next, Main

LEMMA ButtonTypeOKIsInvariant == Spec => []ButtonTypeOK
<1>1. Init => ButtonTypeOK
  BY DEF Init, ButtonTypeOK, Bit
<1>2. ButtonTypeOK /\ [Next]_vars => ButtonTypeOK'
  BY StepKeepsButtonTypeOK
<1> QED
  BY <1>1, <1>2, PTL DEF Spec

(* Type correctness of the firmware: in particular the indices of the ring  *)
(* and of the framer stay inside their buffers, and s_nonce_ctr in its     *)
(* integer, whatever arrives and however often the button is pressed.      *)
THEOREM TypeCorrect == Spec => []TypeOK
<1>1. BInv /\ AnswerInv /\ ButtonTypeOK => TypeOK
  <2> SUFFICES ASSUME BInv, AnswerInv, ButtonTypeOK PROVE TypeOK
    OBVIOUS
  <2>1. Framer!TypeOK
    BY DEF BInv, FramerProofs!IInv, FramerProofs!TypeOK, Framer!TypeOK,
           FramerProofs!States, Framer!States
  <2>2. /\ rx_buffer \in [Ring!Slots -> Byte]
        /\ {rx_buffer_head, rx_buffer_tail} \subseteq Ring!Slots
    BY DEF BInv, RingProofs!IInv, RingProofs!TypeOK, RingProofs!Slots, Ring!Slots
  <2>3. pc \in Places
    BY DEF BInv, Handover
  <2>4. s_nonce_ctr \in 0..(CTR_SIZE - 1) /\ spoilt \in BOOLEAN
    BY DEF AnswerInv
  <2> QED
    BY <2>1, <2>2, <2>3, <2>4 DEF TypeOK, ButtonTypeOK, Bit
<1> QED
  BY <1>1, BInvIsInvariant, AnswerInvIsInvariant, ButtonTypeOKIsInvariant, PTL
=============================================================================
