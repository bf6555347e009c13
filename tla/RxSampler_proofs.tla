-------------------------- MODULE RxSampler_proofs --------------------------
(***************************************************************************)
(* The tolerance of the receiver, for every timer period, every sender and *)
(* every delay of the samples that WithinTolerance admits.  The invariant   *)
(* counts the samples since the one that found the start bit, and ties     *)
(* them to the time since the edge of that bit: so each deciding sample is *)
(* known to fall into the cell it is taken for.                            *)
(***************************************************************************)
EXTENDS RxSampler, TLAPS

-----------------------------------------------------------------------------
(* The samples taken since the one that found the start bit. *)
Taken ==
  CASE rx_state = "start" -> rx_sample_count
    [] rx_state = "data"  ->
         4 + 8 * (IF rx_sample_count < 4 THEN rx_bit_count ELSE rx_bit_count - 1)
           + rx_sample_count
    [] rx_state = "stop"  -> 68 + rx_sample_count

(* The receiver counts in step with the frame: the sample that found the    *)
(* start bit was due at most a period after its edge, or before it, and    *)
(* late.                                                                   *)
InStep ==
  /\ -late <= elapsed - Taken * TIMER_PERIOD
  /\ elapsed - Taken * TIMER_PERIOD < TIMER_PERIOD

(* Where the counters may be in each state, and the bits received so far.   *)
Counted ==
  \/ rx_state = "start" /\ rx_sample_count \in 0..3
  \/ /\ rx_state = "data"
     /\ rx_sample_count \in 0..7
     /\ rx_bit_count \in (IF rx_sample_count < 4 THEN 0..7 ELSE 1..8)
     /\ rx_shift_reg = byte \cap 0..(rx_bit_count - 1)
  \/ /\ rx_state = "stop"
     /\ rx_sample_count \in 0..3
     /\ rx_shift_reg = byte

(* The start bit has not been found yet: the sample due before it was late, *)
(* but the receiver was not idle then.                                     *)
Waiting == rx_state = "idle" /\ owed = <<byte>> /\ elapsed < 0

UnderWay == rx_state # "idle" /\ owed = <<byte>> /\ Counted /\ InStep

(* The byte has been pushed, and the line is in its stop bit. *)
Heard == rx_state = "idle" /\ owed = <<>> /\ elapsed >= 72 * TIMER_PERIOD - late

(* On the silent line there is nothing but noise, which ends before a frame *)
(* can start.                                                              *)
Silent ==
  /\ owed = <<>>
  /\ \/ rx_state = "idle"
     \/ /\ rx_state = "start"
        /\ rx_sample_count \in 0..3
        /\ noise + rx_sample_count >= 4

Typed ==
  /\ bit \in Nat /\ late \in Nat
  /\ bit + late <= 8 * TIMER_PERIOD
  /\ 10 * bit >= 73 * TIMER_PERIOD
  /\ byte \in Bytes
  /\ noise \in Nat
  /\ elapsed \in -late..(FrameLength - 1)
  /\ rx_sample_count \in Int
  /\ rx_bit_count \in Int

IInv ==
  /\ Typed
  /\ sending \in BOOLEAN
  /\ ~sending => Silent
  /\ sending => Waiting \/ UnderWay \/ Heard

-----------------------------------------------------------------------------
(* Arithmetic: products, and the consequences of the tolerance.            *)

LEMMA Products ==
  ASSUME NEW i \in Int, NEW j \in Int, i <= j, NEW n \in Nat
  PROVE  i * n <= j * n
OBVIOUS

(* A time lies in one cell only. *)
LEMMA OneCell ==
  ASSUME NEW c \in 0..9, NEW d \in 0..9, bit \in Nat, NEW t \in Int,
         c * bit <= t, t < (c + 1) * bit, d * bit <= t, t < (d + 1) * bit
  PROVE  c = d
<1>1. ~ (c + 1 <= d)
  BY Products
<1>2. ~ (d + 1 <= c)
  BY Products
<1> QED
  BY <1>1, <1>2

(* The level within a cell, and from the stop bit on. *)
LEMMA LevelInCell ==
  ASSUME bit \in Nat, NEW b, NEW c \in 0..9, NEW t \in Int,
         c * bit <= t, t < (c + 1) * bit
  PROVE  Level(b, t) = uart_tx_char(b)[c]
<1>1. uart_tx_char(b)[c] \in {0, 1}
  BY DEF uart_tx_char
<1>2. CASE uart_tx_char(b)[c] = 0
  BY <1>2 DEF Level
<1>3. CASE uart_tx_char(b)[c] = 1
  <2> SUFFICES ASSUME NEW d \in 0..9, d * bit <= t, t < (d + 1) * bit,
                      uart_tx_char(b)[d] = 0
               PROVE  FALSE
    BY <1>3 DEF Level
  <2> QED
    BY <1>3, OneCell
<1> QED
  BY <1>1, <1>2, <1>3

LEMMA LevelAtEnd ==
  ASSUME bit \in Nat, NEW b, NEW t \in Int, 9 * bit <= t
  PROVE  Level(b, t) = 1
<1> SUFFICES ASSUME NEW d \in 0..9, d * bit <= t, t < (d + 1) * bit,
                    uart_tx_char(b)[d] = 0
             PROVE  FALSE
  BY DEF Level
<1>1. d # 9
  BY DEF uart_tx_char
<1>2. (d + 1) * bit <= 9 * bit
  BY <1>1, Products
<1> QED
  BY <1>2

-----------------------------------------------------------------------------
(* What the samples that decide something read. *)

(* The fourth sample after the one that found the start bit is still in it. *)
LEMMA StartLevel ==
  ASSUME Typed, UnderWay, rx_state = "start", NEW lag \in 0..late
  PROVE  Level(byte, elapsed + TIMER_PERIOD + lag) = 0
<1>1. Taken = rx_sample_count /\ rx_sample_count \in 0..3
  BY DEF Taken, UnderWay, Counted
<1>2. -late <= elapsed /\ elapsed < 4 * TIMER_PERIOD
  BY <1>1, SamplerAssumption DEF UnderWay, InStep, Typed
<1>3. 0 <= elapsed + TIMER_PERIOD + lag /\ elapsed + TIMER_PERIOD + lag < bit
  BY <1>2, SamplerAssumption DEF Typed
<1>4. uart_tx_char(byte)[0] = 0
  BY SamplerAssumption DEF uart_tx_char, Typed
<1> QED
  BY <1>3, <1>4, LevelInCell, SamplerAssumption DEF Typed

(* The fourth sample of each eight falls into the cell of the next bit.     *)
LEMMA DataLevel ==
  ASSUME Typed, UnderWay, rx_state = "data", rx_sample_count = 3,
         NEW lag \in 0..late
  PROVE  Level(byte, elapsed + TIMER_PERIOD + lag)
           = IF rx_bit_count \in byte THEN 1 ELSE 0
<1> DEFINE t == elapsed + TIMER_PERIOD + lag
<1>1. Taken = 7 + 8 * rx_bit_count /\ rx_bit_count \in 0..7
  BY DEF Taken, UnderWay, Counted
<1>2. t \in Int
  BY SamplerAssumption DEF Typed
<1>3. /\ -late <= elapsed - (7 + 8 * rx_bit_count) * TIMER_PERIOD
      /\ elapsed - (7 + 8 * rx_bit_count) * TIMER_PERIOD < TIMER_PERIOD
  BY <1>1 DEF UnderWay, InStep
<1>4. (rx_bit_count + 1) * bit <= t /\ t < (rx_bit_count + 2) * bit
  <2>1. CASE rx_bit_count = 0
    BY <1>3, <2>1, SamplerAssumption DEF Typed
  <2>2. CASE rx_bit_count = 1
    BY <1>3, <2>2, SamplerAssumption DEF Typed
  <2>3. CASE rx_bit_count = 2
    BY <1>3, <2>3, SamplerAssumption DEF Typed
  <2>4. CASE rx_bit_count = 3
    BY <1>3, <2>4, SamplerAssumption DEF Typed
  <2>5. CASE rx_bit_count = 4
    BY <1>3, <2>5, SamplerAssumption DEF Typed
  <2>6. CASE rx_bit_count = 5
    BY <1>3, <2>6, SamplerAssumption DEF Typed
  <2>7. CASE rx_bit_count = 6
    BY <1>3, <2>7, SamplerAssumption DEF Typed
  <2>8. CASE rx_bit_count = 7
    BY <1>3, <2>8, SamplerAssumption DEF Typed
  <2> QED
    BY <1>1, <2>1, <2>2, <2>3, <2>4, <2>5, <2>6, <2>7, <2>8
<1>5. Level(byte, t) = uart_tx_char(byte)[rx_bit_count + 1]
  <2>1. rx_bit_count + 1 \in 0..9 /\ (rx_bit_count + 1) + 1 = rx_bit_count + 2
    BY <1>1
  <2> HIDE DEF t
  <2> QED
    BY <1>2, <1>4, <2>1, LevelInCell DEF Typed
<1>6. uart_tx_char(byte)[rx_bit_count + 1] = IF rx_bit_count \in byte THEN 1 ELSE 0
  BY <1>1 DEF uart_tx_char
<1> QED
  BY <1>5, <1>6

(* After the push the line is in its stop bit. *)
LEMMA StopLevel ==
  ASSUME Typed, Heard, NEW lag \in 0..late
  PROVE  Level(byte, elapsed + TIMER_PERIOD + lag) = 1
<1>1. 9 * bit <= elapsed + TIMER_PERIOD + lag
  BY SamplerAssumption DEF Typed, Heard
<1> QED
  BY <1>1, LevelAtEnd, SamplerAssumption DEF Typed

(* A frame is over only after its byte has been pushed, or is pushed by this *)
(* sample.                                                                 *)
LEMMA PushedInTime ==
  ASSUME Typed, Waiting \/ UnderWay
  PROVE  /\ Overrun < 0
         /\ Overrun >= -late => UnderWay /\ rx_state = "stop" /\ rx_sample_count = 3
<1>1. CASE Waiting
  BY <1>1, SamplerAssumption DEF Waiting, Typed, Overrun, FrameLength
<1>2. CASE UnderWay
  <2>1. Taken \in 0..71 /\ (Taken = 71 => rx_state = "stop" /\ rx_sample_count = 3)
    BY <1>2 DEF UnderWay, Counted, Taken
  <2>2. Taken * TIMER_PERIOD <= 71 * TIMER_PERIOD
    BY <2>1, Products, SamplerAssumption
  <2>3. Taken # 71 => Taken * TIMER_PERIOD <= 70 * TIMER_PERIOD
    BY <2>1, Products, SamplerAssumption
  <2>4. elapsed - Taken * TIMER_PERIOD < TIMER_PERIOD /\ Taken * TIMER_PERIOD \in Int
    BY <1>2, <2>1, SamplerAssumption DEF UnderWay, InStep
  <2>5. Overrun < 0
    BY <2>2, <2>4, SamplerAssumption DEF Typed, Overrun, FrameLength
  <2>6. Taken # 71 => Overrun < -late
    BY <2>3, <2>4, SamplerAssumption DEF Typed, Overrun, FrameLength
  <2> QED
    BY <1>2, <2>1, <2>5, <2>6, SamplerAssumption DEF Typed, Overrun, FrameLength
<1> QED
  BY <1>1, <1>2

-----------------------------------------------------------------------------
(* The steps. *)

LEMMA CountersTyped ==
  ASSUME Typed, NEW level, UartRxIsr(level)
  PROVE  rx_sample_count' \in Int /\ rx_bit_count' \in Int
BY DEF Typed, UartRxIsr, IdleSample, StartSample, DataSample, StopSample, NewByte

(* A sample taken while the byte is received keeps the receiver in step. *)
LEMMA InStepStays ==
  ASSUME Typed, UnderWay, Taken \in Int, Taken' = Taken + 1,
         elapsed' = elapsed + TIMER_PERIOD, UNCHANGED late
  PROVE  InStep'
<1>1. (Taken + 1) * TIMER_PERIOD = Taken * TIMER_PERIOD + TIMER_PERIOD
  BY SamplerAssumption
<1>2. Taken * TIMER_PERIOD \in Int
  BY SamplerAssumption
<1> QED
  BY <1>1, <1>2, SamplerAssumption DEF InStep, UnderWay, Typed

LEMMA StartSampleKeeps ==
  ASSUME Typed, UnderWay, rx_state = "start", NEW lag \in 0..late,
         UartRxIsr(Level(byte, elapsed + TIMER_PERIOD + lag)),
         elapsed' = elapsed + TIMER_PERIOD, owed' = owed, UNCHANGED <<late, byte>>
  PROVE  UnderWay'
<1> DEFINE level == Level(byte, elapsed + TIMER_PERIOD + lag)
<1>1. level = 0
  BY StartLevel
<1>2. StartSample(0)
  BY <1>1 DEF UartRxIsr, IdleSample, DataSample, StopSample
<1>3. rx_sample_count \in 0..3
  BY DEF UnderWay, Counted
<1>4. CASE rx_sample_count # 3
  <2>1. /\ rx_state' = "start" /\ rx_sample_count' = rx_sample_count + 1
        /\ Counted'
    BY <1>2, <1>3, <1>4 DEF StartSample, Counted
  <2>2. Taken \in Int /\ Taken' = Taken + 1
    BY <1>3, <2>1 DEF Taken
  <2> QED
    BY <2>1, <2>2, InStepStays DEF UnderWay
<1>5. CASE rx_sample_count = 3
  <2>1. NewByte
    BY <1>2, <1>5 DEF StartSample
  <2>2. Counted'
    BY <2>1 DEF NewByte, Counted
  <2>3. Taken \in Int /\ Taken' = Taken + 1
    BY <1>5, <2>1 DEF Taken, NewByte
  <2> QED
    BY <2>1, <2>2, <2>3, InStepStays DEF UnderWay, NewByte
<1> QED
  BY <1>4, <1>5

LEMMA DataSampleKeeps ==
  ASSUME Typed, UnderWay, rx_state = "data", NEW lag \in 0..late,
         UartRxIsr(Level(byte, elapsed + TIMER_PERIOD + lag)),
         elapsed' = elapsed + TIMER_PERIOD, owed' = owed, UNCHANGED <<late, byte>>
  PROVE  UnderWay'
<1> DEFINE level == Level(byte, elapsed + TIMER_PERIOD + lag)
<1>1. DataSample(level)
  BY DEF UartRxIsr, IdleSample, StartSample, StopSample
<1>2. /\ rx_sample_count \in 0..7
      /\ rx_bit_count \in (IF rx_sample_count < 4 THEN 0..7 ELSE 1..8)
      /\ rx_shift_reg = byte \cap 0..(rx_bit_count - 1)
  BY DEF UnderWay, Counted
<1>3. rx_state' # "idle" /\ Counted' /\ Taken \in Int /\ Taken' = Taken + 1
  <2>1. CASE rx_sample_count = 3
    <3>1. level = IF rx_bit_count \in byte THEN 1 ELSE 0
      BY <2>1, DataLevel
    <3> HIDE DEF level
    <3>2. /\ rx_state' = "data" /\ rx_sample_count' = 4
          /\ rx_bit_count' = rx_bit_count + 1
          /\ rx_shift_reg' = IF rx_bit_count \in byte
                               THEN rx_shift_reg \union {rx_bit_count}
                               ELSE rx_shift_reg
      BY <1>1, <2>1, <3>1 DEF DataSample
    <3>3. rx_shift_reg' = byte' \cap 0..(rx_bit_count' - 1)
      <4>1. 0..(rx_bit_count + 1 - 1) = 0..(rx_bit_count - 1) \union {rx_bit_count}
        BY <1>2, <2>1
      <4> QED
        BY <1>2, <3>2, <4>1
    <3>4. rx_bit_count' \in 1..8
      BY <1>2, <2>1, <3>2
    <3>5. Counted'
      BY <3>2, <3>3, <3>4 DEF Counted
    <3>6. Taken \in Int /\ Taken' = Taken + 1
      BY <1>2, <2>1, <3>2 DEF Taken
    <3> QED
      BY <3>2, <3>5, <3>6
  <2>2. CASE rx_sample_count = 7
    <3>1. /\ UNCHANGED <<rx_shift_reg, rx_bit_count>>
          /\ rx_sample_count' = 0
          /\ rx_state' = IF rx_bit_count = 8 THEN "stop" ELSE "data"
      BY <1>1, <1>2, <2>2 DEF DataSample, AllBits
    <3>2. Counted'
      <4>1. byte \in SUBSET (0..7)
        BY SamplerAssumption DEF Typed
      <4>2. rx_bit_count = 8 => rx_shift_reg = byte \cap 0..7
        BY <1>2
      <4>3. rx_bit_count = 8 => rx_shift_reg = byte
        BY <4>1, <4>2
      <4> QED
        BY <1>2, <2>2, <3>1, <4>3 DEF Counted
    <3>3. Taken \in Int /\ Taken' = Taken + 1
      BY <1>2, <2>2, <3>1 DEF Taken
    <3> QED
      BY <3>1, <3>2, <3>3
  <2>3. CASE rx_sample_count \notin {3, 7}
    <3>1. /\ UNCHANGED <<rx_shift_reg, rx_bit_count>>
          /\ rx_sample_count' = rx_sample_count + 1
          /\ rx_state' = "data"
      BY <1>1, <1>2, <2>3 DEF DataSample
    <3>2. Counted'
      BY <1>2, <2>3, <3>1 DEF Counted
    <3>3. Taken \in Int /\ Taken' = Taken + 1
      BY <1>2, <2>3, <3>1 DEF Taken
    <3> QED
      BY <3>1, <3>2, <3>3
  <2> QED
    BY <2>1, <2>2, <2>3
<1> QED
  BY <1>3, InStepStays DEF UnderWay

(* The push comes seventy-two periods after the sample that found the start *)
(* bit.                                                                    *)
LEMMA StopSampleKeeps ==
  ASSUME Typed, UnderWay, rx_state = "stop", NEW level, UartRxIsr(level)
  PROVE  IF rx_sample_count = 3
           THEN /\ Pushes /\ rx_state' = "idle"
                /\ elapsed >= 71 * TIMER_PERIOD - late
           ELSE /\ ~Pushes /\ rx_state' = "stop"
                /\ rx_sample_count' = rx_sample_count + 1
                /\ rx_shift_reg' = rx_shift_reg
                /\ Taken \in Int /\ Taken' = Taken + 1
<1>1. StopSample
  BY DEF UartRxIsr, IdleSample, StartSample, DataSample
<1>2. rx_sample_count \in 0..3
  BY DEF UnderWay, Counted
<1>3. CASE rx_sample_count = 3
  <2>1. Taken = 71
    BY <1>3 DEF Taken
  <2> QED
    BY <1>1, <1>3, <2>1, SamplerAssumption
       DEF StopSample, EndsStop, Pushes, UnderWay, InStep, Typed
<1>4. CASE rx_sample_count # 3
  BY <1>1, <1>2, <1>4 DEF StopSample, EndsStop, Pushes, Taken
<1> QED
  BY <1>3, <1>4

LEMMA FrameTickKeeps ==
  ASSUME IInv, FrameTick
  PROVE  IInv'
<1>1. PICK lag \in 0..late : UartRxIsr(Level(byte, elapsed + TIMER_PERIOD + lag))
  BY DEF FrameTick
<1>2. /\ sending /\ Overrun < 0 /\ elapsed' = elapsed + TIMER_PERIOD
      /\ owed' = Owed /\ UNCHANGED <<bit, late, sending, byte, noise>>
  BY DEF FrameTick
<1>3. Typed
  BY DEF IInv
<1>4. Typed'
  <2>1. elapsed' \in -late..(FrameLength - 1)
    BY <1>2, <1>3, SamplerAssumption DEF Typed, Overrun, FrameLength
  <2> QED
    BY <1>1, <1>2, <1>3, <2>1, CountersTyped DEF Typed, FrameLength
<1>5. CASE Waiting
  <2>1. 0 <= elapsed + TIMER_PERIOD + lag /\ elapsed + TIMER_PERIOD + lag < bit
    BY <1>3, <1>5, SamplerAssumption DEF Typed, Waiting
  <2>2. Level(byte, elapsed + TIMER_PERIOD + lag) = 0
    <3>1. uart_tx_char(byte)[0] = 0
      BY <1>3, SamplerAssumption DEF uart_tx_char, Typed
    <3> QED
      BY <1>3, <2>1, <3>1, LevelInCell, SamplerAssumption DEF Typed
  <2>3. IdleSample(0)
    BY <1>1, <1>5, <2>2 DEF UartRxIsr, StartSample, DataSample, StopSample, Waiting
  <2>4. rx_state' = "start" /\ rx_sample_count' = 0 /\ owed' = <<byte>>
    BY <1>2, <1>5, <2>3 DEF IdleSample, Owed, Pushes, Waiting
  <2>5. Counted' /\ Taken' = 0
    BY <2>4 DEF Counted, Taken
  <2>6. InStep'
    BY <1>2, <1>3, <1>5, <2>5, SamplerAssumption DEF InStep, Waiting, Typed
  <2> QED
    BY <1>2, <1>4, <2>4, <2>5, <2>6 DEF IInv, UnderWay
<1>6. CASE UnderWay
  <2>1. rx_state \in {"start", "data", "stop"}
    BY <1>6 DEF UnderWay, Counted
  <2>2. CASE rx_state = "start"
    <3>1. owed' = owed
      BY <1>2, <2>2 DEF Owed, Pushes
    <3> QED
      BY <1>1, <1>2, <1>3, <1>4, <1>6, <2>2, <3>1, StartSampleKeeps DEF IInv
  <2>3. CASE rx_state = "data"
    <3>1. owed' = owed
      BY <1>2, <2>3 DEF Owed, Pushes
    <3> QED
      BY <1>1, <1>2, <1>3, <1>4, <1>6, <2>3, <3>1, DataSampleKeeps DEF IInv
  <2>4. CASE rx_state = "stop" /\ rx_sample_count = 3
    <3>1. Pushes /\ rx_state' = "idle" /\ elapsed >= 71 * TIMER_PERIOD - late
      BY <1>1, <1>3, <1>6, <2>4, StopSampleKeeps
    <3>2. owed' = <<>>
      BY <1>2, <1>6, <3>1 DEF Owed, UnderWay
    <3>3. elapsed' >= 72 * TIMER_PERIOD - late'
      BY <1>2, <1>3, <3>1, SamplerAssumption DEF Typed
    <3> QED
      BY <1>2, <1>4, <3>1, <3>2, <3>3 DEF IInv, Heard
  <2>5. CASE rx_state = "stop" /\ rx_sample_count # 3
    <3>1. /\ ~Pushes /\ rx_state' = "stop"
          /\ rx_sample_count' = rx_sample_count + 1 /\ rx_shift_reg' = rx_shift_reg
          /\ Taken \in Int /\ Taken' = Taken + 1
      BY <1>1, <1>3, <1>6, <2>5, StopSampleKeeps
    <3>2. Counted'
      BY <1>2, <1>6, <2>5, <3>1 DEF UnderWay, Counted
    <3>3. InStep'
      BY <1>2, <1>3, <1>6, <3>1, InStepStays
    <3>4. owed' = <<byte>>'
      BY <1>2, <1>6, <3>1 DEF Owed, UnderWay
    <3> QED
      BY <1>2, <1>4, <3>1, <3>2, <3>3, <3>4 DEF IInv, UnderWay
  <2> QED
    BY <2>1, <2>2, <2>3, <2>4, <2>5
<1>7. CASE Heard
  <2>1. IdleSample(1)
    BY <1>1, <1>3, <1>7, StopLevel
       DEF UartRxIsr, StartSample, DataSample, StopSample, Heard
  <2>2. rx_state' = "idle" /\ owed' = <<>>
    BY <1>2, <1>7, <2>1 DEF IdleSample, Owed, Pushes, Heard
  <2>3. elapsed' >= 72 * TIMER_PERIOD - late'
    BY <1>2, <1>3, <1>7, SamplerAssumption DEF Typed, Heard
  <2> QED
    BY <1>2, <1>4, <2>2, <2>3 DEF IInv, Heard
<1> QED
  BY <1>2, <1>5, <1>6, <1>7 DEF IInv

(* The last sample of a frame finds its byte pushed. *)
LEMMA EndTickKeeps ==
  ASSUME IInv, EndTick
  PROVE  IInv'
<1>1. /\ sending /\ sending' = FALSE /\ Overrun >= 0 /\ UartRxIsr(1)
      /\ elapsed' = 0 /\ owed' = Owed /\ UNCHANGED <<bit, late, byte, noise>>
  BY DEF EndTick
<1>2. Typed
  BY DEF IInv
<1>3. Heard
  <2>1. Overrun \in Int
    BY <1>2, SamplerAssumption DEF Typed, Overrun, FrameLength
  <2> QED
    BY <1>1, <1>2, <2>1, PushedInTime DEF IInv
<1>4. Typed'
  BY <1>1, <1>2, CountersTyped, SamplerAssumption DEF Typed, FrameLength
<1>5. IdleSample(1)
  BY <1>1, <1>3 DEF UartRxIsr, StartSample, DataSample, StopSample, Heard
<1>6. rx_state' = "idle" /\ owed' = <<>>
  BY <1>1, <1>3, <1>5 DEF IdleSample, Owed, Pushes, Heard
<1> QED
  BY <1>1, <1>4, <1>6 DEF IInv, Silent

LEMMA BackToBackTickKeeps ==
  ASSUME IInv, NEW b \in Bytes, NEW t \in -late..Overrun, BackToBackTick(b, t)
  PROVE  IInv'
<1>1. /\ sending /\ sending' = sending /\ UartRxIsr(0) /\ byte' = b /\ elapsed' = t
      /\ owed' = Append(Owed, b) /\ UNCHANGED <<bit, late, noise>>
  BY DEF BackToBackTick
<1>2. Typed
  BY DEF IInv
<1>3. Overrun \in Int /\ t \in Int /\ -late <= t /\ t <= Overrun /\ Overrun >= -late
  BY <1>2, SamplerAssumption DEF Typed, Overrun, FrameLength
<1>4. t < TIMER_PERIOD
  BY <1>2, <1>3, SamplerAssumption DEF Typed, Overrun, FrameLength
<1>5. Typed'
  <2>1. elapsed' \in -late'..(FrameLength' - 1)
    BY <1>1, <1>2, <1>3, <1>4, SamplerAssumption DEF Typed, FrameLength
  <2> QED
    BY <1>1, <1>2, <2>1, CountersTyped DEF Typed
<1>6. CASE Heard
  <2>1. IdleSample(0)
    BY <1>1, <1>6 DEF UartRxIsr, StartSample, DataSample, StopSample, Heard
  <2>2. rx_state' = "start" /\ rx_sample_count' = 0 /\ owed' = <<byte>>'
    BY <1>1, <1>6, <2>1 DEF IdleSample, Owed, Pushes, Heard
  <2>3. Counted' /\ Taken' = 0
    BY <2>2 DEF Counted, Taken
  <2>4. InStep'
    BY <1>1, <1>2, <1>3, <1>4, <2>3, SamplerAssumption DEF InStep, Typed
  <2> QED
    BY <1>1, <1>5, <2>2, <2>3, <2>4 DEF IInv, UnderWay
<1>7. CASE Waiting \/ UnderWay
  <2>1. UnderWay /\ rx_state = "stop" /\ rx_sample_count = 3 /\ Overrun < 0
    BY <1>2, <1>3, <1>7, PushedInTime
  <2>2. Pushes /\ rx_state' = "idle"
    BY <1>1, <1>2, <2>1, StopSampleKeeps
  <2>3. owed' = <<byte>>'
    BY <1>1, <2>1, <2>2 DEF Owed, UnderWay
  <2>4. elapsed' < 0
    BY <1>1, <1>3, <2>1
  <2> QED
    BY <1>1, <1>5, <2>2, <2>3, <2>4 DEF IInv, Waiting
<1> QED
  BY <1>1, <1>6, <1>7 DEF IInv

LEMMA SilenceKeeps ==
  ASSUME IInv, WithinTolerance, IdleTick \/ NoiseTick
  PROVE  IInv'
<1>1. /\ ~sending /\ sending' = sending /\ Typed /\ Silent /\ ~Pushes /\ owed' = owed
      /\ UNCHANGED <<bit, late, byte, elapsed>>
  BY DEF IInv, IdleTick, NoiseTick, Silent, Owed, Pushes
<1>2. noise' \in Nat
  BY <1>1, SamplerAssumption DEF IdleTick, NoiseTick, Typed
<1>3. Typed'
  BY <1>1, <1>2, CountersTyped DEF Typed, FrameLength, IdleTick, NoiseTick
<1>4. CASE IdleTick /\ rx_state = "idle"
  <2>1. IdleSample(1)
    BY <1>4 DEF IdleTick, UartRxIsr, StartSample, DataSample, StopSample
  <2> QED
    BY <1>1, <1>3, <2>1 DEF IdleSample, IInv, Silent
<1>5. CASE IdleTick /\ rx_state = "start"
  <2>1. StartSample(1)
    BY <1>5 DEF IdleTick, UartRxIsr, IdleSample, DataSample, StopSample
  <2>2. rx_sample_count \in 0..3 /\ noise + rx_sample_count >= 4
    BY <1>1, <1>5 DEF Silent
  <2>3. noise' = noise - 1
    BY <1>1, <1>5, <2>2 DEF IdleTick, Typed
  <2>4. \/ rx_state' = "idle"
        \/ /\ rx_state' = "start" /\ rx_sample_count' = rx_sample_count + 1
           /\ rx_sample_count # 3
    BY <2>1, <2>2 DEF StartSample
  <2>5. noise \in Nat
    BY <1>1 DEF Typed
  <2>6. Silent'
    BY <1>1, <2>2, <2>3, <2>4, <2>5 DEF Silent
  <2> QED
    BY <1>1, <1>3, <2>6 DEF IInv
<1>6. CASE NoiseTick
  <2>1. rx_state = "idle"
    BY <1>1, <1>6 DEF NoiseTick, Silent
  <2>2. IdleSample(0)
    BY <1>6, <2>1 DEF NoiseTick, UartRxIsr, StartSample, DataSample, StopSample
  <2>3. rx_state' = "start" /\ rx_sample_count' = 0 /\ noise' = QUIET
    BY <1>6, <2>1, <2>2 DEF NoiseTick, IdleSample
  <2> QED
    BY <1>1, <1>3, <2>3, SamplerAssumption DEF IInv, Silent, WithinTolerance
<1> QED
  BY <1>1, <1>4, <1>5, <1>6 DEF Silent

LEMMA StartTickKeeps ==
  ASSUME IInv, NEW b \in Bytes, NEW t \in -late..(TIMER_PERIOD - 1), StartTick(b, t)
  PROVE  IInv'
<1>1. /\ ~sending /\ sending' = TRUE /\ Typed /\ Silent /\ noise = 0 /\ UartRxIsr(0)
      /\ byte' = b /\ elapsed' = t /\ owed' = Append(Owed, b)
      /\ UNCHANGED <<bit, late, noise>>
  BY DEF IInv, StartTick
<1>2. rx_state = "idle"
  BY <1>1 DEF Silent
<1>3. IdleSample(0)
  BY <1>1, <1>2 DEF UartRxIsr, StartSample, DataSample, StopSample
<1>4. rx_state' = "start" /\ rx_sample_count' = 0 /\ owed' = <<byte>>'
  BY <1>1, <1>2, <1>3 DEF IdleSample, Owed, Pushes, Silent
<1>5. Counted' /\ Taken' = 0
  BY <1>4 DEF Counted, Taken
<1>6. -late <= t /\ t < TIMER_PERIOD /\ t \in Int
  BY <1>1, SamplerAssumption DEF Typed
<1>7. InStep'
  BY <1>1, <1>5, <1>6, SamplerAssumption DEF InStep
<1>8. Typed'
  <2>1. elapsed' \in -late'..(FrameLength' - 1)
    BY <1>1, <1>6, SamplerAssumption DEF Typed, FrameLength
  <2> QED
    BY <1>1, <2>1, CountersTyped DEF Typed
<1> QED
  BY <1>1, <1>4, <1>5, <1>7, <1>8 DEF IInv, UnderWay

-----------------------------------------------------------------------------
LEMMA InvariantHolds ==
  ASSUME WithinTolerance
  PROVE  Spec => []IInv
<1>1. Init => IInv
  <2> SUFFICES ASSUME Init PROVE IInv
    OBVIOUS
  <2>1. PICK setting \in Settings : bit = setting.bit /\ late = setting.late
    BY DEF Init
  <2>2. /\ bit \in Nat /\ late \in Nat
        /\ bit + late <= 8 * TIMER_PERIOD /\ 10 * bit >= 73 * TIMER_PERIOD
    BY <2>1, SamplerAssumption, WithinTolerance DEF WithinTolerance
  <2>3. Typed
    BY <2>2, SamplerAssumption DEF Init, Typed, FrameLength
  <2>4. ~sending /\ Silent
    BY DEF Init, Silent
  <2> QED
    BY <2>3, <2>4 DEF Init, IInv
<1>2. IInv /\ [Next]_vars => IInv'
  <2> SUFFICES ASSUME IInv, [Next]_vars PROVE IInv'
    OBVIOUS
  <2>1. CASE IdleTick \/ NoiseTick
    BY <2>1, WithinTolerance, SilenceKeeps
  <2>2. CASE FrameTick
    BY <2>2, FrameTickKeeps
  <2>3. CASE EndTick
    BY <2>3, EndTickKeeps
  <2>4. ASSUME NEW b \in Bytes, NEW t \in -late..(TIMER_PERIOD - 1), StartTick(b, t)
        PROVE  IInv'
    BY <2>4, StartTickKeeps
  <2>5. ASSUME NEW b \in Bytes, NEW t \in -late..Overrun, BackToBackTick(b, t)
        PROVE  IInv'
    BY <2>5, BackToBackTickKeeps
  <2>6. CASE UNCHANGED vars
    BY <2>6 DEF vars, isrVars, lineVars, IInv, Typed, Silent, Waiting, UnderWay,
                Heard, Counted, InStep, Taken, FrameLength
  <2> QED
    BY <2>1, <2>2, <2>3, <2>4, <2>5, <2>6 DEF Next
<1> QED
  BY <1>1, <1>2, PTL DEF Spec

(* For every period of the timer: if a bit cell and the delay of a sample   *)
(* together last no longer than eight periods, and a frame no shorter than *)
(* seventy-three, each push of uart_rx_isr delivers the oldest byte not    *)
(* yet received, bit for bit, and no noise pulse makes a byte.             *)
THEOREM BytesHeardIntact ==
  ASSUME WithinTolerance
  PROVE  Spec => EachByteHeardIntact
<1>1. IInv => (Pushes => owed # <<>> /\ rx_shift_reg = Head(owed))
  BY DEF IInv, Silent, Waiting, Heard, UnderWay, Counted, Pushes
<1>2. IInv /\ [Next]_vars
        => [Pushes => owed # <<>> /\ rx_shift_reg = Head(owed)]_vars
  BY <1>1
<1> QED
  BY <1>2, WithinTolerance, InvariantHolds, PTL DEF Spec, EachByteHeardIntact

(* Under the same conditions no byte is missed: it is pushed before its     *)
(* frame is over.                                                          *)
THEOREM NoByteMissed ==
  ASSUME WithinTolerance
  PROVE  Spec => []HeardBeforeFrameEnds
<1>1. IInv => owed \in {<<>>, <<byte>>} /\ (~sending => owed = <<>>)
  BY DEF IInv, Silent, Waiting, Heard, UnderWay
<1>2. owed = <<>> => Len(owed) <= 1
  OBVIOUS
<1>3. owed = <<byte>> => Len(owed) <= 1
  OBVIOUS
<1>4. IInv => HeardBeforeFrameEnds
  BY <1>1, <1>2, <1>3 DEF HeardBeforeFrameEnds
<1> QED
  BY <1>4, WithinTolerance, InvariantHolds, PTL
=============================================================================
