----------------------------- MODULE RxSampler -----------------------------
(***************************************************************************)
(* The bit-banged receiver of src/src/uart.c: uart_rx_isr samples the RX    *)
(* pin once per timer period and rebuilds bytes from the samples.  The     *)
(* line is modelled in CPU cycles, so that the phase between the sender's  *)
(* clock and the timer, and the drift between the two, are what they are   *)
(* on the board; any other unit of time will do as well.  A sample is late  *)
(* when the timer finds another handler at work, or interrupts disabled.   *)
(* The sender is the ESP8266, or another board: a frame has the cells that *)
(* uart_tx_char gives a byte, of a length that Settings gives.  (Of the    *)
(* board's own sender that length depends on the compiler, which decides   *)
(* how long a turn of busywait_cycles takes.)                              *)
(*                                                                         *)
(* The push that ends a byte goes to the ring of RxRing; here it only ends *)
(* the byte.  A byte is the set of those of its bits, 0..7, that are one.  *)
(***************************************************************************)
EXTENDS Integers, Sequences

CONSTANTS
  Bytes,         \* the bytes the sender may send
  TIMER_PERIOD,  \* cycles between two samples (CPU_FREQ_HZ / (9600 * 8) = 390)
  Settings,      \* [bit, late]: the length of the sender's bit cell and how
                 \* late a sample may be, in cycles
  QUIET          \* high samples after a noise pulse before the next frame

ASSUME SamplerAssumption ==
  /\ Bytes \subseteq SUBSET (0..7)
  /\ TIMER_PERIOD \in Nat \ {0}
  /\ Settings \subseteq [bit : Nat, late : Nat]
  /\ \A setting \in Settings :
       10 * setting.bit > TIMER_PERIOD /\ setting.late < TIMER_PERIOD
  /\ QUIET \in Nat

VARIABLES
  rx_state,         \* idle, start, data or stop
  rx_sample_count,  \* samples taken in this state, or in this cell
  rx_shift_reg,     \* the bits received so far
  rx_bit_count,     \* and how many they are
  bit, late,        \* the setting, fixed for a behaviour
  sending,          \* the line carries a frame
  byte,             \* the byte of that frame
  elapsed,          \* cycles from the start of that frame to the time the last
                    \* sample was due
  noise,            \* samples still to pass before a frame may start
  owed              \* history: bytes sent and not yet received

isrVars == <<rx_state, rx_sample_count, rx_shift_reg, rx_bit_count>>
lineVars == <<bit, late, sending, byte, elapsed, noise>>
vars == <<isrVars, lineVars, owed>>

States == {"idle", "start", "data", "stop"}

-----------------------------------------------------------------------------
(* The line. *)

(* The levels uart_tx_char gives the line, for one bit delay each: a low     *)
(* start bit, the bits, the least significant first, and a high stop bit.  *)
uart_tx_char(b) ==
  [cell \in 0..9 |-> IF cell = 9 \/ cell - 1 \in b THEN 1 ELSE 0]

(* The level t cycles after the falling edge of the start bit. *)
Level(b, t) ==
  IF \E cell \in 0..9 : /\ cell * bit <= t /\ t < (cell + 1) * bit
                        /\ uart_tx_char(b)[cell] = 0
    THEN 0 ELSE 1

FrameLength == 10 * bit

(* Cycles from the end of the frame to the time the next sample is due. *)
Overrun == elapsed + TIMER_PERIOD - FrameLength

-----------------------------------------------------------------------------
(* uart_rx_isr, given the level it reads from the pin. *)

NewByte_KeepsBits ==
  /\ rx_state' = "data"
  /\ rx_sample_count' = 0
  /\ rx_bit_count' = 0
  /\ UNCHANGED rx_shift_reg
NewByte ==
  /\ rx_state' = "data"
  /\ rx_sample_count' = 0
  /\ rx_shift_reg' = {}
  /\ rx_bit_count' = 0

IdleSample(level) ==
  /\ rx_state = "idle"
  /\ IF level = 0
       THEN rx_state' = "start" /\ rx_sample_count' = 0
       ELSE UNCHANGED <<rx_state, rx_sample_count>>
  /\ UNCHANGED <<rx_shift_reg, rx_bit_count>>

(* The fourth sample must still be low, or it was a false start.  The count *)
(* never gets past four: the branch for eight samples is never taken.      *)
StartSample(level) ==
  LET n == rx_sample_count + 1 IN
    /\ rx_state = "start"
    /\ IF (n = 4 /\ level = 0) \/ n >= 8
         THEN NewByte
         ELSE /\ rx_sample_count' = n
              /\ rx_state' = IF n = 4 THEN "idle" ELSE "start"
              /\ UNCHANGED <<rx_shift_reg, rx_bit_count>>

(* Of every eight samples the fourth is the data bit. *)
AllBits == rx_bit_count >= 8
DataSample(level) ==
  LET n == rx_sample_count + 1 IN
    /\ rx_state = "data"
    /\ IF n = 4
         THEN /\ rx_shift_reg' = IF level = 1
                                   THEN rx_shift_reg \union {rx_bit_count}
                                   ELSE rx_shift_reg
              /\ rx_bit_count' = rx_bit_count + 1
         ELSE UNCHANGED <<rx_shift_reg, rx_bit_count>>
    /\ rx_sample_count' = IF n >= 8 THEN 0 ELSE n
    /\ rx_state' = IF n >= 8 /\ AllBits THEN "stop" ELSE "data"

(* The byte is pushed in the middle of the stop bit. *)
EndsStop_FullCell == rx_sample_count + 1 >= 8
EndsStop == rx_sample_count + 1 >= 4
StopSample ==
  /\ rx_state = "stop"
  /\ IF EndsStop
       THEN rx_state' = "idle" /\ rx_sample_count' = 0
       ELSE rx_sample_count' = rx_sample_count + 1 /\ UNCHANGED rx_state
  /\ UNCHANGED <<rx_shift_reg, rx_bit_count>>

(* This sample pushes the byte in the shift register. *)
Pushes == rx_state = "stop" /\ EndsStop

UartRxIsr(level) ==
  \/ IdleSample(level)
  \/ StartSample(level)
  \/ DataSample(level)
  \/ StopSample

-----------------------------------------------------------------------------
Init ==
  /\ rx_state = "idle"
  /\ rx_sample_count = 0
  /\ rx_shift_reg = {}
  /\ rx_bit_count = 0
  /\ \E setting \in Settings : bit = setting.bit /\ late = setting.late
  /\ sending = FALSE
  /\ byte \in Bytes
  /\ elapsed = 0
  /\ noise = 0
  /\ owed = <<>>

(* What is owed after this sample, and after a frame that starts with it. *)
Owed == IF Pushes /\ owed # <<>> THEN Tail(owed) ELSE owed

(* The line idles high. *)
IdleTick ==
  /\ ~sending
  /\ UartRxIsr(1)
  /\ noise' = IF noise > 0 THEN noise - 1 ELSE 0
  /\ owed' = Owed
  /\ UNCHANGED <<bit, late, sending, byte, elapsed>>

(* A noise pulse pulls the idle line low for one sample. *)
NoiseTick ==
  /\ ~sending
  /\ noise = 0
  /\ UartRxIsr(0)
  /\ noise' = QUIET
  /\ owed' = Owed
  /\ UNCHANGED <<bit, late, sending, byte, elapsed>>

(* A frame starts on the idle line, t cycles before this sample is due; if  *)
(* t is negative, the sample is so late that it still sees the start bit.  *)
StartTick(b, t) ==
  /\ ~sending
  /\ noise = 0
  /\ UartRxIsr(0)
  /\ sending' = TRUE
  /\ byte' = b
  /\ elapsed' = t
  /\ owed' = Append(Owed, b)
  /\ UNCHANGED <<bit, late, noise>>

FrameTick ==
  /\ sending
  /\ Overrun < 0
  /\ \E lag \in 0..late : UartRxIsr(Level(byte, elapsed + TIMER_PERIOD + lag))
  /\ elapsed' = elapsed + TIMER_PERIOD
  /\ owed' = Owed
  /\ UNCHANGED <<bit, late, sending, byte, noise>>

(* The frame is over and the line stays high ... *)
EndTick ==
  /\ sending
  /\ Overrun >= 0
  /\ UartRxIsr(1)
  /\ sending' = FALSE
  /\ elapsed' = 0
  /\ owed' = Owed
  /\ UNCHANGED <<bit, late, byte, noise>>

(* ... or the next frame has already started, t <= Overrun cycles before.  *)
BackToBackTick(b, t) ==
  /\ sending
  /\ UartRxIsr(0)
  /\ byte' = b
  /\ elapsed' = t
  /\ owed' = Append(Owed, b)
  /\ UNCHANGED <<bit, late, sending, noise>>

Next ==
  \/ IdleTick
  \/ NoiseTick
  \/ FrameTick
  \/ EndTick
  \/ \E b \in Bytes :
       \/ \E t \in -late..(TIMER_PERIOD - 1) : StartTick(b, t)
       \/ \E t \in -late..Overrun : BackToBackTick(b, t)

Spec == Init /\ [][Next]_vars

-----------------------------------------------------------------------------
(* What the receiver asks of its sender and of the other handlers: a cell   *)
(* and a delay last no longer than eight periods, and a frame no shorter   *)
(* than seventy-three.                                                     *)
WithinTolerance ==
  /\ QUIET >= 4
  /\ \A setting \in Settings : /\ setting.bit + setting.late <= 8 * TIMER_PERIOD
                               /\ 10 * setting.bit >= 73 * TIMER_PERIOD

TypeOK ==
  /\ rx_state \in States
  /\ rx_sample_count \in 0..7
  /\ rx_shift_reg \subseteq 0..7
  /\ rx_bit_count \in 0..8
  /\ [bit |-> bit, late |-> late] \in Settings
  /\ sending \in BOOLEAN
  /\ byte \in Bytes
  /\ elapsed \in -late..(FrameLength - 1)
  /\ noise \in 0..QUIET
  /\ owed \in Seq(Bytes)

(* Whatever the phase between sender and timer, however late a sample within *)
(* its limit, and whether the frames come back to back or apart: each push *)
(* delivers the oldest byte not yet received, bit for bit, and noise never *)
(* makes a byte.  A late sample that finds a start bit early makes all the *)
(* samples of the byte early, and they are at the edge of their cells: a   *)
(* bit cell and a delay together may take no more than eight periods.      *)
EachByteHeardIntact ==
  [][Pushes => owed # <<>> /\ rx_shift_reg = Head(owed)]_vars

(* No byte is missed: the receiver has a byte before its frame is over, so  *)
(* it is idle again when the next start bit can come.                      *)
HeardBeforeFrameEnds ==
  /\ Len(owed) <= 1
  /\ ~sending => owed = <<>>

(* The comment at uart.c:227: a data bit is taken from the middle of its    *)
(* cell, here the middle half of it.                                       *)
MidBitSampling ==
  [][rx_state = "data" /\ rx_bit_count' # rx_bit_count /\ sending /\ sending'
       => LET offset == elapsed' % bit
          IN  4 * offset >= bit /\ 4 * offset <= 3 * bit]_vars
=============================================================================
