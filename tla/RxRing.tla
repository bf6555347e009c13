------------------------------- MODULE RxRing -------------------------------
(***************************************************************************)
(* The receive ring of src/src/uart.c, shared by the timer interrupt, which *)
(* pushes the bytes it has assembled, and the main loop of src/src/main.c,  *)
(* which polls uart_rx_available() and pops with uart_rx_getc().  There is *)
(* no lock and interrupts are never masked: the interrupt handler runs to  *)
(* completion between any two memory accesses of the main loop.  So one    *)
(* push is one step, while a pop is one step for every access to an index  *)
(* or a slot that the other side can see.                                  *)
(***************************************************************************)
EXTENDS Integers, Sequences

CONSTANTS
  Byte,                 \* the values a byte can take
  UART_RX_BUFFER_SIZE,  \* slots of the ring (256 in uart.h)
  MaxArrivals           \* bound: bytes the line delivers in one behaviour

ASSUME RingAssumption ==
  /\ 0 \in Byte
  /\ UART_RX_BUFFER_SIZE \in Nat
  /\ UART_RX_BUFFER_SIZE >= 2
  /\ MaxArrivals \in Nat

VARIABLES
  rx_buffer,            \* the slots
  rx_buffer_head,       \* next slot to fill, written by the interrupt only
  rx_buffer_tail,       \* next slot to read, written by the main loop only
  rx_bytes_received,    \* debug counter of the driver: bytes pushed
  pc,                   \* where the main loop is
  loaded,               \* the local c of uart_rx_getc
  c,                    \* the local c of main: the byte popped last
  total_bytes_received, \* counter of main: bytes popped
  arrived               \* history: bytes the line has delivered so far

ringVars == <<rx_buffer, rx_buffer_head, rx_buffer_tail, rx_bytes_received>>
mainVars == <<pc, loaded, c, total_bytes_received>>
vars == <<ringVars, mainVars, arrived>>

Slots == 0..(UART_RX_BUFFER_SIZE - 1)

(* "poll": about to call uart_rx_available; "getc": that call returned a    *)
(* positive count, uart_rx_getc is entered; "load": the ring was seen not  *)
(* empty, the slot is read next; "advance": the slot is read, the tail is  *)
(* written next; "got": the byte is returned to main; "empty": the inner   *)
(* loop of main is left.                                                   *)
Places == {"poll", "getc", "load", "advance", "got", "empty"}

-----------------------------------------------------------------------------
NextSlot(i) == (i + 1) % UART_RX_BUFFER_SIZE

Count == (rx_buffer_head - rx_buffer_tail + UART_RX_BUFFER_SIZE)
           % UART_RX_BUFFER_SIZE

Full_Ignored == FALSE
Full_OneEarly == Count >= UART_RX_BUFFER_SIZE - 2
Full == NextSlot(rx_buffer_head) = rx_buffer_tail

SomeAvailable_OffByOne == Count > 1
SomeAvailable_Always == Count >= 0
SomeAvailable == Count > 0

(* The ring after uart_rx_init_interrupt, and main about to enter its loop. *)
Init ==
  /\ rx_buffer = [i \in Slots |-> 0]
  /\ rx_buffer_head = 0
  /\ rx_buffer_tail = 0
  /\ rx_bytes_received = 0
  /\ pc = "poll"
  /\ loaded = 0
  /\ c = 0
  /\ total_bytes_received = 0
  /\ arrived = 0

(* The last sample of the stop bit: the interrupt pushes the byte, or drops *)
(* it when the ring is full.                                               *)
Push(b) ==
  /\ rx_buffer' = [rx_buffer EXCEPT ![rx_buffer_head] = b]
  /\ rx_buffer_head' = NextSlot(rx_buffer_head)
  /\ rx_bytes_received' = rx_bytes_received + 1

Drop_Counted ==
  /\ rx_bytes_received' = rx_bytes_received + 1
  /\ UNCHANGED <<rx_buffer, rx_buffer_head>>
Drop == UNCHANGED <<rx_buffer, rx_buffer_head, rx_bytes_received>>

UartRxIsr(b) ==
  /\ arrived < MaxArrivals
  /\ arrived' = arrived + 1
  /\ \/ ~Full /\ Push(b)
     \/ Full /\ Drop
  /\ UNCHANGED <<rx_buffer_tail, mainVars>>

(* while (uart_rx_available() > 0): the head is read once; what it said is  *)
(* acted on later, when the interrupt may have moved the head again.       *)
UartRxAvailable ==
  /\ pc = "poll"
  /\ pc' = IF SomeAvailable THEN "getc" ELSE "empty"
  /\ UNCHANGED <<ringVars, loaded, c, total_bytes_received, arrived>>

(* uart_rx_getc: the test for an empty ring; -1 makes main leave the loop.  *)
GetcTest ==
  /\ pc = "getc"
  /\ pc' = IF rx_buffer_head = rx_buffer_tail THEN "empty" ELSE "load"
  /\ UNCHANGED <<ringVars, loaded, c, total_bytes_received, arrived>>

GetcLoad ==
  /\ pc = "load"
  /\ loaded' = rx_buffer[rx_buffer_tail]
  /\ pc' = "advance"
  /\ UNCHANGED <<ringVars, c, total_bytes_received, arrived>>

(* The tail moves past the slot and the byte is returned and counted. *)
GetcAdvance ==
  /\ pc = "advance"
  /\ rx_buffer_tail' = NextSlot(rx_buffer_tail)
  /\ c' = loaded
  /\ total_bytes_received' = total_bytes_received + 1
  /\ pc' = "got"
  /\ UNCHANGED <<rx_buffer, rx_buffer_head, rx_bytes_received, loaded, arrived>>

(* main feeds the byte to the framer, and goes on polling. *)
HandleByte ==
  /\ pc = "got"
  /\ pc' = "poll"
  /\ UNCHANGED <<ringVars, loaded, c, total_bytes_received, arrived>>

(* The rest of the outer loop: send button, timeout, a short delay. *)
GoRound ==
  /\ pc = "empty"
  /\ pc' = "poll"
  /\ UNCHANGED <<ringVars, loaded, c, total_bytes_received, arrived>>

Main ==
  \/ UartRxAvailable
  \/ GetcTest
  \/ GetcLoad
  \/ GetcAdvance
  \/ HandleByte
  \/ GoRound

Next == Main \/ \E b \in Byte : UartRxIsr(b)

Spec == Init /\ [][Next]_vars

(* The main loop of a bare-metal program never stops; the line owes nothing. *)
FairSpec == Spec /\ WF_vars(Main)

-----------------------------------------------------------------------------
TypeOK ==
  /\ rx_buffer \in [Slots -> Byte]
  /\ rx_buffer_head \in Slots
  /\ rx_buffer_tail \in Slots
  /\ rx_bytes_received \in Nat
  /\ pc \in Places
  /\ loaded \in Byte
  /\ c \in Byte
  /\ total_bytes_received \in Nat
  /\ arrived \in Nat

(* Between the read of a slot and the write of the tail the interrupt can   *)
(* run any number of times: the slot read still belongs to the reader and  *)
(* still holds the byte that was read (the comment at uart.c:153 claims    *)
(* this with "Safe without locks").                                        *)
LoadedByteIsStillThere ==
  pc = "advance" => /\ rx_buffer_head # rx_buffer_tail
                    /\ rx_buffer[rx_buffer_tail] = loaded

(* A positive uart_rx_available() is still true when uart_rx_getc tests the *)
(* ring: main's "if (c == -1) break" is never taken.                       *)
AvailableNeverGoesStale ==
  pc \in {"getc", "load"} => rx_buffer_head # rx_buffer_tail

(* No byte disappears between the two counters of the program: what the     *)
(* interrupt has counted is what main has counted plus what is in the ring. *)
NothingLostInside ==
  rx_bytes_received = total_bytes_received + Count

(* The unread bytes, oldest first. *)
Unread ==
  [i \in 1..Count |-> rx_buffer[(rx_buffer_tail + i - 1) % UART_RX_BUFFER_SIZE]]

Queue == INSTANCE ByteQueue WITH
           Capacity <- UART_RX_BUFFER_SIZE - 1,
           queue    <- Unread,
           lost     <- arrived - rx_bytes_received

(* The ring is a queue of one byte less than it has slots: bytes are        *)
(* returned in order, once, and one is lost only when the ring is full.    *)
ImplementsByteQueue == Queue!Spec

(* Every byte the interrupt has pushed is popped in the end. *)
EveryByteIsPopped ==
  \A n \in 1..MaxArrivals :
    rx_bytes_received >= n ~> total_bytes_received >= n
=============================================================================
