--------------------------- MODULE RxRing_proofs ---------------------------
(***************************************************************************)
(* Proofs about the receive ring, for every ring size, every set of bytes  *)
(* and every number of arrivals: its invariants are inductive together,    *)
(* and it implements the bounded queue of ByteQueue.                       *)
(***************************************************************************)
EXTENDS RxRing, TLAPS

USE RingAssumption DEF Slots

-----------------------------------------------------------------------------
(* Arithmetic of the indices. *)

(* The successor of a slot is a slot; it is the next number or 0. *)
LEMMA NextSlotIs ==
  ASSUME NEW i \in Slots
  PROVE  /\ NextSlot(i) \in Slots
         /\ NextSlot(i) = IF i + 1 = UART_RX_BUFFER_SIZE THEN 0 ELSE i + 1
BY DEF NextSlot

(* Count is the distance from the tail up to the head. *)
LEMMA CountIs ==
  ASSUME rx_buffer_head \in Slots, rx_buffer_tail \in Slots
  PROVE  /\ Count = IF rx_buffer_head >= rx_buffer_tail
                      THEN rx_buffer_head - rx_buffer_tail
                      ELSE rx_buffer_head - rx_buffer_tail + UART_RX_BUFFER_SIZE
         /\ Count \in 0..(UART_RX_BUFFER_SIZE - 1)
         /\ Count = 0 <=> rx_buffer_head = rx_buffer_tail
BY DEF Count

(* The ring is full when all slots but one hold unread bytes. *)
LEMMA FullIs ==
  ASSUME rx_buffer_head \in Slots, rx_buffer_tail \in Slots
  PROVE  Full <=> Count = UART_RX_BUFFER_SIZE - 1
<1>1. NextSlot(rx_buffer_head) =
        IF rx_buffer_head + 1 = UART_RX_BUFFER_SIZE THEN 0 ELSE rx_buffer_head + 1
  BY NextSlotIs
<1>2. Count = IF rx_buffer_head >= rx_buffer_tail
                THEN rx_buffer_head - rx_buffer_tail
                ELSE rx_buffer_head - rx_buffer_tail + UART_RX_BUFFER_SIZE
  BY CountIs
<1> QED
  BY <1>1, <1>2 DEF Full

(* The slot that holds the i-th unread byte. *)
LEMMA SlotOfUnread ==
  ASSUME NEW t \in Slots, NEW i \in 1..UART_RX_BUFFER_SIZE
  PROVE  /\ (t + i - 1) % UART_RX_BUFFER_SIZE \in Slots
         /\ (t + i - 1) % UART_RX_BUFFER_SIZE =
              IF t + i - 1 < UART_RX_BUFFER_SIZE
                THEN t + i - 1 ELSE t + i - 1 - UART_RX_BUFFER_SIZE
OBVIOUS

(* Filling the slot at the head makes one byte more unread ... *)
LEMMA CountAfterPush ==
  ASSUME rx_buffer_head \in Slots, rx_buffer_tail \in Slots,
         ~Full,
         rx_buffer_head' = NextSlot(rx_buffer_head),
         rx_buffer_tail' = rx_buffer_tail
  PROVE  Count' = Count + 1
<1>1. rx_buffer_head' \in Slots /\ rx_buffer_tail' \in Slots
  BY NextSlotIs
<1>2. Count' = IF rx_buffer_head' >= rx_buffer_tail'
                 THEN rx_buffer_head' - rx_buffer_tail'
                 ELSE rx_buffer_head' - rx_buffer_tail' + UART_RX_BUFFER_SIZE
  BY <1>1 DEF Count
<1> QED
  BY <1>2, NextSlotIs, CountIs DEF Full

(* ... and moving the tail makes one less. *)
LEMMA CountAfterAdvance ==
  ASSUME rx_buffer_head \in Slots, rx_buffer_tail \in Slots,
         rx_buffer_head # rx_buffer_tail,
         rx_buffer_tail' = NextSlot(rx_buffer_tail),
         rx_buffer_head' = rx_buffer_head
  PROVE  Count' = Count - 1
<1>1. rx_buffer_head' \in Slots /\ rx_buffer_tail' \in Slots
  BY NextSlotIs
<1>2. Count' = IF rx_buffer_head' >= rx_buffer_tail'
                 THEN rx_buffer_head' - rx_buffer_tail'
                 ELSE rx_buffer_head' - rx_buffer_tail' + UART_RX_BUFFER_SIZE
  BY <1>1, SMTT(20) DEF Count
<1> QED
  BY <1>2, NextSlotIs, CountIs, SMTT(20)

-----------------------------------------------------------------------------
(* Type correctness: the indices stay inside the array, whatever the       *)
(* interleaving of uart_rx_isr and the main loop.                          *)
THEOREM TypeCorrect == Spec => []TypeOK
<1>1. Init => TypeOK
  BY DEF Init, TypeOK, Places
<1>2. TypeOK /\ [Next]_vars => TypeOK'
  <2> SUFFICES ASSUME TypeOK, [Next]_vars PROVE TypeOK'
    OBVIOUS
  <2>1. ASSUME NEW b \in Byte, UartRxIsr(b) PROVE TypeOK'
    BY <2>1, NextSlotIs, SMTT(20)
       DEF TypeOK, UartRxIsr, Push, Drop, mainVars
  <2>2. CASE UartRxAvailable
    BY <2>2 DEF TypeOK, UartRxAvailable, ringVars, Places
  <2>3. CASE GetcTest
    BY <2>3 DEF TypeOK, GetcTest, ringVars, Places
  <2>4. CASE GetcLoad
    BY <2>4 DEF TypeOK, GetcLoad, ringVars, Places
  <2>5. CASE GetcAdvance
    BY <2>5, NextSlotIs DEF TypeOK, GetcAdvance, Places
  <2>6. CASE HandleByte
    BY <2>6 DEF TypeOK, HandleByte, ringVars, Places
  <2>7. CASE GoRound
    BY <2>7 DEF TypeOK, GoRound, ringVars, Places
  <2>8. CASE UNCHANGED vars
    BY <2>8 DEF TypeOK, vars, ringVars, mainVars
  <2> QED
    BY <2>1, <2>2, <2>3, <2>4, <2>5, <2>6, <2>7, <2>8 DEF Next, Main
<1> QED
  BY <1>1, <1>2, PTL DEF Spec

-----------------------------------------------------------------------------
(* The three safety invariants need the types and, for the counters, one   *)
(* another: each is preserved because the push never meets the slot the    *)
(* reader is at.                                                           *)
IInv ==
  /\ TypeOK
  /\ LoadedByteIsStillThere
  /\ AvailableNeverGoesStale
  /\ NothingLostInside

LEMMA InitEstablishesIInv == Init => IInv
BY CountIs
   DEF Init, IInv, TypeOK, Places, LoadedByteIsStillThere,
       AvailableNeverGoesStale, NothingLostInside, Count

(* An interrupt that pushes leaves the ring not empty and the slot at the  *)
(* tail as it was, if that slot held an unread byte.                       *)
LEMMA PushKeepsIInv ==
  ASSUME IInv, NEW b \in Byte, UartRxIsr(b)
  PROVE  IInv'
<1>1. TypeOK'
  BY NextSlotIs DEF IInv, TypeOK, UartRxIsr, Push, Drop, mainVars
<1>2. CASE Full /\ Drop
  BY <1>1, <1>2
     DEF IInv, UartRxIsr, Drop, mainVars, LoadedByteIsStillThere,
         AvailableNeverGoesStale, NothingLostInside, Count
<1>3. CASE ~Full /\ Push(b)
  <2>1. /\ rx_buffer_tail' = rx_buffer_tail
        /\ UNCHANGED mainVars
        /\ rx_buffer_head' # rx_buffer_tail'
    BY <1>3 DEF UartRxIsr, Push, Full
  <2>2. LoadedByteIsStillThere'
    BY <1>3, <2>1 DEF IInv, TypeOK, LoadedByteIsStillThere, Push, mainVars
  <2>3. AvailableNeverGoesStale'
    BY <2>1 DEF AvailableNeverGoesStale
  <2>4. NothingLostInside'
    <3>1. Count' = Count + 1
      BY <1>3, <2>1, CountAfterPush DEF IInv, TypeOK, Push
    <3> QED
      BY <1>3, <2>1, <3>1, CountIs
         DEF IInv, TypeOK, NothingLostInside, Push, mainVars
  <2> QED
    BY <1>1, <2>2, <2>3, <2>4 DEF IInv
<1> QED
  BY <1>2, <1>3 DEF UartRxIsr

LEMMA StepKeepsIInv == IInv /\ [Next]_vars => IInv'
<1> SUFFICES ASSUME IInv, [Next]_vars PROVE IInv'
  OBVIOUS
<1> USE DEF IInv, LoadedByteIsStillThere, AvailableNeverGoesStale,
            NothingLostInside
<1>1. ASSUME NEW b \in Byte, UartRxIsr(b) PROVE IInv'
  BY <1>1, PushKeepsIInv
<1>2. CASE UartRxAvailable
  BY <1>2, CountIs
     DEF TypeOK, UartRxAvailable, ringVars, Places, SomeAvailable, Count
<1>3. CASE GetcTest
  BY <1>3 DEF TypeOK, GetcTest, ringVars, Places, Count
<1>4. CASE GetcLoad
  BY <1>4 DEF TypeOK, GetcLoad, ringVars, Places, Count
<1>5. CASE GetcAdvance
  <2>1. TypeOK'
    BY <1>5, NextSlotIs DEF TypeOK, GetcAdvance, Places
  <2>2. Count' = Count - 1
    BY <1>5, CountAfterAdvance DEF TypeOK, GetcAdvance
  <2>3. rx_bytes_received' = total_bytes_received' + Count'
    BY <1>5, <2>2, CountIs DEF TypeOK, GetcAdvance
  <2> QED
    BY <1>5, <2>1, <2>3 DEF GetcAdvance
<1>6. CASE HandleByte
  BY <1>6 DEF TypeOK, HandleByte, ringVars, Places, Count
<1>7. CASE GoRound
  BY <1>7 DEF TypeOK, GoRound, ringVars, Places, Count
<1>8. CASE UNCHANGED vars
  BY <1>8 DEF TypeOK, vars, ringVars, mainVars, Count
<1> QED
  BY <1>1, <1>2, <1>3, <1>4, <1>5, <1>6, <1>7, <1>8 DEF Next, Main

LEMMA IInvIsInvariant == Spec => []IInv
BY InitEstablishesIInv, StepKeepsIInv, PTL DEF Spec

(* The claim of uart.c:152-157: without a lock, the byte that uart_rx_getc  *)
(* has read stays in its slot until the tail has moved past it.            *)
THEOREM LoadedByteStays == Spec => []LoadedByteIsStillThere
BY IInvIsInvariant, PTL DEF IInv

(* What uart_rx_available() promised still holds when uart_rx_getc runs.    *)
THEOREM AvailableStaysTrue == Spec => []AvailableNeverGoesStale
BY IInvIsInvariant, PTL DEF IInv

(* The counters of the driver and of main differ by the bytes in the ring. *)
THEOREM CountersAgree == Spec => []NothingLostInside
BY IInvIsInvariant, PTL DEF IInv

-----------------------------------------------------------------------------
(* The unread bytes as a sequence. *)
LEMMA UnreadIs ==
  ASSUME TypeOK
  PROVE  /\ Unread \in Seq(Byte)
         /\ Len(Unread) = Count
         /\ DOMAIN Unread = 1..Count
         /\ \A i \in 1..Count :
              Unread[i] = rx_buffer[(rx_buffer_tail + i - 1) % UART_RX_BUFFER_SIZE]
<1>1. Count \in Nat /\ 1..Count \subseteq 1..UART_RX_BUFFER_SIZE
  BY CountIs DEF TypeOK
<1>2. \A i \in 1..Count :
        rx_buffer[(rx_buffer_tail + i - 1) % UART_RX_BUFFER_SIZE] \in Byte
  BY <1>1, SlotOfUnread DEF TypeOK
<1> QED
  BY <1>1, <1>2 DEF Unread

(* Two sequences are equal when they have the same length and entries. *)
LEMMA SameSequence ==
  ASSUME NEW T, NEW p \in Seq(T), NEW q \in Seq(T), Len(p) = Len(q),
         \A i \in 1..Len(p) : p[i] = q[i]
  PROVE  p = q
OBVIOUS

(* A push appends to the unread bytes. *)
LEMMA PushAppends ==
  ASSUME TypeOK, TypeOK', NEW b \in Byte, ~Full, Push(b),
         rx_buffer_tail' = rx_buffer_tail
  PROVE  Unread' = Append(Unread, b)
<1>1. Count' = Count + 1 /\ Count \in Nat
  BY CountAfterPush, CountIs DEF TypeOK, Push
<1>2. /\ Unread' \in Seq(Byte)
      /\ Len(Unread') = Count'
      /\ \A i \in 1..Count' :
           Unread'[i] = rx_buffer'[(rx_buffer_tail + i - 1) % UART_RX_BUFFER_SIZE]
  <2>1. Count' \in Nat /\ 1..Count' \subseteq 1..UART_RX_BUFFER_SIZE
    BY <1>1, CountIs DEF TypeOK, Full, NextSlot
  <2>2. \A i \in 1..Count' :
          rx_buffer'[(rx_buffer_tail + i - 1) % UART_RX_BUFFER_SIZE] \in Byte
    BY <2>1, SlotOfUnread DEF TypeOK
  <2> QED
    BY <2>1, <2>2 DEF Unread
<1>3. /\ Append(Unread, b) \in Seq(Byte)
      /\ Len(Append(Unread, b)) = Count + 1
      /\ \A i \in 1..Count : Append(Unread, b)[i] = Unread[i]
      /\ Append(Unread, b)[Count + 1] = b
  BY <1>1, UnreadIs
<1>4. ASSUME NEW i \in 1..Count'
      PROVE  Unread'[i] = Append(Unread, b)[i]
  <2>1. CASE i = Count + 1
    <3>1. (rx_buffer_tail + i - 1) % UART_RX_BUFFER_SIZE = rx_buffer_head
      BY <1>1, <2>1, CountIs, SlotOfUnread DEF TypeOK
    <3> QED
      BY <1>2, <1>3, <2>1, <3>1 DEF TypeOK, Push
  <2>2. CASE i # Count + 1
    <3>1. i \in 1..Count
      BY <1>1, <2>2
    <3>2. /\ (rx_buffer_tail + i - 1) % UART_RX_BUFFER_SIZE # rx_buffer_head
          /\ (rx_buffer_tail + i - 1) % UART_RX_BUFFER_SIZE \in Slots
      <4> DEFINE slot == (rx_buffer_tail + i - 1) % UART_RX_BUFFER_SIZE
      <4>1. /\ rx_buffer_tail \in Slots /\ rx_buffer_head \in Slots
            /\ i \in 1..UART_RX_BUFFER_SIZE
        BY <3>1, CountIs DEF TypeOK
      <4>2. slot \in Slots /\ slot = IF rx_buffer_tail + i - 1 < UART_RX_BUFFER_SIZE
                                     THEN rx_buffer_tail + i - 1
                                     ELSE rx_buffer_tail + i - 1 - UART_RX_BUFFER_SIZE
        BY <4>1, SlotOfUnread
      <4> HIDE DEF slot
      <4>3. slot # rx_buffer_head
        BY <3>1, <4>1, <4>2, CountIs
      <4> QED
        BY <4>2, <4>3 DEF slot
    <3>3. Unread'[i] = rx_buffer[(rx_buffer_tail + i - 1) % UART_RX_BUFFER_SIZE]
      BY <1>2, <3>2 DEF TypeOK, Push
    <3> QED
      BY <1>3, <3>1, <3>3, UnreadIs
  <2> QED
    BY <2>1, <2>2
<1> QED
  BY <1>1, <1>2, <1>3, <1>4, SameSequence

(* A pop removes the byte at the head of the unread bytes. *)
LEMMA AdvanceTakesHead ==
  ASSUME TypeOK, TypeOK', GetcAdvance, rx_buffer_head # rx_buffer_tail
  PROVE  /\ Unread # <<>>
         /\ Head(Unread) = rx_buffer[rx_buffer_tail]
         /\ Unread' = Tail(Unread)
<1>1. Count' = Count - 1 /\ Count \in Nat /\ Count # 0
  BY CountAfterAdvance, CountIs DEF TypeOK, GetcAdvance
<1>2. Unread # <<>>
  BY <1>1, UnreadIs
<1>3. Head(Unread) = rx_buffer[rx_buffer_tail]
  <2>1. Unread[1] = rx_buffer[(rx_buffer_tail + 1 - 1) % UART_RX_BUFFER_SIZE]
    BY <1>1, UnreadIs
  <2>2. (rx_buffer_tail + 1 - 1) % UART_RX_BUFFER_SIZE = rx_buffer_tail
    BY DEF TypeOK
  <2> QED
    BY <1>2, <2>1, <2>2, UnreadIs
<1>4. /\ Unread' \in Seq(Byte)
      /\ Len(Unread') = Count'
      /\ \A i \in 1..Count' :
           Unread'[i] = rx_buffer'[(rx_buffer_tail' + i - 1) % UART_RX_BUFFER_SIZE]
  <2>1. Count' \in Nat /\ 1..Count' \subseteq 1..UART_RX_BUFFER_SIZE
    BY <1>1, CountIs DEF TypeOK
  <2>2. \A i \in 1..Count' :
          rx_buffer'[(rx_buffer_tail' + i - 1) % UART_RX_BUFFER_SIZE] \in Byte
    BY <2>1, SlotOfUnread DEF TypeOK
  <2> QED
    BY <2>1, <2>2 DEF Unread
<1>5. /\ Tail(Unread) \in Seq(Byte)
      /\ Len(Tail(Unread)) = Count - 1
      /\ \A i \in 1..(Count - 1) : Tail(Unread)[i] = Unread[i + 1]
  BY <1>1, <1>2, UnreadIs
<1>6. ASSUME NEW i \in 1..Count'
      PROVE  Unread'[i] = Tail(Unread)[i]
  <2>1. i \in 1..(Count - 1) /\ i + 1 \in 1..Count
    BY <1>1
  <2>2. (rx_buffer_tail' + i - 1) % UART_RX_BUFFER_SIZE
          = (rx_buffer_tail + (i + 1) - 1) % UART_RX_BUFFER_SIZE
    <3>1. rx_buffer_tail' = NextSlot(rx_buffer_tail)
      BY DEF GetcAdvance
    <3>2. i \in 1..UART_RX_BUFFER_SIZE /\ i + 1 \in 1..UART_RX_BUFFER_SIZE
      BY <2>1, CountIs DEF TypeOK
    <3>3. rx_buffer_tail \in Slots /\ rx_buffer_tail' \in Slots
      BY DEF TypeOK
    <3>4. (rx_buffer_tail' + i - 1) % UART_RX_BUFFER_SIZE =
            IF rx_buffer_tail' + i - 1 < UART_RX_BUFFER_SIZE
              THEN rx_buffer_tail' + i - 1
              ELSE rx_buffer_tail' + i - 1 - UART_RX_BUFFER_SIZE
      BY ONLY <3>2, <3>3, SlotOfUnread
    <3>5. (rx_buffer_tail + (i + 1) - 1) % UART_RX_BUFFER_SIZE =
            IF rx_buffer_tail + (i + 1) - 1 < UART_RX_BUFFER_SIZE
              THEN rx_buffer_tail + (i + 1) - 1
              ELSE rx_buffer_tail + (i + 1) - 1 - UART_RX_BUFFER_SIZE
      BY ONLY <3>2, <3>3, SlotOfUnread
    <3>6. rx_buffer_tail' = IF rx_buffer_tail + 1 = UART_RX_BUFFER_SIZE
                              THEN 0 ELSE rx_buffer_tail + 1
      BY <3>1, <3>3, NextSlotIs
    <3>7. i + 1 \in 1..(UART_RX_BUFFER_SIZE - 1)
      BY <1>1, <2>1, CountIs DEF TypeOK
    <3>8. CASE rx_buffer_tail + 1 = UART_RX_BUFFER_SIZE
      BY <3>3, <3>4, <3>5, <3>6, <3>7, <3>8
    <3>9. CASE rx_buffer_tail + 1 # UART_RX_BUFFER_SIZE
      <4>1. rx_buffer_tail' + i - 1 = rx_buffer_tail + (i + 1) - 1
        BY <3>3, <3>6, <3>7, <3>9
      <4> QED
        BY <4>1
    <3> QED
      BY <3>8, <3>9
  <2>3. rx_buffer' = rx_buffer
    BY DEF GetcAdvance
  <2>4. Unread'[i] = rx_buffer[(rx_buffer_tail + (i + 1) - 1) % UART_RX_BUFFER_SIZE]
    BY <1>4, <2>2, <2>3
  <2> QED
    BY <1>5, <2>1, <2>4, UnreadIs
<1> QED
  BY <1>1, <1>2, <1>3, <1>4, <1>5, <1>6, SameSequence

(* Each step of the ring is a step of the queue, or leaves it alone. *)
LEMMA StepRefines ==
  ASSUME IInv, IInv', [Next]_vars
  PROVE  [Queue!Next]_(Queue!vars)
<1> USE DEF IInv
<1>1. ASSUME NEW b \in Byte, UartRxIsr(b) PROVE [Queue!Next]_(Queue!vars)
  <2>1. CASE ~Full /\ Push(b)
    <3>1. Unread' = Append(Unread, b)
      BY <1>1, <2>1, PushAppends DEF UartRxIsr
    <3>2. Len(Unread) < UART_RX_BUFFER_SIZE - 1
      <4>1. Count # UART_RX_BUFFER_SIZE - 1
        BY <2>1, FullIs DEF TypeOK
      <4> QED
        BY <4>1, CountIs, UnreadIs DEF TypeOK
    <3>3. c' = c /\ arrived' - rx_bytes_received' = arrived - rx_bytes_received
      BY <1>1, <2>1 DEF TypeOK, UartRxIsr, Push, mainVars
    <3>4. Queue!Accept(b)
      BY <3>1, <3>2, <3>3 DEF Queue!Accept
    <3> QED
      BY <3>4 DEF Queue!Next
  <2>2. CASE Full /\ Drop
    <3>1. Unread' = Unread
      BY <1>1, <2>2 DEF UartRxIsr, Drop, Unread, Count
    <3>2. Len(Unread) = UART_RX_BUFFER_SIZE - 1
      BY <2>2, FullIs, UnreadIs DEF TypeOK
    <3>3. c' = c /\ arrived' - rx_bytes_received' = (arrived - rx_bytes_received) + 1
      BY <1>1, <2>2 DEF TypeOK, UartRxIsr, Drop, mainVars
    <3>4. Queue!Lose
      BY <3>1, <3>2, <3>3 DEF Queue!Lose
    <3> QED
      BY <3>4 DEF Queue!Next
  <2> QED
    BY <1>1, <2>1, <2>2 DEF UartRxIsr
<1>2. ASSUME UNCHANGED <<ringVars, c, arrived>>
      PROVE  UNCHANGED Queue!vars
  BY <1>2 DEF Queue!vars, ringVars, Unread, Count
<1>3. CASE UartRxAvailable
  BY <1>2, <1>3 DEF UartRxAvailable
<1>4. CASE GetcTest
  BY <1>2, <1>4 DEF GetcTest
<1>5. CASE GetcLoad
  BY <1>2, <1>5 DEF GetcLoad
<1>6. CASE GetcAdvance
  <2>1. rx_buffer_head # rx_buffer_tail /\ rx_buffer[rx_buffer_tail] = loaded
    BY <1>6 DEF LoadedByteIsStillThere, GetcAdvance
  <2>2. /\ Unread # <<>>
        /\ c' = Head(Unread)
        /\ Unread' = Tail(Unread)
    BY <1>6, <2>1, AdvanceTakesHead DEF GetcAdvance
  <2>3. Queue!Take
    BY <1>6, <2>2 DEF Queue!Take, GetcAdvance
  <2> QED
    BY <2>3 DEF Queue!Next
<1>7. CASE HandleByte
  BY <1>2, <1>7 DEF HandleByte
<1>8. CASE GoRound
  BY <1>2, <1>8 DEF GoRound
<1>9. CASE UNCHANGED vars
  BY <1>2, <1>9 DEF vars, mainVars
<1> QED
  BY <1>1, <1>3, <1>4, <1>5, <1>6, <1>7, <1>8, <1>9 DEF Next, Main

(* uart_rx_isr with uart_rx_available and uart_rx_getc, interleaved at      *)
(* every memory access, are a bounded queue of one byte less than the ring *)
(* has slots: bytes come out once, in order, and only a full ring loses.   *)
THEOREM RingImplementsByteQueue == Spec => ImplementsByteQueue
<1>1. Init => Queue!Init
  <2> SUFFICES ASSUME Init PROVE Queue!Init
    OBVIOUS
  <2>1. TypeOK /\ Count = 0
    BY CountIs DEF Init, TypeOK, Places
  <2>2. Unread = <<>>
    BY <2>1, UnreadIs
  <2> QED
    BY <2>2 DEF Init, Queue!Init
<1> QED
  BY <1>1, IInvIsInvariant, StepRefines, PTL
     DEF Spec, ImplementsByteQueue, Queue!Spec
=============================================================================
