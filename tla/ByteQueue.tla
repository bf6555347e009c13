----------------------------- MODULE ByteQueue -----------------------------
(***************************************************************************)
(* What the receive buffer of the UART driver promises to the main loop: a *)
(* bounded first-in first-out queue of bytes.  A byte that arrives while   *)
(* the queue is full is lost and counted; every other byte is handed over  *)
(* exactly once and in the order of arrival.                               *)
(*                                                                         *)
(* RxRing implements this specification with a ring of slots, two indices  *)
(* and no lock.                                                            *)
(***************************************************************************)
EXTENDS Integers, Sequences

CONSTANTS
  Byte,      \* the values a byte can take
  Capacity   \* how many unread bytes the queue can hold

VARIABLES
  queue,     \* the unread bytes, oldest first
  c,         \* the byte handed over last
  lost       \* how many bytes found the queue full

vars == <<queue, c, lost>>

Init ==
  /\ queue = <<>>
  /\ c \in Byte
  /\ lost = 0

(* A byte arrives and is queued, if there is room for it. *)
Accept(b) ==
  /\ Len(queue) < Capacity
  /\ queue' = Append(queue, b)
  /\ UNCHANGED <<c, lost>>

(* A byte arrives at a full queue and is lost. *)
Lose ==
  /\ Len(queue) = Capacity
  /\ lost' = lost + 1
  /\ UNCHANGED <<queue, c>>

(* The reader takes the oldest byte. *)
Take ==
  /\ queue # <<>>
  /\ c' = Head(queue)
  /\ queue' = Tail(queue)
  /\ UNCHANGED lost

Next ==
  \/ \E b \in Byte : Accept(b)
  \/ Lose
  \/ Take

Spec == Init /\ [][Next]_vars
=============================================================================
