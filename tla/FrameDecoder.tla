---------------------------- MODULE FrameDecoder ----------------------------
(***************************************************************************)
(* What the framer promises to its caller, told with the bytes of the line *)
(* and without its state machine.  A frame is SYNC SYNC LEN followed by    *)
(* LEN payload bytes.  The decoder remembers the bytes of the frame under  *)
(* way; a byte that cannot belong to a frame makes it forget them all, the *)
(* last payload byte turns them into a frame, and so does nothing else.    *)
(* Only a line that was quiet for more than TIMEOUT_TICKS makes it give up.*)
(*                                                                         *)
(* Framer implements this specification with four states and a buffer.     *)
(***************************************************************************)
EXTENDS Integers, Sequences

CONSTANTS
  Byte,            \* the values a byte can take
  CHAT_SYNC_BYTE,  \* starts a frame when sent twice
  CHAT_MAX_FRAME,  \* the longest payload
  TIMEOUT_TICKS    \* quiet ticks a partial frame survives

VARIABLES
  pending,         \* the bytes of the frame under way
  frame,           \* the payload to be taken, <<>> when there is none
  quiet            \* ticks since the last byte of the frame under way

vars == <<pending, frame, quiet>>

Lengths == Byte \cap 1..CHAT_MAX_FRAME

(* p starts as a frame does: two sync bytes, then a length. *)
HeaderFits(p) ==
  /\ \A i \in {1, 2} : i <= Len(p) => p[i] = CHAT_SYNC_BYTE
  /\ Len(p) >= 3 => p[3] \in Lengths

Complete(p) == HeaderFits(p) /\ Len(p) >= 3 /\ Len(p) = 3 + p[3]

Viable(p) == HeaderFits(p) /\ (Len(p) >= 3 => Len(p) < 3 + p[3])

Payload(p) == SubSeq(p, 4, Len(p))

Init ==
  /\ pending = <<>>
  /\ frame = <<>>
  /\ quiet = 0

(* A byte either completes a frame, or belongs to one, or breaks it. *)
Feed(b) ==
  LET p == Append(pending, b) IN
    /\ frame = <<>>
    /\ quiet' = 0
    /\ \/ /\ Complete(p)
          /\ pending' = <<>>
          /\ frame' = Payload(p)
       \/ /\ ~Complete(p)
          /\ pending' = IF Viable(p) THEN p ELSE <<>>
          /\ UNCHANGED frame

Wait ==
  /\ pending # <<>>
  /\ quiet < TIMEOUT_TICKS
  /\ quiet' = quiet + 1
  /\ UNCHANGED <<pending, frame>>

GiveUp ==
  /\ pending # <<>>
  /\ quiet >= TIMEOUT_TICKS
  /\ pending' = <<>>
  /\ quiet' = 0
  /\ UNCHANGED frame

Take ==
  /\ frame # <<>>
  /\ frame' = <<>>
  /\ UNCHANGED <<pending, quiet>>

Next ==
  \/ \E b \in Byte : Feed(b)
  \/ Wait
  \/ GiveUp
  \/ Take

Spec == Init /\ [][Next]_vars
=============================================================================
