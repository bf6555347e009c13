------------------------------ MODULE ChaCha20 ------------------------------
(***************************************************************************)
(* The key stream of src/src/chacha20.c, at its real width: chacha20_init,  *)
(* and chacha20_xor called one or more times, block by block.  A word of   *)
(* 32 bits is a pair of halves <<high, low>>, so that numbers stay small.  *)
(***************************************************************************)
EXTENDS Integers, Sequences, SequencesExt, Bitwise

CONSTANTS
  Jobs  \* what is enciphered: [key, nonce, counter, input, calls, expected],
        \* calls the lengths that the input is handed over in

BLOCK_BYTES == 64
Half == 65536

VARIABLES
  job,    \* the job of this behaviour
  state,  \* ctx->state: sixteen words
  working, \* chacha20_block's copy of the state, as far as its rounds have come
  turn,   \* quarter rounds done
  calls,  \* lengths of the calls of chacha20_xor to come
  len,    \* bytes the current call still has to do
  out     \* bytes written so far

vars == <<job, state, working, turn, calls, len, out>>

-----------------------------------------------------------------------------
(* Words. *)

load32_le(b, i) ==
  <<(b[i + 3] * 256) + b[i + 2], (b[i + 1] * 256) + b[i]>>

store32_le(w) ==
  <<w[2] % 256, w[2] \div 256, w[1] % 256, w[1] \div 256>>

Add(u, v) ==
  LET low == u[2] + v[2]
  IN <<(u[1] + v[1] + (low \div Half)) % Half, low % Half>>

XorWord(u, v) == <<u[1] ^^ v[1], u[2] ^^ v[2]>>

rotl32(w, n) ==
  LET kept == 2^(16 - n)
      part(a, b) == ((a % kept) * 2^n) + (b \div kept)
  IN <<part(w[1], w[2]), part(w[2], w[1])>>

-----------------------------------------------------------------------------
(* The block function. *)

(* One line of quarter_round: x += y, z ^= x, z rotated by n. *)
Mix(s, x, y, z, n) ==
  LET sum == Add(s[x], s[y])
  IN [s EXCEPT ![x] = sum, ![z] = rotl32(XorWord(@, sum), n)]

quarter_round(s, a, b, c, d) ==
  Mix(Mix(Mix(Mix(s, a, b, d, 16), c, d, b, 12), a, b, d, 8), c, d, b, 7)

(* The four columns, then the four diagonals. *)
DoubleRound ==
  << <<0, 4, 8, 12>>, <<1, 5, 9, 13>>, <<2, 6, 10, 14>>, <<3, 7, 11, 15>>,
     <<0, 5, 10, 15>>, <<1, 6, 11, 12>>, <<2, 7, 8, 13>>, <<3, 4, 9, 14>> >>

Rounds == 20

(* What chacha20_block puts out when its rounds have made x of start. *)
BlockBytes_WithoutStart(start, x) ==
  FlattenSeq([i \in 1..16 |-> store32_le(x[i - 1])])
BlockBytes(start, x) ==
  FlattenSeq([i \in 1..16 |-> store32_le(Add(x[i - 1], start[i - 1]))])

(* "expand 32-byte k". *)
Constants ==
  << <<24944, 30821>>, <<13088, 25710>>, <<31074, 11570>>, <<27424, 25972>> >>

chacha20_init(key, nonce, counter) ==
  [i \in 0..15 |-> CASE i < 4   -> Constants[i + 1]
                     [] i < 12  -> load32_le(key, 4 * (i - 4) + 1)
                     [] i = 12  -> counter
                     [] OTHER   -> load32_le(nonce, 4 * (i - 13) + 1)]

-----------------------------------------------------------------------------
Init ==
  /\ job \in Jobs
  /\ state = chacha20_init(job.key, job.nonce, job.counter)
  /\ working = state
  /\ turn = 0
  /\ calls = job.calls
  /\ len = 0
  /\ out = <<>>

Call ==
  /\ len = 0
  /\ calls # <<>>
  /\ len' = Head(calls)
  /\ calls' = Tail(calls)
  /\ UNCHANGED <<job, state, working, turn, out>>

(* A turn of chacha20_block's loop is eight of these. *)
QuarterRound ==
  LET q == DoubleRound[(turn % 8) + 1]
  IN /\ len > 0
     /\ turn < 4 * Rounds
     /\ working' = quarter_round(working, q[1], q[2], q[3], q[4])
     /\ turn' = turn + 1
     /\ UNCHANGED <<job, state, calls, len, out>>

(* A block of chacha20_xor: what is left of the block is thrown away. *)
NextCounter_Same == state[12]
NextCounter == Add(state[12], <<0, 1>>)
XorBlock ==
  LET take  == Min({len, BLOCK_BYTES})
      block == BlockBytes(state, working)
  IN /\ turn = 4 * Rounds
     /\ out' = out \o [i \in 1..take |-> job.input[Len(out) + i] ^^ block[i]]
     /\ state' = [state EXCEPT ![12] = NextCounter]
     /\ working' = state'
     /\ turn' = 0
     /\ len' = len - take
     /\ UNCHANGED <<job, calls>>

Next == Call \/ QuarterRound \/ XorBlock

Spec == Init /\ [][Next]_vars

-----------------------------------------------------------------------------
(* chacha20.c:4 claims RFC 8439: after every block, what has been written   *)
(* is what the RFC prints for this job.                                    *)
StreamIsRfc8439 == out = SubSeq(job.expected, 1, Len(out))
=============================================================================
