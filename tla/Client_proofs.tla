---------------------------- MODULE Client_proofs ----------------------------
(***************************************************************************)
(* Proofs about the Python client and the codec it shares with the board,  *)
(* for every width of the bytes, every set of chunks from the bridge and of *)
(* typed lines, and any number of either: frames are read back as they were *)
(* made, the two threads agree on when it is over, the framer implements   *)
(* the decoder of FrameDecoder, whole frames are displayed, and the board  *)
(* reads what the client sends.                                            *)
(***************************************************************************)
EXTENDS Client, Codec, CommonLemmas

-----------------------------------------------------------------------------
(* The widths that are powers of two. *)
LEMMA Widths ==
  /\ BYTE_BITS \in Nat \ {0}
  /\ BYTE_SIZE \in Nat \ {0, 1}
  /\ CRC_SIZE \in Nat \ {0, 1}
  /\ CTR_SIZE \in Nat \ {0, 1}
  /\ \A i \in 1..CTR_LEN : pow2[BYTE_BITS * (i - 1)] \in Nat \ {0}
<1>1. BYTE_BITS \in Nat \ {0} /\ CTR_LEN \in Nat \ {0}
  BY BytesAssumption, AeadAssumption
<1>2. 2 * BYTE_BITS \in Nat \ {0} /\ BYTE_BITS * CTR_LEN \in Nat \ {0}
  BY <1>1
<1>3. ASSUME NEW i \in 1..CTR_LEN PROVE pow2[BYTE_BITS * (i - 1)] \in Nat \ {0}
  <2>1. BYTE_BITS * (i - 1) \in Nat
    BY <1>1
  <2> QED
    BY <2>1, PowIs
<1> QED
  BY <1>1, <1>2, <1>3, PowGrows DEF BYTE_SIZE, CRC_SIZE, CTR_SIZE

-----------------------------------------------------------------------------
(* The CRC takes a turn for each bit of a byte, and a step for each byte. *)
LEMMA CrcBitIsNat ==
  ASSUME NEW crc \in Nat
  PROVE  CrcBit(crc) \in Nat
<1>1. 2 * crc \in Nat /\ (2 * crc) % CRC_SIZE \in Nat
  <2> HIDE DEF CRC_SIZE
  <2> QED
    BY Widths
<1>2. Xor((2 * crc) % CRC_SIZE, CRC_POLY) \in Nat
  <2>1. CRC_POLY \in Nat
    BY CodecAssumption
  <2> QED
    BY <1>1, <2>1, XorCancels
<1> QED
  BY <1>1, <1>2 DEF CrcBit

CrcTurns(turn, crc, byte) ==
  /\ turn[0] = Xor(crc, byte * BYTE_SIZE)
  /\ \A j \in 1..BYTE_BITS : turn[j] = CrcBit(turn[j - 1])

LEMMA CrcByteTakesTurns ==
  ASSUME NEW crc \in Nat, NEW byte \in Nat
  PROVE  \E turn : CrcTurns(turn, crc, byte) /\ CrcByte(crc, byte) = turn[BYTE_BITS]
<1> DEFINE first == Xor(crc, byte * BYTE_SIZE)
           Is(t) == t = [j \in 0..BYTE_BITS |-> IF j = 0 THEN first ELSE CrcBit(t[j - 1])]
           g == [q \in Nat \X Nat |-> CrcBit(q[2])]
           turn == CHOOSE t : Is(t)
<1>1. first \in Nat
  <2>1. byte * BYTE_SIZE \in Nat
    <3> HIDE DEF BYTE_SIZE
    <3> QED
      BY Widths
  <2> QED
    BY <2>1, XorCancels
<1>2. g \in [Nat \X Nat -> Nat]
  BY CrcBitIsNat
<1> HIDE DEF first
<1>3. \E t : Is(t)
  <2>1. PICK t \in [0..BYTE_BITS -> Nat] : Recurs(t, first, g, BYTE_BITS)
    <3> HIDE DEF g
    <3> QED
      BY Widths, <1>1, <1>2, RecursionTo
  <2>2. ASSUME NEW j \in 1..BYTE_BITS PROVE t[j] = CrcBit(t[j - 1])
    <3>1. t[j - 1] \in Nat /\ j \in Nat
      BY Widths, <2>1
    <3>2. t[j] = g[<<j, t[j - 1]>>]
      <4> HIDE DEF g
      <4> QED
        BY <2>1 DEF Recurs
    <3> QED
      BY <3>1, <3>2
  <2>3. t[0] = first
    BY <2>1 DEF Recurs
  <2>4. Is(t)
    BY <2>1, <2>2, <2>3
  <2> QED
    BY <2>4
<1>4. Is(turn)
  <2> HIDE DEF Is
  <2> QED
    BY <1>3
<1>5. CrcByte(crc, byte) = turn[BYTE_BITS]
  BY DEF CrcByte, first
<1> HIDE DEF turn
<1>6. turn[0] = first /\ \A j \in 1..BYTE_BITS : turn[j] = CrcBit(turn[j - 1])
  <2>1. ASSUME NEW j \in 0..BYTE_BITS
        PROVE  turn[j] = IF j = 0 THEN first ELSE CrcBit(turn[j - 1])
    BY <1>4
  <2>2. \A j \in 1..BYTE_BITS : j \in 0..BYTE_BITS /\ j # 0
    OBVIOUS
  <2>3. 0 \in 0..BYTE_BITS
    BY Widths
  <2> QED
    BY <2>1, <2>2, <2>3
<1> QED
  BY <1>5, <1>6 DEF CrcTurns, first

LEMMA CrcByteIsNat ==
  ASSUME NEW crc \in Nat, NEW byte \in Nat
  PROVE  CrcByte(crc, byte) \in Nat
<1>1. PICK turn : CrcTurns(turn, crc, byte) /\ CrcByte(crc, byte) = turn[BYTE_BITS]
  BY CrcByteTakesTurns
<1> DEFINE T == {j \in Nat : j <= BYTE_BITS => turn[j] \in Nat}
<1>2. 0 \in T
  <2>1. byte * BYTE_SIZE \in Nat
    <3> HIDE DEF BYTE_SIZE
    <3> QED
      BY Widths
  <2> QED
    BY <1>1, <2>1, XorCancels DEF CrcTurns
<1>3. ASSUME NEW j \in Nat, j \in T PROVE j + 1 \in T
  <2> SUFFICES ASSUME j + 1 <= BYTE_BITS PROVE turn[j + 1] \in Nat
    OBVIOUS
  <2>1. turn[j] \in Nat
    BY Widths, <1>3
  <2>2. j + 1 \in 1..BYTE_BITS /\ (j + 1) - 1 = j
    OBVIOUS
  <2>3. turn[j + 1] = CrcBit(turn[j])
    BY <1>1, <2>2 DEF CrcTurns
  <2> QED
    BY <2>1, <2>3, CrcBitIsNat
<1>4. Nat \subseteq T
  <2> HIDE DEF T
  <2> QED
    BY <1>2, <1>3, InductionOnNat
<1> QED
  BY Widths, <1>1, <1>4

CrcSteps(crc, bytes) ==
  /\ crc[0] = CRC_SIZE - 1
  /\ \A i \in 1..Len(bytes) : crc[i] = CrcByte(crc[i - 1], bytes[i])

LEMMA CrcTakesSteps ==
  ASSUME NEW bytes \in Seq(Nat)
  PROVE  \E crc : CrcSteps(crc, bytes) /\ crc16_ccitt(bytes) = crc[Len(bytes)]
<1> DEFINE first == CRC_SIZE - 1
           Is(t) == t = [i \in 0..Len(bytes) |->
                           IF i = 0 THEN first ELSE CrcByte(t[i - 1], bytes[i])]
           g == [q \in Nat \X Nat |->
                   IF q[1] \in 1..Len(bytes) THEN CrcByte(q[2], bytes[q[1]]) ELSE 0]
           crc == CHOOSE t : Is(t)
           n == Len(bytes)
<1>1. first \in Nat /\ n \in Nat
  <2> HIDE DEF CRC_SIZE
  <2> QED
    BY Widths
<1>2. g \in [Nat \X Nat -> Nat]
  <2>1. ASSUME NEW i \in Nat, NEW c \in Nat
        PROVE  (IF i \in 1..Len(bytes) THEN CrcByte(c, bytes[i]) ELSE 0) \in Nat
    <3>1. CASE i \in 1..Len(bytes)
      <4>1. bytes[i] \in Nat
        BY <3>1
      <4>2. CrcByte(c, bytes[i]) \in Nat
        BY <4>1, CrcByteIsNat
      <4> QED
        BY <3>1, <4>2
    <3> QED
      BY <3>1
  <2> QED
    BY <2>1
<1>3. crc16_ccitt(bytes) = crc[n]
  BY DEF crc16_ccitt, first
<1> HIDE DEF first
<1>4. \E t : Is(t)
  <2>1. PICK t \in [0..n -> Nat] : Recurs(t, first, g, n)
    <3> HIDE DEF g, n
    <3> QED
      BY <1>1, <1>2, RecursionTo
  <2>2. ASSUME NEW i \in 1..n PROVE t[i] = CrcByte(t[i - 1], bytes[i])
    <3>1. t[i - 1] \in Nat /\ i \in Nat
      <4> HIDE DEF n
      <4> QED
        BY <1>1, <2>1
    <3>2. t[i] = g[<<i, t[i - 1]>>]
      <4> HIDE DEF g, n
      <4> QED
        BY <2>1 DEF Recurs
    <3> QED
      BY <3>1, <3>2
  <2>3. t[0] = first
    BY <2>1 DEF Recurs
  <2>4. Is(t)
    BY <2>1, <2>2, <2>3
  <2> QED
    BY <2>4
<1>5. Is(crc)
  <2> HIDE DEF Is
  <2> QED
    BY <1>4
<1> HIDE DEF crc
<1>6. crc[0] = first /\ \A i \in 1..n : crc[i] = CrcByte(crc[i - 1], bytes[i])
  BY <1>5
<1> HIDE DEF Is
<1> QED
  BY <1>3, <1>6 DEF CrcSteps, first

LEMMA CrcIsNat ==
  ASSUME NEW bytes \in Seq(Nat)
  PROVE  crc16_ccitt(bytes) \in Nat
<1> DEFINE n == Len(bytes)
<1>1. PICK crc : CrcSteps(crc, bytes) /\ crc16_ccitt(bytes) = crc[n]
  BY CrcTakesSteps
<1> DEFINE T == {i \in Nat : i <= n => crc[i] \in Nat}
<1>2. n \in Nat
  OBVIOUS
<1>3. 0 \in T
  <2> HIDE DEF CRC_SIZE
  <2> QED
    BY <1>1, Widths DEF CrcSteps
<1>4. ASSUME NEW i \in Nat, i \in T PROVE i + 1 \in T
  <2> SUFFICES ASSUME i + 1 <= n PROVE crc[i + 1] \in Nat
    OBVIOUS
  <2>1. crc[i] \in Nat
    BY <1>4, <1>2
  <2>2. i + 1 \in 1..n /\ (i + 1) - 1 = i /\ bytes[i + 1] \in Nat
    BY <1>2
  <2>3. crc[i + 1] = CrcByte(crc[i], bytes[i + 1])
    BY <1>1, <2>2 DEF CrcSteps
  <2> QED
    BY <2>1, <2>2, <2>3, CrcByteIsNat
<1>5. Nat \subseteq T
  <2> HIDE DEF T, n
  <2> QED
    BY <1>3, <1>4, InductionOnNat
<1> QED
  BY <1>1, <1>2, <1>5

-----------------------------------------------------------------------------
(* What the CRC detects.  It stays within its width, and no turn is lost:   *)
(* since the polynomial is odd, the result of a turn tells if a one fell   *)
(* out, so a turn maps no two values to the same, and neither does a byte. *)
Crcs == 0..(CRC_SIZE - 1)

LEMMA CrcBitInjective ==
  /\ \A c \in Crcs : CrcBit(c) \in Crcs
  /\ \A c, d \in Crcs : CrcBit(c) = CrcBit(d) => c = d
<1> DEFINE z == pow2[2 * BYTE_BITS - 1]
           poly == CRC_POLY
           fed(c) == Xor((2 * c) % CRC_SIZE, poly)
<1>1. z \in Nat \ {0} /\ CRC_SIZE = 2 * z
  <2>1. 2 * BYTE_BITS - 1 \in Nat /\ (2 * BYTE_BITS - 1) + 1 = 2 * BYTE_BITS
    BY Widths
  <2> QED
    BY <2>1, PowIs DEF CRC_SIZE
<1>2. poly \in Crcs /\ poly % 2 = 1
  BY CodecAssumption DEF Crcs
<1> HIDE DEF z, poly
<1>3. ASSUME NEW c \in Crcs, c >= z
      PROVE  (2 * c) % CRC_SIZE = 2 * (c - z) /\ 2 * (c - z) \in Crcs
  <2>1. 2 * c = CRC_SIZE * 1 + 2 * (c - z) /\ 2 * (c - z) \in 0..(CRC_SIZE - 1)
    BY <1>1, <1>3 DEF Crcs
  <2>2. CRC_SIZE \in Nat \ {0} /\ 1 \in Int
    BY Widths
  <2>3. (CRC_SIZE * 1 + 2 * (c - z)) % CRC_SIZE = 2 * (c - z)
    BY <2>1, <2>2, DivModUnique, Zenon
  <2> QED
    BY <2>1, <2>3 DEF Crcs
<1>4. ASSUME NEW c \in Crcs, c >= z
      PROVE  CrcBit(c) = Xor(2 * (c - z), poly) /\ CrcBit(c) \in Crcs /\ CrcBit(c) % 2 = 1
  <2>1. 2 * c >= CRC_SIZE /\ 2 * (c - z) \in Nat /\ poly \in Nat
    BY <1>1, <1>2, <1>4 DEF Crcs
  <2>2. CrcBit(c) = Xor(2 * (c - z), poly)
    BY <1>3, <1>4, <2>1 DEF CrcBit, poly
  <2>3. 2 * (c - z) \in Crcs
    BY <1>3, <1>4
  <2>4. Xor(2 * (c - z), poly) \in Crcs
    <3>1. 2 * BYTE_BITS \in Nat
      BY Widths
    <3> QED
      BY <1>2, <2>3, <3>1, XorBelow DEF Crcs, CRC_SIZE
  <2>5. Xor(2 * (c - z), poly) % 2 = (2 * (c - z) + poly) % 2
    BY <2>1, XorBounds
  <2>6. (2 * (c - z) + poly) % 2 = 1
    BY <1>1, <1>2, <1>4, <2>1 DEF Crcs
  <2> QED
    BY <2>2, <2>4, <2>5, <2>6
<1>5. ASSUME NEW c \in Crcs, c < z
      PROVE  CrcBit(c) = 2 * c /\ CrcBit(c) \in Crcs /\ CrcBit(c) % 2 = 0
  BY <1>1, <1>5 DEF Crcs, CrcBit
<1>6. ASSUME NEW c \in Crcs PROVE c >= z \/ c < z
  BY <1>1 DEF Crcs
<1>7. ASSUME NEW c \in Crcs, NEW d \in Crcs, c >= z, d >= z, CrcBit(c) = CrcBit(d)
      PROVE  c = d
  <2>1. Xor(2 * (c - z), poly) = Xor(2 * (d - z), poly)
    BY <1>4, <1>7
  <2>2. 2 * (c - z) \in Nat /\ 2 * (d - z) \in Nat /\ poly \in Nat
    BY <1>1, <1>2, <1>7 DEF Crcs
  <2>3. 2 * (c - z) = 2 * (d - z)
    BY <2>1, <2>2, XorInjective
  <2> QED
    BY <1>1, <2>3 DEF Crcs
<1>8. ASSUME NEW c \in Crcs, NEW d \in Crcs, c < z, d < z, CrcBit(c) = CrcBit(d)
      PROVE  c = d
  BY <1>5, <1>8 DEF Crcs
<1>9. ASSUME NEW c \in Crcs, NEW d \in Crcs, CrcBit(c) = CrcBit(d) PROVE c = d
  <2>1. (c >= z /\ d >= z) \/ (c < z /\ d < z)
    BY <1>4, <1>5, <1>6, <1>9
  <2> QED
    BY <1>7, <1>8, <1>9, <2>1
<1> QED
  BY <1>4, <1>5, <1>6, <1>9

LEMMA CrcSizeIs == CRC_SIZE = BYTE_SIZE * BYTE_SIZE
<1> DEFINE w == BYTE_BITS
<1>1. w \in Nat /\ w + w = 2 * w
  BY Widths
<1>2. pow2[w + w] = pow2[w] * pow2[w]
  <2> HIDE DEF w
  <2> QED
    BY <1>1, PowAdds
<1> QED
  BY <1>1, <1>2 DEF CRC_SIZE, BYTE_SIZE

LEMMA CrcByteInjective ==
  ASSUME NEW c \in Crcs, NEW d \in Crcs, NEW b \in Byte, NEW e \in Byte
  PROVE  /\ CrcByte(c, b) \in Crcs /\ CrcByte(d, e) \in Crcs
         /\ CrcByte(c, b) = CrcByte(d, e) => (c = d <=> b = e)
<1> DEFINE z == BYTE_SIZE
           first(r, a) == Xor(r, a * z)
<1>1. z \in Nat \ {0, 1} /\ CRC_SIZE = z * z /\ 2 * BYTE_BITS \in Nat
  BY CrcSizeIs, Widths
<1>2. ASSUME NEW a \in Byte PROVE a * z \in Crcs
  <2>1. a \in 0..(z - 1)
    BY DEF Byte
  <2> HIDE DEF z
  <2>2. a * z \in Nat /\ a * z <= z * z - z
    BY <1>1, <2>1
  <2> DEFINE y == z * z
  <2>3. y \in Nat
    BY <1>1
  <2> HIDE DEF y
  <2> QED
    BY <1>1, <2>2, <2>3 DEF Crcs, y
<1>3. ASSUME NEW r \in Crcs, NEW a \in Byte PROVE first(r, a) \in Crcs
  <2>1. a * z \in Crcs
    BY <1>2
  <2> HIDE DEF z
  <2> QED
    BY <1>1, <2>1, XorBelow DEF Crcs, CRC_SIZE
<1>4. ASSUME first(c, b) = first(d, e) PROVE c = d <=> b = e
  <2>1. b * z \in Nat /\ e * z \in Nat /\ c \in Nat /\ d \in Nat
    BY <1>2 DEF Crcs
  <2>2. c = d => b * z = e * z
    BY <1>4, <2>1, XorInjective
  <2>3. b * z = e * z => c = d
    BY <1>4, <2>1, XorInjective
  <2>4. b * z = e * z => b = e
    <3>1. b \in Nat /\ e \in Nat
      BY Widths DEF Byte
    <3> HIDE DEF z
    <3> QED
      BY <1>1, <3>1
  <2> QED
    BY <2>2, <2>3, <2>4
<1> HIDE DEF z, first
<1>5. /\ CrcByte(c, b) \in Crcs /\ CrcByte(d, e) \in Crcs
      /\ CrcByte(c, b) = CrcByte(d, e) => first(c, b) = first(d, e)
  <2>1. c \in Nat /\ d \in Nat /\ b \in Nat /\ e \in Nat
    BY Widths DEF Crcs, Byte
  <2>2. PICK t : CrcTurns(t, c, b) /\ CrcByte(c, b) = t[BYTE_BITS]
    BY <2>1, CrcByteTakesTurns
  <2>3. PICK u : CrcTurns(u, d, e) /\ CrcByte(d, e) = u[BYTE_BITS]
    BY <2>1, CrcByteTakesTurns
  <2> DEFINE Good(j) == /\ t[j] \in Crcs /\ u[j] \in Crcs
                        /\ t[j] = u[j] => first(c, b) = first(d, e)
             T == {j \in Nat : j <= BYTE_BITS => Good(j)}
  <2>4. Good(0)
    <3>1. t[0] = first(c, b) /\ u[0] = first(d, e)
      BY <2>2, <2>3 DEF CrcTurns, first, z
    <3> QED
      BY <1>3, <3>1
  <2>5. ASSUME NEW j \in Nat, Good(j), j + 1 <= BYTE_BITS PROVE Good(j + 1)
    <3>1. j + 1 \in 1..BYTE_BITS /\ (j + 1) - 1 = j
      BY <2>5, Widths
    <3>2. t[j + 1] = CrcBit(t[j]) /\ u[j + 1] = CrcBit(u[j])
      BY <2>2, <2>3, <3>1 DEF CrcTurns
    <3> QED
      BY <2>5, <3>2, CrcBitInjective
  <2> HIDE DEF Good
  <2>6. 0 \in T /\ \A j \in Nat : j \in T => j + 1 \in T
    BY <2>4, <2>5, Widths
  <2>7. BYTE_BITS \in T
    <3> HIDE DEF T
    <3> QED
      BY <2>6, InductionOnNat, Widths
  <2>8. Good(BYTE_BITS)
    BY <2>7, Widths
  <2> QED
    BY <2>2, <2>3, <2>8 DEF Good
<1> QED
  BY <1>4, <1>5

(* Two messages of one length that differ in one byte have different CRCs. *)
LEMMA CrcTellsApart ==
  ASSUME NEW x \in Seq(Byte), NEW y \in Seq(Byte), Len(x) = Len(y)
  PROVE  /\ crc16_ccitt(x) \in Crcs
         /\ \A k \in 1..Len(x) :
              x[k] # y[k] /\ (\A i \in 1..Len(x) : i # k => x[i] = y[i])
                => crc16_ccitt(x) # crc16_ccitt(y)
<1> DEFINE n == Len(x)
<1>1. x \in Seq(Nat) /\ y \in Seq(Nat) /\ n \in Nat
  <2>1. Byte \subseteq Nat
    BY Widths DEF Byte
  <2>2. x \in Seq(Nat)
    BY ONLY <2>1, MoreValues, x \in Seq(Byte)
  <2>3. y \in Seq(Nat)
    BY ONLY <2>1, MoreValues, y \in Seq(Byte)
  <2> QED
    BY <2>2, <2>3
<1>2. PICK c : CrcSteps(c, x) /\ crc16_ccitt(x) = c[n]
  BY <1>1, CrcTakesSteps
<1>3. PICK d : CrcSteps(d, y) /\ crc16_ccitt(y) = d[n]
  BY <1>1, CrcTakesSteps
<1>4. c[0] = CRC_SIZE - 1 /\ d[0] = CRC_SIZE - 1 /\ CRC_SIZE - 1 \in Crcs
  BY <1>2, <1>3, Widths DEF CrcSteps, Crcs
<1>5. ASSUME NEW i \in Nat, i + 1 <= n
      PROVE  /\ c[i + 1] = CrcByte(c[i], x[i + 1]) /\ d[i + 1] = CrcByte(d[i], y[i + 1])
             /\ x[i + 1] \in Byte /\ y[i + 1] \in Byte
  <2>1. i + 1 \in 1..n /\ (i + 1) - 1 = i /\ i + 1 \in 1..Len(y)
    BY <1>1, <1>5
  <2> QED
    BY <1>2, <1>3, <2>1 DEF CrcSteps
<1> HIDE DEF n
<1>6. ASSUME NEW k \in Nat
      PROVE  /\ c[n] \in Crcs
             /\ k \in 1..n /\ x[k] # y[k] /\ (\A i \in 1..n : i # k => x[i] = y[i])
                  => c[n] # d[n]
  <2> DEFINE One == k \in 1..n /\ x[k] # y[k] /\ \A i \in 1..n : i # k => x[i] = y[i]
             Good(i) == c[i] \in Crcs /\ d[i] \in Crcs /\ (One => (c[i] = d[i] <=> i < k))
             T == {i \in Nat : i <= n => Good(i)}
  <2>1. Good(0)
    BY <1>4
  <2>2. ASSUME NEW i \in Nat, Good(i), i + 1 <= n PROVE Good(i + 1)
    <3>1. PICK b, e : b = x[i + 1] /\ e = y[i + 1]
      OBVIOUS
    <3>2. PICK u, v : u = c[i] /\ v = d[i]
      OBVIOUS
    <3>3. b \in Byte /\ e \in Byte /\ u \in Crcs /\ v \in Crcs
      BY <1>5, <2>2, <3>1, <3>2
    <3>4. c[i + 1] = CrcByte(u, b) /\ d[i + 1] = CrcByte(v, e)
      BY <1>5, <2>2, <3>1, <3>2
    <3>5. /\ CrcByte(u, b) \in Crcs /\ CrcByte(v, e) \in Crcs
          /\ CrcByte(u, b) = CrcByte(v, e) => (u = v <=> b = e)
      BY <3>3, CrcByteInjective
    <3>6. ASSUME One PROVE c[i + 1] = d[i + 1] <=> i + 1 < k
      <4>1. b = e <=> i + 1 # k
        <5>1. i + 1 \in 1..n
          BY <1>1, <2>2
        <5> QED
          BY <3>1, <3>6, <5>1
      <4>2. u = v <=> i < k
        BY <2>2, <3>2, <3>6
      <4>3. k \in Nat /\ i \in Nat
        OBVIOUS
      <4> HIDE DEF One
      <4> QED
        BY <3>4, <3>5, <4>1, <4>2, <4>3
    <3> QED
      BY <3>4, <3>5, <3>6
  <2> HIDE DEF Good
  <2>3. 0 \in T /\ \A i \in Nat : i \in T => i + 1 \in T
    BY <1>1, <2>1, <2>2
  <2>4. n \in T
    <3> HIDE DEF T
    <3> QED
      BY <1>1, <2>3, InductionOnNat
  <2>5. Good(n)
    BY <1>1, <2>4
  <2>6. One => ~(n < k)
    BY <1>1
  <2> QED
    BY <2>5, <2>6 DEF Good
<1>7. \A k \in 1..n : k \in Nat
  OBVIOUS
<1> QED
  BY <1>2, <1>3, <1>6, <1>7 DEF n

-----------------------------------------------------------------------------
(* The bytes of an input and those that take their place, and back. *)
WireBytes(V) == V \cup {CHAT_SYNC_BYTE, CHAT_ESCAPE_BYTE, 0, 1}
Results(W) == [len : Int, out : Seq(W)]

(* What the C functions return when the bytes they write are of W. *)
LEMMA ResultsAre ==
  ASSUME NEW W
  PROVE  /\ Failure \in Results(W)
         /\ \A t \in Seq(W) : Success(t) \in Results(W)
BY DEF Failure, Success, Results

LEMMA EscapedIs ==
  ASSUME NEW V, NEW b \in V
  PROVE  Escaped(b) \in Seq(WireBytes(V))
<1> DEFINE W == WireBytes(V)
<1>1. b \in W /\ CHAT_SYNC_BYTE \in W /\ CHAT_ESCAPE_BYTE \in W /\ 0 \in W /\ 1 \in W
  BY DEF WireBytes
<1> HIDE DEF W
<1>2. Escaped(b) \in Seq(W)
  BY <1>1 DEF Escaped
<1> QED
  BY <1>2 DEF W

LEMMA StuffReturns ==
  ASSUME NEW V, NEW r \in Results(WireBytes(V)), NEW b \in V, NEW max_output
  PROVE  Stuff(r, b, max_output) \in Results(WireBytes(V))
<1>1. r.out \o Escaped(b) \in Seq(WireBytes(V))
  <2>1. r.out \in Seq(WireBytes(V)) /\ Escaped(b) \in Seq(WireBytes(V))
    BY EscapedIs DEF Results
  <2> QED
    BY <2>1
<1> QED
  BY <1>1, ResultsAre DEF Stuff

(* r[i] is what byte_stuff has made of the first i bytes. *)
StuffSteps(r, input, max_output) ==
  /\ r[0] = Success(<<>>)
  /\ \A i \in 1..Len(input) : r[i] = Stuff(r[i - 1], input[i], max_output)

(* byte_stuff takes these steps, one for each byte. *)
LEMMA StuffTakesSteps ==
  ASSUME NEW V, NEW input \in Seq(V), NEW max_output
  PROVE  \E r : /\ StuffSteps(r, input, max_output)
                /\ byte_stuff(input, max_output) = r[Len(input)]
<1> DEFINE Is(t) == t = [i \in 0..Len(input) |->
                           IF i = 0 THEN Success(<<>>) ELSE Stuff(t[i - 1], input[i], max_output)]
           S == Results(WireBytes(V))
           a == Success(<<>>)
           g == [q \in Nat \X S |->
                   IF q[1] \in 1..Len(input) THEN Stuff(q[2], input[q[1]], max_output) ELSE a]
           n == Len(input)
           r == CHOOSE t : Is(t)
<1>1. n \in Nat /\ a \in S
  <2>1. <<>> \in Seq(WireBytes(V))
    OBVIOUS
  <2>2. a \in S
    BY <2>1, ResultsAre
  <2> HIDE DEF a, S
  <2> QED
    BY <2>2
<1>2. byte_stuff(input, max_output) = r[n]
  BY DEF byte_stuff
<1>3. g \in [Nat \X S -> S]
  <2> HIDE DEF S, a
  <2>1. ASSUME NEW i \in Nat, NEW c \in S
        PROVE  (IF i \in 1..Len(input) THEN Stuff(c, input[i], max_output) ELSE a) \in S
    <3>1. CASE i \in 1..Len(input)
      <4>1. input[i] \in V
        BY <3>1
      <4>2. Stuff(c, input[i], max_output) \in S
        BY <4>1, StuffReturns DEF S
      <4> QED
        BY <3>1, <4>2
    <3> QED
      BY <1>1, <3>1
  <2> QED
    BY <2>1
<1>4. \E t : Is(t)
  <2> HIDE DEF S
  <2>1. PICK t \in [0..n -> S] : Recurs(t, a, g, n)
    <3> HIDE DEF g, n, a
    <3> QED
      BY <1>1, <1>3, RecursionTo
  <2>2. ASSUME NEW i \in 1..n PROVE t[i] = Stuff(t[i - 1], input[i], max_output)
    <3>1. t[i - 1] \in S /\ i \in Nat
      <4> HIDE DEF n
      <4> QED
        BY <1>1, <2>1
    <3>2. t[i] = g[<<i, t[i - 1]>>]
      <4> HIDE DEF g, n, a
      <4> QED
        BY <2>1 DEF Recurs
    <3> QED
      BY <3>1, <3>2
  <2>3. t[0] = Success(<<>>)
    BY <2>1 DEF Recurs
  <2>4. Is(t)
    BY <2>1, <2>2, <2>3
  <2> QED
    BY <2>4
<1>5. Is(r)
  <2> HIDE DEF Is
  <2> QED
    BY <1>4
<1> HIDE DEF r, a
<1>6. StuffSteps(r, input, max_output)
  <2>1. ASSUME NEW i \in 0..n
        PROVE  r[i] = IF i = 0 THEN Success(<<>>) ELSE Stuff(r[i - 1], input[i], max_output)
    BY <1>5
  <2>2. (\A i \in 1..n : i \in 0..n /\ i # 0) /\ 0 \in 0..n
    BY <1>1
  <2> HIDE DEF Is
  <2> QED
    BY <2>1, <2>2 DEF StuffSteps
<1> QED
  BY <1>2, <1>6

-----------------------------------------------------------------------------
(* The same of byte_unstuff, which also knows if it has seen an escape. *)
States(W) == [escape : BOOLEAN, r : Results(W)]

UnstuffSteps(s, input, max_output) ==
  /\ s[0] = [escape |-> FALSE, r |-> Success(<<>>)]
  /\ \A i \in 1..Len(input) : s[i] = Unstuff(s[i - 1], input[i], max_output)

LEMMA UnstuffReturns ==
  ASSUME NEW V, NEW s \in States(WireBytes(V)), NEW b \in WireBytes(V), NEW max_output
  PROVE  Unstuff(s, b, max_output) \in States(WireBytes(V))
<1> DEFINE W == WireBytes(V)
           out == s.r.out \o IF s.escape THEN Unescaped(b).out ELSE <<b>>
<1>1. s.r \in Results(W) /\ s.r.out \in Seq(W)
  BY DEF States, Results
<1>2. Unescaped(b).out \in Seq(W)
  <2>1. CHAT_SYNC_BYTE \in W /\ CHAT_ESCAPE_BYTE \in W
    BY DEF WireBytes
  <2> HIDE DEF W
  <2> QED
    BY <2>1 DEF Unescaped, Success, Failure
<1>3. out \in Seq(W)
  <2> HIDE DEF W
  <2>1. (IF s.escape THEN Unescaped(b).out ELSE <<b>>) \in Seq(W)
    BY <1>2 DEF W
  <2> QED
    BY <1>1, <2>1
<1>4. Success(out) \in Results(W) /\ Failure \in Results(W)
  BY <1>3, ResultsAre
<1>5. \/ Unstuff(s, b, max_output) = [escape |-> FALSE, r |-> Failure]
      \/ Unstuff(s, b, max_output) = [escape |-> TRUE, r |-> s.r]
      \/ Unstuff(s, b, max_output) = [escape |-> FALSE, r |-> Success(out)]
  BY DEF Unstuff
<1>6. ASSUME NEW x \in Results(W)
      PROVE  [escape |-> FALSE, r |-> x] \in States(W) /\ [escape |-> TRUE, r |-> x] \in States(W)
  BY DEF States
<1> HIDE DEF W, out
<1>7. Unstuff(s, b, max_output) \in States(W)
  BY <1>1, <1>4, <1>5, <1>6
<1> QED
  BY <1>7 DEF W

(* byte_unstuff takes these steps, and refuses an escape at the end. *)
LEMMA UnstuffTakesSteps ==
  ASSUME NEW V, NEW input \in Seq(WireBytes(V)), NEW max_output
  PROVE  \E s : /\ UnstuffSteps(s, input, max_output)
                /\ byte_unstuff(input, max_output) =
                     IF s[Len(input)].escape THEN Failure ELSE s[Len(input)].r
<1> DEFINE start == [escape |-> FALSE, r |-> Success(<<>>)]
           Is(t) == t = [i \in 0..Len(input) |->
                           IF i = 0 THEN start ELSE Unstuff(t[i - 1], input[i], max_output)]
           S == States(WireBytes(V))
           g == [q \in Nat \X S |->
                   IF q[1] \in 1..Len(input) THEN Unstuff(q[2], input[q[1]], max_output)
                     ELSE start]
           n == Len(input)
           s == CHOOSE t : Is(t)
<1>1. n \in Nat /\ start \in S
  <2>1. <<>> \in Seq(WireBytes(V))
    OBVIOUS
  <2>2. Success(<<>>) \in Results(WireBytes(V))
    BY <2>1, ResultsAre
  <2> QED
    BY <2>2 DEF States
<1>2. byte_unstuff(input, max_output) = IF s[n].escape THEN Failure ELSE s[n].r
  BY DEF byte_unstuff
<1>3. g \in [Nat \X S -> S]
  <2> HIDE DEF S, start
  <2>1. ASSUME NEW i \in Nat, NEW c \in S
        PROVE  (IF i \in 1..Len(input) THEN Unstuff(c, input[i], max_output) ELSE start) \in S
    <3>1. CASE i \in 1..Len(input)
      <4>1. input[i] \in WireBytes(V)
        BY <3>1
      <4>2. Unstuff(c, input[i], max_output) \in S
        BY <4>1, UnstuffReturns DEF S
      <4> QED
        BY <3>1, <4>2
    <3> QED
      BY <1>1, <3>1
  <2> QED
    BY <2>1
<1>4. \E t : Is(t)
  <2> HIDE DEF S, start
  <2>1. PICK t \in [0..n -> S] : Recurs(t, start, g, n)
    <3> HIDE DEF g, n
    <3> QED
      BY <1>1, <1>3, RecursionTo
  <2>2. ASSUME NEW i \in 1..n PROVE t[i] = Unstuff(t[i - 1], input[i], max_output)
    <3>1. t[i - 1] \in S /\ i \in Nat
      <4> HIDE DEF n
      <4> QED
        BY <1>1, <2>1
    <3>2. t[i] = g[<<i, t[i - 1]>>]
      <4> HIDE DEF g, n
      <4> QED
        BY <2>1 DEF Recurs
    <3> QED
      BY <3>1, <3>2
  <2>3. t[0] = start
    BY <2>1 DEF Recurs
  <2>4. Is(t)
    BY <2>1, <2>2, <2>3
  <2> QED
    BY <2>4
<1>5. Is(s)
  <2> HIDE DEF Is
  <2> QED
    BY <1>4
<1> HIDE DEF s
<1>6. UnstuffSteps(s, input, max_output)
  <2>1. ASSUME NEW i \in 0..n
        PROVE  s[i] = IF i = 0 THEN start ELSE Unstuff(s[i - 1], input[i], max_output)
    <3> HIDE DEF start
    <3> QED
      BY <1>5
  <2>2. (\A i \in 1..n : i \in 0..n /\ i # 0) /\ 0 \in 0..n
    BY <1>1
  <2> HIDE DEF Is
  <2> QED
    BY <2>1, <2>2 DEF UnstuffSteps
<1> QED
  BY <1>2, <1>6

-----------------------------------------------------------------------------
(* What byte_unstuff makes of a byte, of an escape and of its code, when it *)
(* has read t: between two bytes of the message, or inside an escape.      *)
Between(t) == [escape |-> FALSE, r |-> Success(t)]
Inside(t) == [escape |-> TRUE, r |-> Success(t)]

LEMMA ReadPlain ==
  ASSUME NEW V, NEW t \in Seq(V), NEW max_output \in Int, Len(t) < max_output, NEW b,
         b # CHAT_ESCAPE_BYTE
  PROVE  Unstuff(Between(t), b, max_output) = Between(t \o <<b>>)
<1>1. Len(t) \in Nat
  OBVIOUS
<1> DEFINE n == Len(t)
<1>2. Success(t).len = n /\ Success(t).out = t
  BY DEF Success
<1>3. ~ Refused(Between(t), b, max_output)
  <2> HIDE DEF n
  <2> QED
    BY <1>1, <1>2 DEF Refused, Between, n
<1> QED
  BY <1>2, <1>3 DEF Unstuff, Between

LEMMA ReadEscape ==
  ASSUME NEW V, NEW t \in Seq(V), NEW max_output \in Int, Len(t) < max_output
  PROVE  Unstuff(Between(t), CHAT_ESCAPE_BYTE, max_output) = Inside(t)
<1>1. Len(t) \in Nat
  OBVIOUS
<1> DEFINE n == Len(t)
<1>2. Success(t).len = n
  BY DEF Success
<1>3. ~ Refused(Between(t), CHAT_ESCAPE_BYTE, max_output)
  <2> HIDE DEF n
  <2> QED
    BY <1>1, <1>2 DEF Refused, Between, n
<1> QED
  BY <1>3 DEF Unstuff, Between, Inside

LEMMA ReadCode ==
  ASSUME NEW V, NEW t \in Seq(V), NEW max_output \in Int
  PROVE  /\ Unstuff(Inside(t), 0, max_output) = Between(t \o <<CHAT_SYNC_BYTE>>)
         /\ Unstuff(Inside(t), 1, max_output) = Between(t \o <<CHAT_ESCAPE_BYTE>>)
<1>1. Len(t) \in Nat
  OBVIOUS
<1> DEFINE n == Len(t)
<1>2. Success(t).len = n /\ Success(t).out = t
  BY DEF Success
<1>3. /\ Unescaped(0).len # -1 /\ Unescaped(0).out = <<CHAT_SYNC_BYTE>>
      /\ Unescaped(1).len # -1 /\ Unescaped(1).out = <<CHAT_ESCAPE_BYTE>>
  BY DEF Unescaped, Success
<1>4. ~ Refused(Inside(t), 0, max_output) /\ ~ Refused(Inside(t), 1, max_output)
  <2> HIDE DEF n
  <2> QED
    BY <1>1, <1>2, <1>3 DEF Refused, Inside, n
<1> QED
  BY <1>2, <1>3, <1>4 DEF Unstuff, Between, Inside

LEMMA EscapedAre ==
  /\ Escaped(CHAT_SYNC_BYTE) = <<CHAT_ESCAPE_BYTE, 0>>
  /\ Escaped(CHAT_ESCAPE_BYTE) = <<CHAT_ESCAPE_BYTE, 1>>
  /\ \A b : b # CHAT_SYNC_BYTE /\ b # CHAT_ESCAPE_BYTE => Escaped(b) = <<b>>
<1>1. CHAT_SYNC_BYTE # CHAT_ESCAPE_BYTE
  BY CodecAssumption
<1> QED
  BY <1>1 DEF Escaped

(* w has the bytes of e behind its first k. *)
HasAt(w, k, e) ==
  k + Len(e) <= Len(w) /\ \A j \in 1..Len(e) : w[k + j] = e[j]

(* Unstuffing reads the bytes that stand for b as b. *)
LEMMA ReadEscaped ==
  ASSUME NEW V, NEW t \in Seq(V), NEW max_output \in Int, Len(t) < max_output,
         NEW b, NEW W, NEW w \in Seq(W), NEW s, UnstuffSteps(s, w, max_output),
         NEW k \in Nat, s[k] = Between(t), HasAt(w, k, Escaped(b))
  PROVE  s[k + Len(Escaped(b))] = Between(t \o <<b>>)
<1> DEFINE l == Len(w)
<1>0. /\ k + Len(Escaped(b)) <= l
      /\ \A j \in 1..Len(Escaped(b)) : w[k + j] = Escaped(b)[j]
  BY DEF HasAt
<1>1. l \in Nat
  OBVIOUS
<1>2. \A i \in 1..l : s[i] = Unstuff(s[i - 1], w[i], max_output)
  BY DEF UnstuffSteps
<1>3. ASSUME NEW c, Escaped(b) = <<CHAT_ESCAPE_BYTE, c>>
      PROVE  s[k + Len(Escaped(b))] = Unstuff(Inside(t), c, max_output)
  <2>1. Len(Escaped(b)) = 2
    BY <1>3
  <2>2. w[k + 1] = CHAT_ESCAPE_BYTE /\ w[k + 2] = c
    BY <1>0, <1>3, <2>1
  <2>3. k + 2 <= l
    BY <1>0, <2>1
  <2> HIDE DEF l
  <2>4. k + 1 \in 1..l /\ (k + 1) - 1 = k /\ k + 2 \in 1..l /\ (k + 2) - 1 = k + 1
    BY <1>1, <2>3
  <2>5. s[k + 1] = Inside(t)
    <3>1. s[k + 1] = Unstuff(s[k], w[k + 1], max_output)
      BY <1>2, <2>4
    <3>2. Unstuff(Between(t), CHAT_ESCAPE_BYTE, max_output) = Inside(t)
      BY ReadEscape
    <3> QED
      BY <2>2, <3>1, <3>2
  <2>6. s[k + 2] = Unstuff(Inside(t), c, max_output)
    BY <1>2, <2>2, <2>4, <2>5
  <2> QED
    BY <2>1, <2>6
<1>4. CASE b = CHAT_SYNC_BYTE
  <2>1. Escaped(b) = <<CHAT_ESCAPE_BYTE, 0>>
    BY <1>4, EscapedAre
  <2> QED
    BY <1>3, <1>4, <2>1, ReadCode
<1>5. CASE b = CHAT_ESCAPE_BYTE
  <2>1. Escaped(b) = <<CHAT_ESCAPE_BYTE, 1>>
    BY <1>5, EscapedAre
  <2> QED
    BY <1>3, <1>5, <2>1, ReadCode
<1>6. CASE b # CHAT_SYNC_BYTE /\ b # CHAT_ESCAPE_BYTE
  <2>1. Escaped(b) = <<b>>
    BY <1>6, EscapedAre
  <2>2. Len(Escaped(b)) = 1
    BY <2>1
  <2>3. w[k + 1] = b
    BY <1>0, <2>1, <2>2
  <2>4. k + 1 <= l
    BY <1>0, <2>2
  <2> HIDE DEF l
  <2>5. k + 1 \in 1..l /\ (k + 1) - 1 = k
    BY <1>1, <2>4
  <2>6. s[k + 1] = Between(t \o <<b>>)
    BY <1>2, <1>6, <2>3, <2>5, ReadPlain
  <2> QED
    BY <2>2, <2>6
<1> QED
  BY <1>4, <1>5, <1>6

(* Whatever goes on from o, unstuffing it reads t first. *)
Reads(o, t, W, max_output) ==
  \A s : \A w \in Seq(W) :
    UnstuffSteps(s, w, max_output) /\ StartsWith(w, o) => s[Len(o)] = Between(t)

SyncFree(o) == \A k \in 1..Len(o) : o[k] # CHAT_SYNC_BYTE

(* No sync byte is among the bytes that stand for one. *)
LEMMA EscapedIsSyncFree ==
  ASSUME NEW b
  PROVE  /\ Escaped(b) \in Seq({b, CHAT_ESCAPE_BYTE, 0, 1})
         /\ SyncFree(Escaped(b))
         /\ Len(Escaped(b)) \in {1, 2}
<1>1. CHAT_SYNC_BYTE \notin {CHAT_ESCAPE_BYTE, 0, 1}
  BY CodecAssumption
<1>2. CASE b = CHAT_SYNC_BYTE
  <2>1. Escaped(b) = <<CHAT_ESCAPE_BYTE, 0>>
    BY <1>2, EscapedAre
  <2> QED
    BY <1>1, <2>1 DEF SyncFree
<1>3. CASE b = CHAT_ESCAPE_BYTE
  <2>1. Escaped(b) = <<CHAT_ESCAPE_BYTE, 1>>
    BY <1>3, EscapedAre
  <2> QED
    BY <1>1, <2>1 DEF SyncFree
<1>4. CASE b # CHAT_SYNC_BYTE /\ b # CHAT_ESCAPE_BYTE
  <2>1. Escaped(b) = <<b>>
    BY <1>4, EscapedAre
  <2> QED
    BY <1>1, <1>4, <2>1 DEF SyncFree
<1> QED
  BY <1>2, <1>3, <1>4

(* An input that starts with o and e starts with o, and e is behind it. *)
LEMMA StartsWithBoth ==
  ASSUME NEW W, NEW o \in Seq(W), NEW e \in Seq(W), NEW w \in Seq(W), StartsWith(w, o \o e)
  PROVE  /\ StartsWith(w, o)
         /\ HasAt(w, Len(o), e)
<1> DEFINE m == Len(o)
           n == Len(e)
           l == Len(w)
<1>1. m \in Nat /\ n \in Nat /\ l \in Nat /\ Len(o \o e) = m + n
  OBVIOUS
<1>2. m + n <= l /\ \A k \in 1..(m + n) : w[k] = (o \o e)[k]
  BY <1>1 DEF StartsWith
<1>3. /\ \A k \in 1..m : (o \o e)[k] = o[k]
      /\ \A j \in 1..n : (o \o e)[m + j] = e[j]
  OBVIOUS
<1>4. /\ \A k \in 1..m : k \in 1..(m + n)
      /\ \A j \in 1..n : m + j \in 1..(m + n)
      /\ m <= l
  <2> HIDE DEF m, n, l
  <2> QED
    BY <1>1, <1>2
<1> HIDE DEF m, n, l
<1>5. /\ \A k \in 1..m : w[k] = o[k]
      /\ \A j \in 1..n : w[m + j] = e[j]
  BY <1>2, <1>3, <1>4
<1> QED
  BY <1>2, <1>4, <1>5 DEF StartsWith, HasAt, m, n, l

(* One more byte is stuffed, and reads back behind what was there. *)
LEMMA StuffedReads ==
  ASSUME NEW V, NEW o \in Seq(WireBytes(V)), NEW t \in Seq(V), NEW b \in V,
         NEW max_output \in Int, Len(t) <= Len(o), Len(o) < max_output,
         Reads(o, t, WireBytes(V), max_output)
  PROVE  Reads(o \o Escaped(b), t \o <<b>>, WireBytes(V), max_output)
<1> DEFINE W == WireBytes(V)
           e == Escaped(b)
<1>1. e \in Seq(W)
  BY EscapedIs
<1>2. Len(t) < max_output
  <2>1. Len(t) \in Nat /\ Len(o) \in Nat
    OBVIOUS
  <2> DEFINE m == Len(t)
             n == Len(o)
  <2>2. m \in Nat /\ n \in Nat /\ m <= n /\ n < max_output
    BY <2>1
  <2> HIDE DEF m, n
  <2>3. m < max_output
    BY <2>2
  <2> QED
    BY <2>3 DEF m
<1>3. Len(o \o e) = Len(o) + Len(e)
  <2> HIDE DEF W, e
  <2> QED
    BY <1>1 DEF W
<1> SUFFICES ASSUME NEW w \in Seq(W), NEW s, UnstuffSteps(s, w, max_output),
                    StartsWith(w, o \o e)
             PROVE  s[Len(o) + Len(e)] = Between(t \o <<b>>)
  <2> HIDE DEF W, e
  <2> QED
    BY <1>3 DEF Reads, W, e
<1> HIDE DEF W
<1>4. /\ StartsWith(w, o)
      /\ HasAt(w, Len(o), e)
  <2> HIDE DEF e
  <2> QED
    BY <1>1, StartsWithBoth DEF W
<1>5. s[Len(o)] = Between(t)
  BY <1>4 DEF Reads, W
<1> DEFINE k == Len(o)
<1>6. k \in Nat /\ s[k] = Between(t) /\ HasAt(w, k, Escaped(b))
  BY <1>4, <1>5
<1> HIDE DEF k
<1>7. s[k + Len(Escaped(b))] = Between(t \o <<b>>)
  BY <1>2, <1>6, ReadEscaped
<1> QED
  BY <1>7 DEF k

(* The first i + 1 bytes are the first i and the next one. *)
LEMMA FirstAndNext ==
  ASSUME NEW V, NEW input \in Seq(V), NEW i \in Nat, i + 1 <= Len(input)
  PROVE  /\ SubSeq(input, 1, i) \in Seq(V)
         /\ Len(SubSeq(input, 1, i)) = i
         /\ SubSeq(input, 1, i) \o <<input[i + 1]>> = SubSeq(input, 1, i + 1)
OBVIOUS

(* What byte_stuff has made of the first i bytes, unless it has failed. *)
StuffedWell(r, t, W, max_output) ==
  /\ r = Success(r.out)
  /\ r.out \in Seq(W)
  /\ Len(t) <= Len(r.out)
  /\ Len(r.out) <= max_output
  /\ SyncFree(r.out)
  /\ Reads(r.out, t, W, max_output)

(* A step of byte_stuff that does not fail keeps it so. *)
LEMMA StuffKeepsWell ==
  ASSUME NEW V, NEW t \in Seq(V), NEW b \in V, NEW max_output \in Nat, NEW r,
         r.len = -1 \/ StuffedWell(r, t, WireBytes(V), max_output),
         Stuff(r, b, max_output).len # -1
  PROVE  StuffedWell(Stuff(r, b, max_output), t \o <<b>>, WireBytes(V), max_output)
<1> DEFINE W == WireBytes(V)
           o == r.out
           e == Escaped(b)
           p == o \o e
<1>1. ~(r.len = -1 \/ r.len >= max_output - 1)
  BY DEF Stuff, Failure
<1>2. Stuff(r, b, max_output) = Success(p)
  BY <1>1 DEF Stuff
<1>3. /\ r.len = Len(o) /\ o \in Seq(W) /\ Len(t) <= Len(o)
      /\ SyncFree(o) /\ Reads(o, t, W, max_output)
  <2>1. StuffedWell(r, t, W, max_output)
    BY <1>1
  <2> HIDE DEF W
  <2> QED
    BY <2>1 DEF StuffedWell, Success
<1>4. e \in Seq(W) /\ SyncFree(e) /\ Len(e) \in {1, 2}
  BY EscapedIs, EscapedIsSyncFree
<1>5. Len(o) < max_output
  <2>1. Len(o) \in Nat
    BY <1>3
  <2> QED
    BY <1>1, <1>3, <2>1
<1>6. Reads(p, t \o <<b>>, W, max_output)
  BY <1>3, <1>5, StuffedReads
<1> HIDE DEF W, e
<1>7. /\ p \in Seq(W) /\ SyncFree(p) /\ Len(t \o <<b>>) <= Len(p)
      /\ Len(p) <= max_output
  <2>1. p \in Seq(W) /\ Len(p) = Len(o) + Len(e) /\ Len(t \o <<b>>) = Len(t) + 1
    BY <1>3, <1>4
  <2>2. \A k \in 1..Len(o) : p[k] = o[k]
    BY <1>3, <1>4
  <2>3. \A k \in 1..Len(e) : p[Len(o) + k] = e[k]
    BY <1>3, <1>4
  <2> DEFINE m == Len(o)
             n == Len(e)
             l == Len(p)
             j == Len(t)
             q == Len(t \o <<b>>)
  <2>4. m \in Nat /\ n \in 1..2 /\ j \in Nat /\ l = m + n /\ q = j + 1 /\ j <= m
    BY <1>3, <1>4, <2>1
  <2>5. ASSUME NEW k \in 1..l PROVE p[k] # CHAT_SYNC_BYTE
    <3>1. CASE k <= m
      <4>1. k \in 1..m
        <5> HIDE DEF m, n, l
        <5> QED
          BY <2>4, <3>1
      <4> QED
        BY <1>3, <2>2, <4>1 DEF SyncFree
    <3>2. CASE ~(k <= m)
      <4>1. k - m \in 1..n /\ m + (k - m) = k
        <5> HIDE DEF m, n, l
        <5> QED
          BY <2>4, <3>2
      <4> HIDE DEF p
      <4> DEFINE h == k - m
      <4>2. p[m + h] = e[h] /\ e[h] # CHAT_SYNC_BYTE
        <5>1. h \in 1..n
          BY <4>1
        <5> HIDE DEF h
        <5> QED
          BY <1>4, <2>3, <5>1 DEF SyncFree
      <4> QED
        BY <4>1, <4>2
    <3> QED
      BY <3>1, <3>2
  <2>6. q <= l /\ l <= max_output
    <3>1. ~(m >= max_output - 1)
      BY <1>1, <1>3
    <3> HIDE DEF m, n, l, j, q
    <3> QED
      BY <2>4, <3>1
  <2> HIDE DEF p
  <2> QED
    BY <2>1, <2>5, <2>6 DEF SyncFree
<1> HIDE DEF p
<1>8. Success(p).out = p
  BY DEF Success
<1> QED
  BY <1>2, <1>6, <1>7, <1>8 DEF StuffedWell, W

(* byte_unstuff undoes byte_stuff, and no sync byte is among the bytes      *)
(* between them.                                                           *)
LEMMA StuffedReadsBack ==
  ASSUME NEW V, NEW input \in Seq(V), NEW max_output \in Nat,
         byte_stuff(input, max_output).len # -1
  PROVE  /\ byte_stuff(input, max_output) = Success(byte_stuff(input, max_output).out)
         /\ Len(byte_stuff(input, max_output).out) <= max_output
         /\ byte_stuff(input, max_output).out \in Seq(WireBytes(V))
         /\ SyncFree(byte_stuff(input, max_output).out)
         /\ byte_unstuff(byte_stuff(input, max_output).out, max_output) = Success(input)
<1> DEFINE W == WireBytes(V)
           N == Len(input)
           first(i) == SubSeq(input, 1, i)
<1>1. PICK r : StuffSteps(r, input, max_output) /\ byte_stuff(input, max_output) = r[N]
  BY StuffTakesSteps
<1>2. N \in Nat
  OBVIOUS
<1>3. r[0] = Success(<<>>) /\ \A i \in 1..N : r[i] = Stuff(r[i - 1], input[i], max_output)
  BY <1>1 DEF StuffSteps
<1> DEFINE Good(i) == r[i].len = -1 \/ StuffedWell(r[i], first(i), W, max_output)
           T == {i \in Nat : i <= N => Good(i)}
<1>4. Good(0)
  <2>1. first(0) = <<>>
    OBVIOUS
  <2>2. Success(<<>>).out = <<>> /\ <<>> \in Seq(W) /\ Len(<<>>) = 0 /\ SyncFree(<<>>)
    BY DEF Success, SyncFree
  <2>3. Reads(<<>>, <<>>, W, max_output)
    BY <2>2 DEF Reads, UnstuffSteps, Between
  <2>4. StuffedWell(Success(<<>>), <<>>, W, max_output)
    <3> DEFINE none == <<>>
    <3>1. /\ Success(none).out = none /\ none \in Seq(W) /\ Len(none) <= Len(none)
          /\ Len(none) <= max_output /\ SyncFree(none) /\ Reads(none, none, W, max_output)
      BY <2>2, <2>3
    <3> HIDE DEF W, none
    <3>2. StuffedWell(Success(none), none, W, max_output)
      BY <3>1 DEF StuffedWell
    <3> QED
      BY <3>2 DEF none
  <2> HIDE DEF W, first
  <2> QED
    BY <1>3, <2>1, <2>4
<1>5. ASSUME NEW i \in Nat, Good(i), i + 1 <= N PROVE Good(i + 1)
  <2>1. i + 1 \in 1..N /\ (i + 1) - 1 = i /\ input[i + 1] \in V
    BY <1>2, <1>5
  <2>2. r[i + 1] = Stuff(r[i], input[i + 1], max_output)
    BY <1>3, <2>1
  <2>3. first(i) \in Seq(V) /\ first(i) \o <<input[i + 1]>> = first(i + 1)
    BY <1>5, FirstAndNext
  <2> HIDE DEF first
  <2>4. ASSUME Stuff(r[i], input[i + 1], max_output).len # -1
        PROVE  StuffedWell(Stuff(r[i], input[i + 1], max_output), first(i + 1), W, max_output)
    BY <1>5, <2>1, <2>3, <2>4, StuffKeepsWell
  <2> QED
    BY <2>2, <2>4
<1>6. Nat \subseteq T
  <2> HIDE DEF Good, N
  <2>1. 0 \in T /\ \A i \in Nat : i \in T => i + 1 \in T
    BY <1>2, <1>4, <1>5
  <2> HIDE DEF T
  <2> QED
    BY <2>1, InductionOnNat
<1>7. Good(N)
  <2> HIDE DEF Good, N
  <2> QED
    BY <1>2, <1>6
<1> DEFINE out == r[N].out
<1>8. StuffedWell(r[N], first(N), W, max_output)
  BY <1>1, <1>7
<1>9. first(N) = input
  OBVIOUS
<1>10. byte_unstuff(out, max_output) = Success(input)
  <2>1. out \in Seq(W) /\ Reads(out, input, W, max_output)
    BY <1>8, <1>9 DEF StuffedWell
  <2>2. PICK s : /\ UnstuffSteps(s, out, max_output)
                 /\ byte_unstuff(out, max_output) =
                      IF s[Len(out)].escape THEN Failure ELSE s[Len(out)].r
    <3> HIDE DEF out
    <3> QED
      BY <2>1, UnstuffTakesSteps
  <2> HIDE DEF out
  <2>3. StartsWith(out, out)
    BY <2>1 DEF StartsWith
  <2>4. s[Len(out)] = Between(input)
    BY <2>1, <2>2, <2>3 DEF Reads
  <2> QED
    BY <2>2, <2>4 DEF Between
<1> HIDE DEF W
<1>11. /\ r[N] = Success(out) /\ out \in Seq(W) /\ SyncFree(out)
       /\ Len(out) <= max_output
  BY <1>8 DEF StuffedWell
<1> HIDE DEF out
<1>12. byte_stuff(input, max_output).out = out
  BY <1>1, <1>11 DEF out
<1> QED
  BY <1>1, <1>10, <1>11, <1>12 DEF W

-----------------------------------------------------------------------------
(* The frame: user id, message and the CRC over both. *)
LEMMA PayloadIs ==
  ASSUME NEW user_id \in Nat, NEW text \in Seq(Nat)
  PROVE  /\ Payload(user_id, text) \in Seq(Nat)
         /\ Len(Payload(user_id, text)) = Len(text) + 3
         /\ Payload(user_id, text)[1] = user_id
         /\ SubSeq(Payload(user_id, text), 2, Len(text) + 1) = text
         /\ LET n == Len(text) + 1
                p == Payload(user_id, text)
            IN CrcMatches(SubSeq(p, 1, n), p[n + 1] * BYTE_SIZE + p[n + 2])
<1> DEFINE body == <<user_id>> \o text
           crc == crc16_ccitt(body)
           hi == crc \div BYTE_SIZE
           lo == crc % BYTE_SIZE
           n == Len(text) + 1
           p == body \o <<hi, lo>>
<1>1. body \in Seq(Nat) /\ Len(body) = n /\ body[1] = user_id
  OBVIOUS
<1>2. crc \in Nat /\ BYTE_SIZE \in Nat \ {0}
  BY <1>1, CrcIsNat, Widths
<1>3. hi \in Nat /\ lo \in Nat /\ hi * BYTE_SIZE + lo = crc
  <2> HIDE DEF crc, BYTE_SIZE
  <2> QED
    BY <1>2
<1>4. Payload(user_id, text) = p
  BY DEF Payload
<1>5. SubSeq(body, 2, n) = text
  OBVIOUS
<1> HIDE DEF hi, lo, crc
<1>6. p \in Seq(Nat) /\ Len(p) = n + 2 /\ p[1] = user_id /\ p[n + 1] = hi /\ p[n + 2] = lo
  BY <1>3
<1>7. SubSeq(p, 1, n) = body /\ SubSeq(p, 2, n) = text
  BY <1>3
<1> HIDE DEF p
<1>8. CrcMatches(SubSeq(p, 1, n), p[n + 1] * BYTE_SIZE + p[n + 2])
  <2> HIDE DEF body, n
  <2> QED
    BY <1>3, <1>6, <1>7 DEF CrcMatches, crc
<1>9. Len(p) = Len(text) + 3 /\ SubSeq(p, 2, Len(text) + 1) = text
  BY <1>6, <1>7
<1> QED
  BY <1>4, <1>6, <1>8, <1>9

(* What a receiver reads in a stuffed payload is what was put into it. *)
LEMMA PayloadReadsBack ==
  ASSUME NEW user_id \in Nat, NEW text \in Seq(Nat), text # <<>>,
         byte_stuff(Payload(user_id, text), CHAT_MAX_FRAME).len # -1
  PROVE  decode_frame(byte_stuff(Payload(user_id, text), CHAT_MAX_FRAME).out) =
           [ok |-> TRUE, user_id |-> user_id, message |-> text]
<1> DEFINE p == Payload(user_id, text)
           stuffed == byte_stuff(p, CHAT_MAX_FRAME).out
           u == byte_unstuff(stuffed, CHAT_MAX_FRAME)
           n == Len(text) + 1
<1>1. p \in Seq(Nat) /\ CHAT_MAX_FRAME \in Nat
  BY PayloadIs, CodecAssumption
<1>2. u = Success(p)
  <2> HIDE DEF p
  <2> QED
    BY <1>1, StuffedReadsBack DEF p
<1>3. u.len = Len(p) /\ u.out = p
  BY <1>2 DEF Success
<1>4. Len(text) \in Nat /\ Len(text) # 0
  OBVIOUS
<1>5. Len(p) = n + 2 /\ p[1] = user_id /\ SubSeq(p, 2, n) = text
      /\ CrcMatches(SubSeq(p, 1, n), p[n + 1] * BYTE_SIZE + p[n + 2])
  <2> HIDE DEF p
  <2>1. Len(p) = Len(text) + 3 /\ p[1] = user_id
        /\ SubSeq(p, 2, Len(text) + 1) = text
        /\ CrcMatches(SubSeq(p, 1, Len(text) + 1),
                      p[(Len(text) + 1) + 1] * BYTE_SIZE + p[(Len(text) + 1) + 2])
    BY PayloadIs DEF p
  <2> QED
    BY <1>4, <2>1
<1> HIDE DEF p, u
<1>6. u.len - 2 = n /\ u.len >= 4
  <2> DEFINE m == Len(text)
             k == Len(p)
  <2>1. m \in Nat /\ m # 0 /\ k = (m + 1) + 2 /\ u.len = k
    BY <1>3, <1>4, <1>5
  <2> HIDE DEF m, k
  <2>2. u.len - 2 = m + 1 /\ u.len >= 4
    BY <2>1
  <2> QED
    BY <2>2 DEF m
<1>7. decode_frame(stuffed) =
        IF u.len >= 4 /\ CrcMatches(SubSeq(u.out, 1, u.len - 2),
                                   u.out[(u.len - 2) + 1] * BYTE_SIZE + u.out[(u.len - 2) + 2])
          THEN [ok |-> TRUE, user_id |-> u.out[1], message |-> SubSeq(u.out, 2, u.len - 2)]
          ELSE BadFrame
  BY DEF decode_frame, u
<1> HIDE DEF n, stuffed
<1>8. decode_frame(stuffed) = [ok |-> TRUE, user_id |-> user_id, message |-> text]
  BY <1>3, <1>5, <1>6, <1>7
<1> QED
  BY <1>8 DEF stuffed, p

(* A frame with a length byte that is right, around a payload that reads    *)
(* back and has no sync byte.                                              *)
LEMMA FrameReadsBack ==
  ASSUME NEW user_id \in Nat, NEW text \in Seq(Nat), text # <<>>,
         byte_stuff(Payload(user_id, text), CHAT_MAX_FRAME).len \in Byte,
         NEW frame \in {send_user_message(user_id, text), encode_frame(user_id, text)},
         frame # <<>>
  PROVE  LET stuffed == SubSeq(frame, 4, Len(frame))
         IN /\ frame[3] = Len(stuffed)
            /\ decode_frame(stuffed) = [ok |-> TRUE, user_id |-> user_id, message |-> text]
<1> DEFINE p == Payload(user_id, text)
           stuffed == byte_stuff(p, CHAT_MAX_FRAME)
           out == stuffed.out
<1>1. frame = OnWire(stuffed)
  BY DEF encode_frame, send_user_message
<1>2. stuffed.len \in 0..(BYTE_SIZE - 1) /\ stuffed.len # -1 /\ stuffed.len % BYTE_SIZE = stuffed.len
  <2> DEFINE l == stuffed.len
             z == BYTE_SIZE
  <2>1. z \in Nat \ {0} /\ l \in 0..(z - 1)
    BY Widths DEF Byte
  <2> HIDE DEF l, z
  <2>2. l # -1 /\ l % z = l
    BY <2>1
  <2> QED
    BY <2>1, <2>2 DEF l, z
<1>3. stuffed = Success(out) /\ out \in Seq(WireBytes(Nat)) /\ SyncFree(out)
  <2>1. p \in Seq(Nat) /\ CHAT_MAX_FRAME \in Nat
    BY PayloadIs, CodecAssumption
  <2> HIDE DEF p
  <2> QED
    BY <1>2, <2>1, StuffedReadsBack
<1>4. decode_frame(out) = [ok |-> TRUE, user_id |-> user_id, message |-> text]
  BY <1>2, PayloadReadsBack
<1> HIDE DEF stuffed
<1>5. stuffed.len = Len(out)
  <2> HIDE DEF out
  <2> QED
    BY <1>3 DEF Success
<1> DEFINE l == Len(out)
<1>6. frame = <<CHAT_SYNC_BYTE, CHAT_SYNC_BYTE, l>> \o out
  BY <1>1, <1>2, <1>5 DEF OnWire
<1> HIDE DEF out
<1>7. SubSeq(frame, 4, Len(frame)) = out /\ frame[3] = l
  <2> HIDE DEF l
  <2>1. Len(frame) = Len(out) + 3 /\ frame[3] = l
    BY <1>3, <1>6
  <2> DEFINE g == SubSeq(frame, 4, Len(out) + 3)
  <2>2. DOMAIN g = 1..Len(out) /\ \A i \in 1..Len(out) : g[i] = out[i]
    BY <1>3, <1>6
  <2> QED
    BY <1>3, <1>6, <2>1, <2>2
<1> QED
  BY <1>4, <1>7 DEF out

-----------------------------------------------------------------------------
(* What a damaged byte does.  Two readings of a frame, one byte of which is *)
(* changed without making or unmaking an escape, stay in step: unless one  *)
(* fails, both have read as many bytes, and all the same but one.          *)
Differ(x, y) ==
  /\ Len(x) = Len(y)
  /\ \E k \in 1..Len(x) : x[k] # y[k] /\ \A i \in 1..Len(x) : i # k => x[i] = y[i]

LEMMA DifferLast ==
  ASSUME NEW W, NEW x \in Seq(W), NEW a \in W, NEW b \in W, a # b
  PROVE  Differ(x \o <<a>>, x \o <<b>>)
<1> DEFINE n == Len(x)
           v == x \o <<a>>
           w == x \o <<b>>
<1>1. n \in Nat /\ Len(v) = n + 1 /\ Len(w) = n + 1
  OBVIOUS
<1>2. v[n + 1] = a /\ w[n + 1] = b
  OBVIOUS
<1>3. \A i \in 1..n : v[i] = x[i] /\ w[i] = x[i]
  OBVIOUS
<1> HIDE DEF n, v, w
<1>4. n + 1 \in 1..Len(v) /\ \A i \in 1..Len(v) : i # n + 1 => i \in 1..n
  BY <1>1
<1>5. v[n + 1] # w[n + 1] /\ \A i \in 1..Len(v) : i # n + 1 => v[i] = w[i]
  BY <1>2, <1>3, <1>4
<1>6. Differ(v, w)
  BY <1>1, <1>4, <1>5 DEF Differ
<1> QED
  BY <1>6 DEF v, w

LEMMA DifferGrows ==
  ASSUME NEW W, NEW x \in Seq(W), NEW y \in Seq(W), NEW a \in Seq(W), Differ(x, y)
  PROVE  Differ(x \o a, y \o a)
<1> DEFINE n == Len(x)
           v == x \o a
           w == y \o a
<1>1. PICK k \in 1..n : x[k] # y[k] /\ \A i \in 1..n : i # k => x[i] = y[i]
  BY DEF Differ
<1>2. Len(y) = n /\ n \in Nat /\ Len(a) \in Nat
  BY DEF Differ
<1>3. Len(v) = n + Len(a) /\ Len(w) = n + Len(a)
  BY <1>2
<1>4. \A i \in 1..n : v[i] = x[i] /\ w[i] = y[i]
  BY <1>2
<1>5. \A i \in 1..Len(v) : i \notin 1..n => v[i] = w[i]
  BY <1>2
<1> HIDE DEF n, v, w
<1>6. k \in 1..Len(v) /\ v[k] # w[k]
  BY <1>1, <1>2, <1>3, <1>4
<1>7. ASSUME NEW i \in 1..Len(v), i # k PROVE v[i] = w[i]
  BY <1>1, <1>4, <1>5, <1>7
<1>8. Differ(v, w)
  BY <1>3, <1>6, <1>7 DEF Differ
<1> QED
  BY <1>8 DEF v, w

InStep(s, u) ==
  /\ s.escape = u.escape /\ s.r.len = u.r.len
  /\ Differ(s.r.out, u.r.out)

(* The next byte, the same for both. *)
LEMMA StaysInStep ==
  ASSUME NEW V, NEW s \in States(WireBytes(V)), NEW u \in States(WireBytes(V)),
         NEW b \in WireBytes(V), NEW max_output, InStep(s, u),
         Unstuff(s, b, max_output).r.len # -1
  PROVE  InStep(Unstuff(s, b, max_output), Unstuff(u, b, max_output))
<1> DEFINE W == WireBytes(V)
           read == IF s.escape THEN Unescaped(b).out ELSE <<b>>
           x == s.r.out
           y == u.r.out
<1>1. x \in Seq(W) /\ y \in Seq(W) /\ s.escape = u.escape /\ s.r.len = u.r.len /\ Differ(x, y)
  BY DEF States, Results, InStep
<1>2. read \in Seq(W)
  <2>1. CHAT_SYNC_BYTE \in W /\ CHAT_ESCAPE_BYTE \in W
    BY DEF WireBytes
  <2> HIDE DEF W
  <2> QED
    BY <2>1 DEF Unescaped, Success, Failure, W
<1>3. ~Refused(s, b, max_output) /\ ~Refused(u, b, max_output)
  <2>1. ~Refused(s, b, max_output)
    BY DEF Unstuff, Failure
  <2> QED
    BY <1>1, <2>1 DEF Refused
<1>4. CASE ~s.escape /\ b = CHAT_ESCAPE_BYTE
  <2>1. /\ Unstuff(s, b, max_output) = [escape |-> TRUE, r |-> s.r]
        /\ Unstuff(u, b, max_output) = [escape |-> TRUE, r |-> u.r]
    BY <1>1, <1>3, <1>4 DEF Unstuff
  <2> QED
    BY <1>1, <2>1 DEF InStep
<1>5. CASE ~(~s.escape /\ b = CHAT_ESCAPE_BYTE)
  <2>1. /\ Unstuff(s, b, max_output) = [escape |-> FALSE, r |-> Success(x \o read)]
        /\ Unstuff(u, b, max_output) = [escape |-> FALSE, r |-> Success(y \o read)]
    BY <1>1, <1>3, <1>5 DEF Unstuff
  <2> HIDE DEF x, y, read, W
  <2>2. Differ(x \o read, y \o read)
    BY <1>1, <1>2, DifferGrows
  <2> DEFINE v == x \o read
             w == y \o read
  <2>3. Len(v) = Len(w) /\ Differ(v, w)
    BY <2>2 DEF Differ
  <2>4. /\ Unstuff(s, b, max_output) = [escape |-> FALSE, r |-> Success(v)]
        /\ Unstuff(u, b, max_output) = [escape |-> FALSE, r |-> Success(w)]
    BY <2>1
  <2> HIDE DEF v, w
  <2> QED
    BY <2>3, <2>4 DEF InStep, Success
<1> QED
  BY <1>4, <1>5

(* The damaged byte, none of the two values an escape. *)
LEMMA DamageIsRead ==
  ASSUME NEW V, NEW s \in States(WireBytes(V)), NEW b \in WireBytes(V), NEW c \in WireBytes(V),
         NEW max_output, b # c, b # CHAT_ESCAPE_BYTE, c # CHAT_ESCAPE_BYTE,
         Unstuff(s, b, max_output).r.len # -1, Unstuff(s, c, max_output).r.len # -1
  PROVE  InStep(Unstuff(s, b, max_output), Unstuff(s, c, max_output))
<1> DEFINE W == WireBytes(V)
           x == s.r.out
           ReadAs(a, d) == Unstuff(s, a, max_output)
                             = [escape |-> FALSE, r |-> Success(x \o <<d>>)]
<1>1. x \in Seq(W) /\ CHAT_SYNC_BYTE \in W /\ CHAT_ESCAPE_BYTE \in W
  BY DEF States, Results, WireBytes
<1>2. ~Refused(s, b, max_output) /\ ~Refused(s, c, max_output)
  BY DEF Unstuff, Failure
<1>3. \E d, e \in W : d # e /\ ReadAs(b, d) /\ ReadAs(c, e)
  <2>1. CASE ~s.escape
    <3>1. ReadAs(b, b) /\ ReadAs(c, c)
      BY <1>2, <2>1 DEF Unstuff
    <3> QED
      BY <3>1
  <2>2. CASE s.escape
    <3>1. Unescaped(b).len # -1 /\ Unescaped(c).len # -1
      BY <1>2, <2>2 DEF Refused
    <3>2. b \in {0, 1} /\ c \in {0, 1}
      BY <3>1 DEF Unescaped, Failure
    <3>3. Unescaped(0).out = <<CHAT_SYNC_BYTE>> /\ Unescaped(1).out = <<CHAT_ESCAPE_BYTE>>
      BY DEF Unescaped, Success
    <3>4. /\ b = 0 => ReadAs(b, CHAT_SYNC_BYTE)
          /\ c = 0 => ReadAs(c, CHAT_SYNC_BYTE)
          /\ b = 1 => ReadAs(b, CHAT_ESCAPE_BYTE)
          /\ c = 1 => ReadAs(c, CHAT_ESCAPE_BYTE)
      BY <1>2, <2>2, <3>3 DEF Unstuff
    <3>5. CHAT_SYNC_BYTE # CHAT_ESCAPE_BYTE
      BY CodecAssumption
    <3> QED
      BY <1>1, <3>2, <3>4, <3>5
  <2> QED
    BY <2>1, <2>2
<1>4. PICK d, e \in W : d # e /\ ReadAs(b, d) /\ ReadAs(c, e)
  BY <1>3
<1> HIDE DEF x, W
<1>5. Differ(x \o <<d>>, x \o <<e>>)
  BY <1>1, <1>4, DifferLast
<1>6. Len(x \o <<d>>) = Len(x \o <<e>>)
  BY <1>5 DEF Differ
<1> QED
  BY <1>4, <1>5, <1>6 DEF InStep, Success

(* Nothing is read after a failure. *)
LEMMA FailureStays ==
  ASSUME NEW s, NEW b, NEW max_output, s.r.len = -1
  PROVE  Unstuff(s, b, max_output).r.len = -1
BY DEF Unstuff, Refused, Failure

(* A frame that was read, and the same frame damaged. *)
LEMMA DamageShows ==
  ASSUME NEW V, NEW s \in Seq(WireBytes(V)), NEW max_output,
         NEW d \in 1..Len(s), s[d] # CHAT_ESCAPE_BYTE,
         NEW b \in WireBytes(V), b # CHAT_ESCAPE_BYTE, b # s[d],
         byte_unstuff(s, max_output).len # -1
  PROVE  LET r == byte_unstuff(s, max_output)
             q == byte_unstuff([s EXCEPT ![d] = b], max_output)
         IN /\ q \in Results(WireBytes(V))
            /\ q.len # -1 => q.len = r.len /\ Differ(r.out, q.out)
<1> DEFINE W == WireBytes(V)
           n == Len(s)
           z == [s EXCEPT ![d] = b]
<1>1. z \in Seq(W) /\ Len(z) = n /\ n \in Nat /\ z[d] = b
      /\ \A i \in 1..n : s[i] \in W /\ (i # d => z[i] = s[i])
  OBVIOUS
<1>2. PICK t : /\ UnstuffSteps(t, s, max_output)
               /\ byte_unstuff(s, max_output) = IF t[n].escape THEN Failure ELSE t[n].r
  BY UnstuffTakesSteps
<1> HIDE DEF z
<1>3. PICK u : /\ UnstuffSteps(u, z, max_output)
               /\ byte_unstuff(z, max_output) = IF u[n].escape THEN Failure ELSE u[n].r
  BY <1>1, UnstuffTakesSteps
<1>4. t[0] = u[0] /\ t[0] \in States(W)
  <2>1. Success(<<>>) \in Results(W)
    <3>1. <<>> \in Seq(W)
      OBVIOUS
    <3> HIDE DEF W
    <3> QED
      BY <3>1, ResultsAre
  <2> QED
    BY <1>2, <1>3, <2>1 DEF UnstuffSteps, States
<1>5. ASSUME NEW i \in Nat, i + 1 <= n
      PROVE  /\ t[i + 1] = Unstuff(t[i], s[i + 1], max_output)
             /\ u[i + 1] = Unstuff(u[i], z[i + 1], max_output)
             /\ s[i + 1] \in W /\ (i + 1 # d => z[i + 1] = s[i + 1])
  <2>1. i + 1 \in 1..n /\ i + 1 \in 1..Len(z) /\ (i + 1) - 1 = i
    BY <1>1, <1>5
  <2> QED
    BY <1>1, <1>2, <1>3, <2>1 DEF UnstuffSteps
<1> DEFINE Fails(i) == t[i].r.len = -1 \/ u[i].r.len = -1
           Good(i) == /\ t[i] \in States(W) /\ u[i] \in States(W)
                      /\ i < d => t[i] = u[i]
                      /\ i >= d => Fails(i) \/ InStep(t[i], u[i])
           T == {i \in Nat : i <= n => Good(i)}
<1> HIDE DEF n, W
<1>6. Good(0)
  BY <1>4
<1>7. ASSUME NEW i \in Nat, Good(i), i + 1 <= n PROVE Good(i + 1)
  <2> DEFINE c == s[i + 1]
             e == z[i + 1]
  <2>1. /\ t[i + 1] = Unstuff(t[i], c, max_output) /\ u[i + 1] = Unstuff(u[i], e, max_output)
        /\ c \in W /\ (i + 1 # d => e = c)
    BY <1>5, <1>7
  <2>2. i + 1 = d => e = b /\ c # b /\ c # CHAT_ESCAPE_BYTE
    BY <1>1
  <2>3. d \in Nat /\ e \in W
    BY <1>1, <2>1, <2>2 DEF W
  <2> HIDE DEF c, e
  <2>4. t[i + 1] \in States(W) /\ u[i + 1] \in States(W)
    BY <1>7, <2>1, <2>3, UnstuffReturns DEF W
  <2>5. CASE i + 1 < d
    BY <1>7, <2>1, <2>3, <2>4, <2>5
  <2>6. CASE i + 1 = d
    <3>1. t[i] = u[i] /\ t[i] \in States(W)
      BY <1>7, <2>3, <2>6
    <3>2. Fails(i + 1) \/ InStep(t[i + 1], u[i + 1])
      BY <2>1, <2>2, <2>3, <2>6, <3>1, DamageIsRead DEF W
    <3> QED
      BY <2>4, <2>6, <3>2
  <2>7. CASE i + 1 > d
    <3>1. c = e /\ (Fails(i) \/ InStep(t[i], u[i]))
      BY <1>7, <2>1, <2>3, <2>7
    <3>2. CASE Fails(i)
      <4>1. Fails(i + 1)
        BY <2>1, <3>2, FailureStays
      <4> QED
        BY <2>3, <2>4, <2>7, <4>1
    <3>3. CASE InStep(t[i], u[i])
      <4>1. Fails(i + 1) \/ InStep(t[i + 1], u[i + 1])
        BY <1>7, <2>1, <3>1, <3>3, StaysInStep DEF W
      <4> QED
        BY <2>3, <2>4, <2>7, <4>1
    <3> QED
      BY <3>1, <3>2, <3>3
  <2> QED
    BY <2>3, <2>5, <2>6, <2>7
<1> HIDE DEF Good
<1>8. Good(n)
  <2>1. 0 \in T /\ \A i \in Nat : i \in T => i + 1 \in T
    BY <1>1, <1>6, <1>7
  <2>2. n \in T
    <3> HIDE DEF T
    <3> QED
      BY <1>1, <2>1, InductionOnNat
  <2> QED
    BY <1>1, <2>2
<1>9. n >= d
  BY DEF n
<1>10. byte_unstuff(s, max_output) = t[n].r /\ t[n].r.len # -1 /\ ~t[n].escape
  BY <1>2 DEF Failure
<1>11. byte_unstuff(z, max_output) \in Results(W)
  <2>1. Failure \in Results(W) /\ u[n].r \in Results(W)
    BY <1>8, ResultsAre DEF Good, States
  <2> QED
    BY <1>3, <2>1
<1>12. ASSUME byte_unstuff(z, max_output).len # -1
       PROVE  /\ byte_unstuff(z, max_output).len = byte_unstuff(s, max_output).len
              /\ Differ(byte_unstuff(s, max_output).out, byte_unstuff(z, max_output).out)
  <2>1. byte_unstuff(z, max_output) = u[n].r /\ u[n].r.len # -1
    BY <1>3, <1>12 DEF Failure
  <2>2. InStep(t[n], u[n])
    BY <1>8, <1>9, <1>10, <2>1 DEF Good
  <2> QED
    BY <1>10, <2>1, <2>2 DEF InStep
<1> QED
  BY <1>11, <1>12 DEF z, W

(* The CRC fits its two bytes. *)
LEMMA PayloadIsByteWide ==
  ASSUME NEW user_id \in Byte, NEW text \in Seq(Byte)
  PROVE  /\ Payload(user_id, text) \in Seq(Byte)
         /\ <<user_id>> \o text \in Seq(Byte)
         /\ Len(<<user_id>> \o text) = Len(text) + 1
<1> DEFINE body == <<user_id>> \o text
           crc == crc16_ccitt(body)
           z == BYTE_SIZE
<1>1. body \in Seq(Byte) /\ Len(body) = Len(text) + 1
  OBVIOUS
<1>2. crc \in 0..(z * z - 1) /\ z \in Nat \ {0}
  <2>1. crc \in Crcs
    <3> HIDE DEF body
    <3> QED
      BY <1>1, CrcTellsApart
  <2>2. CRC_SIZE = z * z /\ z \in Nat \ {0}
    BY CrcSizeIs, Widths
  <2> QED
    BY <2>1, <2>2 DEF Crcs
<1>3. crc \div z \in 0..(z - 1) /\ crc % z \in 0..(z - 1)
  <2> HIDE DEF crc, z
  <2>1. crc \in Nat /\ crc < z * z
    <3>1. z * z \in Nat
      BY <1>2
    <3> DEFINE y == z * z
    <3> HIDE DEF y
    <3>2. crc \in 0..(y - 1) /\ y \in Nat
      BY <1>2, <3>1 DEF y
    <3>3. crc \in Nat /\ crc < y
      BY <3>2
    <3> QED
      BY <3>3 DEF y
  <2>2. crc \div z < z
    BY <1>2, <2>1, DivLess
  <2> QED
    BY <1>2, <2>1, <2>2
<1> HIDE DEF crc, body, z
<1>4. <<crc \div z, crc % z>> \in Seq(Byte)
  BY <1>3 DEF Byte, z
<1> DEFINE c == <<crc \div z, crc % z>>
<1> HIDE DEF c
<1>5. body \o c \in Seq(Byte)
  BY <1>1, <1>4 DEF c
<1> QED
  BY <1>1, <1>5 DEF body, crc, c, z, Payload

LEMMA PairAtEnd ==
  ASSUME NEW B, NEW body \in Seq(B), NEW hi \in B, NEW lo \in B
  PROVE  LET n == Len(body)
             v == body \o <<hi, lo>>
         IN /\ Len(v) = n + 2 /\ v[n + 1] = hi /\ v[n + 2] = lo
            /\ \A i \in 1..n : v[i] = body[i]
OBVIOUS

(* A payload with one other byte in it has a CRC that does not match: a     *)
(* byte of the body changes the CRC over it, one of the last two the value *)
(* that it is compared with.                                               *)
LEMMA OtherPayloadFails ==
  ASSUME NEW user_id \in Byte, NEW text \in Seq(Byte), NEW q \in Seq(Byte),
         Differ(Payload(user_id, text), q)
  PROVE  LET n == Len(text) + 1
         IN ~CrcMatches(SubSeq(q, 1, n), q[n + 1] * BYTE_SIZE + q[n + 2])
<1> DEFINE body == <<user_id>> \o text
           crc == crc16_ccitt(body)
           z == BYTE_SIZE
           n == Len(text) + 1
           p == Payload(user_id, text)
           hi == crc \div z
           lo == crc % z
           other == SubSeq(q, 1, n)
<1>1. p \in Seq(Byte) /\ body \in Seq(Byte) /\ Len(body) = n /\ n \in Nat
  BY PayloadIsByteWide
<1>2. crc \in Nat /\ z \in Nat \ {0} /\ hi \in Nat /\ lo \in Nat /\ crc = hi * z + lo
  <2>1. crc \in Crcs
    <3> HIDE DEF body
    <3> QED
      BY <1>1, CrcTellsApart
  <2>2. crc \in Nat /\ z \in Nat \ {0}
    BY <2>1, Widths DEF Crcs
  <2> HIDE DEF crc, z
  <2> QED
    BY <2>2
<1>3. p = body \o <<hi, lo>>
  BY DEF Payload
<1> HIDE DEF body, crc, n, hi, lo
<1>4. /\ Len(p) = n + 2 /\ p[n + 1] = hi /\ p[n + 2] = lo
      /\ \A i \in 1..n : p[i] = body[i]
  <2>1. Byte \subseteq Nat
    BY Widths DEF Byte
  <2>2. body \in Seq(Nat)
    BY ONLY <1>1, <2>1, MoreValues
  <2> DEFINE v == body \o <<hi, lo>>
  <2>3. Len(v) = n + 2 /\ v[n + 1] = hi /\ v[n + 2] = lo /\ \A i \in 1..n : v[i] = body[i]
    BY <1>1, <1>2, <2>2, PairAtEnd
  <2> HIDE DEF p, v
  <2> QED
    BY <1>3, <2>3 DEF v
<1> HIDE DEF p
<1>5. PICK k \in 1..(n + 2) : p[k] # q[k] /\ \A i \in 1..(n + 2) : i # k => p[i] = q[i]
  BY <1>4 DEF Differ, p
<1>6. Len(q) = n + 2
  BY <1>4 DEF Differ, p
<1>7. /\ other \in Seq(Byte) /\ Len(other) = n /\ \A i \in 1..n : other[i] = q[i]
  BY <1>1, <1>6
<1> HIDE DEF other
<1>8. CASE k \in 1..n
  <2>1. q[n + 1] = hi /\ q[n + 2] = lo
    BY <1>1, <1>4, <1>5, <1>8
  <2>2. body[k] # other[k] /\ \A i \in 1..n : i # k => body[i] = other[i]
    BY SMTT(20), <1>1, <1>4, <1>5, <1>7, <1>8
  <2>3. crc16_ccitt(other) # crc
    BY <1>1, <1>7, <1>8, <2>2, CrcTellsApart DEF crc
  <2> QED
    BY <1>2, <2>1, <2>3 DEF CrcMatches, n, other, z
<1>9. CASE k \notin 1..n
  <2>1. \A i \in 1..n : body[i] = other[i]
    BY SMTT(20), <1>1, <1>4, <1>5, <1>7, <1>9
  <2>2. other = body
    BY <1>1, <1>7, <2>1
  <2>3. q[n + 1] * z + q[n + 2] # crc
    <3>1. PICK g, h : g = q[n + 1] /\ h = q[n + 2]
      OBVIOUS
    <3>2. g # hi \/ h # lo
      <4>1. k = n + 1 \/ k = n + 2
        BY <1>1, <1>9
      <4> QED
        BY <1>4, <1>5, <3>1, <4>1
    <3>3. g \in 0..(z - 1) /\ h \in 0..(z - 1)
      <4>1. n + 1 \in 1..Len(q) /\ n + 2 \in 1..Len(q)
        BY <1>1, <1>6
      <4>2. g \in Byte /\ h \in Byte
        BY <3>1, <4>1
      <4> QED
        BY <4>2 DEF Byte
    <3>4. lo \in 0..(z - 1)
      <4> HIDE DEF z
      <4> QED
        BY <1>2 DEF lo
    <3>5. ASSUME g * z + h = crc PROVE FALSE
      <4> HIDE DEF z
      <4>0. z \in Nat \ {0} /\ g \in Int /\ hi \in Int
        BY <1>2, <3>3
      <4>1. crc = z * g + h /\ crc = z * hi + lo
        BY <1>2, <3>3, <3>5
      <4>2. (z * g + h) \div z = g /\ (z * g + h) % z = h
        BY <3>3, <4>0, DivModUnique, Zenon
      <4>3. (z * hi + lo) \div z = hi /\ (z * hi + lo) % z = lo
        BY <3>4, <4>0, DivModUnique, Zenon
      <4>4. g = hi /\ h = lo
        BY <4>1, <4>2, <4>3
      <4> QED
        BY <3>2, <4>4
    <3> QED
      BY <3>1, <3>5
  <2> QED
    BY <2>2, <2>3 DEF CrcMatches, n, other, z, crc
<1> QED
  BY <1>8, <1>9

(* Where the length is no byte, it is just too large for one. *)
LEMMA FullFrameIsUnheard ==
  ASSUME NEW user_id \in Nat, NEW text \in Seq(Nat),
         byte_stuff(Payload(user_id, text), CHAT_MAX_FRAME).len \notin Byte,
         send_user_message(user_id, text) # <<>>
  PROVE  Unheard(send_user_message(user_id, text))
<1> DEFINE p == Payload(user_id, text)
           stuffed == byte_stuff(p, CHAT_MAX_FRAME)
           out == stuffed.out
           l == stuffed.len
           z == BYTE_SIZE
           frame == send_user_message(user_id, text)
<1>1. l > 0 /\ frame = OnWire(stuffed) /\ l # -1
  BY DEF send_user_message
<1>2. stuffed = Success(out) /\ out \in Seq(WireBytes(Nat)) /\ Len(out) <= CHAT_MAX_FRAME
  <2>1. p \in Seq(Nat) /\ CHAT_MAX_FRAME \in Nat
    BY PayloadIs, CodecAssumption
  <2> HIDE DEF p
  <2> QED
    BY <1>1, <2>1, StuffedReadsBack
<1>3. l = Len(out)
  <2> HIDE DEF stuffed
  <2> QED
    BY <1>2 DEF Success
<1>4. l \notin 0..(z - 1) /\ CHAT_MAX_FRAME <= z /\ CHAT_MAX_FRAME \in Nat /\ z \in Nat \ {0}
  BY CodecAssumption, Widths DEF Byte
<1>5. frame = <<CHAT_SYNC_BYTE, CHAT_SYNC_BYTE, l % z>> \o out
  BY <1>1 DEF OnWire
<1> HIDE DEF stuffed, out, z, frame, l
<1>6. l = z /\ l % z = 0
  <2>1. l \in Nat
    BY <1>2, <1>3
  <2> QED
    BY SMTT(20), <1>2, <1>3, <1>4, <2>1
<1>7. Len(frame) = 3 + l /\ frame[3] = 0
  <2> DEFINE W == WireBytes(Nat)
  <2> HIDE DEF W
  <2>1. out \in Seq(W) /\ frame = <<CHAT_SYNC_BYTE, CHAT_SYNC_BYTE, 0>> \o out
    BY <1>2, <1>5, <1>6 DEF W
  <2> QED
    BY <1>3, <2>1
<1> QED
  BY <1>6, <1>7 DEF Unheard, frame, z

LEMMA EachRoundTrips ==
  ASSUME NEW user_id \in Nat, NEW text \in Seq(Nat)
  PROVE  RoundTrips(user_id, text)
<1> DEFINE board == send_user_message(user_id, text)
           client == encode_frame(user_id, text)
<1> SUFFICES ASSUME text # <<>>
             PROVE  /\ client # <<>> => ReadsBack(client, user_id, text)
                    /\ board # <<>> => ReadsBack(board, user_id, text) \/ Unheard(board)
  BY DEF RoundTrips
<1>1. CASE byte_stuff(Payload(user_id, text), CHAT_MAX_FRAME).len \in Byte
  <2>1. ASSUME NEW frame \in {board, client}, frame # <<>>
        PROVE  ReadsBack(frame, user_id, text)
    BY <1>1, <2>1, FrameReadsBack DEF ReadsBack
  <2> QED
    BY <2>1
<1>2. CASE byte_stuff(Payload(user_id, text), CHAT_MAX_FRAME).len \notin Byte
  <2>1. client = <<>>
    BY <1>2 DEF encode_frame
  <2>2. board # <<>> => Unheard(board)
    BY <1>2, FullFrameIsUnheard
  <2> HIDE DEF board, client
  <2> QED
    BY <2>1, <2>2
<1> QED
  BY <1>1, <1>2

LEMMA EachStuffsAllSyncs ==
  ASSUME NEW user_id \in Nat, NEW text \in Seq(Nat)
  PROVE  StuffsAllSyncs(user_id, text)
<1> DEFINE p == Payload(user_id, text)
           stuffed == byte_stuff(p, CHAT_MAX_FRAME)
           out == stuffed.out
<1>1. p \in Seq(Nat) /\ CHAT_MAX_FRAME \in Nat
  BY PayloadIs, CodecAssumption
<1>2. ASSUME NEW i \in 1..stuffed.len PROVE out[i] # CHAT_SYNC_BYTE
  <2> HIDE DEF p
  <2> DEFINE l == stuffed.len
  <2>1. l # -1
    <3>1. i \in 1..l
      BY <1>2
    <3> HIDE DEF l
    <3> QED
      BY <3>1
  <2>2. stuffed = Success(out) /\ SyncFree(out)
    BY <1>1, <2>1, StuffedReadsBack
  <2> HIDE DEF out, stuffed
  <2>3. l = Len(out)
    BY <2>2 DEF Success
  <2> QED
    BY <1>2, <2>2, <2>3 DEF SyncFree
<1> QED
  BY <1>2 DEF StuffsAllSyncs

LEMMA EachDetectsDamage ==
  ASSUME NEW user_id \in Byte, NEW text \in Seq(Byte)
  PROVE  DetectsDamage(user_id, text)
<1> DEFINE p == Payload(user_id, text)
           stuffed == byte_stuff(p, CHAT_MAX_FRAME)
           out == stuffed.out
<1>1. p \in Seq(Byte) /\ CHAT_MAX_FRAME \in Nat /\ WireBytes(Byte) = Byte
  <2>1. CHAT_SYNC_BYTE \in Byte /\ CHAT_ESCAPE_BYTE \in Byte
    BY CodecAssumption
  <2>2. 0 \in Byte /\ 1 \in Byte
    BY Widths DEF Byte
  <2> QED
    BY <2>1, <2>2, PayloadIsByteWide, CodecAssumption DEF WireBytes
<1>2. p = Payload(user_id, text) /\ Len(p) = Len(text) + 3
  <2>1. Byte \subseteq Nat
    BY Widths DEF Byte
  <2>2. text \in Seq(Nat)
    BY ONLY <2>1, MoreValues, text \in Seq(Byte)
  <2> QED
    BY <2>1, <2>2, PayloadIs
<1>3. ASSUME stuffed.len > 0, NEW d \in DOMAIN out, out[d] # CHAT_ESCAPE_BYTE,
             NEW b \in Byte \ {CHAT_ESCAPE_BYTE}, [out EXCEPT ![d] = b] # out
      PROVE  ~decode_frame([out EXCEPT ![d] = b]).ok
  <2> DEFINE z == [out EXCEPT ![d] = b]
             q == byte_unstuff(z, CHAT_MAX_FRAME)
             n == Len(text) + 1
  <2>1. out \in Seq(Byte) /\ byte_unstuff(out, CHAT_MAX_FRAME) = Success(p)
    <3>1. stuffed.len # -1
      BY <1>3
    <3> HIDE DEF p
    <3> QED
      BY <1>1, <3>1, StuffedReadsBack
  <2> HIDE DEF p, out
  <2>2. b # out[d] /\ d \in 1..Len(out)
    BY <1>3, <2>1
  <2>3. byte_unstuff(out, CHAT_MAX_FRAME).len = Len(p)
        /\ byte_unstuff(out, CHAT_MAX_FRAME).out = p /\ Len(p) # -1
    <3>1. Len(p) \in Nat
      BY <1>1
    <3> QED
      BY <2>1, <3>1 DEF Success
  <2>4. q \in Results(Byte) /\ (q.len # -1 => q.len = Len(p) /\ Differ(p, q.out))
    BY <1>1, <1>3, <2>1, <2>2, <2>3, DamageShows
  <2>5. decode_frame(z) =
          IF q.len >= 4 /\ CrcMatches(SubSeq(q.out, 1, q.len - 2),
                                     q.out[(q.len - 2) + 1] * BYTE_SIZE + q.out[(q.len - 2) + 2])
            THEN [ok |-> TRUE, user_id |-> q.out[1], message |-> SubSeq(q.out, 2, q.len - 2)]
            ELSE BadFrame
    BY DEF decode_frame
  <2> SUFFICES ~decode_frame(z).ok
    OBVIOUS
  <2> HIDE DEF q, z
  <2>6. CASE q.len = -1
    BY <2>5, <2>6 DEF BadFrame
  <2>7. CASE q.len # -1
    <3>1. q.len = Len(text) + 3 /\ Differ(p, q.out) /\ q.out \in Seq(Byte)
      BY <1>2, <2>4, <2>7 DEF Results, p
    <3>2. q.len - 2 = n
      BY <3>1
    <3>3. ~CrcMatches(SubSeq(q.out, 1, n), q.out[n + 1] * BYTE_SIZE + q.out[n + 2])
      BY <3>1, OtherPayloadFails DEF p
    <3> HIDE DEF n
    <3> QED
      BY <2>5, <3>2, <3>3 DEF BadFrame
  <2> QED
    BY <2>6, <2>7
<1> QED
  BY <1>3 DEF DetectsDamage, OneByteDamaged

-----------------------------------------------------------------------------
(* What the codec promises, for every set of user ids and of bytes, every   *)
(* length of the messages, every width of the bytes and the CRC, and any   *)
(* reserved bytes.                                                         *)
LEMMA SaidInBytes == CodecSpec => [](from \in Byte /\ said \in Seq(Byte))
<1> DEFINE InBytes == from \in Byte /\ said \in Seq(Byte)
<1>1. CodecInit => InBytes
  BY MessagesAssumption DEF CodecInit
<1>2. InBytes /\ [CodecNext]_codecVars => InBytes'
  <2> SUFFICES ASSUME InBytes, [CodecNext]_codecVars PROVE InBytes'
    OBVIOUS
  <2>1. ASSUME NEW b \in Alphabet, Extend(b) PROVE InBytes'
    <3>1. b \in Byte
      BY MessagesAssumption
    <3> HIDE DEF Byte
    <3> QED
      BY <2>1, <3>1 DEF Extend
  <2>2. CASE UNCHANGED codecVars
    BY <2>2 DEF codecVars
  <2> QED
    BY <2>1, <2>2 DEF CodecNext
<1> QED
  BY <1>1, <1>2, PTL DEF CodecSpec

LEMMA SaidInNumbers ==
  ASSUME from \in Byte, said \in Seq(Byte)
  PROVE  from \in Nat /\ said \in Seq(Nat)
<1>1. Byte \subseteq Nat
  BY Widths DEF Byte
<1>2. said \in Seq(Nat)
  BY ONLY <1>1, MoreValues, said \in Seq(Byte)
<1> QED
  BY <1>1, <1>2

(* What one end sends the other decodes to just that, at every length of    *)
(* the stuffed payload but 256; and what becomes of it at 256.             *)
THEOREM FramesReadBack == CodecSpec => []FrameRoundTrip
<1>1. from \in Byte /\ said \in Seq(Byte) => FrameRoundTrip
  BY SaidInNumbers, EachRoundTrips DEF FrameRoundTrip
<1> QED
  BY <1>1, SaidInBytes, PTL

(* The only sync bytes on the line are those of the headers.               *)
THEOREM SyncOnlyAtStart == CodecSpec => []NoSyncInside
<1>1. from \in Byte /\ said \in Seq(Byte) => NoSyncInside
  BY SaidInNumbers, EachStuffsAllSyncs DEF NoSyncInside
<1> QED
  BY <1>1, SaidInBytes, PTL

(* A frame with one damaged byte is never delivered, wherever the damage    *)
(* is; for every odd polynomial of the CRC.                                *)
THEOREM DamageDetected == CodecSpec => []DamageIsRejected
<1>1. from \in Byte /\ said \in Seq(Byte) => DamageIsRejected
  BY EachDetectsDamage DEF DamageIsRejected
<1> QED
  BY <1>1, SaidInBytes, PTL

-----------------------------------------------------------------------------
USE ClientAssumption

-----------------------------------------------------------------------------
(* How the two threads agree on the end.  The main thread closes the        *)
(* socket only after it has set stop_event, which is never reset; so the   *)
(* receive thread, should it fail on the closed socket, knows why.  The    *)
(* check behind input() lets a line pass only if stop_event was still not  *)
(* set, and then it was not set either when the line was typed.            *)
StopBeforeClose ==
  /\ main \in {"close", "return", "done"} => stop_event
  /\ sock = "closed" => main \in {"return", "done"}

ChecksBeforeSend ==
  /\ late => stop_event
  /\ main = "send" => ~late

EndInv ==
  /\ stop_event \in BOOLEAN
  /\ StopBeforeClose
  /\ ChecksBeforeSend
  /\ LeavesQuietly

LEMMA InitEstablishesEndInv == Init => EndInv
BY DEF Init, EndInv, StopBeforeClose, ChecksBeforeSend, LeavesQuietly

(* The bridge closes or resets the connection at most once, so what has     *)
(* been reset stays so.                                                    *)
LEMMA WorldKeepsEndInv ==
  ASSUME EndInv, Disconnect \/ \E chunk \in Chunks : Arrive(chunk)
  PROVE  EndInv'
<1> USE DEF EndInv, StopBeforeClose, ChecksBeforeSend, LeavesQuietly
<1>1. ASSUME NEW chunk \in Chunks, Arrive(chunk) PROVE EndInv'
  BY <1>1 DEF Arrive, mainVars
<1>2. CASE Disconnect
  BY <1>2 DEF Disconnect, mainVars
<1> QED
  BY <1>1, <1>2

LEMMA ReceiveThreadKeepsEndInv ==
  ASSUME EndInv, receive_thread
  PROVE  EndInv'
<1> USE DEF EndInv, StopBeforeClose, ChecksBeforeSend, LeavesQuietly
<1>1. /\ sock' = sock /\ main' = main /\ late' = late /\ peer' = peer
  BY DEF receive_thread, mainVars, worldVars
<1>2. \/ stop_event' = stop_event /\ complained' = complained
      \/ stop_event' = TRUE /\ complained' = complained
      \/ /\ stop_event' = stop_event
         /\ sock = "closed" \/ peer = "reset" \/ rx' = "failed"
         /\ complained' = (complained \/ ~stop_event)
  <2>1. CASE RxTop
    BY <2>1 DEF RxTop
  <2>2. CASE RxSelect
    BY <2>2 DEF RxSelect, Raise
  <2>3. CASE RxRecv
    BY <2>3 DEF RxRecv, Raise
  <2>4. CASE RxByte
    BY <2>4 DEF RxByte
  <2>5. CASE RxFrame
    BY <2>5 DEF RxFrame
  <2>6. CASE RxFrameFails
    BY <2>6 DEF RxFrameFails
  <2>7. CASE RxBytesDone
    BY <2>7 DEF RxBytesDone
  <2> QED
    BY <2>1, <2>2, <2>3, <2>4, <2>5, <2>6, <2>7 DEF receive_thread
<1>3. stop_event' \in BOOLEAN /\ (stop_event => stop_event')
  BY <1>2
<1>4. complained' => peer' = "reset" \/ rx' = "failed"
  <2>1. sock = "closed" => stop_event
    OBVIOUS
  <2>2. rx # "failed"
    BY DEF receive_thread, RxTop, RxSelect, RxRecv, RxByte, RxFrame, RxFrameFails,
           RxBytesDone
  <2> QED
    BY <1>1, <1>2, <2>1, <2>2
<1> QED
  BY <1>1, <1>3, <1>4

LEMMA MainThreadKeepsEndInv ==
  ASSUME EndInv, MainThread
  PROVE  EndInv'
<1> USE DEF EndInv, StopBeforeClose, ChecksBeforeSend, LeavesQuietly
<1>1. complained' = complained /\ peer' = peer /\ rx' = rx
  BY DEF MainThread
<1>2. CASE MainTop
  BY <1>1, <1>2 DEF MainTop, mainVars
<1>3. CASE MainCheck
  BY <1>1, <1>3 DEF MainCheck, AfterInput, mainVars
<1>4. CASE MainSend
  BY <1>1, <1>4 DEF MainSend, AfterSendError
<1>5. CASE MainStop
  BY <1>1, <1>5 DEF MainStop, mainVars
<1>6. CASE MainClose
  BY <1>1, <1>6 DEF MainClose, mainVars
<1>7. CASE MainReturn
  BY <1>1, <1>7 DEF MainReturn, mainVars
<1>8. CASE Interrupt
  BY <1>1, <1>8 DEF Interrupt, mainVars
<1>9. ASSUME NEW l \in Lines, Input(l) PROVE EndInv'
  BY <1>1, <1>9 DEF Input
<1> QED
  BY <1>2, <1>3, <1>4, <1>5, <1>6, <1>7, <1>8, <1>9
     DEF MainThread, MainStep, Keyboard

LEMMA EndInvIsInvariant == Spec => []EndInv
<1>1. EndInv /\ [Next]_vars => EndInv'
  <2>1. CASE UNCHANGED vars
    BY <2>1 DEF vars, mainVars, worldVars, EndInv, StopBeforeClose,
                ChecksBeforeSend, LeavesQuietly
  <2> QED
    BY <2>1, WorldKeepsEndInv, ReceiveThreadKeepsEndInv, MainThreadKeepsEndInv
       DEF Next
<1> QED
  BY <1>1, InitEstablishesEndInv, PTL DEF Spec

(* self.stop() comes before self.sock.close() in run's finally, and the     *)
(* receive thread asks self.running before it displays an error: an error  *)
(* that is displayed is one of the connection, or of a text.               *)
THEOREM LeavesWithoutComplaint == Spec => []LeavesQuietly
BY EndInvIsInvariant, PTL DEF EndInv

(* A line that input() returned after the receive thread had set stop_event *)
(* is not sent, wherever the receive thread's step falls.                  *)
THEOREM LateLinesStay == Spec => NothingLateIsSent
<1>1. EndInv /\ [Next]_vars => [sent' # sent => ~late]_vars
  <2> SUFFICES ASSUME EndInv, Next PROVE sent' # sent => ~late
    OBVIOUS
  <2>1. CASE MainThread
    BY <2>1 DEF MainThread, MainStep, MainTop, MainCheck, MainSend, MainStop,
                MainClose, MainReturn, Keyboard, Interrupt, Input, mainVars,
                EndInv, ChecksBeforeSend
  <2>2. CASE receive_thread
    BY <2>2 DEF receive_thread, mainVars
  <2>3. CASE Disconnect \/ \E chunk \in Chunks : Arrive(chunk)
    BY <2>3 DEF Disconnect, Arrive, mainVars
  <2> QED
    BY <2>1, <2>2, <2>3 DEF Next
<1> QED
  BY <1>1, EndInvIsInvariant, PTL DEF Spec, NothingLateIsSent

-----------------------------------------------------------------------------
(* The receive thread and its framer.  A payload under way has started from *)
(* a valid length and is shorter than that until the frame is handled; and *)
(* the thread asks for more only when it has worked off what it had.       *)
PayloadUnderWay ==
  /\ rx_state = "DATA" =>
       /\ rx_expected_length \in Byte \cap 1..CHAT_MAX_FRAME
       /\ ~Holding => Len(rx_frame_buffer) < rx_expected_length
  /\ Holding =>
       /\ rx_state = "DATA"
       /\ Len(rx_frame_buffer) = rx_expected_length

WorksOffFirst == rx \notin {"bytes", "frame", "failed"} => data = <<>>

RxInv ==
  /\ stream \in Seq(Byte)
  /\ rx \in {"top", "select", "recv", "bytes", "frame", "gone", "failed"}
  /\ data \in Seq(Byte)
  /\ Len(data) <= RECV_MAX
  /\ rx_state \in {"PLAINTEXT", "SYNC1", "SYNC2", "DATA"}
  /\ rx_frame_buffer \in Seq(Byte)
  /\ Len(rx_frame_buffer) <= rx_expected_length
  /\ rx_expected_length \in 0..CHAT_MAX_FRAME
  /\ PayloadUnderWay
  /\ WorksOffFirst

LEMMA InitEstablishesRxInv == Init => RxInv
BY DEF Init, RxInv, PayloadUnderWay, WorksOffFirst, Holding

(* A byte in each of the four states. *)
LEMMA ByteKeepsRxInv ==
  ASSUME RxInv, RxByte
  PROVE  RxInv'
<1> USE DEF RxInv, PayloadUnderWay, WorksOffFirst, Holding
<1> DEFINE b == Head(data)
<1>1. /\ rx = "bytes" /\ data # <<>> /\ data' = Tail(data) /\ stream' = stream
      /\ b \in Byte /\ data' \in Seq(Byte) /\ Len(data') <= RECV_MAX
  BY DEF RxByte
<1> HIDE DEF b
<1>2. CASE ByteInPlaintext(b)
  BY <1>1, <1>2 DEF ByteInPlaintext
<1>3. CASE ByteInSync1(b)
  BY <1>1, <1>3 DEF ByteInSync1
<1>4. CASE ByteInSync2(b)
  <2>1. CASE b > 0 /\ b <= CHAT_MAX_FRAME
    BY <1>1, <1>4, <2>1 DEF ByteInSync2
  <2>2. CASE ~(b > 0 /\ b <= CHAT_MAX_FRAME)
    BY <1>1, <1>4, <2>2 DEF ByteInSync2
  <2> QED
    BY <2>1, <2>2
<1>5. CASE ByteInData(b)
  <2>1. /\ rx_frame_buffer' \in Seq(Byte)
        /\ Len(rx_frame_buffer') = Len(rx_frame_buffer) + 1
        /\ rx_state' = "DATA" /\ rx_expected_length' = rx_expected_length
    BY <1>1, <1>5 DEF ByteInData
  <2>2. Len(rx_frame_buffer) + 1 <= rx_expected_length
    BY <1>1, <1>5 DEF ByteInData
  <2>3. CASE LastByte
    BY <1>1, <1>5, <2>1, <2>2, <2>3 DEF ByteInData, LastByte
  <2>4. CASE ~LastByte
    BY <1>1, <1>5, <2>1, <2>2, <2>4 DEF ByteInData, LastByte
  <2> QED
    BY <2>3, <2>4
<1> QED
  BY <1>2, <1>3, <1>4, <1>5 DEF RxByte, b

LEMMA ReceiveThreadKeepsRxInv ==
  ASSUME RxInv, receive_thread
  PROVE  RxInv'
<1> USE DEF RxInv, PayloadUnderWay, WorksOffFirst, Holding
<1>1. CASE RxTop
  BY <1>1 DEF RxTop, rxVars
<1>2. CASE RxSelect
  BY <1>2 DEF RxSelect, Raise, rxVars
<1>3. CASE RxRecv
  <2>1. CASE UNCHANGED <<rxVars, stream>> /\ rx' = "gone"
    BY <1>3, <2>1 DEF RxRecv, rxVars
  <2>2. CASE ~(UNCHANGED <<rxVars, stream>> /\ rx' = "gone")
    <3>1. /\ rx = "recv" /\ rx' = "bytes"
          /\ UNCHANGED <<rx_state, rx_frame_buffer, rx_expected_length>>
      BY <1>3, <2>2 DEF RxRecv, Raise
    <3>2. PICK n \in 1..RECV_MAX :
            /\ n <= Len(stream)
            /\ data' = SubSeq(stream, 1, n)
            /\ stream' = SubSeq(stream, n + 1, Len(stream))
      BY <1>3, <2>2 DEF RxRecv, Raise
    <3>3. data' \in Seq(Byte) /\ Len(data') <= RECV_MAX /\ stream' \in Seq(Byte)
      BY SMTT(20), <3>2
    <3> QED
      BY <3>1, <3>3
  <2> QED
    BY <2>1, <2>2
<1>4. CASE RxByte
  BY <1>4, ByteKeepsRxInv
<1>5. CASE RxFrame
  BY <1>5 DEF RxFrame
<1>6. CASE RxFrameFails
  BY <1>6 DEF RxFrameFails, rxVars
<1>7. CASE RxBytesDone
  BY <1>7 DEF RxBytesDone, rxVars
<1> QED
  BY <1>1, <1>2, <1>3, <1>4, <1>5, <1>6, <1>7 DEF receive_thread

LEMMA RxInvIsInvariant == Spec => []RxInv
<1>1. RxInv /\ [Next]_vars => RxInv'
  <2> SUFFICES ASSUME RxInv, [Next]_vars PROVE RxInv'
    OBVIOUS
  <2> USE DEF RxInv, PayloadUnderWay, WorksOffFirst, Holding
  <2>1. CASE receive_thread
    BY <2>1, ReceiveThreadKeepsRxInv
  <2>2. CASE MainThread \/ Disconnect
    BY <2>2 DEF MainThread, Disconnect, rxVars
  <2>3. ASSUME NEW chunk \in Chunks, Arrive(chunk) PROVE RxInv'
    BY <2>3 DEF Arrive, rxVars
  <2>4. CASE UNCHANGED vars
    BY <2>4 DEF vars, rxVars
  <2> QED
    BY <2>1, <2>2, <2>3, <2>4 DEF Next
<1> QED
  BY <1>1, InitEstablishesRxInv, PTL DEF Spec

EndsTypeOK ==
  /\ stop_event \in BOOLEAN
  /\ sock \in {"open", "closed"}
  /\ main \in {"top", "input", "check", "send", "stop", "close", "return", "done"}
  /\ peer \in {"open", "closed", "reset"}

LEMMA EndsTyped == Spec => []EndsTypeOK
<1>1. Init => EndsTypeOK
  BY DEF Init, EndsTypeOK
<1>2. EndsTypeOK /\ [Next]_vars => EndsTypeOK'
  <2> SUFFICES ASSUME EndsTypeOK, [Next]_vars PROVE EndsTypeOK'
    OBVIOUS
  <2> USE DEF EndsTypeOK
  <2>1. CASE receive_thread
    BY <2>1 DEF receive_thread, RxTop, RxSelect, RxRecv, RxByte, RxFrame,
                RxFrameFails, RxBytesDone, Raise, worldVars
  <2>2. CASE MainThread
    BY <2>2 DEF MainThread, MainStep, MainTop, MainCheck, AfterInput, MainSend,
                AfterSendError, MainStop, MainClose, MainReturn, Keyboard,
                Interrupt, Input
  <2>3. CASE Disconnect \/ \E chunk \in Chunks : Arrive(chunk)
    BY <2>3 DEF Disconnect, Arrive
  <2>4. CASE UNCHANGED vars
    BY <2>4 DEF vars, worldVars
  <2> QED
    BY <2>1, <2>2, <2>3, <2>4 DEF Next
<1> QED
  BY <1>1, <1>2, PTL DEF Spec

(* Type correctness: in particular no payload outgrows its length byte, and *)
(* recv never returns more than it was asked for.                          *)
THEOREM TypeCorrect == Spec => []TypeOK
<1>1. EndsTypeOK /\ RxInv => TypeOK
  BY DEF EndsTypeOK, TypeOK, RxInv
<1> QED
  BY <1>1, EndsTyped, RxInvIsInvariant, PTL

-----------------------------------------------------------------------------
(* The bytes of a frame with so much of its payload. *)
Wire(len, payload) == InFrame(CHAT_SYNC_BYTE, len, payload)

LEMMA OnWireIs ==
  ASSUME NEW len \in Byte, NEW payload \in Seq(Byte)
  PROVE  LET p == Wire(len, payload) IN
           /\ p \in Seq(Byte)
           /\ Len(p) = 3 + Len(payload)
           /\ p[1] = CHAT_SYNC_BYTE /\ p[2] = CHAT_SYNC_BYTE /\ p[3] = len
           /\ SubSeq(p, 4, Len(p)) = payload
<1> DEFINE p == Wire(len, payload)
<1>1. CHAT_SYNC_BYTE \in Byte
  OBVIOUS
<1>2. /\ p \in Seq(Byte) /\ Len(p) = 3 + Len(payload)
      /\ p[1] = CHAT_SYNC_BYTE /\ p[2] = CHAT_SYNC_BYTE /\ p[3] = len
  BY <1>1, InFrameStarts DEF Wire
<1>3. SubSeq(p, 4, 3 + Len(payload)) = payload
  BY <1>1, InFrameEnds DEF Wire
<1> HIDE DEF p
<1> QED
  BY <1>2, <1>3 DEF p

LEMMA OnWireGrows ==
  ASSUME NEW len \in Byte, NEW payload \in Seq(Byte), NEW b \in Byte
  PROVE  Append(Wire(len, payload), b) = Wire(len, Append(payload, b))
<1>1. CHAT_SYNC_BYTE \in Byte
  OBVIOUS
<1> QED
  BY <1>1, InFrameGrows DEF Wire

(* A byte fed between frames, or after one sync byte. *)
LEMMA HeaderByteRefines ==
  ASSUME RxInv, RxByte, NEW b \in Byte, ByteInPlaintext(b) \/ ByteInSync1(b)
  PROVE  Decoder!Feed(b)
<1>1. rx = "bytes" /\ rx' = "bytes"
  BY DEF RxByte, ByteInPlaintext, ByteInSync1
<1>2. CASE ByteInPlaintext(b)
  <2>1. Pending = <<>> /\ Append(Pending, b) = <<b>>
    BY <1>2, AppendToHeader DEF ByteInPlaintext, Pending, Holding
  <2>2. ~Decoder!Complete(<<b>>)
    BY DEF Decoder!Complete
  <2>3. Decoder!Viable(<<b>>) <=> b = CHAT_SYNC_BYTE
    BY DEF Decoder!Viable, Decoder!HeaderFits
  <2>4. Pending' = IF b = CHAT_SYNC_BYTE THEN <<b>> ELSE <<>>
    BY <1>1, <1>2 DEF ByteInPlaintext, Pending, Holding
  <2> QED
    BY <1>1, <2>1, <2>2, <2>3, <2>4 DEF Decoder!Feed, Holding
<1>3. CASE ByteInSync1(b)
  <2>1. Append(Pending, b) = <<CHAT_SYNC_BYTE, b>>
    <3>1. Pending = <<CHAT_SYNC_BYTE>>
      BY <1>1, <1>3 DEF ByteInSync1, Pending, Holding
    <3> QED
      BY <3>1, AppendToHeader
  <2>2. ~Decoder!Complete(<<CHAT_SYNC_BYTE, b>>)
    BY DEF Decoder!Complete
  <2>3. Decoder!Viable(<<CHAT_SYNC_BYTE, b>>) <=> b = CHAT_SYNC_BYTE
    BY DEF Decoder!Viable, Decoder!HeaderFits
  <2>4. Pending' = IF b = CHAT_SYNC_BYTE THEN <<CHAT_SYNC_BYTE, b>> ELSE <<>>
    <3>1. CASE b = CHAT_SYNC_BYTE
      BY <1>1, <1>3, <3>1 DEF ByteInSync1, Pending, Holding
    <3>2. CASE b # CHAT_SYNC_BYTE
      BY <1>1, <1>3, <3>2 DEF ByteInSync1, Pending, Holding
    <3> QED
      BY <3>1, <3>2
  <2> QED
    BY <1>1, <2>1, <2>2, <2>3, <2>4 DEF Decoder!Feed, Holding
<1> QED
  BY <1>2, <1>3

(* The length byte. *)
LEMMA LengthByteRefines ==
  ASSUME RxInv, RxByte, NEW b \in Byte, ByteInSync2(b)
  PROVE  Decoder!Feed(b)
<1> DEFINE p == Wire(b, <<>>)
<1>1. rx = "bytes" /\ rx' = "bytes" /\ rx_state = "SYNC2"
  BY DEF RxByte, ByteInSync2
<1>2. p = <<CHAT_SYNC_BYTE, CHAT_SYNC_BYTE, b>> /\ Append(Pending, b) = p
  <2>1. Pending = <<CHAT_SYNC_BYTE, CHAT_SYNC_BYTE>>
    BY <1>1 DEF Pending, Holding
  <2>2. p = <<CHAT_SYNC_BYTE, CHAT_SYNC_BYTE, b>>
    BY ConcatEmptySeq DEF Wire, InFrame
  <2> QED
    BY <2>1, <2>2, AppendToHeader
<1>3. /\ p \in Seq(Byte) /\ Len(p) = 3 /\ p[3] = b
      /\ p[1] = CHAT_SYNC_BYTE /\ p[2] = CHAT_SYNC_BYTE
  BY <1>2
<1> HIDE DEF p
<1> DEFINE valid == b > 0 /\ b <= CHAT_MAX_FRAME
<1>4. ~Decoder!Complete(p) /\ (Decoder!Viable(p) <=> valid)
  BY <1>3 DEF Decoder!Complete, Decoder!Viable, Decoder!HeaderFits, Decoder!Lengths
<1>5. CASE valid
  <2>1. rx_state' = "DATA" /\ rx_expected_length' = b /\ rx_frame_buffer' = <<>>
    BY <1>5 DEF ByteInSync2
  <2>2. Pending' = p
    BY <1>1, <2>1 DEF Pending, Holding, Wire, InFrame, p
  <2> QED
    BY <1>1, <1>2, <1>4, <1>5, <2>2 DEF Decoder!Feed, Holding
<1>6. CASE ~valid
  <2>1. rx_state' = "PLAINTEXT"
    BY <1>6 DEF ByteInSync2
  <2>2. Pending' = <<>>
    BY <1>1, <2>1 DEF Pending, Holding
  <2> QED
    BY <1>1, <1>2, <1>4, <1>6, <2>2 DEF Decoder!Feed, Holding
<1> QED
  BY <1>5, <1>6

(* A payload byte: the last one completes the frame. *)
LEMMA PayloadByteRefines ==
  ASSUME RxInv, RxByte, NEW b \in Byte, ByteInData(b)
  PROVE  Decoder!Feed(b)
<1> DEFINE payload == Append(rx_frame_buffer, b)
           p == Wire(rx_expected_length, payload)
<1>1. /\ rx = "bytes" /\ rx_state = "DATA" /\ rx_state' = "DATA"
      /\ rx_frame_buffer' = payload /\ rx_expected_length' = rx_expected_length
      /\ rx_expected_length \in Byte \cap 1..CHAT_MAX_FRAME
      /\ Len(rx_frame_buffer) < rx_expected_length
      /\ rx_frame_buffer \in Seq(Byte)
  BY DEF RxByte, ByteInData, RxInv, PayloadUnderWay, Holding
<1>2. payload \in Seq(Byte) /\ Len(payload) = Len(rx_frame_buffer) + 1
  BY <1>1
<1> HIDE DEF payload
<1>3. /\ p \in Seq(Byte) /\ Len(p) = 3 + Len(payload)
      /\ p[1] = CHAT_SYNC_BYTE /\ p[2] = CHAT_SYNC_BYTE
      /\ p[3] = rx_expected_length
      /\ Decoder!Payload(p) = payload
  BY ZenonT(40), <1>1, <1>2, OnWireIs DEF Decoder!Payload
<1>4. Append(Pending, b) = p
  <2>1. Pending = Wire(rx_expected_length, rx_frame_buffer)
    BY <1>1 DEF Pending, Holding, Wire, InFrame
  <2>2. Append(Wire(rx_expected_length, rx_frame_buffer), b)
          = Wire(rx_expected_length, Append(rx_frame_buffer, b))
    BY <1>1, OnWireGrows
  <2> QED
    BY <2>1, <2>2 DEF payload
<1> HIDE DEF p
<1>5. Decoder!HeaderFits(p)
  BY <1>1, <1>3 DEF Decoder!HeaderFits, Decoder!Lengths
<1>6. CASE LastByte
  <2>1. Decoder!Complete(p)
    BY <1>1, <1>2, <1>3, <1>5, <1>6 DEF Decoder!Complete, LastByte
  <2>2. rx' = "frame" /\ Pending' = <<>>
    BY <1>6 DEF ByteInData, Pending, Holding
  <2> QED
    BY <1>1, <1>3, <1>4, <2>1, <2>2 DEF Decoder!Feed, Holding
<1>7. CASE ~LastByte
  <2>1. ~Decoder!Complete(p) /\ Decoder!Viable(p)
    BY <1>1, <1>2, <1>3, <1>5, <1>7 DEF Decoder!Complete, Decoder!Viable, LastByte
  <2>2. rx' = "bytes"
    BY <1>7 DEF ByteInData
  <2>3. Pending' = p
    BY <1>1, <2>2 DEF Pending, Holding, Wire, InFrame, p
  <2> QED
    BY <1>1, <1>4, <2>1, <2>2, <2>3 DEF Decoder!Feed, Holding
<1> QED
  BY <1>6, <1>7

LEMMA ByteRefines ==
  ASSUME RxInv, RxByte
  PROVE  /\ Head(data) \in Byte
         /\ Decoder!Feed(Head(data))
<1>1. Head(data) \in Byte
  BY DEF RxInv, RxByte
<1> QED
  BY <1>1, HeaderByteRefines, LengthByteRefines, PayloadByteRefines DEF RxByte

(* decode_frame works on the whole payload: the frame is taken. *)
LEMMA FrameRefines ==
  ASSUME RxInv, RxFrame
  PROVE  Decoder!Take
<1>1. rx = "frame" /\ rx' = "bytes" /\ rx_state' = "PLAINTEXT"
  BY DEF RxFrame
<1>2. rx_frame_buffer # <<>>
  BY <1>1 DEF RxInv, PayloadUnderWay, Holding
<1>3. Pending = <<>> /\ Pending' = <<>>
  BY <1>1 DEF Pending, Holding
<1> QED
  BY <1>1, <1>2, <1>3 DEF Decoder!Take, Holding

(* Nothing else touches the frame under way, or takes a byte. *)
FramerRests ==
  /\ UNCHANGED <<rx_state, rx_frame_buffer, rx_expected_length>>
  /\ Holding <=> Holding'
  /\ data' = data \/ data = <<>>

LEMMA RestingRefines ==
  ASSUME RxInv, FramerRests
  PROVE  UNCHANGED Decoder!vars /\ HearsEveryByte
<1>1. UNCHANGED Decoder!vars
  BY DEF FramerRests, Decoder!vars, Pending
<1>2. ~(data # <<>> /\ data' = Tail(data))
  BY DEF RxInv, FramerRests
<1> QED
  BY <1>1, <1>2 DEF HearsEveryByte

LEMMA StepRefines ==
  ASSUME RxInv, [Next]_vars
  PROVE  [Decoder!Next]_(Decoder!vars) /\ [HearsEveryByte]_vars
<1>1. CASE receive_thread
  <2>1. CASE RxByte
    BY <2>1, ByteRefines DEF Decoder!Next, HearsEveryByte
  <2>2. CASE RxFrame
    <3>1. ~(data # <<>> /\ data' = Tail(data))
      BY <2>2 DEF RxFrame, RxInv
    <3> QED
      BY <2>2, <3>1, FrameRefines DEF Decoder!Next, HearsEveryByte
  <2>3. CASE RxTop \/ RxSelect \/ RxFrameFails \/ RxBytesDone
    <3>1. FramerRests
      BY <2>3 DEF FramerRests, RxTop, RxSelect, Raise, RxFrameFails, RxBytesDone,
                  Holding, rxVars
    <3> QED
      BY <3>1, RestingRefines
  <2>4. CASE RxRecv
    <3>1. data = <<>>
      BY <2>4 DEF RxRecv, RxInv, WorksOffFirst
    <3>2. FramerRests
      BY <2>4, <3>1 DEF FramerRests, RxRecv, Raise, Holding, rxVars
    <3> QED
      BY <3>2, RestingRefines
  <2> QED
    BY <1>1, <2>1, <2>2, <2>3, <2>4 DEF receive_thread
<1>2. CASE MainThread \/ Disconnect \/ UNCHANGED vars
           \/ \E chunk \in Chunks : Arrive(chunk)
  <2>1. FramerRests
    BY <1>2 DEF FramerRests, MainThread, Disconnect, Arrive, Holding, vars, rxVars
  <2> QED
    BY <2>1, RestingRefines
<1> QED
  BY <1>1, <1>2 DEF Next

(* process_rx_byte, fed by receive_thread with whatever recv has cut out of *)
(* the stream, recognises the wire format as the board's framer does: no   *)
(* byte is lost or taken twice between two calls of recv.                  *)
THEOREM ClientImplementsDecoder == Spec => ImplementsFrameDecoder
<1>1. Init => Decoder!Init
  BY DEF Init, Decoder!Init, Pending, Holding
<1> QED
  BY <1>1, RxInvIsInvariant, StepRefines, PTL
     DEF Spec, ImplementsFrameDecoder, Decoder!Spec

-----------------------------------------------------------------------------
(* What is on its way through the client: the frame under way, what recv    *)
(* has returned, and what waits for recv.  While nothing is spoilt, this   *)
(* is a stream of whole frames, and what they say is what is still due.    *)
InFlight ==
  IF Holding
    THEN Wire(rx_expected_length, rx_frame_buffer)
    ELSE Pending

Flight == (InFlight \o data) \o stream

Frames ==
  {[bytes |-> chunk.bytes, count |-> Len(chunk.says)] :
     chunk \in {k \in Chunks : k.whole}}

OnlyFramesInFlight ==
  ~spoilt => \E n \in Nat : /\ Counts(Byte, Frames, Flight, n)
                           /\ Len(due) - Len(shown) = missed + n

(* What can be due and shown. *)
Said == {chunk.says[1] : chunk \in Chunks}

MessageOf(payload) ==
  LET in == decode_frame(payload) IN
    [user_id |-> in.user_id, text |-> Readout(in.message)]

Messages == {MessageOf(payload) : payload \in Seq(Byte)}

ShowInv ==
  /\ due \in Seq(Said)
  /\ shown \in Seq(Messages)
  /\ missed \in Int
  /\ spoilt \in BOOLEAN
  /\ OnlyFramesInFlight

LEMMA ChunkSays ==
  ASSUME NEW chunk \in Chunks
  PROVE  chunk.says \in Seq(Said) /\ (chunk.says = <<>> \/ Len(chunk.says) = 1)
<1>1. CASE chunk.says = <<>>
  BY <1>1
<1>2. ASSUME NEW x, chunk.says = <<x>>
      PROVE  chunk.says \in Seq(Said) /\ Len(chunk.says) = 1
  <2>1. x \in Said
    BY <1>2 DEF Said
  <2> QED
    BY <1>2, <2>1
<1> QED
  BY <1>1, <1>2, ChunksAssumption DEF WholeChunk

LEMMA FramesAreItems == AreItems(Byte, Frames)
<1> SUFFICES ASSUME NEW chunk \in Chunks
             PROVE  chunk.bytes \in Seq(Byte) /\ Len(chunk.says) \in Nat
  BY DEF AreItems, Frames
<1> QED
  BY ChunkSays

LEMMA WholeChunkIsFrame ==
  ASSUME NEW chunk \in Chunks, chunk.whole
  PROVE  IsFrame(Byte, CHAT_SYNC_BYTE, CHAT_MAX_FRAME, chunk.bytes)
<1> DEFINE payload == SubSeq(chunk.bytes, 4, Len(chunk.bytes))
<1>1. /\ Len(payload) \in Byte \cap 1..CHAT_MAX_FRAME
      /\ chunk.bytes = Wire(Len(payload), payload)
  BY ChunksAssumption DEF WholeChunk, Wire, InFrame
<1>2. chunk.bytes \in Seq(Byte)
  OBVIOUS
<1>3. payload \in Seq(Byte)
  BY <1>1, <1>2
<1> HIDE DEF payload
<1> DEFINE f == Wire(Len(payload), payload)
<1>4. /\ f \in Seq(Byte) /\ Len(f) = 3 + Len(payload)
      /\ f[1] = CHAT_SYNC_BYTE /\ f[2] = CHAT_SYNC_BYTE /\ f[3] = Len(payload)
  BY <1>1, <1>3, OnWireIs
<1> HIDE DEF f
<1>5. IsFrame(Byte, CHAT_SYNC_BYTE, CHAT_MAX_FRAME, f)
  BY <1>1, <1>4 DEF IsFrame
<1> QED
  BY <1>1, <1>5 DEF f

(* A frame that has been taken off the stream says what it adds to shown. *)
LEMMA WholeChunkSays ==
  ASSUME NEW chunk \in Chunks, chunk.whole,
         NEW len \in Byte, NEW payload \in Seq(Byte),
         chunk.bytes = Wire(len, payload)
  PROVE  LET in == decode_frame(payload) IN
           /\ in.ok
           /\ Len(chunk.says) = IF in.user_id = ClientId THEN 0 ELSE 1
<1>1. SubSeq(chunk.bytes, 4, Len(chunk.bytes)) = payload
  BY OnWireIs
<1>2. WholeChunk(chunk)
  BY ChunksAssumption
<1> DEFINE in == decode_frame(payload)
<1>3. /\ in.ok
      /\ chunk.says = IF in.user_id = ClientId THEN <<>>
                      ELSE <<[user_id |-> in.user_id, text |-> Readout(in.message)]>>
  BY <1>1, <1>2 DEF WholeChunk
<1> HIDE DEF in
<1> QED
  BY <1>3 DEF in

LEMMA FlightIs ==
  ASSUME RxInv
  PROVE  /\ Pending \in Seq(Byte)
         /\ Unfinished(Pending)
         /\ InFlight \in Seq(Byte)
         /\ InFlight \o data \in Seq(Byte)
         /\ Flight \in Seq(Byte)
<1>1. ~Holding /\ rx_state = "DATA" =>
        /\ rx_expected_length \in Byte
        /\ Len(rx_frame_buffer) < rx_expected_length
        /\ Pending = Wire(rx_expected_length, rx_frame_buffer)
  BY DEF RxInv, PayloadUnderWay, Pending, Holding, Wire, InFrame
<1>2. Pending \in Seq(Byte) /\ Unfinished(Pending)
  <2> USE DEF Unfinished
  <2>1. CASE ~Holding /\ rx_state = "DATA"
    <3> DEFINE p == Wire(rx_expected_length, rx_frame_buffer)
    <3>1. rx_expected_length \in Byte /\ rx_frame_buffer \in Seq(Byte) /\ Pending = p
      BY <1>1, <2>1 DEF RxInv
    <3>2. /\ p \in Seq(Byte) /\ Len(p) = 3 + Len(rx_frame_buffer)
          /\ p[3] = rx_expected_length
      BY <3>1, OnWireIs
    <3> HIDE DEF p
    <3>3. Len(rx_frame_buffer) \in Nat /\ rx_expected_length \in Nat
      BY <3>1, LenProperties
    <3> QED
      BY <1>1, <2>1, <3>1, <3>2, <3>3
  <2>2. CASE Holding \/ rx_state = "PLAINTEXT"
    <3>1. Pending = <<>>
      BY <2>2 DEF Pending, Holding
    <3> QED
      BY <3>1
  <2>3. CASE ~Holding /\ rx_state = "SYNC1"
    <3>1. Pending = <<CHAT_SYNC_BYTE>>
      BY <2>3 DEF Pending, Holding
    <3> QED
      BY <3>1
  <2>4. CASE ~Holding /\ rx_state = "SYNC2"
    <3>1. Pending = <<CHAT_SYNC_BYTE, CHAT_SYNC_BYTE>>
      BY <2>4 DEF Pending, Holding
    <3> QED
      BY <3>1
  <2> QED
    BY <2>1, <2>2, <2>3, <2>4 DEF RxInv
<1>3. InFlight \in Seq(Byte)
  <2>1. CASE Holding
    BY <2>1, OnWireIs DEF RxInv, PayloadUnderWay, InFlight, Holding
  <2> QED
    BY <1>2, <2>1 DEF InFlight, Holding
<1>4. data \in Seq(Byte) /\ stream \in Seq(Byte)
  BY DEF RxInv
<1> QED
  BY <1>2, <1>3, <1>4, ConcatProperties DEF Flight

(* While frames are under way, one of them comes first. *)
LEMMA FrameComesFirst ==
  ASSUME NEW s \in Seq(Byte), NEW n \in Nat, Counts(Byte, Frames, s, n)
  PROVE  \/ s = <<>> /\ n = 0
         \/ \E chunk \in Chunks, q \in Seq(Byte), m \in Nat :
              /\ chunk.whole
              /\ IsFrame(Byte, CHAT_SYNC_BYTE, CHAT_MAX_FRAME, chunk.bytes)
              /\ s = chunk.bytes \o q
              /\ Counts(Byte, Frames, q, m)
              /\ n = Len(chunk.says) + m
<1>1. HeadFirst(Byte, Frames, s, n)
  BY FrameFirst, FramesAreItems
<1>2. ASSUME NEW f \in Frames, NEW q \in Seq(Byte), NEW m \in Nat,
             Counts(Byte, Frames, q, m), s = f.bytes \o q, n = f.count + m
      PROVE  \E chunk \in Chunks, r \in Seq(Byte), k \in Nat :
               /\ chunk.whole
               /\ IsFrame(Byte, CHAT_SYNC_BYTE, CHAT_MAX_FRAME, chunk.bytes)
               /\ s = chunk.bytes \o r
               /\ Counts(Byte, Frames, r, k)
               /\ n = Len(chunk.says) + k
  <2>1. PICK chunk \in Chunks :
               chunk.whole /\ f = [bytes |-> chunk.bytes, count |-> Len(chunk.says)]
    BY DEF Frames
  <2>2. f.bytes = chunk.bytes /\ f.count = Len(chunk.says)
    BY <2>1
  <2> QED
    BY <1>2, <2>1, <2>2, WholeChunkIsFrame
<1> QED
  BY <1>1, <1>2 DEF HeadFirst

(* Of whole frames the framer lets no byte pass: each goes from data to the *)
(* frame under way.                                                        *)
LEMMA ByteStaysInFlight ==
  ASSUME RxInv, RxByte, NEW n \in Nat, Counts(Byte, Frames, Flight, n)
  PROVE  Flight' = Flight
<1> DEFINE b == Head(data)
           a == Append(Pending, b)
<1>1. /\ rx = "bytes" /\ data # <<>> /\ data' = Tail(data) /\ stream' = stream
      /\ data \in Seq(Byte) /\ stream \in Seq(Byte)
      /\ ByteInPlaintext(b) \/ ByteInSync1(b) \/ ByteInSync2(b) \/ ByteInData(b)
  BY DEF RxByte, RxInv
<1>2. InFlight = Pending /\ Flight = (Pending \o data) \o stream
  BY <1>1 DEF InFlight, Holding, Flight
<1>3. /\ b \in Byte /\ Tail(data) \in Seq(Byte)
      /\ a \in Seq(Byte) /\ OneMore(Pending, a)
      /\ Flight = (a \o Tail(data)) \o stream
      /\ Flight = a \o (Tail(data) \o stream)
      /\ Tail(data) \o stream \in Seq(Byte)
  <2>1. Pending \in Seq(Byte) /\ b \in Byte /\ Tail(data) \in Seq(Byte)
    BY <1>1, FlightIs
  <2>2. a \in Seq(Byte) /\ OneMore(Pending, a)
    BY <2>1 DEF OneMore
  <2>3. data = <<b>> \o Tail(data)
    BY <1>1, FirstByte
  <2>4. a = Pending \o <<b>>
    BY <2>1, AppendIsConcat
  <2>5. Tail(data) \o stream \in Seq(Byte)
    BY <1>1, <2>1, ConcatProperties
  <2> HIDE DEF a, b
  <2> DEFINE t == Tail(data)
  <2> HIDE DEF t
  <2>6. t \in Seq(Byte) /\ data = <<b>> \o t
    BY <2>1, <2>3 DEF t
  <2>7. /\ Flight = (a \o t) \o stream
        /\ Flight = a \o (t \o stream)
    <3> DEFINE one == <<b>>
    <3>1. one \in Seq(Byte) /\ stream \in Seq(Byte) /\ a = Pending \o one /\ data = one \o t
      BY <1>1, <2>1, <2>4, <2>6
    <3> HIDE DEF one
    <3>2. (Pending \o one) \o t = Pending \o (one \o t)
      <4>1. Pending \in Seq(Byte) /\ one \in Seq(Byte) /\ t \in Seq(Byte)
        BY <2>1, <2>6, <3>1
      <4>2. Associates(Pending, one, t)
        BY <4>1, Regroup
      <4> QED
        BY <4>2 DEF Associates
    <3>3. (a \o t) \o stream = a \o (t \o stream)
      <4>1. a \in Seq(Byte) /\ t \in Seq(Byte) /\ stream \in Seq(Byte)
        BY <2>2, <2>6, <3>1
      <4>2. Associates(a, t, stream)
        BY <4>1, Regroup
      <4> QED
        BY <4>2 DEF Associates
    <3> QED
      BY <1>2, <3>1, <3>2, <3>3
  <2> QED
    BY <2>1, <2>2, <2>5, <2>7 DEF t
<1>4. InFlight' = a => Flight' = Flight
  BY <1>1, <1>3 DEF Flight
<1> HIDE DEF b
<1>5. CASE ByteInData(b)
  <2>1. /\ rx_state = "DATA" /\ rx_state' = "DATA"
        /\ rx_expected_length' = rx_expected_length
        /\ rx_frame_buffer' = Append(rx_frame_buffer, b)
        /\ rx_expected_length \in Byte /\ rx_frame_buffer \in Seq(Byte)
    BY <1>5 DEF ByteInData, RxInv, PayloadUnderWay, Holding
  <2>2. a = Wire(rx_expected_length', rx_frame_buffer')
    <3>1. Pending = Wire(rx_expected_length, rx_frame_buffer)
      BY <1>1, <2>1 DEF Pending, Holding, Wire, InFrame
    <3>2. Append(Wire(rx_expected_length, rx_frame_buffer), b)
            = Wire(rx_expected_length, Append(rx_frame_buffer, b))
      BY <1>3, <2>1, OnWireGrows
    <3> QED
      BY <2>1, <3>1, <3>2
  <2>3. InFlight' = Wire(rx_expected_length', rx_frame_buffer')
    BY <2>1 DEF InFlight, Pending, Holding, Wire, InFrame
  <2> QED
    BY <1>4, <2>2, <2>3
<1>6. ASSUME ~ByteInData(b)
      PROVE  InFlight' = a
  <2>1. Flight # <<>>
    <3> DEFINE rest == Tail(data) \o stream
    <3>1. /\ a \in Seq(Byte) /\ rest \in Seq(Byte) /\ Flight = a \o rest
          /\ Len(a) = Len(Pending) + 1 /\ Len(Pending) \in Nat
      BY <1>3, FlightIs, LenProperties DEF OneMore
    <3> HIDE DEF a, rest
    <3>2. a # <<>>
      BY <3>1
    <3> QED
      BY <3>1, <3>2, ConcatSimplifications
  <2>2. PICK chunk \in Chunks, q \in Seq(Byte), m \in Nat :
          /\ IsFrame(Byte, CHAT_SYNC_BYTE, CHAT_MAX_FRAME, chunk.bytes)
          /\ Flight = chunk.bytes \o q
    BY <2>1, FrameComesFirst, FlightIs
  <2> DEFINE f == chunk.bytes
  <2>3. StartsWith(f, a)
    <3> DEFINE rest == Tail(data) \o stream
    <3>1. /\ a \in Seq(Byte) /\ rest \in Seq(Byte) /\ a \o rest = f \o q
          /\ OneMore(Pending, a)
      BY <1>3, <2>2
    <3>2. Pending \in Seq(Byte) /\ Unfinished(Pending)
      BY FlightIs
    <3>3. IsFrame(Byte, CHAT_SYNC_BYTE, CHAT_MAX_FRAME, f)
      BY <2>2
    <3>4. CHAT_SYNC_BYTE \in Byte /\ CHAT_MAX_FRAME \in Nat
      OBVIOUS
    <3> HIDE DEF a, rest, f
    <3> QED
      BY <3>1, <3>2, <3>3, <3>4, StartOfFrame
  <2>4. f[1] = CHAT_SYNC_BYTE /\ f[2] = CHAT_SYNC_BYTE /\ f[3] \in Byte \cap 1..CHAT_MAX_FRAME
    BY <2>2 DEF IsFrame
  <2> HIDE DEF f
  <2>5. CASE ByteInPlaintext(b)
    <3>1. a = <<b>>
      BY <1>3, <2>5, AppendToHeader DEF ByteInPlaintext, Pending, Holding
    <3>2. b = CHAT_SYNC_BYTE
      BY <2>3, <2>4, <3>1 DEF StartsWith
    <3>3. rx' = "bytes" /\ rx_state' = "SYNC1"
      BY <1>1, <2>5, <3>2 DEF ByteInPlaintext
    <3> QED
      BY <3>1, <3>2, <3>3 DEF InFlight, Pending, Holding
  <2>6. CASE ByteInSync1(b)
    <3>1. a = <<CHAT_SYNC_BYTE, b>>
      BY <1>1, <1>3, <2>6, AppendToHeader DEF ByteInSync1, Pending, Holding
    <3>2. b = CHAT_SYNC_BYTE
      <4>1. <<CHAT_SYNC_BYTE, b>>[2] = b /\ Len(<<CHAT_SYNC_BYTE, b>>) = 2
        OBVIOUS
      <4> DEFINE two == <<CHAT_SYNC_BYTE, b>>
      <4> HIDE DEF two
      <4>2. a = two /\ two[2] = b /\ Len(two) = 2
        BY <3>1, <4>1 DEF two
      <4>3. a[2] = f[2]
        BY <2>3, <4>2 DEF StartsWith
      <4> QED
        BY <2>4, <4>2, <4>3
    <3>3. rx' = "bytes" /\ rx_state' = "SYNC2"
      BY <1>1, <2>6, <3>2 DEF ByteInSync1
    <3> QED
      BY <3>1, <3>2, <3>3 DEF InFlight, Pending, Holding
  <2>7. CASE ByteInSync2(b)
    <3>1. a = <<CHAT_SYNC_BYTE, CHAT_SYNC_BYTE, b>>
      <4>1. Pending = <<CHAT_SYNC_BYTE, CHAT_SYNC_BYTE>>
        BY <1>1, <2>7 DEF ByteInSync2, Pending, Holding
      <4>2. CHAT_SYNC_BYTE \in Byte /\ b \in Byte
        BY <1>3
      <4>3. Append(<<CHAT_SYNC_BYTE, CHAT_SYNC_BYTE>>, b)
              = <<CHAT_SYNC_BYTE, CHAT_SYNC_BYTE, b>>
        BY ONLY <4>2, AppendToHeader, Zenon
      <4> QED
        BY <4>1, <4>3
    <3>2. b > 0 /\ b <= CHAT_MAX_FRAME
      BY <2>3, <2>4, <3>1 DEF StartsWith
    <3>3. /\ rx' = "bytes" /\ rx_state' = "DATA"
          /\ rx_expected_length' = b /\ rx_frame_buffer' = <<>>
      BY <1>1, <2>7, <3>2 DEF ByteInSync2
    <3>4. <<CHAT_SYNC_BYTE, CHAT_SYNC_BYTE, b>> \o <<>> = a
      BY <1>3, <3>1, ConcatEmptySeq
    <3>5. Pending' = <<CHAT_SYNC_BYTE, CHAT_SYNC_BYTE, b>> \o <<>>
      BY <3>3 DEF Pending, Holding
    <3> QED
      BY <3>3, <3>4, <3>5 DEF InFlight, Holding
  <2> QED
    BY <1>1, <1>6, <2>5, <2>6, <2>7
<1> QED
  BY <1>4, <1>5, <1>6

LEMMA ByteKeepsShowInv ==
  ASSUME RxInv, ShowInv, RxByte, UNCHANGED <<due, missed, spoilt>>
  PROVE  ShowInv'
<1>1. shown' = shown
  BY DEF RxByte
<1>2. ASSUME NEW n \in Nat, Counts(Byte, Frames, Flight, n)
      PROVE  Counts(Byte, Frames, Flight', n)
  BY <1>2, ByteStaysInFlight
<1> QED
  BY <1>1, <1>2 DEF ShowInv, OnlyFramesInFlight

(* The frame that is handled is the one that comes first. *)
LEMMA FrameKeepsShowInv ==
  ASSUME RxInv, ShowInv, RxFrame, UNCHANGED <<due, missed, spoilt>>
  PROVE  ShowInv'
<1> DEFINE in == decode_frame(rx_frame_buffer)
           g == Wire(rx_expected_length, rx_frame_buffer)
           r == data \o stream
<1>1. /\ rx = "frame" /\ rx' = "bytes" /\ rx_state' = "PLAINTEXT"
      /\ data' = data /\ stream' = stream
      /\ shown' = IF in.ok /\ in.user_id # ClientId
                    THEN Append(shown, MessageOf(rx_frame_buffer)) ELSE shown
  BY DEF RxFrame, MessageOf, Heard
<1>2. /\ rx_frame_buffer \in Seq(Byte)
      /\ rx_expected_length \in Byte \cap 1..CHAT_MAX_FRAME
      /\ Len(rx_frame_buffer) = rx_expected_length
      /\ data \in Seq(Byte) /\ stream \in Seq(Byte)
  BY <1>1 DEF RxInv, PayloadUnderWay, Holding
<1>3. g \in Seq(Byte) /\ IsFrame(Byte, CHAT_SYNC_BYTE, CHAT_MAX_FRAME, g)
  <2>1. /\ g \in Seq(Byte) /\ Len(g) = 3 + Len(rx_frame_buffer)
        /\ g[1] = CHAT_SYNC_BYTE /\ g[2] = CHAT_SYNC_BYTE /\ g[3] = rx_expected_length
    BY <1>2, OnWireIs
  <2> HIDE DEF g
  <2> QED
    BY <1>2, <2>1 DEF IsFrame
<1>4. /\ Flight = g \o r /\ Flight' = r
      /\ r \in Seq(Byte) /\ Flight \in Seq(Byte)
  <2>1. InFlight = g
    BY <1>1 DEF InFlight, Holding
  <2>2. InFlight' = <<>>
    BY <1>1 DEF InFlight, Pending, Holding
  <2> HIDE DEF g
  <2>3. (g \o data) \o stream = g \o (data \o stream)
    <3>1. g \in Seq(Byte) /\ data \in Seq(Byte) /\ stream \in Seq(Byte)
      BY <1>2, <1>3
    <3>2. Associates(g, data, stream)
      BY <3>1, Regroup
    <3> QED
      BY <3>2 DEF Associates
  <2>4. <<>> \o data = data
    BY <1>2, ConcatEmptySeq
  <2>5. r \in Seq(Byte) /\ Flight \in Seq(Byte)
    BY <1>2, FlightIs, ConcatProperties
  <2> QED
    BY <1>1, <2>1, <2>2, <2>3, <2>4, <2>5 DEF Flight
<1>5. shown' \in Seq(Messages)
  <2>1. MessageOf(rx_frame_buffer) \in Messages
    BY <1>2 DEF Messages
  <2>2. shown \in Seq(Messages)
    BY DEF ShowInv
  <2> HIDE DEF in
  <2> QED
    BY <1>1, <2>1, <2>2
<1>6. ASSUME ~spoilt
      PROVE  \E m \in Nat : /\ Counts(Byte, Frames, r, m)
                            /\ Len(due) - Len(shown') = missed + m
  <2>1. PICK n \in Nat : /\ Counts(Byte, Frames, Flight, n)
                         /\ Len(due) - Len(shown) = missed + n
    BY <1>6 DEF ShowInv, OnlyFramesInFlight
  <2>2. Flight # <<>>
    <3>1. g # <<>>
      <4> HIDE DEF g
      <4> QED
        BY <1>3 DEF IsFrame
    <3> HIDE DEF g, r
    <3> QED
      BY <1>3, <1>4, <3>1, ConcatSimplifications
  <2>3. PICK chunk \in Chunks, q \in Seq(Byte), m \in Nat :
          /\ chunk.whole
          /\ IsFrame(Byte, CHAT_SYNC_BYTE, CHAT_MAX_FRAME, chunk.bytes)
          /\ Flight = chunk.bytes \o q
          /\ Counts(Byte, Frames, q, m)
          /\ n = Len(chunk.says) + m
    BY <1>4, <2>1, <2>2, FrameComesFirst
  <2> DEFINE f == chunk.bytes
  <2>4. f = g /\ q = r
    <3>1. FrameThen(Byte, CHAT_SYNC_BYTE, CHAT_MAX_FRAME, f, q, Flight)
      BY <2>3 DEF FrameThen
    <3>2. FrameThen(Byte, CHAT_SYNC_BYTE, CHAT_MAX_FRAME, g, r, Flight)
      BY <1>3, <1>4 DEF FrameThen
    <3>3. CHAT_MAX_FRAME \in Nat
      OBVIOUS
    <3> HIDE DEF f, g, r
    <3> QED
      BY <3>1, <3>2, <3>3, SameFrame
  <2>5. /\ in.ok
        /\ Len(chunk.says) = IF in.user_id = ClientId THEN 0 ELSE 1
    BY <1>2, <2>3, <2>4, WholeChunkSays
  <2>6. Len(shown') - Len(shown) = Len(chunk.says) /\ Len(shown') \in Nat
    <3>1. shown \in Seq(Messages)
      BY DEF ShowInv
    <3> HIDE DEF in
    <3> QED
      BY <1>1, <2>5, <3>1
  <2>7. /\ Len(shown) \in Nat /\ missed \in Int /\ Len(chunk.says) \in Nat
    BY <2>5, LenProperties DEF ShowInv
  <2>8. Len(due) - Len(shown') = missed + m
    <3>1. Len(due) - Len(shown) = missed + n /\ n = Len(chunk.says) + m /\ m \in Nat
      BY <2>1, <2>3
    <3> QED
      BY <2>6, <2>7, <3>1
  <2> HIDE DEF r
  <2> QED
    BY <2>3, <2>4, <2>8
<1> HIDE DEF r, g, in
<1>7. OnlyFramesInFlight'
  BY <1>4, <1>6 DEF OnlyFramesInFlight
<1> QED
  BY <1>5, <1>7 DEF ShowInv

LEMMA InFlightStays ==
  ASSUME RxInv, UNCHANGED <<rx_state, rx_frame_buffer, rx_expected_length>>,
         ~Holding, ~Holding'
  PROVE  InFlight' = InFlight
<1>1. rx_state \in {"PLAINTEXT", "SYNC1", "SYNC2", "DATA"}
  BY DEF RxInv
<1> QED
  BY <1>1 DEF InFlight, Pending

LEMMA RecvKeepsFlight ==
  ASSUME RxInv, RxRecv
  PROVE  Flight' = Flight
<1>1. CASE UNCHANGED <<rxVars, stream>> /\ rx' = "gone" /\ rx = "recv"
  <2>1. InFlight' = InFlight
    BY <1>1, InFlightStays DEF Holding, rxVars
  <2> QED
    BY <1>1, <2>1 DEF Flight, rxVars
<1>2. CASE ~(UNCHANGED <<rxVars, stream>> /\ rx' = "gone" /\ rx = "recv")
  <2>1. /\ rx = "recv" /\ rx' = "bytes"
        /\ UNCHANGED <<rx_state, rx_frame_buffer, rx_expected_length>>
    BY <1>2 DEF RxRecv, Raise
  <2>2. PICK n \in 1..RECV_MAX :
          /\ n <= Len(stream)
          /\ data' = SubSeq(stream, 1, n)
          /\ stream' = SubSeq(stream, n + 1, Len(stream))
    BY <1>2 DEF RxRecv, Raise
  <2>3. data = <<>> /\ stream \in Seq(Byte) /\ InFlight \in Seq(Byte)
    BY <2>1, FlightIs DEF RxInv, WorksOffFirst
  <2>4. data' \in Seq(Byte) /\ stream' \in Seq(Byte) /\ data' \o stream' = stream
    <3>1. n \in 1..Len(stream)
      BY <2>2, <2>3
    <3> QED
      BY <2>2, <2>3, <3>1, CutInTwo
  <2>5. InFlight' = InFlight
    BY <2>1, InFlightStays DEF Holding
  <2>6. (InFlight \o data') \o stream' = InFlight \o (data' \o stream')
    <3>1. InFlight \in Seq(Byte) /\ data' \in Seq(Byte) /\ stream' \in Seq(Byte)
      BY <2>3, <2>4
    <3>2. Associates(InFlight, data', stream')
      BY <3>1, Regroup
    <3> QED
      BY <3>2 DEF Associates
  <2>7. InFlight \o data = InFlight
    BY <2>3, ConcatEmptySeq
  <2> QED
    BY <2>4, <2>5, <2>6, <2>7 DEF Flight
<1> QED
  BY <1>1, <1>2

(* A chunk is put behind all that is under way, which is nothing when the   *)
(* client is settled.                                                      *)
LEMMA ArriveKeepsShowInv ==
  ASSUME RxInv, ShowInv, NEW chunk \in Chunks, Arrive(chunk)
  PROVE  ShowInv'
<1>1. /\ stream' = stream \o chunk.bytes
      /\ due' = due \o chunk.says
      /\ spoilt' = ((spoilt /\ ~Settled) \/ ~chunk.whole)
      /\ missed' = IF Settled THEN Len(due) - Len(shown) ELSE missed
      /\ UNCHANGED <<rx, data, rx_state, rx_frame_buffer, rx_expected_length, shown>>
  BY DEF Arrive, rxVars
<1>2. /\ due \in Seq(Said) /\ chunk.says \in Seq(Said) /\ due' \in Seq(Said)
      /\ Len(due') - Len(due) = Len(chunk.says) /\ Len(due') \in Nat
      /\ Len(due) \in Nat /\ Len(chunk.says) \in Nat /\ Len(shown) \in Nat
      /\ missed \in Int
  BY <1>1, ChunkSays, ConcatProperties, LenProperties DEF ShowInv
<1>3. missed' \in Int /\ spoilt' \in BOOLEAN
  BY <1>1, <1>2 DEF ShowInv
<1>4. Flight' = Flight \o chunk.bytes /\ Flight \in Seq(Byte)
  <2>1. /\ InFlight \o data \in Seq(Byte) /\ stream \in Seq(Byte)
        /\ chunk.bytes \in Seq(Byte) /\ Flight \in Seq(Byte)
    BY FlightIs DEF RxInv
  <2>2. InFlight' = InFlight
    BY <1>1 DEF InFlight, Pending, Holding
  <2>3. Flight' = (InFlight \o data) \o (stream \o chunk.bytes)
    BY <1>1, <2>2 DEF Flight
  <2> DEFINE before == InFlight \o data
             bytes == chunk.bytes
  <2> HIDE DEF before, bytes
  <2>4. before \in Seq(Byte) /\ stream \in Seq(Byte) /\ bytes \in Seq(Byte)
    BY <2>1 DEF before, bytes
  <2>5. (before \o stream) \o bytes = before \o (stream \o bytes)
    <3>1. Associates(before, stream, bytes)
      BY <2>4, Regroup
    <3> QED
      BY <3>1 DEF Associates
  <2> QED
    BY <2>1, <2>3, <2>5 DEF Flight, before, bytes
<1>5. ASSUME chunk.whole, NEW n \in Nat, Counts(Byte, Frames, Flight, n),
             Len(due) - Len(shown) = missed' + n
      PROVE  \E m \in Nat : /\ Counts(Byte, Frames, Flight', m)
                            /\ Len(due') - Len(shown) = missed' + m
  <2> DEFINE f == [bytes |-> chunk.bytes, count |-> Len(chunk.says)]
  <2>1. f \in Frames /\ f.bytes = chunk.bytes /\ f.count = Len(chunk.says)
    BY <1>5 DEF Frames
  <2> HIDE DEF f
  <2>2. Counts(Byte, Frames, Flight \o f.bytes, n + f.count)
    BY <1>4, <1>5, <2>1, FrameAdds
  <2>3. n + Len(chunk.says) \in Nat
    BY <1>2
  <2>4. Counts(Byte, Frames, Flight', n + Len(chunk.says))
    BY <1>4, <2>1, <2>2
  <2>5. Len(due') - Len(shown) = missed' + (n + Len(chunk.says))
    <3> DEFINE now == Len(due')  was == Len(due)  seen == Len(shown)
               says == Len(chunk.says)  lost == missed'
    <3>1. /\ now \in Nat /\ was \in Nat /\ seen \in Nat /\ says \in Nat
          /\ now - was = says /\ was - seen = lost + n
          /\ lost \in Int /\ n \in Nat
      BY <1>2, <1>3, <1>5
    <3> HIDE DEF now, was, seen, says, lost
    <3>2. \A a, b, c, d, k \in Nat, m \in Int :
            a - b = d /\ b - c = m + k => a - c = m + (k + d)
      OBVIOUS
    <3>3. now - seen = lost + (n + says)
      BY <3>1, <3>2
    <3> QED
      BY <3>3 DEF now, seen, says, lost
  <2> QED
    BY <2>3, <2>4, <2>5
<1>6. ASSUME ~spoilt'
      PROVE  \E m \in Nat : /\ Counts(Byte, Frames, Flight', m)
                            /\ Len(due') - Len(shown') = missed' + m
  <2>1. chunk.whole /\ (~spoilt \/ Settled)
    BY <1>1, <1>6
  <2>2. CASE Settled
    <3>1. Flight = <<>>
      <4>1. InFlight = <<>> /\ data = <<>> /\ stream = <<>>
        BY <2>2 DEF Settled, Drained, InFlight, Pending
      <4>2. <<>> \in Seq(Byte)
        OBVIOUS
      <4> QED
        BY <4>1, <4>2, ConcatEmptySeq DEF Flight
    <3>2. Counts(Byte, Frames, Flight, 0)
      BY <3>1, EmptyCounts
    <3>3. Len(due) - Len(shown) = missed' + 0
      BY <1>1, <1>2, <2>2
    <3> QED
      BY <1>1, <1>5, <2>1, <3>2, <3>3
  <2>3. CASE ~Settled
    <3>1. PICK n \in Nat : /\ Counts(Byte, Frames, Flight, n)
                           /\ Len(due) - Len(shown) = missed + n
      BY <2>1, <2>3 DEF ShowInv, OnlyFramesInFlight
    <3>2. Len(due) - Len(shown) = missed' + n
      BY <1>1, <2>3, <3>1
    <3> QED
      BY <1>1, <1>5, <2>1, <3>1, <3>2
  <2> QED
    BY <2>2, <2>3
<1>7. OnlyFramesInFlight'
  BY <1>6 DEF OnlyFramesInFlight
<1> QED
  BY <1>1, <1>2, <1>3, <1>7 DEF ShowInv

LEMMA ShowInvIsInvariant == Spec => []ShowInv
<1>1. Init => ShowInv
  <2> SUFFICES ASSUME Init PROVE ShowInv
    OBVIOUS
  <2>1. due = <<>> /\ shown = <<>> /\ missed = 0 /\ spoilt = FALSE
    BY DEF Init
  <2>2. Flight = (<<>> \o <<>>) \o <<>>
    BY DEF Init, Flight, InFlight, Pending, Holding
  <2>3. Flight = <<>>
    BY <2>2, ConcatEmptySeq
  <2>4. Counts(Byte, Frames, Flight, 0) /\ Len(due) - Len(shown) = missed + 0
    BY <2>1, <2>3, EmptyCounts
  <2>5. due \in Seq(Said)
    BY <2>1
  <2>6. shown \in Seq(Messages)
    BY <2>1
  <2>7. missed \in Int /\ spoilt \in BOOLEAN
    <3>1. missed = 0
      BY <2>1
    <3>2. missed \in Int
      BY <3>1
    <3>3. spoilt = FALSE
      BY <2>1
    <3>4. spoilt \in BOOLEAN
      BY <3>3
    <3> QED
      BY <3>2, <3>4
  <2>8. OnlyFramesInFlight
    BY <2>4 DEF OnlyFramesInFlight
  <2> QED
    BY <2>5, <2>6, <2>7, <2>8 DEF ShowInv
<1>2. RxInv /\ ShowInv /\ [Next]_vars => ShowInv'
  <2> SUFFICES ASSUME RxInv, ShowInv, [Next]_vars PROVE ShowInv'
    OBVIOUS
  <2>1. ASSUME UNCHANGED <<due, shown, missed, spoilt>>, Flight' = Flight
        PROVE  ShowInv'
    BY <2>1 DEF ShowInv, OnlyFramesInFlight
  <2>2. CASE receive_thread
    <3>1. UNCHANGED <<due, missed, spoilt>>
      BY <2>2 DEF receive_thread, worldVars
    <3>2. CASE RxTop \/ RxSelect \/ RxFrameFails \/ RxBytesDone
      <4>1. /\ UNCHANGED <<data, stream, rx_state, rx_frame_buffer,
                           rx_expected_length, shown>>
            /\ Holding <=> Holding'
        BY <3>2 DEF RxTop, RxSelect, RxFrameFails, RxBytesDone, Raise, Holding,
                    rxVars
      <4>2. Flight' = Flight
        <5>1. rx_state \in {"PLAINTEXT", "SYNC1", "SYNC2", "DATA"}
          BY DEF RxInv
        <5>2. InFlight' = InFlight
          BY <4>1, <5>1 DEF InFlight, Pending, Holding
        <5> QED
          BY <4>1, <5>2 DEF Flight
      <4> QED
        BY <2>1, <3>1, <4>1, <4>2
    <3>3. CASE RxRecv
      <4>1. shown' = shown
        BY <3>3 DEF RxRecv, Raise, rxVars
      <4> QED
        BY <2>1, <3>1, <3>3, <4>1, RecvKeepsFlight
    <3>4. CASE RxByte
      BY <3>1, <3>4, ByteKeepsShowInv
    <3>5. CASE RxFrame
      BY <3>1, <3>5, FrameKeepsShowInv
    <3> QED
      BY <2>2, <3>2, <3>3, <3>4, <3>5 DEF receive_thread
  <2>3. CASE MainThread \/ Disconnect \/ UNCHANGED vars
    <3>1. UNCHANGED <<rx, data, stream, rx_state, rx_frame_buffer,
                      rx_expected_length, due, shown, missed, spoilt>>
      BY <2>3 DEF MainThread, Disconnect, vars, rxVars, worldVars
    <3>2. Flight' = Flight
      BY <3>1 DEF Flight, InFlight, Pending, Holding
    <3> QED
      BY <2>1, <3>1, <3>2
  <2>4. ASSUME NEW chunk \in Chunks, Arrive(chunk) PROVE ShowInv'
    BY <2>4, ArriveKeepsShowInv
  <2> QED
    BY <2>2, <2>3, <2>4 DEF Next
<1> QED
  BY <1>1, <1>2, RxInvIsInvariant, PTL DEF Spec

(* However recv cuts the stream: whatever was left of broken chunks when    *)
(* the client was last settled, every whole frame since then has been      *)
(* displayed once the receive thread has worked off what has arrived.      *)
THEOREM WholeFramesAreShown == Spec => []EveryFrameShown
<1>1. RxInv /\ ShowInv => EveryFrameShown
  <2> SUFFICES ASSUME RxInv, ShowInv, Drained, ~spoilt
               PROVE  Len(due) - Len(shown) = missed
    BY DEF EveryFrameShown
  <2>1. PICK n \in Nat : /\ Counts(Byte, Frames, Flight, n)
                         /\ Len(due) - Len(shown) = missed + n
    BY DEF ShowInv, OnlyFramesInFlight
  <2>2. Flight = Pending /\ Pending \in Seq(Byte) /\ Unfinished(Pending)
    <3>1. /\ InFlight = Pending /\ data = <<>> /\ stream = <<>>
          /\ Pending \in Seq(Byte) /\ Unfinished(Pending)
      BY FlightIs DEF Drained, InFlight, Holding
    <3> QED
      BY <3>1, ConcatEmptySeq DEF Flight
  <2>3. n = 0
    <3> SUFFICES ASSUME n # 0 PROVE FALSE
      OBVIOUS
    <3>1. PICK chunk \in Chunks, q \in Seq(Byte) :
            /\ IsFrame(Byte, CHAT_SYNC_BYTE, CHAT_MAX_FRAME, chunk.bytes)
            /\ Pending = chunk.bytes \o q
      BY <2>1, <2>2, FrameComesFirst
    <3> DEFINE f == chunk.bytes
    <3>2. /\ f \in Seq(Byte) /\ Len(f) = 3 + f[3] /\ Len(f) >= 3 /\ f[3] \in Nat
      BY <3>1 DEF IsFrame
    <3> HIDE DEF f
    <3>3. Len(Pending) = Len(f) + Len(q) /\ Len(q) \in Nat /\ Pending[3] = f[3]
      BY <3>1, <3>2, ConcatProperties, LenProperties DEF f
    <3>4. Len(Pending) >= 3 => Len(Pending) < 3 + Pending[3]
      BY <2>2 DEF Unfinished
    <3> QED
      BY <3>2, <3>3, <3>4
  <2>4. Len(due) \in Nat /\ Len(shown) \in Nat /\ missed \in Int
    BY LenProperties DEF ShowInv
  <2> QED
    BY <2>1, <2>3, <2>4
<1> QED
  BY <1>1, RxInvIsInvariant, ShowInvIsInvariant, PTL

(* Of whole frames no byte is printed as it came: one that is has left the  *)
(* flight without a frame, and while nothing is spoilt none does.          *)
THEOREM WholeFramesNeverRaw == Spec => RawOnlyAfterDamage
<1>1. RxInv /\ ShowInv /\ [Next]_vars => [raw' # raw => spoilt]_vars
  <2> SUFFICES ASSUME RxInv, ShowInv, Next, raw' # raw, ~spoilt PROVE FALSE
    BY DEF ShowInv
  <2> DEFINE b == Head(data)
  <2>1. RxByte
    BY DEF Next, Arrive, Disconnect, receive_thread, MainThread, RxTop, RxSelect,
           RxRecv, RxFrame, RxFrameFails, RxBytesDone, Raise, rxVars
  <2>2. Flight' = Flight
    BY <2>1, ByteStaysInFlight DEF ShowInv, OnlyFramesInFlight
  <2>3. /\ rx = "bytes" /\ data # <<>> /\ data' = Tail(data) /\ stream' = stream
        /\ data \in Seq(Byte) /\ stream \in Seq(Byte)
        /\ ByteInPlaintext(b) \/ ByteInSync1(b) \/ ByteInSync2(b) \/ ByteInData(b)
    BY <2>1 DEF RxByte, RxInv
  <2> HIDE DEF b
  <2>4. rx' = "bytes" /\ rx_state' = "PLAINTEXT"
    BY <2>3 DEF ByteInPlaintext, ByteInSync1, ByteInSync2, ByteInData
  <2>5. InFlight \in Seq(Byte) /\ InFlight' = <<>>
    BY <2>4, FlightIs DEF InFlight, Pending, Holding
  <2>6. Len(Flight) = Len(InFlight) + Len(data) + Len(stream)
    BY <2>3, <2>5 DEF Flight
  <2>7. Len(Flight') = Len(data) - 1 + Len(stream)
    <3>1. Tail(data) \in Seq(Byte) /\ Len(Tail(data)) = Len(data) - 1
      BY <2>3
    <3>2. Flight' = (<<>> \o Tail(data)) \o stream
      BY <2>3, <2>5 DEF Flight
    <3> DEFINE t == Tail(data)
    <3> HIDE DEF t
    <3>3. <<>> \o t = t /\ Len(t \o stream) = Len(t) + Len(stream)
      BY <2>3, <3>1, ConcatEmptySeq DEF t
    <3> QED
      BY <3>1, <3>2, <3>3 DEF t
  <2>8. Len(InFlight) \in Nat /\ Len(data) \in Nat /\ Len(stream) \in Nat
    BY <2>3, <2>5
  <2> HIDE DEF b
  <2> QED
    BY <2>2, <2>6, <2>7, <2>8
<1> QED
  BY <1>1, RxInvIsInvariant, ShowInvIsInvariant, PTL DEF Spec, RawOnlyAfterDamage

-----------------------------------------------------------------------------
(* What the client sends.  aead_decrypt_unpack undoes aead_encrypt_pack, as *)
(* the same keystream is added twice, and the codec gives back what it was *)
(* given.                                                                  *)
LEMMA NonceIs ==
  ASSUME NEW ctr \in 0..(CTR_SIZE - 1)
  PROVE  Nonce(ctr) \in Seq(Nat) /\ Len(Nonce(ctr)) = NONCE_LEN
<1>1. ASSUME NEW i \in 1..CTR_LEN
      PROVE  (ctr \div pow2[BYTE_BITS * (i - 1)]) % BYTE_SIZE \in Nat
  <2> DEFINE q == pow2[BYTE_BITS * (i - 1)]
             z == BYTE_SIZE
  <2>1. q \in Nat \ {0} /\ z \in Nat \ {0} /\ ctr \in Nat
    BY Widths
  <2> HIDE DEF q, z
  <2>2. (ctr \div q) % z \in Nat
    BY <2>1
  <2> QED
    BY <2>2 DEF q, z
<1> DEFINE byte(i) == (ctr \div pow2[BYTE_BITS * (i - 1)]) % BYTE_SIZE
<1>2. NONCE_LEN \in Nat /\ CTR_LEN \in Nat
  BY AeadAssumption
<1>3. Nonce(ctr) = [i \in 1..NONCE_LEN |-> IF i <= CTR_LEN THEN byte(i) ELSE 0]
  BY DEF Nonce
<1>4. ASSUME NEW i \in 1..NONCE_LEN PROVE (IF i <= CTR_LEN THEN byte(i) ELSE 0) \in Nat
  <2>1. CASE i <= CTR_LEN
    <3>1. i \in 1..CTR_LEN
      BY <1>2, <2>1
    <3> QED
      BY <1>1, <2>1, <3>1
  <2> QED
    BY <2>1
<1> HIDE DEF byte
<1> QED
  BY <1>2, <1>3, <1>4

(* chacha20_xor undoes itself. *)
LEMMA KeystreamCancels ==
  ASSUME NEW nonce, NEW pt \in Seq(Nat), \A i \in 1..Len(pt) : Keystream(nonce, i) \in Nat
  PROVE  /\ chacha20_xor(nonce, pt) \in Seq(Nat)
         /\ Len(chacha20_xor(nonce, pt)) = Len(pt)
         /\ chacha20_xor(nonce, chacha20_xor(nonce, pt)) = pt
<1> DEFINE n == Len(pt)
           ct == chacha20_xor(nonce, pt)
<1>1. n \in Nat /\ \A i \in 1..n : pt[i] \in Nat
  OBVIOUS
<1>2. ct = [i \in 1..n |-> Xor(pt[i], Keystream(nonce, i))]
  BY DEF chacha20_xor
<1>3. ASSUME NEW i \in 1..n
      PROVE  ct[i] \in Nat /\ Xor(ct[i], Keystream(nonce, i)) = pt[i]
  <2> DEFINE b == pt[i]
             k == Keystream(nonce, i)
  <2>1. b \in Nat /\ k \in Nat
    BY <1>1
  <2>2. ct[i] = Xor(b, k)
    BY <1>2
  <2> HIDE DEF b, k, ct
  <2>3. ct[i] \in Nat /\ Xor(ct[i], k) = b
    <3>1. Xor(b, k) \in Nat /\ Xor(Xor(b, k), k) = b
      BY <2>1, XorCancels
    <3> QED
      BY <2>2, <3>1
  <2> QED
    BY <2>3 DEF b, k
<1> HIDE DEF n, ct
<1>4. ct \in Seq(Nat) /\ Len(ct) = n
  BY <1>1, <1>2, <1>3
<1>5. chacha20_xor(nonce, ct) = [i \in 1..n |-> Xor(ct[i], Keystream(nonce, i))]
  BY <1>4 DEF chacha20_xor
<1>6. chacha20_xor(nonce, ct) = [i \in 1..n |-> pt[i]]
  BY <1>3, <1>5
<1>7. pt = [i \in 1..n |-> pt[i]]
  BY DEF n
<1> QED
  BY <1>4, <1>6, <1>7 DEF n, ct

(* Nonce, ciphertext and tag are found where they were put. *)
LEMMA ThreeParts ==
  ASSUME NEW B, NEW a \in Seq(B), NEW b \in Seq(B), NEW c \in Seq(B)
  PROVE  LET in == a \o b \o c
             m  == Len(a)
             n  == Len(b)
         IN /\ in \in Seq(B)
            /\ Len(in) - m - Len(c) = n
            /\ SubSeq(in, 1, m) = a
            /\ SubSeq(in, m + 1, m + n) = b
            /\ SubSeq(in, m + n + 1, Len(in)) = c
<1> DEFINE in == a \o b \o c
           m  == Len(a)
           n  == Len(b)
           k  == Len(c)
<1>1. in \in Seq(B) /\ Len(in) = m + n + k /\ m \in Nat /\ n \in Nat /\ k \in Nat
  OBVIOUS
<1>2. SubSeq(in, 1, m) = a
  OBVIOUS
<1>3. SubSeq(in, m + 1, m + n) = b
  OBVIOUS
<1>4. SubSeq(in, m + n + 1, m + n + k) = c
  OBVIOUS
<1>5. Len(in) - m - k = n /\ Len(in) = m + n + k
  <2> DEFINE l == Len(in)
  <2>1. l = m + n + k
    BY <1>1
  <2> HIDE DEF l, m, n, k
  <2>2. l - m - k = n
    BY <1>1, <2>1
  <2> QED
    BY <2>1, <2>2 DEF l
<1> HIDE DEF in
<1>6. SubSeq(in, m + n + 1, Len(in)) = c
  <2> HIDE DEF m, n, k
  <2> QED
    BY <1>4, <1>5
<1> QED
  BY <1>1, <1>2, <1>3, <1>5, <1>6 DEF in

(* aead_decrypt_unpack returns what aead_encrypt_pack was given. *)
LEMMA PackedReadsBack ==
  ASSUME NEW ctr \in 0..(CTR_SIZE - 1), NEW pt \in Lines, NEW max_out \in Nat,
         Fits(pt, max_out), NEW max_pt \in Nat, Len(pt) <= max_pt
  PROVE  /\ aead_encrypt_pack(ctr, pt, max_out).out \in Seq(Nat)
         /\ aead_decrypt_unpack(aead_encrypt_pack(ctr, pt, max_out).out, max_pt).out = pt
         /\ pt # <<>> => aead_encrypt_pack(ctr, pt, max_out).out # <<>>
<1> DEFINE nonce == Nonce(ctr)
           ct == chacha20_xor(nonce, pt)
           tag == Mac(nonce, ct)
           in == nonce \o ct \o tag
           n == Len(pt)
           m == NONCE_LEN
<1>1. nonce \in Seq(Nat) /\ Len(nonce) = m /\ m \in Nat /\ TAG_LEN \in Nat
  BY NonceIs, AeadAssumption
<1>2. /\ pt \in Seq(Nat) /\ n \in Nat /\ n <= max_pt
      /\ \A i \in 1..n : Keystream(nonce, i) \in Nat
      /\ tag \in Seq(Nat)
      /\ Len(tag) = TAG_LEN
  <2>1. Byte \subseteq Nat /\ pt \in Seq(Byte)
    OBVIOUS
  <2>2. /\ \A i \in 1..n : Keystream(nonce, i) \in Byte
        /\ tag \in Seq(Byte)
        /\ Len(tag) = TAG_LEN
    BY CipherAssumption
  <2>3. pt \in Seq(Nat)
    BY ONLY <2>1, MoreValues
  <2>5. n \in Nat /\ n <= max_pt
    BY <2>3
  <2> HIDE DEF nonce, tag, n
  <2>4. tag \in Seq(Nat)
    BY ONLY <2>1, <2>2, MoreValues
  <2> QED
    BY <2>1, <2>2, <2>3, <2>4, <2>5
<1>3. /\ ct \in Seq(Nat) /\ Len(ct) = n
      /\ chacha20_xor(nonce, ct) = pt
  <2> HIDE DEF nonce
  <2> QED
    BY <1>2, KeystreamCancels
<1>4. aead_encrypt_pack(ctr, pt, max_out).out = in
  BY DEF aead_encrypt_pack
<1>5. TagMatches(nonce, ct, tag)
  BY DEF TagMatches
<1>0. in = nonce \o ct \o tag
  OBVIOUS
<1> HIDE DEF nonce, ct, tag, in
<1>6. /\ in \in Seq(Nat)
      /\ Len(in) - m - TAG_LEN = n
      /\ SubSeq(in, 1, m) = nonce
      /\ SubSeq(in, m + 1, m + n) = ct
      /\ SubSeq(in, m + n + 1, Len(in)) = tag
  <2> DEFINE p == Len(nonce)
             q == Len(ct)
             r == Len(tag)
  <2>1. /\ in \in Seq(Nat)
        /\ Len(in) - p - r = q
        /\ SubSeq(in, 1, p) = nonce
        /\ SubSeq(in, p + 1, p + q) = ct
        /\ SubSeq(in, p + q + 1, Len(in)) = tag
    <3> DEFINE w == nonce \o ct \o tag
    <3>1. nonce \in Seq(Nat) /\ ct \in Seq(Nat) /\ tag \in Seq(Nat)
      BY <1>1, <1>2, <1>3
    <3>2. /\ w \in Seq(Nat)
          /\ Len(w) - p - r = q
          /\ SubSeq(w, 1, p) = nonce
          /\ SubSeq(w, p + 1, p + q) = ct
          /\ SubSeq(w, p + q + 1, Len(w)) = tag
      BY ONLY <3>1, ThreeParts
    <3> HIDE DEF w, p, q, r
    <3>3. in = w
      BY <1>0 DEF w
    <3> QED
      BY <3>2, <3>3
  <2>2. p = m /\ q = n /\ r = TAG_LEN
    BY <1>1, <1>2, <1>3
  <2> HIDE DEF m, n, p, q, r
  <2> QED
    BY <2>1, <2>2
<1>7. pt # <<>> => in # <<>>
  <2>1. pt # <<>> => n # 0
    BY <1>2
  <2> QED
    BY <1>1, <1>2, <1>6, <2>1
<1>8. aead_decrypt_unpack(in, max_pt).out = pt
  <2> DEFINE k == Len(in) - m - TAG_LEN
             text == SubSeq(in, m + 1, m + k)
  <2>1. aead_decrypt_unpack(in, max_pt) =
          IF /\ k >= 0 /\ k <= max_pt
             /\ TagMatches(SubSeq(in, 1, m), text, SubSeq(in, m + k + 1, Len(in)))
            THEN [len |-> k, out |-> chacha20_xor(SubSeq(in, 1, m), text)] ELSE AeadFailure
    BY DEF aead_decrypt_unpack
  <2> HIDE DEF m, n, k
  <2>2. k = n /\ k >= 0 /\ k <= max_pt
    BY <1>2, <1>6, SMTT(30) DEF k
  <2>3. text = ct /\ SubSeq(in, m + k + 1, Len(in)) = tag
    BY <1>6, <2>2
  <2> HIDE DEF text
  <2>4. TagMatches(SubSeq(in, 1, m), text, SubSeq(in, m + k + 1, Len(in)))
    BY <1>5, <1>6, <2>3
  <2>5. chacha20_xor(SubSeq(in, 1, m), text) = pt
    BY <1>3, <1>6, <2>3
  <2> QED
    BY <2>1, <2>2, <2>4, <2>5
<1> QED
  BY <1>4, <1>6, <1>7, <1>8

(* The line that goes out under a nonce, and the frames it may make. *)
WrappedUnder(ctr, line) ==
  IF ClientId = USER_ID_BOARD THEN line
    ELSE aead_encrypt_pack(ctr, line, NONCE_LEN + Len(line) + TAG_LEN).out

Encodings == {encode_frame(ClientId, text) : text \in Seq(Nat)}

LEMMA LineReadsBack ==
  ASSUME NEW ctr \in 0..(CTR_SIZE - 1), NEW line \in Lines, line # <<>>,
         NEW frame, frame = encode_frame(ClientId, WrappedUnder(ctr, line)), frame # <<>>
  PROVE  /\ frame \in Encodings
         /\ Len(line) <= CHAT_MAX_MESSAGE => ReadByBoard(frame) = line
<1> DEFINE max == NONCE_LEN + Len(line) + TAG_LEN
           packed == aead_encrypt_pack(ctr, line, max).out
           text == WrappedUnder(ctr, line)
           in == decode_frame(SubSeq(frame, 4, Len(frame)))
<1>1. line \in Seq(Nat) /\ Len(line) \in Nat
  <2>1. line \in Seq(Byte) /\ Byte \subseteq Nat
    OBVIOUS
  <2>2. line \in Seq(Nat)
    BY ONLY <2>1, MoreValues
  <2> QED
    BY <2>2
<1>2. max \in Nat /\ Fits(line, max)
  <2> DEFINE n == Len(line)
  <2>1. NONCE_LEN \in Nat /\ TAG_LEN \in Nat /\ n \in Nat
    BY <1>1, AeadAssumption
  <2> HIDE DEF n
  <2>2. NONCE_LEN + n + TAG_LEN \in Nat /\ NONCE_LEN + n + TAG_LEN <= NONCE_LEN + n + TAG_LEN
    BY <2>1
  <2> QED
    BY <2>2 DEF Fits, n
<1> HIDE DEF max
<1>3. \A max_pt \in Nat : Len(line) <= max_pt => aead_decrypt_unpack(packed, max_pt).out = line
  BY <1>2, PackedReadsBack
<1>4. packed \in Seq(Nat) /\ packed # <<>>
  BY <1>1, <1>2, PackedReadsBack
<1>5. text = IF ClientId = USER_ID_BOARD THEN line ELSE packed
  BY DEF WrappedUnder, max
<1> HIDE DEF packed, text
<1>6. text \in Seq(Nat) /\ text # <<>>
  BY <1>1, <1>4, <1>5
<1>7. frame = encode_frame(ClientId, text)
  BY DEF text
<1>8. in = [ok |-> TRUE, user_id |-> ClientId, message |-> text]
  <2>1. byte_stuff(Payload(ClientId, text), CHAT_MAX_FRAME).len \in Byte
    BY <1>7 DEF encode_frame
  <2>2. ClientId \in Nat
    OBVIOUS
  <2> HIDE DEF in
  <2>3. decode_frame(SubSeq(frame, 4, Len(frame))) =
          [ok |-> TRUE, user_id |-> ClientId, message |-> text]
    BY <1>6, <1>7, <2>1, <2>2, FrameReadsBack
  <2> QED
    BY <2>3 DEF in
<1>9. ASSUME Len(line) <= CHAT_MAX_MESSAGE PROVE ReadByBoard(frame) = line
  <2>1. ReadByBoard(frame) = IF in.user_id = USER_ID_BOARD THEN in.message
                               ELSE aead_decrypt_unpack(in.message, CHAT_MAX_MESSAGE).out
    BY DEF ReadByBoard
  <2> HIDE DEF in
  <2>2. in.user_id = ClientId /\ in.message = text
    BY <1>8
  <2>3. CHAT_MAX_MESSAGE \in Nat
    BY CodecAssumption
  <2> QED
    BY <1>3, <1>5, <1>9, <2>1, <2>2, <2>3
<1> HIDE DEF in
<1>10. frame \in Encodings
  BY <1>6, <1>7 DEF Encodings
<1> QED
  BY <1>9, <1>10

(* Whatever has been typed is a line, a blank one does not come through,    *)
(* and the counter gives a nonce.                                          *)
LineInHand ==
  /\ main \in {"check", "send"} => message \in Lines
  /\ main = "send" => message # <<>>

SendInv ==
  /\ LineInHand
  /\ s_nonce_ctr \in 0..(CTR_SIZE - 1)
  /\ sent \in Seq(Encodings)
  /\ spoken \in Seq(Lines)
  /\ SentIsReadable

LEMMA InitEstablishesSendInv == Init => SendInv
<1> SUFFICES ASSUME Init PROVE SendInv
  OBVIOUS
<1>1. sent = <<>> /\ spoken = <<>> /\ main = "top" /\ s_nonce_ctr = 1
  BY DEF Init
<1>2. 1 \in 0..(CTR_SIZE - 1)
  <2> DEFINE z == CTR_SIZE
  <2>1. z \in Nat \ {0, 1}
    BY Widths
  <2> HIDE DEF z
  <2>2. 1 \in 0..(z - 1)
    BY <2>1
  <2> QED
    BY <2>2 DEF z
<1>3. SentIsReadable
  BY <1>1 DEF SentIsReadable
<1>4. sent \in Seq(Encodings) /\ spoken \in Seq(Lines)
  BY <1>1
<1> QED
  BY <1>1, <1>2, <1>3, <1>4 DEF SendInv, LineInHand

(* Nothing but MainSend touches what was sent. *)
NothingSent == UNCHANGED <<s_nonce_ctr, spoken, sent>>

LEMMA RestKeepsSendInv ==
  ASSUME SendInv, NothingSent, LineInHand'
  PROVE  SendInv'
BY DEF SendInv, NothingSent, SentIsReadable

LEMMA SentGrows ==
  ASSUME NEW S, NEW T, NEW fs \in Seq(S), NEW ls \in Seq(T), Len(fs) = Len(ls),
         NEW frame \in S, NEW line \in T,
         NEW R, \A i \in 1..Len(fs) : <<ls[i], fs[i]>> \in R, <<line, frame>> \in R
  PROVE  /\ Append(fs, frame) \in Seq(S)
         /\ Append(ls, line) \in Seq(T)
         /\ Len(Append(fs, frame)) = Len(Append(ls, line))
         /\ \A i \in 1..Len(Append(fs, frame)) :
              <<Append(ls, line)[i], Append(fs, frame)[i]>> \in R
OBVIOUS

LEMMA MainSendKeepsSendInv ==
  ASSUME SendInv, MainSend
  PROVE  SendInv'
<1> DEFINE frame == encode_frame(ClientId, Wrapped(message))
           R == {p \in Lines \X Encodings :
                   Len(p[1]) <= CHAT_MAX_MESSAGE => ReadByBoard(p[2]) = p[1]}
<1>1. /\ main = "send" /\ main' = "top" /\ message' = message
      /\ message \in Lines /\ message # <<>>
      /\ s_nonce_ctr \in 0..(CTR_SIZE - 1)
      /\ s_nonce_ctr' = s_nonce_ctr \/ s_nonce_ctr' = NextCtr(s_nonce_ctr)
      /\ \/ frame # <<>> /\ sent' = Append(sent, frame) /\ spoken' = Append(spoken, message)
         \/ sent' = sent /\ spoken' = spoken
  BY DEF MainSend, SendInv, LineInHand
<1>2. s_nonce_ctr' \in 0..(CTR_SIZE - 1)
  <2> DEFINE z == CTR_SIZE
             c == s_nonce_ctr
  <2>1. z \in Nat \ {0} /\ c \in 0..(z - 1)
    BY <1>1, Widths
  <2> HIDE DEF z, c
  <2>2. (c + 1) % z \in 0..(z - 1)
    BY <2>1
  <2> QED
    BY <1>1, <2>2 DEF NextCtr, z, c
<1>3. Wrapped(message) = WrappedUnder(s_nonce_ctr, message)
  BY DEF Wrapped, WrappedUnder, aead_encrypt
<1> HIDE DEF frame
<1>4. ASSUME frame # <<>> PROVE frame \in Encodings /\ <<message, frame>> \in R
  <2>1. frame = encode_frame(ClientId, WrappedUnder(s_nonce_ctr, message))
    BY <1>3 DEF frame
  <2>2. /\ frame \in Encodings
        /\ Len(message) <= CHAT_MAX_MESSAGE => ReadByBoard(frame) = message
    BY <1>1, <1>4, <2>1, LineReadsBack
  <2> QED
    BY <1>1, <2>2
<1>5. /\ sent \in Seq(Encodings) /\ spoken \in Seq(Lines) /\ Len(sent) = Len(spoken)
      /\ \A i \in 1..Len(sent) : <<spoken[i], sent[i]>> \in R
  <2>1. sent \in Seq(Encodings) /\ spoken \in Seq(Lines) /\ SentIsReadable
    BY DEF SendInv
  <2>2. \A i \in 1..Len(sent) : spoken[i] \in Lines /\ sent[i] \in Encodings
    BY <2>1 DEF SentIsReadable
  <2> QED
    BY <2>1, <2>2 DEF SentIsReadable
<1>6. /\ sent' \in Seq(Encodings) /\ spoken' \in Seq(Lines) /\ Len(sent') = Len(spoken')
      /\ \A i \in 1..Len(sent') : <<spoken'[i], sent'[i]>> \in R
  <2> HIDE DEF R
  <2>1. CASE frame # <<>> /\ sent' = Append(sent, frame) /\ spoken' = Append(spoken, message)
    BY SMTT(20), <1>1, <1>4, <1>5, <2>1, SentGrows
  <2>2. CASE sent' = sent /\ spoken' = spoken
    BY <1>5, <2>2
  <2> QED
    BY <1>1, <2>1, <2>2
<1>7. SentIsReadable'
  <2>1. \A i \in 1..Len(sent') :
          Len(spoken'[i]) <= CHAT_MAX_MESSAGE => ReadByBoard(sent'[i]) = spoken'[i]
    BY <1>6
  <2> QED
    BY <1>6, <2>1 DEF SentIsReadable, ReadByBoard
<1> QED
  BY <1>1, <1>2, <1>6, <1>7 DEF SendInv, LineInHand

LEMMA MainThreadKeepsSendInv ==
  ASSUME SendInv, MainThread
  PROVE  SendInv'
<1> USE DEF LineInHand, NothingSent, mainVars
<1>1. LineInHand
  BY DEF SendInv
<1>2. CASE MainTop
  BY <1>2, RestKeepsSendInv DEF MainTop
<1>3. CASE MainCheck
  BY <1>1, <1>3, RestKeepsSendInv DEF MainCheck, AfterInput
<1>4. CASE MainSend
  BY <1>4, MainSendKeepsSendInv
<1>5. CASE MainStop
  BY <1>5, RestKeepsSendInv DEF MainStop
<1>6. CASE MainClose
  BY <1>6, RestKeepsSendInv DEF MainClose
<1>7. CASE MainReturn
  BY <1>7, RestKeepsSendInv DEF MainReturn
<1>8. CASE Interrupt
  BY <1>8, RestKeepsSendInv DEF Interrupt
<1>9. ASSUME NEW l \in Lines, Input(l) PROVE SendInv'
  BY <1>9, RestKeepsSendInv DEF Input
<1> QED
  BY <1>2, <1>3, <1>4, <1>5, <1>6, <1>7, <1>8, <1>9
     DEF MainThread, MainStep, Keyboard

LEMMA SendInvIsInvariant == Spec => []SendInv
<1>1. SendInv /\ [Next]_vars => SendInv'
  <2> SUFFICES ASSUME SendInv, [Next]_vars PROVE SendInv'
    OBVIOUS
  <2>1. CASE MainThread
    BY <2>1, MainThreadKeepsSendInv
  <2>2. CASE main' = main /\ UNCHANGED mainVars
    BY <2>2, RestKeepsSendInv DEF mainVars, SendInv, LineInHand, NothingSent
  <2>3. (main' = main /\ UNCHANGED mainVars) \/ MainThread
    BY DEF Next, vars, Arrive, Disconnect, receive_thread
  <2> QED
    BY <2>1, <2>2, <2>3
<1> QED
  BY <1>1, InitEstablishesSendInv, PTL DEF Spec

(* Every line the client has sent is read by the board as it was typed, if  *)
(* the board has room for it: for every width of bytes, CRC, nonce and tag,*)
(* every cipher and every line.                                            *)
THEOREM SentLinesAreRead == Spec => []SentIsReadable
BY SendInvIsInvariant, PTL DEF SendInv
=============================================================================
