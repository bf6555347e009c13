---------------------------- MODULE CommonLemmas ----------------------------
(***************************************************************************)
(* Lemmas that the proofs share: induction and recursion over the natural   *)
(* numbers, the operators of Bits, and facts about frames on the wire and  *)
(* about streams made of whole frames, for every set B of bytes.           *)
(***************************************************************************)
EXTENDS Bits, SequenceTheorems, WellFoundedInduction, TLAPS

-----------------------------------------------------------------------------
(* A set of naturals that is not empty has a least element. *)
LEMMA LeastNatural ==
  ASSUME NEW T \in SUBSET Nat, T # {}
  PROVE  \E x \in T : \A y \in T : x <= y
<1> DEFINE less == {ss \in Nat \X Nat : ss[1] < ss[2]}
<1>1. IsWellFoundedOn(less, Nat)
  BY NatLessThanWellFounded DEF OpToRel
<1>2. \E x \in T : \A y \in T : ~ (<<y, x>> \in less)
  <2> HIDE DEF less
  <2> QED
    BY <1>1, WFMin
<1>3. ASSUME NEW x \in T, NEW y \in T, ~ (<<y, x>> \in less)
      PROVE  x <= y
  <2>1. ~(y < x)
    BY <1>3
  <2> QED
    BY <2>1
<1> HIDE DEF less
<1> QED
  BY <1>2, <1>3

(* Induction, with the set of the numbers that have the property in the     *)
(* place of the property.                                                  *)
LEMMA InductionOnNat ==
  ASSUME NEW T, 0 \in T, \A n \in Nat : n \in T => n + 1 \in T
  PROVE  Nat \subseteq T
<1> SUFFICES ASSUME Nat \ T # {} PROVE FALSE
  OBVIOUS
<1>1. PICK x \in Nat \ T : \A y \in Nat \ T : x <= y
  BY LeastNatural
<1>2. x # 0 /\ x - 1 \in Nat /\ x - 1 \in T
  BY <1>1
<1> QED
  BY <1>1, <1>2

-----------------------------------------------------------------------------
(* f starts with a and goes on with g, up to n. *)
Recurs(f, a, g, n) == f[0] = a /\ \A i \in 1..n : f[i] = g[<<i, f[i - 1]>>]

LEMMA RecursionTo ==
  ASSUME NEW S, NEW a \in S, NEW g \in [Nat \X S -> S]
  PROVE  \A n \in Nat : \E f \in [0..n -> S] : Recurs(f, a, g, n)
<1> DEFINE Up(n) == \E f \in [0..n -> S] : Recurs(f, a, g, n)
           T == {n \in Nat : Up(n)}
<1>1. Up(0)
  <2> DEFINE f == [i \in 0..0 |-> a]
  <2>1. f \in [0..0 -> S] /\ f[0] = a
    OBVIOUS
  <2>2. \A i \in 1..0 : f[i] = g[<<i, f[i - 1]>>]
    OBVIOUS
  <2> HIDE DEF f
  <2> QED
    BY <2>1, <2>2 DEF Recurs
<1>2. ASSUME NEW n \in Nat, Up(n) PROVE Up(n + 1)
  <2>1. PICK f \in [0..n -> S] : Recurs(f, a, g, n)
    BY <1>2
  <2> DEFINE last == g[<<n + 1, f[n]>>]
             h == [i \in 0..(n + 1) |-> IF i <= n THEN f[i] ELSE last]
  <2>2. f[n] \in S
    BY <2>1
  <2>3. last \in S
    BY <2>2
  <2>4. h \in [0..(n + 1) -> S] /\ h[0] = f[0]
    BY <2>1, <2>3
  <2>5. \A i \in 0..n : h[i] = f[i]
    OBVIOUS
  <2>6. h[n + 1] = last
    OBVIOUS
  <2> HIDE DEF h
  <2>7. h[n + 1] = g[<<n + 1, h[n]>>]
    <3>1. h[n] = f[n]
      BY <2>5
    <3> QED
      BY <2>6, <3>1
  <2> HIDE DEF last
  <2>8. ASSUME NEW i \in 1..(n + 1) PROVE h[i] = g[<<i, h[i - 1]>>]
    <3>1. CASE i = n + 1
      <4>1. i - 1 = n
        BY <3>1
      <4> QED
        BY <2>7, <3>1, <4>1
    <3>2. CASE i # n + 1
      <4>1. i \in 1..n /\ i \in 0..n /\ i - 1 \in 0..n
        BY <2>8, <3>2
      <4>2. h[i] = f[i] /\ h[i - 1] = f[i - 1]
        BY <2>5, <4>1
      <4> QED
        BY <2>1, <4>1, <4>2 DEF Recurs
    <3> QED
      BY <3>1, <3>2
  <2> QED
    BY <2>1, <2>4, <2>8 DEF Recurs
<1> HIDE DEF Up
<1>3. Nat \subseteq T
  <2>1. 0 \in T /\ \A n \in Nat : n \in T => n + 1 \in T
    BY <1>1, <1>2
  <2> HIDE DEF T
  <2> QED
    BY <2>1, InductionOnNat
<1> QED
  BY <1>3 DEF Up

(* Two such functions agree as far as both go. *)
LEMMA RecursionAgrees ==
  ASSUME NEW a, NEW g, NEW f, NEW m \in Nat, Recurs(f, a, g, m),
         NEW h, NEW n \in Nat, Recurs(h, a, g, n), NEW k \in Nat, k <= m, k <= n
  PROVE  f[k] = h[k]
<1> DEFINE T == {i \in Nat : i <= k => f[i] = h[i]}
<1>1. 0 \in T
  BY DEF Recurs
<1>2. ASSUME NEW i \in Nat, i \in T PROVE i + 1 \in T
  <2> SUFFICES ASSUME i + 1 <= k PROVE f[i + 1] = h[i + 1]
    OBVIOUS
  <2>1. f[i] = h[i]
    BY <1>2
  <2>2. i + 1 \in 1..m /\ i + 1 \in 1..n /\ (i + 1) - 1 = i
    OBVIOUS
  <2>3. f[i + 1] = g[<<i + 1, f[i]>>] /\ h[i + 1] = g[<<i + 1, h[i]>>]
    BY <2>2 DEF Recurs
  <2> QED
    BY <2>1, <2>3
<1>3. Nat \subseteq T
  <2> HIDE DEF T
  <2> QED
    BY <1>1, <1>2, InductionOnNat
<1> QED
  BY <1>3

(* Recursion over the natural numbers. *)
Iterates(f, S, a, g) ==
  f \in [Nat -> S] /\ f[0] = a /\ \A n \in Nat : f[n + 1] = g[<<n + 1, f[n]>>]

LEMMA RecursionOnNat ==
  ASSUME NEW S, NEW a \in S, NEW g \in [Nat \X S -> S]
  PROVE  \E f : Iterates(f, S, a, g)
<1> DEFINE Up(n, f) == f \in [0..n -> S] /\ Recurs(f, a, g, n)
           up(n) == CHOOSE f : Up(n, f)
           F == [n \in Nat |-> up(n)[n]]
<1>1. ASSUME NEW n \in Nat PROVE Up(n, up(n))
  <2>1. \E f : Up(n, f)
    BY RecursionTo
  <2> HIDE DEF Up
  <2> QED
    BY <2>1
<1> HIDE DEF up
<1>2. F \in [Nat -> S]
  <2>1. ASSUME NEW n \in Nat PROVE up(n)[n] \in S
    <3>1. up(n) \in [0..n -> S]
      BY <1>1
    <3> QED
      BY <3>1
  <2> QED
    BY <2>1
<1>3. F[0] = a
  BY <1>1 DEF Recurs
<1>4. ASSUME NEW n \in Nat PROVE F[n + 1] = g[<<n + 1, F[n]>>]
  <2>1. Recurs(up(n), a, g, n) /\ Recurs(up(n + 1), a, g, n + 1)
    BY <1>1
  <2>2. up(n + 1)[n] = up(n)[n]
    BY <2>1, RecursionAgrees
  <2>3. n + 1 \in 1..(n + 1) /\ (n + 1) - 1 = n
    OBVIOUS
  <2>4. up(n + 1)[n + 1] = g[<<n + 1, up(n + 1)[n]>>]
    BY <2>1, <2>3 DEF Recurs
  <2> QED
    BY <2>2, <2>4
<1> QED
  BY <1>2, <1>3, <1>4 DEF Iterates

-----------------------------------------------------------------------------
(* A function of powers of a base, as a recursive definition gives it. *)
IsPowers(t, base) == t = [n \in Nat |-> IF n = 0 THEN 1 ELSE base * t[n - 1]]

LEMMA PowersExist ==
  ASSUME NEW base \in Nat \ {0}
  PROVE  \E t : IsPowers(t, base)
<1> DEFINE S == Nat \ {0}
           g == [q \in Nat \X S |-> base * q[2]]
<1>1. g \in [Nat \X S -> S]
  OBVIOUS
<1>2. PICK t : Iterates(t, S, 1, g)
  <2>1. 1 \in S
    OBVIOUS
  <2> HIDE DEF g, S
  <2> QED
    BY <1>1, <2>1, RecursionOnNat
<1>3. ASSUME NEW n \in Nat PROVE t[n] = IF n = 0 THEN 1 ELSE base * t[n - 1]
  <2>1. CASE n = 0
    BY <1>2, <2>1 DEF Iterates
  <2>2. CASE n # 0
    <3>1. n - 1 \in Nat /\ (n - 1) + 1 = n
      BY <2>2
    <3>2. t[n - 1] \in S /\ t[n] = g[<<n, t[n - 1]>>]
      <4> HIDE DEF g
      <4> QED
        BY <1>2, <3>1 DEF Iterates
    <3> QED
      BY <2>2, <3>2
  <2> QED
    BY <2>1, <2>2
<1> QED
  BY <1>2, <1>3 DEF Iterates, IsPowers

LEMMA PowersAre ==
  ASSUME NEW base \in Nat \ {0}, NEW t, IsPowers(t, base)
  PROVE  t[0] = 1 /\ \A n \in Nat : t[n] \in Nat \ {0} /\ t[n + 1] = base * t[n]
<1> DEFINE T == {n \in Nat : t[n] \in Nat \ {0}}
<1>1. ASSUME NEW n \in Nat PROVE t[n] = IF n = 0 THEN 1 ELSE base * t[n - 1]
  BY DEF IsPowers
<1>2. t[0] = 1
  BY <1>1
<1>3. ASSUME NEW n \in Nat PROVE t[n + 1] = base * t[n]
  <2>1. n + 1 \in Nat /\ n + 1 # 0 /\ (n + 1) - 1 = n
    OBVIOUS
  <2> QED
    BY <1>1, <2>1
<1>4. 0 \in T /\ \A n \in Nat : n \in T => n + 1 \in T
  BY <1>2, <1>3
<1>5. Nat \subseteq T
  <2> HIDE DEF T
  <2> QED
    BY <1>4, InductionOnNat
<1> QED
  BY <1>2, <1>3, <1>5

(* Powers of two. *)
LEMMA PowIs ==
  /\ pow2[0] = 1
  /\ \A n \in Nat : pow2[n] \in Nat \ {0} /\ pow2[n + 1] = 2 * pow2[n]
<1> DEFINE Is(t) == t = [n \in Nat |-> IF n = 0 THEN 1 ELSE 2 * t[n - 1]]
<1>1. \E t : Is(t)
  BY PowersExist DEF IsPowers
<1>2. pow2 = CHOOSE t : Is(t)
  BY DEF pow2
<1>3. Is(pow2)
  <2> HIDE DEF Is
  <2> QED
    BY <1>1, <1>2
<1>4. IsPowers(pow2, 2)
  BY <1>3 DEF IsPowers
<1> QED
  BY <1>4, PowersAre

LEMMA PowGrows ==
  ASSUME NEW n \in Nat \ {0}
  PROVE  pow2[n] \in Nat \ {0, 1}
<1>1. n - 1 \in Nat /\ (n - 1) + 1 = n
  OBVIOUS
<1>2. pow2[n - 1] \in Nat \ {0} /\ pow2[n] = 2 * pow2[n - 1]
  BY <1>1, PowIs
<1> QED
  BY <1>2

LEMMA PowAdds ==
  ASSUME NEW m \in Nat, NEW n \in Nat
  PROVE  pow2[m + n] = pow2[m] * pow2[n]
<1> DEFINE T == {k \in Nat : pow2[m + k] = pow2[m] * pow2[k]}
           p == pow2[m]
<1>0. p \in Nat /\ m + 0 = m
  BY PowIs
<1>1. 0 \in T
  <2>1. pow2[m + 0] = p * 1
    BY <1>0
  <2> QED
    BY <2>1, PowIs
<1>2. ASSUME NEW k \in Nat, k \in T PROVE k + 1 \in T
  <2> DEFINE q == pow2[k]
  <2>1. q \in Nat /\ pow2[k + 1] = 2 * q
    BY PowIs
  <2>2. pow2[m + k] = p * q
    BY <1>2
  <2>3. m + k \in Nat /\ m + (k + 1) = (m + k) + 1
    OBVIOUS
  <2>4. pow2[m + (k + 1)] = 2 * (p * q)
    BY <2>2, <2>3, PowIs
  <2>5. 2 * (p * q) = p * (2 * q)
    <3> HIDE DEF p, q
    <3> QED
      BY <1>0, <2>1
  <2> QED
    BY <2>1, <2>4, <2>5
<1>3. Nat \subseteq T
  <2> HIDE DEF T
  <2> QED
    BY <1>1, <1>2, InductionOnNat
<1> QED
  BY <1>3

(* The powers of two that the widths of the code differ by. *)
LEMMA SmallPowers == pow2[1] = 2 /\ pow2[2] = 4 /\ pow2[4] = 16 /\ pow2[6] = 64
<1>1. pow2[1] = 2
  <2>1. pow2[0 + 1] = 2 * pow2[0]
    BY PowIs
  <2> QED BY <2>1, PowIs
<1>2. pow2[2] = 4
  <2>1. pow2[1 + 1] = pow2[1] * pow2[1]
    BY PowAdds
  <2> QED BY <2>1, <1>1
<1>3. pow2[4] = 16
  <2>1. pow2[2 + 2] = pow2[2] * pow2[2]
    BY PowAdds
  <2> QED BY <2>1, <1>2
<1>4. pow2[6] = 64
  <2>1. pow2[2 + 4] = pow2[2] * pow2[4]
    BY PowAdds
  <2> QED BY <2>1, <1>2, <1>3
<1> QED BY <1>1, <1>2, <1>3, <1>4

-----------------------------------------------------------------------------
(* Quotients and remainders. *)

(* What division leaves: quotient and remainder. *)
LEMMA DivMod ==
  ASSUME NEW m \in Nat \ {0}, NEW x \in Int
  PROVE  /\ x \div m \in Int /\ x % m \in 0..(m - 1)
         /\ x = m * (x \div m) + (x % m)
OBVIOUS

(* The same of a natural number, whose quotient is one. *)
LEMMA DivNat ==
  ASSUME NEW m \in Nat \ {0}, NEW x \in Nat
  PROVE  /\ x \div m \in Nat /\ x % m \in 0..(m - 1)
         /\ (x % m) + m * (x \div m) = x
OBVIOUS

(* A larger factor makes no smaller product. *)
LEMMA TimesGrows ==
  ASSUME NEW m \in Nat, NEW j \in Int, NEW k \in Int, j <= k
  PROVE  m * j <= m * k
OBVIOUS

(* A product of bounded factors is bounded. *)
LEMMA TimesBound ==
  ASSUME NEW j \in Nat, NEW k \in Nat, NEW m \in 0..j, NEW n \in 0..k
  PROVE  m * n \in 0..(j * k)
<1>1. m * n \in Nat /\ m * n <= j * n
  OBVIOUS
<1>2. j * n <= j * k
  OBVIOUS
<1> QED
  BY <1>1, <1>2

(* Only one quotient and remainder fit. *)
LEMMA DivModUnique ==
  ASSUME NEW m \in Nat \ {0}, NEW k \in Int, NEW y \in 0..(m - 1)
  PROVE  (m * k + y) \div m = k /\ (m * k + y) % m = y
OBVIOUS

(* A number below k times m has a quotient below k. *)
LEMMA DivLess ==
  ASSUME NEW m \in Nat \ {0}, NEW k \in Int, NEW x \in Int, x < m * k
  PROVE  x \div m < k
OBVIOUS

(* Divided by a product, or by one factor after the other. *)
LEMMA DivDiv ==
  ASSUME NEW m \in Nat \ {0}, NEW n \in Nat \ {0}, NEW x \in Int
  PROVE  x \div (m * n) = (x \div m) \div n
OBVIOUS

(* Multiples of the divisor leave the remainder alone. *)
LEMMA ModShift ==
  ASSUME NEW m \in Nat \ {0}, NEW k \in Int, NEW x \in Int
  PROVE  (x + m * k) % m = x % m
<1> DEFINE q == x \div m
           y == x % m
<1>1. q \in Int /\ y \in 0..(m - 1) /\ x = m * q + y
  BY DivMod
<1> HIDE DEF q, y
<1>2. x + m * k = m * (q + k) + y
  BY <1>1
<1>3. (m * (q + k) + y) % m = y
  BY <1>1, DivModUnique
<1> QED
  BY <1>2, <1>3 DEF y

(* A factor may be reduced before the remainder is taken. *)
LEMMA ModMod ==
  ASSUME NEW m \in Nat \ {0}, NEW x \in Int, NEW y \in Int, NEW z \in Int
  PROVE  ((x % m) * y + z) % m = (x * y + z) % m
<1> DEFINE q == x \div m
           t == x % m
<1>1. q \in Int /\ t \in Int /\ x = m * q + t
  BY DivMod
<1> HIDE DEF q, t
<1>2. x * y + z = (t * y + z) + m * (q * y)
  BY <1>1
<1>3. q * y \in Int /\ t * y + z \in Int
  BY <1>1
<1>4. ((t * y + z) + m * (q * y)) % m = (t * y + z) % m
  BY <1>3, ModShift, Zenon
<1> QED
  BY <1>2, <1>4 DEF t

-----------------------------------------------------------------------------
(* The exclusive or.  That the recursive function exists is the limit of   *)
(* its approximations over the sum of the two numbers (RecursionOnNat).    *)

(* The recursion of xor goes to a smaller sum. *)
LEMMA HalvesOf ==
  ASSUME NEW m \in Nat, NEW n \in Nat, m # n
  PROVE  /\ m \div 2 \in Nat /\ n \div 2 \in Nat
         /\ (m \div 2) + (n \div 2) < m + n
         /\ (m + n) % 2 \in {0, 1}
OBVIOUS

(* The equation that defines xor, of a function x. *)
XorOf(x, m, n) ==
  IF m = n THEN 0 ELSE ((m + n) % 2) + 2 * x[<<m \div 2, n \div 2>>]

(* There is a function that satisfies it. *)
LEMMA XorExists ==
  \E x \in [Nat \X Nat -> Nat] : \A m, n \in Nat : x[<<m, n>>] = XorOf(x, m, n)
<1> DEFINE S == [Nat \X Nat -> Nat]
           zero == [p \in Nat \X Nat |-> 0]
           Step(x) == [p \in Nat \X Nat |-> XorOf(x, p[1], p[2])]
           g == [q \in Nat \X S |-> Step(q[2])]
<1>1. zero \in S
  OBVIOUS
<1>2. ASSUME NEW x \in S PROVE Step(x) \in S
  <2>1. ASSUME NEW m \in Nat, NEW n \in Nat PROVE XorOf(x, m, n) \in Nat
    <3>1. CASE m = n
      BY <3>1 DEF XorOf
    <3>2. CASE m # n
      <4>1. x[<<m \div 2, n \div 2>>] \in Nat
        BY <3>2, HalvesOf
      <4> QED
        BY <3>2, <4>1, HalvesOf DEF XorOf
    <3> QED
      BY <3>1, <3>2
  <2> QED
    BY <2>1
<1>3. g \in [Nat \X S -> S]
  <2> HIDE DEF S, Step
  <2> QED
    BY <1>2
<1>4. PICK f : Iterates(f, S, zero, g)
  <2> HIDE DEF S, zero, g
  <2> QED
    BY <1>1, <1>3, RecursionOnNat
<1>5. ASSUME NEW k \in Nat PROVE f[k] \in S /\ f[k + 1] = Step(f[k])
  <2> HIDE DEF S, Step
  <2>1. f[k] \in S /\ k + 1 \in Nat
    BY <1>4 DEF Iterates
  <2> QED
    BY <1>4, <2>1 DEF Iterates
<1>6. ASSUME NEW k \in Nat, NEW m \in Nat, NEW n \in Nat
      PROVE  f[k][<<m, n>>] \in Nat /\ f[k + 1][<<m, n>>] = XorOf(f[k], m, n)
  <2>1. f[k] \in S /\ f[k + 1] = Step(f[k])
    BY <1>5
  <2> DEFINE y == f[k]
  <2>2. y[<<m, n>>] \in Nat /\ Step(y)[<<m, n>>] = XorOf(y, m, n)
    <3>1. y \in S
      BY <2>1
    <3> HIDE DEF y
    <3> QED
      BY <3>1
  <2> QED
    BY <2>1, <2>2
(* The iteration is settled for m and n after m + n steps. *)
<1> HIDE DEF S, Step, g, zero
<1> DEFINE T == {k \in Nat : \A l, m, n \in Nat :
                               m + n <= k /\ k <= l => f[l + 1][<<m, n>>] = f[k + 1][<<m, n>>]}
<1>7. 0 \in T
  <2> SUFFICES ASSUME NEW l \in Nat, NEW m \in Nat, NEW n \in Nat, m + n <= 0
               PROVE  f[l + 1][<<m, n>>] = f[0 + 1][<<m, n>>]
    OBVIOUS
  <2>1. m = n
    OBVIOUS
  <2> QED
    <3>1. f[l + 1][<<m, n>>] = XorOf(f[l], m, n) /\ f[0 + 1][<<m, n>>] = XorOf(f[0], m, n)
      BY <1>6
    <3> QED
      BY <2>1, <3>1 DEF XorOf
<1>8. ASSUME NEW k \in Nat, k \in T PROVE k + 1 \in T
  <2> SUFFICES ASSUME NEW l \in Nat, NEW m \in Nat, NEW n \in Nat, m + n <= k + 1, k + 1 <= l
               PROVE  f[l + 1][<<m, n>>] = f[(k + 1) + 1][<<m, n>>]
    OBVIOUS
  <2>1. f[l + 1][<<m, n>>] = XorOf(f[l], m, n) /\ f[(k + 1) + 1][<<m, n>>] = XorOf(f[k + 1], m, n)
    BY <1>6
  <2>2. CASE m = n
    BY <2>1, <2>2 DEF XorOf
  <2>3. CASE m # n
    <3>1. /\ m \div 2 \in Nat /\ n \div 2 \in Nat
          /\ (m \div 2) + (n \div 2) <= k
          /\ l - 1 \in Nat /\ k <= l - 1 /\ (l - 1) + 1 = l
      BY <2>3, HalvesOf
    <3>2. f[l][<<m \div 2, n \div 2>>] = f[k + 1][<<m \div 2, n \div 2>>]
      BY <1>8, <3>1
    <3> QED
      BY <2>1, <2>3, <3>2 DEF XorOf
  <2> QED
    BY <2>2, <2>3
<1>9. \A k, l, m, n \in Nat : m + n <= k /\ k <= l => f[l + 1][<<m, n>>] = f[k + 1][<<m, n>>]
  <2>1. Nat \subseteq T
    <3> HIDE DEF T
    <3> QED
      BY <1>7, <1>8, InductionOnNat
  <2> QED
    BY <2>1
<1> DEFINE x == [p \in Nat \X Nat |-> f[p[1] + p[2] + 1][<<p[1], p[2]>>]]
<1>10. ASSUME NEW m \in Nat, NEW n \in Nat
       PROVE  x[<<m, n>>] = f[m + n + 1][<<m, n>>]
  OBVIOUS
<1>11. x \in [Nat \X Nat -> Nat]
  <2>1. ASSUME NEW m \in Nat, NEW n \in Nat PROVE f[m + n + 1][<<m, n>>] \in Nat
    <3>1. m + n + 1 \in Nat
      OBVIOUS
    <3> QED
      BY <1>6, <3>1
  <2> QED
    BY <2>1
<1> HIDE DEF x
<1>12. ASSUME NEW m \in Nat, NEW n \in Nat PROVE x[<<m, n>>] = XorOf(x, m, n)
  <2>1. x[<<m, n>>] = XorOf(f[m + n], m, n)
    <3>1. m + n \in Nat
      OBVIOUS
    <3>2. f[m + n + 1][<<m, n>>] = XorOf(f[m + n], m, n)
      BY <1>6, <3>1
    <3> QED
      BY <1>10, <3>2
  <2>2. CASE m = n
    BY <2>1, <2>2 DEF XorOf
  <2>3. CASE m # n
    <3> DEFINE h == m \div 2
               e == n \div 2
               s == m + n
    <3>1. h \in Nat /\ e \in Nat /\ h + e <= s - 1 /\ s - 1 \in Nat /\ (s - 1) + 1 = s
      BY <2>3, HalvesOf
    <3>2. h + e \in Nat
      BY <3>1
    <3>3. f[s][<<h, e>>] = f[h + e + 1][<<h, e>>]
      <4> DEFINE t == s - 1
                 k == h + e
      <4>1. t \in Nat /\ t + 1 = s /\ k \in Nat /\ k <= t /\ h + e <= k
        BY <3>1, <3>2
      <4> HIDE DEF h, e, s, t, k
      <4>2. f[t + 1][<<h, e>>] = f[k + 1][<<h, e>>]
        BY <1>9, <3>1, <4>1
      <4> QED
        BY <4>1, <4>2 DEF k
    <3>4. x[<<h, e>>] = f[h + e + 1][<<h, e>>]
      <4> HIDE DEF h, e
      <4> QED
        BY <1>10, <3>1
    <3> QED
      BY <2>1, <2>3, <3>3, <3>4 DEF XorOf
  <2> QED
    BY <2>2, <2>3
<1> QED
  BY <1>11, <1>12

(* So the function that is chosen does. *)
LEMMA XorIs ==
  ASSUME NEW m \in Nat, NEW n \in Nat
  PROVE  Xor(m, n) = IF m = n THEN 0 ELSE ((m + n) % 2) + 2 * Xor(m \div 2, n \div 2)
<1> DEFINE Is(x) == x = [p \in Nat \X Nat |->
                           IF p[1] = p[2] THEN 0
                             ELSE ((p[1] + p[2]) % 2) + 2 * x[<<p[1] \div 2, p[2] \div 2>>]]
<1>1. PICK x \in [Nat \X Nat -> Nat] : \A i, j \in Nat : x[<<i, j>>] = XorOf(x, i, j)
  BY XorExists
<1>2. Is(x)
  BY <1>1 DEF XorOf
<1>3. xor = CHOOSE y : Is(y)
  BY DEF xor
<1>4. Is(xor)
  <2> HIDE DEF Is
  <2> QED
    BY <1>2, <1>3
<1>5. ASSUME NEW i \in Nat, NEW j \in Nat
      PROVE  Xor(i, j) = XorOf(xor, i, j)
  BY <1>4 DEF Xor, XorOf
<1> HIDE DEF Is
<1>6. Xor(m, n) = IF m = n THEN 0 ELSE ((m + n) % 2) + 2 * Xor(m \div 2, n \div 2)
  BY <1>5 DEF Xor, XorOf
<1> QED
  BY <1>6

(* The exclusive or of two naturals is one, and the same again undoes it. *)
LEMMA XorCancels ==
  ASSUME NEW m \in Nat, NEW n \in Nat
  PROVE  Xor(m, n) \in Nat /\ Xor(Xor(m, n), n) = m
<1> DEFINE Good(i, j) == Xor(i, j) \in Nat /\ Xor(Xor(i, j), j) = i
           T == {k \in Nat : \A i, j \in Nat : i + j <= k => Good(i, j)}
<1>1. ASSUME NEW i \in Nat, NEW j \in Nat, i # j, Good(i \div 2, j \div 2) PROVE Good(i, j)
  <2> DEFINE h == i \div 2
             e == j \div 2
             x == Xor(i, j)
             y == Xor(h, e)
  <2>1. h \in Nat /\ e \in Nat /\ y \in Nat /\ Xor(y, e) = h
    BY <1>1, HalvesOf
  <2>2. x = ((i + j) % 2) + 2 * y
    BY <1>1, XorIs
  <2>3. x \in Nat /\ x \div 2 = y /\ x % 2 = (i + j) % 2
    <3> HIDE DEF y, x
    <3> QED
      BY <2>1, <2>2
  <2>4. Xor(e, e) = 0
    BY <2>1, XorIs
  <2>5. CASE x = j
    <3>1. y = e /\ (i + j) % 2 = j % 2
      BY <2>3, <2>5
    <3>2. h = 0
      BY <2>1, <2>4, <3>1
    <3>3. i = 0
      BY <3>1, <3>2
    <3>4. Xor(x, j) = 0
      BY <2>5, XorIs
    <3> QED
      BY <2>3, <3>3, <3>4
  <2>6. CASE x # j
    <3>1. Xor(x, j) = ((x + j) % 2) + 2 * Xor(x \div 2, e)
      <4> HIDE DEF x
      <4> QED
        BY <2>3, <2>6, XorIs
    <3>2. Xor(x, j) = ((x + j) % 2) + 2 * h
      BY <2>1, <2>3, <3>1
    <3>3. (x + j) % 2 = i % 2
      <4> HIDE DEF x
      <4> QED
        BY <2>3
    <3>4. Xor(x, j) = i
      <4> HIDE DEF x
      <4> QED
        BY <3>2, <3>3
    <3> QED
      BY <2>3, <3>4
  <2> QED
    BY <2>5, <2>6
<1>2. ASSUME NEW i \in Nat PROVE Xor(i, i) = 0
  BY XorIs
<1>3. 0 \in T
  <2>1. Good(0, 0)
    BY <1>2
  <2> HIDE DEF Good
  <2> QED
    BY <2>1
<1>4. ASSUME NEW i \in Nat, Good(i \div 2, i \div 2) PROVE Good(i, i)
  <2> DEFINE e == i \div 2
  <2>1. e \in Nat /\ 0 \div 2 = 0 /\ i = (i % 2) + 2 * e
    OBVIOUS
  <2>2. Xor(0, e) = e
    BY <1>2, <1>4, <2>1
  <2>3. CASE i = 0
    BY <1>2, <2>3
  <2>4. CASE i # 0
    <3>1. Xor(0, i) = ((0 + i) % 2) + 2 * Xor(0, e)
      BY <2>1, <2>4, XorIs
    <3>2. Xor(0, i) = i
      BY <2>1, <2>2, <3>1
    <3> QED
      BY <1>2, <3>2
  <2> QED
    BY <2>3, <2>4
<1>5. ASSUME NEW k \in Nat, k \in T PROVE k + 1 \in T
  <2>1. ASSUME NEW i \in Nat, NEW j \in Nat, i + j <= k + 1 PROVE Good(i, j)
    <3> DEFINE h == i \div 2
               e == j \div 2
    <3>1. CASE i + j = 0
      <4>1. Good(0, 0)
        BY <1>2
      <4>2. i = 0 /\ j = 0
        BY <3>1
      <4> HIDE DEF Good
      <4> QED
        BY <4>1, <4>2
    <3>2. CASE i + j # 0
      <4>1. h \in Nat /\ e \in Nat /\ h + e <= k
        BY <2>1, <3>2
      <4>2. Good(h, e)
        <5> HIDE DEF Good, h, e
        <5> QED
          BY <1>5, <4>1
      <4> HIDE DEF Good
      <4> QED
        BY <1>1, <1>4, <4>2
    <3> QED
      BY <3>1, <3>2
  <2> HIDE DEF Good
  <2> QED
    BY <2>1
<1> HIDE DEF Good
<1>6. Nat \subseteq T
  <2> HIDE DEF T
  <2> QED
    BY <1>3, <1>5, InductionOnNat
<1>7. Good(m, n)
  <2>1. m + n \in T
    BY <1>6
  <2> QED
    BY <2>1
<1> QED
  BY <1>7 DEF Good

(* Induction along the recursion of xor. *)
LEMMA XorInduction ==
  ASSUME NEW G, <<0, 0>> \in G,
         \A i, j \in Nat : i + j # 0 /\ <<i \div 2, j \div 2>> \in G => <<i, j>> \in G
  PROVE  \A i, j \in Nat : <<i, j>> \in G
<1> DEFINE T == {k \in Nat : \A i, j \in Nat : i + j <= k => <<i, j>> \in G}
<1>1. 0 \in T
  OBVIOUS
<1>2. ASSUME NEW k \in Nat, k \in T PROVE k + 1 \in T
  <2> SUFFICES ASSUME NEW i \in Nat, NEW j \in Nat, i + j <= k + 1 PROVE <<i, j>> \in G
    OBVIOUS
  <2>1. CASE i + j = 0
    <3>1. i = 0 /\ j = 0
      BY <2>1
    <3> QED
      BY <3>1
  <2>2. CASE i + j # 0
    <3>1. i \div 2 \in Nat /\ j \div 2 \in Nat /\ (i \div 2) + (j \div 2) <= k
      BY <2>2
    <3>2. <<i \div 2, j \div 2>> \in G
      BY <1>2, <3>1
    <3> QED
      BY <2>2, <3>2
  <2> QED
    BY <2>1, <2>2
<1>3. Nat \subseteq T
  <2> HIDE DEF T
  <2> QED
    BY <1>1, <1>2, InductionOnNat
<1>4. ASSUME NEW i \in Nat, NEW j \in Nat PROVE <<i, j>> \in G
  <2>1. i + j \in Nat
    OBVIOUS
  <2>2. i + j \in T
    <3> HIDE DEF T
    <3> QED
      BY <1>3, <2>1
  <2> QED
    BY <2>2
<1> QED
  BY <1>4

(* The exclusive or lies between difference and sum, and is as even. *)
LEMMA XorBounds ==
  ASSUME NEW m \in Nat, NEW n \in Nat
  PROVE  /\ m - n <= Xor(m, n) /\ n - m <= Xor(m, n) /\ Xor(m, n) <= m + n
         /\ Xor(m, n) % 2 = (m + n) % 2
<1> DEFINE Good(i, j) == /\ i - j <= Xor(i, j) /\ j - i <= Xor(i, j) /\ Xor(i, j) <= i + j
                         /\ Xor(i, j) % 2 = (i + j) % 2
           G == {q \in Nat \X Nat : Good(q[1], q[2])}
<1>1. ASSUME NEW i \in Nat PROVE Good(i, i)
  <2>1. Xor(i, i) = 0
    BY XorIs
  <2> QED
    BY <2>1
<1>2. ASSUME NEW i \in Nat, NEW j \in Nat, i # j, Good(i \div 2, j \div 2) PROVE Good(i, j)
  <2> DEFINE h == i \div 2
             e == j \div 2
             x == Xor(i, j)
             y == Xor(h, e)
  <2>1. h \in Nat /\ e \in Nat /\ y \in Nat
    <3>1. h \in Nat /\ e \in Nat
      OBVIOUS
    <3> HIDE DEF h, e
    <3> QED
      BY <3>1, XorCancels
  <2>2. x = ((i + j) % 2) + 2 * y
    BY <1>2, XorIs
  <2>3. i = (i % 2) + 2 * h /\ j = (j % 2) + 2 * e /\ i % 2 \in {0, 1} /\ j % 2 \in {0, 1}
    OBVIOUS
  <2>4. h - e <= y /\ e - h <= y /\ y <= h + e
    BY <1>2
  <2> HIDE DEF x, y, h, e
  <2> DEFINE z == (i + j) % 2
  <2>5. z \in {0, 1} /\ (z = 0 <=> i % 2 = j % 2)
    OBVIOUS
  <2>6. x = z + 2 * y
    BY <2>2
  <2> HIDE DEF z
  <2>7. i - j <= x /\ j - i <= x /\ x <= i + j
    BY <2>1, <2>3, <2>4, <2>5, <2>6
  <2>8. x % 2 = z
    BY <2>1, <2>5, <2>6
  <2> QED
    BY <2>7, <2>8 DEF x, z
<1>3. <<0, 0>> \in G
  <2>1. Good(0, 0)
    BY <1>1
  <2> HIDE DEF Good
  <2> QED
    BY <2>1
<1>4. ASSUME NEW i \in Nat, NEW j \in Nat, <<i \div 2, j \div 2>> \in G PROVE <<i, j>> \in G
  <2>1. Good(i \div 2, j \div 2)
    <3> HIDE DEF Good
    <3> QED
      BY <1>4
  <2> HIDE DEF Good
  <2> QED
    BY <1>1, <1>2, <2>1
<1> HIDE DEF G
<1>5. <<m, n>> \in G
  BY <1>3, <1>4, XorInduction
<1> HIDE DEF Good
<1>6. Good(m, n)
  BY <1>5 DEF G
<1> QED
  BY <1>6 DEF Good

(* It does not depend on the order of the two. *)
LEMMA XorCommutes ==
  ASSUME NEW m \in Nat, NEW n \in Nat
  PROVE  Xor(m, n) = Xor(n, m)
<1> DEFINE Good(i, j) == Xor(i, j) = Xor(j, i)
           G == {q \in Nat \X Nat : Good(q[1], q[2])}
<1>1. ASSUME NEW i \in Nat, NEW j \in Nat, i # j, Good(i \div 2, j \div 2) PROVE Good(i, j)
  <2>1. Xor(i, j) = ((i + j) % 2) + 2 * Xor(i \div 2, j \div 2)
    BY <1>1, XorIs
  <2>2. Xor(j, i) = ((j + i) % 2) + 2 * Xor(j \div 2, i \div 2)
    BY <1>1, XorIs
  <2>3. i + j = j + i
    OBVIOUS
  <2> QED
    BY <1>1, <2>1, <2>2, <2>3
<1>2. ASSUME NEW i \in Nat, NEW j \in Nat, <<i \div 2, j \div 2>> \in G PROVE <<i, j>> \in G
  <2>1. Good(i \div 2, j \div 2)
    <3> HIDE DEF Good
    <3> QED
      BY <1>2
  <2>2. Good(i, i)
    OBVIOUS
  <2> HIDE DEF Good
  <2> QED
    BY <1>1, <2>1, <2>2
<1>3. <<0, 0>> \in G
  OBVIOUS
<1> HIDE DEF G
<1>4. <<m, n>> \in G
  BY <1>2, <1>3, XorInduction
<1> QED
  BY <1>4 DEF G

(* One number and the exclusive or determine the other. *)
LEMMA XorInjective ==
  ASSUME NEW m \in Nat, NEW n \in Nat, NEW k \in Nat
  PROVE  (Xor(m, k) = Xor(n, k) \/ Xor(k, m) = Xor(k, n)) => m = n
<1>1. Xor(Xor(m, k), k) = m /\ Xor(Xor(n, k), k) = n
  BY XorCancels
<1>2. Xor(k, m) = Xor(m, k) /\ Xor(k, n) = Xor(n, k)
  BY XorCommutes
<1> QED
  BY <1>1, <1>2

(* It has no more bits than the two numbers. *)
LEMMA XorBelow ==
  ASSUME NEW k \in Nat, NEW m \in 0..(pow2[k] - 1), NEW n \in 0..(pow2[k] - 1)
  PROVE  Xor(m, n) \in 0..(pow2[k] - 1)
<1> DEFINE Below(p) == \A i, j \in 0..(p - 1) : Xor(i, j) \in 0..(p - 1)
           T == {l \in Nat : Below(pow2[l])}
<1>1. Below(1)
  <2>1. Xor(0, 0) = 0
    BY XorIs
  <2>2. 0..(1 - 1) = {0}
    OBVIOUS
  <2> QED
    BY <2>1, <2>2
<1>2. ASSUME NEW p \in Nat \ {0}, Below(p) PROVE Below(2 * p)
  <2> SUFFICES ASSUME NEW i \in 0..(2 * p - 1), NEW j \in 0..(2 * p - 1)
               PROVE  Xor(i, j) \in 0..(2 * p - 1)
    OBVIOUS
  <2>1. CASE i = j
    <3>1. Xor(i, j) = 0
      BY <2>1, XorIs
    <3> QED
      BY <3>1
  <2>2. CASE i # j
    <3> DEFINE y == Xor(i \div 2, j \div 2)
               z == (i + j) % 2
    <3>1. i \div 2 \in 0..(p - 1) /\ j \div 2 \in 0..(p - 1)
      OBVIOUS
    <3>2. y \in 0..(p - 1)
      BY <1>2, <3>1
    <3>3. Xor(i, j) = z + 2 * y /\ z \in {0, 1}
      BY <2>2, XorIs
    <3> HIDE DEF y, z
    <3> QED
      BY <3>2, <3>3
  <2> QED
    BY <2>1, <2>2
<1> HIDE DEF Below
<1>3. 0 \in T /\ \A l \in Nat : l \in T => l + 1 \in T
  BY <1>1, <1>2, PowIs
<1>4. k \in T
  <2> HIDE DEF T
  <2> QED
    BY <1>3, InductionOnNat
<1> QED
  BY <1>4 DEF Below

(* A mask keeps a number within the mask. *)
LEMMA AndBounds ==
  ASSUME NEW m \in Nat, NEW n \in Nat
  PROVE  And(m, n) \in Nat /\ And(m, n) <= m /\ And(m, n) <= n
<1> DEFINE x == Xor(m, n)
<1>1. x \in Nat /\ m - n <= x /\ n - m <= x /\ x <= m + n
  BY XorBounds, XorCancels
<1>2. And(m, n) = (m + n - x) \div 2
  BY DEF And
<1> HIDE DEF x
<1> QED
  BY <1>1, <1>2

(* Where one number has no bits, the or of two is their sum. *)
LEMMA OrJoins ==
  ASSUME NEW k \in Nat, NEW m \in Nat, m < pow2[k], NEW n \in Nat
  PROVE  Or(m, n * pow2[k]) = m + n * pow2[k]
<1> DEFINE Joins(p) == \A i, j \in Nat : i < p => Xor(i, j * p) = i + j * p
           T == {l \in Nat : Joins(pow2[l])}
<1>1. 0 \in T
  <2>1. ASSUME NEW j \in Nat PROVE Xor(0, j) = j
    <3>1. Xor(j, j) = 0
      BY XorIs
    <3> QED
      BY <3>1, XorCancels
  <2>2. Joins(1)
    <3> SUFFICES ASSUME NEW i \in Nat, NEW j \in Nat, i < 1 PROVE Xor(i, j * 1) = i + j * 1
      OBVIOUS
    <3>1. i = 0 /\ j * 1 = j /\ 0 + j = j
      OBVIOUS
    <3> QED
      BY <2>1, <3>1
  <2> HIDE DEF Joins
  <2> QED
    BY <2>2, PowIs
<1>2. ASSUME NEW p \in Nat \ {0}, Joins(p) PROVE Joins(2 * p)
  <2> SUFFICES ASSUME NEW i \in Nat, NEW j \in Nat, i < 2 * p
               PROVE  Xor(i, j * (2 * p)) = i + j * (2 * p)
    OBVIOUS
  <2> DEFINE w == j * p
  <2>1. w \in Nat /\ j * (2 * p) = 2 * w
    OBVIOUS
  <2>2. \A l \in Nat : l < p => Xor(l, w) = l + w
    BY <1>2
  <2>3. i = 2 * w => w = 0
    <3>1. CASE j = 0
      BY <3>1
    <3>2. CASE j # 0
      <4>1. w >= p
        <5>1. w = p + (j - 1) * p /\ (j - 1) * p \in Nat
          BY <3>2
        <5> HIDE DEF w
        <5> QED
          BY <2>1, <5>1
      <4> HIDE DEF w
      <4> QED
        BY <2>1, <4>1
    <3> QED
      BY <3>1, <3>2
  <2> HIDE DEF w
  <2>4. CASE i = 2 * w
    <3>1. i = 0 /\ w = 0
      BY <2>3, <2>4
    <3>2. Xor(0, 0) = 0
      BY XorIs
    <3> QED
      BY <2>1, <3>1, <3>2
  <2>5. CASE i # 2 * w
    <3> DEFINE h == i \div 2
    <3>1. h \in Nat /\ h < p /\ (2 * w) \div 2 = w /\ (i + 2 * w) % 2 = i % 2 /\ i = (i % 2) + 2 * h
      BY <2>1
    <3>2. Xor(i, 2 * w) = ((i + 2 * w) % 2) + 2 * Xor(h, w)
      <4>1. 2 * w \in Nat
        BY <2>1
      <4> QED
        BY <2>5, <3>1, <4>1, XorIs
    <3>3. Xor(h, w) = h + w
      BY <2>2, <3>1
    <3> HIDE DEF h
    <3>4. Xor(i, 2 * w) = (i % 2) + 2 * (h + w)
      BY <3>1, <3>2, <3>3
    <3>5. Xor(i, 2 * w) = i + 2 * w
      BY <2>1, <3>1, <3>4
    <3> QED
      BY <2>1, <3>5
  <2> QED
    BY <2>4, <2>5
<1> HIDE DEF Joins
<1>3. ASSUME NEW l \in Nat, l \in T PROVE l + 1 \in T
  BY <1>2, <1>3, PowIs
<1>4. Joins(pow2[k])
  <2>1. Nat \subseteq T
    <3> HIDE DEF T
    <3> QED
      BY <1>1, <1>3, InductionOnNat
  <2> QED
    BY <2>1
<1> DEFINE w == n * pow2[k]
<1>5. w \in Nat /\ Xor(m, w) = m + w
  <2>1. pow2[k] \in Nat
    BY PowIs
  <2> QED
    BY <1>4, <2>1 DEF Joins
<1>6. Or(m, w) = (m + w + (m + w)) \div 2
  BY <1>5 DEF Or
<1> HIDE DEF w
<1>7. Or(m, w) = m + w
  BY <1>5, <1>6
<1> QED
  BY <1>7 DEF w

-----------------------------------------------------------------------------
(* A sequence of some values is one of more values. *)
LEMMA MoreValues ==
  ASSUME NEW A, NEW B, A \subseteq B, NEW q \in Seq(A)
  PROVE  q \in Seq(B)
OBVIOUS

-----------------------------------------------------------------------------
(* Streams may be regrouped. *)
Associates(u, v, w) == (u \o v) \o w = u \o (v \o w)

LEMMA Regroup ==
  ASSUME NEW B, NEW u \in Seq(B), NEW v \in Seq(B), NEW w \in Seq(B)
  PROVE  Associates(u, v, w)
BY ConcatAssociative DEF Associates

LEMMA AppendToHeader ==
  ASSUME NEW B, NEW x \in B, NEW y \in B, NEW z \in B
  PROVE  /\ Append(<<>>, x) = <<x>>
         /\ Append(<<x>>, y) = <<x, y>>
         /\ Append(<<x, y>>, z) = <<x, y, z>>
<1> DEFINE p2 == Append(<<x>>, y)     q2 == <<x, y>>
           p3 == Append(<<x, y>>, z)  q3 == <<x, y, z>>
<1>1. p2 \in Seq(B) /\ Len(p2) = 2 /\ p2[1] = x /\ p2[2] = y
  OBVIOUS
<1>2. q2 \in Seq(B) /\ Len(q2) = 2 /\ q2[1] = x /\ q2[2] = y
  OBVIOUS
<1>3. p3 \in Seq(B) /\ Len(p3) = 3 /\ p3[1] = x /\ p3[2] = y /\ p3[3] = z
  OBVIOUS
<1>4. q3 \in Seq(B) /\ Len(q3) = 3 /\ q3[1] = x /\ q3[2] = y /\ q3[3] = z
  OBVIOUS
<1> HIDE DEF p2, q2, p3, q3
<1>5. p2 = q2
  <2>1. \A i \in 1..2 : i = 1 \/ i = 2
    OBVIOUS
  <2> QED
    BY <1>1, <1>2, <2>1, SeqEqual
<1>6. p3 = q3
  <2>1. \A i \in 1..3 : i = 1 \/ i = 2 \/ i = 3
    OBVIOUS
  <2> QED
    BY <1>3, <1>4, <2>1, SeqEqual
<1> QED
  BY <1>5, <1>6 DEF p2, q2, p3, q3

(* The bytes of a frame with the length byte len and so much of a payload. *)
InFrame(sync, len, payload) == <<sync, sync, len>> \o payload

LEMMA InFrameStarts ==
  ASSUME NEW B, NEW sync \in B, NEW len \in B, NEW payload \in Seq(B)
  PROVE  LET p == InFrame(sync, len, payload) IN
           /\ p \in Seq(B)
           /\ Len(p) = 3 + Len(payload)
           /\ p[1] = sync /\ p[2] = sync /\ p[3] = len
<1>1. <<sync, sync, len>> \in Seq(B) /\ Len(<<sync, sync, len>>) = 3
  OBVIOUS
<1> QED
  BY <1>1, ConcatProperties DEF InFrame

LEMMA InFrameEnds ==
  ASSUME NEW B, NEW sync \in B, NEW len \in B, NEW payload \in Seq(B)
  PROVE  SubSeq(InFrame(sync, len, payload), 4, 3 + Len(payload)) = payload
<1> DEFINE p == InFrame(sync, len, payload)
           rest == SubSeq(p, 4, 3 + Len(payload))
<1>1. /\ p \in Seq(B) /\ Len(p) = 3 + Len(payload)
      /\ \A i \in 1..Len(payload) : p[3 + i] = payload[i]
  BY ConcatProperties DEF InFrame
<1> HIDE DEF p
<1>2. /\ rest \in Seq(B) /\ Len(rest) = Len(payload)
      /\ \A i \in 1..Len(payload) : rest[i] = payload[i]
  BY <1>1
<1> HIDE DEF rest
<1>3. rest = payload
  BY <1>2, SeqEqual
<1> QED
  BY <1>3 DEF rest, p

LEMMA InFrameGrows ==
  ASSUME NEW B, NEW sync \in B, NEW len \in B, NEW payload \in Seq(B), NEW b \in B
  PROVE  Append(InFrame(sync, len, payload), b) =
           InFrame(sync, len, Append(payload, b))
<1> DEFINE header == <<sync, sync, len>>
<1>1. header \in Seq(B) /\ <<b>> \in Seq(B) /\ header \o payload \in Seq(B)
  OBVIOUS
<1> HIDE DEF header
<1>2. Append(header \o payload, b) = (header \o payload) \o <<b>>
  BY <1>1, AppendIsConcat
<1>3. (header \o payload) \o <<b>> = header \o (payload \o <<b>>)
  <2>1. Associates(header, payload, <<b>>)
    BY <1>1, Regroup
  <2> QED
    BY <2>1 DEF Associates
<1>4. payload \o <<b>> = Append(payload, b)
  BY AppendIsConcat
<1> QED
  BY <1>2, <1>3, <1>4 DEF InFrame, header

LEMMA InFrameIs ==
  ASSUME NEW B, NEW sync \in B, NEW p \in Seq(B), Len(p) >= 3,
         p[1] = sync, p[2] = sync
  PROVE  /\ SubSeq(p, 4, Len(p)) \in Seq(B)
         /\ p = InFrame(sync, p[3], SubSeq(p, 4, Len(p)))
<1> DEFINE payload == SubSeq(p, 4, Len(p))
           header  == <<sync, sync, p[3]>>
<1>1. /\ payload \in Seq(B) /\ Len(p) - Len(payload) = 3
      /\ \A i \in 1..Len(payload) : payload[i] = p[3 + i]
  <2> DEFINE n == 3
  <2>1. n \in 1..Len(p) /\ n + 1 = 4
    OBVIOUS
  <2> HIDE DEF n
  <2>2. /\ SubSeq(p, n + 1, Len(p)) \in Seq(B)
        /\ Len(SubSeq(p, n + 1, Len(p))) = Len(p) - n
        /\ \A i \in 1..(Len(p) - n) : SubSeq(p, n + 1, Len(p))[i] = p[n + i]
    BY <2>1
  <2> QED
    BY <2>1, <2>2 DEF n
<1>2. p[3] \in B /\ Len(p) \in Nat /\ Len(payload) \in Nat
  BY <1>1, LenProperties
<1>3. /\ header \in Seq(B) /\ Len(header) = 3
      /\ header[1] = p[1] /\ header[2] = p[2] /\ header[3] = p[3]
  BY <1>2
<1> HIDE DEF payload, header
<1>4. /\ header \o payload \in Seq(B) /\ Len(header \o payload) = Len(p)
      /\ \A i \in 1..Len(p) :
           (header \o payload)[i] = IF i <= 3 THEN header[i] ELSE payload[i - 3]
  <2>1. Len(header) + Len(payload) = Len(p)
    BY <1>1, <1>2, <1>3
  <2>2. /\ header \o payload \in Seq(B)
        /\ Len(header \o payload) = Len(header) + Len(payload)
        /\ \A i \in 1..(Len(header) + Len(payload)) :
             (header \o payload)[i] = IF i <= Len(header) THEN header[i]
                                       ELSE payload[i - Len(header)]
    BY <1>1, <1>3, ConcatProperties
  <2> QED
    BY <1>3, <2>1, <2>2
<1>5. \A i \in 1..Len(p) : (header \o payload)[i] = p[i]
  <2> TAKE i \in 1..Len(p)
  <2>1. CASE i <= 3
    <3>1. i = 1 \/ i = 2 \/ i = 3
      BY <1>2, <2>1
    <3> QED
      BY <1>3, <1>4, <2>1, <3>1
  <2>2. CASE ~(i <= 3)
    <3>1. i - 3 \in 1..Len(payload)
      BY <1>1, <1>2, <2>2
    <3>2. payload[i - 3] = p[3 + (i - 3)]
      BY <1>1, <3>1
    <3>3. 3 + (i - 3) = i
      BY <1>2
    <3> QED
      BY <1>4, <2>2, <3>2, <3>3
  <2> QED
    BY <2>1, <2>2
<1>6. header \o payload = p
  BY <1>4, <1>5, SeqEqual
<1> QED
  BY <1>1, <1>6 DEF payload, header, InFrame

-----------------------------------------------------------------------------
(* A byte taken from the front of a stream and put behind what is already   *)
(* in hand.                                                                *)
LEMMA FirstByte ==
  ASSUME NEW B, NEW d \in Seq(B), d # <<>>
  PROVE  Head(d) \in B /\ Tail(d) \in Seq(B) /\ d = <<Head(d)>> \o Tail(d)
<1> DEFINE b == Head(d)
<1>1. b \in B /\ Tail(d) \in Seq(B) /\ <<b>> \in Seq(B)
  OBVIOUS
<1>2. d = <<b>> \o Tail(d)
  <2>1. \A i \in 1..Len(d) : d[i] = (<<b>> \o Tail(d))[i]
    BY <1>1
  <2>2. Len(d) = Len(<<b>> \o Tail(d)) /\ <<b>> \o Tail(d) \in Seq(B)
    BY <1>1
  <2> QED
    BY <2>1, <2>2, SeqEqual
<1> QED
  BY <1>1, <1>2

(* The front of a stream. *)
LEMMA FrontStays ==
  ASSUME NEW B, NEW f \in Seq(B), NEW q \in Seq(B)
  PROVE  \A i \in 1..Len(f) : (f \o q)[i] = f[i]
<1>1. Len(f) \in Nat /\ Len(q) \in Nat
  OBVIOUS
<1> QED
  BY <1>1, ConcatProperties

(* A byte moves on from one part of a stream to the part before it. *)
LEMMA ByteMoves ==
  ASSUME NEW B, NEW p \in Seq(B), NEW d \in Seq(B), d # <<>>, NEW q \in Seq(B),
         NEW b, b = Head(d), NEW t, t = Tail(d)
  PROVE  p \o (d \o q) = (p \o <<b>>) \o (t \o q)
<1> DEFINE one == <<b>>
<1>1. one \in Seq(B) /\ t \in Seq(B) /\ d = one \o t
  BY FirstByte
<1> HIDE DEF one
<1>2. one \in Seq(B) /\ t \in Seq(B) /\ p \in Seq(B) /\ q \in Seq(B)
      /\ t \o q \in Seq(B)
  BY <1>1, ConcatProperties
<1>3. (one \o t) \o q = one \o (t \o q)
  <2>1. one \in Seq(B) /\ t \in Seq(B) /\ q \in Seq(B)
    BY <1>2
  <2>2. Associates(one, t, q)
    BY <2>1, Regroup
  <2> QED
    BY <2>2 DEF Associates
<1> DEFINE u == t \o q
<1>4. (p \o one) \o u = p \o (one \o u)
  <2>1. p \in Seq(B) /\ one \in Seq(B) /\ u \in Seq(B)
    BY <1>2
  <2> HIDE DEF u
  <2>2. Associates(p, one, u)
    BY <2>1, Regroup
  <2> QED
    BY <2>2 DEF Associates
<1> QED
  BY <1>1, <1>3, <1>4 DEF one

LEMMA ByteIsAppended ==
  ASSUME NEW B, NEW p \in Seq(B), NEW d \in Seq(B), d # <<>>
  PROVE  p \o d = Append(p, Head(d)) \o Tail(d)
<1> DEFINE one == <<Head(d)>>  t == Tail(d)
<1>1. one \in Seq(B) /\ t \in Seq(B) /\ d = one \o t /\ Head(d) \in B
  BY FirstByte
<1>2. Append(p, Head(d)) = p \o one
  BY <1>1, AppendIsConcat
<1> HIDE DEF one, t
<1>3. one \in Seq(B) /\ t \in Seq(B) /\ p \in Seq(B)
  BY <1>1
<1>4. (p \o one) \o t = p \o (one \o t)
  <2>1. Associates(p, one, t)
    BY <1>3, Regroup
  <2> QED
    BY <2>1 DEF Associates
<1> QED
  BY <1>1, <1>2, <1>4 DEF t

(* A sequence with another entry, of any kind. *)
LEMMA OneMoreEntry ==
  ASSUME NEW S, NEW s \in Seq(S), NEW x
  PROVE  /\ s \o <<x>> \in Seq(S \cup {x})
         /\ Len(s \o <<x>>) - Len(s) = 1
         /\ \A i \in 1..Len(s) : (s \o <<x>>)[i] = s[i]
         /\ (s \o <<x>>)[Len(s) + 1] = x
<1>1. s \in Seq(S \cup {x}) /\ Len(s) \in Nat
  OBVIOUS
<1>2. <<x>> \in Seq(S \cup {x}) /\ Len(<<x>>) = 1 /\ <<x>>[1] = x
  OBVIOUS
<1> DEFINE one == <<x>>
<1> HIDE DEF one
<1>3. /\ s \o one \in Seq(S \cup {x})
      /\ Len(s \o one) = Len(s) + 1
      /\ \A i \in 1..(Len(s) + 1) :
           (s \o one)[i] = IF i <= Len(s) THEN s[i] ELSE one[i - Len(s)]
  BY <1>1, <1>2, ConcatProperties DEF one
<1>4. (s \o one)[Len(s) + 1] = one[1]
  BY <1>1, <1>3
<1> QED
  BY <1>1, <1>2, <1>3, <1>4 DEF one

(* A stream cut in two. *)
LEMMA CutInTwo ==
  ASSUME NEW B, NEW s \in Seq(B), NEW n \in 1..Len(s)
  PROVE  LET front == SubSeq(s, 1, n)  back == SubSeq(s, n + 1, Len(s)) IN
           front \in Seq(B) /\ back \in Seq(B) /\ front \o back = s
<1> DEFINE front == SubSeq(s, 1, n)  back == SubSeq(s, n + 1, Len(s))
<1>1. /\ front \in Seq(B) /\ Len(front) = n
      /\ \A i \in 1..n : front[i] = s[i]
  OBVIOUS
<1>2. /\ back \in Seq(B) /\ Len(back) = Len(s) - n
      /\ \A i \in 1..(Len(s) - n) : back[i] = s[n + i]
  OBVIOUS
<1> HIDE DEF front, back
<1>3. /\ front \o back \in Seq(B) /\ Len(front \o back) = Len(s)
      /\ \A i \in 1..Len(s) :
           (front \o back)[i] = IF i <= n THEN front[i] ELSE back[i - n]
  <2>1. Len(front) + Len(back) = Len(s)
    BY <1>1, <1>2
  <2>2. /\ front \o back \in Seq(B) /\ Len(front \o back) = Len(front) + Len(back)
        /\ \A i \in 1..(Len(front) + Len(back)) :
             (front \o back)[i] = IF i <= Len(front) THEN front[i]
                                                     ELSE back[i - Len(front)]
    BY <1>1, <1>2, ConcatProperties
  <2> QED
    BY <1>1, <2>1, <2>2
<1>4. \A i \in 1..Len(s) : (front \o back)[i] = s[i]
  BY <1>1, <1>2, <1>3
<1>5. front \o back = s
  BY <1>3, <1>4, SeqEqual
<1> QED
  BY <1>1, <1>2, <1>5 DEF front, back

-----------------------------------------------------------------------------
(* A whole frame on the wire. *)
IsFrame(B, sync, max, f) ==
  /\ f \in Seq(B)
  /\ Len(f) >= 3
  /\ f[1] = sync /\ f[2] = sync
  /\ f[3] \in B \cap 1..max
  /\ Len(f) = 3 + f[3]

(* p has room for another byte of its payload, or of its header. *)
Unfinished(p) == Len(p) >= 3 => Len(p) < 3 + p[3]

(* a is p with another byte; f starts with a. *)
OneMore(p, a) == Len(a) = Len(p) + 1 /\ \A i \in 1..Len(p) : a[i] = p[i]
StartsWith(f, a) == Len(a) <= Len(f) /\ \A i \in 1..Len(a) : a[i] = f[i]

(* What starts a stream that starts with a frame, and was not yet all of    *)
(* it without its last byte, is the start of that frame.                   *)
LEMMA StartOfFrame ==
  ASSUME NEW B, NEW sync \in B, NEW max \in Nat,
         NEW f, IsFrame(B, sync, max, f), NEW q \in Seq(B),
         NEW p \in Seq(B), NEW a \in Seq(B), NEW rest \in Seq(B),
         Unfinished(p), OneMore(p, a), a \o rest = f \o q
  PROVE  StartsWith(f, a)
<1>1. /\ a \in Seq(B) /\ Len(a) = Len(p) + 1
      /\ \A i \in 1..Len(p) : a[i] = p[i]
      /\ Len(p) >= 3 => Len(p) < 3 + p[3]
  BY DEF OneMore, Unfinished
<1>2. f \in Seq(B) /\ Len(f) >= 3 /\ Len(f) = 3 + f[3] /\ f[3] \in Nat
  BY DEF IsFrame
<1>3. /\ Len(a \o rest) = Len(a) + Len(rest)
      /\ \A i \in 1..Len(a) : (a \o rest)[i] = a[i]
  <2>1. Len(a) \in Nat /\ Len(rest) \in Nat
    BY <1>1, LenProperties
  <2>2. /\ Len(a \o rest) = Len(a) + Len(rest)
        /\ \A i \in 1..(Len(a) + Len(rest)) :
             (a \o rest)[i] = IF i <= Len(a) THEN a[i] ELSE rest[i - Len(a)]
    BY <1>1, ConcatProperties
  <2> QED
    BY <2>1, <2>2
<1>4. /\ Len(f \o q) = Len(f) + Len(q)
      /\ \A i \in 1..Len(f) : (f \o q)[i] = f[i]
  <2>1. Len(f) \in Nat /\ Len(q) \in Nat
    BY <1>2, LenProperties
  <2>2. /\ Len(f \o q) = Len(f) + Len(q)
        /\ \A i \in 1..(Len(f) + Len(q)) :
             (f \o q)[i] = IF i <= Len(f) THEN f[i] ELSE q[i - Len(f)]
    BY <1>2, ConcatProperties
  <2> QED
    BY <2>1, <2>2
<1>5. a \o rest = f \o q
  OBVIOUS
<1>6. \A i \in 1..Len(a) : i <= Len(f) => a[i] = f[i]
  <2> TAKE i \in 1..Len(a)
  <2> HAVE i <= Len(f)
  <2>1. i \in 1..Len(f)
    BY <1>1, <1>2
  <2> QED
    BY <1>3, <1>4, <1>5, <2>1
<1>7. Len(a) <= Len(f)
  <2>1. CASE Len(p) < 3
    BY <1>1, <1>2, <2>1
  <2>2. CASE Len(p) >= 3
    <3>1. a[3] = p[3] /\ a[3] = f[3]
      BY <1>1, <1>2, <1>6, <2>2
    <3> QED
      BY <1>1, <1>2, <2>2, <3>1
  <2> QED
    BY <1>1, <2>1, <2>2
<1>8. \A i \in 1..Len(a) : a[i] = f[i]
  BY <1>1, <1>2, <1>6, <1>7
<1> QED
  BY <1>7, <1>8 DEF StartsWith

(* A stream that starts with a frame is not the start of one. *)
LEMMA NothingUnfinished ==
  ASSUME NEW B, NEW sync, NEW max \in Nat,
         NEW f, IsFrame(B, sync, max, f), NEW q \in Seq(B)
  PROVE  ~Unfinished(f \o q)
<1>1. f \in Seq(B) /\ Len(f) = 3 + f[3] /\ Len(f) >= 3 /\ f[3] \in Nat
  BY DEF IsFrame
<1> DEFINE p == f \o q
<1>2. Len(p) = Len(f) + Len(q) /\ Len(q) \in Nat /\ p[3] = f[3]
  <2>1. Len(p) = Len(f) + Len(q) /\ Len(q) \in Nat
    BY <1>1, ConcatProperties
  <2>2. \A i \in 1..Len(f) : p[i] = f[i]
    BY <1>1, FrontStays
  <2> HIDE DEF p
  <2>3. 3 \in 1..Len(f)
    BY <1>1
  <2> QED
    BY <2>1, <2>2, <2>3
<1> HIDE DEF p
<1> SUFFICES ASSUME Unfinished(p) PROVE FALSE
  BY DEF p
<1>3. Len(p) >= 3 => Len(p) < 3 + p[3]
  BY DEF Unfinished
<1> QED
  BY <1>1, <1>2, <1>3

(* s is the frame f and the bytes q behind it. *)
FrameThen(B, sync, max, f, q, s) ==
  IsFrame(B, sync, max, f) /\ q \in Seq(B) /\ s = f \o q

(* No frame is the start of another: a stream starts with at most one. *)
LEMMA SameFrame ==
  ASSUME NEW B, NEW sync, NEW max, NEW f, NEW q, NEW g, NEW r, NEW s,
         max \in Nat,
         FrameThen(B, sync, max, f, q, s), FrameThen(B, sync, max, g, r, s)
  PROVE  f = g /\ q = r
<1>0. /\ IsFrame(B, sync, max, f) /\ IsFrame(B, sync, max, g)
      /\ q \in Seq(B) /\ r \in Seq(B) /\ f \o q = g \o r
  BY DEF FrameThen
<1>1. /\ f \in Seq(B) /\ Len(f) >= 3 /\ Len(f) = 3 + f[3] /\ f[3] \in Nat
      /\ g \in Seq(B) /\ Len(g) >= 3 /\ Len(g) = 3 + g[3] /\ g[3] \in Nat
  <2>1. IsFrame(B, sync, max, f) /\ IsFrame(B, sync, max, g) /\ max \in Nat
    BY <1>0
  <2> QED
    BY <2>1 DEF IsFrame
<1>2. \A i \in 1..Len(f) : (f \o q)[i] = f[i]
  BY <1>0, <1>1, FrontStays
<1>3. \A i \in 1..Len(g) : (g \o r)[i] = g[i]
  BY <1>0, <1>1, FrontStays
<1>4. Len(f) = Len(g)
  <2>1. 3 \in 1..Len(f) /\ 3 \in 1..Len(g)
    BY <1>1
  <2>2. f[3] = g[3]
    BY <1>0, <1>2, <1>3, <2>1
  <2> QED
    BY <1>1, <2>2
<1>5. f = g
  <2>1. \A i \in 1..Len(f) : f[i] = g[i]
    BY <1>0, <1>2, <1>3, <1>4
  <2> QED
    BY <1>1, <1>4, <2>1, SeqEqual
<1> QED
  BY <1>0, <1>1, <1>5, ConcatSimplifications

-----------------------------------------------------------------------------
(* A stream that consists of whole frames, each from a set of items         *)
(* [bytes, count], has a count of its own, the sum of theirs.  The pairs   *)
(* of a stream and its count are the least set closed under adding a frame *)
(* at the end.                                                             *)
Streams(B) == Seq(B) \X Nat

Closed(B, Items, R) ==
  /\ << <<>>, 0 >> \in R
  /\ \A p \in Seq(B), n \in Nat, f \in Items :
       <<p, n>> \in R => <<p \o f.bytes, n + f.count>> \in R

Counts(B, Items, p, n) ==
  \A R \in SUBSET Streams(B) : Closed(B, Items, R) => <<p, n>> \in R

AreItems(B, Items) ==
  \A f \in Items : f.bytes \in Seq(B) /\ f.count \in Nat

LEMMA EmptyCounts ==
  ASSUME NEW B, NEW Items
  PROVE  Counts(B, Items, <<>>, 0)
BY DEF Counts, Closed

LEMMA FrameAdds ==
  ASSUME NEW B, NEW Items, NEW p \in Seq(B), NEW n \in Nat, NEW f \in Items,
         Counts(B, Items, p, n)
  PROVE  Counts(B, Items, p \o f.bytes, n + f.count)
BY DEF Counts, Closed

(* Such a stream is empty, or starts with a frame and goes on as such.      *)
HeadFirst(B, Items, p, n) ==
  \/ p = <<>> /\ n = 0
  \/ \E f \in Items, q \in Seq(B), m \in Nat :
       Counts(B, Items, q, m) /\ p = f.bytes \o q /\ n = f.count + m

LEMMA FrameFirst ==
  ASSUME NEW B, NEW Items, AreItems(B, Items), NEW p \in Seq(B), NEW n \in Nat,
         Counts(B, Items, p, n)
  PROVE  HeadFirst(B, Items, p, n)
<1> DEFINE R == {s \in Streams(B) : HeadFirst(B, Items, s[1], s[2])}
<1>1. R \in SUBSET Streams(B)
  OBVIOUS
<1>2. << <<>>, 0 >> \in R
  <2>1. <<>> \in Seq(B) /\ 0 \in Nat /\ HeadFirst(B, Items, <<>>, 0)
    BY DEF HeadFirst
  <2> QED
    BY <2>1 DEF Streams
<1>3. ASSUME NEW s \in Seq(B), NEW k \in Nat, NEW g \in Items, <<s, k>> \in R
      PROVE  <<s \o g.bytes, k + g.count>> \in R
  <2>1. /\ g.bytes \in Seq(B) /\ g.count \in Nat
        /\ s \o g.bytes \in Seq(B) /\ k + g.count \in Nat
    BY ConcatProperties DEF AreItems
  <2>2. HeadFirst(B, Items, s, k)
    BY <1>3
  <2>3. CASE s = <<>> /\ k = 0
    <3>1. s \o g.bytes = g.bytes \o <<>> /\ k + g.count = g.count + 0
      BY <2>1, <2>3, ConcatEmptySeq
    <3>2. HeadFirst(B, Items, s \o g.bytes, k + g.count)
      <4>1. <<>> \in Seq(B) /\ 0 \in Nat /\ Counts(B, Items, <<>>, 0)
        BY EmptyCounts
      <4> QED
        BY <3>1, <4>1 DEF HeadFirst
    <3> QED
      BY <2>1, <3>2 DEF Streams
  <2>4. ASSUME NEW f \in Items, NEW q \in Seq(B), NEW m \in Nat,
               Counts(B, Items, q, m), s = f.bytes \o q, k = f.count + m
        PROVE  <<s \o g.bytes, k + g.count>> \in R
    <3>1. f.bytes \in Seq(B) /\ f.count \in Nat
      BY DEF AreItems
    <3>2. s \o g.bytes = f.bytes \o (q \o g.bytes)
      <4>1. (f.bytes \o q) \o g.bytes = f.bytes \o (q \o g.bytes)
        <5> DEFINE u == f.bytes  w == g.bytes
        <5>1. u \in Seq(B) /\ w \in Seq(B) /\ q \in Seq(B)
          BY <2>1, <3>1
        <5> HIDE DEF u, w
        <5>2. (u \o q) \o w = u \o (q \o w)
          <6>1. Associates(u, q, w)
            BY <5>1, Regroup
          <6> QED
            BY <6>1 DEF Associates
        <5> QED
          BY <5>2 DEF u, w
      <4> QED
        BY <2>4, <4>1, Zenon
    <3>3. k + g.count = f.count + (m + g.count)
      BY <2>1, <2>4, <3>1
    <3>4. /\ q \o g.bytes \in Seq(B) /\ m + g.count \in Nat
          /\ Counts(B, Items, q \o g.bytes, m + g.count)
      BY <2>1, <2>4, FrameAdds, ConcatProperties
    <3>5. HeadFirst(B, Items, s \o g.bytes, k + g.count)
      BY <3>2, <3>3, <3>4 DEF HeadFirst
    <3> QED
      BY <2>1, <3>5 DEF Streams
  <2> QED
    BY <2>2, <2>3, <2>4 DEF HeadFirst
<1>4. Closed(B, Items, R)
  BY <1>2, <1>3 DEF Closed
<1>5. <<p, n>> \in R
  BY <1>1, <1>4 DEF Counts
<1> QED
  BY <1>5
=============================================================================
