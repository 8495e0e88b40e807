------------------------- MODULE EspBignum_proofs -------------------------
(***************************************************************************)
(* The bignum port, for any number of tasks, any calls, any operands and   *)
(* any sizes of limbs and blocks:                                          *)
(*                                                                         *)
(*   - the arithmetic of MpiArith: Montgomery multiplication, the inverse  *)
(*     of the modulus, exponentiation by squaring, the split of a product; *)
(*   - the lock of the accelerator and the wait for its operations;        *)
(*   - the results of the calls.                                           *)
(*                                                                         *)
(* What a recursive function computes is proved by induction, from the     *)
(* well-foundedness of < on the natural numbers: Induction takes the       *)
(* property as a set, and Recursion says that a function which is defined  *)
(* from its smaller arguments exists.                                      *)
(***************************************************************************)
EXTENDS EspBignum, TLAPS, WellFoundedInduction

-----------------------------------------------------------------------------
(* Induction over the naturals, and functions defined by recursion.        *)

Less == {p \in Nat \X Nat : p[1] < p[2]}

\* No number has infinitely many predecessors.
LEMMA LessIsWellFounded == IsWellFoundedOn(Less, Nat)
<1>1. Less = OpToRel(<, Nat)
  BY DEF Less, OpToRel
<1> QED
  BY <1>1, NatLessThanWellFounded

\* What holds of 0 and, with n, of n + 1 holds of every natural number.  The
\* property is a set here, not an operator as in NaturalsInduction.
LEMMA Induction ==
  ASSUME NEW S, 0 \in S, \A n \in Nat : n \in S => n + 1 \in S
  PROVE  \A n \in Nat : n \in S
<1> DEFINE T == Nat \ S
<1> SUFFICES ASSUME T # {} PROVE FALSE
  OBVIOUS
<1>1. PICK x \in T : \A y \in T : <<y, x>> \notin Less
  BY LessIsWellFounded, WFMin
<1>2. x # 0 /\ x \in Nat
  OBVIOUS
<1>3. x - 1 \in Nat /\ <<x - 1, x>> \in Less
  BY <1>2 DEF Less
<1>4. x - 1 \in S
  BY <1>1, <1>3
<1> QED
  BY <1>3, <1>4, <1>2

\* The same with every smaller number as hypothesis.
LEMMA StrongInduction ==
  ASSUME NEW S, \A n \in Nat : (\A m \in 0..(n - 1) : m \in S) => n \in S
  PROVE  \A n \in Nat : n \in S
<1> DEFINE T == {n \in Nat : \A m \in 0..n : m \in S}
<1>1. 0 \in S
  <2>1. \A m \in 0..(0 - 1) : m \in S
    OBVIOUS
  <2> QED
    BY <2>1
<1>2. 0 \in T
  BY <1>1
<1>3. ASSUME NEW n \in Nat, n \in T PROVE n + 1 \in T
  <2>1. \A m \in 0..((n + 1) - 1) : m \in S
    BY <1>3
  <2>2. n + 1 \in S
    BY <2>1
  <2> QED
    BY <2>1, <2>2
<1>4. \A n \in Nat : n \in T
  <2> HIDE DEF T
  <2> QED
    BY <1>2, <1>3, Induction
<1> QED
  BY <1>4

\* f starts with a and takes each value from an earlier one, where p tells.
Solves(f, D, a, p, F) ==
  \A n \in D : f[n] = IF n = 0 THEN a ELSE F[n][f[p[n]]]

\* A recursion that goes down has a solution.
LEMMA Recursion ==
  ASSUME NEW S, NEW a \in S, NEW p \in [Nat -> Nat],
         \A n \in Nat \ {0} : p[n] < n, NEW F \in [Nat -> [S -> S]]
  PROVE  \E f \in [Nat -> S] : Solves(f, Nat, a, p, F)
<1> DEFINE Parts(n) == {g \in [0..n -> S] : Solves(g, 0..n, a, p, F)}
           D == {n \in Nat : Parts(n) # {}}
<1>1. \A n \in Nat : n \in D
  <2>1. 0 \in D
    <3> DEFINE g == [i \in 0..0 |-> a]
    <3>1. g \in [0..0 -> S] /\ Solves(g, 0..0, a, p, F)
      BY DEF Solves
    <3> QED
      BY <3>1
  <2>2. ASSUME NEW n \in Nat, n \in D PROVE n + 1 \in D
    <3>1. PICK g \in [0..n -> S] : Solves(g, 0..n, a, p, F)
      BY <2>2
    <3> DEFINE h == [i \in 0..(n + 1) |->
                       IF i <= n THEN g[i] ELSE F[n + 1][g[p[n + 1]]]]
    <3>2. p[n + 1] \in 0..n
      OBVIOUS
    <3>3. h \in [0..(n + 1) -> S]
      BY <3>2
    <3>4. ASSUME NEW i \in 0..(n + 1)
          PROVE  h[i] = IF i = 0 THEN a ELSE F[i][h[p[i]]]
      <4>1. CASE i = n + 1
        BY <4>1, <3>2
      <4>2. CASE i # n + 1
        <5>1. i \in 0..n /\ (i # 0 => p[i] \in 0..n)
          BY <4>2
        <5> QED
          BY <3>1, <5>1 DEF Solves
      <4> QED
        BY <4>1, <4>2
    <3>5. h \in Parts(n + 1)
      BY <3>3, <3>4 DEF Solves
    <3>6. n + 1 \in Nat /\ Parts(n + 1) # {}
      <4> HIDE DEF Parts, h
      <4> QED
        BY <3>5
    <3> HIDE DEF Parts
    <3> QED
      BY <3>6
  <2> HIDE DEF D
  <2> QED
    BY <2>1, <2>2, Induction
<1>2. ASSUME NEW n \in Nat, NEW m \in Nat, NEW g \in Parts(n), NEW h \in Parts(m)
      PROVE  \A i \in Nat : i <= n /\ i <= m => g[i] = h[i]
  <2> DEFINE E == {i \in Nat : i <= n /\ i <= m => g[i] = h[i]}
  <2>1. ASSUME NEW i \in Nat, \A j \in 0..(i - 1) : j \in E PROVE i \in E
    <3> SUFFICES ASSUME i <= n, i <= m PROVE g[i] = h[i]
      OBVIOUS
    <3>1. CASE i = 0
      BY <3>1 DEF Solves
    <3>2. CASE i # 0
      <4>1. p[i] \in 0..(i - 1)
        BY <3>2
      <4>2. g[p[i]] = h[p[i]]
        BY <4>1, <2>1
      <4>3. g[i] = F[i][g[p[i]]] /\ h[i] = F[i][h[p[i]]]
        BY <3>2 DEF Solves
      <4> QED
        BY <4>2, <4>3
    <3> QED
      BY <3>1, <3>2
  <2>2. \A i \in Nat : i \in E
    <3> HIDE DEF E
    <3> QED
      BY <2>1, StrongInduction
  <2> QED
    BY <2>2
<1> DEFINE part(n) == CHOOSE g \in Parts(n) : TRUE
           f == [n \in Nat |-> part(n)[n]]
<1>3. \A n \in Nat : part(n) \in Parts(n)
  BY <1>1
<1>4. f \in [Nat -> S]
  BY <1>3
<1>5. ASSUME NEW n \in Nat PROVE f[n] = IF n = 0 THEN a ELSE F[n][f[p[n]]]
  <2>1. f[n] = part(n)[n] /\ part(n) \in Parts(n)
    BY <1>3
  <2>2. part(n)[n] = IF n = 0 THEN a ELSE F[n][part(n)[p[n]]]
    <3>1. Solves(part(n), 0..n, a, p, F) /\ n \in 0..n
      <4> HIDE DEF part
      <4> QED
        BY <2>1
    <3> HIDE DEF part
    <3> QED
      BY <3>1 DEF Solves
  <2>3. CASE n # 0
    <3>1. p[n] \in Nat /\ p[n] < n
      BY <2>3
    <3>2. part(p[n]) \in Parts(p[n])
      BY <3>1, <1>3
    <3> HIDE DEF part, Parts
    <3>3. part(p[n])[p[n]] = part(n)[p[n]]
      BY <3>1, <3>2, <2>1, <1>2
    <3>4. f[p[n]] = part(p[n])[p[n]]
      BY <3>1
    <3> QED
      BY <2>3, <2>1, <2>2, <3>3, <3>4
  <2> QED
    BY <2>1, <2>2, <2>3
<1> QED
  BY <1>4, <1>5 DEF Solves

-----------------------------------------------------------------------------
(* Powers of two.                                                          *)

\* TwoTo is the function that its definition describes.
LEMMA TwoToIs ==
  TwoTo = [n \in Nat |-> IF n = 0 THEN 1 ELSE 2 * TwoTo[n - 1]]
<1> DEFINE p == [n \in Nat |-> IF n = 0 THEN 0 ELSE n - 1]
           F == [i \in Nat |-> [v \in Nat |-> 2 * v]]
<1>1. PICK f \in [Nat -> Nat] : Solves(f, Nat, 1, p, F)
  <2>1. /\ p \in [Nat -> Nat]
        /\ \A n \in Nat \ {0} : p[n] < n
        /\ F \in [Nat -> [Nat -> Nat]]
    OBVIOUS
  <2> HIDE DEF p, F
  <2> QED
    BY <2>1, Recursion
<1>2. ASSUME NEW n \in Nat PROVE f[n] = IF n = 0 THEN 1 ELSE 2 * f[n - 1]
  <2>1. f[n] = IF n = 0 THEN 1 ELSE F[n][f[p[n]]]
    <3> HIDE DEF F, p
    <3> QED
      BY <1>1 DEF Solves
  <2>2. CASE n # 0
    <3>1. n - 1 \in Nat /\ p[n] = n - 1 /\ f[n - 1] \in Nat
      BY <2>2
    <3>2. F[n][f[n - 1]] = 2 * f[n - 1]
      BY <3>1
    <3> QED
      BY <2>1, <2>2, <3>1, <3>2
  <2> QED
    BY <2>1, <2>2
<1>3. f = [n \in Nat |-> IF n = 0 THEN 1 ELSE 2 * f[n - 1]]
  BY <1>2
<1> QED
  BY <1>3 DEF TwoTo

\* A power of two is positive.
LEMMA TwoToType == \A n \in Nat : TwoTo[n] \in Nat \ {0}
<1> DEFINE S == {n \in Nat : TwoTo[n] \in Nat \ {0}}
<1>1. 0 \in S
  BY TwoToIs
<1>2. ASSUME NEW n \in Nat, n \in S PROVE n + 1 \in S
  <2>1. TwoTo[n + 1] = 2 * TwoTo[n]
    BY TwoToIs
  <2> QED
    BY <2>1, <1>2
<1>3. \A n \in Nat : n \in S
  <2> HIDE DEF S
  <2> QED
    BY <1>1, <1>2, Induction
<1> QED
  BY <1>3

\* 2^(a+b) = 2^a * 2^b.
LEMMA TwoToSum ==
  \A a, b \in Nat : TwoTo[a + b] = TwoTo[a] * TwoTo[b]
<1> SUFFICES ASSUME NEW a \in Nat
             PROVE  \A b \in Nat : TwoTo[a + b] = TwoTo[a] * TwoTo[b]
  OBVIOUS
<1> DEFINE S == {n \in Nat : TwoTo[a + n] = TwoTo[a] * TwoTo[n]}
<1>1. 0 \in S
  BY TwoToIs, TwoToType
<1>2. ASSUME NEW n \in Nat, n \in S PROVE n + 1 \in S
  <2>1. TwoTo[n + 1] = 2 * TwoTo[n]
    BY TwoToIs
  <2>2. TwoTo[a + (n + 1)] = 2 * TwoTo[a + n]
    <3>1. a + (n + 1) \in Nat \ {0} /\ (a + (n + 1)) - 1 = a + n
      OBVIOUS
    <3> QED
      BY <3>1, TwoToIs
  <2>3. \A u, v \in Nat : 2 * (u * v) = u * (2 * v)
    OBVIOUS
  <2> QED
    BY <2>1, <2>2, <2>3, <1>2, TwoToType
<1>3. \A n \in Nat : n \in S
  <2> HIDE DEF S
  <2> QED
    BY <1>1, <1>2, Induction
<1> QED
  BY <1>3

\* A longer number has room for a shorter one.
LEMMA TwoToMonotone ==
  ASSUME NEW a \in Nat, NEW b \in Nat, a <= b
  PROVE  TwoTo[a] <= TwoTo[b]
<1>1. b - a \in Nat /\ a + (b - a) = b
  OBVIOUS
<1>2. TwoTo[b] = TwoTo[a] * TwoTo[b - a]
  BY <1>1, TwoToSum
<1>3. \A u, v \in Nat \ {0} : u <= u * v
  OBVIOUS
<1> QED
  BY <1>1, <1>2, <1>3, TwoToType

\* The base of a number of n limbs is positive.
LEMMA BaseToType == \A n \in Nat : BaseTo(n) \in Nat \ {0}
<1> SUFFICES ASSUME NEW n \in Nat PROVE BaseTo(n) \in Nat \ {0}
  OBVIOUS
<1>1. LimbBits * n \in Nat
  BY SizesArePositive
<1> QED
  BY <1>1, TwoToType DEF BaseTo

\* Limbs are counted together: Base^(a+b) = Base^a * Base^b.
LEMMA BaseToSum ==
  \A a, b \in Nat : BaseTo(a + b) = BaseTo(a) * BaseTo(b)
<1> SUFFICES ASSUME NEW a \in Nat, NEW b \in Nat
             PROVE  BaseTo(a + b) = BaseTo(a) * BaseTo(b)
  OBVIOUS
<1>1. /\ LimbBits * a \in Nat /\ LimbBits * b \in Nat
      /\ LimbBits * (a + b) = LimbBits * a + LimbBits * b
  BY SizesArePositive
<1> QED
  BY <1>1, TwoToSum DEF BaseTo

\* One limb more is one factor Base more.
LEMMA BaseToNext ==
  \A n \in Nat : BaseTo(n + 1) = BaseTo(n) * Base
  BY BaseToSum DEF Base

\* The base is even.
LEMMA BaseType ==
  /\ Base \in Nat \ {0, 1}
  /\ \E h \in Nat : Base = 2 * h
  /\ BaseTo(0) = 1
<1>1. Base = TwoTo[LimbBits] /\ LimbBits \in Nat \ {0}
  <2>1. LimbBits * 1 = LimbBits
    BY SizesArePositive
  <2> QED
    BY <2>1, SizesArePositive DEF Base, BaseTo
<1>2. Base = 2 * TwoTo[LimbBits - 1]
  BY <1>1, TwoToIs
<1>3. TwoTo[LimbBits - 1] \in Nat \ {0}
  BY <1>1, TwoToType
<1>4. BaseTo(0) = 1
  <2>1. LimbBits * 0 = 0
    BY SizesArePositive
  <2> QED
    BY <2>1, TwoToIs DEF BaseTo
<1> QED
  BY <1>2, <1>3, <1>4

-----------------------------------------------------------------------------
(* Division.                                                               *)

\* Multiplying by a natural number keeps the order.
LEMMA TimesMonotone ==
  ASSUME NEW a \in Int, NEW b \in Int, a <= b, NEW c \in Nat
  PROVE  c * a <= c * b
<1>1. \A d \in Nat : 0 <= c * d
  OBVIOUS
<1>2. b - a \in Nat /\ c * (b - a) = c * b - c * a
  OBVIOUS
<1> QED
  BY <1>1, <1>2

\* The quotient and the remainder of the TLA+ division.
LEMMA Division ==
  ASSUME NEW a \in Int, NEW b \in Nat \ {0}
  PROVE  /\ a \div b \in Int /\ a % b \in 0..(b - 1)
         /\ a = b * (a \div b) + (a % b)
<1>1. a \div b \in Int /\ a % b \in 0..(b - 1)
  OBVIOUS
<1>2. a % b = a - b * (a \div b)
  OBVIOUS
<1>3. b * (a \div b) \in Int
  BY <1>1
<1> QED
  BY <1>1, <1>2, <1>3

\* The quotient of a natural number is one.
LEMMA DivisionNat ==
  ASSUME NEW a \in Nat, NEW b \in Nat \ {0}
  PROVE  a \div b \in Nat
<1> DEFINE q == a \div b
<1>1. q \in Int /\ a < b * q + b
  BY Division
<1> SUFFICES ASSUME q < 0 PROVE FALSE
  BY <1>1
<1> HIDE DEF q
<1>2. b * q + b <= 0
  BY <1>1
<1> QED
  BY <1>1, <1>2

\* Quotient and remainder are the only ones.
LEMMA DivisionIs ==
  ASSUME NEW a \in Int, NEW b \in Nat \ {0}, NEW q \in Int,
         NEW r \in 0..(b - 1), a = b * q + r
  PROVE  a \div b = q /\ a % b = r
<1> DEFINE p == a \div b
           s == a % b
<1>1. p \in Int /\ s \in 0..(b - 1) /\ b * p + s = b * q + r
  BY Division
<1> SUFFICES p = q /\ s = r
  OBVIOUS
<1> HIDE DEF p, s
<1>2. ASSUME p < q PROVE FALSE
  <2>1. b * (p + 1) <= b * q
    BY <1>1, <1>2
  <2> QED
    BY <1>1, <2>1
<1>3. ASSUME q < p PROVE FALSE
  <2>1. b * (q + 1) <= b * p
    BY <1>1, <1>3
  <2> QED
    BY <1>1, <2>1
<1>4. p = q
  BY <1>1, <1>2, <1>3
<1> QED
  BY <1>1, <1>4

\* The digits of a number: one more of them is the next remainder.
LEMMA Digits ==
  ASSUME NEW x \in Nat, NEW P \in Nat \ {0}, NEW B \in Nat \ {0}
  PROVE  x % (P * B) = (x % P) + P * ((x \div P) % B)
<1> DEFINE q == x \div P
           r == x % P
           k == q \div B
           w == q % B
<1>1. q \in Int /\ r \in 0..(P - 1) /\ x = P * q + r
  BY Division
<1>2. k \in Int /\ w \in 0..(B - 1) /\ q = B * k + w
  <2> HIDE DEF q
  <2> QED
    BY <1>1, Division
<1> HIDE DEF q, r, k, w
<1>3. P * B \in Nat \ {0}
  OBVIOUS
<1>4. x = (P * B) * k + (r + P * w)
  <2>1. P * (B * k + w) = (P * B) * k + P * w
    BY <1>1, <1>2
  <2> QED
    BY <1>1, <1>2, <2>1
<1>5. r + P * w \in 0..(P * B - 1)
  <2>1. P * w <= P * (B - 1)
    BY <1>1, <1>2
  <2>2. P * (B - 1) = P * B - P
    OBVIOUS
  <2>3. P * w \in Nat
    BY <1>2
  <2> QED
    BY <1>1, <2>1, <2>2, <2>3, <1>3
<1>6. x % (P * B) = r + P * w
  <2> DEFINE M == P * B
             R == r + P * w
  <2> HIDE DEF M, R
  <2>1. M \in Nat \ {0} /\ R \in 0..(M - 1) /\ x = M * k + R
    BY <1>3, <1>4, <1>5 DEF M, R
  <2>2. x % M = R
    BY <2>1, <1>2, DivisionIs
  <2> QED
    BY <2>2 DEF M, R
<1> QED
  BY <1>6 DEF r, w, q

-----------------------------------------------------------------------------
(* Sizes.                                                                  *)

\* A number is its sign times its magnitude.
LEMMA MagnitudeType ==
  \A v \in Int : Magnitude(v) \in Nat /\ Sign(v) * Magnitude(v) = v
  BY DEF Magnitude, Sign

\* A recursion that halves counts the binary digits: v < 2^len[v].
LEMMA LengthOfNat ==
  ASSUME NEW len, len = [n \in Nat |-> IF n = 0 THEN 0 ELSE 1 + len[n \div 2]],
         NEW v \in Nat
  PROVE  len[v] \in Nat /\ v < TwoTo[len[v]]
<1> DEFINE S == {n \in Nat : len[n] \in Nat /\ n < TwoTo[len[n]]}
<1>1. ASSUME NEW n \in Nat, \A m \in 0..(n - 1) : m \in S PROVE n \in S
  <2>1. CASE n = 0
    BY <2>1, TwoToIs
  <2>2. CASE n # 0
    <3>1. n \div 2 \in 0..(n - 1) /\ n <= 2 * (n \div 2) + 1
      BY <2>2
    <3> DEFINE h == n \div 2
    <3>2. len[n] = 1 + len[h] /\ len[h] \in Nat /\ h < TwoTo[len[h]]
      BY <2>2, <3>1, <1>1
    <3>3. TwoTo[len[h] + 1] = 2 * TwoTo[len[h]]
      BY <3>2, TwoToIs
    <3>4. TwoTo[len[h]] \in Nat
      BY <3>2, TwoToType
    <3>5. len[n] = len[h] + 1 /\ len[n] \in Nat
      BY <3>2
    <3>6. n < TwoTo[len[n]]
      <4> HIDE DEF h
      <4> QED
        BY <3>1, <3>2, <3>3, <3>4, <3>5 DEF h
    <3> QED
      BY <3>5, <3>6
  <2> QED
    BY <2>1, <2>2
<1>2. \A n \in Nat : n \in S
  <2> HIDE DEF S
  <2> QED
    BY <1>1, StrongInduction
<1> QED
  BY <1>2

\* A number has no more bits than bitlen says.
LEMMA BitlenIs ==
  ASSUME NEW v \in Int
  PROVE  bitlen(v) \in Nat /\ Magnitude(v) < TwoTo[bitlen(v)]
<1> DEFINE len[n \in Nat] == IF n = 0 THEN 0 ELSE 1 + len[n \div 2]
           p == [n \in Nat |-> n \div 2]
           F == [i \in Nat |-> [u \in Nat |-> 1 + u]]
<1>1. PICK f \in [Nat -> Nat] : Solves(f, Nat, 0, p, F)
  <2>1. /\ p \in [Nat -> Nat]
        /\ \A n \in Nat \ {0} : p[n] < n
        /\ F \in [Nat -> [Nat -> Nat]]
    OBVIOUS
  <2> HIDE DEF p, F
  <2> QED
    BY <2>1, Recursion
<1>2. ASSUME NEW n \in Nat PROVE f[n] = IF n = 0 THEN 0 ELSE 1 + f[n \div 2]
  <2>1. f[n] = IF n = 0 THEN 0 ELSE F[n][f[p[n]]]
    <3> HIDE DEF F, p
    <3> QED
      BY <1>1 DEF Solves
  <2>2. n \div 2 \in Nat /\ p[n] = n \div 2
    OBVIOUS
  <2>3. f[n \div 2] \in Nat
    BY <2>2
  <2>4. F[n][f[n \div 2]] = 1 + f[n \div 2]
    BY <2>3
  <2> QED
    BY <2>1, <2>2, <2>4
<1>3. f = [n \in Nat |-> IF n = 0 THEN 0 ELSE 1 + f[n \div 2]]
  BY <1>2
<1>4. len = [n \in Nat |-> IF n = 0 THEN 0 ELSE 1 + len[n \div 2]]
  BY <1>3
<1>5. bitlen(v) = len[Magnitude(v)]
  BY DEF bitlen
<1> HIDE DEF len
<1>6. Magnitude(v) \in Nat
  BY MagnitudeType
<1> QED
  BY <1>4, <1>5, <1>6, LengthOfNat

\* Rounding up gives a multiple that is not smaller.
LEMMA RoundedUpIs ==
  ASSUME NEW n \in Nat, NEW unit \in Nat \ {0}
  PROVE  \E q \in Nat : /\ RoundedUp(n, unit) = q * unit
                        /\ n <= q * unit
                        /\ n > 0 => q > 0
<1> DEFINE q == (n + unit - 1) \div unit
           r == (n + unit - 1) % unit
<1>1. n + unit - 1 \in Nat
  OBVIOUS
<1>2. q \in Nat /\ r \in 0..(unit - 1) /\ n + unit - 1 = unit * q + r
  <2> DEFINE a == n + unit - 1
  <2> HIDE DEF a
  <2>1. a \div unit \in Nat
    BY <1>1, DivisionNat DEF a
  <2>2. a % unit \in 0..(unit - 1) /\ a = unit * (a \div unit) + (a % unit)
    BY <1>1, Division DEF a
  <2> QED
    BY <2>1, <2>2 DEF a
<1>3. RoundedUp(n, unit) = q * unit
  BY DEF RoundedUp
<1> HIDE DEF q, r
<1>4. q * unit = unit * q
  BY <1>2
<1>5. n <= q * unit
  BY <1>2, <1>4
<1>6. n > 0 => q > 0
  BY <1>5, <1>2
<1> QED
  BY <1>2, <1>3, <1>5, <1>6

\* A size of the accelerator: whole blocks.
Blocks(words) == \E q \in Nat : words = q * BlockLimbs

\* bits_to_hardware_words rounds up to whole blocks.
LEMMA HardwareWords ==
  ASSUME NEW bits \in Nat
  PROVE  /\ bits_to_hardware_words(bits) \in Nat
         /\ Blocks(bits_to_hardware_words(bits))
         /\ bits <= LimbBits * bits_to_hardware_words(bits)
         /\ bits > 0 => bits_to_hardware_words(bits) > 0
<1> DEFINE unit == BlockLimbs * LimbBits
<1>1. unit \in Nat \ {0}
  BY SizesArePositive
<1> HIDE DEF unit
<1>2. PICK q \in Nat : /\ RoundedUp(bits, unit) = q * unit
                       /\ bits <= q * unit
                       /\ bits > 0 => q > 0
  BY <1>1, RoundedUpIs
<1>3. q * unit = LimbBits * (q * BlockLimbs) + 0
  BY SizesArePositive DEF unit
<1>4. /\ (q * unit) \div LimbBits = q * BlockLimbs
      /\ q * BlockLimbs \in Nat
  <2>1. q * BlockLimbs \in Nat /\ q * unit \in Nat /\ 0 \in 0..(LimbBits - 1)
    BY <1>1, SizesArePositive
  <2> QED
    BY <2>1, <1>3, DivisionIs, SizesArePositive
<1>5. bits_to_hardware_words(bits) = q * BlockLimbs
  BY <1>2, <1>4 DEF bits_to_hardware_words, unit
<1>6. q > 0 => q * BlockLimbs > 0
  BY SizesArePositive
<1> DEFINE w == bits_to_hardware_words(bits)
<1>7. Blocks(w)
  BY <1>5 DEF Blocks
<1>8. q * unit = LimbBits * w
  <2>1. LimbBits * w \in Nat /\ LimbBits * w = LimbBits * (q * BlockLimbs)
    BY <1>4, <1>5, SizesArePositive
  <2>2. q * unit = LimbBits * (q * BlockLimbs)
    BY SizesArePositive DEF unit
  <2> QED
    BY <2>1, <2>2
<1> QED
  BY <1>2, <1>4, <1>5, <1>6, <1>7, <1>8

\* A division keeps the order of the numbers divided ...
LEMMA DivisionMonotone ==
  ASSUME NEW a \in Int, NEW b \in Int, a <= b, NEW u \in Nat \ {0}
  PROVE  a \div u <= b \div u
<1>1. PICK p \in Int, q \in Int, r \in 0..(u - 1), s \in 0..(u - 1) :
        /\ p = a \div u /\ a = u * p + r
        /\ q = b \div u /\ b = u * q + s
  <2>1. /\ a \div u \in Int /\ (a % u) \in 0..(u - 1)
        /\ a = u * (a \div u) + (a % u)
        /\ b \div u \in Int /\ (b % u) \in 0..(u - 1)
        /\ b = u * (b \div u) + (b % u)
    BY Division
  <2> QED
    BY <2>1
<1>2. ASSUME q + 1 <= p PROVE FALSE
  <2>1. u * (q + 1) <= u * p
    BY <1>2, TimesMonotone
  <2>2. u * (q + 1) = u * q + u
    OBVIOUS
  <2>3. PICK c \in Int, d \in Int : c = u * q /\ d = u * p
    OBVIOUS
  <2>4. c + u <= d /\ a = d + r /\ b = c + s
    BY <1>1, <2>1, <2>2, <2>3
  <2> QED
    BY <2>4
<1>3. p <= q
  BY <1>2
<1> QED
  BY <1>1, <1>3

\* ... and so a shorter number needs no more words than a longer one.
LEMMA HardwareWordsMonotone ==
  ASSUME NEW a \in Nat, NEW b \in Nat, a <= b
  PROVE  bits_to_hardware_words(a) <= bits_to_hardware_words(b)
<1>1. PICK u \in Nat \ {0}, l \in Nat \ {0} :
        u = BlockLimbs * LimbBits /\ l = LimbBits
  BY SizesArePositive
<1>2. PICK p \in Int, q \in Int : /\ p = (a + u - 1) \div u
                                  /\ q = (b + u - 1) \div u
  <2>1. (a + u - 1) \div u \in Int /\ (b + u - 1) \div u \in Int
    OBVIOUS
  <2> QED
    BY <2>1
<1>3. p <= q
  <2>1. a + u - 1 \in Int /\ b + u - 1 \in Int /\ a + u - 1 <= b + u - 1
    OBVIOUS
  <2> QED
    BY <1>2, <2>1, DivisionMonotone
<1>4. u * p <= u * q /\ u * p = p * u /\ u * q = q * u
  BY <1>3, TimesMonotone
<1>5. (p * u) \div l <= (q * u) \div l
  BY <1>4, DivisionMonotone
<1> QED
  BY <1>1, <1>2, <1>5 DEF bits_to_hardware_words, RoundedUp

\* hardware_words_needed is enough limbs for a number, in whole blocks.
LEMMA WordsNeeded ==
  ASSUME NEW v \in Int
  PROVE  /\ hardware_words_needed(v) \in Nat \ {0}
         /\ Blocks(hardware_words_needed(v))
         /\ Magnitude(v) < BaseTo(hardware_words_needed(v))
<1> DEFINE bits == bitlen(v)
           limbs == RoundedUp(bits, LimbBits) \div LimbBits
           most == Larger(1, limbs)
<1>1. bits \in Nat /\ Magnitude(v) < TwoTo[bits]
  BY BitlenIs
<1>2. limbs \in Nat /\ bits <= LimbBits * limbs
  <2> HIDE DEF bits
  <2>1. PICK q \in Nat : /\ RoundedUp(bits, LimbBits) = q * LimbBits
                         /\ bits <= q * LimbBits
    BY <1>1, RoundedUpIs, SizesArePositive
  <2>2. q * LimbBits = LimbBits * q + 0 /\ q * LimbBits \in Nat
        /\ 0 \in 0..(LimbBits - 1)
    BY SizesArePositive
  <2>3. (q * LimbBits) \div LimbBits = q
    BY <2>2, DivisionIs, SizesArePositive
  <2>4. limbs = q
    BY <2>1, <2>3
  <2>5. bits <= LimbBits * q
    BY <2>1, <2>2, SizesArePositive
  <2> HIDE DEF limbs
  <2> QED
    BY <2>4, <2>5
<1>3. most \in Nat \ {0} /\ limbs <= most
  <2> HIDE DEF limbs
  <2> QED
    BY <1>2 DEF Larger
<1> HIDE DEF most
<1>4. PICK q \in Nat : /\ RoundedUp(most, BlockLimbs) = q * BlockLimbs
                       /\ most <= q * BlockLimbs
                       /\ q > 0
  <2>1. most \in Nat /\ most > 0
    <3> HIDE DEF limbs
    <3> QED
      BY <1>3
  <2> HIDE DEF limbs
  <2> QED
    BY <2>1, RoundedUpIs, SizesArePositive
<1>5. hardware_words_needed(v) = q * BlockLimbs
  BY <1>4 DEF hardware_words_needed, most
<1> DEFINE w == q * BlockLimbs
<1>6. w \in Nat \ {0} /\ limbs <= w
  <2> HIDE DEF limbs
  <2> QED
    BY <1>2, <1>3, <1>4, SizesArePositive
<1>7. bits <= LimbBits * w /\ LimbBits * w \in Nat
  <2> HIDE DEF w, limbs, bits
  <2>1. LimbBits * limbs <= LimbBits * w
    BY <1>2, <1>6, SizesArePositive, TimesMonotone
  <2>2. LimbBits * w \in Nat
    BY <1>6, SizesArePositive
  <2> QED
    BY <2>1, <2>2, <1>1, <1>2, SizesArePositive
<1>8. TwoTo[bits] <= BaseTo(w)
  <2> HIDE DEF w, bits
  <2> QED
    BY <1>1, <1>7, TwoToMonotone DEF BaseTo
<1>9. Magnitude(v) < BaseTo(w)
  <2> HIDE DEF w, bits
  <2> QED
    <3>1. /\ TwoTo[bits] \in Nat /\ BaseTo(w) \in Nat
          /\ Magnitude(v) \in Nat
      BY <1>1, <1>6, TwoToType, BaseToType, MagnitudeType
    <3> QED
      BY <3>1, <1>1, <1>8
<1> QED
  BY <1>5, <1>6, <1>9 DEF Blocks

-----------------------------------------------------------------------------
(* Residues.                                                               *)

\* a and b leave the same remainder.
Same(a, b, m) == \E k \in Int : a = b + k * m

\* Same(a, b, m), a and b equal modulo m, is an equivalence.
LEMMA SameIsEquivalence ==
  ASSUME NEW a \in Int, NEW b \in Int, NEW c \in Int, NEW m \in Int
  PROVE  /\ Same(a, a, m)
         /\ Same(a, b, m) => Same(b, a, m)
         /\ Same(a, b, m) /\ Same(b, c, m) => Same(a, c, m)
<1>1. Same(a, a, m)
  <2>1. a = a + 0 * m /\ 0 \in Int
    OBVIOUS
  <2> QED
    BY <2>1 DEF Same
<1>2. ASSUME Same(a, b, m) PROVE Same(b, a, m)
  <2>1. PICK k \in Int : a = b + k * m
    BY <1>2 DEF Same
  <2>2. b = a + (-k) * m /\ -k \in Int
    BY <2>1
  <2> QED
    BY <2>2 DEF Same
<1>3. ASSUME Same(a, b, m), Same(b, c, m) PROVE Same(a, c, m)
  <2>1. PICK k \in Int : a = b + k * m
    BY <1>3 DEF Same
  <2>2. PICK l \in Int : b = c + l * m
    BY <1>3 DEF Same
  <2>3. a = c + (k + l) * m /\ k + l \in Int
    BY <2>1, <2>2
  <2> QED
    BY <2>3 DEF Same
<1> QED
  BY <1>1, <1>2, <1>3

\* Congruent numbers stay congruent when multiplied on the left.
LEMMA SameTimes ==
  ASSUME NEW a \in Int, NEW b \in Int, NEW c \in Int, NEW m \in Int,
         Same(a, b, m)
  PROVE  Same(c * a, c * b, m)
<1>1. PICK k \in Int : a = b + k * m
  BY DEF Same
<1>2. c * (b + k * m) = c * b + (c * k) * m
  OBVIOUS
<1>3. c * a = c * b + (c * k) * m /\ c * k \in Int
  BY <1>1, <1>2
<1> QED
  BY <1>3 DEF Same

\* Below m a number is its own residue.
LEMMA SameIsEqual ==
  ASSUME NEW m \in Nat \ {0}, NEW a \in 0..(m - 1), NEW b \in 0..(m - 1),
         Same(a, b, m)
  PROVE  a = b
<1>1. PICK k \in Int : a = b + k * m
  BY DEF Same
<1>2. a \in Int /\ b \in Int /\ m * 0 + b = b /\ a = m * k + b
  BY <1>1
<1>3. a \div m = k
  BY <1>2, DivisionIs
<1>4. a = m * 0 + a
  OBVIOUS
<1>5. a \div m = 0
  BY <1>4, DivisionIs
<1> QED
  BY <1>2, <1>3, <1>5

\* A number is congruent to its remainder.
LEMMA SameAsRemainder ==
  ASSUME NEW a \in Int, NEW m \in Nat \ {0}
  PROVE  a % m \in 0..(m - 1) /\ Same(a % m, a, m) /\ Same(a, a % m, m)
<1> DEFINE q == a \div m
           r == a % m
<1>1. q \in Int /\ r \in 0..(m - 1) /\ a = m * q + r
  BY Division
<1> HIDE DEF q, r
<1>2. a = r + q * m
  BY <1>1
<1>3. Same(a, r, m)
  BY <1>1, <1>2 DEF Same
<1>4. Same(r, a, m)
  BY <1>1, <1>3, SameIsEquivalence
<1> QED
  BY <1>1, <1>3, <1>4 DEF r

\* m divides the difference of congruent numbers.
LEMMA SameDifference ==
  ASSUME NEW a \in Int, NEW b \in Int, NEW m \in Nat \ {0}, Same(a, b, m)
  PROVE  (a - b) % m = 0
<1>1. PICK k \in Int : a = b + k * m
  BY DEF Same
<1>2. a - b = m * k + 0 /\ a - b \in Int /\ 0 \in 0..(m - 1)
  BY <1>1
<1> QED
  BY <1>2, DivisionIs

Odd(m) == \E h \in Int : m = 2 * h + 1

\* Modulo an odd number a power of two can be cancelled.
LEMMA OddCancels ==
  ASSUME NEW m \in Int, Odd(m), NEW n \in Nat,
         NEW a \in Int, NEW b \in Int,
         Same(TwoTo[n] * a, TwoTo[n] * b, m)
  PROVE  Same(a, b, m)
<1> DEFINE S == {i \in Nat : Same(TwoTo[i] * a, TwoTo[i] * b, m)
                               => Same(a, b, m)}
<1>1. 0 \in S
  <2>1. TwoTo[0] * a = a /\ TwoTo[0] * b = b
    <3>1. TwoTo[0] = 1
      BY TwoToIs
    <3> QED
      BY <3>1
  <2> QED
    BY <2>1
<1>2. ASSUME NEW i \in Nat, i \in S PROVE i + 1 \in S
  <2> SUFFICES ASSUME Same(TwoTo[i + 1] * a, TwoTo[i + 1] * b, m)
               PROVE  Same(TwoTo[i] * a, TwoTo[i] * b, m)
    BY <1>2
  <2> DEFINE t == TwoTo[i]
             d == t * a - t * b
  <2>1. TwoTo[i + 1] = 2 * t /\ t \in Nat
    BY TwoToIs, TwoToType
  <2>2. PICK k \in Int : (2 * t) * a = (2 * t) * b + k * m
    BY <2>1 DEF Same
  <2> HIDE DEF t
  <2>3. t * a \in Int /\ t * b \in Int /\ d \in Int
    BY <2>1
  <2>4. 2 * d = k * m
    <3>1. (2 * t) * a = 2 * (t * a) /\ (2 * t) * b = 2 * (t * b)
      BY <2>1
    <3> QED
      BY <3>1, <2>2, <2>3
  <2>5. PICK h \in Int : m = 2 * h + 1
    BY DEF Odd
  <2> HIDE DEF d
  <2>6. k = 2 * (d - k * h)
    <3>1. k * m = 2 * (k * h) + k /\ k * h \in Int
      BY <2>5
    <3> QED
      BY <3>1, <2>4, <2>3
  <2>7. d - k * h \in Int
    BY <2>3
  <2> DEFINE j == d - k * h
  <2> HIDE DEF j
  <2>8. j \in Int /\ k = 2 * j
    BY <2>6, <2>7 DEF j
  <2>9. d = j * m
    <3>1. (2 * j) * m = 2 * (j * m) /\ j * m \in Int
      BY <2>8
    <3> QED
      BY <3>1, <2>4, <2>8, <2>3
  <2>10. t * a = t * b + j * m
    BY <2>9, <2>3, <2>8 DEF d
  <2> QED
    BY <2>10, <2>8 DEF Same, t
<1>3. \A i \in Nat : i \in S
  <2> HIDE DEF S
  <2> QED
    BY <1>1, <1>2, Induction
<1> QED
  BY <1>3

-----------------------------------------------------------------------------
(* Montgomery multiplication.                                              *)

\* One word: with the multiple of m that mprime tells, s can be divided.
Cleared(s, m, mprime, B) ==
  LET u == (s * mprime) % B
      d == (s + u * m) \div B
  IN  u \in 0..(B - 1) /\ d \in Nat /\ B * d = s + u * m

\* Adding the multiple of m that mprime chooses makes the lowest word 0.
LEMMA ClearsLowestWord ==
  ASSUME NEW B \in Nat \ {0}, NEW s \in Nat, NEW m \in Nat, NEW mprime \in Nat,
         NEW c \in Nat, m * mprime + 1 = c * B
  PROVE  Cleared(s, m, mprime, B)
<1> DEFINE a == s * mprime
           u == a % B
           v == a \div B
           e == s + u * m
           q == s * c - m * v
<1>1. a \in Nat
  OBVIOUS
<1>2. v \in Int /\ u \in 0..(B - 1) /\ a = B * v + u
  <2> HIDE DEF a
  <2> QED
    BY <1>1, Division
<1> HIDE DEF u, v
<1>3. e = B * q + 0
  <2>1. u = a - B * v
    BY <1>1, <1>2
  <2>2. u * m = a * m - (B * v) * m
    <3> HIDE DEF a
    <3> QED
      BY <2>1, <1>1, <1>2
  <2>3. a * m = s * (m * mprime)
    OBVIOUS
  <2>4. s * (m * mprime) + s = s * (c * B)
    <3>1. s * (m * mprime + 1) = s * (m * mprime) + s
      OBVIOUS
    <3> QED
      BY <3>1
  <2>5. B * q = s * (c * B) - (B * v) * m
    BY <1>2
  <2>6. /\ u * m \in Int /\ a * m \in Int /\ (B * v) * m \in Int
        /\ s * (m * mprime) \in Int /\ s * (c * B) \in Int
        /\ B * q \in Int
    BY <1>2
  <2> HIDE DEF a, q
  <2> QED
    BY <2>2, <2>3, <2>4, <2>5, <2>6
<1>4. e \in Nat /\ q \in Int /\ 0 \in 0..(B - 1)
  BY <1>2
<1>5. e \div B = q /\ e \div B \in Nat
  <2> HIDE DEF e, q
  <2> QED
    BY <1>3, <1>4, DivisionIs, DivisionNat
<1>6. B * (e \div B) = e
  <2> HIDE DEF e, q
  <2> QED
    BY <1>3, <1>4, <1>5
<1> QED
  BY <1>2, <1>5, <1>6 DEF u, Cleared

\* A sum after the words of x that make up low, of the place P.
IsSum(sum, P, low, z, m) ==
  \E k \in 0..(P - 1) : sum * P = low * z + k * m

\* The sum grows by a multiple of z and one of m.
Grows(B, P, sum, low, z, m, w, u, d) ==
  IsSum(d, P * B, low + P * w, z, m)

\* One word of Montgomery's loop keeps what the running sum means.
LEMMA MontgomeryStep ==
  ASSUME NEW B \in Nat \ {0}, NEW P \in Nat \ {0}, NEW sum \in Nat,
         NEW low \in Nat, NEW z \in Nat, NEW m \in Nat, IsSum(sum, P, low, z, m),
         NEW w \in Nat, NEW u \in 0..(B - 1), NEW d \in Nat,
         B * d = (sum + w * z) + u * m
  PROVE  Grows(B, P, sum, low, z, m, w, u, d)
<1>0. PICK k \in 0..(P - 1) : sum * P = low * z + k * m
  BY DEF IsSum
<1> DEFINE l == k + P * u
<1>1. l \in 0..(P * B - 1)
  <2>1. P * u \in Nat /\ P * u <= P * (B - 1)
    BY TimesMonotone
  <2>2. P * (B - 1) = P * B - P /\ P * B \in Nat
    OBVIOUS
  <2> QED
    BY <2>1, <2>2
<1>2. d * (P * B) = (low + P * w) * z + l * m
  <2>1. d * (P * B) = P * (B * d)
    OBVIOUS
  <2>2. P * ((sum + w * z) + u * m) = sum * P + (P * w) * z + (P * u) * m
    OBVIOUS
  <2>3. (low + P * w) * z = low * z + (P * w) * z
    OBVIOUS
  <2>4. l * m = k * m + (P * u) * m
    OBVIOUS
  <2>5. /\ sum * P \in Int /\ (P * w) * z \in Int /\ (P * u) * m \in Int
        /\ low * z \in Int /\ k * m \in Int
    OBVIOUS
  <2>6. d * (P * B) = sum * P + (P * w) * z + (P * u) * m
    BY <2>1, <2>2
  <2>7. (low + P * w) * z + l * m
          = (low * z + (P * w) * z) + (k * m + (P * u) * m)
    BY <2>3, <2>4
  <2> HIDE DEF l
  <2> QED
    BY <1>0, <2>5, <2>6, <2>7
<1> HIDE DEF l
<1> QED
  BY <1>1, <1>2 DEF Grows, IsSum

\* What mprime has to be: -1/m modulo the base.
ClearsWords(m, mprime) ==
  mprime \in Nat /\ \E c \in Nat : m * mprime + 1 = c * Base

\* The accelerator's sum after i words of x.
WordStep(x, z, m, mprime, i, sum) ==
  LET s == sum + ((x \div BaseTo(i - 1)) % Base) * z
  IN  (s + ((s * mprime) % Base) * m) \div Base

\* So the sum after i words is x % Base^i times z, divided by Base^i mod m.
LEMMA MontgomerySum ==
  ASSUME NEW words \in Nat, NEW x \in Nat, NEW z \in Nat, NEW m \in Nat,
         NEW mprime, ClearsWords(m, mprime), NEW f,
         \A i \in 0..words :
           f[i] = IF i = 0 THEN 0 ELSE WordStep(x, z, m, mprime, i, f[i - 1])
  PROVE  \A i \in 0..words :
           /\ f[i] \in Nat
           /\ IsSum(f[i], BaseTo(i), x % BaseTo(i), z, m)
<1> DEFINE Good(i) == /\ f[i] \in Nat
                      /\ IsSum(f[i], BaseTo(i), x % BaseTo(i), z, m)
           S == {i \in Nat : i <= words => Good(i)}
<1>1. 0 \in S
  <2>1. f[0] = 0 /\ BaseTo(0) = 1 /\ x % 1 = 0
    BY BaseType
  <2>2. 0 * 1 = 0 * z + 0 * m /\ 0 \in 0..(1 - 1)
    OBVIOUS
  <2> QED
    BY <2>1, <2>2 DEF IsSum
<1>2. ASSUME NEW i \in Nat, i \in S PROVE i + 1 \in S
  <2> SUFFICES ASSUME i + 1 <= words PROVE Good(i + 1)
    OBVIOUS
  <2>1. PICK P \in Nat \ {0} : P = BaseTo(i)
    BY BaseToType
  <2>2. PICK B \in Nat \ {0} : B = Base /\ BaseTo(i + 1) = P * B
    BY <2>1, BaseType, BaseToNext
  <2>3. PICK low \in Nat : low = x % P
    OBVIOUS
  <2>4. PICK w \in Nat : w = (x \div P) % B
    OBVIOUS
  <2>5. x % (P * B) = low + P * w
    BY <2>3, <2>4, Digits
  <2>6. PICK sum \in Nat :
          sum = f[i] /\ IsSum(sum, P, low, z, m)
    <3>1. i <= words
      OBVIOUS
    <3> QED
      BY <1>2, <2>1, <2>3, <3>1
  <2>7. PICK s \in Nat : s = sum + w * z
    OBVIOUS
  <2>8. PICK u \in 0..(B - 1), d \in Nat :
          /\ u = (s * mprime) % B /\ d = (s + u * m) \div B
          /\ B * d = s + u * m
    <3>1. mprime \in Nat /\ \E c \in Nat : m * mprime + 1 = c * B
      BY <2>2 DEF ClearsWords
    <3>2. Cleared(s, m, mprime, B)
      BY <3>1, ClearsLowestWord
    <3> QED
      BY <3>2 DEF Cleared
  <2>9. f[i + 1] = d
    <3>1. i + 1 \in 0..words /\ i + 1 # 0 /\ (i + 1) - 1 = i
      OBVIOUS
    <3>2. f[i + 1] = WordStep(x, z, m, mprime, i + 1, f[i])
      BY <3>1
    <3> QED
      BY <3>1, <3>2, <2>1, <2>2, <2>4, <2>6, <2>7, <2>8 DEF WordStep
  <2>10. IsSum(d, P * B, low + P * w, z, m)
    <3>1. Grows(B, P, sum, low, z, m, w, u, d)
      BY <2>6, <2>7, <2>8, MontgomeryStep
    <3> QED
      BY <3>1 DEF Grows
  <2> QED
    BY <2>2, <2>5, <2>9, <2>10
<1>3. \A i \in Nat : i \in S
  <2> HIDE DEF S
  <2> QED
    BY <1>1, <1>2, Induction
<1> QED
  BY <1>3

\* The reduced product times R has the residue of the product.
Reduced(r, x, z, m, words) ==
  r \in 0..(m - 1) /\ Same(r * BaseTo(words), x * z, m)

\* The last subtraction makes a remainder of the sum.
LEMMA MontgomeryReduces ==
  ASSUME NEW R \in Nat \ {0}, NEW x \in Nat, NEW z \in Nat, NEW m \in Nat \ {0},
         x < R, z <= m, NEW sum \in Nat, IsSum(sum, R, x, z, m),
         NEW r, r = IF sum >= m THEN sum - m ELSE sum
  PROVE  r \in 0..(m - 1) /\ Same(r * R, x * z, m)
<1>0. PICK k \in 0..(R - 1) : sum * R = x * z + k * m
  BY DEF IsSum
<1>1. sum < z + m
  <2> SUFFICES ASSUME z + m <= sum PROVE FALSE
    OBVIOUS
  <2>1. R * (z + m) <= R * sum
    BY TimesMonotone
  <2>2. z * x <= z * (R - 1) /\ m * k <= m * (R - 1)
    BY TimesMonotone
  <2>3. /\ R * sum = sum * R /\ z * x = x * z /\ m * k = k * m
        /\ R * (z + m) = z * R + m * R
        /\ z * (R - 1) = z * R - z /\ m * (R - 1) = m * R - m
    OBVIOUS
  <2>4. /\ sum * R \in Int /\ x * z \in Int /\ k * m \in Int
        /\ z * R \in Int /\ m * R \in Int
    OBVIOUS
  <2> QED
    BY <1>0, <2>1, <2>2, <2>3, <2>4
<1>2. r \in 0..(m - 1)
  BY <1>1
<1>3. CASE sum >= m
  <2>1. r * R = sum * R - R * m
    BY <1>3
  <2>2. (k - R) * m = k * m - R * m
    OBVIOUS
  <2>3. /\ sum * R \in Int /\ x * z \in Int /\ k * m \in Int /\ R * m \in Int
        /\ k - R \in Int
    OBVIOUS
  <2>4. r * R = x * z + (k - R) * m
    BY <1>0, <2>1, <2>2, <2>3
  <2> QED
    BY <1>2, <2>3, <2>4 DEF Same
<1>4. CASE ~(sum >= m)
  <2>1. r * R = x * z + k * m /\ k \in Int
    BY <1>0, <1>4
  <2> QED
    BY <1>2, <2>1 DEF Same
<1> QED
  BY <1>3, <1>4

\* Montgomery returns r < m with r * Base^words = x * z modulo m.
LEMMA MontgomeryIs ==
  ASSUME NEW words \in Nat, NEW x \in Nat, NEW z \in Nat, NEW m \in Nat \ {0},
         NEW mprime, ClearsWords(m, mprime), x < BaseTo(words), z <= m
  PROVE  Reduced(Montgomery(x, z, m, mprime, words), x, z, m, words)
<1> DEFINE Word(i) == (x \div BaseTo(i)) % Base
           sum[i \in 0..words] ==
             IF i = 0 THEN 0
             ELSE LET s == sum[i-1] + Word(i-1) * z
                  IN  (s + ((s * mprime) % Base) * m) \div Base
           p == [i \in Nat |-> IF i = 0 THEN 0 ELSE i - 1]
           F == [i \in Nat |-> [v \in Nat |->
                   IF i = 0 THEN 0 ELSE WordStep(x, z, m, mprime, i, v)]]
<1>1. ASSUME NEW i \in Nat \ {0}, NEW v \in Nat
      PROVE  WordStep(x, z, m, mprime, i, v) \in Nat
  <2>1. PICK P \in Nat \ {0} : P = BaseTo(i - 1)
    BY BaseToType
  <2>2. PICK B \in Nat \ {0} : B = Base
    BY BaseType
  <2>3. PICK w \in Nat : w = (x \div P) % B
    OBVIOUS
  <2>4. PICK s \in Nat : s = v + w * z
    OBVIOUS
  <2>5. (s + ((s * mprime) % B) * m) \div B \in Nat
    <3>1. mprime \in Nat /\ \E c \in Nat : m * mprime + 1 = c * B
      BY <2>2 DEF ClearsWords
    <3>2. Cleared(s, m, mprime, B)
      BY <3>1, ClearsLowestWord
    <3> QED
      BY <3>2 DEF Cleared
  <2> QED
    BY <2>1, <2>2, <2>3, <2>4, <2>5 DEF WordStep
<1>2. PICK f \in [Nat -> Nat] : Solves(f, Nat, 0, p, F)
  <2>1. /\ p \in [Nat -> Nat]
        /\ \A i \in Nat \ {0} : p[i] < i
    OBVIOUS
  <2>2. F \in [Nat -> [Nat -> Nat]]
    BY <1>1
  <2> HIDE DEF p, F
  <2> QED
    BY <2>1, <2>2, Recursion
<1>3. ASSUME NEW i \in Nat
      PROVE  f[i] = IF i = 0 THEN 0 ELSE WordStep(x, z, m, mprime, i, f[i - 1])
  <2>1. f[i] = IF i = 0 THEN 0 ELSE F[i][f[p[i]]]
    <3> HIDE DEF F, p
    <3> QED
      BY <1>2 DEF Solves
  <2>2. CASE i # 0
    <3>1. p[i] = i - 1 /\ f[i - 1] \in Nat
      BY <2>2
    <3>2. F[i][f[i - 1]] = WordStep(x, z, m, mprime, i, f[i - 1])
      BY <3>1, <2>2
    <3> QED
      BY <2>1, <2>2, <3>1, <3>2
  <2> QED
    BY <2>1, <2>2
<1> DEFINE g == [i \in 0..words |-> f[i]]
<1>4. g = [i \in 0..words |->
             IF i = 0 THEN 0
             ELSE LET s == g[i-1] + Word(i-1) * z
                  IN  (s + ((s * mprime) % Base) * m) \div Base]
  <2>1. ASSUME NEW i \in 0..words, i # 0
        PROVE  g[i] = LET s == g[i-1] + Word(i-1) * z
                      IN  (s + ((s * mprime) % Base) * m) \div Base
    <3>1. g[i] = f[i] /\ g[i - 1] = f[i - 1]
      BY <2>1
    <3>2. f[i] = WordStep(x, z, m, mprime, i, f[i - 1])
      BY <2>1, <1>3
    <3> HIDE DEF g
    <3> QED
      BY <3>1, <3>2 DEF WordStep
  <2>2. 0 \in 0..words /\ f[0] = 0
    BY <1>3
  <2> HIDE DEF Word
  <2> QED
    BY <2>1, <2>2
<1>5. sum = [i \in 0..words |->
               IF i = 0 THEN 0
               ELSE LET s == sum[i-1] + Word(i-1) * z
                    IN  (s + ((s * mprime) % Base) * m) \div Base]
  <2> HIDE DEF Word, g
  <2> QED
    BY <1>4
<1>6. Montgomery(x, z, m, mprime, words)
        = IF sum[words] >= m THEN sum[words] - m ELSE sum[words]
  BY DEF Montgomery
<1> HIDE DEF sum
<1>7. \A i \in 0..words :
        sum[i] = IF i = 0 THEN 0 ELSE WordStep(x, z, m, mprime, i, sum[i - 1])
  BY <1>5 DEF WordStep
<1>8. PICK R \in Nat \ {0} : R = BaseTo(words)
  BY BaseToType
<1>9. x % R = x
  BY <1>8
<1>10. PICK total \in Nat :
         /\ total = sum[words]
         /\ IsSum(total, R, x, z, m)
  <2>1. words \in 0..words
    OBVIOUS
  <2>2. /\ sum[words] \in Nat
        /\ IsSum(sum[words], BaseTo(words), x % BaseTo(words), z, m)
    BY <1>7, <2>1, MontgomerySum
  <2> QED
    BY <2>2, <1>8, <1>9
<1>11. PICK r \in Int : r = IF total >= m THEN total - m ELSE total
  OBVIOUS
<1>12. r \in 0..(m - 1) /\ Same(r * R, x * z, m)
  BY <1>8, <1>10, <1>11, MontgomeryReduces
<1> QED
  BY <1>6, <1>8, <1>10, <1>11, <1>12 DEF Reduced

-----------------------------------------------------------------------------
(* What the code computes for the accelerator: Mprime and Rinv.            *)

\* The lowest i bits of -Mprime invert N modulo 2^i.
LEMMA InverseBits ==
  ASSUME NEW N \in Nat, Odd(N), NEW L \in Nat \ {0}, NEW t,
         \A i \in 1..L :
           t[i] = IF i = 1 THEN 1
                  ELSE t[i-1] + IF (N * t[i-1]) % TwoTo[i] >= TwoTo[i-1]
                                THEN TwoTo[i-1] ELSE 0
  PROVE  t[L] \in Nat /\ Same(N * t[L], 1, TwoTo[L])
<1> DEFINE Good(i) == t[i] \in Nat /\ Same(N * t[i], 1, TwoTo[i])
           S == {n \in Nat : n + 1 <= L => Good(n + 1)}
<1>0. PICK h \in Int : N = 2 * h + 1
  BY DEF Odd
<1>1. 0 \in S
  <2>1. t[1] = 1 /\ TwoTo[1] = 2
    <3>1. 1 \in 1..L
      OBVIOUS
    <3>2. TwoTo[0] = 1 /\ TwoTo[1] = 2 * TwoTo[0]
      BY TwoToIs
    <3> QED
      BY <3>1, <3>2
  <2>2. N * 1 = 1 + h * 2
    BY <1>0
  <2>3. Good(1)
    BY <2>1, <2>2 DEF Same
  <2>4. 0 + 1 = 1
    OBVIOUS
  <2> HIDE DEF Good
  <2> QED
    BY <2>3, <2>4
<1>2. ASSUME NEW n \in Nat, n \in S PROVE n + 1 \in S
  <2> SUFFICES ASSUME (n + 1) + 1 <= L PROVE Good((n + 1) + 1)
    OBVIOUS
  <2>1. PICK i \in Nat \ {0} : i = n + 1
    OBVIOUS
  <2>2. i \in 1..L /\ i + 1 \in 1..L /\ i + 1 # 1 /\ (i + 1) - 1 = i
    BY <2>1
  <2>3. Good(i)
    <3> HIDE DEF Good
    <3> QED
      BY <1>2, <2>1, <2>2
  <2>4. PICK P \in Nat : P = TwoTo[i] /\ P >= 2 /\ TwoTo[i + 1] = 2 * P
    <3>1. TwoTo[i] = 2 * TwoTo[i - 1] /\ i - 1 \in Nat
      BY TwoToIs
    <3>2. TwoTo[i + 1] = 2 * TwoTo[i]
      BY TwoToIs
    <3>3. TwoTo[i - 1] \in Nat \ {0}
      BY <3>1, TwoToType
    <3> QED
      BY <3>1, <3>2, <3>3
  <2>5. PICK u \in Nat : u = t[i]
    BY <2>3
  <2>6. PICK k \in Int : N * u = 1 + k * P
    BY <2>3, <2>4, <2>5 DEF Same
  <2>7. t[i + 1] = u + IF (N * u) % (2 * P) >= P THEN P ELSE 0
    BY <2>2, <2>4, <2>5
  <2>8. PICK j \in Int : k = 2 * j \/ k = 2 * j + 1
    <3>1. k \div 2 \in Int
      OBVIOUS
    <3>2. k = 2 * (k \div 2) \/ k = 2 * (k \div 2) + 1
      OBVIOUS
    <3> QED
      BY <3>1, <3>2
  <2>9. CASE k = 2 * j
    <3>1. k * P = (2 * P) * j
      BY <2>9
    <3>2. N * u = (2 * P) * j + 1 /\ N * u \in Int /\ (2 * P) * j \in Int
      BY <2>6, <3>1
    <3>3. (N * u) % (2 * P) = 1
      <4> DEFINE a == N * u
      <4> HIDE DEF a
      <4>1. a \in Int /\ 2 * P \in Nat \ {0} /\ 1 \in 0..(2 * P - 1)
            /\ a = (2 * P) * j + 1
        BY <3>2, <2>4 DEF a
      <4>2. a % (2 * P) = 1
        BY <4>1, DivisionIs
      <4> QED
        BY <4>2 DEF a
    <3>4. t[i + 1] = u
      BY <2>7, <3>3, <2>4
    <3>5. N * u = 1 + j * (2 * P)
      BY <3>2
    <3>6. Same(N * t[i + 1], 1, TwoTo[i + 1])
      BY <3>4, <3>5, <2>4 DEF Same
    <3> QED
      BY <3>4, <3>6, <2>1
  <2>10. CASE k = 2 * j + 1
    <3>1. k * P = (2 * P) * j + P
      BY <2>10
    <3>2. N * u = (2 * P) * j + (P + 1) /\ N * u \in Int /\ (2 * P) * j \in Int
      BY <2>6, <3>1
    <3>3. (N * u) % (2 * P) = P + 1
      <4> DEFINE a == N * u
      <4> HIDE DEF a
      <4>1. a \in Int /\ 2 * P \in Nat \ {0} /\ P + 1 \in 0..(2 * P - 1)
            /\ a = (2 * P) * j + (P + 1)
        BY <3>2, <2>4 DEF a
      <4>2. a % (2 * P) = P + 1
        BY <4>1, DivisionIs
      <4> QED
        BY <4>2 DEF a
    <3>4. t[i + 1] = u + P
      BY <2>7, <3>3
    <3>5. N * (u + P) = 1 + ((j + h) + 1) * (2 * P)
      <4>1. N * (u + P) = N * u + N * P
        OBVIOUS
      <4>2. N * P = (2 * P) * h + P
        BY <1>0
      <4>3. ((j + h) + 1) * (2 * P) = (2 * P) * j + (2 * P) * h + 2 * P
        OBVIOUS
      <4>4. (2 * P) * j \in Int /\ (2 * P) * h \in Int
        OBVIOUS
      <4> QED
        BY <4>1, <4>2, <4>3, <4>4, <3>2
    <3>6. Same(N * t[i + 1], 1, TwoTo[i + 1])
      <4>1. (j + h) + 1 \in Int
        OBVIOUS
      <4> QED
        BY <3>4, <3>5, <4>1, <2>4 DEF Same
    <3> QED
      BY <3>4, <3>6, <2>1
  <2> QED
    BY <2>8, <2>9, <2>10
<1>3. \A n \in Nat : n \in S
  <2> HIDE DEF S
  <2> QED
    BY <1>1, <1>2, Induction
<1>4. L - 1 \in Nat /\ (L - 1) + 1 = L
  OBVIOUS
<1>5. Good(L)
  <2>1. L - 1 \in S
    <3> HIDE DEF S
    <3> QED
      BY <1>3, <1>4
  <2> HIDE DEF Good
  <2>2. L - 1 + 1 <= L => Good(L - 1 + 1)
    BY <2>1
  <2> QED
    BY <1>4, <2>2
<1> QED
  BY <1>5 DEF Good

\* For an odd modulus modular_inverse is what the accelerator needs.
LEMMA MprimeIs ==
  ASSUME NEW M \in Int, NEW m \in Nat, m = Magnitude(M), Odd(m)
  PROVE  ClearsWords(m, modular_inverse(M))
<1> DEFINE N == Magnitude(M) % Base
           t[i \in 1..LimbBits] ==
             IF i = 1 THEN 1
             ELSE t[i-1] + IF (N * t[i-1]) % TwoTo[i] >= TwoTo[i-1]
                           THEN TwoTo[i-1] ELSE 0
           Next1(i, v) == v + IF (N * v) % TwoTo[i] >= TwoTo[i-1]
                              THEN TwoTo[i-1] ELSE 0
           p == [n \in Nat |-> IF n = 0 THEN 0 ELSE n - 1]
           F == [n \in Nat |-> [v \in Nat |-> Next1(n + 1, v)]]
<1>1. PICK B \in Nat \ {0} : B = Base /\ B = TwoTo[LimbBits]
                                /\ \E e \in Nat : B = 2 * e
  <2>1. LimbBits * 1 = LimbBits
    BY SizesArePositive
  <2> QED
    BY <2>1, BaseType DEF Base, BaseTo
<1>2. ASSUME NEW n \in Nat, NEW v \in Nat PROVE Next1(n + 1, v) \in Nat
  <2>1. (n + 1) - 1 = n /\ TwoTo[n] \in Nat
    BY TwoToType
  <2> HIDE DEF N
  <2> QED
    BY <2>1
<1>3. PICK f \in [Nat -> Nat] : Solves(f, Nat, 1, p, F)
  <2>1. /\ p \in [Nat -> Nat]
        /\ \A i \in Nat \ {0} : p[i] < i
    OBVIOUS
  <2>2. F \in [Nat -> [Nat -> Nat]]
    <3> HIDE DEF Next1
    <3> QED
      BY <1>2
  <2> HIDE DEF p, F
  <2> QED
    BY <2>1, <2>2, Recursion
<1>4. ASSUME NEW n \in Nat PROVE f[n] = IF n = 0 THEN 1 ELSE Next1(n + 1, f[n - 1])
  <2>1. f[n] = IF n = 0 THEN 1 ELSE F[n][f[p[n]]]
    <3> HIDE DEF F, p
    <3> QED
      BY <1>3 DEF Solves
  <2>2. CASE n # 0
    <3>1. p[n] = n - 1 /\ f[n - 1] \in Nat
      BY <2>2
    <3> HIDE DEF Next1
    <3>2. F[n][f[n - 1]] = Next1(n + 1, f[n - 1])
      BY <3>1, <2>2
    <3> QED
      BY <2>1, <2>2, <3>1, <3>2
  <2> QED
    BY <2>1, <2>2
<1> DEFINE g == [i \in 1..LimbBits |-> f[i - 1]]
<1>5. g = [i \in 1..LimbBits |->
             IF i = 1 THEN 1
             ELSE g[i-1] + IF (N * g[i-1]) % TwoTo[i] >= TwoTo[i-1]
                           THEN TwoTo[i-1] ELSE 0]
  <2>1. ASSUME NEW i \in 1..LimbBits, i # 1
        PROVE  g[i] = Next1(i, g[i - 1])
    <3>1. /\ g[i] = f[i - 1] /\ i - 1 \in 1..LimbBits /\ g[i - 1] = f[(i - 1) - 1]
          /\ i - 1 \in Nat \ {0} /\ (i - 1) + 1 = i
      BY <2>1, SizesArePositive
    <3>2. f[i - 1] = Next1(i, f[(i - 1) - 1])
      <4> HIDE DEF Next1
      <4> QED
        BY <3>1, <1>4
    <3> HIDE DEF g, Next1
    <3> QED
      BY <3>1, <3>2
  <2>2. f[0] = 1
    BY <1>4
  <2>3. g = [i \in 1..LimbBits |-> g[i]]
    OBVIOUS
  <2>4. ASSUME NEW i \in 1..LimbBits
        PROVE  g[i] = IF i = 1 THEN 1
                      ELSE g[i-1] + IF (N * g[i-1]) % TwoTo[i] >= TwoTo[i-1]
                                    THEN TwoTo[i-1] ELSE 0
    <3>1. CASE i = 1
      BY <3>1, <2>2
    <3>2. CASE i # 1
      <4> HIDE DEF N, g
      <4> QED
        BY <3>2, <2>1
    <3> QED
      BY <3>1, <3>2
  <2> HIDE DEF N, g
  <2> QED
    BY <2>3, <2>4
<1>6. t = [i \in 1..LimbBits |->
             IF i = 1 THEN 1
             ELSE t[i-1] + IF (N * t[i-1]) % TwoTo[i] >= TwoTo[i-1]
                           THEN TwoTo[i-1] ELSE 0]
  <2> HIDE DEF N, g
  <2> QED
    BY <1>5
<1>7. modular_inverse(M) = (Base - t[LimbBits]) % Base
  BY DEF modular_inverse
<1> HIDE DEF t
<1>8. PICK n \in Nat : n = N /\ Odd(n) /\ Same(m, n, B)
  <2>1. PICK n \in 0..(B - 1), q \in Int : n = m % B /\ m = B * q + n
    <3>1. m \div B \in Int /\ m % B \in 0..(B - 1)
      OBVIOUS
    <3>3. m % B = m - B * (m \div B)
      OBVIOUS
    <3>2. m = B * (m \div B) + (m % B)
      <4>1. B * (m \div B) \in Int /\ m % B \in Int
        BY <3>1
      <4> QED
        BY <3>3, <4>1
    <3> QED
      BY <3>1, <3>2
  <2>2. m = n + q * B
    BY <2>1
  <2>3. PICK h \in Int, e \in Nat : m = 2 * h + 1 /\ B = 2 * e
    BY <1>1 DEF Odd
  <2>4. n = 2 * (h - e * q) + 1 /\ h - e * q \in Int
    <3>1. (2 * e) * q = 2 * (e * q) /\ e * q \in Int
      OBVIOUS
    <3> QED
      BY <2>1, <2>3, <3>1
  <2>5. Odd(n) /\ Same(m, n, B) /\ n \in Nat
    <3>1. Same(m, n, B)
      BY <2>2 DEF Same
    <3>2. PICK a \in Int : a = h - e * q /\ n = 2 * a + 1
      BY <2>4
    <3>3. Odd(n)
      BY <3>2 DEF Odd
    <3> QED
      BY <3>1, <3>3
  <2>6. N = m % B
    BY <1>1
  <2> QED
    BY <2>1, <2>5, <2>6
<1>9. t[LimbBits] \in Nat /\ Same(n * t[LimbBits], 1, B)
  <2>1. \A i \in 1..LimbBits :
           t[i] = IF i = 1 THEN 1
                  ELSE t[i-1] + IF (n * t[i-1]) % TwoTo[i] >= TwoTo[i-1]
                                THEN TwoTo[i-1] ELSE 0
    <3> HIDE DEF N
    <3> QED
      BY <1>6, <1>8
  <2> QED
    BY <2>1, <1>1, <1>8, InverseBits, SizesArePositive
<1>10. PICK v \in Nat : v = t[LimbBits]
  BY <1>9
<1>11. PICK mp \in Nat, q \in Int : mp = modular_inverse(M) /\ mp = (B - v) + q * B
  <2>1. PICK a \in Int : a = B - v
    OBVIOUS
  <2>2. a % B \in Nat /\ -(a \div B) \in Int
    OBVIOUS
  <2>3. a % B = a - B * (a \div B)
    OBVIOUS
  <2>4. a % B = a + (-(a \div B)) * B
    <3>1. B * (a \div B) \in Int /\ (-(a \div B)) * B = -(B * (a \div B))
      OBVIOUS
    <3> QED
      BY <2>3, <3>1
  <2>5. modular_inverse(M) = a % B
    BY <2>1, <1>1, <1>7, <1>10
  <2> QED
    BY <2>1, <2>2, <2>4, <2>5
<1>12. PICK k \in Int : n * v = 1 + k * B
  BY <1>9, <1>10 DEF Same
<1>13. PICK l \in Int : m = n + l * B
  BY <1>8 DEF Same
<1> DEFINE c == l * mp + n * (1 + q) - k
<1>14. m * mp + 1 = c * B /\ c \in Int
  <2>1. m * mp = n * mp + (l * mp) * B
    BY <1>13
  <2>2. n * mp = (n * (1 + q)) * B - n * v
    BY <1>11
  <2>3. c * B = (l * mp) * B + (n * (1 + q)) * B - k * B
    OBVIOUS
  <2>4. /\ (l * mp) * B \in Int /\ (n * (1 + q)) * B \in Int /\ k * B \in Int
        /\ n * mp \in Int /\ n * v \in Int /\ m * mp \in Int
        /\ c \in Int
    OBVIOUS
  <2> HIDE DEF c
  <2> QED
    BY <2>1, <2>2, <2>3, <2>4, <1>12
<1> HIDE DEF c
<1>15. c \in Nat
  <2> SUFFICES ASSUME c < 0 PROVE FALSE
    BY <1>14
  <2>1. c * B <= 0
    BY <1>14
  <2>2. m * mp \in Nat
    OBVIOUS
  <2> QED
    BY <1>14, <2>1, <2>2
<1> QED
  BY <1>1, <1>11, <1>14, <1>15 DEF ClearsWords

-----------------------------------------------------------------------------
(* What the accelerator computes with them.                                *)

\* The multiplier: the factor in the upper half of the Z block is shifted
\* back with the product.
LEMMA MultiplierIs ==
  ASSUME NEW x \in Nat, NEW y \in Nat, NEW h \in Nat
  PROVE  Multiplier(x, y * BaseTo(h), 2 * h) = x * y
<1>1. PICK R \in Nat \ {0} : R = BaseTo(h)
  BY BaseToType
<1>2. (2 * h) \div 2 = h
  OBVIOUS
<1>3. PICK a \in Int, q \in Int : a = x * (y * R) /\ q = x * y
  OBVIOUS
<1>4. a = R * q + 0
  BY <1>3
<1>5. a \div R = q
  BY <1>4, DivisionIs
<1> QED
  BY <1>1, <1>2, <1>3, <1>5 DEF Multiplier

\* Modulo R - 1 a Montgomery multiplication is a multiplication.
LEMMA OnesReduce ==
  ASSUME NEW words \in Nat \ {0}, NEW R \in Nat \ {0}, R = BaseTo(words),
         NEW x \in Nat, x < R, NEW z \in Nat, z <= R - 1
  PROVE  /\ R - 1 \in Nat \ {0}
         /\ Montgomery(x, z, R - 1, 1, words) \in 0..((R - 1) - 1)
         /\ Same(Montgomery(x, z, R - 1, 1, words), x * z, R - 1)
<1>1. PICK P \in Nat \ {0}, B \in Nat \ {0, 1} : B = Base /\ R = P * B
  <2>1. words - 1 \in Nat /\ (words - 1) + 1 = words
    OBVIOUS
  <2> QED
    BY <2>1, BaseToNext, BaseToType, BaseType
<1>2. PICK m \in Nat \ {0} : m = R - 1
  <2>1. P * 2 <= P * B
    BY <1>1, TimesMonotone
  <2>2. 2 <= R
    BY <1>1, <2>1
  <2> QED
    BY <2>2
<1>3. ClearsWords(m, 1)
  <2>1. m * 1 + 1 = P * B
    BY <1>1, <1>2
  <2> QED
    BY <1>1, <2>1 DEF ClearsWords
<1>4. Reduced(Montgomery(x, z, m, 1, words), x, z, m, words)
  BY <1>2, <1>3, MontgomeryIs
<1>5. PICK r \in 0..(m - 1) : r = Montgomery(x, z, m, 1, words)
  BY <1>4 DEF Reduced
<1>6. PICK k \in Int : r * R = x * z + k * m
  BY <1>4, <1>5 DEF Reduced, Same
<1>7. r = x * z + (k - r) * m
  <2>1. r * R = r * m + r
    BY <1>2
  <2>2. (k - r) * m = k * m - r * m
    OBVIOUS
  <2>3. r * m \in Int /\ k * m \in Int /\ x * z \in Int
    OBVIOUS
  <2> QED
    BY <1>6, <2>1, <2>2, <2>3
<1>8. Same(r, x * z, m)
  <2>1. k - r \in Int
    OBVIOUS
  <2> QED
    BY <1>7, <2>1 DEF Same
<1> QED
  BY <1>2, <1>5, <1>8

\* mpi_mult_mpi_failover_mod_mult: two of them give the product, if it is
\* below R - 1.
LEMMA FailoverIs ==
  ASSUME NEW words \in Nat \ {0}, NEW x \in Nat, NEW y \in Nat,
         x < BaseTo(words), y < BaseTo(words), x * y < BaseTo(words) - 1
  PROVE  LET first == Montgomery(x, 1, BaseTo(words) - 1, 1, words)
         IN  Montgomery(y, first, BaseTo(words) - 1, 1, words) = x * y
<1>1. PICK R \in Nat \ {0} : R = BaseTo(words)
  BY BaseToType
<1>2. R - 1 \in Nat \ {0} /\ x < R /\ y < R /\ x * y < R - 1
  <2>1. R > 1
    <3>1. x * y \in Nat
      OBVIOUS
    <3> QED
      BY <1>1, <3>1
  <2> QED
    BY <1>1, <2>1
<1>3. PICK m \in Nat \ {0} : m = R - 1
  BY <1>2
<1>4. PICK a \in 0..(m - 1) :
        a = Montgomery(x, 1, BaseTo(words) - 1, 1, words) /\ Same(a, x * 1, m)
  <2>1. 1 \in Nat /\ 1 <= R - 1
    BY <1>2
  <2> QED
    BY <2>1, <1>1, <1>2, <1>3, OnesReduce
<1>5. PICK b \in 0..(m - 1) :
        b = Montgomery(y, a, BaseTo(words) - 1, 1, words) /\ Same(b, y * a, m)
  <2>1. a \in Nat /\ a <= R - 1
    BY <1>3, <1>4
  <2> QED
    BY <2>1, <1>1, <1>2, <1>3, OnesReduce
<1>6. PICK k \in Int : a = x + k * m
  BY <1>4 DEF Same
<1>7. PICK l \in Int : b = y * a + l * m
  BY <1>5 DEF Same
<1>8. Same(b, x * y, m)
  <2>1. y * a = x * y + (y * k) * m
    BY <1>6
  <2>2. (y * k + l) * m = (y * k) * m + l * m
    OBVIOUS
  <2>3. /\ y * a \in Int /\ x * y \in Int /\ (y * k) * m \in Int /\ l * m \in Int
        /\ y * k + l \in Int
    BY <1>4
  <2>4. b = x * y + (y * k + l) * m
    BY <1>7, <2>1, <2>2, <2>3
  <2> QED
    BY <2>3, <2>4 DEF Same
<1>9. x * y \in 0..(m - 1)
  <2>1. x * y \in Nat
    OBVIOUS
  <2> QED
    BY <2>1, <1>2, <1>3
<1>10. b = x * y
  BY <1>8, <1>9, SameIsEqual
<1> QED
  BY <1>4, <1>5, <1>10

-----------------------------------------------------------------------------
(* Residues modulo an odd number.                                          *)

\* A factor that carries R loses it in a Montgomery multiplication.
Cancelled(r, p, c, m) == Same(r, p * c, m)

\* The factor Base^words cancels, since m is odd.
LEMMA ReducedIs ==
  ASSUME NEW words \in Nat, NEW R \in Nat \ {0}, R = BaseTo(words),
         NEW m \in Nat \ {0}, Odd(m),
         NEW r \in Int, NEW p \in Int, NEW q \in Int, NEW c \in Int,
         Reduced(r, p, q, m, words), Same(q, R * c, m)
  PROVE  Cancelled(r, p, c, m)
<1>1. PICK k \in Int : r * R = p * q + k * m
  BY DEF Reduced, Same
<1>2. PICK l \in Int : q = R * c + l * m
  BY DEF Same
<1>3. R * r = R * (p * c) + (p * l + k) * m
  <2>1. R * r = r * R
    OBVIOUS
  <2>2. p * q = R * (p * c) + (p * l) * m
    <3>1. p * (R * c + l * m) = R * (p * c) + (p * l) * m
      OBVIOUS
    <3> QED
      BY <1>2, <3>1
  <2>3. (p * l + k) * m = (p * l) * m + k * m
    OBVIOUS
  <2>4. /\ R * (p * c) \in Int /\ (p * l) * m \in Int /\ k * m \in Int
        /\ p * q \in Int
    OBVIOUS
  <2> QED
    BY <1>1, <2>1, <2>2, <2>3, <2>4
<1>4. PICK d \in Int : d = p * c
  OBVIOUS
<1>5. Same(R * r, R * d, m)
  <2>1. p * l + k \in Int
    OBVIOUS
  <2> QED
    BY <1>3, <1>4, <2>1 DEF Same
<1>6. PICK n \in Nat : R = TwoTo[n]
  BY SizesArePositive DEF BaseTo
<1>7. Same(r, d, m)
  BY <1>5, <1>6, OddCancels
<1> QED
  BY <1>4, <1>7 DEF Cancelled

\* What a call gives the accelerator for a modulus.
Prepared(m, mprime, rinv_, words) ==
  /\ Odd(m) /\ m < BaseTo(words)
  /\ ClearsWords(m, mprime)
  /\ rinv_ \in 0..(m - 1)
  /\ Same(rinv_, BaseTo(words) * BaseTo(words), m)

\* calculate_rinv is the square of Base^words modulo m.
LEMMA RinvIs ==
  ASSUME NEW m \in Nat \ {0}, NEW words \in Nat
  PROVE  /\ calculate_rinv(m, words) \in 0..(m - 1)
         /\ Same(calculate_rinv(m, words), BaseTo(words) * BaseTo(words), m)
<1>1. PICK R \in Nat \ {0} : R = BaseTo(words)
  BY BaseToType
<1>2. PICK s \in Nat : s = R * R /\ s = BaseTo(2 * words)
  <2>1. 2 * words = words + words
    OBVIOUS
  <2> QED
    BY <1>1, <2>1, BaseToSum
<1>3. s % m \in 0..(m - 1) /\ -(s \div m) \in Int
  OBVIOUS
<1>4. s % m = s - m * (s \div m)
  OBVIOUS
<1>5. s % m = s + (-(s \div m)) * m
  <2>1. m * (s \div m) \in Int /\ (-(s \div m)) * m = -(m * (s \div m))
    OBVIOUS
  <2> QED
    BY <1>4, <2>1
<1>6. Same(s % m, s, m)
  BY <1>3, <1>5 DEF Same
<1> QED
  BY <1>1, <1>2, <1>3, <1>6 DEF calculate_rinv

\* Into Montgomery form, and out of it.
Times(p, q, m, mprime, words) == Montgomery(p, q, m, mprime, words)

TimesGives(p, q, c, m, mprime, words) ==
  /\ Times(p, q, m, mprime, words) \in 0..(m - 1)
  /\ Same(Times(p, q, m, mprime, words), p * c, m)

\* Montgomery multiplication by a number that stands for c (that is, by
\* Base^words * c) multiplies by c.
LEMMA TimesIs ==
  ASSUME NEW words \in Nat, NEW R \in Nat \ {0}, R = BaseTo(words),
         NEW m \in Nat \ {0}, NEW mprime, NEW rinv_, Prepared(m, mprime, rinv_, words),
         NEW p \in Nat, p < R, NEW q \in 0..(m - 1), NEW c \in Int,
         Same(q, R * c, m)
  PROVE  TimesGives(p, q, c, m, mprime, words)
<1>1. q \in Nat /\ q <= m
  OBVIOUS
<1>2. Reduced(Times(p, q, m, mprime, words), p, q, m, words)
  BY <1>1, MontgomeryIs DEF Prepared, Times
<1>3. PICK r \in 0..(m - 1) : r = Times(p, q, m, mprime, words)
  BY <1>2 DEF Reduced
<1>4. Cancelled(r, p, c, m)
  BY <1>2, <1>3, ReducedIs DEF Prepared
<1> QED
  BY <1>3, <1>4 DEF Cancelled, TimesGives

\* esp_mpi_mul_mpi_mod: x times Rinv is x in Montgomery form, y times that is
\* the residue of the product.
LEMMA MulModIs ==
  ASSUME NEW words \in Nat, NEW m \in Nat \ {0}, NEW mprime, NEW rinv_,
         Prepared(m, mprime, rinv_, words),
         NEW x \in Nat, x < BaseTo(words), NEW y \in Nat, y < BaseTo(words)
  PROVE  LET first == Montgomery(x, rinv_, m, mprime, words)
             r == Montgomery(y, first, m, mprime, words)
         IN  r \in 0..(m - 1) /\ Same(r, x * y, m)
<1>1. PICK R \in Nat \ {0} : R = BaseTo(words)
  BY BaseToType
<1>2. x < R /\ y < R
  BY <1>1
<1>3. rinv_ \in 0..(m - 1) /\ Same(rinv_, R * R, m)
  BY <1>1 DEF Prepared
<1>4. TimesGives(x, rinv_, R, m, mprime, words)
  BY <1>1, <1>2, <1>3, TimesIs
<1>5. PICK a \in 0..(m - 1) : /\ a = Montgomery(x, rinv_, m, mprime, words)
                              /\ Same(a, x * R, m)
  BY <1>4 DEF TimesGives, Times
<1>6. x * R = R * x
  OBVIOUS
<1>7. TimesGives(y, a, x, m, mprime, words)
  BY <1>1, <1>2, <1>5, <1>6, TimesIs
<1>8. y * x = x * y
  OBVIOUS
<1> QED
  BY <1>5, <1>7, <1>8 DEF TimesGives, Times

-----------------------------------------------------------------------------
(* Exponentiation.                                                         *)

\* P holds the powers of x.
IsPower(P, x) ==
  /\ P \in [Nat -> Int]
  /\ P[0] = 1
  /\ \A n \in Nat : P[n + 1] = P[n] * x

\* Every number has powers.
LEMMA PowersExist ==
  ASSUME NEW x \in Int
  PROVE  \E P : IsPower(P, x)
<1> DEFINE p == [n \in Nat |-> IF n = 0 THEN 0 ELSE n - 1]
           F == [i \in Nat |-> [v \in Int |-> v * x]]
<1>1. PICK f \in [Nat -> Int] : Solves(f, Nat, 1, p, F)
  <2>1. /\ p \in [Nat -> Nat]
        /\ \A n \in Nat \ {0} : p[n] < n
        /\ F \in [Nat -> [Int -> Int]]
        /\ 1 \in Int
    OBVIOUS
  <2> HIDE DEF p, F
  <2> QED
    BY <2>1, Recursion
<1>2. f[0] = 1
  <2> HIDE DEF p, F
  <2> QED
    BY <1>1 DEF Solves
<1>3. ASSUME NEW n \in Nat PROVE f[n + 1] = f[n] * x
  <2>1. n + 1 \in Nat /\ n + 1 # 0 /\ p[n + 1] = n
    OBVIOUS
  <2>2. f[n + 1] = F[n + 1][f[p[n + 1]]]
    <3> HIDE DEF F, p
    <3> QED
      BY <1>1, <2>1 DEF Solves
  <2>3. F[n + 1][f[n]] = f[n] * x
    BY <2>1
  <2> QED
    BY <2>1, <2>2, <2>3
<1> QED
  BY <1>2, <1>3 DEF IsPower

\* x^(a+b) = x^a * x^b.
LEMMA PowerSum ==
  ASSUME NEW x \in Int, NEW P, IsPower(P, x), NEW a \in Nat
  PROVE  \A b \in Nat : P[a + b] = P[a] * P[b]
<1> DEFINE S == {n \in Nat : P[a + n] = P[a] * P[n]}
<1>0. /\ P \in [Nat -> Int] /\ P[0] = 1
      /\ \A n \in Nat : P[n + 1] = P[n] * x
  BY DEF IsPower
<1>1. 0 \in S
  BY <1>0
<1>2. ASSUME NEW n \in Nat, n \in S PROVE n + 1 \in S
  <2>1. P[n + 1] = P[n] * x
    BY <1>0
  <2>2. P[a + (n + 1)] = P[a + n] * x
    <3>1. a + n \in Nat /\ a + (n + 1) = (a + n) + 1
      OBVIOUS
    <3> QED
      BY <3>1, <1>0
  <2>3. PICK u \in Int, v \in Int : u = P[a] /\ v = P[n]
    BY <1>0
  <2>4. (u * v) * x = u * (v * x)
    OBVIOUS
  <2> QED
    BY <2>1, <2>2, <2>3, <2>4, <1>2
<1>3. \A n \in Nat : n \in S
  <2> HIDE DEF S
  <2> QED
    BY <1>1, <1>2, Induction
<1> QED
  BY <1>3

\* A power, by squaring: the accelerator's recursion.
Squares(P, e, x) ==
  P[e] = IF e % 2 = 1 THEN (P[e \div 2] * P[e \div 2]) * x
         ELSE P[e \div 2] * P[e \div 2]

\* x^e from x^(e div 2): a square, times x for an odd e.
LEMMA PowerSquares ==
  ASSUME NEW x \in Int, NEW P, IsPower(P, x), NEW e \in Nat
  PROVE  Squares(P, e, x)
<1>1. PICK h \in Nat : h = e \div 2
  OBVIOUS
<1>2. P[h + h] = P[h] * P[h]
  BY PowerSum
<1>3. CASE e % 2 = 1
  <2>1. e = (h + h) + 1 /\ h + h \in Nat
    BY <1>1, <1>3
  <2>2. P[e] = P[h + h] * x
    BY <2>1 DEF IsPower
  <2> QED
    BY <1>1, <1>2, <1>3, <2>2 DEF Squares
<1>4. CASE e % 2 # 1
  <2>1. e = h + h
    BY <1>1, <1>4
  <2> QED
    BY <1>1, <1>2, <1>4, <2>1 DEF Squares
<1> QED
  BY <1>3, <1>4

\* Congruent numbers stay congruent when multiplied on the right.
LEMMA SameTimesRight ==
  ASSUME NEW a \in Int, NEW b \in Int, NEW c \in Int, NEW m \in Int,
         Same(a, b, m)
  PROVE  Same(a * c, b * c, m)
<1>1. c * a = a * c /\ c * b = b * c
  OBVIOUS
<1> QED
  BY <1>1, SameTimes

\* The reference: the power is reduced after every multiplication.
LEMMA PowerModuloIs ==
  ASSUME NEW x \in Int, NEW P, IsPower(P, x), NEW n \in Nat, NEW m \in Nat \ {0}
  PROVE  /\ PowerModulo(x, n, m) \in 0..(m - 1)
         /\ Same(PowerModulo(x, n, m), P[n], m)
<1> DEFINE p == [i \in Nat |-> IF i = 0 THEN 0 ELSE i - 1]
           F == [i \in Nat |-> [v \in Int |-> (v * x) % m]]
           power[i \in 0..n] == IF i = 0 THEN 1 % m ELSE (power[i-1] * x) % m
<1>1. PICK f \in [Nat -> Int] : Solves(f, Nat, 1 % m, p, F)
  <2>1. /\ p \in [Nat -> Nat]
        /\ \A i \in Nat \ {0} : p[i] < i
        /\ 1 % m \in Int
    OBVIOUS
  <2>2. F \in [Nat -> [Int -> Int]]
    <3>1. ASSUME NEW v \in Int PROVE (v * x) % m \in Int
      <4>1. PICK w \in Int : w = v * x
        OBVIOUS
      <4> QED
        BY <4>1
    <3> QED
      BY <3>1
  <2> HIDE DEF p, F
  <2> QED
    BY <2>1, <2>2, Recursion
<1>2. ASSUME NEW i \in Nat
      PROVE  f[i] = IF i = 0 THEN 1 % m ELSE (f[i - 1] * x) % m
  <2>1. f[i] = IF i = 0 THEN 1 % m ELSE F[i][f[p[i]]]
    <3> HIDE DEF F, p
    <3> QED
      BY <1>1 DEF Solves
  <2>2. CASE i # 0
    <3>1. i - 1 \in Nat /\ p[i] = i - 1 /\ f[i - 1] \in Int
      BY <2>2
    <3>2. F[i][f[i - 1]] = (f[i - 1] * x) % m
      BY <3>1
    <3> QED
      BY <2>1, <2>2, <3>1, <3>2
  <2> QED
    BY <2>1, <2>2
<1> DEFINE g == [i \in 0..n |-> f[i]]
<1>3. g = [i \in 0..n |-> IF i = 0 THEN 1 % m ELSE (g[i - 1] * x) % m]
  <2>1. ASSUME NEW i \in 0..n, i # 0 PROVE g[i] = (g[i - 1] * x) % m
    <3>1. g[i] = f[i] /\ g[i - 1] = f[i - 1]
      BY <2>1
    <3>2. f[i] = (f[i - 1] * x) % m
      BY <2>1, <1>2
    <3> HIDE DEF g
    <3> QED
      BY <3>1, <3>2
  <2>2. 0 \in 0..n /\ f[0] = 1 % m
    BY <1>2
  <2> QED
    BY <2>1, <2>2
<1>4. power = [i \in 0..n |-> IF i = 0 THEN 1 % m ELSE (power[i - 1] * x) % m]
  <2> HIDE DEF g
  <2> QED
    BY <1>3
<1>5. PowerModulo(x, n, m) = power[n]
  BY DEF PowerModulo
<1> HIDE DEF power
<1> DEFINE S == {i \in Nat : i <= n => /\ power[i] \in 0..(m - 1)
                                       /\ Same(power[i], P[i], m)}
<1>6. 0 \in S
  <2>1. 0 \in 0..n /\ power[0] = 1 % m
    BY <1>4
  <2>2. P[0] = 1
    BY DEF IsPower
  <2>3. 1 % m \in 0..(m - 1) /\ Same(1 % m, 1, m)
    BY SameAsRemainder
  <2> QED
    BY <2>1, <2>2, <2>3
<1>7. ASSUME NEW i \in Nat, i \in S PROVE i + 1 \in S
  <2> SUFFICES ASSUME i + 1 <= n
               PROVE  /\ power[i + 1] \in 0..(m - 1)
                      /\ Same(power[i + 1], P[i + 1], m)
    OBVIOUS
  <2>1. power[i] \in 0..(m - 1) /\ Same(power[i], P[i], m)
    BY <1>7
  <2>2. PICK u \in Int, v \in Int : u = power[i] /\ v = P[i]
    <3>1. P[i] \in Int
      BY DEF IsPower
    <3>2. power[i] \in Int
      BY <2>1
    <3> QED
      BY <3>1, <3>2
  <2>3. PICK a \in Int, b \in Int : a = u * x /\ b = v * x
    OBVIOUS
  <2>4. Same(a, b, m)
    BY <2>1, <2>2, <2>3, SameTimesRight
  <2>5. power[i + 1] = a % m
    BY <1>4, <2>2, <2>3
  <2>6. P[i + 1] = b
    BY <2>2, <2>3 DEF IsPower
  <2>7. a % m \in 0..(m - 1) /\ Same(a % m, a, m)
    BY SameAsRemainder
  <2> QED
    BY <2>4, <2>5, <2>6, <2>7, SameIsEquivalence
<1>8. \A i \in Nat : i \in S
  <2> HIDE DEF S
  <2> QED
    BY <1>6, <1>7, Induction
<1> QED
  BY <1>5, <1>8

\* A factor in Montgomery form stands for its residue.
Stands(v, c, R, m) == v \in 0..(m - 1) /\ Same(v, R * c, m)

\* The product of two of them.
LEMMA TimesStands ==
  ASSUME NEW words \in Nat, NEW R \in Nat \ {0}, R = BaseTo(words),
         NEW m \in Nat \ {0}, NEW mprime, NEW rinv_, Prepared(m, mprime, rinv_, words),
         NEW p, NEW a \in Int, Stands(p, a, R, m),
         NEW q, NEW c \in Int, Stands(q, c, R, m)
  PROVE  Stands(Times(p, q, m, mprime, words), a * c, R, m)
<1>1. p \in Nat /\ p < R /\ q \in 0..(m - 1) /\ Same(q, R * c, m)
  BY DEF Stands, Prepared
<1>2. TimesGives(p, q, c, m, mprime, words)
  BY <1>1, TimesIs
<1>3. PICK r \in 0..(m - 1) : r = Times(p, q, m, mprime, words) /\ Same(r, p * c, m)
  BY <1>2 DEF TimesGives
<1>4. PICK s \in Int : s = R * a
  OBVIOUS
<1>5. PICK t \in Int : t = p * c
  BY <1>1
<1>6. PICK u \in Int : u = s * c
  OBVIOUS
<1>7. Same(t, u, m)
  <2>1. p \in Int /\ Same(p, s, m)
    BY <1>1, <1>4 DEF Stands
  <2>2. PICK n \in Int : n = p /\ Same(n, s, m)
    BY <2>1
  <2>3. Same(n * c, s * c, m)
    <3>1. m \in Int
      OBVIOUS
    <3> QED
      BY <2>2, <3>1, SameTimesRight
  <2> QED
    BY <2>2, <2>3, <1>5, <1>6
<1>8. Same(r, u, m)
  <2>1. Same(r, t, m) /\ r \in Int
    BY <1>3, <1>5
  <2> QED
    BY <2>1, <1>7, SameIsEquivalence
<1>9. u = R * (a * c)
  <2>1. (R * a) * c = R * (a * c)
    OBVIOUS
  <2> QED
    BY <2>1, <1>4, <1>6
<1> QED
  BY <1>3, <1>8, <1>9 DEF Stands

\* A number multiplied with Rinv.
LEMMA IntoForm ==
  ASSUME NEW words \in Nat, NEW R \in Nat \ {0}, R = BaseTo(words),
         NEW m \in Nat \ {0}, NEW mprime, NEW rinv_, Prepared(m, mprime, rinv_, words),
         NEW x \in Nat, x < R
  PROVE  Stands(Times(x, rinv_, m, mprime, words), x, R, m)
<1>1. rinv_ \in 0..(m - 1) /\ Same(rinv_, R * R, m)
  BY DEF Prepared
<1>2. TimesGives(x, rinv_, R, m, mprime, words)
  BY <1>1, TimesIs
<1>3. x * R = R * x
  OBVIOUS
<1> QED
  BY <1>2, <1>3 DEF TimesGives, Stands

\* The accelerator's square and multiply.
Squared(v, xr, e, m, mprime, words) ==
  LET square == Times(v, v, m, mprime, words)
  IN  IF e % 2 = 1 THEN Times(square, xr, m, mprime, words) ELSE square

\* A step of the exponentiation by squaring keeps what its value stands for.
LEMMA SquaredStands ==
  ASSUME NEW words \in Nat, NEW R \in Nat \ {0}, R = BaseTo(words),
         NEW m \in Nat \ {0}, NEW mprime, NEW rinv_, Prepared(m, mprime, rinv_, words),
         NEW x \in Nat, NEW xr, Stands(xr, x, R, m),
         NEW e \in Nat, NEW v, NEW h \in Int, Stands(v, h, R, m)
  PROVE  Stands(Squared(v, xr, e, m, mprime, words),
                IF e % 2 = 1 THEN (h * h) * x ELSE h * h, R, m)
<1>1. PICK s : s = Times(v, v, m, mprime, words)
  OBVIOUS
<1>2. PICK hh \in Int : hh = h * h
  OBVIOUS
<1>3. Stands(s, hh, R, m)
  BY <1>1, <1>2, TimesStands
<1>4. CASE e % 2 = 1
  <2>1. Stands(Times(s, xr, m, mprime, words), hh * x, R, m)
    BY <1>3, TimesStands
  <2> QED
    BY <2>1, <1>1, <1>2, <1>4 DEF Squared
<1>5. CASE e % 2 # 1
  BY <1>1, <1>2, <1>3, <1>5 DEF Squared
<1> QED
  BY <1>4, <1>5

\* What a recursion by halves computes.
LEMMA PowersStand ==
  ASSUME NEW words \in Nat, NEW R \in Nat \ {0}, R = BaseTo(words),
         NEW m \in Nat \ {0}, NEW mprime, NEW rinv_, Prepared(m, mprime, rinv_, words),
         NEW x \in Nat, NEW xr, Stands(xr, x, R, m),
         NEW P, IsPower(P, x), NEW power,
         Stands(power[0], 1, R, m),
         \A e \in Nat \ {0} :
           power[e] = Squared(power[e \div 2], xr, e, m, mprime, words)
  PROVE  \A e \in Nat : Stands(power[e], P[e], R, m)
<1> DEFINE S == {e \in Nat : Stands(power[e], P[e], R, m)}
<1>1. ASSUME NEW e \in Nat, \A i \in 0..(e - 1) : i \in S
      PROVE  e \in S
  <2>1. CASE e = 0
    BY <2>1 DEF IsPower
  <2>2. CASE e # 0
    <3>1. e \div 2 \in 0..(e - 1)
      BY <2>2
    <3>2. PICK i \in Nat : i = e \div 2
      BY <3>1
    <3>3. PICK h \in Int : h = P[i]
      BY DEF IsPower
    <3>4. PICK v : v = power[i]
      OBVIOUS
    <3>5. Stands(v, h, R, m)
      BY <1>1, <3>1, <3>2, <3>3, <3>4
    <3>6. power[e] = Squared(v, xr, e, m, mprime, words)
      BY <2>2, <3>2, <3>4
    <3>7. P[e] = IF e % 2 = 1 THEN (h * h) * x ELSE h * h
      <4>1. Squares(P, e, x)
        BY PowerSquares
      <4> QED
        BY <4>1, <3>2, <3>3 DEF Squares
    <3>8. Stands(power[e], P[e], R, m)
      BY <3>5, <3>6, <3>7, SquaredStands
    <3> QED
      BY <3>8
  <2> QED
    BY <2>1, <2>2
<1>2. \A e \in Nat : e \in S
  <2> HIDE DEF S
  <2> QED
    BY <1>1, StrongInduction
<1> QED
  BY <1>2

\* mbedtls_mpi_exp_mod: the accelerator computes the power's residue.
LEMMA ModExpIs ==
  ASSUME NEW words \in Nat \ {0}, NEW m \in Nat \ {0}, NEW mprime, NEW rinv_,
         Prepared(m, mprime, rinv_, words),
         NEW x \in Nat, x < BaseTo(words), NEW y \in Nat
  PROVE  ModExp(x, y, m, rinv_, mprime, words) = PowerModulo(x, y, m)
<1> DEFINE Product(p, q) == Montgomery(p, q, m, mprime, words)
           power[e \in Nat] ==
             IF e = 0 THEN Product(1, rinv_)
             ELSE LET half   == power[e \div 2]
                      square == Product(half, half)
                  IN  IF e % 2 = 1 THEN Product(square, Product(x, rinv_))
                      ELSE square
           D == 0..(m - 1)
           p == [e \in Nat |-> e \div 2]
           F == [e \in Nat |-> [v \in D |->
                   Squared(v, Times(x, rinv_, m, mprime, words), e, m, mprime, words)]]
<1>1. PICK R \in Nat \ {0} : R = BaseTo(words) /\ x < R /\ 1 < R
  <2>1. words - 1 \in Nat /\ (words - 1) + 1 = words
    OBVIOUS
  <2>2. PICK Q \in Nat \ {0}, B \in Nat \ {0, 1} :
          B = Base /\ BaseTo(words) = Q * B
    BY <2>1, BaseToNext, BaseToType, BaseType
  <2>3. Q * B \in Nat \ {0} /\ Q * 2 <= Q * B
    BY TimesMonotone
  <2>4. 1 < Q * B
    BY <2>3
  <2> QED
    BY <2>2, <2>3, <2>4
<1>2. PICK xr : xr = Times(x, rinv_, m, mprime, words) /\ Stands(xr, x, R, m)
  BY <1>1, IntoForm
<1>3. PICK first : first = Times(1, rinv_, m, mprime, words)
                   /\ Stands(first, 1, R, m)
  BY <1>1, IntoForm
<1>4. ASSUME NEW e \in Nat, NEW v \in D
      PROVE  Squared(v, xr, e, m, mprime, words) \in D
  <2>1. /\ m < R /\ ClearsWords(m, mprime)
        /\ xr \in 0..(m - 1)
    BY <1>1, <1>2 DEF Prepared, Stands
  <2>2. ASSUME NEW a \in 0..(m - 1), NEW b \in 0..(m - 1)
        PROVE  Times(a, b, m, mprime, words) \in 0..(m - 1)
    <3>1. a \in Nat /\ b \in Nat /\ a < R /\ b <= m
      BY <2>1
    <3>2. Reduced(Montgomery(a, b, m, mprime, words), a, b, m, words)
      BY <1>1, <2>1, <3>1, MontgomeryIs
    <3> QED
      BY <3>2 DEF Reduced, Times
  <2> QED
    BY <2>1, <2>2 DEF Squared
<1>5. PICK f \in [Nat -> D] : Solves(f, Nat, first, p, F)
  <2>1. /\ p \in [Nat -> Nat]
        /\ \A e \in Nat \ {0} : p[e] < e
    OBVIOUS
  <2>2. F \in [Nat -> [D -> D]]
    BY <1>2, <1>4
  <2>3. first \in D
    BY <1>3 DEF Stands
  <2> HIDE DEF p, F, D
  <2> QED
    BY <2>1, <2>2, <2>3, Recursion
<1>6. ASSUME NEW e \in Nat
      PROVE  f[e] = IF e = 0 THEN first
                    ELSE Squared(f[e \div 2], xr, e, m, mprime, words)
  <2>1. f[e] = IF e = 0 THEN first ELSE F[e][f[p[e]]]
    <3> HIDE DEF F, p, D
    <3> QED
      BY <1>5 DEF Solves
  <2>2. e \div 2 \in Nat /\ p[e] = e \div 2
    OBVIOUS
  <2>3. f[e \div 2] \in D
    <3> HIDE DEF D
    <3> QED
      BY <2>2
  <2>4. F[e][f[e \div 2]] = Squared(f[e \div 2], xr, e, m, mprime, words)
    <3> HIDE DEF D
    <3> QED
      BY <2>3, <1>2
  <2> QED
    BY <2>1, <2>2, <2>4
<1> HIDE DEF F, p, D
<1>7. f = [e \in Nat |->
             IF e = 0 THEN Product(1, rinv_)
             ELSE LET half   == f[e \div 2]
                      square == Product(half, half)
                  IN  IF e % 2 = 1 THEN Product(square, Product(x, rinv_))
                      ELSE square]
  <2>1. ASSUME NEW e \in Nat
        PROVE  f[e] = IF e = 0 THEN Product(1, rinv_)
                      ELSE LET half   == f[e \div 2]
                               square == Product(half, half)
                           IN  IF e % 2 = 1
                               THEN Product(square, Product(x, rinv_))
                               ELSE square
    BY <1>2, <1>3, <1>6 DEF Squared, Times
  <2> HIDE DEF Product
  <2> QED
    BY <2>1
<1>8. power = [e \in Nat |->
                 IF e = 0 THEN Product(1, rinv_)
                 ELSE LET half   == power[e \div 2]
                          square == Product(half, half)
                      IN  IF e % 2 = 1 THEN Product(square, Product(x, rinv_))
                          ELSE square]
  <2> HIDE DEF Product
  <2> QED
    BY <1>7
<1>9. ModExp(x, y, m, rinv_, mprime, words) = Times(1, power[y], m, mprime, words)
  BY DEF ModExp, Times
<1> HIDE DEF power
<1>10. PICK P : IsPower(P, x)
  BY PowersExist
<1>11. Stands(power[y], P[y], R, m)
  <2>1. power[0] = first
    BY <1>3, <1>8 DEF Times
  <2>2. ASSUME NEW e \in Nat \ {0}
        PROVE  power[e] = Squared(power[e \div 2], xr, e, m, mprime, words)
    BY <1>2, <1>8 DEF Squared, Times
  <2> QED
    BY <1>1, <1>2, <1>3, <1>10, <2>1, <2>2, PowersStand
<1>12. PICK c \in Int, q \in 0..(m - 1) :
         c = P[y] /\ q = power[y] /\ Same(q, R * c, m)
  BY <1>10, <1>11 DEF IsPower, Stands
<1>13. PICK r \in 0..(m - 1) : r = Times(1, q, m, mprime, words) /\ Same(r, c, m)
  <2>1. TimesGives(1, q, c, m, mprime, words)
    BY <1>1, <1>12, TimesIs
  <2>2. 1 * c = c
    OBVIOUS
  <2> QED
    BY <2>1, <2>2 DEF TimesGives
<1>14. PICK s \in 0..(m - 1) : s = PowerModulo(x, y, m) /\ Same(s, c, m)
  BY <1>10, <1>12, PowerModuloIs
<1>15. r = s
  <2>1. Same(r, s, m)
    BY <1>13, <1>14, SameIsEquivalence
  <2> QED
    BY <2>1, SameIsEqual
<1> QED
  BY <1>9, <1>12, <1>13, <1>14, <1>15

-----------------------------------------------------------------------------
(* The lock of the accelerator and the wait for its operations.            *)

Fields == {"on", "running", "interrupt", "mode", "x", "y", "m", "z", "mprime"}

\* Nothing of an operation is left: it does not run, its interrupt is
\* cleared, its semaphore is not given.
Quiet ==
  /\ engine.running = "none"
  /\ engine.interrupt = FALSE
  /\ semaphore # "given"

\* An operation is under way, and what tells of its end is in one place: it
\* still runs, or its interrupt waits, or its semaphore is given.
UnderWay ==
  \/ /\ engine.running # "none"
     /\ engine.interrupt = FALSE
     /\ semaphore # "given"
  \/ /\ engine.running = "none"
     /\ engine.interrupt = TRUE
     /\ semaphore # "given"
  \/ /\ engine.running = "none"
     /\ engine.interrupt = FALSE
     /\ semaphore = "given"

\* One task at most is between acquire and release, and without one the
\* accelerator is off.
LockInv ==
  /\ pc = [t \in Tasks |-> pc[t]]
  /\ \A t \in Tasks : pc[t] \in InHardware <=> mpi_lock = t
  /\ mpi_lock = NoTask => engine = EngineOff

\* A task knows what it uses the accelerator for.
KindInv ==
  /\ kind = [t \in Tasks |-> kind[t]]
  /\ \A t \in Tasks :
       /\ pc[t] \in {"rinv", "acquire"} \cup InHardware =>
            kind[t] \in {"multiply", "failover", "mulmod", "expmod"}

\* Whoever holds the lock finds the accelerator as its place in the code
\* says; whoever takes it finds nothing left of earlier operations.
WaitInv ==
  /\ engine = [f \in Fields |-> engine[f]]
  /\ mpi_lock = NoTask => Quiet
  /\ \A t \in Tasks :
       /\ pc[t] \in InHardware \ {"wait", "wait2"} => Quiet
       /\ pc[t] \in {"wait", "wait2"} => UnderWay

IInv == LockInv /\ KindInv /\ WaitInv

-----------------------------------------------------------------------------

\* The lock, the kinds and the waits are right at the start ...
LEMMA Initially == Init => IInv
<1> SUFFICES ASSUME Init PROVE IInv
  OBVIOUS
<1> USE NoTaskAssumption DEF Init, Idle
<1>1. LockInv
  BY DEF LockInv, InHardware
<1>2. KindInv
  BY DEF KindInv, InHardware
<1>3. WaitInv
  BY DEF WaitInv, Quiet, InHardware, EngineOff, Fields
<1> QED
  BY <1>1, <1>2, <1>3 DEF IInv

\* The loads of the four functions write blocks and registers of the engine
\* and leave the rest of it alone.
LEMMA LoadedFields ==
  ASSUME NEW t \in Tasks, WaitInv,
         kind[t] \in {"multiply", "failover", "mulmod", "expmod"}
  PROVE  Loaded(t) = [f \in Fields |-> Loaded(t)[f]]
<1> DEFINE w == Words(t)
<1> HIDE DEF w
<1>0. engine = [f \in Fields |-> engine[f]]
  BY DEF WaitInv
<1>1. CASE kind[t] = "multiply"
  <2>1. Loaded(t) = LoadedMultiply(t, w)
    BY <1>1 DEF Loaded, w
  <2> QED
    BY <2>1, <1>0 DEF LoadedMultiply, Fields
<1>2. CASE kind[t] = "failover"
  <2>1. Loaded(t) = LoadedFailover(t, w)
    BY <1>2 DEF Loaded, w
  <2> QED
    BY <2>1, <1>0 DEF LoadedFailover, Fields
<1>3. CASE kind[t] = "mulmod"
  <2>1. Loaded(t) = LoadedMulMod(t, w)
    BY <1>3 DEF Loaded, w
  <2> QED
    BY <2>1, <1>0 DEF LoadedMulMod, Fields
<1>4. CASE kind[t] = "expmod"
  <2>1. Loaded(t) = LoadedExpMod(t, w)
    BY <1>4 DEF Loaded, w
  <2>2. LoadedMulMod(t, w) = [f \in Fields |-> LoadedMulMod(t, w)[f]]
    BY <1>0 DEF LoadedMulMod, Fields
  <2> QED
    BY <2>1, <2>2 DEF LoadedExpMod, Fields
<1> QED
  BY <1>1, <1>2, <1>3, <1>4

\* The steps that leave the accelerator alone.
LEMMA ComputingKeeps ==
  ASSUME IInv, NEW t \in Tasks,
         \/ Begin(t) \/ RinvCalculated(t) \/ MultiplyTrivial(t)
         \/ MultiplyOnce(t) \/ MultiplySplits(t) \/ SecondProduct(t)
         \/ SumOfProducts(t) \/ ProductReturns(t) \/ Return(t)
  PROVE  IInv'
<1> USE NoTaskAssumption DEF IInv, LockInv, KindInv, WaitInv, Quiet, UnderWay,
        InHardware, Goto, sharedVars, callVars
<1>1. CASE Begin(t)
  <2>1. PICK j \in Jobs[t] :
          /\ kind' = [kind EXCEPT ![t] = j.op]
          /\ pc[t] = "idle"
          /\ \E l \in {"multiply", "returned", "acquire", "rinv"} :
               /\ pc' = [pc EXCEPT ![t] = l]
               /\ l \in {"acquire", "rinv"} => j.op # "mul"
    BY <1>1 DEF Begin
  <2>2. j.op \in {"mul", "mulmod", "expmod"}
    BY JobsAreCalls DEF Job
  <2>3. UNCHANGED <<mpi_lock, engine, semaphore>>
    BY <1>1 DEF Begin
  <2> QED
    BY <2>1, <2>2, <2>3
<1>2. CASE RinvCalculated(t)
  BY <1>2 DEF RinvCalculated
<1>3. CASE MultiplyTrivial(t)
  BY <1>3 DEF MultiplyTrivial
<1>4. CASE MultiplyOnce(t)
  BY <1>4 DEF MultiplyOnce
<1>5. CASE MultiplySplits(t)
  BY <1>5 DEF MultiplySplits
<1>6. CASE SecondProduct(t)
  BY <1>6 DEF SecondProduct
<1>7. CASE SumOfProducts(t)
  BY <1>7 DEF SumOfProducts
<1>8. CASE ProductReturns(t)
  BY <1>8 DEF ProductReturns
<1>9. CASE Return(t)
  BY <1>9 DEF Return
<1> QED
  BY <1>1, <1>2, <1>3, <1>4, <1>5, <1>6, <1>7, <1>8, <1>9

\* The steps between acquire and release, all of the task that holds the lock.
LEMMA HardwareKeeps ==
  ASSUME IInv, NEW t \in Tasks,
         \/ Acquire(t) \/ PowerOn(t) \/ StartOp(t) \/ WaitOpComplete(t)
         \/ StartSecondStage(t) \/ ReadResult(t) \/ Release(t)
  PROVE  IInv'
<1> USE NoTaskAssumption DEF IInv, LockInv, KindInv, WaitInv, Quiet, UnderWay,
        InHardware, Goto, sharedVars, callVars
<1>1. CASE Acquire(t)
  BY <1>1 DEF Acquire
<1>2. CASE PowerOn(t)
  BY <1>2 DEF PowerOn, EngineOff, Fields
<1>3. CASE StartOp(t)
  <2>1. kind[t] \in {"multiply", "failover", "mulmod", "expmod"} /\ mpi_lock = t
    BY <1>3 DEF StartOp
  <2>2. Loaded(t) = [f \in Fields |-> Loaded(t)[f]]
    BY <2>1, LoadedFields
  <2>3. /\ engine' = [f \in Fields |-> engine'[f]]
        /\ engine'.interrupt = FALSE
        /\ engine'.running # "none"
    BY <1>3, <2>2 DEF StartOp, Fields, StartRegister
  <2> QED
    BY <1>3, <2>1, <2>3 DEF StartOp
<1>4. CASE WaitOpComplete(t)
  <2>1. mpi_lock = t /\ UnderWay
    BY <1>4 DEF WaitOpComplete
  <2>2. Quiet' /\ engine' = [f \in Fields |-> engine'[f]]
    BY <1>4, <2>1 DEF WaitOpComplete, Fields
  <2>3. pc'[t] \in {"load2", "read"} /\ pc' = [pc EXCEPT ![t] = pc'[t]]
    BY <1>4 DEF WaitOpComplete
  <2> QED
    BY <1>4, <2>1, <2>2, <2>3 DEF WaitOpComplete
<1>5. CASE StartSecondStage(t)
  <2>1. /\ engine' = [f \in Fields |-> engine'[f]]
        /\ engine'.interrupt = FALSE
        /\ engine'.running # "none"
    BY <1>5 DEF StartSecondStage, Fields
  <2> QED
    BY <1>5, <2>1 DEF StartSecondStage
<1>6. CASE ReadResult(t)
  BY <1>6 DEF ReadResult
<1>7. CASE Release(t)
  BY <1>7 DEF Release, EngineOff, Fields
<1> QED
  BY <1>1, <1>2, <1>3, <1>4, <1>5, <1>6, <1>7

\* The accelerator and its interrupt, which act for the task that waits.
LEMMA EngineKeeps ==
  ASSUME IInv, EngineCompletes \/ rsa_complete_isr
  PROVE  IInv'
<1> USE NoTaskAssumption DEF IInv, LockInv, KindInv, WaitInv, Quiet, UnderWay,
        InHardware, callVars
<1>1. CASE EngineCompletes
  <2>1. /\ engine' = [f \in Fields |-> engine'[f]]
        /\ engine'.interrupt = TRUE
        /\ engine'.running = "none"
    BY <1>1 DEF EngineCompletes, Fields
  <2> QED
    BY <1>1, <2>1 DEF EngineCompletes
<1>2. CASE rsa_complete_isr
  <2>1. /\ engine' = [f \in Fields |-> engine'[f]]
        /\ engine'.interrupt = FALSE
        /\ engine'.running = engine.running
    BY <1>2 DEF rsa_complete_isr, Fields
  <2> QED
    BY <1>2, <2>1 DEF rsa_complete_isr
<1> QED
  BY <1>1, <1>2

\* The abort starts everything again.
LEMMA TimeoutKeeps ==
  ASSUME IInv, NEW t \in Tasks, WaitTimesOut(t)
  PROVE  IInv'
  BY NoTaskAssumption DEF WaitTimesOut, IInv, LockInv, KindInv, WaitInv, Quiet,
     InHardware, EngineOff, Fields

\* ... and while nothing happens.
LEMMA StutterKeeps == IInv /\ UNCHANGED vars => IInv'
  BY DEF vars, sharedVars, callVars, IInv, LockInv, KindInv, WaitInv, Quiet,
     UnderWay

-----------------------------------------------------------------------------

\* The lock, the registers and the semaphore agree with where the tasks are.
THEOREM Invariance == Spec => []IInv
<1>1. IInv /\ [Next]_vars => IInv'
  <2> SUFFICES ASSUME IInv, [Next]_vars PROVE IInv'
    OBVIOUS
  <2>1. ASSUME NEW t \in Tasks, Begin(t) \/ Step(t) PROVE IInv'
    BY <2>1, ComputingKeeps, HardwareKeeps DEF Step
  <2> QED
    BY <2>1, TimeoutKeeps, EngineKeeps, StutterKeeps DEF Next
<1> QED
  BY <1>1, Initially, PTL DEF Spec

\* The accelerator is used by one task at a time, and is off without one, for
\* any number of tasks (esp_mpi_acquire_hardware, esp_mpi_release_hardware).
THEOREM AcceleratorIsExclusive == Spec => []EngineHasOneUser
<1>1. IInv => EngineHasOneUser
  BY DEF IInv, LockInv, EngineHasOneUser, EngineOff
<1> QED
  BY <1>1, Invariance, PTL

\* No wait ends on what an earlier operation left behind, with the interrupt
\* or with polling (start_op, rsa_complete_isr, wait_op_complete).
THEOREM WaitsAreForOwnOperation == Spec => []WaitMeansDone
<1>1. IInv => WaitMeansDone
  BY DEF IInv, WaitInv, WaitMeansDone, Quiet, InHardware
<1> QED
  BY <1>1, Invariance, PTL

-----------------------------------------------------------------------------
(* What one call makes of its operands, as a function of the variables of  *)
(* its task: kind, factors, job and rinv.                                  *)

View(t) ==
  [pc |-> pc[t], job |-> job[t], stack |-> stack[t], factors |-> factors[t],
   kind |-> kind[t], out |-> out[t], ret |-> ret[t], rinv |-> rinv[t]]

Size(v) ==
  CASE v.kind = "multiply" -> 2 * WordsMult(v.factors[1], v.factors[2])
    [] v.kind = "failover" -> WordsSum(v.factors[1], v.factors[2])
    [] v.kind = "mulmod"   -> hardware_words_needed(v.job.m)
    [] v.kind = "expmod"   -> ExpWords(v.job)

Modulus(v) ==
  IF v.kind = "failover" THEN BaseTo(Size(v)) - 1
  ELSE mpi_to_mem_block(v.job.m, Size(v))

Mprime(v) ==
  IF v.kind = "failover" THEN 1 ELSE modular_inverse(v.job.m)

\* The result of the first start of the accelerator.
First(v) ==
  LET w == Size(v)
      Block(n) == mpi_to_mem_block(n, w)
      Half(n)  == mpi_to_mem_block(n, w \div 2)
  IN  CASE v.kind = "multiply" ->
             Multiplier(Half(v.factors[1]),
                        Half(v.factors[2]) * BaseTo(w \div 2), w)
        [] v.kind = "failover" ->
             Montgomery(Block(v.factors[1]), 1, Modulus(v), Mprime(v), w)
        [] v.kind = "mulmod" ->
             Montgomery(Block(v.factors[1]), Block(v.rinv), Modulus(v),
                        Mprime(v), w)
        [] v.kind = "expmod" ->
             ModExp(Block(v.factors[1]), Block(v.factors[2]), Modulus(v),
                    Block(v.rinv), Mprime(v), w)

TwoStaged(v) == v.kind \in {"failover", "mulmod"}

\* The result of the last.
Final(v) ==
  IF TwoStaged(v)
  THEN Montgomery(mpi_to_mem_block(v.factors[2], Size(v)), First(v),
                  Modulus(v), Mprime(v), Size(v))
  ELSE First(v)

Answer(v) ==
  Final(v) * (IF v.kind = "expmod" THEN Sign(v.job.z)
              ELSE Sign(v.factors[1]) * Sign(v.factors[2]))

\* A block holds a number that is short enough.
LEMMA BlockHolds ==
  ASSUME NEW v \in Int, NEW w \in Nat, Magnitude(v) < BaseTo(w)
  PROVE  mpi_to_mem_block(v, w) = Magnitude(v)
<1>1. PICK R \in Nat \ {0}, n \in Nat : R = BaseTo(w) /\ n = Magnitude(v)
  BY BaseToType, MagnitudeType
<1>2. n % R = n
  BY <1>1
<1> QED
  BY <1>1, <1>2 DEF mpi_to_mem_block

\* The product of two numbers is that of magnitudes and signs.
LEMMA SignsMultiply ==
  ASSUME NEW x \in Int, NEW y \in Int
  PROVE  (Magnitude(x) * Magnitude(y)) * (Sign(x) * Sign(y)) = x * y
<1>1. \A a, b \in Int : /\ (a * b) * (1 * 1) = a * b
                        /\ ((-a) * b) * ((-1) * 1) = a * b
                        /\ (a * (-b)) * (1 * (-1)) = a * b
                        /\ ((-a) * (-b)) * ((-1) * (-1)) = a * b
  OBVIOUS
<1> QED
  BY <1>1 DEF Magnitude, Sign

\* The sizes of the products.
LEMMA BitsFit ==
  ASSUME NEW v \in Int, NEW w \in Nat, bitlen(v) <= LimbBits * w
  PROVE  Magnitude(v) < BaseTo(w)
<1>1. LimbBits * w \in Nat
  BY SizesArePositive
<1>2. PICK b \in Nat : b = bitlen(v) /\ Magnitude(v) < TwoTo[b]
  BY BitlenIs
<1>3. TwoTo[b] <= TwoTo[LimbBits * w]
  BY <1>1, <1>2, TwoToMonotone
<1>4. Magnitude(v) \in Nat /\ TwoTo[b] \in Nat /\ TwoTo[LimbBits * w] \in Nat
  BY <1>1, <1>2, MagnitudeType, TwoToType
<1> QED
  BY <1>2, <1>3, <1>4 DEF BaseTo

\* WordsMult limbs are enough for either factor.
LEMMA WordsMultIs ==
  ASSUME NEW x \in Int, NEW y \in Int
  PROVE  /\ WordsMult(x, y) \in Nat /\ Blocks(WordsMult(x, y))
         /\ Magnitude(x) < BaseTo(WordsMult(x, y))
         /\ Magnitude(y) < BaseTo(WordsMult(x, y))
         /\ Magnitude(x) > 0 => WordsMult(x, y) > 0
<1> DEFINE bx == bitlen(x)
           by == bitlen(y)
           hx == bits_to_hardware_words(bx)
           hy == bits_to_hardware_words(by)
           w  == WordsMult(x, y)
<1>1. bx \in Nat /\ by \in Nat
  BY BitlenIs
<1>2. /\ hx \in Nat /\ Blocks(hx) /\ bx <= LimbBits * hx /\ (bx > 0 => hx > 0)
      /\ hy \in Nat /\ Blocks(hy) /\ by <= LimbBits * hy
  BY <1>1, HardwareWords
<1>3. w = Larger(hx, hy)
  BY DEF WordsMult
<1>4. Magnitude(x) > 0 => bx > 0
  <2>1. bx = 0 => Magnitude(x) < 1
    BY BitlenIs, TwoToIs
  <2>2. Magnitude(x) \in Nat
    BY MagnitudeType
  <2> QED
    BY <1>1, <2>1, <2>2
<1> HIDE DEF bx, by, hx, hy, w
<1>5. w \in Nat /\ w >= hx /\ w >= hy /\ Blocks(w)
  BY <1>2, <1>3 DEF Larger
<1>6. LimbBits * hx <= LimbBits * w /\ LimbBits * hy <= LimbBits * w
  BY <1>2, <1>5, TimesMonotone, SizesArePositive
<1>7. bx <= LimbBits * w /\ by <= LimbBits * w
  <2>1. LimbBits * hx \in Int /\ LimbBits * hy \in Int /\ LimbBits * w \in Int
    BY <1>2, <1>5, SizesArePositive
  <2> QED
    BY <1>1, <1>2, <1>6, <2>1
<1>8. Magnitude(x) < BaseTo(w) /\ Magnitude(y) < BaseTo(w)
  BY <1>5, <1>7, BitsFit DEF bx, by
<1>9. Magnitude(x) > 0 => w > 0
  BY <1>1, <1>2, <1>4, <1>5
<1> QED
  BY <1>5, <1>8, <1>9 DEF w

\* WordsSum limbs are enough for the product, with room below the modulus
\* Base^words - 1 of the failover.
LEMMA WordsSumIs ==
  ASSUME NEW x \in Int, NEW y \in Int, Magnitude(x) > 1, Magnitude(y) > 1
  PROVE  /\ WordsSum(x, y) \in Nat \ {0} /\ Blocks(WordsSum(x, y))
         /\ Magnitude(x) < BaseTo(WordsSum(x, y))
         /\ Magnitude(y) < BaseTo(WordsSum(x, y))
         /\ Magnitude(x) * Magnitude(y) < BaseTo(WordsSum(x, y)) - 1
<1>1. PICK bx \in Nat, by \in Nat : bx = bitlen(x) /\ by = bitlen(y)
  BY BitlenIs
<1>2. PICK a \in Nat \ {0}, b \in Nat \ {0} : a = TwoTo[bx] /\ b = TwoTo[by]
  BY TwoToType
<1>3. PICK p \in Nat, q \in Nat : /\ p = Magnitude(x) /\ q = Magnitude(y)
                                  /\ p > 1 /\ q > 1
  BY MagnitudeType
<1>4. p < a /\ q < b
  BY <1>1, <1>2, <1>3, BitlenIs
<1>5. PICK bits \in Nat : bits = bx + by /\ bits > 0
  <2>1. bx = 0 => a = 1
    BY <1>2, TwoToIs
  <2> QED
    BY <1>3, <1>4, <2>1
<1>6. PICK w \in Nat \ {0} : /\ w = WordsSum(x, y) /\ Blocks(w)
                             /\ bits <= LimbBits * w
  BY <1>1, <1>5, HardwareWords DEF WordsSum
<1>7. PICK R \in Nat \ {0} : R = BaseTo(w)
  BY BaseToType
<1>8. a * b <= R
  <2>1. TwoTo[bits] = a * b
    BY <1>2, <1>5, TwoToSum
  <2>2. LimbBits * w \in Nat
    BY SizesArePositive
  <2> QED
    BY <1>6, <1>7, <2>1, <2>2, TwoToMonotone DEF BaseTo
<1>9. p * q < R - 1 /\ p < R /\ q < R
  <2>1. q * p <= q * (a - 1)
    BY <1>4, TimesMonotone
  <2>2. (a - 1) * q <= (a - 1) * (b - 1)
    BY <1>4, TimesMonotone
  <2>3. /\ q * p = p * q /\ q * (a - 1) = (a - 1) * q
        /\ (a - 1) * (b - 1) = a * b - a - b + 1
    OBVIOUS
  <2>4. p * q \in Int /\ (a - 1) * q \in Int /\ a * b \in Int
    OBVIOUS
  <2>5. p * q <= a * b - a - b + 1
    BY <2>1, <2>2, <2>3, <2>4
  <2>6. p * q < R - 1
    BY <1>3, <1>4, <1>8, <2>4, <2>5
  <2>7. p * 1 <= p * q /\ q * 1 <= q * p
    BY <1>3, TimesMonotone
  <2> QED
    BY <2>3, <2>4, <2>6, <2>7
<1> QED
  BY <1>3, <1>6, <1>7, <1>9

\* The two operands of a product.
Factored(v) == v.factors[1] \in Int /\ v.factors[2] \in Int

\* A product on the multiplier, or modulo a number that is larger.
LEMMA MultiplyAnswer ==
  ASSUME NEW v, Factored(v), v.kind = "multiply"
  PROVE  Answer(v) = v.factors[1] * v.factors[2]
<1>1. PICK x \in Int, y \in Int : x = v.factors[1] /\ y = v.factors[2]
  BY DEF Factored
<1>2. PICK h \in Nat : /\ h = WordsMult(x, y)
                       /\ Magnitude(x) < BaseTo(h) /\ Magnitude(y) < BaseTo(h)
  BY WordsMultIs
<1>3. Size(v) = 2 * h /\ (2 * h) \div 2 = h
  BY <1>1, <1>2 DEF Size
<1>4. mpi_to_mem_block(x, h) = Magnitude(x) /\ mpi_to_mem_block(y, h) = Magnitude(y)
  BY <1>2, BlockHolds
<1>5. First(v) = Multiplier(Magnitude(x), Magnitude(y) * BaseTo(h), 2 * h)
  BY <1>1, <1>3, <1>4 DEF First
<1>6. First(v) = Magnitude(x) * Magnitude(y)
  BY <1>5, MultiplierIs, MagnitudeType
<1>7. Answer(v) = (Magnitude(x) * Magnitude(y)) * (Sign(x) * Sign(y))
  BY <1>1, <1>6 DEF Answer, Final, TwoStaged
<1> QED
  BY <1>1, <1>7, SignsMultiply

\* The failover, a product modulo Base^words - 1, is the product.
LEMMA FailoverAnswer ==
  ASSUME NEW v, Factored(v), v.kind = "failover",
         Magnitude(v.factors[1]) > 1, Magnitude(v.factors[2]) > 1
  PROVE  Answer(v) = v.factors[1] * v.factors[2]
<1>1. PICK x \in Int, y \in Int : x = v.factors[1] /\ y = v.factors[2]
  BY DEF Factored
<1>2. PICK w \in Nat \ {0} :
        /\ w = WordsSum(x, y)
        /\ Magnitude(x) < BaseTo(w) /\ Magnitude(y) < BaseTo(w)
        /\ Magnitude(x) * Magnitude(y) < BaseTo(w) - 1
  BY <1>1, WordsSumIs
<1>3. Size(v) = w /\ Modulus(v) = BaseTo(w) - 1 /\ Mprime(v) = 1
  BY <1>1, <1>2 DEF Size, Modulus, Mprime
<1>4. mpi_to_mem_block(x, w) = Magnitude(x) /\ mpi_to_mem_block(y, w) = Magnitude(y)
  BY <1>2, BlockHolds
<1>5. First(v) = Montgomery(Magnitude(x), 1, BaseTo(w) - 1, 1, w)
  BY <1>1, <1>3, <1>4 DEF First
<1>6. Final(v) = Montgomery(Magnitude(y), First(v), BaseTo(w) - 1, 1, w)
  BY <1>1, <1>3, <1>4 DEF Final, TwoStaged
<1>7. Final(v) = Magnitude(x) * Magnitude(y)
  BY <1>2, <1>5, <1>6, FailoverIs, MagnitudeType
<1>8. Answer(v) = (Magnitude(x) * Magnitude(y)) * (Sign(x) * Sign(y))
  BY <1>1, <1>7 DEF Answer
<1> QED
  BY <1>1, <1>8, SignsMultiply

\* What the modular functions prepare.
LEMMA PreparedIs ==
  ASSUME NEW m \in Nat \ {0}, m % 2 = 1, NEW w \in Nat, m < BaseTo(w)
  PROVE  /\ Prepared(m, modular_inverse(m), calculate_rinv(m, w), w)
         /\ mpi_to_mem_block(m, w) = m
         /\ mpi_to_mem_block(calculate_rinv(m, w), w) = calculate_rinv(m, w)
<1>1. Odd(m)
  <2>1. m = 2 * (m \div 2) + 1 /\ m \div 2 \in Int
    OBVIOUS
  <2> QED
    BY <2>1 DEF Odd
<1>2. Magnitude(m) = m
  BY DEF Magnitude
<1>3. ClearsWords(m, modular_inverse(m))
  BY <1>1, <1>2, MprimeIs
<1>4. PICK r \in 0..(m - 1) :
        r = calculate_rinv(m, w) /\ Same(r, BaseTo(w) * BaseTo(w), m)
  BY RinvIs
<1>5. Magnitude(r) = r /\ r < BaseTo(w)
  <2>1. BaseTo(w) \in Nat
    BY BaseToType
  <2> QED
    BY <2>1 DEF Magnitude
<1>6. mpi_to_mem_block(m, w) = m /\ mpi_to_mem_block(r, w) = r
  BY <1>2, <1>5, BlockHolds
<1> QED
  BY <1>1, <1>3, <1>4, <1>6 DEF Prepared

\* mulmod: a residue of the product.
LEMMA MulModAnswer ==
  ASSUME NEW v, Factored(v), v.kind = "mulmod", NEW m \in Nat \ {0}, m = v.job.m,
         m % 2 = 1, v.rinv = calculate_rinv(m, Size(v)),
         Magnitude(v.factors[1]) < BaseTo(hardware_words_needed(m)),
         Magnitude(v.factors[2]) < BaseTo(hardware_words_needed(m))
  PROVE  /\ (Answer(v) - v.factors[1] * v.factors[2]) % m = 0
         /\ Magnitude(Answer(v)) < m
<1>1. PICK x \in Int, y \in Int : x = v.factors[1] /\ y = v.factors[2]
  BY DEF Factored
<1>2. PICK w \in Nat : w = hardware_words_needed(m) /\ m < BaseTo(w)
  <2>1. Magnitude(m) = m
    BY DEF Magnitude
  <2> QED
    BY <2>1, WordsNeeded
<1>3. Size(v) = w
  BY <1>2 DEF Size
<1>4. /\ Prepared(m, modular_inverse(m), v.rinv, w)
      /\ mpi_to_mem_block(m, w) = m /\ mpi_to_mem_block(v.rinv, w) = v.rinv
  BY <1>2, <1>3, PreparedIs
<1>5. mpi_to_mem_block(x, w) = Magnitude(x) /\ mpi_to_mem_block(y, w) = Magnitude(y)
  BY <1>1, <1>2, BlockHolds
<1>6. Modulus(v) = m /\ Mprime(v) = modular_inverse(m)
  BY <1>3, <1>4 DEF Modulus, Mprime
<1>7. First(v) = Montgomery(Magnitude(x), v.rinv, m, modular_inverse(m), w)
  BY <1>1, <1>3, <1>4, <1>5, <1>6 DEF First
<1>8. Final(v) = Montgomery(Magnitude(y), First(v), m, modular_inverse(m), w)
  BY <1>1, <1>3, <1>5, <1>6 DEF Final, TwoStaged
<1>9. PICK p \in Nat, q \in Nat : /\ p = Magnitude(x) /\ q = Magnitude(y)
                                  /\ p < BaseTo(w) /\ q < BaseTo(w)
  BY <1>1, <1>2, MagnitudeType
<1>10. PICK r \in 0..(m - 1) : r = Final(v) /\ Same(r, p * q, m)
  BY <1>4, <1>7, <1>8, <1>9, MulModIs
<1>11. PICK s \in {1, -1} : s = Sign(x) * Sign(y)
  BY DEF Sign
<1>12. Answer(v) = r * s
  BY <1>1, <1>10, <1>11 DEF Answer
<1>13. x * y = (p * q) * s
  BY <1>9, <1>11, SignsMultiply
<1>14. (r * s - (p * q) * s) % m = 0
  <2>1. PICK e \in Int : e = p * q
    OBVIOUS
  <2>2. Same(r * s, e * s, m)
    BY <1>10, <2>1, SameTimesRight
  <2>3. PICK a \in Int, b \in Int : a = r * s /\ b = e * s
    OBVIOUS
  <2>4. (a - b) % m = 0
    BY <2>2, <2>3, SameDifference
  <2> QED
    BY <2>1, <2>3, <2>4
<1>15. Magnitude(r * s) < m
  BY DEF Magnitude
<1> QED
  BY <1>1, <1>12, <1>13, <1>14, <1>15

\* ExpWords limbs are enough for every number of an exponentiation.
LEMMA ExpWordsIs ==
  ASSUME NEW j, j.x \in Int, j.y \in Int, j.z \in Int, j.m \in Int
  PROVE  /\ ExpWords(j) \in Nat \ {0} /\ Blocks(ExpWords(j))
         /\ Magnitude(j.x) < BaseTo(ExpWords(j))
         /\ Magnitude(j.y) < BaseTo(ExpWords(j))
         /\ Magnitude(j.m) < BaseTo(ExpWords(j))
<1>1. PICK wz \in Nat \ {0}, wx \in Nat \ {0}, wy \in Nat \ {0}, wm \in Nat \ {0} :
        /\ wz = hardware_words_needed(j.z) /\ Blocks(wz)
        /\ wx = hardware_words_needed(j.x) /\ Blocks(wx)
        /\ wy = hardware_words_needed(j.y) /\ Blocks(wy)
        /\ wm = hardware_words_needed(j.m) /\ Blocks(wm)
        /\ Magnitude(j.x) < BaseTo(wx)
        /\ Magnitude(j.y) < BaseTo(wy)
        /\ Magnitude(j.m) < BaseTo(wm)
  BY WordsNeeded
<1>2. PICK w \in Nat \ {0} : /\ w = ExpWords(j) /\ Blocks(w)
                             /\ w >= wx /\ w >= wy /\ w >= wm
  BY <1>1 DEF ExpWords, Larger
<1>3. ASSUME NEW u \in Nat, NEW n \in Int, Magnitude(n) < BaseTo(u), u <= w
      PROVE  Magnitude(n) < BaseTo(w)
  <2>1. LimbBits * u <= LimbBits * w /\ LimbBits * u \in Nat /\ LimbBits * w \in Nat
    BY <1>3, TimesMonotone, SizesArePositive
  <2>2. BaseTo(u) <= BaseTo(w)
    BY <2>1, TwoToMonotone DEF BaseTo
  <2>3. BaseTo(u) \in Nat /\ BaseTo(w) \in Nat /\ Magnitude(n) \in Nat
    BY BaseToType, MagnitudeType
  <2> QED
    BY <1>3, <2>2, <2>3
<1> QED
  BY <1>1, <1>2, <1>3

\* expmod: the power.
LEMMA ExpModAnswer ==
  ASSUME NEW v, v.kind = "expmod",
         v.factors[1] = v.job.x, v.factors[2] = v.job.y,
         v.job.x \in Nat, v.job.y \in Nat, v.job.z \in Nat,
         NEW m \in Nat \ {0}, m = v.job.m, m % 2 = 1,
         v.rinv = calculate_rinv(m, ExpWords(v.job))
  PROVE  Answer(v) = PowerModulo(v.job.x, v.job.y, m)
<1>1. PICK x \in Nat, y \in Nat : x = v.job.x /\ y = v.job.y
  OBVIOUS
<1>2. Magnitude(x) = x /\ Magnitude(y) = y /\ Magnitude(m) = m
  BY DEF Magnitude
<1>3. PICK w \in Nat \ {0} : /\ w = ExpWords(v.job)
                             /\ x < BaseTo(w) /\ y < BaseTo(w) /\ m < BaseTo(w)
  BY <1>1, <1>2, ExpWordsIs
<1>4. Size(v) = w
  BY <1>3 DEF Size
<1>5. /\ Prepared(m, modular_inverse(m), v.rinv, w)
      /\ mpi_to_mem_block(m, w) = m /\ mpi_to_mem_block(v.rinv, w) = v.rinv
  BY <1>3, PreparedIs
<1>6. mpi_to_mem_block(x, w) = x /\ mpi_to_mem_block(y, w) = y
  BY <1>2, <1>3, BlockHolds
<1>7. First(v) = ModExp(x, y, m, v.rinv, modular_inverse(m), w)
  BY <1>1, <1>4, <1>5, <1>6 DEF First, Modulus, Mprime
<1>8. First(v) = PowerModulo(x, y, m)
  BY <1>3, <1>5, <1>7, ModExpIs
<1>9. Answer(v) = First(v) * 1
  BY DEF Answer, Final, TwoStaged, Sign
<1>10. First(v) \in Int
  <2>1. PICK P : IsPower(P, x)
    BY PowersExist
  <2>2. PowerModulo(x, y, m) \in 0..(m - 1)
    BY <2>1, PowerModuloIs
  <2> QED
    BY <1>8, <2>2
<1> QED
  BY <1>1, <1>8, <1>9, <1>10

-----------------------------------------------------------------------------
(* The split of a long product.                                            *)

Frame == [x : Int, y : Int, low : Int, second : BOOLEAN,
          place : Places \X Places]

\* A factor the multiplier takes.
Short(x) == bits_to_hardware_words(bitlen(x)) <= MulBlocks * BlockLimbs

\* Of a product that was split, Y is not Z, and X is only if it will not be
\* split itself.
Whole(f) ==
  /\ f.place[2] = "own"
  /\ \/ f.place[1] = "own"
     \/ f.place[1] = "same" /\ Magnitude(f.x) > 1 /\ Short(f.x)

\* The product an activation waits for.
Part(f) == f.x * (IF f.second THEN Ypp(f.y) ELSE Yp(f.y))

\* What the innermost product has to be.
Goal(s, j) == IF s = <<>> THEN j.x * j.y ELSE Part(s[1])

\* Every activation's own product is the part its caller waits for, the lower
\* part is known once the upper one is computed, and no limbs are lost.
Chain(s, j) ==
  \A i \in 1..Len(s) :
    /\ s[i].x * s[i].y = IF i = Len(s) THEN j.x * j.y ELSE Part(s[i + 1])
    /\ s[i].second => s[i].low = s[i].x * Yp(s[i].y)
    /\ Whole(s[i])

\* Without a split, the call waits for the product of its own operands.
LEMMA EmptyChain ==
  ASSUME NEW j
  PROVE  /\ <<>> \in Seq(Frame) /\ Chain(<<>>, j) /\ Goal(<<>>, j) = j.x * j.y
  BY DEF Chain, Goal

\* The two parts of a number make the number.
LEMMA PartsAdd ==
  ASSUME NEW y \in Int
  PROVE  /\ Slice(y) \in Nat \ {0} /\ Yp(y) \in Int /\ Ypp(y) \in Int
         /\ Yp(y) + Ypp(y) * Slice(y) = y
<1>1. PICK b \in Nat : b = bitlen(y)
  BY BitlenIs
<1>2. PICK l \in Nat : l = Limbs(y) \div 2
  <2>1. PICK q \in Nat : RoundedUp(b, LimbBits) = q * LimbBits
    BY RoundedUpIs, SizesArePositive
  <2>2. PICK L \in Nat \ {0} : L = LimbBits
    BY SizesArePositive
  <2>3. PICK p \in Nat : p = RoundedUp(b, L)
    BY <2>1, <2>2
  <2>4. PICK d \in Nat : d = p \div L
    BY <2>3, DivisionNat
  <2>5. d \div 2 \in Nat
    OBVIOUS
  <2>6. Limbs(y) = d
    BY <1>1, <2>2, <2>3, <2>4 DEF Limbs
  <2> QED
    BY <2>5, <2>6
<1>3. PICK R \in Nat \ {0} : R = Slice(y)
  BY <1>1, <1>2, BaseToType DEF Slice
<1>4. PICK n \in Nat, g \in {1, -1} : /\ n = Magnitude(y) /\ g = Sign(y)
                                      /\ g * n = y
  <2>1. Sign(y) \in {1, -1}
    BY DEF Sign
  <2> QED
    BY <2>1, MagnitudeType
<1>5. PICK r \in Int, q \in Int : /\ r = n % R /\ q = n \div R
                                  /\ n = R * q + r
  BY Division
<1>6. Yp(y) = g * r /\ Ypp(y) = g * q
  BY <1>3, <1>4, <1>5 DEF Yp, Ypp
<1>7. g * r + (g * q) * R = g * n
  <2>1. (g * q) * R = g * (R * q) /\ g * r + g * (R * q) = g * (R * q + r)
    OBVIOUS
  <2> QED
    BY <1>5, <2>1
<1> QED
  BY <1>3, <1>4, <1>6, <1>7

\* A split replaces the product that is waited for by X * Yp ...
LEMMA PushKeeps ==
  ASSUME NEW j, NEW s \in Seq(Frame), Chain(s, j), NEW f \in Frame,
         ~f.second, f.x * f.y = Goal(s, j), Whole(f)
  PROVE  /\ <<f>> \o s \in Seq(Frame) /\ Chain(<<f>> \o s, j)
         /\ Goal(<<f>> \o s, j) = f.x * Yp(f.y)
<1> DEFINE p == <<f>> \o s
<1>1. /\ p \in Seq(Frame) /\ Len(p) = Len(s) + 1 /\ p[1] = f
      /\ \A i \in 1..Len(s) : p[i + 1] = s[i]
  OBVIOUS
<1>2. p # <<>> /\ (s = <<>> <=> Len(s) = 0) /\ Len(s) \in Nat
  BY <1>1
<1> HIDE DEF p
<1>3. ASSUME NEW i \in 1..Len(p)
      PROVE  /\ p[i].x * p[i].y = IF i = Len(p) THEN j.x * j.y ELSE Part(p[i + 1])
             /\ p[i].second => p[i].low = p[i].x * Yp(p[i].y)
             /\ Whole(p[i])
  <2>1. CASE i = 1
    <3>1. CASE Len(s) = 0
      BY <2>1, <3>1, <1>1, <1>2 DEF Goal
    <3>2. CASE Len(s) # 0
      <4>1. p[i + 1] = s[1] /\ i # Len(p)
        BY <2>1, <3>2, <1>1, <1>2
      <4> QED
        BY <4>1, <2>1, <3>2, <1>1, <1>2 DEF Goal
    <3> QED
      BY <3>1, <3>2
  <2>2. CASE i # 1
    <3>1. PICK k \in 1..Len(s) : k + 1 = i
      <4>1. i - 1 \in 1..Len(s) /\ (i - 1) + 1 = i
        BY <2>2, <1>1, <1>2
      <4> QED
        BY <4>1
    <3>2. p[i] = s[k]
      BY <3>1, <1>1
    <3>3. k # Len(s) => p[i + 1] = s[k + 1] /\ i # Len(p)
      <4> SUFFICES ASSUME k # Len(s) PROVE p[i + 1] = s[k + 1] /\ i # Len(p)
        OBVIOUS
      <4>1. k + 1 \in 1..Len(s) /\ i + 1 = (k + 1) + 1
        BY <3>1, <1>2
      <4> QED
        BY <4>1, <3>1, <1>1, <1>2
    <3>4. k = Len(s) => i = Len(p)
      BY <3>1, <1>1
    <3> QED
      BY <3>2, <3>3, <3>4 DEF Chain
  <2> QED
    BY <2>1, <2>2
<1>4. Chain(p, j)
  BY <1>3 DEF Chain
<1>5. Goal(p, j) = f.x * Yp(f.y)
  BY <1>1, <1>2 DEF Goal, Part
<1> QED
  BY <1>1, <1>4, <1>5 DEF p

\* ... and its end by the product that was split.
LEMMA PopKeeps ==
  ASSUME NEW j, NEW s \in Seq(Frame), Chain(s, j), s # <<>>
  PROVE  /\ Tail(s) \in Seq(Frame) /\ Chain(Tail(s), j)
         /\ Head(s) \in Frame
         /\ Head(s).x * Head(s).y = Goal(Tail(s), j)
         /\ Head(s).second => Head(s).low = Head(s).x * Yp(Head(s).y)
         /\ Whole(Head(s))
         /\ Goal(s, j) = Part(Head(s))
<1> DEFINE r == Tail(s)
<1>1. /\ r \in Seq(Frame) /\ Len(r) = Len(s) - 1 /\ Head(s) = s[1]
      /\ \A i \in 1..Len(r) : r[i] = s[i + 1]
      /\ Len(s) \in Nat \ {0} /\ s[1] \in Frame
  OBVIOUS
<1>2. r = <<>> <=> Len(r) = 0
  <2>1. \A q \in Seq(Frame) : q = <<>> <=> Len(q) = 0
    OBVIOUS
  <2> HIDE DEF r
  <2> QED
    BY <1>1, <2>1
<1> HIDE DEF r
<1>3. ASSUME NEW i \in 1..Len(r)
      PROVE  /\ r[i].x * r[i].y = IF i = Len(r) THEN j.x * j.y ELSE Part(r[i + 1])
             /\ r[i].second => r[i].low = r[i].x * Yp(r[i].y)
             /\ Whole(r[i])
  <2>1. i + 1 \in 1..Len(s) /\ r[i] = s[i + 1]
    BY <1>1
  <2>2. i # Len(r) => r[i + 1] = s[(i + 1) + 1] /\ i + 1 # Len(s)
    <3> SUFFICES ASSUME i # Len(r)
                 PROVE  r[i + 1] = s[(i + 1) + 1] /\ i + 1 # Len(s)
      OBVIOUS
    <3>1. i + 1 \in 1..Len(r)
      BY <1>1
    <3> QED
      BY <3>1, <1>1
  <2>3. i = Len(r) => i + 1 = Len(s)
    BY <1>1
  <2> QED
    BY <2>1, <2>2, <2>3 DEF Chain
<1>4. Chain(r, j)
  BY <1>3 DEF Chain
<1>5. /\ s[1].x * s[1].y = IF 1 = Len(s) THEN j.x * j.y ELSE Part(s[1 + 1])
      /\ s[1].second => s[1].low = s[1].x * Yp(s[1].y)
      /\ Whole(s[1])
  <2>1. 1 \in 1..Len(s)
    BY <1>1
  <2> QED
    BY <2>1 DEF Chain
<1>6. s[1].x * s[1].y = Goal(r, j)
  <2>1. CASE Len(r) = 0
    BY <2>1, <1>1, <1>2, <1>5 DEF Goal
  <2>2. CASE Len(r) # 0
    <3>1. r[1] = s[1 + 1] /\ 1 # Len(s)
      BY <2>2, <1>1
    <3> QED
      BY <3>1, <2>2, <1>2, <1>5 DEF Goal
  <2> QED
    BY <2>1, <2>2
<1>7. Goal(s, j) = Part(s[1])
  BY DEF Goal
<1> QED
  BY <1>1, <1>4, <1>5, <1>6, <1>7 DEF r

\* The upper part comes second.
LEMMA SecondKeeps ==
  ASSUME NEW j, NEW s \in Seq(Frame), Chain(s, j), s # <<>>, NEW f \in Frame,
         f.x = Head(s).x, f.y = Head(s).y, f.second, f.low = f.x * Yp(f.y),
         Whole(f)
  PROVE  /\ <<f>> \o Tail(s) \in Seq(Frame) /\ Chain(<<f>> \o Tail(s), j)
         /\ Goal(<<f>> \o Tail(s), j) = f.x * Ypp(f.y)
<1> DEFINE p == <<f>> \o Tail(s)
<1>1. /\ p \in Seq(Frame) /\ Len(p) = Len(s) /\ p[1] = f /\ Head(s) = s[1]
      /\ \A i \in 2..Len(s) : p[i] = s[i]
      /\ Len(s) \in Nat \ {0}
  OBVIOUS
<1>2. p # <<>>
  BY <1>1
<1> HIDE DEF p
<1>3. ASSUME NEW i \in 1..Len(p)
      PROVE  /\ p[i].x * p[i].y = IF i = Len(p) THEN j.x * j.y ELSE Part(p[i + 1])
             /\ p[i].second => p[i].low = p[i].x * Yp(p[i].y)
             /\ Whole(p[i])
  <2>1. /\ s[i].x * s[i].y = IF i = Len(s) THEN j.x * j.y ELSE Part(s[i + 1])
        /\ s[i].second => s[i].low = s[i].x * Yp(s[i].y)
        /\ Whole(s[i])
    BY <1>1 DEF Chain
  <2>2. p[i].x = s[i].x /\ p[i].y = s[i].y
    BY <1>1
  <2>3. i # Len(p) => p[i + 1] = s[i + 1]
    BY <1>1
  <2>4. p[i].second => p[i].low = p[i].x * Yp(p[i].y)
    <3>1. CASE i = 1
      BY <3>1, <1>1
    <3>2. CASE i # 1
      BY <3>2, <1>1, <2>1
    <3> QED
      BY <3>1, <3>2
  <2>5. Whole(p[i])
    <3>1. CASE i = 1
      BY <3>1, <1>1
    <3>2. CASE i # 1
      BY <3>2, <1>1, <2>1
    <3> QED
      BY <3>1, <3>2
  <2> QED
    BY <1>1, <2>1, <2>2, <2>3, <2>4, <2>5
<1>4. Chain(p, j)
  BY <1>3 DEF Chain
<1> QED
  BY <1>1, <1>2, <1>4 DEF Goal, Part, p

-----------------------------------------------------------------------------
(* Where a call is and what it has.                                        *)

AtEngine == {"acquire"} \cup InHardware

\* Only products that may be computed where their result goes are followed ...
Followed(v) == v.job.op = "mul" => InPlaceIsRight(v.job)

\* ... and only modular multiplications whose modulus the accelerator takes.
Usable(v) == Followed(v) /\ (v.kind = "mulmod" => Size(v) <= MaxWords)

Multiplies(v) ==
  /\ v.kind \in {"multiply", "failover"}
  /\ Magnitude(v.factors[1]) > 1 /\ Magnitude(v.factors[2]) > 1
  /\ v.kind = "failover" => Size(v) <= MaxWords

\* A product: the operands at hand, or the result, are those that the
\* innermost activation waits for, and may be computed where they are.
ForProduct(v) ==
  /\ Chain(v.stack, v.job)
  /\ v.pc = "multiply" => Survives(v.factors[1], v.factors[2],
                                   v.factors[3], v.factors[4])
  /\ v.pc \in {"multiply"} \cup AtEngine =>
       v.factors[1] * v.factors[2] = Goal(v.stack, v.job)
  /\ v.pc \in AtEngine => Multiplies(v)
  /\ v.pc = "release" /\ v.ret = "ok" => v.out = Answer(v)
  /\ v.pc \in {"product", "returned"} /\ v.ret = "ok" =>
       v.out = Goal(v.stack, v.job)

\* A residue: the modulus is checked and its Rinv known before the
\* accelerator is used.
ForModular(v) ==
  LET ready == v.pc \in AtEngine \/ (v.pc = "returned" /\ v.ret = "ok")
  IN  /\ v.kind = v.job.op
      /\ v.factors[1] = v.job.x /\ v.factors[2] = v.job.y
      /\ v.stack = <<>>
      /\ ready /\ v.kind = "mulmod" =>
           v.job.m > 0 /\ v.rinv = calculate_rinv(v.job.m, Size(v))
      /\ ready /\ v.kind = "expmod" => v.job.m > 0 \/ v.job.rn
      /\ v.pc \in ({"rinv"} \cup AtEngine) \ {"release"} => v.out = v.job.z
      /\ v.pc \in {"release", "returned"} /\ v.ret = "ok" /\ Usable(v) =>
           v.out = Answer(v)

ViewInv(v) ==
  /\ v.pc \in {"idle", "returned"} => v.stack = <<>>
  /\ v.pc # "idle" =>
       /\ v.job \in Job
       /\ v.pc \in {"multiply", "product"} => v.job.op = "mul"
       /\ v.pc = "rinv" => v.job.op # "mul"
       /\ Followed(v) =>
            /\ v.stack \in Seq(Frame) /\ Factored(v)
            /\ IF v.job.op = "mul" THEN ForProduct(v) ELSE ForModular(v)

\* Nothing is claimed of what is not followed, but that it is a call.
LEMMA UnfollowedKeeps ==
  ASSUME NEW v, NEW w, ViewInv(v), v.pc # "idle", ~Followed(v), w.job = v.job,
         w.pc \notin {"idle", "rinv"}, w.pc = "returned" => w.stack = <<>>
  PROVE  ViewInv(w)
  BY DEF ViewInv, Followed

\* The accelerator has the result of the stage, or will have it.
Awaits(r) == IF engine.running = "none" THEN engine.z = r ELSE EngineResult = r

\* The second stage finds what was loaded for the first.
Kept(v) ==
  /\ engine.m = Modulus(v) /\ engine.mprime = Mprime(v)
  /\ engine.mode = MontgomeryMode(Size(v))

EngineInv(p, v) ==
  /\ p = "wait"  => Awaits(First(v)) /\ (TwoStaged(v) => Kept(v))
  /\ p = "load2" => TwoStaged(v) /\ engine.z = First(v) /\ Kept(v)
  /\ p = "wait2" => Awaits(Final(v))
  /\ p = "read"  => engine.z = Final(v)

Domains ==
  /\ job = [t \in Tasks |-> job[t]] /\ stack = [t \in Tasks |-> stack[t]]
  /\ factors = [t \in Tasks |-> factors[t]] /\ kind = [t \in Tasks |-> kind[t]]
  /\ out = [t \in Tasks |-> out[t]] /\ ret = [t \in Tasks |-> ret[t]]
  /\ rinv = [t \in Tasks |-> rinv[t]] /\ cached = [t \in Tasks |-> cached[t]]

CallsInv ==
  /\ Domains
  /\ \A t \in Tasks : /\ pc[t] # "idle" => job[t] \in Jobs[t]
                      /\ ViewInv(View(t))

ResultInv ==
  \A t \in Tasks : Usable(View(t)) => EngineInv(pc[t], View(t))

\* A step of t changes nothing of the other tasks.
Touches(t) ==
  /\ pc' = [pc EXCEPT ![t] = pc'[t]] /\ job' = [job EXCEPT ![t] = job'[t]]
  /\ stack' = [stack EXCEPT ![t] = stack'[t]]
  /\ factors' = [factors EXCEPT ![t] = factors'[t]]
  /\ kind' = [kind EXCEPT ![t] = kind'[t]] /\ out' = [out EXCEPT ![t] = out'[t]]
  /\ ret' = [ret EXCEPT ![t] = ret'[t]] /\ rinv' = [rinv EXCEPT ![t] = rinv'[t]]
  /\ cached' = [cached EXCEPT ![t] = cached'[t]]

\* The call of a task as a record.
LEMMA ViewFields ==
  ASSUME NEW t
  PROVE  /\ View(t).pc = pc[t] /\ View(t).job = job[t]
         /\ View(t).stack = stack[t] /\ View(t).factors = factors[t]
         /\ View(t).kind = kind[t] /\ View(t).out = out[t]
         /\ View(t).ret = ret[t] /\ View(t).rinv = rinv[t]
  BY DEF View

\* The same after a step.
LEMMA ViewFieldsNext ==
  ASSUME NEW t
  PROVE  /\ View(t)'.pc = pc'[t] /\ View(t)'.job = job'[t]
         /\ View(t)'.stack = stack'[t] /\ View(t)'.factors = factors'[t]
         /\ View(t)'.kind = kind'[t] /\ View(t)'.out = out'[t]
         /\ View(t)'.ret = ret'[t] /\ View(t)'.rinv = rinv'[t]
  BY DEF View

\* A step of one task leaves the calls of the others alone.
LEMMA OthersKeep ==
  ASSUME NEW t \in Tasks, Touches(t), Domains, LockInv
  PROVE  /\ Domains'
         /\ \A u \in Tasks \ {t} : View(u)' = View(u) /\ pc'[u] = pc[u]
                                   /\ job'[u] = job[u]
<1>1. Domains'
  BY DEF Touches, Domains
<1>2. ASSUME NEW u \in Tasks \ {t}
      PROVE  View(u)' = View(u) /\ pc'[u] = pc[u] /\ job'[u] = job[u]
  BY <1>2 DEF Touches, Domains, LockInv, View
<1> QED
  BY <1>1, <1>2

\* It is enough to look at the task that makes the step.
LEMMA CallsKeep ==
  ASSUME CallsInv, LockInv, NEW t \in Tasks, Touches(t),
         pc'[t] # "idle" => job'[t] \in Jobs[t], ViewInv(View(t)')
  PROVE  CallsInv'
<1>1. /\ Domains'
      /\ \A u \in Tasks \ {t} : View(u)' = View(u) /\ pc'[u] = pc[u]
                                /\ job'[u] = job[u]
  BY OthersKeep DEF CallsInv
<1>2. ASSUME NEW u \in Tasks
      PROVE  (pc'[u] # "idle" => job'[u] \in Jobs[u]) /\ ViewInv(View(u)')
  BY <1>1 DEF CallsInv
<1> QED
  BY <1>1, <1>2 DEF CallsInv

\* The operands decide what is computed.
SameCall(v, w) ==
  /\ w.job = v.job /\ w.factors = v.factors /\ w.kind = v.kind
  /\ w.rinv = v.rinv

\* What a call computes depends on its operands and its kind.
LEMMA SameCallSameAnswer ==
  ASSUME NEW v, NEW w, SameCall(v, w)
  PROVE  /\ Size(w) = Size(v) /\ Modulus(w) = Modulus(v) /\ Mprime(w) = Mprime(v)
         /\ First(w) = First(v) /\ Final(w) = Final(v) /\ Answer(w) = Answer(v)
         /\ TwoStaged(w) = TwoStaged(v) /\ Usable(w) = Usable(v)
<1> USE DEF SameCall
<1>1. Size(w) = Size(v)
  BY DEF Size
<1>2. Modulus(w) = Modulus(v) /\ Mprime(w) = Mprime(v)
  BY <1>1 DEF Modulus, Mprime
<1>3. First(w) = First(v)
  BY <1>1, <1>2 DEF First
<1>4. TwoStaged(w) = TwoStaged(v) /\ Usable(w) = Usable(v)
  BY <1>1 DEF TwoStaged, Usable, Followed
<1>5. Final(w) = Final(v)
  BY <1>1, <1>2, <1>3, <1>4 DEF Final
<1> QED
  BY <1>1, <1>2, <1>3, <1>4, <1>5 DEF Answer

\* The actions of a call, one by one: Begin, for each function and way out.
LEMMA BeginKeeps ==
  ASSUME CallsInv, LockInv, NEW t \in Tasks, Begin(t)
  PROVE  CallsInv'
<1>0. PICK j \in Jobs[t] :
        /\ job' = [job EXCEPT ![t] = j]
        /\ factors' = [factors EXCEPT ![t] = Operands(j)]
        /\ kind' = [kind EXCEPT ![t] = j.op]
        /\ out' = [out EXCEPT ![t] = j.z]
        /\ LET toolong == j.op = "expmod" /\ ExpWords(j) > MaxWords
               reuse   == /\ j.op = "expmod" /\ j.rn /\ cached[t] # NoRinv
                          /\ ~toolong
           IN  /\ pc' = [pc EXCEPT ![t] = CASE j.op = "mul" -> "multiply"
                                            [] toolong      -> "returned"
                                            [] reuse        -> "acquire"
                                            [] OTHER        -> "rinv"]
               /\ ret' = [ret EXCEPT ![t] = IF toolong THEN "not acceptable"
                                            ELSE "ok"]
               /\ rinv' = [rinv EXCEPT ![t] = IF reuse THEN cached[t] ELSE NoRinv]
  BY DEF Begin, Goto
<1>1. \E l, e, r :
        /\ pc' = [pc EXCEPT ![t] = l]
        /\ ret' = [ret EXCEPT ![t] = e]
        /\ rinv' = [rinv EXCEPT ![t] = r]
        /\ \/ j.op = "mul" /\ l = "multiply"
           \/ j.op # "mul" /\ l = "returned" /\ e # "ok"
           \/ j.op = "expmod" /\ j.rn /\ l = "acquire"
           \/ j.op # "mul" /\ l = "rinv"
  <2>1. PICK toolong \in BOOLEAN, reuse \in BOOLEAN :
          /\ toolong => j.op = "expmod"
          /\ reuse => j.op = "expmod" /\ j.rn /\ ~toolong
          /\ pc' = [pc EXCEPT ![t] = CASE j.op = "mul" -> "multiply"
                                       [] toolong      -> "returned"
                                       [] reuse        -> "acquire"
                                       [] OTHER        -> "rinv"]
          /\ ret' = [ret EXCEPT ![t] = IF toolong THEN "not acceptable"
                                       ELSE "ok"]
          /\ rinv' = [rinv EXCEPT ![t] = IF reuse THEN cached[t] ELSE NoRinv]
    BY <1>0
  <2>2. PICK l, e, r :
          /\ l = CASE j.op = "mul" -> "multiply"
                   [] toolong      -> "returned"
                   [] reuse        -> "acquire"
                   [] OTHER        -> "rinv"
          /\ e = IF toolong THEN "not acceptable" ELSE "ok"
          /\ r = IF reuse THEN cached[t] ELSE NoRinv
    OBVIOUS
  <2>3. /\ pc' = [pc EXCEPT ![t] = l] /\ ret' = [ret EXCEPT ![t] = e]
        /\ rinv' = [rinv EXCEPT ![t] = r]
    BY <2>1, <2>2
  <2>4. \/ j.op = "mul" /\ l = "multiply"
        \/ j.op # "mul" /\ l = "returned" /\ e # "ok"
        \/ j.op = "expmod" /\ j.rn /\ l = "acquire"
        \/ j.op # "mul" /\ l = "rinv"
    BY <2>1, <2>2
  <2> QED
    BY <2>3, <2>4
<1>2. /\ UNCHANGED <<stack, cached>> /\ pc[t] = "idle"
  BY DEF Begin, Goto
<1>3. j \in Job /\ j.x \in Int /\ j.y \in Int
  BY JobsAreCalls DEF Job
<1>4. Touches(t)
  BY <1>0, <1>1, <1>2 DEF Touches, CallsInv, Domains, LockInv
<1> DEFINE w == View(t)'
<1>5. stack[t] = <<>>
  BY <1>2, ViewFields DEF CallsInv, ViewInv
<1>6. /\ w.job = j /\ w.factors = Operands(j) /\ w.kind = j.op /\ w.out = j.z
      /\ w.stack = <<>>
      /\ \/ j.op = "mul" /\ w.pc = "multiply"
         \/ j.op # "mul" /\ w.pc = "returned" /\ w.ret # "ok"
         \/ j.op = "expmod" /\ j.rn /\ w.pc = "acquire"
         \/ j.op # "mul" /\ w.pc = "rinv"
  <2>1. job'[t] = j /\ factors'[t] = Operands(j) /\ kind'[t] = j.op
        /\ out'[t] = j.z /\ stack'[t] = <<>>
    BY <1>0, <1>2, <1>5 DEF CallsInv, Domains
  <2>2. \E l, e : /\ pc'[t] = l /\ ret'[t] = e
                  /\ \/ j.op = "mul" /\ l = "multiply"
                     \/ j.op # "mul" /\ l = "returned" /\ e # "ok"
                     \/ j.op = "expmod" /\ j.rn /\ l = "acquire"
                     \/ j.op # "mul" /\ l = "rinv"
    BY <1>1 DEF CallsInv, Domains, LockInv
  <2> HIDE DEF w
  <2>3. /\ w.pc = pc'[t] /\ w.job = job'[t] /\ w.stack = stack'[t]
        /\ w.factors = factors'[t] /\ w.kind = kind'[t] /\ w.out = out'[t]
        /\ w.ret = ret'[t]
    BY ViewFieldsNext DEF w
  <2> QED
    BY <2>1, <2>2, <2>3
<1>7. job'[t] = j
  BY <1>0 DEF CallsInv, Domains
<1>8. ViewInv(w)
  <2> HIDE DEF w
  <2>a. w.factors[1] = j.x /\ w.factors[2] = j.y
    BY <1>6 DEF Operands
  <2>b. Survives(w.factors[1], w.factors[2], w.factors[3], w.factors[4])
          = InPlaceIsRight(j)
    BY <1>6, <2>a DEF InPlaceIsRight
  <2>1. w.stack \in Seq(Frame) /\ Factored(w)
    BY <1>3, <1>6, <2>a, EmptyChain DEF Factored
  <2>2. j.op = "mul" /\ Followed(w) => ForProduct(w)
    BY <1>3, <1>6, <2>a, <2>b, EmptyChain
       DEF ForProduct, Followed, AtEngine, InHardware
  <2>3. j.op # "mul" => ForModular(w)
    BY <1>6, <2>a DEF ForModular, AtEngine, InHardware
  <2> QED
    BY <1>3, <1>6, <2>1, <2>2, <2>3 DEF ViewInv
<1> QED
  BY <1>4, <1>7, <1>8, CallsKeep

\* RinvCalculated stores the Rinv of the modulus, for this call and the next.
LEMMA RinvCalculatedKeeps ==
  ASSUME CallsInv, LockInv, NEW t \in Tasks, RinvCalculated(t)
  PROVE  CallsInv'
<1>1. /\ pc[t] = "rinv"
      /\ UNCHANGED <<job, stack, factors, kind, out>>
      /\ \/ /\ job[t].m > 0 /\ pc' = [pc EXCEPT ![t] = "acquire"]
            /\ rinv' = [rinv EXCEPT ![t] = calculate_rinv(job[t].m, Words(t))]
            /\ UNCHANGED ret
         \/ /\ pc' = [pc EXCEPT ![t] = "returned"]
            /\ ret' = [ret EXCEPT ![t] = "failed"]
            /\ UNCHANGED rinv
      /\ cached' = cached \/ cached' = [cached EXCEPT ![t] = rinv'[t]]
  BY DEF RinvCalculated, Goto
<1>2. Touches(t)
  BY <1>1 DEF Touches, CallsInv, Domains, LockInv
<1> DEFINE v == View(t)
           w == View(t)'
<1>3. ViewInv(v) /\ v.pc = "rinv" /\ job[t] \in Jobs[t]
  BY <1>1, ViewFields DEF CallsInv
<1>4. /\ w.job = v.job /\ w.stack = v.stack /\ w.factors = v.factors
      /\ w.kind = v.kind /\ w.out = v.out
      /\ \/ /\ v.job.m > 0 /\ w.pc = "acquire"
            /\ v.kind = "mulmod" => w.rinv = calculate_rinv(v.job.m, Size(v))
         \/ w.pc = "returned" /\ w.ret = "failed"
  <2>1. kind[t] = "mulmod" => Words(t) = Size(v)
    BY ViewFields DEF Words, Size
  <2>2. \/ /\ job[t].m > 0 /\ pc'[t] = "acquire"
           /\ rinv'[t] = calculate_rinv(job[t].m, Words(t))
        \/ pc'[t] = "returned" /\ ret'[t] = "failed"
    BY <1>1 DEF CallsInv, Domains, LockInv
  <2>3. /\ v.job = job[t] /\ v.stack = stack[t] /\ v.factors = factors[t]
        /\ v.kind = kind[t] /\ v.out = out[t]
    BY ViewFields
  <2>4. /\ w.job = job'[t] /\ w.stack = stack'[t] /\ w.factors = factors'[t]
        /\ w.kind = kind'[t] /\ w.out = out'[t] /\ w.pc = pc'[t]
        /\ w.ret = ret'[t] /\ w.rinv = rinv'[t]
    BY ViewFieldsNext
  <2> HIDE DEF v, w
  <2> QED
    BY <1>1, <2>1, <2>2, <2>3, <2>4
<1>5. job'[t] = job[t]
  BY <1>1
<1>6. ViewInv(w)
  <2> HIDE DEF v, w
  <2>1. Size(w) = Size(v)
    BY <1>4 DEF Size
  <2>2. v.job.op # "mul" /\ ForModular(v) /\ Factored(v)
    BY <1>3 DEF ViewInv, Followed
  <2>3. v.stack = <<>>
    BY <2>2 DEF ForModular
  <2>4. ForModular(w)
    BY <1>3, <1>4, <2>1, <2>2 DEF ForModular, AtEngine, InHardware
  <2>5. Factored(w)
    BY <1>4, <2>2 DEF Factored
  <2>6. w.stack \in Seq(Frame)
    BY <1>4, <2>3, EmptyChain
  <2> QED
    BY <1>3, <1>4, <2>2, <2>3, <2>4, <2>5, <2>6 DEF ViewInv
<1> QED
  BY <1>2, <1>3, <1>5, <1>6, CallsKeep

\* A copy of a number takes the sign of the unit it is multiplied with, if the
\* unit is not lost.
LEMMA CopiedIs ==
  ASSUME NEW v \in Int, NEW unit \in Int, Magnitude(unit) = 1,
         NEW placeOfV, NEW placeOfUnit,
         v * unit >= 0 \/ placeOfUnit = "own" \/ placeOfV = "same"
  PROVE  Copied(v, unit, placeOfV, placeOfUnit) = v * unit
<1>1. unit \in {1, -1} /\ unit = Sign(unit)
  BY DEF Magnitude, Sign
<1>2. v * 1 = v /\ v * (-1) = -v
  OBVIOUS
<1>3. v * unit >= 0 => Magnitude(v) = v * unit
  BY <1>1, <1>2 DEF Magnitude
<1> QED
  BY <1>1, <1>3 DEF Copied

\* The steps of mbedtls_mpi_mul_mpi before the accelerator.
LEMMA MultiplyTrivialKeeps ==
  ASSUME CallsInv, LockInv, NEW t \in Tasks, MultiplyTrivial(t)
  PROVE  CallsInv'
<1> DEFINE v == View(t)
           w == View(t)'
<1>0. /\ v.pc = pc[t] /\ v.job = job[t] /\ v.stack = stack[t]
      /\ v.factors = factors[t] /\ v.kind = kind[t] /\ v.out = out[t]
      /\ v.ret = ret[t] /\ v.rinv = rinv[t]
      /\ w.pc = pc'[t] /\ w.job = job'[t] /\ w.stack = stack'[t]
      /\ w.factors = factors'[t] /\ w.kind = kind'[t] /\ w.out = out'[t]
      /\ w.ret = ret'[t] /\ w.rinv = rinv'[t]
  BY ViewFields, ViewFieldsNext
<1> HIDE DEF v, w
<1>1. PICK x, y, px, py : /\ x = factors[t][1] /\ y = factors[t][2]
                          /\ px = factors[t][3] /\ py = factors[t][4]
  OBVIOUS
<1> DEFINE z == IF x = 0 \/ y = 0 THEN 0
                ELSE IF Magnitude(x) = 1 THEN Copied(y, x, py, px)
                ELSE Copied(x, y, px, py)
<1>2. /\ pc[t] = "multiply" /\ pc' = [pc EXCEPT ![t] = "product"]
      /\ UNCHANGED <<job, stack, factors, kind, rinv, cached>>
      /\ Magnitude(x) <= 1 \/ Magnitude(y) <= 1
      /\ \/ out' = [out EXCEPT ![t] = z] /\ UNCHANGED ret
         \/ ret' = [ret EXCEPT ![t] = "failed"] /\ UNCHANGED out
  BY <1>1 DEF MultiplyTrivial, Goto, X, Y, PlaceOfX, PlaceOfY
<1> HIDE DEF z
<1>3. Touches(t)
  BY <1>2 DEF Touches, CallsInv, Domains, LockInv
<1>4. ViewInv(v) /\ v.pc = "multiply" /\ job[t] \in Jobs[t] /\ job'[t] = job[t]
  BY <1>0, <1>2 DEF CallsInv, v
<1>5. /\ w.pc = "product" /\ w.job = v.job /\ w.stack = v.stack
      /\ w.factors = v.factors
      /\ w.ret = "ok" => w.out = z
  <2>1. pc'[t] = "product" /\ (ret'[t] = "ok" => out'[t] = z)
    BY <1>2 DEF CallsInv, Domains, LockInv
  <2> QED
    BY <1>0, <1>2, <2>1
<1> SUFFICES ASSUME Followed(v) PROVE ViewInv(w)
  BY <1>3, <1>4, <1>5, UnfollowedKeeps, CallsKeep DEF w
<1>6. /\ v.job.op = "mul" /\ ForProduct(v) /\ x \in Int /\ y \in Int
      /\ v.stack \in Seq(Frame) /\ Factored(v)
  BY <1>0, <1>1, <1>4 DEF ViewInv, Factored
<1>7. x * y = Goal(v.stack, v.job) /\ Survives(x, y, px, py)
  BY <1>0, <1>1, <1>4, <1>6 DEF ForProduct
<1>8. z = x * y
  <2>1. CASE x = 0 \/ y = 0
    BY <2>1, <1>6 DEF z
  <2>2. CASE x # 0 /\ y # 0 /\ Magnitude(x) = 1
    <3>1. y * x >= 0 \/ px = "own" \/ py = "same"
      BY <2>2, <1>6, <1>7 DEF Survives
    <3>2. Copied(y, x, py, px) = y * x
      BY <2>2, <3>1, <1>6, CopiedIs
    <3> QED
      BY <2>2, <3>2, <1>6 DEF z
  <2>3. CASE x # 0 /\ y # 0 /\ Magnitude(x) # 1
    <3>1. Magnitude(x) \in Nat /\ Magnitude(x) # 0
      BY <2>3, <1>6 DEF Magnitude
    <3>2. Magnitude(y) = 1
      BY <2>3, <3>1, <1>2, <1>6 DEF Magnitude
    <3>3. x * y >= 0 \/ py = "own" \/ px = "same"
      BY <2>3, <3>2, <1>6, <1>7 DEF Survives
    <3>4. Copied(x, y, px, py) = x * y
      BY <3>2, <3>3, <1>6, CopiedIs
    <3> QED
      BY <2>3, <3>4 DEF z
  <2> QED
    BY <2>1, <2>2, <2>3
<1>9. ForProduct(w)
  BY <1>5, <1>6, <1>7, <1>8 DEF ForProduct, AtEngine, InHardware
<1> QED
  BY <1>4, <1>5, <1>6, <1>9 DEF ViewInv, Factored

\* MultiplyOnce chooses the multiplier only for factors that fit.
LEMMA MultiplyOnceKeeps ==
  ASSUME CallsInv, LockInv, NEW t \in Tasks, MultiplyOnce(t)
  PROVE  CallsInv'
<1> DEFINE v == View(t)
           w == View(t)'
<1>0. /\ v.pc = pc[t] /\ v.job = job[t] /\ v.stack = stack[t]
      /\ v.factors = factors[t]
      /\ w.pc = pc'[t] /\ w.job = job'[t] /\ w.stack = stack'[t]
      /\ w.factors = factors'[t] /\ w.kind = kind'[t]
  BY ViewFields, ViewFieldsNext
<1> HIDE DEF v, w
<1>1. PICK x, y : x = factors[t][1] /\ y = factors[t][2]
  OBVIOUS
<1>2. /\ pc[t] = "multiply" /\ pc' = [pc EXCEPT ![t] = "acquire"]
      /\ UNCHANGED <<job, stack, factors, out, ret, rinv, cached>>
      /\ Magnitude(x) > 1 /\ Magnitude(y) > 1
      /\ \/ kind' = [kind EXCEPT ![t] = "multiply"]
         \/ /\ kind' = [kind EXCEPT ![t] = "failover"]
            /\ WordsSum(x, y) <= MaxWords
  BY <1>1 DEF MultiplyOnce, Goto, X, Y
<1>3. Touches(t)
  BY <1>2 DEF Touches, CallsInv, Domains, LockInv
<1>4. ViewInv(v) /\ v.pc = "multiply" /\ job[t] \in Jobs[t] /\ job'[t] = job[t]
  BY <1>0, <1>2 DEF CallsInv, v
<1>5. /\ w.pc = "acquire" /\ w.job = v.job /\ w.stack = v.stack
      /\ w.factors = v.factors
      /\ w.kind \in {"multiply", "failover"}
      /\ w.kind = "failover" => WordsSum(x, y) <= MaxWords
  <2>1. /\ pc'[t] = "acquire"
        /\ kind'[t] \in {"multiply", "failover"}
        /\ kind'[t] = "failover" => WordsSum(x, y) <= MaxWords
    BY <1>2 DEF CallsInv, Domains, LockInv
  <2> QED
    BY <1>0, <1>2, <2>1
<1> SUFFICES ASSUME Followed(v) PROVE ViewInv(w)
  BY <1>3, <1>4, <1>5, UnfollowedKeeps, CallsKeep DEF w
<1>6. /\ v.job.op = "mul" /\ ForProduct(v)
      /\ v.stack \in Seq(Frame) /\ Factored(v)
  BY <1>4 DEF ViewInv
<1>7. Multiplies(w)
  <2>1. w.factors[1] = x /\ w.factors[2] = y
    BY <1>0, <1>1, <1>5
  <2> QED
    BY <1>2, <1>5, <2>1 DEF Multiplies, Size
<1>8. ForProduct(w)
  BY <1>4, <1>5, <1>6, <1>7 DEF ForProduct, AtEngine, InHardware
<1> QED
  BY <1>4, <1>5, <1>6, <1>8 DEF ViewInv, Factored

\* The longer factor and the other one, and the places of both.
Split(x, y, px, py, longer, other, place) ==
  IF bitlen(y) <= bitlen(x)
  THEN longer = x /\ other = y /\ place = <<py, px>>
  ELSE longer = y /\ other = x /\ place = <<px, py>>

\* What is split is the longer factor, and not Z if the product is right.
LEMMA SplitIsWhole ==
  ASSUME NEW x \in Int, NEW y \in Int, NEW px, NEW py, Survives(x, y, px, py),
         TooLongToMultiply(x, y), WordsSum(x, y) > MaxWords,
         NEW other, NEW longer, NEW place,
         Split(x, y, px, py, longer, other, place)
  PROVE  /\ longer \in Int /\ other \in Int /\ other * longer = x * y
         /\ place \in Places \X Places /\ place[2] = "own"
         /\ \/ place[1] = "own"
            \/ place[1] = "same" /\ Magnitude(other) > 1 /\ Short(other)
<1>1. longer \in Int /\ other \in Int /\ other * longer = x * y
  BY DEF Split
<1>2. PICK bx \in Nat, by \in Nat : bx = bitlen(x) /\ by = bitlen(y)
  BY BitlenIs
<1>3. PICK hx \in Nat, hy \in Nat : /\ hx = bits_to_hardware_words(bx)
                                    /\ hy = bits_to_hardware_words(by)
  BY HardwareWords
<1>4. PICK most \in Nat : most = MulBlocks * BlockLimbs
  BY SizesArePositive
<1>5. /\ Magnitude(x) > 1 /\ Magnitude(y) > 1
      /\ hx > most \/ hy > most
  BY <1>2, <1>3, <1>4 DEF TooLongToMultiply, WordsMult, Larger
<1>6. (by <= bx => hy <= hx) /\ (bx <= by => hx <= hy)
  BY <1>3, HardwareWordsMonotone
<1>7. ~(WordsSum(x, y) <= MaxWords)
  <2>1. WordsSum(x, y) \in Int /\ MaxWords \in Int
    BY <1>5, WordsSumIs, SizesArePositive DEF MaxWords
  <2> QED
    BY <2>1
<1>8. px \in {"own", "same"} /\ py \in {"own", "same"}
  BY DEF Survives
<1>9. ~(Magnitude(x) <= 1 \/ Magnitude(y) <= 1)
  BY <1>5, MagnitudeType
<1>10. \/ px = "own" /\ py = "own"
       \/ py = "own" /\ hx <= most
       \/ px = "own" /\ hy <= most
  BY <1>2, <1>3, <1>4, <1>7, <1>9 DEF Survives
<1>11. /\ IF by <= bx THEN other = y /\ place = <<py, px>>
                      ELSE other = x /\ place = <<px, py>>
       /\ Short(x) <=> hx <= most
       /\ Short(y) <=> hy <= most
  BY <1>2, <1>3, <1>4 DEF Short, Split
<1>12. place[2] = "own" /\ (place[1] = "own" \/ (place[1] = "same" /\ Short(other)))
  <2>1. CASE by <= bx
    <3>1. px = "own" /\ (py = "own" \/ Short(y))
      BY <2>1, <1>5, <1>6, <1>10, <1>11
    <3> QED
      BY <2>1, <3>1, <1>8, <1>11
  <2>2. CASE ~(by <= bx)
    <3>1. bx <= by
      BY <2>2
    <3>2. py = "own" /\ (px = "own" \/ Short(x))
      BY <3>1, <1>5, <1>6, <1>10, <1>11
    <3> QED
      BY <2>2, <3>2, <1>8, <1>11
  <2> QED
    BY <2>1, <2>2
<1>13. place \in Places \X Places
  BY <1>8, <1>11 DEF Places
<1> QED
  BY <1>1, <1>5, <1>11, <1>12, <1>13

\* What Yp and Ypp of an mpi of its own hold is there when it is read.
LEMMA FoundIs ==
  ASSUME NEW v, NEW limbs, NEW place, place # "slice"
  PROVE  Found(v, limbs, place) = {v} /\ Within("own") = "own"
  BY DEF Found, Within

\* MultiplySplits goes one level down.
LEMMA MultiplySplitsKeeps ==
  ASSUME CallsInv, LockInv, NEW t \in Tasks, MultiplySplits(t)
  PROVE  CallsInv'
<1> DEFINE v == View(t)
           w == View(t)'
<1>0. /\ v.pc = pc[t] /\ v.job = job[t] /\ v.stack = stack[t]
      /\ v.factors = factors[t]
      /\ w.pc = pc'[t] /\ w.job = job'[t] /\ w.stack = stack'[t]
      /\ w.factors = factors'[t]
  BY ViewFields, ViewFieldsNext
<1> HIDE DEF v, w
<1>1. PICK x, y, px, py : /\ x = factors[t][1] /\ y = factors[t][2]
                          /\ px = factors[t][3] /\ py = factors[t][4]
  OBVIOUS
<1>2. PICK longer, other, place :
        /\ Split(x, y, px, py, longer, other, place)
        /\ stack' = [stack EXCEPT ![t] =
                       <<[x |-> other, y |-> longer, low |-> 0,
                          second |-> FALSE, place |-> place]>> \o stack[t]]
        /\ \E a \in Found(other, Limbs(other), place[1]),
              b \in Found(Yp(longer), Limbs(longer) \div 2, Within(place[2])) :
             factors' = [factors EXCEPT ![t] = <<a, b, "own", "own">>]
  <2> DEFINE swap == bitlen(y) <= bitlen(x)
             l == IF swap THEN x ELSE y
             o == IF swap THEN y ELSE x
             q == IF swap THEN <<py, px>> ELSE <<px, py>>
  <2>1. /\ stack' = [stack EXCEPT ![t] =
                       <<[x |-> o, y |-> l, low |-> 0,
                          second |-> FALSE, place |-> q]>> \o stack[t]]
        /\ \E a \in Found(o, Limbs(o), q[1]),
              b \in Found(Yp(l), Limbs(l) \div 2, Within(q[2])) :
             factors' = [factors EXCEPT ![t] = <<a, b, "own", "own">>]
    BY <1>1 DEF MultiplySplits, X, Y, PlaceOfX, PlaceOfY
  <2>2. Split(x, y, px, py, l, o, q)
    BY DEF Split
  <2> HIDE DEF l, o, q
  <2> QED
    BY <2>1, <2>2
<1>3. /\ pc[t] = "multiply"
      /\ TooLongToMultiply(x, y) /\ WordsSum(x, y) > MaxWords
      /\ UNCHANGED <<pc, job, kind, out, ret, rinv, cached>>
  BY <1>1 DEF MultiplySplits, X, Y
<1>4. Touches(t)
  BY <1>2, <1>3 DEF Touches, CallsInv, Domains, LockInv
<1>5. ViewInv(v) /\ v.pc = "multiply" /\ job[t] \in Jobs[t] /\ job'[t] = job[t]
  BY <1>0, <1>3 DEF CallsInv, v
<1>6. w.pc = "multiply" /\ w.job = v.job
  BY <1>0, <1>3
<1> SUFFICES ASSUME Followed(v) PROVE ViewInv(w)
  BY <1>4, <1>5, <1>6, UnfollowedKeeps, CallsKeep DEF w
<1>7. /\ v.job.op = "mul" /\ ForProduct(v) /\ x \in Int /\ y \in Int
      /\ v.stack \in Seq(Frame)
  BY <1>0, <1>1, <1>5 DEF ViewInv, Factored
<1>8. x * y = Goal(v.stack, v.job) /\ Survives(x, y, px, py)
  BY <1>0, <1>1, <1>5, <1>7 DEF ForProduct
<1>9. /\ longer \in Int /\ other \in Int /\ other * longer = x * y
      /\ place \in Places \X Places /\ place[2] = "own"
      /\ \/ place[1] = "own"
         \/ place[1] = "same" /\ Magnitude(other) > 1 /\ Short(other)
  BY <1>2, <1>3, <1>7, <1>8, SplitIsWhole
<1>10. PICK f \in Frame : /\ f = [x |-> other, y |-> longer, low |-> 0,
                                  second |-> FALSE, place |-> place]
                          /\ f.x = other /\ f.y = longer /\ ~f.second
                          /\ Whole(f)
  <2>1. PICK f : f = [x |-> other, y |-> longer, low |-> 0, second |-> FALSE,
                      place |-> place]
    OBVIOUS
  <2>2. /\ f.x = other /\ f.y = longer /\ ~f.second /\ f.place = place
        /\ f \in Frame
    BY <2>1, <1>9 DEF Frame
  <2>3. Whole(f)
    BY <2>2, <1>9 DEF Whole
  <2> QED
    BY <2>1, <2>2, <2>3
<1>11. factors' = [factors EXCEPT ![t] = <<other, Yp(longer), "own", "own">>]
  <2>1. place[1] # "slice" /\ Within(place[2]) # "slice"
    BY <1>9, FoundIs
  <2>2. /\ Found(other, Limbs(other), place[1]) = {other}
        /\ Found(Yp(longer), Limbs(longer) \div 2, Within(place[2]))
             = {Yp(longer)}
    BY <2>1, FoundIs
  <2> QED
    BY <1>2, <2>2
<1>12. w.stack = <<f>> \o v.stack /\ w.factors = <<other, Yp(longer), "own", "own">>
  <2>1. /\ stack'[t] = <<f>> \o stack[t]
        /\ factors'[t] = <<other, Yp(longer), "own", "own">>
    BY <1>2, <1>10, <1>11 DEF CallsInv, Domains
  <2> QED
    BY <1>0, <2>1
<1>13. /\ w.stack \in Seq(Frame) /\ Chain(w.stack, v.job)
       /\ Goal(w.stack, v.job) = f.x * Yp(f.y)
  <2>1. Chain(v.stack, v.job)
    BY <1>7 DEF ForProduct
  <2>2. f.x * f.y = Goal(v.stack, v.job)
    BY <1>8, <1>9, <1>10
  <2>3. PICK s \in Seq(Frame) : s = v.stack
    BY <1>7
  <2>4. /\ <<f>> \o s \in Seq(Frame) /\ Chain(<<f>> \o s, v.job)
        /\ Goal(<<f>> \o s, v.job) = f.x * Yp(f.y)
    BY <1>10, <2>1, <2>2, <2>3, PushKeeps
  <2> QED
    BY <1>12, <2>3, <2>4
<1>14. Yp(longer) \in Int
  BY <1>9, PartsAdd
<1>15. Survives(other, Yp(longer), "own", "own")
  BY DEF Survives
<1>16. ForProduct(w) /\ Factored(w)
  BY <1>6, <1>9, <1>10, <1>12, <1>13, <1>14, <1>15
     DEF ForProduct, Factored, AtEngine, InHardware
<1> QED
  BY <1>5, <1>6, <1>7, <1>13, <1>16 DEF ViewInv

\* SecondProduct keeps X * Yp and waits for X * Ypp.
LEMMA SecondProductKeeps ==
  ASSUME CallsInv, LockInv, NEW t \in Tasks, SecondProduct(t)
  PROVE  CallsInv'
<1> DEFINE v == View(t)
           w == View(t)'
           top == Head(stack[t])
           f == [x |-> top.x, y |-> top.y, low |-> out[t], second |-> TRUE,
                 place |-> top.place]
           place == <<top.place[1], Within(top.place[2])>>
           upper == Limbs(top.y) - Limbs(top.y) \div 2
<1>0. /\ v.pc = pc[t] /\ v.job = job[t] /\ v.stack = stack[t]
      /\ v.factors = factors[t] /\ v.out = out[t] /\ v.ret = ret[t]
      /\ w.pc = pc'[t] /\ w.job = job'[t] /\ w.stack = stack'[t]
      /\ w.factors = factors'[t]
  BY ViewFields, ViewFieldsNext
<1> HIDE DEF v, w
<1>1. /\ pc[t] = "product" /\ pc' = [pc EXCEPT ![t] = "multiply"]
      /\ ret[t] = "ok" /\ stack[t] # <<>> /\ ~top.second
      /\ stack' = [stack EXCEPT ![t] = <<f>> \o Tail(stack[t])]
      /\ \E a \in Found(top.x, Limbs(top.x), place[1]),
            b \in Found(Ypp(top.y), upper, place[2]) :
           factors' = [factors EXCEPT ![t] = <<a, b, place[1], place[2]>>]
      /\ UNCHANGED <<job, kind, out, ret, rinv, cached>>
  BY DEF SecondProduct, Goto
<1> HIDE DEF f, place, upper
<1>2. Touches(t)
  BY <1>1 DEF Touches, CallsInv, Domains, LockInv
<1>3. ViewInv(v) /\ v.pc = "product" /\ job[t] \in Jobs[t] /\ job'[t] = job[t]
  BY <1>0, <1>1 DEF CallsInv, v
<1>4. w.pc = "multiply" /\ w.job = v.job
  BY <1>0, <1>1 DEF LockInv
<1> SUFFICES ASSUME Followed(v) PROVE ViewInv(w)
  BY <1>2, <1>3, <1>4, UnfollowedKeeps, CallsKeep DEF w
<1>5. /\ v.job.op = "mul" /\ v.job \in Job /\ ForProduct(v)
      /\ v.stack \in Seq(Frame) /\ Chain(v.stack, v.job)
  BY <1>3 DEF ViewInv, ForProduct
<1>6. top \in Frame /\ Goal(v.stack, v.job) = Part(top) /\ Whole(top)
  BY <1>0, <1>1, <1>5, PopKeeps
<1>7. out[t] = top.x * Yp(top.y)
  BY <1>0, <1>1, <1>3, <1>5, <1>6 DEF ForProduct, Part
<1>8. top.x \in Int /\ top.y \in Int /\ top.place \in Places \X Places
  BY <1>6 DEF Frame
<1>9. /\ top.place[2] = "own"
      /\ \/ top.place[1] = "own"
         \/ top.place[1] = "same" /\ Magnitude(top.x) > 1 /\ Short(top.x)
  BY <1>6 DEF Whole
<1> HIDE DEF top
<1>10. out[t] \in Int
  <2>1. Yp(top.y) \in Int
    BY <1>8, PartsAdd
  <2> QED
    BY <1>7, <1>8, <2>1
<1>11. /\ f \in Frame /\ f.x = top.x /\ f.y = top.y /\ f.second
       /\ f.low = f.x * Yp(f.y) /\ f.place = top.place
  BY <1>7, <1>8, <1>10 DEF f, Frame
<1>12. Whole(f)
  BY <1>9, <1>11 DEF Whole
<1>13. place = <<top.place[1], "own">> /\ place[1] # "slice" /\ place[2] # "slice"
  BY <1>9, FoundIs DEF place
<1>14. /\ w.stack = <<f>> \o Tail(v.stack)
       /\ w.factors = <<top.x, Ypp(top.y), top.place[1], "own">>
  <2>1. /\ Found(top.x, Limbs(top.x), place[1]) = {top.x}
        /\ Found(Ypp(top.y), upper, place[2]) = {Ypp(top.y)}
    BY <1>13, FoundIs
  <2>2. factors' = [factors EXCEPT ![t] =
                      <<top.x, Ypp(top.y), place[1], place[2]>>]
    BY <1>1, <2>1
  <2>3. place[1] = top.place[1] /\ place[2] = "own"
    BY <1>13
  <2>4. /\ stack'[t] = <<f>> \o Tail(stack[t])
        /\ factors'[t] = <<top.x, Ypp(top.y), top.place[1], "own">>
    BY <1>1, <2>2, <2>3 DEF CallsInv, Domains
  <2> QED
    BY <1>0, <2>4
<1>15. /\ w.stack \in Seq(Frame) /\ Chain(w.stack, v.job)
       /\ Goal(w.stack, v.job) = f.x * Ypp(f.y)
  <2>1. v.stack # <<>> /\ f.x = Head(v.stack).x /\ f.y = Head(v.stack).y
    BY <1>0, <1>1, <1>11 DEF top
  <2> QED
    BY <1>5, <1>11, <1>12, <1>14, <2>1, SecondKeeps
<1>16. Ypp(top.y) \in Int
  BY <1>8, PartsAdd
<1>17. Survives(top.x, Ypp(top.y), top.place[1], "own")
  <2>1. Magnitude(top.x) \in Nat
    BY <1>8, MagnitudeType
  <2> QED
    BY <1>9, <2>1 DEF Survives, Short
<1>18. ForProduct(w) /\ Factored(w)
  BY <1>4, <1>8, <1>11, <1>14, <1>15, <1>16, <1>17
     DEF ForProduct, Factored, AtEngine, InHardware
<1> QED
  BY <1>3, <1>4, <1>5, <1>15, <1>18 DEF ViewInv

\* SumOfProducts goes one level up with X * Y.
LEMMA SumOfProductsKeeps ==
  ASSUME CallsInv, LockInv, NEW t \in Tasks, SumOfProducts(t)
  PROVE  CallsInv'
<1> DEFINE v == View(t)
           w == View(t)'
           top == Head(stack[t])
<1>0. /\ v.pc = pc[t] /\ v.job = job[t] /\ v.stack = stack[t]
      /\ v.factors = factors[t] /\ v.out = out[t] /\ v.ret = ret[t]
      /\ w.pc = pc'[t] /\ w.job = job'[t] /\ w.stack = stack'[t]
      /\ w.factors = factors'[t] /\ w.out = out'[t] /\ w.ret = ret'[t]
  BY ViewFields, ViewFieldsNext
<1> HIDE DEF v, w
<1>1. /\ pc[t] = "product"
      /\ ret[t] = "ok" /\ stack[t] # <<>> /\ top.second
      /\ stack' = [stack EXCEPT ![t] = Tail(stack[t])]
      /\ \/ /\ out' = [out EXCEPT ![t] = out[t] * Slice(top.y) + top.low]
            /\ UNCHANGED ret
         \/ /\ ret' = [ret EXCEPT ![t] = "failed"]
            /\ UNCHANGED out
      /\ UNCHANGED <<pc, job, factors, kind, rinv, cached>>
  BY DEF SumOfProducts
<1>2. Touches(t)
  BY <1>1 DEF Touches, CallsInv, Domains, LockInv
<1>3. ViewInv(v) /\ v.pc = "product" /\ job[t] \in Jobs[t] /\ job'[t] = job[t]
  BY <1>0, <1>1 DEF CallsInv, v
<1>a. w.pc = "product" /\ w.job = v.job
  BY <1>0, <1>1
<1> SUFFICES ASSUME Followed(v) PROVE ViewInv(w)
  BY <1>2, <1>3, <1>a, UnfollowedKeeps, CallsKeep DEF w
<1>4. /\ v.job.op = "mul" /\ v.job \in Job /\ ForProduct(v) /\ Factored(v)
      /\ v.stack \in Seq(Frame) /\ Chain(v.stack, v.job)
  BY <1>3 DEF ViewInv, ForProduct
<1>5. /\ Tail(v.stack) \in Seq(Frame) /\ Chain(Tail(v.stack), v.job)
      /\ top \in Frame /\ top.x * top.y = Goal(Tail(v.stack), v.job)
      /\ top.low = top.x * Yp(top.y)
      /\ Goal(v.stack, v.job) = Part(top)
  <2>1. top = Head(v.stack) /\ v.stack # <<>> /\ top.second
    BY <1>0, <1>1
  <2> HIDE DEF top
  <2>2. PICK s \in Seq(Frame) : s = v.stack
    BY <1>4
  <2>3. /\ Tail(s) \in Seq(Frame) /\ Chain(Tail(s), v.job)
        /\ Head(s) \in Frame
        /\ Head(s).x * Head(s).y = Goal(Tail(s), v.job)
        /\ Head(s).second => Head(s).low = Head(s).x * Yp(Head(s).y)
        /\ Goal(s, v.job) = Part(Head(s))
    BY <1>4, <2>1, <2>2, PopKeeps
  <2> QED
    BY <2>1, <2>2, <2>3
<1>6. out[t] = top.x * Ypp(top.y)
  BY <1>0, <1>1, <1>3, <1>4, <1>5 DEF ForProduct, Part
<1>7. top.x \in Int /\ top.y \in Int
  BY <1>5 DEF Frame
<1> HIDE DEF top
<1>8. out[t] * Slice(top.y) + top.low = top.x * top.y
  <2>1. PICK p \in Int, q \in Int, s \in Int :
          /\ p = Yp(top.y) /\ q = Ypp(top.y) /\ s = Slice(top.y)
          /\ p + q * s = top.y
    <3>1. /\ Slice(top.y) \in Int /\ Yp(top.y) \in Int /\ Ypp(top.y) \in Int
          /\ Yp(top.y) + Ypp(top.y) * Slice(top.y) = top.y
      BY <1>7, PartsAdd
    <3> QED
      BY <3>1
  <2>2. PICK x \in Int : x = top.x
    BY <1>7
  <2>3. (x * q) * s + x * p = x * (p + q * s)
    <3>1. (x * q) * s = x * (q * s) /\ x * (p + q * s) = x * p + x * (q * s)
      OBVIOUS
    <3>2. x * (q * s) \in Int /\ x * p \in Int
      OBVIOUS
    <3> QED
      BY <3>1, <3>2
  <2> QED
    BY <1>5, <1>6, <2>1, <2>2, <2>3
<1>9. /\ w.pc = "product" /\ w.job = v.job /\ w.stack = Tail(v.stack)
      /\ w.factors = v.factors
      /\ w.ret = "ok" => w.out = top.x * top.y
  <2>1. /\ stack'[t] = Tail(stack[t]) /\ pc'[t] = "product"
        /\ ret'[t] = "ok" => out'[t] = top.x * top.y
    BY <1>1, <1>8 DEF CallsInv, Domains
  <2> QED
    BY <1>0, <1>1, <2>1
<1>10. ForProduct(w)
  BY <1>5, <1>9 DEF ForProduct, AtEngine, InHardware
<1> QED
  BY <1>4, <1>5, <1>9, <1>10 DEF ViewInv, Factored

\* ProductReturns and Return end the call.
LEMMA ReturnsKeep ==
  ASSUME CallsInv, LockInv, NEW t \in Tasks, ProductReturns(t) \/ Return(t)
  PROVE  CallsInv'
<1> DEFINE v == View(t)
           w == View(t)'
<1>0. /\ v.pc = pc[t] /\ v.job = job[t] /\ v.stack = stack[t]
      /\ v.factors = factors[t] /\ v.out = out[t] /\ v.ret = ret[t]
      /\ w.pc = pc'[t] /\ w.job = job'[t] /\ w.stack = stack'[t]
      /\ w.factors = factors'[t] /\ w.out = out'[t] /\ w.ret = ret'[t]
  BY ViewFields, ViewFieldsNext
<1> HIDE DEF v, w
<1>a. ViewInv(v) /\ (pc[t] # "idle" => job[t] \in Jobs[t])
  BY DEF CallsInv, v
<1>1. CASE ProductReturns(t)
  <2>1. /\ pc[t] = "product" /\ pc' = [pc EXCEPT ![t] = "returned"]
        /\ stack[t] = <<>> \/ ret[t] # "ok"
        /\ stack' = [stack EXCEPT ![t] = <<>>]
        /\ UNCHANGED <<job, factors, kind, out, ret, rinv, cached>>
    BY <1>1 DEF ProductReturns, Goto
  <2>2. Touches(t)
    BY <2>1 DEF Touches, CallsInv, Domains, LockInv
  <2>3. /\ v.job.op = "mul" /\ v.job \in Job
        /\ Followed(v) => ForProduct(v) /\ Factored(v)
    BY <1>0, <1>a, <2>1 DEF ViewInv
  <2>4. /\ w.pc = "returned" /\ w.job = v.job /\ w.stack = <<>>
        /\ w.factors = v.factors /\ w.out = v.out /\ w.ret = v.ret
    <3>1. pc'[t] = "returned" /\ stack'[t] = <<>>
      BY <2>1 DEF CallsInv, Domains, LockInv
    <3> QED
      BY <1>0, <2>1, <3>1
  <2>5. Followed(v) /\ w.ret = "ok" => w.out = Goal(w.stack, w.job)
    BY <1>0, <2>1, <2>3, <2>4 DEF ForProduct
  <2>6. Followed(v) => ForProduct(w)
    BY <2>4, <2>5, EmptyChain DEF ForProduct, AtEngine, InHardware
  <2>7. ViewInv(w)
    BY <2>3, <2>4, <2>6, EmptyChain DEF ViewInv, Factored, Followed
  <2>8. pc'[t] # "idle" => job'[t] \in Jobs[t]
    BY <1>a, <2>1
  <2> QED
    BY <2>2, <2>7, <2>8, CallsKeep DEF w
<1>2. CASE Return(t)
  <2>1. /\ pc[t] = "returned" /\ pc' = [pc EXCEPT ![t] = "idle"]
        /\ UNCHANGED <<stack, cached>>
        /\ Touches(t)
    BY <1>2 DEF Return, Goto, Touches, CallsInv, Domains, LockInv
  <2>2. w.pc = "idle" /\ w.stack = <<>>
    <3>1. pc'[t] = "idle" /\ stack'[t] = stack[t]
      BY <2>1 DEF CallsInv, Domains, LockInv
    <3>2. stack[t] = <<>>
      BY <1>0, <1>a, <2>1 DEF ViewInv
    <3> QED
      BY <1>0, <3>1, <3>2
  <2>3. ViewInv(w)
    BY <2>2 DEF ViewInv
  <2>4. pc'[t] # "idle" => job'[t] \in Jobs[t]
    BY <1>0, <2>2
  <2> QED
    BY <2>1, <2>3, <2>4, CallsKeep DEF w
<1> QED
  BY <1>1, <1>2

\* The steps at the accelerator that move on.
LEMMA MovesKeep ==
  ASSUME CallsInv, LockInv, NEW t \in Tasks, UNCHANGED callVars,
         NEW l \in AtEngine \ {"release"}, pc[t] \in AtEngine \ {"release"},
         pc' = [pc EXCEPT ![t] = l]
  PROVE  CallsInv'
<1> DEFINE v == View(t)
           w == View(t)'
<1>0. /\ v.pc = pc[t] /\ v.job = job[t] /\ v.stack = stack[t]
      /\ v.factors = factors[t] /\ v.out = out[t] /\ v.ret = ret[t]
      /\ v.kind = kind[t] /\ v.rinv = rinv[t]
      /\ w.pc = pc'[t] /\ w.job = job'[t] /\ w.stack = stack'[t]
      /\ w.factors = factors'[t] /\ w.out = out'[t] /\ w.ret = ret'[t]
      /\ w.kind = kind'[t] /\ w.rinv = rinv'[t]
  BY ViewFields, ViewFieldsNext
<1> HIDE DEF v, w
<1>1. Touches(t)
  BY DEF Touches, CallsInv, Domains, LockInv, callVars
<1>2. ViewInv(v) /\ job[t] \in Jobs[t] /\ job'[t] = job[t]
  BY DEF CallsInv, v, callVars, AtEngine, InHardware
<1>3. /\ w.pc = l /\ w.job = v.job /\ w.stack = v.stack
      /\ w.factors = v.factors /\ w.out = v.out /\ w.ret = v.ret
      /\ w.kind = v.kind /\ w.rinv = v.rinv
  BY <1>0 DEF LockInv, callVars
<1>4. SameCall(v, w)
  BY <1>3 DEF SameCall
<1>5. Size(w) = Size(v) /\ Usable(w) = Usable(v)
  BY <1>4, SameCallSameAnswer
<1> SUFFICES ASSUME Followed(v) PROVE ViewInv(w)
  BY <1>0, <1>1, <1>2, <1>3, UnfollowedKeeps, CallsKeep
     DEF w, AtEngine, InHardware
<1>6. /\ v.job \in Job /\ v.stack \in Seq(Frame) /\ Factored(v)
      /\ IF v.job.op = "mul" THEN ForProduct(v) ELSE ForModular(v)
  BY <1>0, <1>2 DEF ViewInv, AtEngine, InHardware
<1>7. v.job.op = "mul" => ForProduct(w)
  BY <1>0, <1>3, <1>5, <1>6 DEF ForProduct, AtEngine, InHardware, Multiplies
<1>8. v.job.op # "mul" => ForModular(w)
  BY <1>0, <1>3, <1>5, <1>6 DEF ForModular, AtEngine, InHardware
<1> QED
  BY <1>2, <1>3, <1>6, <1>7, <1>8 DEF ViewInv, Factored, AtEngine, InHardware

\* What is read is the answer.
LEMMA ReadResultKeeps ==
  ASSUME CallsInv, LockInv, ResultInv, NEW t \in Tasks, ReadResult(t)
  PROVE  CallsInv'
<1> DEFINE v == View(t)
           w == View(t)'
<1>0. /\ v.pc = pc[t] /\ v.job = job[t] /\ v.stack = stack[t]
      /\ v.factors = factors[t] /\ v.out = out[t] /\ v.ret = ret[t]
      /\ v.kind = kind[t] /\ v.rinv = rinv[t]
      /\ w.pc = pc'[t] /\ w.job = job'[t] /\ w.stack = stack'[t]
      /\ w.factors = factors'[t] /\ w.out = out'[t] /\ w.ret = ret'[t]
      /\ w.kind = kind'[t] /\ w.rinv = rinv'[t]
  BY ViewFields, ViewFieldsNext
<1> HIDE DEF v, w
<1>1. /\ pc[t] = "read" /\ pc' = [pc EXCEPT ![t] = "release"]
      /\ UNCHANGED <<job, stack, factors, kind, rinv, cached>>
      /\ \/ out' = [out EXCEPT ![t] = engine.z * ResultSign(t)] /\ UNCHANGED ret
         \/ ret' = [ret EXCEPT ![t] = "failed"] /\ UNCHANGED out
  BY DEF ReadResult, Goto, mem_block_to_mpi
<1>2. Touches(t)
  BY <1>1 DEF Touches, CallsInv, Domains, LockInv
<1>3. ViewInv(v) /\ v.pc = "read" /\ job[t] \in Jobs[t] /\ job'[t] = job[t]
  BY <1>0, <1>1 DEF CallsInv, v
<1>4. /\ w.pc = "release" /\ w.job = v.job /\ w.stack = v.stack
      /\ w.factors = v.factors /\ w.kind = v.kind /\ w.rinv = v.rinv
      /\ w.ret = "ok" => w.out = engine.z * ResultSign(t)
  <2>1. pc'[t] = "release" /\ (ret'[t] = "ok" => out'[t] = engine.z * ResultSign(t))
    BY <1>1 DEF CallsInv, Domains, LockInv
  <2> QED
    BY <1>0, <1>1, <2>1
<1>5. SameCall(v, w)
  BY <1>4 DEF SameCall
<1>6. Size(w) = Size(v) /\ Usable(w) = Usable(v) /\ Answer(w) = Answer(v)
  BY <1>5, SameCallSameAnswer
<1> SUFFICES ASSUME Followed(v) PROVE ViewInv(w)
  BY <1>2, <1>3, <1>4, UnfollowedKeeps, CallsKeep DEF w
<1>7. Usable(v) => engine.z = Final(v)
  BY <1>1 DEF ResultInv, EngineInv, v
<1>8. /\ v.job \in Job /\ v.stack \in Seq(Frame) /\ Factored(v)
      /\ IF v.job.op = "mul" THEN ForProduct(v) ELSE ForModular(v)
  BY <1>3 DEF ViewInv
<1>9. ResultSign(t) = IF v.kind = "expmod" THEN Sign(v.out)
                      ELSE Sign(v.factors[1]) * Sign(v.factors[2])
  BY <1>0 DEF ResultSign, X, Y
<1>10. v.job.op = "mul" => ForProduct(w)
  <2> SUFFICES ASSUME v.job.op = "mul" PROVE ForProduct(w)
    OBVIOUS
  <2>1. Multiplies(v) /\ ForProduct(v)
    BY <1>3, <1>8 DEF ForProduct, AtEngine, InHardware
  <2>2. Usable(v)
    BY <2>1 DEF Usable, Multiplies
  <2>3. w.ret = "ok" => w.out = Answer(v)
    BY <1>4, <1>7, <1>9, <2>1, <2>2 DEF Answer, Multiplies
  <2> QED
    BY <1>3, <1>4, <1>6, <2>1, <2>3 DEF ForProduct, AtEngine, InHardware, Multiplies
<1>11. v.job.op # "mul" => ForModular(w)
  <2> SUFFICES ASSUME v.job.op # "mul" PROVE ForModular(w)
    OBVIOUS
  <2>1. ForModular(v)
    BY <1>8
  <2>2. v.out = v.job.z
    BY <1>3, <2>1 DEF ForModular, AtEngine, InHardware
  <2>3. w.ret = "ok" /\ Usable(v) => w.out = Answer(v)
    BY <1>4, <1>7, <1>9, <2>2 DEF Answer
  <2> QED
    BY <1>3, <1>4, <1>6, <2>1, <2>3 DEF ForModular, AtEngine, InHardware
<1> QED
  BY <1>3, <1>4, <1>8, <1>10, <1>11 DEF ViewInv, Factored

\* The answer of a product is the product.
LEMMA ReleaseKeeps ==
  ASSUME CallsInv, LockInv, NEW t \in Tasks, Release(t)
  PROVE  CallsInv'
<1> DEFINE v == View(t)
           w == View(t)'
<1>0. /\ v.pc = pc[t] /\ v.job = job[t] /\ v.stack = stack[t]
      /\ v.factors = factors[t] /\ v.out = out[t] /\ v.ret = ret[t]
      /\ v.kind = kind[t] /\ v.rinv = rinv[t]
      /\ w.pc = pc'[t] /\ w.job = job'[t] /\ w.stack = stack'[t]
      /\ w.factors = factors'[t] /\ w.out = out'[t] /\ w.ret = ret'[t]
      /\ w.kind = kind'[t] /\ w.rinv = rinv'[t]
  BY ViewFields, ViewFieldsNext
<1> HIDE DEF v, w
<1>1. /\ pc[t] = "release"
      /\ pc' = [pc EXCEPT ![t] = IF job[t].op = "mul" THEN "product" ELSE "returned"]
      /\ UNCHANGED callVars
  BY DEF Release, Goto
<1>2. Touches(t)
  BY <1>1 DEF Touches, CallsInv, Domains, LockInv, callVars
<1>3. ViewInv(v) /\ v.pc = "release" /\ job[t] \in Jobs[t] /\ job'[t] = job[t]
  BY <1>0, <1>1 DEF CallsInv, v, callVars
<1>4. /\ w.job = v.job /\ w.stack = v.stack /\ w.factors = v.factors
      /\ w.kind = v.kind /\ w.rinv = v.rinv /\ w.out = v.out /\ w.ret = v.ret
      /\ w.pc = IF v.job.op = "mul" THEN "product" ELSE "returned"
  BY <1>0, <1>1 DEF callVars, LockInv
<1>5. SameCall(v, w)
  BY <1>4 DEF SameCall
<1>6. Size(w) = Size(v) /\ Usable(w) = Usable(v) /\ Answer(w) = Answer(v)
  BY <1>5, SameCallSameAnswer
<1>a. w.pc = "returned" => w.stack = <<>>
  BY <1>3, <1>4 DEF ViewInv, Followed, ForModular
<1> SUFFICES ASSUME Followed(v) PROVE ViewInv(w)
  BY <1>2, <1>3, <1>4, <1>a, UnfollowedKeeps, CallsKeep DEF w
<1>7. /\ v.job \in Job /\ v.stack \in Seq(Frame) /\ Factored(v)
      /\ IF v.job.op = "mul" THEN ForProduct(v) ELSE ForModular(v)
  BY <1>3 DEF ViewInv
<1>8. v.job.op = "mul" => ForProduct(w)
  <2> SUFFICES ASSUME v.job.op = "mul" PROVE ForProduct(w)
    OBVIOUS
  <2>1. /\ Multiplies(v) /\ v.factors[1] * v.factors[2] = Goal(v.stack, v.job)
        /\ v.ret = "ok" => v.out = Answer(v)
        /\ Chain(v.stack, v.job)
    BY <1>3, <1>7 DEF ForProduct, AtEngine, InHardware
  <2>2. Answer(v) = v.factors[1] * v.factors[2]
    BY <1>7, <2>1, MultiplyAnswer, FailoverAnswer DEF Multiplies
  <2> QED
    BY <1>4, <2>1, <2>2 DEF ForProduct, AtEngine, InHardware
<1>9. v.job.op # "mul" => ForModular(w)
  BY <1>3, <1>4, <1>6, <1>7 DEF ForModular, AtEngine, InHardware
<1> QED
  BY <1>3, <1>4, <1>7, <1>8, <1>9, <1>a DEF ViewInv, Factored

-----------------------------------------------------------------------------
(* The accelerator has what the task that holds the lock waits for.        *)

\* Only the task that holds the lock matters.
LEMMA ResultKeeps ==
  ASSUME LockInv', NEW t \in Tasks, mpi_lock' = t,
         (Usable(View(t)) => EngineInv(pc[t], View(t)))'
  PROVE  ResultInv'
<1>1. ASSUME NEW u \in Tasks, u # t
      PROVE  EngineInv(pc[u], View(u))'
  BY <1>1 DEF LockInv, EngineInv, InHardware
<1> QED
  BY <1>1 DEF ResultInv

\* What is known of a call that is at the accelerator.
Sized(v) ==
  /\ Factored(v) /\ Size(v) \in Nat \ {0} /\ Blocks(Size(v))
  /\ v.kind = "multiply" =>
       \E h \in Nat \ {0} : Size(v) = 2 * h /\ Blocks(h)
  /\ TwoStaged(v) => Size(v) <= MaxWords

\* A call that reached the accelerator fits it.
LEMMA SizesAtEngine ==
  ASSUME NEW v, ViewInv(v), v.pc \in AtEngine, Usable(v)
  PROVE  /\ Sized(v) /\ v.kind \in {"multiply", "failover", "mulmod", "expmod"}
<1>1. /\ v.job \in Job /\ Factored(v)
      /\ IF v.job.op = "mul" THEN ForProduct(v) ELSE ForModular(v)
  BY DEF ViewInv, Usable, AtEngine, InHardware
<1>2. PICK x \in Int, y \in Int : x = v.factors[1] /\ y = v.factors[2]
  BY <1>1 DEF Factored
<1>3. CASE v.job.op = "mul"
  <2>1. Multiplies(v)
    BY <1>1, <1>3 DEF ForProduct
  <2>2. CASE v.kind = "multiply"
    <3>1. PICK h \in Nat \ {0} : h = WordsMult(x, y) /\ Blocks(h)
      <4>1. Magnitude(x) > 0
        BY <1>2, <2>1, MagnitudeType DEF Multiplies
      <4>2. PICK h \in Nat : /\ h = WordsMult(x, y) /\ Blocks(h)
                             /\ Magnitude(x) > 0 => h > 0
        BY WordsMultIs
      <4> QED
        BY <4>1, <4>2
    <3>2. Size(v) = 2 * h
      BY <1>2, <2>2, <3>1 DEF Size
    <3>3. Blocks(2 * h)
      <4>1. PICK q \in Nat : h = q * BlockLimbs
        BY <3>1 DEF Blocks
      <4>2. 2 * h = (2 * q) * BlockLimbs /\ 2 * q \in Nat
        BY <4>1, SizesArePositive
      <4> QED
        BY <4>2 DEF Blocks
    <3> QED
      BY <1>1, <2>2, <3>1, <3>2, <3>3 DEF Sized, TwoStaged
  <2>3. CASE v.kind = "failover"
    <3>1. /\ WordsSum(x, y) \in Nat \ {0} /\ Blocks(WordsSum(x, y))
      BY <1>2, <2>1, WordsSumIs DEF Multiplies
    <3>2. Size(v) = WordsSum(x, y)
      BY <1>2, <2>3 DEF Size
    <3> QED
      BY <1>1, <2>1, <2>3, <3>1, <3>2 DEF Sized, Multiplies
  <2> QED
    BY <2>1, <2>2, <2>3 DEF Multiplies
<1>4. CASE v.job.op # "mul"
  <2>1. v.kind = v.job.op /\ v.job.op \in {"mulmod", "expmod"}
    BY <1>1, <1>4 DEF ForModular, Job
  <2>2. v.job.x \in Int /\ v.job.y \in Int /\ v.job.z \in Int /\ v.job.m \in Int
    BY <1>1 DEF Job
  <2>3. CASE v.kind = "mulmod"
    <3>1. Size(v) = hardware_words_needed(v.job.m)
      BY <2>3 DEF Size
    <3>2. Size(v) \in Nat \ {0} /\ Blocks(Size(v))
      BY <2>2, <3>1, WordsNeeded
    <3> QED
      BY <1>1, <2>3, <3>2 DEF Sized, Usable
  <2>4. CASE v.kind = "expmod"
    <3>1. Size(v) = ExpWords(v.job)
      BY <2>4 DEF Size
    <3>2. Size(v) \in Nat \ {0} /\ Blocks(Size(v))
      BY <2>2, <3>1, ExpWordsIs
    <3> QED
      BY <1>1, <2>4, <3>2 DEF Sized, TwoStaged
  <2> QED
    BY <2>1, <2>3, <2>4
<1> QED
  BY <1>3, <1>4

\* The mode register tells the size and the algorithm.
LEMMA ModeTells ==
  ASSUME NEW w \in Nat \ {0}, Blocks(w)
  PROVE  /\ MontgomeryMode(w) \in Nat
         /\ (MontgomeryMode(w) + 1) * BlockLimbs = w
         /\ w <= MaxWords => MontgomeryMode(w) < 2 * MulBlocks
         /\ MultiplierMode(w) \in Nat
         /\ ~(MultiplierMode(w) < 2 * MulBlocks)
         /\ (MultiplierMode(w) + 1 - 2 * MulBlocks) * BlockLimbs = w
<1>1. PICK B \in Nat \ {0}, H \in Nat \ {0} : B = BlockLimbs /\ H = MulBlocks
  BY SizesArePositive
<1>2. PICK q \in Nat : w = q * B
  BY <1>1 DEF Blocks
<1>3. q > 0
  BY <1>2
<1>4. w \div B = q
  <2>1. w = B * q + 0 /\ 0 \in 0..(B - 1)
    BY <1>2
  <2> QED
    BY <2>1, DivisionIs
<1>5. w <= MaxWords => q <= 2 * H
  <2> SUFFICES ASSUME w <= MaxWords, q >= 2 * H + 1 PROVE FALSE
    <3>1. MaxWords \in Int
      BY <1>1 DEF MaxWords
    <3> QED
      BY <1>1
  <2>1. B * (2 * H + 1) <= B * q
    BY TimesMonotone
  <2>2. B * (2 * H + 1) = 2 * H * B + B /\ B * q = w
    BY <1>2
  <2>3. MaxWords = 2 * H * B /\ 2 * H * B \in Int
    BY <1>1 DEF MaxWords
  <2> QED
    BY <2>1, <2>2, <2>3
<1>6. /\ MontgomeryMode(w) = q - 1
      /\ MultiplierMode(w) = q + 2 * H - 1
  BY <1>1, <1>4 DEF MontgomeryMode, MultiplierMode
<1>7. ((q - 1) + 1) * B = w /\ ((q + 2 * H - 1) + 1 - 2 * H) * B = w
  BY <1>2
<1> QED
  BY <1>1, <1>3, <1>5, <1>6, <1>7

\* What the load of a call writes.
LoadedFor(e, v) ==
  LET w == Size(v)
      Block(n) == mpi_to_mem_block(n, w)
      Half(n)  == mpi_to_mem_block(n, w \div 2)
  IN  /\ v.kind = "multiply" =>
           /\ e.x = Half(v.factors[1])
           /\ e.z = Half(v.factors[2]) * BaseTo(w \div 2)
           /\ e.mode = MultiplierMode(w)
      /\ v.kind # "multiply" =>
           /\ e.x = Block(v.factors[1])
           /\ e.z = IF v.kind = "failover" THEN 1 ELSE Block(v.rinv)
           /\ e.m = Modulus(v) /\ e.mprime = Mprime(v)
           /\ e.mode = MontgomeryMode(w)
      /\ v.kind = "expmod" => e.y = Block(v.factors[2])

\* Words is the size that the call was given.
LEMMA WordsIsSize ==
  ASSUME NEW t, kind[t] \in {"multiply", "failover", "mulmod", "expmod"}
  PROVE  Words(t) = Size(View(t))
<1>1. /\ View(t).kind = kind[t] /\ View(t).factors = factors[t]
      /\ View(t).job = job[t]
  BY ViewFields
<1> QED
  BY <1>1 DEF Words, Size, X, Y

\* The registers as loaded are those of the call.
LEMMA LoadedIs ==
  ASSUME NEW t, WaitInv, kind[t] \in {"multiply", "failover", "mulmod", "expmod"}
  PROVE  LoadedFor(Loaded(t), View(t))
<1> DEFINE v == View(t)
<1>0. v.kind = kind[t] /\ v.factors = factors[t] /\ v.job = job[t] /\ v.rinv = rinv[t]
  BY ViewFields
<1> HIDE DEF v
<1>1. PICK w : w = Words(t) /\ w = Size(v)
  BY WordsIsSize DEF v
<1>2. engine = [f \in Fields |-> engine[f]]
  BY DEF WaitInv
<1>3. Modulus(v) = (IF v.kind = "failover" THEN BaseTo(w) - 1
                    ELSE mpi_to_mem_block(job[t].m, w))
      /\ Mprime(v) = (IF v.kind = "failover" THEN 1 ELSE modular_inverse(job[t].m))
  BY <1>0, <1>1 DEF Modulus, Mprime
<1>4. CASE kind[t] = "multiply"
  <2>1. Loaded(t) = LoadedMultiply(t, w)
    BY <1>1, <1>4 DEF Loaded
  <2>2. /\ Loaded(t).x = mpi_to_mem_block(factors[t][1], w \div 2)
        /\ Loaded(t).z = mpi_to_mem_block(factors[t][2], w \div 2) * BaseTo(w \div 2)
        /\ Loaded(t).mode = MultiplierMode(w)
    BY <1>2, <2>1 DEF LoadedMultiply, Fields, X, Y
  <2> QED
    BY <1>0, <1>1, <1>4, <2>2 DEF LoadedFor, v
<1>5. CASE kind[t] = "failover"
  <2>1. Loaded(t) = LoadedFailover(t, w)
    BY <1>1, <1>5 DEF Loaded
  <2>2. /\ Loaded(t).x = mpi_to_mem_block(factors[t][1], w)
        /\ Loaded(t).z = 1 /\ Loaded(t).m = BaseTo(w) - 1
        /\ Loaded(t).mprime = 1 /\ Loaded(t).mode = MontgomeryMode(w)
    BY <1>2, <2>1 DEF LoadedFailover, Fields, X, Y
  <2> QED
    BY <1>0, <1>1, <1>3, <1>5, <2>2 DEF LoadedFor, v
<1>6. /\ LoadedMulMod(t, w).x = mpi_to_mem_block(factors[t][1], w)
      /\ LoadedMulMod(t, w).z = mpi_to_mem_block(rinv[t], w)
      /\ LoadedMulMod(t, w).m = mpi_to_mem_block(job[t].m, w)
      /\ LoadedMulMod(t, w).mprime = modular_inverse(job[t].m)
      /\ LoadedMulMod(t, w).mode = MontgomeryMode(w)
      /\ LoadedMulMod(t, w) = [f \in Fields |-> LoadedMulMod(t, w)[f]]
  BY <1>2 DEF LoadedMulMod, Fields, X, Y
<1>7. CASE kind[t] = "mulmod"
  <2>1. Loaded(t) = LoadedMulMod(t, w)
    BY <1>1, <1>7 DEF Loaded
  <2> QED
    BY <1>0, <1>1, <1>3, <1>6, <1>7, <2>1 DEF LoadedFor, v
<1>8. CASE kind[t] = "expmod"
  <2>1. Loaded(t) = LoadedExpMod(t, w)
    BY <1>1, <1>8 DEF Loaded
  <2>2. /\ Loaded(t).x = mpi_to_mem_block(factors[t][1], w)
        /\ Loaded(t).z = mpi_to_mem_block(rinv[t], w)
        /\ Loaded(t).m = mpi_to_mem_block(job[t].m, w)
        /\ Loaded(t).mprime = modular_inverse(job[t].m)
        /\ Loaded(t).mode = MontgomeryMode(w)
        /\ Loaded(t).y = mpi_to_mem_block(factors[t][2], w)
    BY <1>6, <2>1 DEF LoadedExpMod, Fields, X, Y
  <2> QED
    BY <1>0, <1>1, <1>3, <1>8, <2>2 DEF LoadedFor, v
<1> QED
  BY <1>4, <1>5, <1>7, <1>8

\* What the accelerator makes of its registers.
Computes(e) ==
  IF e.running = "modexp"
  THEN ModExp(e.x, e.y, e.m, e.z, e.mprime, (e.mode + 1) * BlockLimbs)
  ELSE IF e.mode < 2 * MulBlocks
  THEN Montgomery(e.x, e.z, e.m, e.mprime, (e.mode + 1) * BlockLimbs)
  ELSE Multiplier(e.x, e.z, (e.mode + 1 - 2 * MulBlocks) * BlockLimbs)

\* EngineResult as a function of the registers.
LEMMA EngineComputes == EngineResult = Computes(engine)
  BY DEF EngineResult, Computes

\* The first start computes the first stage.
LEMMA FirstIs ==
  ASSUME NEW v, Sized(v), v.kind \in {"multiply", "failover", "mulmod", "expmod"},
         NEW e, LoadedFor(e, v),
         e.running = IF v.kind = "expmod" THEN "modexp" ELSE "mult"
  PROVE  Computes(e) = First(v)
<1>1. PICK w \in Nat \ {0} : w = Size(v) /\ Blocks(w)
  BY DEF Sized
<1>2. /\ (MontgomeryMode(w) + 1) * BlockLimbs = w
      /\ w <= MaxWords => MontgomeryMode(w) < 2 * MulBlocks
      /\ ~(MultiplierMode(w) < 2 * MulBlocks)
      /\ (MultiplierMode(w) + 1 - 2 * MulBlocks) * BlockLimbs = w
  BY <1>1, ModeTells
<1>3. CASE v.kind = "multiply"
  <2>1. /\ e.x = mpi_to_mem_block(v.factors[1], w \div 2)
        /\ e.z = mpi_to_mem_block(v.factors[2], w \div 2) * BaseTo(w \div 2)
        /\ e.mode = MultiplierMode(w)
        /\ e.running = "mult"
    BY <1>1, <1>3 DEF LoadedFor
  <2>2. Computes(e) = Multiplier(e.x, e.z, w)
    BY <1>2, <2>1 DEF Computes
  <2> QED
    BY <1>1, <1>3, <2>1, <2>2 DEF First
<1>4. CASE v.kind \in {"failover", "mulmod"}
  <2>1. /\ e.x = mpi_to_mem_block(v.factors[1], w)
        /\ e.z = IF v.kind = "failover" THEN 1 ELSE mpi_to_mem_block(v.rinv, w)
        /\ e.m = Modulus(v) /\ e.mprime = Mprime(v)
        /\ e.mode = MontgomeryMode(w)
        /\ e.running = "mult"
    BY <1>1, <1>4 DEF LoadedFor
  <2>2. w <= MaxWords
    BY <1>1, <1>4 DEF Sized, TwoStaged
  <2>3. Computes(e) = Montgomery(e.x, e.z, e.m, e.mprime, w)
    BY <1>2, <2>1, <2>2 DEF Computes
  <2> QED
    BY <1>1, <1>4, <2>1, <2>3 DEF First
<1>5. CASE v.kind = "expmod"
  <2>1. /\ e.x = mpi_to_mem_block(v.factors[1], w)
        /\ e.y = mpi_to_mem_block(v.factors[2], w)
        /\ e.z = mpi_to_mem_block(v.rinv, w)
        /\ e.m = Modulus(v) /\ e.mprime = Mprime(v)
        /\ e.mode = MontgomeryMode(w)
        /\ e.running = "modexp"
    BY <1>1, <1>5 DEF LoadedFor
  <2>2. Computes(e) = ModExp(e.x, e.y, e.m, e.z, e.mprime, w)
    BY <1>2, <2>1 DEF Computes
  <2> QED
    BY <1>1, <1>5, <2>1, <2>2 DEF First
<1> QED
  BY <1>3, <1>4, <1>5

\* What a task at the accelerator knows: its view, its size and its kind.
LEMMA AtEngineKnows ==
  ASSUME CallsInv, NEW t \in Tasks, pc[t] \in AtEngine, Usable(View(t))
  PROVE  /\ Sized(View(t))
         /\ kind[t] \in {"multiply", "failover", "mulmod", "expmod"}
         /\ Words(t) = Size(View(t))
<1>1. ViewInv(View(t)) /\ View(t).pc = pc[t] /\ View(t).kind = kind[t]
  BY ViewFields DEF CallsInv
<1>2. /\ Sized(View(t))
      /\ kind[t] \in {"multiply", "failover", "mulmod", "expmod"}
  BY <1>1, SizesAtEngine
<1> QED
  BY <1>2, WordsIsSize

\* The steps at the accelerator leave the call alone.
LEMMA SameView ==
  ASSUME NEW t, UNCHANGED callVars
  PROVE  SameCall(View(t), View(t)')
<1>1. /\ View(t).job = job[t] /\ View(t).factors = factors[t]
      /\ View(t).kind = kind[t] /\ View(t).rinv = rinv[t]
      /\ View(t)'.job = job'[t] /\ View(t)'.factors = factors'[t]
      /\ View(t)'.kind = kind'[t] /\ View(t)'.rinv = rinv'[t]
  BY ViewFields, ViewFieldsNext
<1> QED
  BY <1>1 DEF SameCall, callVars

\* Once started, the accelerator computes the first result of the call ...
LEMMA StartOpComputes ==
  ASSUME CallsInv, LockInv, WaitInv, LockInv', NEW t \in Tasks, StartOp(t)
  PROVE  ResultInv'
<1>1. /\ pc[t] = "load" /\ pc' = [pc EXCEPT ![t] = "wait"]
      /\ engine' = [Loaded(t) EXCEPT !.interrupt = FALSE,
                                     !.running = StartRegister(t)]
      /\ UNCHANGED mpi_lock /\ UNCHANGED callVars
  BY DEF StartOp, Goto
<1>2. mpi_lock' = t /\ pc'[t] = "wait"
  BY <1>1 DEF LockInv, InHardware
<1> DEFINE v == View(t)
           w == View(t)'
<1>3. SameCall(v, w)
  BY <1>1, SameView
<1> HIDE DEF v, w
<1>4. ASSUME Usable(w)
      PROVE  /\ engine'.running # "none" /\ Computes(engine') = First(w)
             /\ TwoStaged(w) => /\ engine'.m = Modulus(w)
                                /\ engine'.mprime = Mprime(w)
                                /\ engine'.mode = MontgomeryMode(Size(w))
  <2>1. /\ Size(w) = Size(v) /\ Modulus(w) = Modulus(v) /\ Mprime(w) = Mprime(v)
        /\ First(w) = First(v) /\ TwoStaged(w) = TwoStaged(v) /\ Usable(v)
    BY <1>3, <1>4, SameCallSameAnswer
  <2>2. /\ Sized(v)
        /\ kind[t] \in {"multiply", "failover", "mulmod", "expmod"}
    BY <1>1, <2>1, AtEngineKnows DEF v, AtEngine, InHardware
  <2>3. v.kind = kind[t]
    BY ViewFields DEF v
  <2>4. LoadedFor(Loaded(t), v) /\ Loaded(t) = [f \in Fields |-> Loaded(t)[f]]
    BY <2>2, LoadedIs, LoadedFields DEF v
  <2>5. /\ engine'.x = Loaded(t).x /\ engine'.y = Loaded(t).y
        /\ engine'.z = Loaded(t).z /\ engine'.m = Loaded(t).m
        /\ engine'.mprime = Loaded(t).mprime /\ engine'.mode = Loaded(t).mode
        /\ engine'.running = StartRegister(t)
    BY <1>1, <2>4 DEF Fields
  <2>6. LoadedFor(engine', v)
    BY <2>4, <2>5 DEF LoadedFor
  <2>7. engine'.running = IF v.kind = "expmod" THEN "modexp" ELSE "mult"
    BY <2>3, <2>5 DEF StartRegister
  <2>8. Computes(engine') = First(v)
    BY <2>2, <2>3, <2>6, <2>7, FirstIs
  <2>9. TwoStaged(v) => /\ engine'.m = Modulus(v) /\ engine'.mprime = Mprime(v)
                        /\ engine'.mode = MontgomeryMode(Size(v))
    BY <2>6 DEF LoadedFor, TwoStaged
  <2> QED
    BY <2>1, <2>7, <2>8, <2>9
<1>5. EngineResult' = Computes(engine')
  BY DEF EngineResult, Computes
<1>6. (Usable(View(t)) => EngineInv(pc[t], View(t)))'
  BY <1>2, <1>4, <1>5 DEF EngineInv, Awaits, Kept, w
<1> QED
  BY <1>2, <1>6, ResultKeeps

\* ... and with the second stage the final one.
LEMMA StartSecondStageComputes ==
  ASSUME CallsInv, ResultInv, LockInv, WaitInv, LockInv', NEW t \in Tasks,
         StartSecondStage(t)
  PROVE  ResultInv'
<1>1. /\ pc[t] = "load2" /\ pc' = [pc EXCEPT ![t] = "wait2"]
      /\ engine' = [engine EXCEPT !.x = mpi_to_mem_block(Y(t), Words(t)),
                                  !.interrupt = FALSE, !.running = "mult"]
      /\ UNCHANGED mpi_lock /\ UNCHANGED callVars
  BY DEF StartSecondStage, Goto
<1>2. mpi_lock' = t /\ pc'[t] = "wait2"
  BY <1>1 DEF LockInv, InHardware
<1> DEFINE v == View(t)
           w == View(t)'
<1>3. SameCall(v, w)
  BY <1>1, SameView
<1> HIDE DEF v, w
<1>4. ASSUME Usable(w)
      PROVE  engine'.running # "none" /\ Computes(engine') = Final(w)
  <2>1. Final(w) = Final(v) /\ Usable(v)
    BY <1>3, <1>4, SameCallSameAnswer
  <2>2. Sized(v) /\ Words(t) = Size(v)
    BY <1>1, <2>1, AtEngineKnows DEF v, AtEngine, InHardware
  <2>3. TwoStaged(v) /\ engine.z = First(v) /\ Kept(v)
    BY <1>1, <2>1 DEF ResultInv, EngineInv, v
  <2>4. PICK n \in Nat \ {0} : n = Size(v) /\ Blocks(n) /\ n <= MaxWords
    BY <2>2, <2>3 DEF Sized
  <2>5. v.factors = factors[t]
    BY ViewFields DEF v
  <2>6. /\ engine'.x = mpi_to_mem_block(v.factors[2], n)
        /\ engine'.z = First(v) /\ engine'.m = Modulus(v)
        /\ engine'.mprime = Mprime(v) /\ engine'.mode = MontgomeryMode(n)
        /\ engine'.running = "mult"
    <3>1. engine = [f \in Fields |-> engine[f]]
      BY DEF WaitInv
    <3> QED
      BY <1>1, <2>2, <2>3, <2>4, <2>5, <3>1 DEF Fields, Kept, Y
  <2>7. MontgomeryMode(n) < 2 * MulBlocks /\ (MontgomeryMode(n) + 1) * BlockLimbs = n
    BY <2>4, ModeTells
  <2>8. Computes(engine')
          = Montgomery(engine'.x, engine'.z, engine'.m, engine'.mprime, n)
    BY <2>6, <2>7 DEF Computes
  <2>9. Computes(engine') = Final(v)
    BY <2>3, <2>4, <2>6, <2>8 DEF Final
  <2> QED
    BY <2>1, <2>6, <2>9
<1>5. EngineResult' = Computes(engine')
  BY DEF EngineResult, Computes
<1>6. (Usable(View(t)) => EngineInv(pc[t], View(t)))'
  BY <1>2, <1>4, <1>5 DEF EngineInv, Awaits, w
<1> QED
  BY <1>2, <1>6, ResultKeeps

\* A wait that ends finds the result, because the operation has ended.
LEMMA WaitOpCompleteFinds ==
  ASSUME CallsInv, ResultInv, LockInv, WaitInv, LockInv', NEW t \in Tasks,
         WaitOpComplete(t)
  PROVE  ResultInv'
<1>1. /\ pc[t] \in {"wait", "wait2"}
      /\ pc' = [pc EXCEPT ![t] =
                  IF pc[t] = "wait" /\ TwoStages(t) THEN "load2" ELSE "read"]
      /\ \/ semaphore = "given" /\ UNCHANGED engine
         \/ engine.interrupt /\ engine' = [engine EXCEPT !.interrupt = FALSE]
      /\ UNCHANGED mpi_lock /\ UNCHANGED callVars
  BY DEF WaitOpComplete, Goto
<1>2. mpi_lock' = t
  BY <1>1 DEF LockInv, InHardware
<1>3. engine.running = "none"
  BY <1>1 DEF WaitInv, UnderWay
<1> DEFINE v == View(t)
           w == View(t)'
<1>4. SameCall(v, w)
  BY <1>1, SameView
<1>5. TwoStages(t) = TwoStaged(v)
  BY ViewFields DEF TwoStages, TwoStaged
<1> HIDE DEF v, w
<1>6. /\ engine'.z = engine.z /\ engine'.m = engine.m
      /\ engine'.mprime = engine.mprime /\ engine'.mode = engine.mode
  <2>1. engine = [f \in Fields |-> engine[f]]
    BY DEF WaitInv
  <2> QED
    BY <1>1, <2>1 DEF Fields
<1>7. ASSUME Usable(w)
      PROVE  /\ pc'[t] = "load2" => /\ TwoStaged(w) /\ engine'.z = First(w)
                                    /\ engine'.m = Modulus(w)
                                    /\ engine'.mprime = Mprime(w)
                                    /\ engine'.mode = MontgomeryMode(Size(w))
             /\ pc'[t] = "read" => engine'.z = Final(w)
  <2>1. /\ Size(w) = Size(v) /\ Modulus(w) = Modulus(v) /\ Mprime(w) = Mprime(v)
        /\ First(w) = First(v) /\ Final(w) = Final(v)
        /\ TwoStaged(w) = TwoStaged(v) /\ Usable(v)
    BY <1>4, <1>7, SameCallSameAnswer
  <2>2. EngineInv(pc[t], v)
    BY <2>1 DEF ResultInv, v
  <2>3. pc'[t] = IF pc[t] = "wait" /\ TwoStaged(v) THEN "load2" ELSE "read"
    BY <1>1, <1>5 DEF LockInv
  <2>4. CASE pc[t] = "wait" /\ TwoStaged(v)
    BY <1>3, <1>6, <2>1, <2>2, <2>3, <2>4 DEF EngineInv, Awaits, Kept
  <2>5. CASE pc[t] = "wait" /\ ~TwoStaged(v)
    <3>1. Final(v) = First(v)
      BY <2>5 DEF Final
    <3> QED
      BY <1>3, <1>6, <2>1, <2>2, <2>3, <2>5, <3>1 DEF EngineInv, Awaits
  <2>6. CASE pc[t] = "wait2"
    BY <1>3, <1>6, <2>1, <2>2, <2>3, <2>6 DEF EngineInv, Awaits
  <2> QED
    BY <1>1, <2>4, <2>5, <2>6
<1>8. pc'[t] \in {"load2", "read"}
  BY <1>1 DEF LockInv
<1>9. (Usable(View(t)) => EngineInv(pc[t], View(t)))'
  BY <1>7, <1>8 DEF EngineInv, Kept, w
<1> QED
  BY <1>2, <1>9, ResultKeeps

\* The accelerator itself.
LEMMA EngineCompletesKeeps ==
  ASSUME ResultInv, WaitInv, EngineCompletes \/ rsa_complete_isr
  PROVE  ResultInv'
<1>1. UNCHANGED <<pc, job, stack, factors, kind, out, ret, rinv>>
  BY DEF EngineCompletes, rsa_complete_isr, callVars
<1>2. \A t \in Tasks : View(t)' = View(t) /\ pc'[t] = pc[t]
  BY <1>1 DEF View
<1>3. engine = [f \in Fields |-> engine[f]]
  BY DEF WaitInv
<1>4. /\ engine'.m = engine.m /\ engine'.mprime = engine.mprime
      /\ engine'.mode = engine.mode
      /\ \/ /\ engine.running # "none" /\ engine'.running = "none"
            /\ engine'.z = EngineResult
         \/ /\ engine'.running = engine.running /\ engine'.z = engine.z
            /\ engine'.x = engine.x /\ engine'.y = engine.y
            /\ engine.interrupt
  BY <1>3 DEF EngineCompletes, rsa_complete_isr, Fields
<1>5. EngineResult = Computes(engine) /\ EngineResult' = Computes(engine')
  BY DEF EngineResult, Computes
<1>6. engine'.running # "none" => Computes(engine') = Computes(engine)
  BY <1>4 DEF Computes
<1>7. ASSUME NEW p, NEW v, EngineInv(p, v), p \in {"load2", "read"} => Quiet
      PROVE  EngineInv(p, v)'
  <2>1. ASSUME NEW r, Awaits(r) PROVE Awaits(r)'
    BY <2>1, <1>4, <1>5, <1>6 DEF Awaits
  <2>2. Kept(v) => Kept(v)'
    BY <1>4 DEF Kept
  <2>3. p \in {"load2", "read"} => engine'.z = engine.z
    BY <1>4, <1>7 DEF Quiet
  <2> QED
    BY <1>7, <2>1, <2>2, <2>3 DEF EngineInv
<1>8. ASSUME NEW t \in Tasks
      PROVE  (Usable(View(t)) => EngineInv(pc[t], View(t)))'
  <2>1. pc[t] \in {"load2", "read"} => Quiet
    BY DEF WaitInv, InHardware
  <2>2. Usable(View(t)) => EngineInv(pc[t], View(t))'
    <3>1. Usable(View(t)) => EngineInv(pc[t], View(t))
      BY DEF ResultInv
    <3> QED
      BY <1>2, <1>7, <2>1, <3>1
  <2> QED
    BY <1>2, <2>2
<1> QED
  BY <1>8 DEF ResultInv

-----------------------------------------------------------------------------
(* All of it.                                                              *)

FullInv == IInv /\ CallsInv /\ ResultInv

\* The whole invariant holds at the start ...
LEMMA InitiallyFull == Init => FullInv
<1> SUFFICES ASSUME Init PROVE FullInv
  OBVIOUS
<1>1. IInv
  BY Initially
<1>2. /\ pc = [t \in Tasks |-> "idle"]
      /\ stack = [t \in Tasks |-> <<>>]
  BY DEF Init, Idle
<1>3. Domains
  BY DEF Init, Idle, Domains
<1>4. ASSUME NEW t \in Tasks
      PROVE  ViewInv(View(t)) /\ EngineInv(pc[t], View(t)) /\ pc[t] = "idle"
  <2>1. View(t).pc = "idle" /\ View(t).stack = <<>> /\ pc[t] = "idle"
    BY <1>2, ViewFields
  <2>2. ViewInv(View(t))
    BY <2>1 DEF ViewInv
  <2>3. EngineInv(pc[t], View(t))
    BY <2>1 DEF EngineInv
  <2> QED
    BY <2>1, <2>2, <2>3
<1> QED
  BY <1>1, <1>3, <1>4 DEF FullInv, CallsInv, ResultInv

\* The steps away from the accelerator.
LEMMA AwayKeeps ==
  ASSUME FullInv, NEW t \in Tasks,
         \/ Begin(t) \/ RinvCalculated(t) \/ MultiplyTrivial(t)
         \/ MultiplyOnce(t) \/ MultiplySplits(t) \/ SecondProduct(t)
         \/ SumOfProducts(t) \/ ProductReturns(t) \/ Return(t)
  PROVE  FullInv'
<1> USE DEF FullInv
<1>1. IInv'
  BY ComputingKeeps
<1>2. LockInv /\ CallsInv /\ Domains
  BY DEF IInv, CallsInv
<1>3. CallsInv'
  BY <1>2, BeginKeeps, RinvCalculatedKeeps, MultiplyTrivialKeeps,
     MultiplyOnceKeeps, MultiplySplitsKeeps, SecondProductKeeps,
     SumOfProductsKeeps, ReturnsKeep
<1>4. UNCHANGED engine
  BY DEF Begin, RinvCalculated, MultiplyTrivial, MultiplyOnce, MultiplySplits,
     SecondProduct, SumOfProducts, ProductReturns, Return, sharedVars
<1>5. pc'[t] \notin {"wait", "load2", "wait2", "read"}
  <2>1. CASE Begin(t)
    <3>1. \E l \in {"multiply", "returned", "acquire", "rinv"} :
            pc' = [pc EXCEPT ![t] = l]
      BY <2>1 DEF Begin, Goto
    <3> QED
      BY <3>1, <1>2 DEF LockInv
  <2>2. CASE ~Begin(t)
    BY <2>2, <1>2 DEF RinvCalculated, MultiplyTrivial, MultiplyOnce,
       MultiplySplits, SecondProduct, SumOfProducts, ProductReturns, Return,
       Goto, LockInv
  <2> QED
    BY <2>1, <2>2
<1>6. ASSUME NEW u \in Tasks \ {t}
      PROVE  View(u)' = View(u) /\ pc'[u] = pc[u]
  <2>2. CASE Begin(t)
    BY <2>2, <1>2 DEF Begin, Goto, View, Domains, LockInv
  <2>3. CASE RinvCalculated(t)
    BY <2>3, <1>2 DEF RinvCalculated, Goto, View, Domains, LockInv
  <2>4. CASE MultiplyTrivial(t)
    BY <2>4, <1>2 DEF MultiplyTrivial, Goto, View, Domains, LockInv
  <2>5. CASE MultiplyOnce(t)
    BY <2>5, <1>2 DEF MultiplyOnce, Goto, View, Domains, LockInv
  <2>6. CASE MultiplySplits(t)
    BY <2>6, <1>2 DEF MultiplySplits, View, Domains, LockInv
  <2>7. CASE SecondProduct(t)
    BY <2>7, <1>2 DEF SecondProduct, Goto, View, Domains, LockInv
  <2>8. CASE SumOfProducts(t)
    BY <2>8, <1>2 DEF SumOfProducts, View, Domains, LockInv
  <2>9. CASE ProductReturns(t) \/ Return(t)
    BY <2>9, <1>2 DEF ProductReturns, Return, Goto, View, Domains, LockInv
  <2> QED
    BY <2>2, <2>3, <2>4, <2>5, <2>6, <2>7, <2>8, <2>9
<1>7. ResultInv'
  <2>1. EngineInv(pc[t], View(t))'
    BY <1>5 DEF EngineInv
  <2>2. ASSUME NEW u \in Tasks \ {t}
        PROVE  (Usable(View(u)) => EngineInv(pc[u], View(u)))'
    <3>1. EngineResult' = EngineResult
      BY <1>4 DEF EngineResult
    <3> QED
      BY <1>4, <1>6, <3>1 DEF ResultInv, EngineInv, Awaits, Kept
  <2> QED
    BY <2>1, <2>2 DEF ResultInv
<1> QED
  BY <1>1, <1>3, <1>7

\* The steps at the accelerator.
LEMMA AtEngineKeeps ==
  ASSUME FullInv, NEW t \in Tasks,
         \/ Acquire(t) \/ PowerOn(t) \/ StartOp(t) \/ WaitOpComplete(t)
         \/ StartSecondStage(t) \/ ReadResult(t) \/ Release(t)
  PROVE  FullInv'
<1>1. IInv' /\ LockInv' /\ LockInv /\ WaitInv /\ CallsInv /\ ResultInv
  BY HardwareKeeps DEF IInv, FullInv
<1>2. CASE Acquire(t) \/ PowerOn(t) \/ StartOp(t) \/ WaitOpComplete(t)
           \/ StartSecondStage(t)
  <2>1. UNCHANGED callVars
    BY <1>2 DEF Acquire, PowerOn, StartOp, WaitOpComplete, StartSecondStage
  <2>2. PICK l : /\ pc' = [pc EXCEPT ![t] = l]
                 /\ l \in {"clean", "load", "wait", "load2", "wait2", "read"}
                 /\ l \in {"clean", "load"} => Acquire(t) \/ PowerOn(t)
    BY <1>2 DEF Acquire, PowerOn, StartOp, WaitOpComplete, StartSecondStage, Goto
  <2>3. pc[t] \in AtEngine \ {"release"} /\ l \in AtEngine \ {"release"}
    BY <1>2, <2>2 DEF Acquire, PowerOn, StartOp, WaitOpComplete,
       StartSecondStage, Goto, AtEngine, InHardware
  <2>4. CallsInv'
    BY <1>1, <2>1, <2>2, <2>3, MovesKeep
  <2>5. CASE Acquire(t) \/ PowerOn(t)
    <3>1. pc'[t] \in {"clean", "load"} /\ mpi_lock' = t
      BY <2>5, <1>1 DEF Acquire, PowerOn, Goto, LockInv, InHardware
    <3>2. EngineInv(pc[t], View(t))'
      BY <3>1 DEF EngineInv
    <3> QED
      BY <1>1, <2>4, <3>1, <3>2, ResultKeeps DEF FullInv
  <2>6. CASE StartOp(t)
    BY <1>1, <2>4, <2>6, StartOpComputes DEF FullInv
  <2>7. CASE WaitOpComplete(t)
    BY <1>1, <2>4, <2>7, WaitOpCompleteFinds DEF FullInv
  <2>8. CASE StartSecondStage(t)
    BY <1>1, <2>4, <2>8, StartSecondStageComputes DEF FullInv
  <2> QED
    BY <1>2, <2>5, <2>6, <2>7, <2>8
<1>3. CASE ReadResult(t)
  <2>1. CallsInv'
    BY <1>1, <1>3, ReadResultKeeps
  <2>2. pc'[t] = "release" /\ mpi_lock' = t
    BY <1>1, <1>3 DEF ReadResult, Goto, LockInv, InHardware, sharedVars
  <2>3. EngineInv(pc[t], View(t))'
    BY <2>2 DEF EngineInv
  <2> QED
    BY <1>1, <2>1, <2>2, <2>3, ResultKeeps DEF FullInv
<1>4. CASE Release(t)
  <2>1. CallsInv'
    BY <1>1, <1>4, ReleaseKeeps
  <2>2. mpi_lock' = NoTask
    BY <1>4 DEF Release
  <2>3. \A u \in Tasks : EngineInv(pc[u], View(u))'
    BY <1>1, <2>2, NoTaskAssumption DEF LockInv, InHardware, EngineInv
  <2> QED
    BY <1>1, <2>1, <2>3 DEF FullInv, ResultInv
<1> QED
  BY <1>2, <1>3, <1>4

\* ... when the accelerator completes or interrupts ...
LEMMA ChipKeeps ==
  ASSUME FullInv, EngineCompletes \/ rsa_complete_isr
  PROVE  FullInv'
<1>1. IInv'
  BY EngineKeeps DEF FullInv
<1>2. ResultInv'
  BY EngineCompletesKeeps DEF FullInv, IInv
<1>3. UNCHANGED <<pc, callVars>>
  BY DEF EngineCompletes, rsa_complete_isr
<1>4. \A t \in Tasks : View(t)' = View(t)
  BY <1>3 DEF View, callVars
<1>5. CallsInv'
  BY <1>3, <1>4 DEF FullInv, CallsInv, Domains, callVars
<1> QED
  BY <1>1, <1>2, <1>5 DEF FullInv

\* ... when the wait times out and the chip starts again ...
LEMMA AbortKeeps ==
  ASSUME FullInv, NEW t \in Tasks, WaitTimesOut(t)
  PROVE  FullInv'
<1>1. IInv'
  BY TimeoutKeeps DEF FullInv
<1>2. /\ pc' = [u \in Tasks |-> "idle"]
      /\ stack' = [u \in Tasks |-> <<>>]
  BY DEF WaitTimesOut
<1>3. Domains'
  BY DEF WaitTimesOut, Domains
<1>4. ASSUME NEW u \in Tasks
      PROVE  ViewInv(View(u)') /\ EngineInv(pc[u], View(u))' /\ pc'[u] = "idle"
  <2>1. View(u)'.pc = "idle" /\ View(u)'.stack = <<>> /\ pc'[u] = "idle"
    BY <1>2, ViewFieldsNext
  <2>2. ViewInv(View(u)')
    BY <2>1 DEF ViewInv
  <2>3. EngineInv(pc[u], View(u))'
    BY <2>1 DEF EngineInv
  <2> QED
    BY <2>1, <2>2, <2>3
<1> QED
  BY <1>1, <1>3, <1>4 DEF FullInv, CallsInv, ResultInv

\* ... and while nothing happens.
LEMMA FullStutters == FullInv /\ UNCHANGED vars => FullInv'
<1> SUFFICES ASSUME FullInv, UNCHANGED vars PROVE FullInv'
  OBVIOUS
<1>1. IInv'
  BY StutterKeeps DEF FullInv
<1>2. UNCHANGED <<pc, engine, callVars>>
  BY DEF vars, sharedVars
<1>3. \A t \in Tasks : View(t)' = View(t)
  BY <1>2 DEF View, callVars
<1>4. CallsInv'
  BY <1>2, <1>3 DEF FullInv, CallsInv, Domains, callVars
<1>5. EngineResult' = EngineResult
  BY <1>2 DEF EngineResult
<1>6. ResultInv'
  BY <1>2, <1>3, <1>5 DEF FullInv, ResultInv, EngineInv, Awaits, Kept
<1> QED
  BY <1>1, <1>4, <1>6 DEF FullInv

\* Every call computes what it is on the way to, and the accelerator has what
\* the task that uses it waits for; of the products that are computed into one
\* of their factors, those that survive it (InPlaceIsRight).
THEOREM FullInvariance == Spec => []FullInv
<1>1. FullInv /\ [Next]_vars => FullInv'
  <2> SUFFICES ASSUME FullInv, [Next]_vars PROVE FullInv'
    OBVIOUS
  <2>1. ASSUME NEW t \in Tasks, Begin(t) \/ Step(t) PROVE FullInv'
    BY <2>1, AwayKeeps, AtEngineKeeps DEF Step
  <2> QED
    BY <2>1, AbortKeeps, ChipKeeps, FullStutters DEF Next
<1> QED
  BY <1>1, InitiallyFull, PTL DEF Spec

\* mbedtls_mpi_mul_mpi returns the product: on the multiplier, modulo a larger
\* number, or split into any number of parts.  The result may be one of the
\* factors if neither its sign nor its limbs are lost (InPlaceIsRight).
ProductsAreExact ==
  \A t \in Tasks :
    pc[t] = "returned" /\ ret[t] = "ok" /\ job[t].op = "mul"
      /\ InPlaceIsRight(job[t]) => out[t] = job[t].x * job[t].y

\* A product into an mpi of its own is one of them, whatever the factors.
LEMMA SeparateIsRight ==
  ASSUME NEW j \in Job, j.into = {}
  PROVE  InPlaceIsRight(j)
  BY DEF InPlaceIsRight, Survives, Operands

\* A product returned by mbedtls_mpi_mul_mpi is the product, for any operands,
\* any number of tasks and any sizes of limbs and blocks, split or not, by one
\* stage or by two, if the result is no factor or one that survives it.
THEOREM ProductsAreRight == Spec => []ProductsAreExact
<1>1. FullInv => ProductsAreExact
  <2> SUFFICES ASSUME FullInv, NEW t \in Tasks, pc[t] = "returned",
                      ret[t] = "ok", job[t].op = "mul", InPlaceIsRight(job[t])
               PROVE  out[t] = job[t].x * job[t].y
    BY DEF ProductsAreExact
  <2>1. /\ ViewInv(View(t)) /\ View(t).pc = "returned" /\ View(t).ret = "ok"
        /\ View(t).job = job[t] /\ View(t).out = out[t]
    BY ViewFields DEF FullInv, CallsInv
  <2>2. View(t).stack = <<>> /\ ForProduct(View(t))
    BY <2>1 DEF ViewInv, Followed
  <2>3. out[t] = Goal(<<>>, job[t])
    BY <2>1, <2>2 DEF ForProduct
  <2> QED
    BY <2>3, EmptyChain
<1> QED
  BY <1>1, FullInvariance, PTL

\* Products, residues and powers: a call that reports success has the right
\* result, if its operands are those that the code expects of its callers
\* (OperandsFit) and the result of a product is no factor that it loses
\* (InPlaceIsRight).
THEOREM ResultsAreRight == OperandsFit => (Spec => []ResultIsRight)
<1> SUFFICES ASSUME OperandsFit PROVE Spec => []ResultIsRight
  OBVIOUS
<1>1. FullInv => ResultIsRight
  <2> SUFFICES ASSUME FullInv, NEW t \in Tasks, pc[t] = "returned", ret[t] = "ok"
               PROVE  LET j == job[t]
                          m == Larger(j.m, 1)
                      IN  CASE j.op = "mul"    ->
                                 InPlaceIsRight(j) => out[t] = j.x * j.y
                            [] j.op = "mulmod" ->
                                 /\ (out[t] - j.x * j.y) % m = 0
                                 /\ Magnitude(out[t]) < m
                            [] j.op = "expmod" ->
                                 rinv[t] = calculate_rinv(m, ExpWords(j)) =>
                                   out[t] = PowerModulo(j.x, j.y, m)
    BY DEF ResultIsRight
  <2> DEFINE v == View(t)
  <2>1. /\ ViewInv(v) /\ v.pc = "returned" /\ v.ret = "ok"
        /\ v.job = job[t] /\ v.out = out[t] /\ v.rinv = rinv[t]
        /\ v.kind = kind[t] /\ v.factors = factors[t]
    BY ViewFields DEF FullInv, CallsInv
  <2>2. job[t] \in Jobs[t]
    BY DEF FullInv, CallsInv
  <2> HIDE DEF v
  <2>3. PICK j \in Job : j = job[t] /\ Admissible(j)
    BY <2>2, JobsAreCalls DEF OperandsFit
  <2>4. /\ j.op \in {"mul", "mulmod", "expmod"} /\ j.x \in Int /\ j.y \in Int
        /\ j.m \in Int /\ j.z \in Int
    BY DEF Job
  <2>5. CASE j.op = "mul"
    <3>1. v.stack = <<>> /\ (InPlaceIsRight(j) => ForProduct(v))
      BY <2>1, <2>3, <2>5 DEF ViewInv, Followed
    <3>2. InPlaceIsRight(j) => out[t] = Goal(<<>>, j)
      BY <2>1, <2>3, <3>1 DEF ForProduct
    <3>3. InPlaceIsRight(j) => out[t] = j.x * j.y
      BY <3>2, EmptyChain
    <3> QED
      BY <2>3, <2>5, <3>3
  <2>6. CASE j.op = "mulmod"
    <3>1. /\ v.kind = "mulmod" /\ v.factors[1] = j.x /\ v.factors[2] = j.y
          /\ j.m > 0 /\ v.rinv = calculate_rinv(j.m, Size(v))
          /\ Usable(v) => out[t] = Answer(v)
      BY <2>1, <2>3, <2>6 DEF ViewInv, ForModular, Followed
    <3>2. PICK m \in Nat \ {0} : m = j.m /\ m = Larger(j.m, 1)
      BY <2>4, <3>1 DEF Larger
    <3>3. /\ m % 2 = 1 /\ hardware_words_needed(m) <= MaxWords
          /\ Magnitude(j.x) < BaseTo(hardware_words_needed(m))
          /\ Magnitude(j.y) < BaseTo(hardware_words_needed(m))
      BY <2>3, <2>6, <3>1, <3>2 DEF Admissible
    <3>4. Size(v) = hardware_words_needed(m)
      BY <2>1, <2>3, <3>1, <3>2 DEF Size
    <3>5. Usable(v)
      BY <2>1, <2>3, <2>6, <3>3, <3>4 DEF Usable, Followed
    <3>6. /\ (Answer(v) - v.factors[1] * v.factors[2]) % m = 0
          /\ Magnitude(Answer(v)) < m
      <4>1. Factored(v) /\ v.factors[1] = j.x /\ v.factors[2] = j.y
        BY <2>4, <3>1 DEF Factored
      <4> QED
        BY <2>1, <2>3, <3>1, <3>2, <3>3, <4>1, MulModAnswer
    <3> QED
      BY <2>3, <2>6, <3>1, <3>2, <3>5, <3>6
  <2>7. CASE j.op = "expmod"
    <3>1. /\ v.kind = "expmod" /\ v.factors[1] = j.x /\ v.factors[2] = j.y
          /\ j.m > 0 \/ j.rn
          /\ Usable(v) => out[t] = Answer(v)
      BY <2>1, <2>3, <2>7 DEF ViewInv, ForModular, Followed
    <3>2. j.m > 0 /\ j.m % 2 = 1 /\ j.x \in Nat /\ j.y \in Nat /\ j.z \in Nat
      BY <2>3, <2>4, <2>7, <3>1 DEF Admissible
    <3>3. PICK m \in Nat \ {0} : m = j.m /\ m = Larger(j.m, 1) /\ m % 2 = 1
      BY <2>4, <3>2 DEF Larger
    <3>4. out[t] = Answer(v)
      BY <2>1, <2>3, <2>7, <3>1 DEF Usable, Followed
    <3>5. v.rinv = calculate_rinv(m, ExpWords(j)) =>
            Answer(v) = PowerModulo(j.x, j.y, m)
      <4>1. v.job = j
        BY <2>1, <2>3
      <4> QED
        BY <3>1, <3>2, <3>3, <4>1, ExpModAnswer
    <3> QED
      BY <2>1, <2>3, <2>7, <3>3, <3>4, <3>5
  <2> QED
    BY <2>4, <2>5, <2>6, <2>7
<1> QED
  BY <1>1, FullInvariance, PTL
=============================================================================
