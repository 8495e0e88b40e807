-------------------------- MODULE ShaRounds_proofs --------------------------
(***************************************************************************)
(* The software rounds of the SHA ports compute FIPS 180-4, for every      *)
(* block: ShaRounds implements ShaStandard.                                *)
(***************************************************************************)
EXTENDS ShaRounds, TLAPS

-----------------------------------------------------------------------------
(* Words.                                                                  *)

\* The word operators of the standard are those of the code.
LEMMA SameWords ==
  /\ \A x, y : Standard!Xor(x, y) = Xor(x, y)
  /\ \A x, y : Standard!And(x, y) = And(x, y)
  /\ \A w, x : Standard!Not(w, x) = Not(w, x)
  /\ \A w, x, n : Standard!Shr(w, x, n) = Shr(w, x, n)
  /\ \A w, x, y : Standard!Add(w, x, y) = Add(w, x, y)
  /\ \A w, b, p : Standard!FromBytes(w, b, p) = FromBytes(w, b, p)
<1>1. \A w : Standard!BitsOf(w) = BitsOf(w)
  BY DEF Standard!BitsOf, BitsOf
<1>2. \A x, y : Standard!Xor(x, y) = Xor(x, y)
  BY DEF Standard!Xor, Xor
<1>3. \A w, x, y : Standard!Carries(w, x, y) = Carries(w, x, y)
  BY <1>1 DEF Standard!Carries, Carries
<1>4. \A w, x, y : Standard!Add(w, x, y) = Add(w, x, y)
  BY <1>1, <1>2, <1>3 DEF Standard!Add, Add
<1> QED
  BY <1>1, <1>2, <1>4 DEF Standard!And, And, Standard!Not, Not,
     Standard!Shr, Shr, Standard!FromBytes, FromBytes

\* Sums are words whatever is added.
LEMMA SumIsWord == \A x, y : Sum(x, y) \in Words(Bits)
BY DEF Sum, Add, Words

LEMMA BitsType == Bits \in {32, 64} /\ (Sha1 => Bits = 32)
BY DEF Bits, Sha1, Sha512, Long

LEMMA XorIsWord ==
  ASSUME NEW w, NEW x \in Words(w), NEW y \in Words(w)
  PROVE  Xor(x, y) \in Words(w)
BY DEF Words, Xor

LEMMA GetWordIsWord == \A b, k : GetWord(b, k) \in Words(Bits)
BY DEF GetWord, FromBytes, Words

\* The two shifts of ROTR and of S make a rotation.
LEMMA RotateRightIsROTR ==
  ASSUME NEW x \in Words(Bits), NEW n \in 1..(Bits - 1)
  PROVE  Standard!RotateRight(Bits, x, n) = ROTR(x, n)
<1>1. \A j \in x : j \in 0..(Bits - 1)
  BY DEF Words, BitsOf
<1> QED
  BY <1>1, BitsType DEF Standard!RotateRight, Standard!BitsOf, ROTR, Or, SHR,
     Shr, Shl, BitsOf

LEMMA RotateLeftIsS ==
  ASSUME NEW x \in Words(32), NEW n \in 1..31
  PROVE  Standard!RotateLeft(32, x, n) = S(x, n)
<1>1. \A j \in x : j \in 0..31
  BY DEF Words, BitsOf
<1> QED
  BY <1>1 DEF Standard!RotateLeft, Standard!RotateRight, Standard!BitsOf,
     S, Or, Shr, Shl, BitsOf

LEMMA SIsWord == \A x, n : S(x, n) \in Words(32)
BY DEF S, Or, Shr, Shl, Words

\* Choice and majority as the code rewrites them.
LEMMA ChIsF1 ==
  ASSUME NEW w, NEW x \in Words(w), NEW y \in Words(w), NEW z \in Words(w)
  PROVE  Standard!Ch(w, x, y, z) = F1(x, y, z)
BY SameWords DEF Standard!Ch, F1, Words, Xor, And, Not

LEMMA MajIsF0 ==
  ASSUME NEW w, NEW x \in Words(w), NEW y \in Words(w), NEW z \in Words(w)
  PROVE  Standard!Maj(x, y, z) = F0(x, y, z)
BY SameWords DEF Standard!Maj, F0, Words, Xor, And, Or

LEMMA Function1IsF ==
  ASSUME NEW t \in 0..79,
         NEW x \in Words(32), NEW y \in Words(32), NEW z \in Words(32)
  PROVE  Standard!Function1(t, x, y, z) = F(t, x, y, z)
<1>1. /\ Standard!Ch(32, x, y, z) = Xor(z, And(x, Xor(y, z)))
      /\ Standard!Maj(x, y, z) = Or(And(x, y), And(z, Or(x, y)))
      /\ Standard!Parity(x, y, z) = Xor(Xor(x, y), z)
  BY ChIsF1, MajIsF0, SameWords DEF F0, F1, Standard!Parity
<1>2. CASE t \in 0..19
  BY <1>1, <1>2 DEF F, Standard!Function1
<1>3. CASE t \in 20..39
  BY <1>1, <1>3 DEF F, Standard!Function1
<1>4. CASE t \in 40..59
  BY <1>1, <1>4 DEF F, Standard!Function1
<1>5. CASE t \in 60..79
  BY <1>1, <1>5 DEF F, Standard!Function1
<1> QED
  BY <1>2, <1>3, <1>4, <1>5

\* The sigma functions.
LEMMA SigmasAreS ==
  ASSUME NEW x \in Words(Bits)
  PROVE  /\ Standard!SmallSigma0(Bits, x) = S0(x)
         /\ Standard!SmallSigma1(Bits, x) = S1(x)
         /\ Standard!BigSigma0(Bits, x) = S2(x)
         /\ Standard!BigSigma1(Bits, x) = S3(x)
<1>1. \A n \in 1..(Bits - 1) : Standard!RotateRight(Bits, x, n) = ROTR(x, n)
  BY RotateRightIsROTR
<1>2. \A n : Standard!Shr(Bits, x, n) = SHR(x, n)
  BY SameWords DEF SHR
<1>3. CASE Sha512
  <2>1. Bits = 64
    BY <1>3 DEF Bits
  <2> QED
    BY <1>1, <1>2, <1>3, <2>1, SameWords DEF S0, S1, S2, S3,
       Standard!SmallSigma0, Standard!SmallSigma1, Standard!BigSigma0,
       Standard!BigSigma1, Standard!SmallSigma, Standard!BigSigma
<1>4. CASE ~Sha512
  <2>1. Bits = 32
    BY <1>4 DEF Bits
  <2> QED
    BY <1>1, <1>2, <1>4, <2>1, SameWords DEF S0, S1, S2, S3,
       Standard!SmallSigma0, Standard!SmallSigma1, Standard!BigSigma0,
       Standard!BigSigma1, Standard!SmallSigma, Standard!BigSigma
<1> QED
  BY <1>3, <1>4

-----------------------------------------------------------------------------
(* The inductive invariant.                                                *)

\* The slots of W that have been written.
Ready ==
  {k \in Slots : k < i \/ (k < 16 /\ ~smaller) \/ (Sha512 /\ pc = "rounds")}

\* Where the computation may be.
ControlOK ==
  /\ algorithm \in Algorithms
  /\ smaller \in BOOLEAN /\ (smaller => Sha256)
  /\ pc \in {"idle", "expand", "rounds"}
  /\ i \in Nat
  /\ pc = "expand" => Sha512 /\ i \in 16..80
  /\ pc = "rounds" => i <= Rounds

\* The registers and the words of the schedule.
WordsOK ==
  /\ state \in [Names -> Words(Bits)]
  /\ pc # "idle" =>
       /\ v \in [Names -> Words(Bits)]
       /\ W = [k \in Slots |-> W[k]]
       /\ \A k \in Ready : W[k] \in Words(Bits)

\* The schedule starts with the words of the block (SHA-1's ring until it
\* is overwritten), and SHA-512 has computed the others by R2.
ScheduleOK ==
  pc # "idle" =>
    /\ \A k \in Ready : k < 16 /\ (Sha1 => i <= 16) => W[k] = GetWord(data, k)
    /\ \A k \in Ready : k >= 16 /\ Sha512 => W[k] = R2(k)

IInv == ControlOK /\ WordsOK /\ ScheduleOK

LEMMA StartedType ==
  ASSUME algorithm \in Algorithms
  PROVE  Started(algorithm) \in [Names -> Words(Bits)]
<1>1. \A w, parts : FromParts(w, parts) \in Words(w)
  BY DEF FromParts, Words
<1>2. \/ algorithm = "SHA1" \/ algorithm = "SHA224" \/ algorithm = "SHA256"
      \/ algorithm = "SHA384" \/ algorithm = "SHA512"
  BY DEF Algorithms
<1>3. CASE algorithm = "SHA1"
  BY <1>1, <1>3 DEF Started, Names, Bits, Sha1, Sha512, Long
<1>4. CASE algorithm = "SHA224"
  BY <1>1, <1>4 DEF Started, Names, Bits, Sha1, Sha512, Long
<1>5. CASE algorithm = "SHA256"
  BY <1>1, <1>5 DEF Started, Names, Bits, Sha1, Sha512, Long
<1>6. CASE algorithm = "SHA384"
  BY <1>1, <1>6 DEF Started, Names, Bits, Sha1, Sha512, Long
<1>7. CASE algorithm = "SHA512"
  BY <1>1, <1>7 DEF Started, Names, Bits, Sha1, Sha512, Long
<1> QED
  BY <1>2, <1>3, <1>4, <1>5, <1>6, <1>7

LEMMA InitIInv == Init => IInv
<1> SUFFICES ASSUME Init PROVE IInv
  OBVIOUS
<1>1. ControlOK
  BY DEF Init, ControlOK
<1>2. WordsOK
  BY StartedType DEF Init, WordsOK
<1>3. ScheduleOK
  BY DEF Init, ScheduleOK
<1> QED
  BY <1>1, <1>2, <1>3 DEF IInv

\* P assigns to two registers.
LEMMA TwoAssignments ==
  ASSUME NEW N, NEW D, NEW f \in [N -> D], NEW p \in N, NEW q \in N, p # q,
         NEW y \in D, NEW z \in D,
         NEW g, g = [f EXCEPT ![p] = y, ![q] = z]
  PROVE  /\ g \in [N -> D]
         /\ g[p] = y /\ g[q] = z
         /\ \A k \in N \ {p, q} : g[k] = f[k]
OBVIOUS

-----------------------------------------------------------------------------
(* One round.                                                              *)

\* The word that round i works on.
RoundWord == IF i < 16 THEN GetWord(data, i) ELSE IF Sha1 THEN R1(i) ELSE R2(i)

LEMMA RoundWordIsWord == RoundWord \in Words(Bits)
BY GetWordIsWord, SumIsWord, SIsWord, BitsType DEF RoundWord, R1, R2

\* It is the word that the standard takes from its window.
LEMMA RoundWordIsStandard ==
  ASSUME IInv, pc = "rounds", i < Rounds
  PROVE  RoundWord = IF i < 16 THEN Window[0]
                     ELSE Standard!NextWord(algorithm, Window)
<1> USE DEF IInv, ControlOK
<1>1. CASE i < 16
  <2>1. Window[0] = GetWord(data, (i + 0) % 16)
    BY <1>1 DEF Window, StandardRound
  <2> QED
    BY <1>1, <2>1 DEF RoundWord
<1>2. CASE i >= 16 /\ Sha1
  <2>1. Window = [k \in 0..15 |-> W[(i + k) % 16]]
    BY <1>2 DEF Window, StandardRound
  <2>2. /\ Window[13] = W[(i - 3) % 16] /\ Window[8] = W[(i - 8) % 16]
        /\ Window[2] = W[(i - 14) % 16] /\ Window[0] = W[i % 16]
    BY <2>1
  <2>3. \A k \in 0..15 : k \in Ready
    BY <1>2 DEF Ready, Slots, Sha1, Sha256
  <2>4. \A k \in Int : W[k % 16] \in Words(32)
    BY <2>3, BitsType, <1>2 DEF WordsOK
  <2>5. \A x, y \in Words(32) : Xor(x, y) \in Words(32)
    BY XorIsWord
  <2> DEFINE x == Xor(Xor(Xor(W[(i - 3) % 16], W[(i - 8) % 16]),
                          W[(i - 14) % 16]), W[i % 16])
  <2>6. x \in Words(32)
    BY <2>4, <2>5
  <2>7. Standard!RotateLeft(32, x, 1) = S(x, 1)
    BY <2>6, RotateLeftIsS
  <2>8. Standard!NextWord(algorithm, Window) = Standard!RotateLeft(32, x, 1)
    BY <1>2, <2>2, SameWords DEF Standard!NextWord, Sha1
  <2> QED
    BY <1>2, <2>7, <2>8 DEF RoundWord, R1
<1>3. CASE i >= 16 /\ ~Sha1
  <2>1. Window = [k \in 0..15 |-> W[i - 16 + k]]
    BY <1>3 DEF Window, StandardRound
  <2>2. /\ Window[14] = W[i - 2] /\ Window[9] = W[i - 7]
        /\ Window[1] = W[i - 15] /\ Window[0] = W[i - 16]
    BY <2>1, <1>3
  <2>3. i - 2 \in Ready /\ i - 15 \in Ready
    BY <1>3 DEF Ready, Slots, Rounds
  <2>4. W[i - 2] \in Words(Bits) /\ W[i - 15] \in Words(Bits)
    BY <2>3 DEF WordsOK
  <2>5. Standard!Width(algorithm) = Bits
    BY DEF Standard!Width, Standard!Long, Bits, Sha512, Long
  <2>6. /\ Standard!SmallSigma1(Bits, W[i - 2]) = S1(W[i - 2])
        /\ Standard!SmallSigma0(Bits, W[i - 15]) = S0(W[i - 15])
    BY <2>4, SigmasAreS
  <2>7. Standard!NextWord(algorithm, Window) = R2(i)
    BY <1>3, <2>2, <2>5, <2>6, SameWords
       DEF Standard!NextWord, Sha1, R2, Sum
  <2> QED
    BY <1>3, <2>7 DEF RoundWord
<1> QED
  BY <1>1, <1>2, <1>3

\* Registers that the next call of P names.
NextRegisters(r) ==
  [j \in Names |-> r[IF smaller THEN j ELSE (j - (i + 1)) % (IF Sha1 THEN 5 ELSE 8)]]

LEMMA Step1IsP1 ==
  ASSUME IInv, pc = "rounds", Sha1, i < Rounds, NEW x \in Words(Bits)
  PROVE  LET p == P1(v, Arg(0), Arg(1), Arg(2), Arg(3), Arg(4), x)
         IN  /\ p \in [Names -> Words(Bits)]
             /\ NextRegisters(p) = Standard!Step1(Registers, i, x)
<1> DEFINE p == P1(v, Arg(0), Arg(1), Arg(2), Arg(3), Arg(4), x)
           T == Sum(v[Arg(4)], Sum(Sum(Sum(S(v[Arg(0)], 5),
                    F(i, v[Arg(1)], v[Arg(2)], v[Arg(3)])),
                                       K(algorithm, i)), x))
<1>1. Names = 0..4 /\ Bits = 32 /\ i \in 0..79 /\ ~smaller
  BY DEF Names, Bits, Sha1, Sha512, Sha256, Long, Rounds, IInv, ControlOK
<1>2. v \in [0..4 -> Words(32)]
  BY <1>1 DEF IInv, WordsOK
<1>3. /\ \A j \in 0..4 : Arg(j) \in 0..4
      /\ \A j, k \in 0..4 : Arg(j) = Arg(k) => j = k
      /\ (0 - (i + 1)) % 5 = Arg(4)
      /\ \A j \in 1..4 : (j - (i + 1)) % 5 = Arg(j - 1)
  <2>1. \A j : Arg(j) = (j - i) % 5
    BY DEF Arg
  <2>2. /\ \A j \in 0..4 : (j - i) % 5 \in 0..4
        /\ \A j, k \in 0..4 : (j - i) % 5 = (k - i) % 5 => j = k
        /\ (0 - (i + 1)) % 5 = (4 - i) % 5
        /\ \A j \in 1..4 : (j - (i + 1)) % 5 = ((j - 1) - i) % 5
    BY <1>1
  <2> QED
    BY <2>1, <2>2, Zenon
<1>4. T \in Words(32) /\ S(v[Arg(1)], 30) \in Words(32)
  BY SumIsWord, SIsWord, <1>1
<1>5. p = [v EXCEPT ![Arg(4)] = T, ![Arg(1)] = S(v[Arg(1)], 30)]
  BY DEF P1
<1>6. /\ p \in [0..4 -> Words(32)]
      /\ p[Arg(4)] = T /\ p[Arg(1)] = S(v[Arg(1)], 30)
      /\ \A k \in (0..4) \ {Arg(4), Arg(1)} : p[k] = v[k]
  <2> HIDE DEF p, T
  <2>1. Arg(4) \in 0..4 /\ Arg(1) \in 0..4 /\ Arg(4) # Arg(1)
    BY <1>3
  <2> QED
    BY <2>1, <1>2, <1>4, <1>5, TwoAssignments
<1>7. Registers = [j \in 0..4 |-> v[Arg(j)]]
  BY <1>1 DEF Registers
<1>8. NextRegisters(p) = Standard!Step1(Registers, i, x)
  <2>1. /\ Standard!RotateLeft(32, v[Arg(0)], 5) = S(v[Arg(0)], 5)
        /\ Standard!RotateLeft(32, v[Arg(1)], 30) = S(v[Arg(1)], 30)
    BY RotateLeftIsS, <1>2, <1>3
  <2>2. Standard!Function1(i, v[Arg(1)], v[Arg(2)], v[Arg(3)])
          = F(i, v[Arg(1)], v[Arg(2)], v[Arg(3)])
    <3>1. /\ v[Arg(1)] \in Words(32) /\ v[Arg(2)] \in Words(32)
          /\ v[Arg(3)] \in Words(32)
      BY <1>2, <1>3
    <3> QED
      BY <3>1, Function1IsF, <1>1
  <2>3. T = Standard!Add(32, v[Arg(4)], Standard!Add(32, Standard!Add(32,
              Standard!Add(32, Standard!RotateLeft(32, v[Arg(0)], 5),
                 Standard!Function1(i, v[Arg(1)], v[Arg(2)], v[Arg(3)])),
              K("SHA1", i)), x))
    BY <2>1, <2>2, <1>1, SameWords DEF Sum, Sha1
  <2>4. Standard!Step1(Registers, i, x) =
          [j \in 0..4 |-> IF j = 0 THEN T
                          ELSE IF j = 2 THEN S(v[Arg(1)], 30)
                          ELSE v[Arg(j - 1)]]
    BY <2>1, <2>3, <1>7 DEF Standard!Step1
  <2>5. NextRegisters(p) = [j \in 0..4 |-> p[(j - (i + 1)) % 5]]
    BY <1>1 DEF NextRegisters
  <2> HIDE DEF p, T
  <2>6. \A j \in 0..4 : p[(j - (i + 1)) % 5] =
                          IF j = 0 THEN T
                          ELSE IF j = 2 THEN S(v[Arg(1)], 30)
                          ELSE v[Arg(j - 1)]
    <3>1. /\ Arg(0) \in (0..4) \ {Arg(4), Arg(1)}
          /\ Arg(2) \in (0..4) \ {Arg(4), Arg(1)}
          /\ Arg(3) \in (0..4) \ {Arg(4), Arg(1)}
      BY <1>3
    <3>2. /\ p[Arg(0)] = v[Arg(0)] /\ p[Arg(2)] = v[Arg(2)]
          /\ p[Arg(3)] = v[Arg(3)]
      BY <3>1, <1>6
    <3>3. TAKE j \in 0..4
    <3>4. CASE j = 0
      BY <3>4, <1>3, <1>6
    <3>5. CASE j = 1
      BY <3>5, <1>3, <3>2
    <3>6. CASE j = 2
      BY <3>6, <1>3, <1>6
    <3>7. CASE j = 3
      BY <3>7, <1>3, <3>2
    <3>8. CASE j = 4
      BY <3>8, <1>3, <3>2
    <3> QED
      BY <3>4, <3>5, <3>6, <3>7, <3>8
  <2> QED
    BY <2>4, <2>5, <2>6
<1> QED
  BY <1>1, <1>6, <1>8

\* A call of P of SHA-2 is a round of the standard, whatever registers A
\* names as its arguments.
LEMMA Step2IsP2 ==
  ASSUME ~Sha1, v \in [0..7 -> Words(Bits)],
         NEW A \in [0..7 -> 0..7], \A j, k \in 0..7 : A[j] = A[k] => j = k,
         NEW x, NEW p,
         p = P2(v, A[0], A[1], A[2], A[3], A[4], A[5], A[6], A[7], x,
                K(algorithm, i))
  PROVE  /\ p \in [0..7 -> Words(Bits)]
         /\ Standard!Step2(algorithm, [j \in 0..7 |-> v[A[j]]], i, x) =
              [j \in 0..7 |-> p[A[IF j = 0 THEN 7 ELSE j - 1]]]
<1> DEFINE temp1 == Sum(Sum(Sum(Sum(v[A[7]], S3(v[A[4]])),
                        F1(v[A[4]], v[A[5]], v[A[6]])), K(algorithm, i)), x)
           temp2 == Sum(S2(v[A[0]]), F0(v[A[0]], v[A[1]], v[A[2]]))
           r == [j \in 0..7 |-> v[A[j]]]
<1>1. p = [v EXCEPT ![A[3]] = Sum(v[A[3]], temp1),
                    ![A[7]] = Sum(temp1, temp2)]
  BY DEF P2
<1>2. Sum(v[A[3]], temp1) \in Words(Bits) /\ Sum(temp1, temp2) \in Words(Bits)
  BY SumIsWord
<1>3. \A j \in 0..7 : v[A[j]] \in Words(Bits)
  OBVIOUS
<1>4. /\ p \in [0..7 -> Words(Bits)]
      /\ p[A[3]] = Sum(v[A[3]], temp1) /\ p[A[7]] = Sum(temp1, temp2)
      /\ \A k \in (0..7) \ {A[3], A[7]} : p[k] = v[k]
  <2> DEFINE y == Sum(v[A[3]], temp1)
             z == Sum(temp1, temp2)
  <2>1. A[3] \in 0..7 /\ A[7] \in 0..7 /\ A[3] # A[7]
    OBVIOUS
  <2>2. /\ y \in Words(Bits) /\ z \in Words(Bits)
        /\ p = [v EXCEPT ![A[3]] = y, ![A[7]] = z]
    BY <1>1, <1>2
  <2> HIDE DEF y, z
  <2>3. /\ p \in [0..7 -> Words(Bits)]
        /\ p[A[3]] = y /\ p[A[7]] = z
        /\ \A k \in (0..7) \ {A[3], A[7]} : p[k] = v[k]
    BY <2>1, <2>2
  <2> QED
    BY <2>3 DEF y, z
<1>5. Standard!Width(algorithm) = Bits
  BY DEF Standard!Width, Standard!Long, Bits, Sha512, Long
<1>6. /\ Standard!BigSigma1(Bits, v[A[4]]) = S3(v[A[4]])
      /\ Standard!BigSigma0(Bits, v[A[0]]) = S2(v[A[0]])
  BY <1>3, SigmasAreS
<1>7. Standard!Ch(Bits, v[A[4]], v[A[5]], v[A[6]])
        = F1(v[A[4]], v[A[5]], v[A[6]])
  <2>1. /\ v[A[4]] \in Words(Bits) /\ v[A[5]] \in Words(Bits)
        /\ v[A[6]] \in Words(Bits)
    BY <1>3
  <2> QED
    BY <2>1, ChIsF1
<1>8. Standard!Maj(v[A[0]], v[A[1]], v[A[2]]) = F0(v[A[0]], v[A[1]], v[A[2]])
  <2>1. /\ v[A[0]] \in Words(Bits) /\ v[A[1]] \in Words(Bits)
        /\ v[A[2]] \in Words(Bits)
    BY <1>3
  <2> QED
    BY <2>1, MajIsF0
<1>9. /\ Standard!Add(Bits, Standard!Add(Bits, Standard!Add(Bits,
            Standard!Add(Bits, v[A[7]], Standard!BigSigma1(Bits, v[A[4]])),
            Standard!Ch(Bits, v[A[4]], v[A[5]], v[A[6]])), K(algorithm, i)), x)
           = temp1
      /\ Standard!Add(Bits, Standard!BigSigma0(Bits, v[A[0]]),
            Standard!Maj(v[A[0]], v[A[1]], v[A[2]])) = temp2
      /\ Standard!Add(Bits, temp1, temp2) = Sum(temp1, temp2)
      /\ Standard!Add(Bits, v[A[3]], temp1) = Sum(v[A[3]], temp1)
  BY <1>6, <1>7, <1>8, SameWords DEF Sum
<1>10. Standard!Step2(algorithm, r, i, x) =
         [j \in 0..7 |-> IF j = 0 THEN Sum(temp1, temp2)
                         ELSE IF j = 4 THEN Sum(v[A[3]], temp1)
                         ELSE v[A[j - 1]]]
  <2>1. /\ r[0] = v[A[0]] /\ r[1] = v[A[1]] /\ r[2] = v[A[2]]
        /\ r[3] = v[A[3]] /\ r[4] = v[A[4]] /\ r[5] = v[A[5]]
        /\ r[6] = v[A[6]] /\ r[7] = v[A[7]]
        /\ \A j \in (0..7) \ {0} : r[j - 1] = v[A[j - 1]]
    OBVIOUS
  <2> HIDE DEF r, temp1, temp2
  <2> QED
    BY <2>1, <1>5, <1>9 DEF Standard!Step2
<1>11. \A j \in 0..7 : p[A[IF j = 0 THEN 7 ELSE j - 1]] =
                          IF j = 0 THEN Sum(temp1, temp2)
                          ELSE IF j = 4 THEN Sum(v[A[3]], temp1)
                          ELSE v[A[j - 1]]
  <2> HIDE DEF temp1, temp2
  <2>1. TAKE j \in 0..7
  <2>2. CASE j = 0
    BY <2>2, <1>4
  <2>3. CASE j = 4
    BY <2>3, <1>4
  <2>4. CASE j \notin {0, 4}
    <3>1. A[j - 1] \in (0..7) \ {A[3], A[7]}
      BY <2>4
    <3> QED
      BY <3>1, <2>4, <1>4
  <2> QED
    BY <2>2, <2>3, <2>4
<1> HIDE DEF temp1, temp2
<1> QED
  BY <1>4, <1>10, <1>11

\* What a round does to the schedule: RoundWord goes to its slot.
Slot == IF Sha1 THEN i % 16 ELSE i

LEMMA RoundSchedule ==
  ASSUME IInv, Round
  PROVE  /\ W' = [k \in Slots |-> W'[k]]
         /\ Slot \in Slots /\ W'[Slot] = RoundWord
         /\ \A k \in Slots \ {Slot} : W'[k] = W[k]
<1> USE DEF IInv, ControlOK, Round
<1>1. W = [k \in Slots |-> W[k]] /\ i \in 0..(Rounds - 1)
  BY DEF WordsOK, Rounds
<1>2. Slot \in Slots
  BY <1>1 DEF Slot, Slots, Rounds, Sha1
<1>3. CASE Sha1Round
  <2>1. (IF i < 16 THEN W[i] ELSE R1(i)) = RoundWord
    <3>1. i < 16 => i \in Ready
      BY <1>3 DEF Ready, Slots, Sha1Round, Sha1, Sha256
    <3>2. i < 16 => W[i] = GetWord(data, i)
      BY <3>1 DEF ScheduleOK
    <3> QED
      BY <3>2, <1>3 DEF RoundWord, Sha1Round
  <2>2. W' = [W EXCEPT ![Slot] = RoundWord]
    BY <1>3, <2>1 DEF Sha1Round, Slot
  <2> QED
    BY <1>1, <1>2, <2>2
<1>4. CASE Sha256Round
  <2>1. ~Sha1
    BY <1>4 DEF Sha256Round, Sha256, Sha1
  <2>2. (IF i < 16 THEN W[i] ELSE R2(i)) = RoundWord
    <3>1. i < 16 => i \in Ready
      BY <1>4, <1>2, <2>1 DEF Ready, Slot, Sha256Round
    <3>2. i < 16 => W[i] = GetWord(data, i)
      BY <3>1, <2>1 DEF ScheduleOK
    <3> QED
      BY <3>2, <2>1 DEF RoundWord
  <2>3. W' = [W EXCEPT ![Slot] = RoundWord]
    BY <1>4, <2>1, <2>2 DEF Sha256Round, Slot
  <2> QED
    BY <1>1, <1>2, <2>3
<1>5. CASE SmallerRound
  <2>1. ~Sha1
    BY <1>5 DEF SmallerRound, Sha256, Sha1
  <2>2. W' = [W EXCEPT ![Slot] = RoundWord]
    BY <1>5, <2>1 DEF SmallerRound, Slot, RoundWord
  <2> QED
    BY <1>1, <1>2, <2>2
<1>6. CASE Sha512Round
  <2>1. ~Sha1
    BY <1>6 DEF Sha512Round, Sha512, Long, Sha1
  <2>2. i \in Ready
    BY <1>6, <1>2, <2>1 DEF Ready, Slot, Sha512Round
  <2>3. W[i] = RoundWord
    BY <2>1, <2>2, <1>6 DEF ScheduleOK, RoundWord, Sha512Round
  <2>4. W' = W
    BY <1>6 DEF Sha512Round
  <2> QED
    BY <1>1, <1>2, <2>1, <2>3, <2>4 DEF Slot
<1> QED
  BY <1>3, <1>4, <1>5, <1>6

\* What it does to the registers.
LEMMA RoundRegisters ==
  ASSUME IInv, Round
  PROVE  /\ v' \in [Names -> Words(Bits)]
         /\ NextRegisters(v') =
              IF Sha1 THEN Standard!Step1(Registers, i, RoundWord)
              ELSE Standard!Step2(algorithm, Registers, i, RoundWord)
<1> USE DEF IInv, ControlOK, Round
<1>1. v \in [Names -> Words(Bits)] /\ i \in 0..(Rounds - 1)
  BY DEF WordsOK, Rounds
<1>2. W'[Slot] = RoundWord /\ (Sha512Round => W[i] = RoundWord)
  <2>1. Sha512Round => ~Sha1 /\ W' = W
    BY DEF Sha512Round, Sha512, Long, Sha1
  <2> QED
    BY <2>1, RoundSchedule DEF Slot
<1>3. CASE Sha1Round
  <2>1. (IF i < 16 THEN W[i] ELSE R1(i)) = RoundWord
    <3>1. i < 16 => i \in Ready
      BY <1>3 DEF Ready, Slots, Sha1Round, Sha1, Sha256
    <3>2. i < 16 => W[i] = GetWord(data, i)
      BY <3>1 DEF ScheduleOK
    <3> QED
      BY <3>2, <1>3 DEF RoundWord, Sha1Round
  <2>2. v' = P1(v, Arg(0), Arg(1), Arg(2), Arg(3), Arg(4), RoundWord)
    BY <1>3, <2>1 DEF Sha1Round
  <2> QED
    BY <1>3, <2>2, Step1IsP1, RoundWordIsWord DEF Sha1Round
<1>4. ASSUME ~Sha1, ~smaller,
             v' = P2(v, Arg(0), Arg(1), Arg(2), Arg(3), Arg(4), Arg(5),
                     Arg(6), Arg(7), RoundWord, K(algorithm, i))
      PROVE  /\ v' \in [Names -> Words(Bits)]
             /\ NextRegisters(v') =
                  Standard!Step2(algorithm, Registers, i, RoundWord)
  <2> DEFINE A == [j \in 0..7 |-> Arg(j)]
  <2>1. \A j : Arg(j) = (j - i) % 8
    BY <1>4 DEF Arg
  <2>2. /\ \A j \in 0..7 : (j - i) % 8 \in 0..7
        /\ \A j, k \in 0..7 : (j - i) % 8 = (k - i) % 8 => j = k
        /\ \A j \in 0..7 : (j - (i + 1)) % 8 =
                            ((IF j = 0 THEN 7 ELSE j - 1) - i) % 8
    BY <1>1
  <2>3. /\ A \in [0..7 -> 0..7]
        /\ \A j, k \in 0..7 : A[j] = A[k] => j = k
        /\ \A j \in 0..7 : A[IF j = 0 THEN 7 ELSE j - 1] =
                            (j - (i + 1)) % 8
    BY <2>1, <2>2
  <2>4. /\ A[0] = Arg(0) /\ A[1] = Arg(1) /\ A[2] = Arg(2) /\ A[3] = Arg(3)
        /\ A[4] = Arg(4) /\ A[5] = Arg(5) /\ A[6] = Arg(6) /\ A[7] = Arg(7)
        /\ \A j \in 0..7 : A[j] = Arg(j)
    OBVIOUS
  <2>5. Names = 0..7
    BY <1>4 DEF Names
  <2> HIDE DEF A
  <2>6. /\ v' \in [0..7 -> Words(Bits)]
        /\ Standard!Step2(algorithm, [j \in 0..7 |-> v[A[j]]], i, RoundWord)
             = [j \in 0..7 |-> v'[A[IF j = 0 THEN 7 ELSE j - 1]]]
    BY <1>1, <1>4, <2>3, <2>4, <2>5, Step2IsP2
  <2>7. Registers = [j \in 0..7 |-> v[A[j]]]
    BY <1>4, <2>4, <2>5 DEF Registers
  <2>8. NextRegisters(v') = [j \in 0..7 |-> v'[(j - (i + 1)) % 8]]
    BY <1>4, <2>5 DEF NextRegisters
  <2> QED
    BY <2>3, <2>5, <2>6, <2>7, <2>8
<1>5. CASE Sha256Round
  <2>1. ~Sha1 /\ ~smaller
    BY <1>5 DEF Sha256Round, Sha256, Sha1
  <2>2. (IF i < 16 THEN W[i] ELSE R2(i)) = RoundWord
    <3>1. W' = [W EXCEPT ![i] = IF i < 16 THEN W[i] ELSE R2(i)]
      BY <1>5 DEF Sha256Round
    <3>2. i \in Slots /\ W'[i] = RoundWord
      BY <2>1, RoundSchedule DEF Slot
    <3> QED
      BY <3>1, <3>2 DEF WordsOK
  <2> QED
    BY <1>4, <1>5, <2>1, <2>2 DEF Sha256Round
<1>6. CASE Sha512Round
  <2>1. ~Sha1 /\ ~smaller
    BY <1>6 DEF Sha512Round, Sha512, Sha256, Long, Sha1
  <2> QED
    BY <1>2, <1>4, <1>6, <2>1 DEF Sha512Round
<1>7. CASE SmallerRound
  <2>1. ~Sha1 /\ smaller /\ Names = 0..7
    BY <1>7 DEF SmallerRound, Sha256, Sha1, Names
  <2> DEFINE p == P2(v, 0, 1, 2, 3, 4, 5, 6, 7, RoundWord, K(algorithm, i))
             A == [j \in 0..7 |-> j]
  <2>2. v' = [j \in 0..7 |-> p[IF j = 0 THEN 7 ELSE j - 1]]
    BY <1>7, <2>1 DEF SmallerRound, RoundWord
  <2>3. /\ A \in [0..7 -> 0..7]
        /\ \A j, k \in 0..7 : A[j] = A[k] => j = k
        /\ A[0] = 0 /\ A[1] = 1 /\ A[2] = 2 /\ A[3] = 3
        /\ A[4] = 4 /\ A[5] = 5 /\ A[6] = 6 /\ A[7] = 7
        /\ \A j \in 0..7 : A[j] = j
    OBVIOUS
  <2>4. p = P2(v, A[0], A[1], A[2], A[3], A[4], A[5], A[6], A[7],
               RoundWord, K(algorithm, i))
    BY <2>3
  <2> HIDE DEF p, A
  <2>5. /\ p \in [0..7 -> Words(Bits)]
        /\ Standard!Step2(algorithm, [j \in 0..7 |-> v[A[j]]], i, RoundWord)
             = [j \in 0..7 |-> p[A[IF j = 0 THEN 7 ELSE j - 1]]]
    BY <1>1, <2>1, <2>3, <2>4, Step2IsP2
  <2>6. \A j \in 0..7 : A[IF j = 0 THEN 7 ELSE j - 1] = IF j = 0 THEN 7 ELSE j - 1
    BY <2>3
  <2>7. /\ Registers = [j \in 0..7 |-> v[A[j]]]
        /\ NextRegisters(v') = [j \in 0..7 |-> v'[j]]
    BY <2>1, <2>3 DEF Registers, NextRegisters
  <2>8. v' \in [0..7 -> Words(Bits)]
    BY <2>2, <2>5
  <2> QED
    BY <2>1, <2>2, <2>5, <2>6, <2>7, <2>8
<1> QED
  BY <1>3, <1>5, <1>6, <1>7 DEF Sha1Round, Sha256Round, SmallerRound,
     Sha512Round, Sha1, Sha256, Sha512, Long

\* What it does to the window.
LEMMA RoundWindow ==
  ASSUME IInv, Round
  PROVE  Window' = [k \in 0..15 |-> IF k = 15 THEN RoundWord ELSE Window[k + 1]]
<1> USE DEF IInv, ControlOK, Round
<1>1. /\ i \in Nat /\ i' = i + 1 /\ pc' = "rounds" /\ data' = data
      /\ algorithm' = algorithm /\ smaller' = smaller /\ i < Rounds
      /\ Sha1' = Sha1 /\ Slots' = Slots
      /\ \A b, k : GetWord(b, k)' = GetWord(b, k)
  BY DEF Sha1, Slots, Rounds, Sha256, GetWord, Bits, Sha512, Long
<1>2. Window' = [k \in 0..15 |->
                   IF i + 1 < 16 THEN GetWord(data, (i + 1 + k) % 16)
                   ELSE IF Sha1 THEN W'[(i + 1 + k) % 16]
                   ELSE W'[i + 1 - 16 + k]]
  BY <1>1 DEF Window, StandardRound, GetWord, Sha1, Bits, Sha512, Long
<1>3. Window = [k \in 0..15 |->
                  IF i < 16 THEN GetWord(data, (i + k) % 16)
                  ELSE IF Sha1 THEN W[(i + k) % 16]
                  ELSE W[i - 16 + k]]
  BY DEF Window, StandardRound
<1>4. /\ Slot \in Slots /\ W'[Slot] = RoundWord
      /\ \A k \in Slots \ {Slot} : W'[k] = W[k]
  BY RoundSchedule
<1>5. \A k \in 0..15 : Window'[k] = IF k = 15 THEN RoundWord ELSE Window[k + 1]
  <2>1. TAKE k \in 0..15
  <2>2. CASE i < 15
    <3>1. Window'[k] = GetWord(data, (i + 1 + k) % 16)
      BY <1>1, <1>2, <2>2
    <3>2. CASE k = 15
      <4>1. (i + 1 + k) % 16 = i
        BY <1>1, <2>2, <3>2
      <4> QED
        BY <3>1, <3>2, <4>1, <2>2 DEF RoundWord
    <3>3. CASE k < 15
      <4>1. Window[k + 1] = GetWord(data, (i + (k + 1)) % 16)
        BY <1>3, <2>2, <3>3, <2>1
      <4>2. i + (k + 1) = i + 1 + k
        BY <1>1
      <4> QED
        BY <3>1, <3>3, <4>1, <4>2
    <3> QED
      BY <3>2, <3>3
  <2>3. CASE i >= 15 /\ Sha1
    <3>1. Window'[k] = W'[(i + 1 + k) % 16] /\ Slot = i % 16
      BY <1>1, <1>2, <2>3 DEF Slot
    <3>2. CASE k = 15
      <4>1. (i + 1 + k) % 16 = i % 16
        BY <1>1, <3>2
      <4> QED
        BY <3>1, <3>2, <4>1, <1>4
    <3>3. CASE k < 15
      <4>1. (i + 1 + k) % 16 # i % 16 /\ (i + 1 + k) % 16 \in 0..15
        BY <1>1, <3>3
      <4>2. Slots = 0..15
        BY <2>3 DEF Slots
      <4>3. W'[(i + 1 + k) % 16] = W[(i + 1 + k) % 16]
        BY <4>1, <4>2, <3>1, <1>4
      <4>4. CASE i >= 16
        <5>1. Window[k + 1] = W[(i + (k + 1)) % 16]
          BY <1>3, <2>3, <3>3, <4>4
        <5>2. i + (k + 1) = i + 1 + k
          BY <1>1
        <5> QED
          BY <3>1, <3>3, <4>3, <5>1, <5>2
      <4>5. CASE i = 15
        <5>1. Window[k + 1] = GetWord(data, (i + (k + 1)) % 16)
          BY <1>3, <3>3, <4>5
        <5>2. i + (k + 1) = i + 1 + k
          BY <1>1
        <5>3. (i + 1 + k) % 16 \in Ready /\ (i + 1 + k) % 16 < 16
          BY <4>1, <4>2, <2>3 DEF Ready, Sha1, Sha256
        <5>4. W[(i + 1 + k) % 16] = GetWord(data, (i + 1 + k) % 16)
          BY <5>3, <4>5 DEF ScheduleOK
        <5> QED
          BY <3>1, <3>3, <4>3, <5>1, <5>2, <5>4
      <4> QED
        BY <4>4, <4>5, <2>3, <1>1
    <3> QED
      BY <3>2, <3>3
  <2>4. CASE i >= 15 /\ ~Sha1
    <3>1. Window'[k] = W'[i - 15 + k] /\ Slot = i
      <4>1. i + 1 - 16 + k = i - 15 + k
        BY <1>1
      <4> QED
        BY <1>1, <1>2, <2>4, <4>1 DEF Slot
    <3>2. CASE k = 15
      <4>1. i - 15 + k = i
        BY <1>1, <3>2
      <4> QED
        BY <3>1, <3>2, <4>1, <1>4
    <3>3. CASE k < 15
      <4>1. i - 15 + k \in Ready /\ i - 15 + k # i
        BY <1>1, <2>4, <3>3 DEF Ready, Slots, Rounds
      <4>2. W'[i - 15 + k] = W[i - 15 + k]
        BY <4>1, <3>1, <1>4 DEF Ready
      <4>3. CASE i >= 16
        <5>1. Window[k + 1] = W[i - 16 + (k + 1)]
          BY <1>3, <2>4, <3>3, <4>3
        <5>2. i - 16 + (k + 1) = i - 15 + k
          BY <1>1
        <5> QED
          BY <3>1, <3>3, <4>2, <5>1, <5>2
      <4>4. CASE i = 15
        <5>1. Window[k + 1] = GetWord(data, (i + (k + 1)) % 16)
          BY <1>3, <3>3, <4>4
        <5>2. (i + (k + 1)) % 16 = i - 15 + k
          BY <4>4, <3>3
        <5>3. W[i - 15 + k] = GetWord(data, i - 15 + k)
          BY <4>1, <4>4, <3>3, <2>4 DEF ScheduleOK
        <5> QED
          BY <3>1, <3>3, <4>2, <5>1, <5>2, <5>3
      <4> QED
        BY <4>3, <4>4, <2>4, <1>1
    <3> QED
      BY <3>2, <3>3
  <2> QED
    BY <2>2, <2>3, <2>4, <1>1
<1> QED
  BY <1>2, <1>5

-----------------------------------------------------------------------------
(* The invariant is kept.                                                  *)

\* What depends on the algorithm only.
LEMMA SameAlgorithm ==
  ASSUME algorithm' = algorithm
  PROVE  /\ Sha1' = Sha1 /\ Sha256' = Sha256 /\ Sha512' = Sha512
         /\ Bits' = Bits /\ Names' = Names /\ Rounds' = Rounds
         /\ Slots' = Slots
         /\ \A b, k : GetWord(b, k)' = GetWord(b, k)
         /\ \A x, y : Sum(x, y)' = Sum(x, y)
BY DEF Sha1, Sha256, Sha512, Long, Bits, Names, Rounds, Slots, GetWord, Sum

LEMMA CallKeeps ==
  ASSUME IInv, NEW b, Call(b)
  PROVE  IInv'
<1> USE DEF IInv, ControlOK
<1>1. /\ algorithm' = algorithm /\ smaller' = smaller /\ state' = state
      /\ data' = b /\ v' = state
      /\ pc' = (IF Sha512 THEN "expand" ELSE "rounds")
      /\ i' = (IF Sha512 THEN 16 ELSE 0)
      /\ W' = [k \in Slots |-> IF k < 16 /\ ~smaller THEN GetWord(b, k) ELSE <<>>]
  BY DEF Call
<1>2. /\ Sha1' = Sha1 /\ Sha256' = Sha256 /\ Sha512' = Sha512
      /\ Bits' = Bits /\ Names' = Names /\ Rounds' = Rounds /\ Slots' = Slots
      /\ \A k : GetWord(b, k)' = GetWord(b, k)
  BY <1>1, SameAlgorithm
<1>3. ControlOK'
  BY <1>1, <1>2 DEF Rounds
<1>4. Ready' \subseteq {k \in Slots : k < 16 /\ ~smaller}
  BY <1>1, <1>2 DEF Ready, Slots, Sha256, Sha512, Long
<1>5. \A k \in Ready' : k < 16 /\ W'[k] = GetWord(b, k)
  BY <1>1, <1>4
<1>6. WordsOK'
  <2>1. \A k \in Ready' : W'[k] \in Words(Bits)
    BY <1>5, GetWordIsWord
  <2>2. W' = [k \in Slots |-> W'[k]]
    BY <1>1
  <2>3. state \in [Names -> Words(Bits)]
    BY DEF WordsOK
  <2> QED
    BY <1>1, <1>2, <2>1, <2>2, <2>3 DEF WordsOK
<1>7. ScheduleOK'
  <2>1. \A k \in Ready' : k < 16 /\ W'[k] = GetWord(data', k)
    BY <1>1, <1>5
  <2>2. \A k \in Ready' : W'[k] = GetWord(data, k)'
    BY <2>1, SameAlgorithm, <1>1 DEF GetWord
  <2> QED
    BY <1>4, <2>2 DEF ScheduleOK, Slots
<1> QED
  BY <1>3, <1>6, <1>7

\* R2 of the slots below does not see a write to slot i.
LEMMA R2Local ==
  ASSUME algorithm' = algorithm, NEW t,
         W'[t - 2] = W[t - 2], W'[t - 7] = W[t - 7],
         W'[t - 15] = W[t - 15], W'[t - 16] = W[t - 16]
  PROVE  R2(t)' = R2(t)
BY DEF R2, Sum, S0, S1, ROTR, SHR, Bits, Sha512, Long

LEMMA ExpandKeeps ==
  ASSUME IInv, Expand
  PROVE  IInv'
<1> USE DEF IInv, ControlOK
<1>1. /\ algorithm' = algorithm /\ smaller' = smaller /\ state' = state
      /\ data' = data /\ v' = v /\ pc = "expand" /\ Sha512 /\ i \in 16..80
      /\ ~Sha1 /\ ~smaller /\ Slots = 0..79 /\ Rounds = 80
  BY DEF Expand, Sha512, Sha1, Sha256, Long, Slots, Rounds
<1>2. /\ Sha1' = Sha1 /\ Sha256' = Sha256 /\ Sha512' = Sha512
      /\ Bits' = Bits /\ Names' = Names /\ Rounds' = Rounds /\ Slots' = Slots
      /\ \A k : GetWord(data, k)' = GetWord(data, k)
  BY <1>1, SameAlgorithm DEF GetWord
<1>3. Ready = {k \in 0..79 : k < i}
  BY <1>1 DEF Ready
<1>4. CASE i < 80
  <2>1. W' = [W EXCEPT ![i] = R2(i)] /\ i' = i + 1 /\ pc' = pc
    BY <1>4 DEF Expand
  <2>2. /\ W' = [k \in Slots |-> W'[k]] /\ W'[i] = R2(i)
        /\ \A k \in Slots \ {i} : W'[k] = W[k]
    <3>1. W = [k \in Slots |-> W[k]] /\ i \in Slots
      BY <1>1, <1>4 DEF WordsOK
    <3> QED
      BY <3>1, <2>1
  <2>3. Ready' = {k \in 0..79 : k < i + 1}
    BY <1>1, <1>2, <2>1 DEF Ready
  <2>4. \A k \in Ready' : k = i \/ (k \in Ready /\ k \in Slots \ {i})
    BY <1>1, <1>3, <2>3
  <2>5. \A k \in Ready' : W'[k] \in Words(Bits)
    BY <2>2, <2>4, <1>1, SumIsWord DEF WordsOK, R2
  <2>6. \A k \in Ready' : k >= 16 => R2(k)' = R2(k)
    BY <1>1, <2>2, <2>3, R2Local
  <2>7. \A k \in Ready' : k >= 16 => W'[k] = R2(k)'
    BY <1>1, <2>2, <2>4, <2>6 DEF ScheduleOK
  <2>8. \A k \in Ready' : k < 16 => W'[k] = GetWord(data, k)'
    BY <1>1, <1>2, <2>2, <2>4 DEF ScheduleOK
  <2>9. ControlOK'
    BY <1>1, <1>2, <1>4, <2>1
  <2>10. WordsOK'
    BY <1>1, <1>2, <2>1, <2>2, <2>5 DEF WordsOK
  <2>11. ScheduleOK'
    BY <1>1, <1>2, <2>7, <2>8 DEF ScheduleOK
  <2> QED
    BY <2>9, <2>10, <2>11
<1>5. CASE ~(i < 80)
  <2>1. W' = W /\ i' = 0 /\ pc' = "rounds"
    BY <1>5 DEF Expand
  <2>2. Ready' = 0..79 /\ Ready = 0..79
    BY <1>1, <1>2, <1>3, <1>5, <2>1 DEF Ready
  <2>3. \A t : R2(t)' = R2(t)
    BY <1>1, <2>1 DEF R2, Sum, S0, S1, ROTR, SHR, Bits, Sha512, Long
  <2>4. ControlOK'
    BY <1>1, <1>2, <2>1
  <2>5. WordsOK'
    BY <1>1, <1>2, <2>1, <2>2 DEF WordsOK
  <2>6. ScheduleOK'
    BY <1>1, <1>2, <2>1, <2>2, <2>3 DEF ScheduleOK
  <2> QED
    BY <2>4, <2>5, <2>6
<1> QED
  BY <1>4, <1>5

LEMMA RoundKeeps ==
  ASSUME IInv, Round
  PROVE  IInv'
<1> USE DEF IInv, ControlOK
<1>1. /\ algorithm' = algorithm /\ smaller' = smaller /\ state' = state
      /\ data' = data /\ pc = "rounds" /\ pc' = pc /\ i' = i + 1 /\ i < Rounds
  BY DEF Round
<1>2. /\ Sha1' = Sha1 /\ Sha256' = Sha256 /\ Sha512' = Sha512
      /\ Bits' = Bits /\ Names' = Names /\ Rounds' = Rounds /\ Slots' = Slots
      /\ \A k : GetWord(data, k)' = GetWord(data, k)
  BY <1>1, SameAlgorithm DEF GetWord
<1>3. /\ W' = [k \in Slots |-> W'[k]]
      /\ Slot \in Slots /\ W'[Slot] = RoundWord
      /\ \A k \in Slots \ {Slot} : W'[k] = W[k]
  BY RoundSchedule
<1>4. \A k \in Ready' : k = Slot \/ (k \in Ready /\ k \in Slots \ {Slot})
  BY <1>1, <1>2 DEF Ready, Slot, Slots, Sha1, Sha256
<1>5. ControlOK'
  BY <1>1, <1>2 DEF Rounds
<1>6. WordsOK'
  BY <1>1, <1>2, <1>3, <1>4, RoundRegisters, RoundWordIsWord DEF WordsOK
<1>7. \A k \in Ready' : k < 16 /\ (Sha1 => i + 1 <= 16) => W'[k] = GetWord(data, k)
  <2>1. TAKE k \in Ready'
  <2>2. HAVE k < 16 /\ (Sha1 => i + 1 <= 16)
  <2>3. CASE k = Slot
    <3>1. i < 16 /\ k = i
      BY <2>2, <2>3, <1>1 DEF Slot
    <3> QED
      BY <3>1, <2>3, <1>3 DEF RoundWord
  <2>4. CASE k # Slot
    BY <2>2, <2>4, <1>1, <1>3, <1>4 DEF ScheduleOK
  <2> QED
    BY <2>3, <2>4
<1>8. \A k \in Ready' : k >= 16 /\ Sha512 => W'[k] = R2(k)'
  <2>1. SUFFICES ASSUME Sha512
                 PROVE  \A k \in Ready' : k >= 16 => W'[k] = R2(k)'
    OBVIOUS
  <2>2. W' = W
    BY <2>1 DEF Round, Sha1Round, Sha256Round, SmallerRound, Sha512Round,
       Sha1, Sha256, Sha512, Long
  <2>3. \A t : R2(t)' = R2(t)
    BY <1>1, <2>2 DEF R2, Sum, S0, S1, ROTR, SHR, Bits, Sha512, Long
  <2>4. Ready' \subseteq Ready
    BY <2>1, <1>1, <1>2 DEF Ready
  <2> QED
    BY <2>1, <2>2, <2>3, <2>4, <1>1 DEF ScheduleOK
<1>9. ScheduleOK'
  BY <1>1, <1>2, <1>7, <1>8 DEF ScheduleOK
<1> QED
  BY <1>5, <1>6, <1>9

LEMMA NextKeeps == IInv /\ [Next]_vars => IInv'
<1> SUFFICES ASSUME IInv, [Next]_vars PROVE IInv'
  OBVIOUS
<1>1. CASE Starts
  <2>1. /\ algorithm' = algorithm /\ smaller' = smaller /\ pc' = pc
        /\ pc = "idle" /\ i' = i /\ state' = Started(algorithm)
    BY <1>1 DEF Starts
  <2>2. state' \in [Names -> Words(Bits)]
    BY <2>1, StartedType DEF IInv, ControlOK
  <2> QED
    BY <2>1, <2>2, SameAlgorithm DEF IInv, ControlOK, WordsOK, ScheduleOK
<1>2. CASE \E b \in Blocks[algorithm] : Call(b)
  BY <1>2, CallKeeps
<1>3. CASE Expand
  BY <1>3, ExpandKeeps
<1>4. CASE Round
  BY <1>4, RoundKeeps
<1>5. CASE Return
  <2>1. /\ algorithm' = algorithm /\ smaller' = smaller /\ pc' = "idle"
        /\ i' = 0 /\ state' = [j \in Names |-> Sum(state[j], v[j])]
    BY <1>5 DEF Return
  <2>2. state' \in [Names -> Words(Bits)]
    BY <2>1, SumIsWord
  <2> QED
    BY <2>1, <2>2, SameAlgorithm DEF IInv, ControlOK, WordsOK, ScheduleOK
<1>6. CASE UNCHANGED vars
  <2>1. Ready' = Ready /\ \A t : R2(t)' = R2(t)
    BY <1>6, SameAlgorithm DEF vars, Ready, R2, Sum, S0, S1, ROTR, SHR, Bits,
       Sha512, Long
  <2> QED
    BY <1>6, <2>1, SameAlgorithm DEF vars, IInv, ControlOK, WordsOK, ScheduleOK
<1> QED
  BY <1>1, <1>2, <1>3, <1>4, <1>5, <1>6 DEF Next

-----------------------------------------------------------------------------
(* The theorems.                                                           *)

\* Registers, schedule words and loop counters keep their ranges, and every
\* word that a round reads has been written (of the three
\* software_process functions).
THEOREM Invariance == Spec => []IInv
BY InitIInv, NextKeeps, PTL DEF Spec

LEMMA InitRefines == Init => Standard!Init
BY DEF Init, Standard!Init, Algorithms, Standard!Algorithms, Registers, Window,
   StandardRound

LEMMA CallRefines ==
  ASSUME IInv, NEW b \in Blocks[algorithm], Call(b)
  PROVE  Standard!Take(b)
<1> USE DEF IInv, ControlOK
<1>1. /\ algorithm' = algorithm /\ state' = state /\ data' = b /\ v' = state
      /\ pc = "idle" /\ pc' # "idle" /\ smaller' = smaller
      /\ pc' = (IF Sha512 THEN "expand" ELSE "rounds")
      /\ i' = (IF Sha512 THEN 16 ELSE 0)
  BY DEF Call
<1>2. /\ StandardRound = 0 /\ StandardRound' = 0
  BY <1>1 DEF StandardRound
<1>3. Registers' = state
  <2>1. state = [j \in Names |-> state[j]]
    BY DEF WordsOK
  <2>2. Names' = Names /\ Sha1' = Sha1
    BY <1>1, SameAlgorithm
  <2>3. Sha512 => Names = 0..7
    BY DEF Sha512, Names, Sha1, Long
  <2>4. \A j \in Names : j % 5 \in Int /\ (Sha1 => j % 5 = j) /\ (~Sha1 => j % 8 = j)
    BY DEF Names
  <2>5. \A j \in Names :
          (IF smaller' \/ pc' = "expand" THEN j ELSE Arg(j)') = j
    BY <1>1, <2>2, <2>4 DEF Arg, Names
  <2> QED
    BY <1>1, <2>1, <2>2, <2>5 DEF Registers
<1>4. Window' = [k \in 0..15 |-> Standard!BlockWord(algorithm, b, k)]
  <2>1. \A k : GetWord(data, k)' = GetWord(b, k)
    BY <1>1 DEF GetWord, Bits, Sha512, Long
  <2>2. \A k \in 0..15 : (0 + k) % 16 = k
    OBVIOUS
  <2>3. \A k : GetWord(b, k) = Standard!BlockWord(algorithm, b, k)
    BY SameWords DEF GetWord, Standard!BlockWord, Standard!Width,
       Standard!Long, Bits, Sha512, Long
  <2>4. Window' = [k \in 0..15 |-> GetWord(data, (0 + k) % 16)']
    BY <1>1, <1>2 DEF Window
  <2>5. \A k \in 0..15 : GetWord(data, (0 + k) % 16)' = GetWord(b, k)
    BY <2>1, <2>2
  <2> QED
    BY <2>3, <2>4, <2>5
<1> QED
  BY <1>1, <1>2, <1>3, <1>4 DEF Standard!Take

LEMMA ExpandRefines ==
  ASSUME IInv, Expand
  PROVE  UNCHANGED Standard!svars
<1> USE DEF IInv, ControlOK
<1>1. /\ algorithm' = algorithm /\ state' = state /\ data' = data /\ v' = v
      /\ pc = "expand" /\ pc' \in {"expand", "rounds"} /\ smaller' = smaller
      /\ (pc' = "rounds" => i' = 0) /\ ~Sha1
  BY DEF Expand, Sha512, Sha1, Long
<1>2. /\ StandardRound = 0 /\ StandardRound' = 0
  BY <1>1 DEF StandardRound
<1>3. Names' = Names /\ Sha1' = Sha1 /\ Names = 0..7
  BY <1>1, SameAlgorithm DEF Names
<1>4. Registers = [j \in 0..7 |-> v[j]]
  BY <1>1, <1>3 DEF Registers
<1>5. Registers' = [j \in 0..7 |-> v[j]]
  <2>1. \A j \in 0..7 :
          (IF smaller' \/ pc' = "expand" THEN j ELSE Arg(j)') = j
    BY <1>1, <1>3 DEF Arg
  <2> QED
    BY <1>1, <1>3, <2>1 DEF Registers
<1>6. Window' = Window
  BY <1>1, <1>2, SameAlgorithm DEF Window, GetWord
<1> QED
  BY <1>1, <1>2, <1>4, <1>5, <1>6 DEF Standard!svars

LEMMA RoundRefines ==
  ASSUME IInv, Round
  PROVE  Standard!Round
<1> USE DEF IInv, ControlOK
<1>1. /\ algorithm' = algorithm /\ state' = state /\ smaller' = smaller
      /\ pc = "rounds" /\ pc' = pc /\ i < Rounds /\ i' = i + 1
  BY DEF Round
<1>2. StandardRound = i /\ StandardRound' = i + 1
  BY <1>1 DEF StandardRound
<1>3. Standard!Rounds(algorithm) = Rounds
  BY DEF Standard!Rounds, Rounds, Sha256
<1>4. RoundWord = IF StandardRound < 16 THEN Window[0]
                  ELSE Standard!NextWord(algorithm, Window)
  BY <1>1, <1>2, RoundWordIsStandard
<1>5. Registers' = NextRegisters(v')
  <2>1. Names' = Names /\ Sha1' = Sha1
    BY <1>1, SameAlgorithm
  <2> QED
    BY <1>1, <2>1 DEF Registers, NextRegisters, Arg
<1>6. Registers' = IF algorithm = "SHA1"
                   THEN Standard!Step1(Registers, StandardRound, RoundWord)
                   ELSE Standard!Step2(algorithm, Registers, StandardRound,
                                       RoundWord)
  BY <1>2, <1>5, RoundRegisters DEF Sha1
<1>7. Window' = [k \in 0..15 |-> IF k = 15 THEN RoundWord ELSE Window[k + 1]]
  BY RoundWindow
<1> QED
  BY <1>1, <1>2, <1>3, <1>4, <1>6, <1>7 DEF Standard!Round

LEMMA ReturnRefines ==
  ASSUME IInv, Return
  PROVE  Standard!Sum
<1> USE DEF IInv, ControlOK
<1>1. /\ algorithm' = algorithm /\ pc = "rounds" /\ i = Rounds /\ pc' = "idle"
      /\ state' = [j \in Names |-> Sum(state[j], v[j])]
  BY DEF Return
<1>2. /\ StandardRound = Rounds /\ StandardRound' = 0
      /\ Registers' = <<>> /\ Window' = <<>>
      /\ Standard!Rounds(algorithm) = Rounds
      /\ Standard!Registers(algorithm) = Names
      /\ Standard!Width(algorithm) = Bits
  BY <1>1 DEF StandardRound, Registers, Window, Standard!Rounds, Rounds, Sha256,
     Standard!Registers, Names, Sha1, Standard!Width, Standard!Long, Bits,
     Sha512, Long
<1>3. \A j \in Names : Registers[j] = v[j]
  <2>1. /\ Sha1 => i = 80 /\ Names = 0..4
        /\ ~Sha1 => i \in {64, 80} /\ Names = 0..7
    BY <1>1 DEF Rounds, Sha256, Sha1, Names
  <2>2. \A j \in Names : Arg(j) = j
    BY <2>1 DEF Arg
  <2> QED
    BY <1>1, <2>2 DEF Registers
<1>4. state' = [j \in Names |-> Standard!Add(Bits, state[j], Registers[j])]
  BY <1>1, <1>3, SameWords DEF Sum
<1> QED
  BY <1>1, <1>2, <1>4 DEF Standard!Sum

\* The software rounds implement FIPS 180-4 (esp_sha1.c:173,
\* esp_sha256.c:238, esp_sha512.c:266): every unrolled call of P is a round
\* of the standard, for every block and every state it starts from.
THEOREM Refinement == Spec => StandardSpec
<1>1. IInv /\ [Next]_vars => [Standard!Next]_Standard!svars
  <2> SUFFICES ASSUME IInv, [Next]_vars
               PROVE  Standard!Next \/ UNCHANGED Standard!svars
    OBVIOUS
  <2>1. CASE Starts
    <3>1. /\ algorithm' = algorithm /\ pc = "idle" /\ pc' = pc
          /\ state' = Started(algorithm)
          /\ Registers' = Registers /\ Window' = Window
          /\ StandardRound' = StandardRound
      BY <2>1 DEF Starts, Registers, Window, StandardRound
    <3> QED
      BY <3>1 DEF Standard!Next, Standard!Restart
  <2>2. CASE \E b \in Blocks[algorithm] : Call(b)
    BY <2>2, CallRefines DEF Standard!Next
  <2>3. CASE Expand
    BY <2>3, ExpandRefines
  <2>4. CASE Round
    BY <2>4, RoundRefines DEF Standard!Next
  <2>5. CASE Return
    BY <2>5, ReturnRefines DEF Standard!Next
  <2>6. CASE UNCHANGED vars
    BY <2>6 DEF vars, Standard!svars, Registers, Window, StandardRound, Names,
       Sha1, Arg, GetWord, Bits, Sha512, Long
  <2> QED
    BY <2>1, <2>2, <2>3, <2>4, <2>5, <2>6 DEF Next
<1> QED
  BY <1>1, InitRefines, Invariance, PTL DEF Spec, StandardSpec, Standard!Spec
=============================================================================
