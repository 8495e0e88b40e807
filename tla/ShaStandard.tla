---------------------------- MODULE ShaStandard ----------------------------
(***************************************************************************)
(* What hashing blocks promises: the computation of FIPS 180-4 for SHA-1   *)
(* and the SHA-2 functions, as the standard writes it.  The registers      *)
(* a, b, c... are a file that every round shifts by one, and the message   *)
(* schedule is a window on its last sixteen words, of which a round takes  *)
(* the oldest (the first sixteen rounds) or computes a new one.            *)
(***************************************************************************)
EXTENDS ShaWords

CONSTANTS
  Blocks,       \* per algorithm: the blocks that may be hashed
  Started(_),   \* the initial hash value of an algorithm
  K(_, _)       \* the constant of an algorithm and a round

VARIABLES
  algorithm,   \* the hash function
  hash,        \* the hash value so far
  busy,        \* a block is being processed
  reg,         \* the registers, 0 for a; <<>> between blocks
  window,      \* words round - 16 to round - 1 of the schedule, or <<>>
  round        \* the round that comes next, 0 between blocks

svars == <<algorithm, hash, busy, reg, window, round>>

Algorithms == {"SHA1", "SHA224", "SHA256", "SHA384", "SHA512"}

Long(a)      == a \in {"SHA384", "SHA512"}
Width(a)     == IF Long(a) THEN 64 ELSE 32
Registers(a) == IF a = "SHA1" THEN 0..4 ELSE 0..7
Rounds(a)    == IF a \in {"SHA224", "SHA256"} THEN 64 ELSE 80

\* Circular shifts of a word of w bits.
RotateRight(w, x, n) ==
  {i \in BitsOf(w) : (IF i + n < w THEN i + n ELSE i + n - w) \in x}
RotateLeft(w, x, n) == RotateRight(w, x, w - n)

Ch(w, x, y, z)  == Xor(And(x, y), And(Not(w, x), z))
Maj(x, y, z)    == Xor(Xor(And(x, y), And(x, z)), And(y, z))
Parity(x, y, z) == Xor(Xor(x, y), z)

\* The four sigma functions rotate by r[1] and r[2] and shift or rotate by
\* r[3]; the amounts are those for words of 32 and of 64 bits.
BigSigma(w, x, r) ==
  Xor(Xor(RotateRight(w, x, r[1]), RotateRight(w, x, r[2])),
      RotateRight(w, x, r[3]))
SmallSigma(w, x, r) ==
  Xor(Xor(RotateRight(w, x, r[1]), RotateRight(w, x, r[2])), Shr(w, x, r[3]))

BigSigma0(w, x) ==
  BigSigma(w, x, IF w = 32 THEN <<2, 13, 22>> ELSE <<28, 34, 39>>)
BigSigma1(w, x) ==
  BigSigma(w, x, IF w = 32 THEN <<6, 11, 25>> ELSE <<14, 18, 41>>)
SmallSigma0(w, x) ==
  SmallSigma(w, x, IF w = 32 THEN <<7, 18, 3>> ELSE <<1, 8, 7>>)
SmallSigma1(w, x) ==
  SmallSigma(w, x, IF w = 32 THEN <<17, 19, 10>> ELSE <<19, 61, 6>>)

\* The word of the schedule that follows the window.
NextWord(a, win) ==
  IF a = "SHA1"
  THEN RotateLeft(32, Xor(Xor(Xor(win[13], win[8]), win[2]), win[0]), 1)
  ELSE LET w == Width(a)
       IN  Add(w, Add(w, Add(w, SmallSigma1(w, win[14]), win[9]),
                         SmallSigma0(w, win[1])), win[0])

Function1(t, x, y, z) ==
  CASE t \in 0..19  -> Ch(32, x, y, z)
    [] t \in 20..39 -> Parity(x, y, z)
    [] t \in 40..59 -> Maj(x, y, z)
    [] t \in 60..79 -> Parity(x, y, z)

\* One round of SHA-1 (the sum T grouped with e in front: addition of words
\* is associative and commutative).
Step1(r, t, x) ==
  LET T == Add(32, r[4], Add(32, Add(32, Add(32, RotateLeft(32, r[0], 5),
                                         Function1(t, r[1], r[2], r[3])),
                                     K("SHA1", t)), x))
  IN  [j \in 0..4 |-> IF j = 0 THEN T
                      ELSE IF j = 2 THEN RotateLeft(32, r[1], 30)
                      ELSE r[j - 1]]

\* One round of SHA-2.
Step2(a, r, t, x) ==
  LET w  == Width(a)
      T1 == Add(w, Add(w, Add(w, Add(w, r[7], BigSigma1(w, r[4])),
                                 Ch(w, r[4], r[5], r[6])), K(a, t)), x)
      T2 == Add(w, BigSigma0(w, r[0]), Maj(r[0], r[1], r[2]))
  IN  [j \in 0..7 |-> IF j = 0 THEN Add(w, T1, T2)
                      ELSE IF j = 4 THEN Add(w, r[3], T1)
                      ELSE r[j - 1]]

\* Word k of a block.
BlockWord(a, b, k) == FromBytes(Width(a), b, (Width(a) \div 8) * k)

Init ==
  /\ algorithm \in Algorithms
  /\ hash = Started(algorithm)
  /\ busy = FALSE /\ reg = <<>> /\ window = <<>> /\ round = 0

Restart ==
  /\ ~busy
  /\ hash' = Started(algorithm)
  /\ UNCHANGED <<algorithm, busy, reg, window, round>>

Take(b) ==
  /\ ~busy
  /\ busy' = TRUE
  /\ reg' = hash
  /\ window' = [k \in 0..15 |-> BlockWord(algorithm, b, k)]
  /\ UNCHANGED <<algorithm, hash, round>>

Round ==
  /\ busy /\ round < Rounds(algorithm)
  /\ LET x == IF round < 16 THEN window[0] ELSE NextWord(algorithm, window)
     IN  /\ window' = [k \in 0..15 |-> IF k = 15 THEN x ELSE window[k + 1]]
         /\ reg' = IF algorithm = "SHA1" THEN Step1(reg, round, x)
                   ELSE Step2(algorithm, reg, round, x)
  /\ round' = round + 1
  /\ UNCHANGED <<algorithm, hash, busy>>

Sum ==
  /\ busy /\ round = Rounds(algorithm)
  /\ hash' = [j \in Registers(algorithm) |->
              Add(Width(algorithm), hash[j], reg[j])]
  /\ busy' = FALSE /\ reg' = <<>> /\ window' = <<>> /\ round' = 0
  /\ UNCHANGED algorithm

Next == Restart \/ (\E b \in Blocks[algorithm] : Take(b)) \/ Round \/ Sum

Spec == Init /\ [][Next]_svars
=============================================================================
