----------------------------- MODULE ShaRounds -----------------------------
(***************************************************************************)
(* The software side of the SHA ports: sha1, sha256 and                    *)
(* sha512_software_process of esp_sha1.c, esp_sha256.c and esp_sha512.c.   *)
(* The rounds are unrolled: no register is ever moved, the calls of the    *)
(* macro P name them in rotated order instead.  SHA-1 keeps its schedule   *)
(* in a ring of sixteen words, SHA-256 computes the words as the rounds    *)
(* need them, SHA-512 computes all of them first, and the build option     *)
(* MBEDTLS_SHA256_SMALLER has one loop that does move the registers.       *)
(*                                                                         *)
(* The words are the real ones, bit by bit; one step is one call of P.   *)
(***************************************************************************)
EXTENDS ShaTables

CONSTANTS Blocks,    \* per algorithm: the 64 or 128 byte blocks it is given
          Messages   \* per algorithm: the block sequences that are hashed

VARIABLES
  algorithm,   \* the file and its is224 or is384
  smaller,     \* built with MBEDTLS_SHA256_SMALLER
  state,       \* ctx->state
  fed,         \* the blocks processed since starts_ret (no C variable)
  pc,          \* "idle", "expand" or "rounds"
  i,           \* the word or the round that comes next
  data, W, v   \* the argument, the schedule and A to H: <<>> when idle

vars == <<algorithm, smaller, state, fed, pc, i, data, W, v>>

Algorithms == {"SHA1", "SHA224", "SHA256", "SHA384", "SHA512"}

Sha1   == algorithm = "SHA1"
Sha256 == algorithm \in {"SHA224", "SHA256"}
Sha512 == Long(algorithm)

Bits   == IF Sha512 THEN 64 ELSE 32
Names  == IF Sha1 THEN 0..4 ELSE 0..7
Rounds == IF Sha256 THEN 64 ELSE 80
Slots  == 0..((IF Sha1 THEN 16 ELSE Rounds) - 1)

\* x + y of two uint32_t or two uint64_t.
Sum(x, y) == Add(Bits, x, y)

\* GET_UINT32_BE and GET_UINT64_BE of word k of a block.
GetWord(b, k) == FromBytes(Bits, b, (Bits \div 8) * k)

-----------------------------------------------------------------------------
(* The macros of esp_sha1.c (K is K("SHA1", t)).                           *)

S(x, n) == Or(Shl(32, x, n), Shr(32, x, 32 - n))

\* mutant: the word seven rounds back is taken instead of the eighth.
R1OffByOne(t) ==
  S(Xor(Xor(Xor(W[(t - 3) % 16], W[(t - 7) % 16]), W[(t - 14) % 16]),
        W[t % 16]), 1)

\* What R(t) stores into the ring and returns.
R1(t) == S(Xor(Xor(Xor(W[(t - 3) % 16], W[(t - 8) % 16]), W[(t - 14) % 16]),
               W[t % 16]), 1)

\* F of the four stages of twenty calls.
F(t, x, y, z) ==
  CASE t \in 0..19  -> Xor(z, And(x, Xor(y, z)))
    [] t \in 20..39 -> Xor(Xor(x, y), z)
    [] t \in 40..59 -> Or(And(x, y), And(z, Or(x, y)))
    [] t \in 60..79 -> Xor(Xor(x, y), z)

\* P(a, b, c, d, e, x) on the registers r, the arguments being their names.
P1(r, a, b, c, d, e, x) ==
  [r EXCEPT ![e] = Sum(r[e], Sum(Sum(Sum(S(r[a], 5), F(i, r[b], r[c], r[d])),
                                     K(algorithm, i)), x)),
            ![b] = S(r[b], 30)]

-----------------------------------------------------------------------------
(* The macros of esp_sha256.c and esp_sha512.c, for words of Bits bits.    *)

SHR(x, n)  == Shr(Bits, x, n)
ROTR(x, n) == Or(SHR(x, n), Shl(Bits, x, Bits - n))

S0(x) == IF Sha512 THEN Xor(Xor(ROTR(x, 1), ROTR(x, 8)), SHR(x, 7))
         ELSE Xor(Xor(ROTR(x, 7), ROTR(x, 18)), SHR(x, 3))
S1(x) == IF Sha512 THEN Xor(Xor(ROTR(x, 19), ROTR(x, 61)), SHR(x, 6))
         ELSE Xor(Xor(ROTR(x, 17), ROTR(x, 19)), SHR(x, 10))
S2(x) == IF Sha512 THEN Xor(Xor(ROTR(x, 28), ROTR(x, 34)), ROTR(x, 39))
         ELSE Xor(Xor(ROTR(x, 2), ROTR(x, 13)), ROTR(x, 22))
S3(x) == IF Sha512 THEN Xor(Xor(ROTR(x, 14), ROTR(x, 18)), ROTR(x, 41))
         ELSE Xor(Xor(ROTR(x, 6), ROTR(x, 11)), ROTR(x, 25))

F0(x, y, z) == Or(And(x, y), And(z, Or(x, y)))
F1(x, y, z) == Xor(z, And(x, Xor(y, z)))

\* What R(t), and the loop of esp_sha512.c for t = i, stores into W[t].
R2(t) == Sum(Sum(Sum(S1(W[t - 2]), W[t - 7]), S0(W[t - 15])), W[t - 16])

\* P(a, ..., h, x, K) on the registers r.
P2(r, a, b, c, d, e, f, g, h, x, k) ==
  LET temp1 == Sum(Sum(Sum(Sum(r[h], S3(r[e])), F1(r[e], r[f], r[g])), k), x)
      temp2 == Sum(S2(r[a]), F0(r[a], r[b], r[c]))
  IN  [r EXCEPT ![d] = Sum(r[d], temp1), ![h] = Sum(temp1, temp2)]

-----------------------------------------------------------------------------
(* The functions.                                                          *)

Init ==
  /\ algorithm \in Algorithms
  /\ smaller \in (IF Sha256 THEN BOOLEAN ELSE {FALSE})
  /\ state = Started(algorithm)
  /\ fed = <<>>
  /\ pc = "idle" /\ i = 0
  /\ data = <<>> /\ W = <<>> /\ v = <<>>

\* starts_ret again, for another message.
Starts ==
  /\ pc = "idle" /\ fed # <<>>
  /\ state' = Started(algorithm)
  /\ fed' = <<>>
  /\ UNCHANGED <<algorithm, smaller, pc, i, data, W, v>>

\* The call: the words of the block (the smaller loop reads them one by
\* one) and the registers are loaded.  A slot not yet written holds <<>>.
Call(b) ==
  /\ pc = "idle"
  /\ \E m \in Messages[algorithm] :
       Len(fed) < Len(m) /\ SubSeq(m, 1, Len(fed) + 1) = Append(fed, b)
  /\ data' = b
  /\ W' = [k \in Slots |-> IF k < 16 /\ ~smaller THEN GetWord(b, k) ELSE <<>>]
  /\ v' = state
  /\ pc' = IF Sha512 THEN "expand" ELSE "rounds"
  /\ i' = IF Sha512 THEN 16 ELSE 0
  /\ UNCHANGED <<algorithm, smaller, state, fed>>

\* for( ; i < 80; i++ ) of esp_sha512.c, then i = 0.
Expand ==
  /\ pc = "expand"
  /\ IF i < 80
     THEN /\ W' = [W EXCEPT ![i] = R2(i)]
          /\ i' = i + 1
          /\ UNCHANGED pc
     ELSE /\ pc' = "rounds"
          /\ i' = 0
          /\ UNCHANGED W
  /\ UNCHANGED <<algorithm, smaller, state, fed, data, v>>

\* Argument j of call number i of P: the names rotate by one every call.
Arg(j) == (j - i) % (IF Sha1 THEN 5 ELSE 8)

Sha1Round ==
  LET x == IF i < 16 THEN W[i] ELSE R1(i)
  IN  /\ Sha1
      /\ v' = P1(v, Arg(0), Arg(1), Arg(2), Arg(3), Arg(4), x)
      /\ W' = [W EXCEPT ![i % 16] = x]

\* Both loops of esp_sha256.c without the option.
Sha256Round ==
  LET x == IF i < 16 THEN W[i] ELSE R2(i)
  IN  /\ Sha256 /\ ~smaller
      /\ v' = P2(v, Arg(0), Arg(1), Arg(2), Arg(3),
                    Arg(4), Arg(5), Arg(6), Arg(7), x, K(algorithm, i))
      /\ W' = [W EXCEPT ![i] = x]

\* The loop with the option: after P the registers are moved.
SmallerRound ==
  LET x == IF i < 16 THEN GetWord(data, i) ELSE R2(i)
      p == P2(v, 0, 1, 2, 3, 4, 5, 6, 7, x, K(algorithm, i))
  IN  /\ Sha256 /\ smaller
      /\ v' = [j \in Names |-> p[IF j = 0 THEN 7 ELSE j - 1]]
      /\ W' = [W EXCEPT ![i] = x]

Sha512Round ==
  /\ Sha512
  /\ v' = P2(v, Arg(0), Arg(1), Arg(2), Arg(3),
                Arg(4), Arg(5), Arg(6), Arg(7), W[i], K(algorithm, i))
  /\ UNCHANGED W

Round ==
  /\ pc = "rounds" /\ i < Rounds
  /\ Sha1Round \/ Sha256Round \/ SmallerRound \/ Sha512Round
  /\ i' = i + 1
  /\ UNCHANGED <<algorithm, smaller, state, fed, pc, data>>

\* mutant: the registers replace the state instead of being added to it.
ReturnOverwrites ==
  /\ pc = "rounds" /\ i = Rounds
  /\ state' = v
  /\ fed' = Append(fed, data)
  /\ pc' = "idle" /\ i' = 0
  /\ data' = <<>> /\ W' = <<>> /\ v' = <<>>
  /\ UNCHANGED <<algorithm, smaller>>

\* ctx->state[j] += ..., and the locals are gone.
Return ==
  /\ pc = "rounds" /\ i = Rounds
  /\ state' = [j \in Names |-> Sum(state[j], v[j])]
  /\ fed' = Append(fed, data)
  /\ pc' = "idle" /\ i' = 0
  /\ data' = <<>> /\ W' = <<>> /\ v' = <<>>
  /\ UNCHANGED <<algorithm, smaller>>

Next ==
  \/ Starts
  \/ \E b \in Blocks[algorithm] : Call(b)
  \/ Expand
  \/ Round
  \/ Return

Spec == Init /\ [][Next]_vars

-----------------------------------------------------------------------------
(* Properties.                                                             *)

\* The round of the standard that comes next.
StandardRound == IF pc = "rounds" THEN i ELSE 0

\* Register j of the standard is the argument j of the next call of P.
Registers ==
  IF pc = "idle" THEN <<>>
  ELSE [j \in Names |-> v[IF smaller \/ pc = "expand" THEN j ELSE Arg(j)]]

\* Word k of the standard's window: of the block, or where it is kept.
Window ==
  IF pc = "idle" THEN <<>>
  ELSE [k \in 0..15 |->
          IF StandardRound < 16 THEN GetWord(data, (StandardRound + k) % 16)
          ELSE IF Sha1 THEN W[(i + k) % 16]
          ELSE W[i - 16 + k]]

Standard == INSTANCE ShaStandard WITH
  hash <- state, busy <- (pc # "idle"), reg <- Registers,
  window <- Window, round <- StandardRound

\* The unrolled rounds with their rotated names, the ring, the words computed
\* late or early and the rewritten boolean functions compute round for round
\* what FIPS 180-4 says (esp_sha1.c:173, esp_sha256.c:238, esp_sha512.c:266).
StandardSpec == Standard!Spec
=============================================================================
