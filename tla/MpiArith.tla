------------------------------ MODULE MpiArith ------------------------------
(***************************************************************************)
(* The arithmetic of esp_bignum.c and of the RSA accelerator it drives.    *)
(* An mpi is its value, an integer: the sign is mpi->s, the magnitude the  *)
(* limbs mpi->p.  Sizes are counted in limbs (words in the code) and       *)
(* rounded up to the blocks of the accelerator.                            *)
(***************************************************************************)
EXTENDS Integers

CONSTANTS LimbBits,     \* 32
          BlockLimbs,   \* 16: the accelerator works on blocks of 512 bits
          MulBlocks     \* 4: its multiplier takes factors of 2048 bits

ASSUME SizesArePositive ==
  /\ LimbBits \in Nat \ {0}
  /\ BlockLimbs \in Nat \ {0}
  /\ MulBlocks \in Nat \ {0}

\* The powers of two, as a function that can be reasoned about.
TwoTo[n \in Nat] == IF n = 0 THEN 1 ELSE 2 * TwoTo[n - 1]

BaseTo(words) == TwoTo[LimbBits * words]
Base          == BaseTo(1)
MaxWords      == 2 * MulBlocks * BlockLimbs    \* 4096 bits

Magnitude(v) == IF v < 0 THEN -v ELSE v
Sign(v)      == IF v < 0 THEN -1 ELSE 1
Larger(i, j) == IF i > j THEN i ELSE j

\* mbedtls_mpi_bitlen
bitlen(v) ==
  LET len[n \in Nat] == IF n = 0 THEN 0 ELSE 1 + len[n \div 2]
  IN  len[Magnitude(v)]

RoundedUp(n, unit) == ((n + unit - 1) \div unit) * unit

bits_to_hardware_words(bits) ==
  RoundedUp(bits, BlockLimbs * LimbBits) \div LimbBits

\* The limbs up to the highest that is not 0, at least one, in whole blocks.
hardware_words_needed(v) ==
  RoundedUp(Larger(1, RoundedUp(bitlen(v), LimbBits) \div LimbBits), BlockLimbs)

\* What a block of num_words words holds: longer numbers lose their top.
mpi_to_mem_block(v, words) == Magnitude(v) % BaseTo(words)

\* -1/M modulo the base, for odd M: bit i of t is set when N * t is not yet
\* 1 modulo 2^i (Dusse and Kaliski).
modular_inverse(M) ==
  LET N == Magnitude(M) % Base
      t[i \in 1..LimbBits] ==
        IF i = 1 THEN 1
        ELSE t[i-1] + IF (N * t[i-1]) % TwoTo[i] >= TwoTo[i-1]
                    THEN TwoTo[i-1] ELSE 0
  IN  (Base - t[LimbBits]) % Base

\* calculate_rinv: R^2 mod M, for R = BaseTo(words).
calculate_rinv(M, words) == BaseTo(2 * words) % M

-----------------------------------------------------------------------------
(* The accelerator (external).  Montgomery multiplication word by word:    *)
(* each word of x adds its multiple of z, and the multiple of m that       *)
(* mprime makes clear the lowest word.                                     *)

Montgomery(x, z, m, mprime, words) ==
  LET Word(i) == (x \div BaseTo(i)) % Base
      sum[i \in 0..words] ==
        IF i = 0 THEN 0
        ELSE LET s == sum[i-1] + Word(i-1) * z
             IN  (s + ((s * mprime) % Base) * m) \div Base
  IN  IF sum[words] >= m THEN sum[words] - m ELSE sum[words]

\* Exponentiation: to Montgomery form, square and multiply, and back.
ModExp(x, y, m, rinv, mprime, words) ==
  LET Times(p, q) == Montgomery(p, q, m, mprime, words)
      power[e \in Nat] ==
        IF e = 0 THEN Times(1, rinv)
        ELSE LET half   == power[e \div 2]
                 square == Times(half, half)
             IN  IF e % 2 = 1 THEN Times(square, Times(x, rinv)) ELSE square
  IN  Times(1, power[y])

\* The plain multiplier: one factor in the X block, the other in the upper
\* half of the Z block.  It needs the lower half to be clear.
Multiplier(x, z, words) == (x * z) \div BaseTo(words \div 2)
=============================================================================
