------------------------------- MODULE Digest -------------------------------
(***************************************************************************)
(* What the digest functions promise, whoever computes the hash: every     *)
(* context has a message of its own, an update appends to it, a clone      *)
(* copies it, and finishing hashes the message with the standard padding.  *)
(* A hash is represented by its algorithm and the data it is computed      *)
(* from.  A byte of a message is named by the context whose owner supplied *)
(* it and its position, so that bytes lost, swapped or taken from another  *)
(* message show.                                                           *)
(***************************************************************************)
EXTENDS Integers, Sequences

CONSTANTS Contexts,     \* the digest contexts of the program
          Algorithms,   \* the hash functions
          Sizes,        \* how many bytes an update may bring
          BlockSize,    \* of the hash, in bytes
          WordBits      \* of each of the two words of the length field

VARIABLE digest         \* per context: its phase, algorithm and data

NoDigest == [phase |-> "off", algorithm |-> <<>>, data |-> <<>>]

\* The n bytes the owner of c appends to a message of length len.
Input(c, len, n) == [i \in 1..n |-> <<c, len + i>>]

\* The number of bits of an n-byte message in two words, high word first.
LengthField(n) ==
  << <<"length", ((8 * n) \div 2^WordBits) % 2^WordBits>>,
     <<"length", (8 * n) % 2^WordBits>> >>

\* A marker, as few zeros as make a whole block, and the length.
Padded(m) ==
  LET room == CHOOSE z \in 0..(BlockSize - 1) :
                (Len(m) + 1 + z + 2) % BlockSize = 0
  IN  m \o << <<"marker", 0>> >> \o [i \in 1..room |-> <<"zero", 0>>]
        \o LengthField(Len(m))

Init == digest = [c \in Contexts |-> NoDigest]

Starts(c, a) ==
  digest' = [digest EXCEPT ![c] =
               [phase |-> "open", algorithm |-> a, data |-> <<>>]]

Update(c, n) ==
  /\ digest[c].phase = "open"
  /\ digest' = [digest EXCEPT ![c].data = @ \o Input(c, Len(@), n)]

Clone(dst, src) ==
  /\ digest[src].phase = "open"
  /\ digest' = [digest EXCEPT ![dst] = digest[src]]

Finish(c) ==
  /\ digest[c].phase = "open"
  /\ digest' = [digest EXCEPT ![c] =
                  [phase |-> "closed", algorithm |-> @.algorithm,
                   data |-> Padded(@.data)]]

Free(c) == digest' = [digest EXCEPT ![c] = NoDigest]

Next ==
  \E c \in Contexts :
    \/ \E a \in Algorithms : Starts(c, a)
    \/ \E n \in Sizes : Update(c, n)
    \/ \E src \in Contexts : Clone(c, src)
    \/ Finish(c)
    \/ Free(c)

Spec == Init /\ [][Next]_digest
=============================================================================
