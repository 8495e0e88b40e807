------------------------------ MODULE ShaWords ------------------------------
(***************************************************************************)
(* Unsigned words of w bits (uint32_t, uint64_t) and the operators C gives *)
(* them.  A word is the set of the numbers of its bits that are one, 0 the *)
(* least significant.                                                      *)
(***************************************************************************)
EXTENDS Integers, Sequences

BitsOf(w) == 0..(w - 1)
Words(w)  == SUBSET BitsOf(w)

And(x, y) == x \cap y
Or(x, y)  == x \cup y
Xor(x, y) == (x \ y) \cup (y \ x)
Not(w, x) == BitsOf(w) \ x

\* x >> n and x << n.
Shr(w, x, n) == {i \in BitsOf(w) : i + n \in x}
Shl(w, x, n) == {i \in BitsOf(w) : i - n \in x}

\* The bits that x + y carries into: one below generates the carry and all
\* between pass it on.
Carries(w, x, y) ==
  {i \in BitsOf(w) : \E g \in x \cap y :
     g < i /\ \A k \in (g + 1)..(i - 1) : k \in x \/ k \in y}

\* x + y, the carry out of the word lost.
Add(w, x, y) == BitsOf(w) \cap Xor(Xor(x, y), Carries(w, x, y))

\* The word of w bits written as its 16-bit parts, the most significant first.
FromParts(w, parts) ==
  {i \in BitsOf(w) :
     (parts[Len(parts) - i \div 16] \div 2^(i % 16)) % 2 = 1}

\* The word of w bits whose bytes are b[at] and on, the most significant first.
FromBytes(w, b, at) ==
  {i \in BitsOf(w) :
     (b[at + w \div 8 - 1 - i \div 8] \div 2^(i % 8)) % 2 = 1}
=============================================================================
