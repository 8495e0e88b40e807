-------------------------- MODULE RingBuffer_proofs --------------------------
(***************************************************************************)
(* Theorems about one ring buffer (espressif_code/freertos/ringbuf.c).     *)
(*                                                                         *)
(* RingItems: for a storage and items of any size and every order of sends,*)
(* receives and returns of a client that does not hoard, the storage is    *)
(* the queue of RingQueue, what the client holds stays where it is, and    *)
(* what the buffer tells of itself can be relied on. The invariant unrolls *)
(* the headers from the free to the write pointer: how many there are,     *)
(* where they are, which of them were read, which one is the dummy, and    *)
(* which items the client holds.                                           *)
(*                                                                         *)
(* RingQueueSet: for any number of senders and calls and a set of any      *)
(* length, a reader that waits on the queue set loses no item while the    *)
(* set has room, and two places for every join are room enough.            *)
(***************************************************************************)
EXTENDS RingItems, RingQueueSet, SequenceTheorems, FiniteSetTheorems,
        WellFoundedInduction, TLAPS

------------------------------------------------------------------------------
(* Numbers, walks and sequences                                            *)

(* Counting up from 0 reaches every number.                                *)
LEMMA CountUp ==
    ASSUME NEW n \in Nat, NEW S, 0 \in S,
           \A i \in 1 .. n : i - 1 \in S => i \in S
    PROVE  n \in S
<1> SUFFICES ASSUME n \notin S PROVE FALSE
  OBVIOUS
<1> DEFINE missing == {i \in 0 .. n : i \notin S}
<1>1. missing \subseteq Nat /\ missing # {}
  OBVIOUS
<1>2. PICK i \in missing : \A j \in missing : <<j, i>> \notin OpToRel(<, Nat)
  BY <1>1, WFMin, NatLessThanWellFounded
<1>3. \A j \in missing : ~(j < i)
  BY <1>1, <1>2 DEF OpToRel
<1> QED
  BY <1>3

(* A least element of a set is its Lowest.                                 *)
LEMMA LowestIs ==
    ASSUME NEW S \in SUBSET Nat, NEW i \in S, \A j \in S : i <= j
    PROVE  Lowest(S) = i
<1>1. \E k \in S : \A j \in S : k <= j
  OBVIOUS
<1>2. Lowest(S) \in S /\ \A j \in S : Lowest(S) <= j
  BY <1>1 DEF Lowest
<1>3. Lowest(S) \in Nat /\ i \in Nat /\ Lowest(S) <= i /\ i <= Lowest(S)
  BY <1>2
<1> QED
  BY <1>3

(* The equation of a walk.                                                 *)
IsWalk(at, f, x, n) == at = [i \in 0 .. n |-> IF i = 0 THEN x ELSE f[at[i - 1]]]

(* The equation of a walk has a solution, for any step and any number of   *)
(* steps: the least number of steps without one would have one fewer.      *)
LEMMA WalkExists ==
    ASSUME NEW f, NEW x, NEW n \in Nat
    PROVE  \E at : IsWalk(at, f, x, n)
<1> DEFINE S == {m \in 0 .. n : \E at : IsWalk(at, f, x, m)}
<1>1. 0 \in S
  <2> DEFINE at == [i \in 0 .. 0 |-> x]
  <2>1. IsWalk(at, f, x, 0)
    BY DEF IsWalk
  <2> QED
    BY <2>1
<1>2. ASSUME NEW m \in 1 .. n, m - 1 \in S PROVE m \in S
  <2>1. PICK at : IsWalk(at, f, x, m - 1)
    BY <1>2
  <2> DEFINE next == [i \in 0 .. m |-> IF i = 0 THEN x ELSE f[at[i - 1]]]
  <2>2. \A j \in 0 .. m - 1 : next[j] = at[j]
    BY <2>1 DEF IsWalk
  <2>3. \A i \in 0 .. m : i = 0 \/ i - 1 \in 0 .. m - 1
    OBVIOUS
  <2>4. next = [i \in 0 .. m |-> IF i = 0 THEN x ELSE f[next[i - 1]]]
    BY <2>2, <2>3
  <2> HIDE DEF next
  <2>5. IsWalk(next, f, x, m)
    BY <2>4 DEF IsWalk
  <2> QED
    BY <2>5
<1>3. n \in S
  <2> HIDE DEF S
  <2> QED
    BY <1>1, <1>2, CountUp
<1> QED
  BY <1>3

(* Where a walk starts, and that it takes its steps.                       *)
LEMMA WalkIs ==
    ASSUME NEW f, NEW x, NEW n \in Nat
    PROVE  /\ Walk(f, x, n)[0] = x
           /\ \A i \in 0 .. n - 1 : Walk(f, x, n)[i + 1] = f[Walk(f, x, n)[i]]
<1>1. \E at : IsWalk(at, f, x, n)
  BY WalkExists
<1>2. IsWalk(Walk(f, x, n), f, x, n)
  BY <1>1 DEF IsWalk, Walk
<1> DEFINE at == Walk(f, x, n)
<1> HIDE DEF at
<1>3. at = [i \in 0 .. n |-> IF i = 0 THEN x ELSE f[at[i - 1]]]
  BY <1>2 DEF IsWalk, at
<1>4. at[0] = x
  BY <1>3
<1>5. ASSUME NEW i \in 0 .. n - 1 PROVE at[i + 1] = f[at[i]]
  <2>1. i + 1 \in 0 .. n /\ i + 1 # 0 /\ (i + 1) - 1 = i
    OBVIOUS
  <2> QED
    BY <1>3, <2>1
<1> QED
  BY <1>4, <1>5 DEF at

(* The equation of what is gathered at the first i of some places, those   *)
(* of D left out.                                                          *)
IsGathered(F, D, g, n) ==
    F = [i \in 0 .. n |-> IF i = 0 THEN <<>>
                          ELSE IF i - 1 \in D THEN F[i - 1]
                          ELSE Append(F[i - 1], g[i - 1])]

(* So has that equation.                                                   *)
LEMMA GatherExists ==
    ASSUME NEW D, NEW g, NEW n \in Nat
    PROVE  \E F : IsGathered(F, D, g, n)
<1> DEFINE S == {m \in 0 .. n : \E F : IsGathered(F, D, g, m)}
<1>1. 0 \in S
  <2> DEFINE F == [i \in 0 .. 0 |-> <<>>]
  <2>1. IsGathered(F, D, g, 0)
    BY DEF IsGathered
  <2> HIDE DEF F
  <2> QED
    BY <2>1
<1>2. ASSUME NEW m \in 1 .. n, m - 1 \in S PROVE m \in S
  <2>1. PICK F : IsGathered(F, D, g, m - 1)
    BY <1>2
  <2> DEFINE next ==
        [i \in 0 .. m |-> IF i = 0 THEN <<>>
                          ELSE IF i - 1 \in D THEN F[i - 1]
                          ELSE Append(F[i - 1], g[i - 1])]
  <2>2. ASSUME NEW j \in 0 .. m - 1 PROVE next[j] = F[j]
    <3> DEFINE value == IF j = 0 THEN <<>>
                        ELSE IF j - 1 \in D THEN F[j - 1]
                        ELSE Append(F[j - 1], g[j - 1])
    <3>1. next[j] = value
      OBVIOUS
    <3>2. F[j] = value
      BY <2>1 DEF IsGathered
    <3> QED
      BY <3>1, <3>2
  <2>3. \A i \in 0 .. m : i = 0 \/ i - 1 \in 0 .. m - 1
    OBVIOUS
  <2>4. next = [i \in 0 .. m |-> IF i = 0 THEN <<>>
                                 ELSE IF i - 1 \in D THEN next[i - 1]
                                 ELSE Append(next[i - 1], g[i - 1])]
    BY <2>2, <2>3
  <2> HIDE DEF next
  <2>5. IsGathered(next, D, g, m)
    BY <2>4 DEF IsGathered
  <2> QED
    BY <2>5
<1>3. n \in S
  <2> HIDE DEF S
  <2> QED
    BY <1>1, <1>2, CountUp
<1> QED
  BY <1>3

(* The sequence of g at the first i places, without place d.               *)
But(g, d, i) == [k \in 1 .. (IF d < i THEN i - 1 ELSE i) |->
                    g[IF k <= d THEN k - 1 ELSE k]]

(* The first i values of g are in X.                                       *)
Fills(g, i, X) == \A j \in 0 .. i - 1 : g[j] \in X

(* One place more is one value more, unless it is place d.                 *)
LEMMA ButGrows ==
    ASSUME NEW X, NEW d \in Nat, NEW i \in Nat, i # 0, i - 1 # d, NEW g,
           Fills(g, i, X)
    PROVE  But(g, d, i) = Append(But(g, d, i - 1), g[i - 1])
<1> DEFINE l == IF d < i - 1 THEN i - 2 ELSE i - 1
           at(k) == IF k <= d THEN k - 1 ELSE k
           old == But(g, d, i - 1)
           new == But(g, d, i)
           more == Append(old, g[i - 1])
<1>1. l \in Nat /\ (IF d < i THEN i - 1 ELSE i) = l + 1
  OBVIOUS
<1>2. (\A k \in 1 .. l : at(k) \in 0 .. i - 1) /\ at(l + 1) = i - 1
  OBVIOUS
<1>3. old = [k \in 1 .. l |-> g[at(k)]] /\ new = [k \in 1 .. l + 1 |-> g[at(k)]]
  BY <1>1 DEF But
<1> HIDE DEF l, at, old, new
<1>4. old \in Seq(X) /\ Len(old) = l
  BY <1>1, <1>2, <1>3 DEF Fills
<1>5. g[i - 1] \in X
  BY DEF Fills
<1>6. /\ Append(old, g[i - 1]) \in Seq(X)
      /\ Len(Append(old, g[i - 1])) = l + 1
      /\ \A k \in 1 .. l : Append(old, g[i - 1])[k] = old[k]
      /\ Append(old, g[i - 1])[l + 1] = g[i - 1]
  BY <1>4, <1>5, AppendProperties
<1>7. \A k \in 1 .. l + 1 : new[k] = more[k]
  <2> TAKE k \in 1 .. l + 1
  <2>1. k \in 1 .. l \/ k = l + 1
    BY <1>1
  <2> QED
    BY <1>1, <1>2, <1>3, <1>6, <2>1
<1>8. DOMAIN more = 1 .. l + 1 /\ more = [k \in DOMAIN more |-> more[k]]
  BY <1>1, <1>6
<1> HIDE DEF more
<1>9. new = more
  BY <1>3, <1>7, <1>8
<1> QED
  BY <1>9 DEF new, more, old

(* What is gathered when place d is the only one of D.                     *)
LEMMA GatherIs ==
    ASSUME NEW D, NEW g, NEW n \in Nat, NEW m \in 0 .. n, NEW X, NEW d \in Nat,
           NEW F, IsGathered(F, D, g, n),
           Fills(g, m, X),
           \A i \in 0 .. m - 1 : i \in D <=> i = d
    PROVE  F[m] = But(g, d, m)
<1> DEFINE S == {i \in 0 .. m : F[i] = But(g, d, i)}
<1>1. 0 \in S
  BY DEF IsGathered, But
<1>2. ASSUME NEW i \in 1 .. m, i - 1 \in S PROVE i \in S
  <2>1. i \in 0 .. n /\ i # 0
    OBVIOUS
  <2>2. F[i] = IF i - 1 \in D THEN F[i - 1] ELSE Append(F[i - 1], g[i - 1])
    BY <2>1 DEF IsGathered
  <2>3. F[i - 1] = But(g, d, i - 1)
    BY <1>2
  <2>4. CASE i - 1 = d
    <3>1. F[i] = But(g, d, i - 1)
      BY <2>2, <2>3, <2>4
    <3>2. But(g, d, i - 1) = But(g, d, i)
      BY <2>4 DEF But
    <3> QED
      BY <3>1, <3>2
  <2>5. CASE i - 1 # d
    <3>1. F[i] = Append(But(g, d, i - 1), g[i - 1])
      BY <2>2, <2>3, <2>5
    <3>2. Fills(g, i, X)
      BY DEF Fills
    <3>3. i \in Nat
      OBVIOUS
    <3>4. But(g, d, i) = Append(But(g, d, i - 1), g[i - 1])
      <4>1. d \in Nat /\ i # 0
        BY <2>1
      <4> QED
        BY ONLY <2>5, <3>2, <3>3, <4>1, ButGrows
    <3> QED
      BY <3>1, <3>4
  <2> QED
    BY <2>4, <2>5
<1>3. m \in S
  <2> HIDE DEF S
  <2>1. m \in Nat
    OBVIOUS
  <2> QED
    BY <1>1, <1>2, <2>1, CountUp
<1> QED
  BY <1>3

(* What the quotient and the remainder of a number are.                    *)
LEMMA DivMod ==
  ASSUME NEW x \in Nat, NEW b \in Nat \ {0}
  PROVE  /\ x % b \in 0 .. b - 1
         /\ x \div b \in Nat
         /\ x = b * (x \div b) + (x % b)
OBVIOUS

(* Where a position lies in a storage of so many bytes, at most once round.*)
Spot(size, p) == IF p < size THEN p ELSE p - size

(* Going at most once round, the remainder is a subtraction.               *)
LEMMA ModIsSpot ==
  ASSUME NEW size \in Nat \ {0}, NEW x \in 0 .. 2 * size - 1
  PROVE  x % size = Spot(size, x) /\ Spot(size, x) \in 0 .. size - 1
<1> DEFINE q == x \div size
           r == x % size
<1>0. x \in Nat
  OBVIOUS
<1>1. q \in Nat /\ r \in 0 .. size - 1 /\ x = size * q + r
  BY <1>0, DivMod
<1> HIDE DEF q, r
<1>2. CASE q = 0
  <2>1. x = r
    BY <1>1, <1>2
  <2> QED
    BY <1>1, <2>1 DEF r, Spot
<1>3. CASE q = 1
  <2>1. x = size + r
    BY <1>1, <1>3
  <2> QED
    BY <1>1, <2>1 DEF r, Spot
<1>4. CASE q > 1
  <2>1. PICK d \in Nat : q = 2 + d
    <3>1. q - 2 \in Nat /\ q = 2 + (q - 2)
      BY <1>1, <1>4
    <3> QED
      BY <3>1
  <2>2. size * q = 2 * size + size * d
    BY <2>1
  <2>3. size * d \in Nat
    BY <2>1
  <2> QED
    BY <1>1, <2>2, <2>3
<1> QED
  BY <1>1, <1>2, <1>3, <1>4

------------------------------------------------------------------------------
(* What happens to a queue whose unread parts are its last ones.           *)

(* RingQueue counts as this module does.                                   *)
LEMMA SameCount == \A S : Queue!Cardinality(S) = Cardinality(S)
  BY DEF Queue!Cardinality, Cardinality, Queue!IsFiniteSet, IsFiniteSet

(* New parts go behind the others.                                         *)
Longer(q, m, k) == [i \in 1 .. m + k |-> IF i <= m THEN q[i] ELSE "unread"]

(* Sent puts that many unread parts behind the parts of a queue.           *)
LEMMA SentIs ==
    ASSUME NEW m \in Nat, NEW old, old = [i \in 1 .. m |-> old[i]], NEW k \in Nat
    PROVE  Queue!Sent(old, k) = Longer(old, m, k)
<1> DEFINE more == [i \in 1 .. k |-> "unread"]
           Y == {old[i] : i \in 1 .. m} \cup {"unread"}
           both == old \o more
<1>1. more \in Seq(Y) /\ Len(more) = k /\ \A i \in 1 .. k : more[i] = "unread"
  OBVIOUS
<1>2. old \in Seq(Y) /\ Len(old) = m
  <2>1. \A i \in 1 .. m : old[i] \in Y
    OBVIOUS
  <2> HIDE DEF Y
  <2>2. old \in [1 .. m -> Y]
    BY <2>1
  <2> QED
    BY <2>2
<1>3. Queue!Sent(old, k) = both
  BY DEF Queue!Sent
<1> HIDE DEF more, Y
<1>4. /\ both \in Seq(Y) /\ Len(both) = m + k
      /\ \A i \in 1 .. m + k : both[i] = IF i <= m THEN old[i] ELSE more[i - m]
  BY <1>1, <1>2, ConcatProperties
<1> HIDE DEF both
<1>5. both = [i \in 1 .. m + k |-> both[i]]
  BY <1>4
<1>6. \A i \in 1 .. m + k : both[i] = IF i <= m THEN old[i] ELSE "unread"
  <2> TAKE i \in 1 .. m + k
  <2>1. i <= m \/ i - m \in 1 .. k
    OBVIOUS
  <2> QED
    BY <1>1, <1>4, <2>1
<1> QED
  BY <1>3, <1>5, <1>6 DEF Longer

(* The k oldest unread parts follow the first c parts.                     *)
Handed(q, n, c, k, h) ==
    [i \in 1 .. n |-> IF i \in c + 1 .. c + k THEN h ELSE q[i]]

(* Taken hands over the oldest unread parts when the unread parts are the  *)
(* last ones.                                                              *)
LEMMA TakenRun ==
    ASSUME NEW n \in Nat, NEW q, DOMAIN q = 1 .. n, NEW c \in 0 .. n,
           Queue!UnreadAt(q) = c + 1 .. n, NEW k \in 1 .. n - c, NEW h
    PROVE  /\ Queue!Taken(q, h, k) = Handed(q, n, c, k, h)
           /\ Cardinality(Queue!UnreadAt(q)) = n - c
<1> DEFINE older(i) == Cardinality({j \in Queue!UnreadAt(q) : j < i})
<1>1. ASSUME NEW i \in c + 1 .. n PROVE older(i) = i - 1 - c
  <2>1. {j \in Queue!UnreadAt(q) : j < i} = c + 1 .. i - 1
    OBVIOUS
  <2>2. Cardinality(c + 1 .. i - 1) = i - 1 - c
    BY FS_Interval
  <2> QED
    BY <2>1, <2>2
<1>2. \A i \in 1 .. n : q[i] = "unread" <=> i \in c + 1 .. n
  BY DEF Queue!UnreadAt
<1>3. ASSUME NEW i \in 1 .. n
      PROVE  (q[i] = "unread" /\ older(i) < k) <=> i \in c + 1 .. c + k
  <2> HIDE DEF older
  <2>1. CASE i \in c + 1 .. n
    BY <1>1, <1>2, <2>1
  <2>2. CASE i \notin c + 1 .. n
    BY <1>2, <2>2
  <2> QED
    BY <2>1, <2>2
<1>4. Queue!Taken(q, h, k) =
        [i \in 1 .. n |-> IF q[i] = "unread" /\ older(i) < k THEN h ELSE q[i]]
  <2>1. Queue!Taken(q, h, k) =
          [i \in DOMAIN q |->
            IF q[i] = "unread"
               /\ Queue!Cardinality({j \in Queue!UnreadAt(q) : j < i}) < k
            THEN h ELSE q[i]]
    BY DEF Queue!Taken
  <2>2. \A i : Queue!Cardinality({j \in Queue!UnreadAt(q) : j < i}) = older(i)
    BY SameCount
  <2> HIDE DEF older
  <2> QED
    BY <2>1, <2>2
<1>5. Cardinality(c + 1 .. n) = n - c
  BY FS_Interval
<1> HIDE DEF older
<1> QED
  BY <1>3, <1>4, <1>5 DEF Handed

(* The first f parts are freed, and not the next one.                      *)
Freed(q, n, f) ==
    (\A i \in 1 .. f : q[i] = "freed") /\ (f < n => q[f + 1] # "freed")

(* The parts after the first f.                                            *)
Rest(q, n, f) == [i \in 1 .. n - f |-> q[f + i]]

(* When the first f parts are freed and no more, they are dropped.         *)
LEMMA ReclaimFrom ==
    ASSUME NEW n \in Nat, NEW X, NEW q \in [1 .. n -> X], NEW f \in 0 .. n,
           Freed(q, n, f)
    PROVE  Queue!Reclaim(q) = Rest(q, n, f)
<1> DEFINE live == {i \in DOMAIN q : q[i] # "freed"}
           first == CHOOSE i \in live : \A j \in live : i <= j
<1>0. q \in Seq(X) /\ Len(q) = n /\ live \in SUBSET Nat
  OBVIOUS
<1>1. CASE f = n
  <2>1. live = {}
    BY <1>1 DEF Freed
  <2>2. [i \in 1 .. n - f |-> q[f + i]] = <<>>
    BY <1>1
  <2> QED
    BY <2>1, <2>2 DEF Queue!Reclaim, Rest
<1>2. CASE f # n
  <2>1. f + 1 \in live /\ \A j \in live : f + 1 <= j
    BY <1>2 DEF Freed
  <2>2. first \in live /\ \A j \in live : first <= j
    BY <2>1
  <2>3. first = f + 1
    <3>1. first \in Nat /\ first <= f + 1 /\ f + 1 <= first
      BY <1>0, <2>1, <2>2
    <3> QED
      BY <3>1
  <2>4. Queue!Reclaim(q) = SubSeq(q, f + 1, Len(q))
    BY <2>1, <2>3 DEF Queue!Reclaim
  <2> HIDE DEF first, live
  <2>5. SubSeq(q, f + 1, n) = [i \in 1 .. n - (f + 1) + 1 |-> q[i + (f + 1) - 1]]
    BY <1>0, <1>2
  <2>6. n - (f + 1) + 1 = n - f /\ \A i \in 1 .. n - f : i + (f + 1) - 1 = f + i
    OBVIOUS
  <2>7. SubSeq(q, f + 1, n) = [i \in 1 .. n - f |-> q[f + i]]
    BY <2>5, <2>6
  <2> QED
    BY <1>0, <2>4, <2>7 DEF Rest
<1> QED
  BY <1>1, <1>2

------------------------------------------------------------------------------
(* The byte buffer                                                         *)

(* The queue of a byte buffer: bytes lent out, then unread ones.           *)
Loan(l, w) == [i \in 1 .. l + w |-> IF i <= l THEN "client" ELSE "unread"]

(* The parts of that queue, and which of them are unread and lent.         *)
LEMMA LoanParts ==
    ASSUME NEW l \in Nat, NEW w \in Nat
    PROVE  /\ Loan(l, w) \in [1 .. l + w -> {"client", "unread"}]
           /\ Loan(l, w) \in Seq({"client", "unread"})
           /\ Len(Loan(l, w)) = l + w
           /\ DOMAIN Loan(l, w) = 1 .. l + w
           /\ Queue!UnreadAt(Loan(l, w)) = l + 1 .. l + w
           /\ Queue!HeldAt(Loan(l, w), "client") = 1 .. l
  BY DEF Loan, Queue!UnreadAt, Queue!HeldAt

(* Bytes that are sent wait behind the others.                             *)
LEMMA LoanSent ==
    ASSUME NEW l \in Nat, NEW w \in Nat, NEW k \in Nat
    PROVE  Queue!Sent(Loan(l, w), k) = Loan(l, w + k)
<1> DEFINE old == Loan(l, w)
           m == l + w
<1>1. old \in [1 .. m -> {"client", "unread"}] /\ m \in Nat /\ l <= m
  BY LoanParts
<1>2. \A i \in 1 .. m : old[i] = IF i <= l THEN "client" ELSE "unread"
  BY DEF Loan
<1>3. Loan(l, w + k) = [i \in 1 .. m + k |-> IF i <= l THEN "client" ELSE "unread"]
  BY DEF Loan
<1> HIDE DEF old
<1>4. Queue!Sent(old, k) = Longer(old, m, k)
  <2> HIDE DEF m
  <2>1. old = [i \in 1 .. m |-> old[i]]
    BY <1>1
  <2> QED
    BY <1>1, <2>1, SentIs
<1>5. \A i \in 1 .. m + k : (IF i <= m THEN old[i] ELSE "unread") =
                             IF i <= l THEN "client" ELSE "unread"
  BY <1>1, <1>2
<1> QED
  BY <1>3, <1>4, <1>5 DEF old, Longer

(* Bytes that are taken are lent, when none were.                          *)
LEMMA LoanTaken ==
    ASSUME NEW w \in Nat, NEW k \in 1 .. w
    PROVE  /\ Queue!Taken(Loan(0, w), "client", k) = Loan(k, w - k)
           /\ Cardinality(Queue!UnreadAt(Loan(0, w))) = w
<1> DEFINE q == Loan(0, w)
           c == 0
<1>1. DOMAIN q = 1 .. w /\ Queue!UnreadAt(q) = c + 1 .. w
  <2>1. 0 \in Nat /\ 0 + w = w
    OBVIOUS
  <2> QED
    BY <2>1, LoanParts
<1>2. c \in 0 .. w /\ k \in 1 .. w - c
  OBVIOUS
<1>3. Loan(k, w - k) = [i \in 1 .. w |-> IF i \in c + 1 .. c + k THEN "client"
                                                              ELSE q[i]]
  BY DEF Loan
<1>5. w - c = w
  OBVIOUS
<1> HIDE DEF q, c
<1>4. /\ Queue!Taken(q, "client", k) = Handed(q, w, c, k, "client")
      /\ Cardinality(Queue!UnreadAt(q)) = w - c
  BY <1>1, <1>2, TakenRun
<1> QED
  BY <1>3, <1>4, <1>5 DEF q, Handed

(* Bytes that are returned leave the queue.                                *)
LEMMA LoanReturned ==
    ASSUME NEW l \in Nat, NEW w \in Nat
    PROVE  Queue!Returned(Loan(l, w), 1 .. l) = Loan(0, w)
<1> DEFINE X == {"client", "unread", "freed"}
           marked == [i \in DOMAIN Loan(l, w) |->
                        IF i \in 1 .. l THEN "freed" ELSE Loan(l, w)[i]]
<1>1. marked = [i \in 1 .. l + w |-> IF i <= l THEN "freed" ELSE "unread"]
  BY DEF Loan
<1>2. marked \in [1 .. l + w -> X]
  BY <1>1
<1>3. /\ l \in 0 .. l + w /\ l + w \in Nat
      /\ \A i \in 1 .. l : marked[i] = "freed"
      /\ l < l + w => marked[l + 1] # "freed"
  BY <1>1
<1>4. Queue!Returned(Loan(l, w), 1 .. l) = Queue!Reclaim(marked)
  BY DEF Queue!Returned
<1> DEFINE m == l + w
<1>7. m \in Nat /\ l \in 0 .. m /\ marked \in [1 .. m -> X]
  BY <1>2
<1>8. l < m => marked[l + 1] # "freed"
  BY <1>3
<1>6. Rest(marked, m, l) = Loan(0, w)
  <2>1. m - l = w /\ \A i \in 1 .. w : l + i \in 1 .. l + w /\ ~(l + i <= l)
    OBVIOUS
  <2>2. \A i \in 1 .. w : marked[l + i] = "unread"
    BY <1>1, <2>1
  <2>3. Loan(0, w) = [i \in 1 .. w |-> "unread"]
    BY DEF Loan
  <2> HIDE DEF marked, m
  <2> QED
    BY <2>1, <2>2, <2>3 DEF Rest
<1>9. \A i \in 1 .. l : marked[i] = "freed"
  BY <1>3
<1>10. Freed(marked, m, l)
  BY <1>8, <1>9 DEF Freed
<1> HIDE DEF marked, m, X
<1>5. Queue!Reclaim(marked) = Rest(marked, m, l)
  BY <1>7, <1>10, ReclaimFrom
<1> QED
  BY <1>4, <1>5, <1>6

------------------------------------------------------------------------------
(* Alignment                                                               *)

(* Multiples of the word.                                                  *)
Aligned(x) == x % Word = 0

(* An aligned number is a multiple of four.                                *)
LEMMA AlignedIs ==
    ASSUME NEW x \in Int
    PROVE  Aligned(x) <=> \E k \in Int : x = 4 * k
BY DEF Aligned, Word

(* Sums and differences of aligned numbers are aligned.                    *)
LEMMA AlignedSum ==
    ASSUME NEW x \in Int, NEW y \in Int, Aligned(x), Aligned(y)
    PROVE  Aligned(x + y) /\ Aligned(x - y)
BY DEF Aligned, Word

(* Two aligned numbers that differ differ by four at least.                *)
LEMMA AlignedGap ==
    ASSUME NEW x \in Int, NEW y \in Int, Aligned(x), Aligned(y), x < y
    PROVE  x + 4 <= y
BY DEF Aligned, Word

(* rbALIGN_SIZE rounds up by three at most, and leaves an aligned size     *)
(* alone.                                                                  *)
LEMMA AlignIs ==
    ASSUME NEW n \in Nat
    PROVE  /\ Align(n) \in Nat /\ Aligned(Align(n))
           /\ n <= Align(n) /\ Align(n) <= n + 3
           /\ Aligned(n) => Align(n) = n
BY DEF Aligned, Align, Word

(* The start of the storage and the size of a header are aligned.          *)
LEMMA AlignedConstants == Aligned(0) /\ Aligned(Header)
BY DEF Aligned, Word, Header

------------------------------------------------------------------------------
(* What lies in the storage, from the free to the write pointer: n headers *)
(* at the places p[0], p[1], ... p[n - 1], unrolled so that they only grow,*)
(* and p[n] where the next one goes.                                       *)

(* The flags that occur on a header, and the headers.                      *)
Marks == {{}, {"SPLIT"}, {"FREE"}, {"DUMMY"}}
Heads == [len : Int, flags : SUBSET ItemFlags]

(* A header may be at x, when the oldest one is at start.                  *)
Place(size, start, x) ==
    /\ Aligned(x) /\ x <= start + size
    /\ Spot(size, x) + Header <= size

(* A place is a cell with room for a header, at most once round.           *)
LEMMA PlaceIs ==
    ASSUME NEW size \in Nat, Aligned(size), NEW start \in Nat, start < size,
           NEW x \in Nat, Place(size, start, x)
    PROVE  /\ Spot(size, x) \in Cells(size)
           /\ Spot(size, x) \in Nat /\ Spot(size, x) + 8 <= size
           /\ \/ x < size /\ Spot(size, x) = x
              \/ x >= size /\ Spot(size, x) = x - size
<1>1. Spot(size, x) \in Nat /\ Spot(size, x) + 8 <= size
  BY DEF Place, Spot, Header
<1>2. Aligned(x) /\ Aligned(x - size)
  BY AlignedSum DEF Place
<1>3. Aligned(Spot(size, x))
  BY <1>2 DEF Spot
<1> QED
  BY <1>1, <1>3 DEF Cells, Aligned, Word, Spot

(* Where an item ends whose header is at x.                                *)
Ending(x, len) == x + Header + Align(len)

(* After header h at x comes y.                                            *)
Leads(size, max, h, x, y) ==
    /\ h.len \in 0 .. max /\ h.flags \in Marks
    /\ h.flags = {"DUMMY"} => x < size /\ y = size
    /\ h.flags = {"SPLIT"} => 0 < x /\ x < size /\ y = size
    /\ h.flags # {"DUMMY"} =>
         /\ x < size => Ending(x, h.len) <= size
         /\ y = IF Ending(x, h.len) <= size /\ Ending(x, h.len) + Header > size
                THEN size ELSE Ending(x, h.len)

(* The places grow by a header at least, none lies further than a lap from *)
(* the first, and every header leads to the next place.                    *)
Laid(size, max, hdr, n, p) ==
    /\ n \in Nat /\ p \in [0 .. n -> Nat] /\ p[0] < size
    /\ \A i \in 0 .. n : Place(size, p[0], p[i])
    /\ \A i, j \in 0 .. n : i < j => p[i] + Header <= p[j]
    /\ \A i \in 0 .. n - 1 :
         Leads(size, max, hdr[Spot(size, p[i])], p[i], p[i + 1])

(* One more place.                                                         *)
More(p, n, y) == [i \in 0 .. n + 1 |-> IF i = n + 1 THEN y ELSE p[i]]

(* A header that is put where the next one goes overlaps no other.         *)
LEMMA PutKeeps ==
    ASSUME NEW size \in Nat, Aligned(size), NEW max \in Nat, NEW n, NEW p,
           NEW hdr \in [Cells(size) -> Heads],
           Laid(size, max, hdr, n, p),
           NEW len \in Nat, NEW flags \in SUBSET ItemFlags,
           p[n] + Header + len <= p[0] + size
    PROVE  LET new == Put(hdr, Part(Spot(size, p[n]), len, flags))
           IN  /\ new \in [Cells(size) -> Heads]
               /\ new[Spot(size, p[n])] = [len |-> len, flags |-> flags]
               /\ \A i \in 0 .. n - 1 :
                    new[Spot(size, p[i])] = hdr[Spot(size, p[i])]
<1> DEFINE off == Spot(size, p[n])
           part == Part(off, len, flags)
           new == Put(hdr, part)
<1>1. ASSUME NEW i \in 0 .. n
      PROVE  Spot(size, p[i]) \in Cells(size) /\ p[i] \in Nat
  <2>1. p[i] \in Nat /\ p[0] \in Nat /\ Place(size, p[0], p[i]) /\ p[0] < size
    BY DEF Laid
  <2> DEFINE x == p[i]
             s == p[0]
  <2> HIDE DEF x, s
  <2>2. Spot(size, x) \in Cells(size)
    BY <2>1, PlaceIs DEF x, s
  <2> QED
    BY <2>1, <2>2 DEF x
<1>2. off \in Cells(size) /\ n \in Nat
  BY <1>1 DEF Laid
<1>3. new = [o \in Cells(size) |->
               IF o = off THEN [len |-> len, flags |-> flags]
               ELSE IF o > off - Header /\ o < off + Header + len THEN Junk
               ELSE hdr[o]]
  BY DEF Put, Part
<1>4. Junk \in Heads
  BY DEF Junk, Heads
<1>5. new \in [Cells(size) -> Heads]
  BY <1>3, <1>4 DEF Heads
<1>6. ASSUME NEW i \in 0 .. n - 1
      PROVE  new[Spot(size, p[i])] = hdr[Spot(size, p[i])]
  <2> DEFINE o == Spot(size, p[i])
  <2>1. o \in Cells(size) /\ p[i] \in Nat /\ p[n] \in Nat /\ p[0] \in Nat
    BY <1>1, <1>2
  <2>2. p[i] + Header <= p[n] /\ p[0] <= p[i] /\ p[n] <= p[0] + size /\ p[0] < size
    <3>1. 0 \in 0 .. n /\ i \in 0 .. n /\ n \in 0 .. n /\ i < n
      BY <1>2
    <3>2. i = 0 \/ p[0] + Header <= p[i]
      BY <3>1 DEF Laid
    <3>3. p[i] + Header <= p[n] /\ p[0] < size /\ Place(size, p[0], p[n])
      BY <3>1 DEF Laid
    <3> QED
      BY <2>1, <3>2, <3>3 DEF Place, Header
  <2>3. o + Header <= off \/ off + Header + len <= o
    BY <2>1, <2>2 DEF Spot, Header
  <2>4. off \in Int /\ o \in Int
    BY <1>2, <2>1 DEF Cells
  <2> HIDE DEF off, o, new
  <2>5. o # off /\ ~(o > off - Header /\ o < off + Header + len)
    BY <2>3, <2>4 DEF Header
  <2> QED
    BY <1>3, <2>1, <2>5 DEF o
<1> QED
  BY <1>2, <1>3, <1>5, <1>6

(* One more header.                                                        *)
LEMMA LaidGrows ==
    ASSUME NEW size \in Nat, Aligned(size), NEW max \in Nat, NEW n, NEW p,
           NEW hdr \in [Cells(size) -> Heads],
           Laid(size, max, hdr, n, p),
           NEW len \in Nat, NEW flags \in SUBSET ItemFlags, NEW y \in Nat,
           p[n] + Header + len <= y, Place(size, p[0], y),
           Leads(size, max, [len |-> len, flags |-> flags], p[n], y)
    PROVE  LET new == Put(hdr, Part(Spot(size, p[n]), len, flags))
           IN  /\ new \in [Cells(size) -> Heads]
               /\ Laid(size, max, new, n + 1, More(p, n, y))
               /\ new[Spot(size, p[n])] = [len |-> len, flags |-> flags]
               /\ \A i \in 0 .. n - 1 :
                    new[Spot(size, p[i])] = hdr[Spot(size, p[i])]
<1> DEFINE new == Put(hdr, Part(Spot(size, p[n]), len, flags))
           q == More(p, n, y)
<1>1. n \in Nat /\ p \in [0 .. n -> Nat] /\ p[0] \in Nat /\ p[n] \in Nat
  BY DEF Laid
<1>2. p[n] + Header + len <= p[0] + size
  BY <1>1 DEF Place, Header
<1>3. /\ new \in [Cells(size) -> Heads]
      /\ new[Spot(size, p[n])] = [len |-> len, flags |-> flags]
      /\ \A i \in 0 .. n - 1 : new[Spot(size, p[i])] = hdr[Spot(size, p[i])]
  BY <1>2, PutKeeps
<1> HIDE DEF new
<1>4. /\ q \in [0 .. n + 1 -> Nat] /\ q[n + 1] = y
      /\ \A i \in 0 .. n : q[i] = p[i]
  BY <1>1 DEF More
<1> HIDE DEF q
<1>5. q[0] < size /\ \A i \in 0 .. n + 1 : Place(size, q[0], q[i])
  <2>1. \A i \in 0 .. n + 1 : i \in 0 .. n \/ i = n + 1
    BY <1>1
  <2>2. q[0] = p[0] /\ p[0] < size /\ \A i \in 0 .. n : Place(size, p[0], p[i])
    BY <1>1, <1>4 DEF Laid
  <2> QED
    BY <1>4, <2>1, <2>2
<1>6. ASSUME NEW i \in 0 .. n + 1, NEW j \in 0 .. n + 1, i < j
      PROVE  q[i] + Header <= q[j]
  <2>1. i \in 0 .. n /\ (j \in 0 .. n \/ j = n + 1)
    BY <1>1, <1>6
  <2>2. CASE j \in 0 .. n
    BY <1>4, <1>6, <2>1, <2>2 DEF Laid
  <2>3. CASE j = n + 1
    <3>1. i = n \/ p[i] + Header <= p[n]
      BY <1>1, <2>1 DEF Laid
    <3>2. p[i] + Header <= p[n] + Header /\ p[i] \in Nat
      BY <1>1, <2>1, <3>1 DEF Header
    <3> QED
      BY <1>1, <1>4, <2>1, <2>3, <3>2 DEF Header
  <2> QED
    BY <2>1, <2>2, <2>3
<1>7. ASSUME NEW i \in 0 .. (n + 1) - 1
      PROVE  Leads(size, max, new[Spot(size, q[i])], q[i], q[i + 1])
  <2>1. i = n \/ (i \in 0 .. n - 1 /\ i + 1 \in 0 .. n /\ i \in 0 .. n)
    BY <1>1
  <2>2. CASE i = n
    BY <1>1, <1>3, <1>4, <2>2
  <2>3. CASE i \in 0 .. n - 1 /\ i + 1 \in 0 .. n /\ i \in 0 .. n
    BY <1>3, <1>4, <2>3 DEF Laid
  <2> QED
    BY <2>1, <2>2, <2>3
<1>8. Laid(size, max, new, n + 1, q)
  BY <1>1, <1>4, <1>5, <1>6, <1>7 DEF Laid
<1> QED
  BY <1>3, <1>8 DEF new, q

(* The facts of a layout that the others are about.                        *)
LEMMA LaidIs ==
    ASSUME NEW size \in Nat, Aligned(size), NEW max \in Nat, NEW hdr, NEW n, NEW p,
           Laid(size, max, hdr, n, p)
    PROVE  /\ n \in Nat /\ p[0] \in Nat /\ p[0] < size
           /\ \A i \in 0 .. n :
                /\ p[i] \in Nat /\ p[0] <= p[i] /\ p[i] <= p[0] + size
                /\ p[i] <= p[n]
                /\ Place(size, p[0], p[i])
                /\ Spot(size, p[i]) \in Cells(size)
                /\ Spot(size, p[i]) \in Nat /\ Spot(size, p[i]) + 8 <= size
                /\ \/ p[i] < size /\ Spot(size, p[i]) = p[i]
                   \/ p[i] >= size /\ Spot(size, p[i]) = p[i] - size
           /\ \A i, j \in 0 .. n : i < j => p[i] + 8 <= p[j]
<1>1. n \in Nat /\ p \in [0 .. n -> Nat] /\ p[0] < size
  BY DEF Laid
<1>2. \A i, j \in 0 .. n : i < j => p[i] + 8 <= p[j]
  BY DEF Laid, Header
<1>3. p[0] \in Nat
  BY <1>1
<1>4. ASSUME NEW i \in 0 .. n
      PROVE  /\ p[i] \in Nat /\ p[0] <= p[i] /\ p[i] <= p[0] + size
             /\ p[i] <= p[n]
             /\ Place(size, p[0], p[i])
             /\ Spot(size, p[i]) \in Cells(size)
             /\ Spot(size, p[i]) \in Nat /\ Spot(size, p[i]) + 8 <= size
             /\ \/ p[i] < size /\ Spot(size, p[i]) = p[i]
                \/ p[i] >= size /\ Spot(size, p[i]) = p[i] - size
  <2> DEFINE x == p[i]
             s == p[0]
  <2>1. x \in Nat /\ s \in Nat /\ s < size /\ Place(size, s, x)
    BY <1>1, <1>3 DEF Laid
  <2>2. i = 0 \/ s + 8 <= x
    <3>1. 0 \in 0 .. n
      BY <1>1
    <3> QED
      BY <1>2, <3>1
  <2>3. i = n \/ x + 8 <= p[n]
    <3>1. n \in 0 .. n
      BY <1>1
    <3> QED
      BY <1>2, <3>1
  <2>4. p[n] \in Nat
    BY <1>1
  <2>5. x <= p[n] /\ s <= x
    BY <2>1, <2>2, <2>3, <2>4
  <2> HIDE DEF x, s
  <2>6. x <= s + size
    BY <2>1 DEF Place
  <2>7. /\ Spot(size, x) \in Cells(size)
        /\ Spot(size, x) \in Nat /\ Spot(size, x) + 8 <= size
        /\ \/ x < size /\ Spot(size, x) = x
           \/ x >= size /\ Spot(size, x) = x - size
    BY <2>1, PlaceIs
  <2> QED
    BY <2>1, <2>5, <2>6, <2>7 DEF x, s
<1> QED
  BY <1>1, <1>2, <1>3, <1>4

(* Two places are one spot only when the storage is full from the first to *)
(* the last.                                                               *)
LEMMA SpotsDiffer ==
    ASSUME NEW size \in Nat, Aligned(size), NEW max \in Nat, NEW hdr, NEW n, NEW p,
           Laid(size, max, hdr, n, p),
           NEW i \in 0 .. n, NEW j \in 0 .. n, i < j,
           Spot(size, p[i]) = Spot(size, p[j])
    PROVE  i = 0 /\ j = n /\ p[n] = p[0] + size
<1>1. /\ n \in Nat /\ 0 \in 0 .. n /\ n \in 0 .. n
      /\ \A k \in 0 .. n : p[k] \in Nat
      /\ p[0] \in Nat /\ p[n] <= p[0] + size
      /\ p[i] + 8 <= p[j] /\ p[j] <= p[n] /\ p[0] <= p[i]
      /\ i # 0 => p[0] + 8 <= p[i]
      /\ j # n => p[j] + 8 <= p[n]
  BY LaidIs
<1>2. p[i] < size \/ Spot(size, p[i]) = p[i] - size
  BY LaidIs
<1>3. p[j] = p[i] + size
  BY <1>1 DEF Spot
<1> QED
  BY <1>1, <1>3

(* Every header takes its eight bytes.                                     *)
LEMMA LaidRoom ==
    ASSUME NEW size \in Nat, Aligned(size), NEW max \in Nat, NEW hdr, NEW n, NEW p,
           Laid(size, max, hdr, n, p)
    PROVE  8 * n <= p[n] - p[0] /\ 8 * n <= size /\ n <= size \div Header
<1> DEFINE S == {k \in 0 .. n : p[0] + 8 * k <= p[k]}
<1>1. n \in Nat /\ p[0] \in Nat /\ p[n] \in Nat /\ p[n] <= p[0] + size
      /\ \A k \in 0 .. n : p[k] \in Nat
  <2>1. n \in Nat
    BY LaidIs
  <2>2. n \in 0 .. n
    BY <2>1
  <2> QED
    BY <2>1, <2>2, LaidIs
<1>2. 0 \in S
  BY <1>1
<1>3. ASSUME NEW k \in 1 .. n, k - 1 \in S PROVE k \in S
  <2>1. k \in 0 .. n /\ k - 1 \in 0 .. n /\ k - 1 < k
    BY <1>1
  <2>2. p[k - 1] + 8 <= p[k]
    BY <2>1, LaidIs
  <2>3. p[0] + 8 * (k - 1) <= p[k - 1]
    BY <1>3
  <2> QED
    BY <1>1, <2>1, <2>2, <2>3
<1>4. n \in S
  <2> HIDE DEF S
  <2> QED
    BY <1>1, <1>2, <1>3, CountUp
<1>5. 8 * n <= p[n] - p[0] /\ 8 * n <= size
  BY <1>1, <1>4
<1> QED
  BY <1>1, <1>5 DEF Header

------------------------------------------------------------------------------
(* Walking over the headers                                                *)

(* The header that follows is the next one.                                *)
LEMMA FollowerIsNext ==
    ASSUME NEW b, NEW n, NEW p, b.size \in Nat, Aligned(b.size), b.max \in Nat,
           b.hdr \in [Cells(b.size) -> Heads],
           Laid(b.size, b.max, b.hdr, n, p), NEW i \in 0 .. n - 1
    PROVE  /\ Spot(b.size, p[i]) \in DOMAIN b.hdr
           /\ Follower(b)[Spot(b.size, p[i])] = Spot(b.size, p[i + 1])
<1> DEFINE size == b.size
           x == p[i]
           y == p[i + 1]
           o == Spot(size, x)
           h == b.hdr[o]
<1>1. n \in Nat /\ i \in 0 .. n /\ i + 1 \in 0 .. n /\ p[0] \in Nat /\ 0 \in 0 .. n
  <2>1. n \in Nat /\ p[0] \in Nat
    BY LaidIs
  <2> QED
    BY <2>1
<1>2. /\ size \in Nat /\ x \in Nat /\ y \in Nat
      /\ o \in Cells(size)
      /\ p[0] < size /\ y <= p[0] + size
      /\ \/ x < size /\ o = x
         \/ x >= size /\ o = x - size
      /\ Spot(size, y) + 8 <= size
      /\ \/ y < size /\ Spot(size, y) = y
         \/ y >= size /\ Spot(size, y) = y - size
  BY <1>1, LaidIs
<1>3. Leads(size, b.max, h, x, y)
  BY DEF Laid
<1>4. Follower(b)[o] = IF "DUMMY" \in h.flags THEN 0
                       ELSE Wrapped(b, o + Header + Align(h.len))
  BY <1>2 DEF Follower, After
<1>5. o \in DOMAIN b.hdr
  BY <1>2
<1>6. h.len \in Nat /\ h.flags \in Marks
  BY <1>3 DEF Leads
<1>7. Align(h.len) \in Nat
  BY <1>6, AlignIs
<1> HIDE DEF x, y, o, h, size
<1>8. CASE "DUMMY" \in h.flags
  <2>1. h.flags = {"DUMMY"}
    BY <1>6, <1>8 DEF Marks
  <2>2. y = size
    BY <1>3, <2>1 DEF Leads
  <2>3. Spot(size, y) = 0
    BY <1>2, <2>2
  <2> QED
    BY <1>4, <1>5, <1>8, <2>3 DEF size, x, y, o
<1>9. CASE "DUMMY" \notin h.flags
  <2> DEFINE a == Align(h.len)
             e == x + 8 + a
  <2>1. /\ x < size => e <= size
        /\ y = IF e <= size /\ e + 8 > size THEN size ELSE e
    BY <1>3, <1>9 DEF Leads, Ending, Header
  <2>2. Wrapped(b, o + Header + a) = IF size - (o + 8 + a) < 8 THEN 0 ELSE o + 8 + a
    BY DEF Wrapped, Header, size
  <2>3. a \in Nat
    BY <1>7
  <2> HIDE DEF a
  <2>4. (IF size - (o + 8 + a) < 8 THEN 0 ELSE o + 8 + a) = Spot(size, y)
    <3>1. CASE x < size
      BY <1>2, <2>1, <2>3, <3>1
    <3>2. CASE x >= size
      BY <1>2, <2>1, <2>3, <3>2
    <3> QED
      BY <1>2, <3>1, <3>2
  <2> QED
    BY <1>4, <1>5, <1>9, <2>2, <2>4 DEF size, x, y, o, a
<1> QED
  BY <1>8, <1>9

(* A walk that takes those steps finds the headers one after the other.    *)
Strides(f, q, m) == \A i \in 0 .. m - 1 : f[q[i]] = q[i + 1]

(* Then so does a walk.                                                    *)
LEMMA WalkFinds ==
    ASSUME NEW f, NEW q, NEW T \in Nat, NEW m \in 0 .. T, Strides(f, q, m)
    PROVE  \A i \in 0 .. m : Walk(f, q[0], T)[i] = q[i]
<1> DEFINE at == Walk(f, q[0], T)
<1>1. at[0] = q[0] /\ \A i \in 0 .. T - 1 : at[i + 1] = f[at[i]]
  BY WalkIs
<1> HIDE DEF at
<1> SUFFICES ASSUME NEW i \in 0 .. m PROVE at[i] = q[i]
  BY DEF at
<1> DEFINE S == {k \in 0 .. m : at[k] = q[k]}
<1>2. 0 \in S
  BY <1>1
<1>3. ASSUME NEW k \in 1 .. i, k - 1 \in S PROVE k \in S
  <2>1. k - 1 \in 0 .. T - 1 /\ k - 1 \in 0 .. m - 1 /\ (k - 1) + 1 = k /\ k \in 0 .. m
    OBVIOUS
  <2>2. at[k] = f[at[k - 1]] /\ q[k] = f[q[k - 1]]
    <3> DEFINE l == k - 1
    <3>1. l \in 0 .. T - 1 /\ l \in 0 .. m - 1 /\ l + 1 = k
      BY <2>1
    <3> HIDE DEF l
    <3>2. at[l + 1] = f[at[l]] /\ f[q[l]] = q[l + 1]
      BY <1>1, <3>1 DEF Strides
    <3> QED
      BY <3>1, <3>2 DEF l
  <2> QED
    BY <1>3, <2>1, <2>2
<1>4. i \in S
  <2> HIDE DEF S
  <2>1. i \in Nat
    OBVIOUS
  <2> QED
    BY <1>2, <1>3, <2>1, CountUp
<1> QED
  BY <1>4

(* A buffer of items whose storage holds n headers at the places p, of     *)
(* which the first r were read, and the one at place d, if d < n, is a     *)
(* dummy.                                                                  *)
Sized(b) ==
    /\ b.kind \in {"nosplit", "allowsplit"}
    /\ b.size \in Nat /\ b.size >= 2 * Header /\ Aligned(b.size)
    /\ b.max = IF b.kind = "nosplit" THEN Align(b.size \div 2) - Header
                                     ELSE b.size - 2 * Header
    /\ b.size < Header * (MostParts + 1)
    /\ b \in [kind : Kinds, size : Nat, max : Nat, write : Nat, read : Nat,
              free : Nat, full : BOOLEAN, waiting : Nat,
              hdr : [Cells(b.size) -> Heads]]

(* The header at place i.                                                  *)
At(b, p, i) == b.hdr[Spot(b.size, p[i])]

(* The free and the write pointer are the first and the last place, and    *)
(* the buffer is full when they are a lap apart.                           *)
Linked(b, n, p) ==
    /\ p[0] = b.free /\ Spot(b.size, p[n]) = b.write
    /\ b.full <=> p[n] = p[0] + b.size

(* One dummy at most, with an item behind it; a second half behind every   *)
(* first half.                                                             *)
Marked(b, n, d, p) ==
    /\ d \in 0 .. n /\ (d < n => d + 1 < n)
    /\ \A i \in 0 .. n - 1 : At(b, p, i).flags = {"DUMMY"} <=> i = d
    /\ \A i \in 0 .. n - 1 : At(b, p, i).flags = {"SPLIT"} => i + 1 < n

(* The read pointer is at place r, never behind the dummy, and the count   *)
(* is that of the items from there on, none of which is returned.          *)
Read(b, n, r, d, p) ==
    /\ r \in 0 .. n /\ (d < n => r # d + 1)
    /\ Spot(b.size, p[r]) = b.read
    /\ b.waiting = n - r - (IF r <= d /\ d < n THEN 1 ELSE 0)
    /\ \A i \in r .. n - 1 : At(b, p, i).flags # {"FREE"}

(* All of that.                                                            *)
Chained(b, n, r, d, p) ==
    /\ Laid(b.size, b.max, b.hdr, n, p)
    /\ Linked(b, n, p) /\ Marked(b, n, d, p) /\ Read(b, n, r, d, p)

(* What a header stands for in the queue.                                  *)
State(b, r, p, i) ==
    IF At(b, p, i).flags = {"FREE"} THEN "freed"
    ELSE IF i < r THEN "client" ELSE "unread"

PartStates == {"freed", "client", "unread"}

(* The entries of Items, the dummy included.                               *)
Entries(b, n, r, p) ==
    [i \in 0 .. n - 1 |-> [off |-> Spot(b.size, p[i]), state |-> State(b, r, p, i)]]

(* Nothing waits exactly when all was read.                                *)
LEMMA AllRead ==
    ASSUME NEW b, NEW n, NEW r, NEW d, NEW p, Sized(b), Chained(b, n, r, d, p)
    PROVE  n \in Nat /\ r \in 0 .. n /\ d \in 0 .. n /\ (b.waiting = 0 <=> r = n)
<1>1. n \in Nat
  BY DEF Chained, Laid
<1> QED
  BY <1>1 DEF Chained, Marked, Read

(* A header has one flag at most, and tells its follower its place.        *)
LEMMA FlagsAre ==
    ASSUME NEW b, NEW n, NEW r, NEW d, NEW p, Sized(b), Chained(b, n, r, d, p),
           NEW i \in 0 .. n - 1
    PROVE  /\ At(b, p, i).flags \in Marks
           /\ At(b, p, i).len \in 0 .. b.max /\ b.max \in Nat
           /\ Leads(b.size, b.max, At(b, p, i), p[i], p[i + 1])
           /\ "FREE" \in At(b, p, i).flags <=> At(b, p, i).flags = {"FREE"}
           /\ "DUMMY" \in At(b, p, i).flags <=> At(b, p, i).flags = {"DUMMY"}
           /\ "SPLIT" \in At(b, p, i).flags <=> At(b, p, i).flags = {"SPLIT"}
<1>1. Leads(b.size, b.max, At(b, p, i), p[i], p[i + 1])
  BY DEF Chained, Laid, At
<1>2. At(b, p, i).flags \in Marks /\ At(b, p, i).len \in 0 .. b.max
  BY <1>1 DEF Leads
<1>3. b.max \in Nat
  BY DEF Sized
<1> QED
  BY <1>1, <1>2, <1>3 DEF Marks

(* The walk of Items finds the headers, the write and the read pointer.    *)
LEMMA ItemsFind ==
    ASSUME NEW b, NEW n, NEW r, NEW d, NEW p, Sized(b), Chained(b, n, r, d, p)
    PROVE  LET at == Walk(Follower(b), b.free, Turns(b))
               ends == {i \in 0 .. Turns(b) : at[i] = b.write /\ (b.full => i > 0)}
           IN  /\ Turns(b) \in Nat /\ n \in 0 .. Turns(b)
               /\ \A i \in 0 .. n : at[i] = Spot(b.size, p[i])
               /\ n \in ends /\ Lowest(ends) = n
               /\ r < n => Lowest({i \in 0 .. Turns(b) : at[i] = b.read}) = r
<1> DEFINE at == Walk(Follower(b), b.free, Turns(b))
           ends == {i \in 0 .. Turns(b) : at[i] = b.write /\ (b.full => i > 0)}
           reads == {i \in 0 .. Turns(b) : at[i] = b.read}
           q == [i \in 0 .. n |-> Spot(b.size, p[i])]
           T == Turns(b)
<1>0. /\ b.size \in Nat /\ Aligned(b.size) /\ b.max \in Nat
      /\ b.hdr \in [Cells(b.size) -> Heads]
      /\ Laid(b.size, b.max, b.hdr, n, p)
  BY DEF Sized, Chained
<1>1. n \in Nat /\ r \in 0 .. n
  BY AllRead
<1>2. T \in Nat /\ n \in 0 .. T
  <2>1. n <= b.size \div Header
    BY <1>0, LaidRoom
  <2> QED
    BY <1>0, <1>1, <2>1 DEF Turns, Header
<1>3. Strides(Follower(b), q, n)
  <2>1. ASSUME NEW i \in 0 .. n - 1 PROVE Follower(b)[q[i]] = q[i + 1]
    <3>1. Follower(b)[Spot(b.size, p[i])] = Spot(b.size, p[i + 1])
      BY <1>0, FollowerIsNext
    <3>2. i \in 0 .. n /\ i + 1 \in 0 .. n
      BY <1>1
    <3> QED
      BY <3>1, <3>2
  <2> QED
    BY <2>1 DEF Strides
<1>4. q[0] = b.free
  <2>1. p[0] < b.size /\ p[0] = b.free
    BY <1>0, LaidIs DEF Chained, Linked
  <2> QED
    BY <1>1, <2>1 DEF Spot
<1> HIDE DEF q, T
<1>5. \A i \in 0 .. n : Walk(Follower(b), q[0], T)[i] = q[i]
  BY <1>2, <1>3, WalkFinds
<1>6. \A i \in 0 .. n : at[i] = Spot(b.size, p[i])
  BY <1>4, <1>5 DEF q, T
<1> HIDE DEF at
<1>7. \A i, j \in 0 .. n : i < j /\ at[i] = at[j] =>
                             i = 0 /\ j = n /\ p[n] = p[0] + b.size
  BY <1>0, <1>6, SpotsDiffer
<1>8. /\ at[n] = b.write /\ (b.full <=> p[n] = p[0] + b.size)
      /\ p[0] \in Nat /\ b.size > 0
  <2>1. p[0] \in Nat /\ b.size > 0
    BY <1>0, LaidIs DEF Sized, Header
  <2> QED
    BY <1>1, <1>6, <2>1 DEF Chained, Linked
<1>9. n \in ends /\ Lowest(ends) = n
  <2>0. b.full => n # 0
    <3> SUFFICES ASSUME n = 0, b.full PROVE FALSE
      OBVIOUS
    <3>1. p[0] = p[0] + b.size
      BY <1>8
    <3> QED
      BY <1>0, <1>8, <3>1
  <2>1. n \in ends
    BY <1>1, <1>2, <1>8, <2>0 DEF T
  <2>2. \A j \in ends : n <= j
    BY <1>1, <1>2, <1>7, <1>8 DEF T
  <2>3. ends \in SUBSET Nat
    BY <1>2 DEF T
  <2> HIDE DEF ends
  <2> QED
    BY <2>1, <2>2, <2>3, LowestIs
<1>10. ASSUME r < n PROVE Lowest(reads) = r
  <2>1. at[r] = b.read
    BY <1>1, <1>6 DEF Chained, Read
  <2>2. r \in reads
    BY <1>1, <1>2, <2>1 DEF T
  <2>3. \A j \in reads : r <= j
    BY <1>1, <1>2, <1>7, <1>10, <2>1 DEF T
  <2>4. reads \in SUBSET Nat
    BY <1>2 DEF T
  <2> HIDE DEF reads
  <2> QED
    BY <2>2, <2>3, <2>4, LowestIs
<1> QED
  BY <1>2, <1>6, <1>9, <1>10 DEF T, at

(* What Items reads off the storage.                                       *)
LEMMA ItemsAre ==
    ASSUME NEW b, NEW n, NEW r, NEW d, NEW p, Sized(b), Chained(b, n, r, d, p)
    PROVE  Items(b) = But(Entries(b, n, r, p), d, n)
<1> DEFINE at == Walk(Follower(b), b.free, Turns(b))
           ends == {i \in 0 .. Turns(b) : at[i] = b.write /\ (b.full => i > 0)}
           waits == IF b.waiting = 0 THEN Lowest(ends)
                     ELSE Lowest({i \in 0 .. Turns(b) : at[i] = b.read})
           part(i) ==
               [off |-> at[i],
                state |-> IF "FREE" \in b.hdr[at[i]].flags THEN "freed"
                          ELSE IF i < waits THEN "client" ELSE "unread"]
           D == {i \in 0 .. Turns(b) : "DUMMY" \in b.hdr[at[i]].flags}
           g == [i \in 0 .. Turns(b) |-> part(i)]
           F == CHOOSE first : first =
                [i \in 0 .. Turns(b) |->
                    IF i = 0 THEN <<>>
                    ELSE IF "DUMMY" \in b.hdr[at[i - 1]].flags THEN first[i - 1]
                    ELSE Append(first[i - 1], part(i - 1))]
           e == Entries(b, n, r, p)
<1>1. /\ Turns(b) \in Nat /\ n \in 0 .. Turns(b)
      /\ \A i \in 0 .. n : at[i] = Spot(b.size, p[i])
      /\ n \in ends /\ Lowest(ends) = n
      /\ r < n => Lowest({i \in 0 .. Turns(b) : at[i] = b.read}) = r
  BY ItemsFind
<1>2. n \in Nat /\ r \in 0 .. n /\ d \in 0 .. n /\ (b.waiting = 0 <=> r = n)
  BY AllRead
<1>3. waits = r
  BY <1>1, <1>2
<1>4. Items(b) = IF ends = {} THEN <<[off |-> -1, state |-> "lost"]>>
                 ELSE F[Lowest(ends)]
  BY DEF Items
<1>5. Items(b) = F[n]
  BY <1>1, <1>4
<1>6. IsGathered(F, D, g, Turns(b))
  <2> DEFINE T == Turns(b)
             Is(first) == first =
                [i \in 0 .. T |->
                    IF i = 0 THEN <<>>
                    ELSE IF "DUMMY" \in b.hdr[at[i - 1]].flags THEN first[i - 1]
                    ELSE Append(first[i - 1], part(i - 1))]
  <2>1. ASSUME NEW first PROVE Is(first) <=> IsGathered(first, D, g, T)
    <3>1. \A i \in 0 .. T : i # 0 =>
             /\ i - 1 \in D <=> "DUMMY" \in b.hdr[at[i - 1]].flags
             /\ g[i - 1] = part(i - 1)
      BY <1>1
    <3>2. [i \in 0 .. T |->
                    IF i = 0 THEN <<>>
                    ELSE IF "DUMMY" \in b.hdr[at[i - 1]].flags THEN first[i - 1]
                    ELSE Append(first[i - 1], part(i - 1))]
          = [i \in 0 .. T |-> IF i = 0 THEN <<>>
                          ELSE IF i - 1 \in D THEN first[i - 1]
                          ELSE Append(first[i - 1], g[i - 1])]
      <4> HIDE DEF part, D, g, T, at
      <4> QED
        BY <3>1
    <3> HIDE DEF part, D, g, T, at
    <3> QED
      BY <3>2 DEF IsGathered
  <2>2. F = CHOOSE first : Is(first)
    OBVIOUS
  <2>3. T \in Nat
    BY <1>1
  <2> HIDE DEF T, D, g, Is, F
  <2>4. \E first : IsGathered(first, D, g, T)
    BY <2>3, GatherExists
  <2>5. Is(F)
    BY <2>1, <2>2, <2>4
  <2> QED
    BY <2>1, <2>5 DEF T
<1>7. /\ \A i \in 0 .. n - 1 : g[i] = e[i] /\ i \in 0 .. Turns(b)
      /\ \A i \in 0 .. n - 1 : i \in D <=> i = d
  <2> SUFFICES ASSUME NEW i \in 0 .. n - 1
               PROVE  g[i] = e[i] /\ i \in 0 .. Turns(b) /\ (i \in D <=> i = d)
    OBVIOUS
  <2>1. i \in 0 .. Turns(b) /\ i \in 0 .. n
    BY <1>1
  <2>2. at[i] = Spot(b.size, p[i]) /\ b.hdr[at[i]] = At(b, p, i)
    BY <1>1, <2>1 DEF At
  <2>3. /\ "FREE" \in At(b, p, i).flags <=> At(b, p, i).flags = {"FREE"}
        /\ "DUMMY" \in At(b, p, i).flags <=> At(b, p, i).flags = {"DUMMY"}
    BY FlagsAre
  <2>4. g[i] = part(i)
    BY <2>1
  <2> HIDE DEF at, g, waits
  <2>5. part(i) = e[i]
    BY <1>3, <2>2, <2>3 DEF Entries, State
  <2>6. i \in D <=> i = d
    BY <2>1, <2>2, <2>3 DEF Chained, Marked
  <2> QED
    BY <2>1, <2>4, <2>5, <2>6
<1> DEFINE X == {g[i] : i \in 0 .. Turns(b)}
           T == Turns(b)
<1>8. Fills(g, n, X)
  BY <1>7 DEF Fills
<1>9. T \in Nat /\ n \in 0 .. T /\ d \in Nat
  BY <1>1, <1>2
<1> DEFINE OnlyAt == \A i \in 0 .. n - 1 : i \in D <=> i = d
<1>10. OnlyAt
  BY <1>7
<1>11. But(g, d, n) = But(e, d, n)
  <2>1. \A k \in 1 .. (IF d < n THEN n - 1 ELSE n) :
            (IF k <= d THEN k - 1 ELSE k) \in 0 .. n - 1
    BY <1>2
  <2> HIDE DEF g, e
  <2> QED
    BY <1>7, <2>1 DEF But
<1> HIDE DEF F, D, g, X, T, at, ends, waits, e
<1>12. F[n] = But(g, d, n)
  BY <1>6, <1>8, <1>9, <1>10, GatherIs DEF T
<1> QED
  BY <1>5, <1>11, <1>12 DEF e

------------------------------------------------------------------------------
(* Sending                                                                 *)

(* Where the next header goes after an item of len bytes at x.             *)
Onward(size, x, len) ==
    IF Ending(x, len) <= size /\ Ending(x, len) + Header > size
    THEN size ELSE Ending(x, len)

(* An item that ends before the tail, or before the oldest header when it  *)
(* lies at the head, leaves a place for the next one.                      *)
LEMMA OnwardIs ==
    ASSUME NEW b, Sized(b), NEW start \in Nat, start < b.size,
           Place(b.size, start, start),
           NEW x \in Nat, Place(b.size, start, x), start <= x, NEW len \in Nat,
           Ending(x, len) <= start + b.size, x < b.size => Ending(x, len) <= b.size
    PROVE  /\ Onward(b.size, x, len) \in Nat
           /\ Place(b.size, start, Onward(b.size, x, len))
           /\ x + Header + len <= Onward(b.size, x, len)
           /\ start < Onward(b.size, x, len)
           /\ After(b, Spot(b.size, x), len) = Spot(b.size, Onward(b.size, x, len))
<1> DEFINE a == Align(len)
           size == b.size
           y == Onward(size, x, len)
<1>1. size \in Nat /\ Aligned(size) /\ 16 <= size
  BY DEF Sized, Header
<1>2. a \in Nat /\ Aligned(a) /\ len <= a
  BY AlignIs
<1>3. Aligned(x) /\ Spot(size, x) + 8 <= size
  BY DEF Place, Header
<1>4. Ending(x, len) = x + 8 + a
  BY DEF Ending, Header
<1>5. start + 8 <= size
  BY <1>1 DEF Place, Spot, Header
<1>6. Aligned(x + 8 + a)
  BY <1>2, <1>3 DEF Aligned, Word
<1>7. After(b, Spot(size, x), len) =
        IF size - (Spot(size, x) + 8 + a) < 8 THEN 0 ELSE Spot(size, x) + 8 + a
  BY DEF After, Wrapped, Header
<1> HIDE DEF a, size
<1>8. /\ y \in Nat /\ start < y /\ x + 8 + len <= y /\ y <= start + size
      /\ Spot(size, y) + 8 <= size /\ Aligned(y)
  BY <1>1, <1>2, <1>4, <1>5, <1>6 DEF Onward, Header, Spot, size
<1>9. After(b, Spot(size, x), len) = Spot(size, y)
  <2>1. CASE x < size
    BY <1>1, <1>2, <1>3, <1>4, <1>7, <2>1 DEF Onward, Header, Spot, size
  <2>2. CASE x >= size
    BY <1>1, <1>2, <1>3, <1>4, <1>5, <1>7, <2>2 DEF Onward, Header, Spot, size
  <2> QED
    BY <1>1, <2>1, <2>2
<1> QED
  BY <1>8, <1>9 DEF Place, Header, size

(* The three ways an item that fits is laid out.                           *)
Straight(b, n, p, len) ==
    /\ Layout(b, len) = <<Part(b.write, len, {})>>
    /\ Ending(p[n], len) <= p[0] + b.size
    /\ p[n] < b.size => Ending(p[n], len) <= b.size

Behind(b, n, p, len) ==
    /\ Layout(b, len) = <<Part(b.write, 0, {"DUMMY"}), Part(0, len, {})>>
    /\ p[n] < b.size /\ Ending(b.size, len) <= p[0] + b.size

Cut(b, n, p, len) ==
    LET rest == b.size - b.write - Header
    IN  /\ Layout(b, len) = <<Part(b.write, rest, {"SPLIT"}), Part(0, len - rest, {})>>
        /\ 0 < p[n] /\ p[n] < b.size
        /\ rest \in 1 .. b.max /\ Aligned(rest) /\ len - rest \in 0 .. b.max
        /\ Ending(b.size, len - rest) <= p[0] + b.size

(* What CheckItemFits lets pass fits in one of these ways:                 *)
(* prvCheckItemFits tests the tail before the head, and prvCopyItem        *)
(* decides again.                                                          *)
LEMMA FitsSomehow ==
    ASSUME NEW b, Sized(b), NEW n, NEW p, Laid(b.size, b.max, b.hdr, n, p),
           Linked(b, n, p), NEW len \in 0 .. b.max, CheckItemFits(b, len)
    PROVE  /\ ~b.full
           /\ Straight(b, n, p, len) \/ Behind(b, n, p, len) \/ Cut(b, n, p, len)
<1> DEFINE a == Align(len)
           S == b.size
           F == b.free
           W == b.write
           u == p[n]
<1>1. /\ S \in Nat /\ Aligned(S) /\ 16 <= S /\ b.max \in Nat /\ b.full \in BOOLEAN
      /\ F \in Nat /\ W \in Nat
  BY DEF Sized, Header
<1>2. n \in Nat /\ p[0] = F /\ W = Spot(S, u) /\ (b.full <=> u = F + S)
  BY <1>1, LaidIs DEF Linked
<1>3. /\ u \in Nat /\ F <= u /\ u <= F + S /\ F < S
      /\ Aligned(u) /\ Aligned(F) /\ F + 8 <= S /\ W + 8 <= S
      /\ (u < S /\ W = u) \/ (u >= S /\ W = u - S)
  <2>1. n \in 0 .. n /\ 0 \in 0 .. n
    BY <1>2
  <2>2. Place(S, p[0], p[n]) /\ Place(S, p[0], p[0]) /\ p[n] \in Nat
        /\ p[0] <= p[n] /\ p[n] <= p[0] + S /\ p[0] < S
    BY <1>1, <2>1, LaidIs
  <2> QED
    BY <1>1, <1>2, <2>2 DEF Place, Spot, Header
<1>4. a \in Nat /\ Aligned(a) /\ len <= a /\ a <= len + 3 /\ len \in Nat
  BY <1>1, AlignIs
<1>5. Aligned(W)
  BY <1>1, <1>3 DEF Aligned, Word
<1>6. \A x \in Nat : Ending(x, len) = x + 8 + a
  BY DEF Ending, Header
<1>7. b.kind \in {"nosplit", "allowsplit"}
  BY DEF Sized
<1>8. b.kind = "nosplit" => a + 8 <= Align(S \div 2)
  BY <1>1, <1>4 DEF Sized, Align, Word, Header
<1>9. b.kind = "allowsplit" => a + 16 <= S
  BY <1>1, <1>4 DEF Sized, Align, Aligned, Word, Header
<1>10. \/ W = F /\ ~b.full
       \/ F > W /\ a + 8 <= F - W
       \/ /\ F < W
          /\ \/ a + 8 <= S - W
             \/ b.kind = "allowsplit" /\ a + 16 <= S - (W - F)
             \/ b.kind = "nosplit" /\ a + 8 <= F
  <2>1. CheckItemFitsDefault(b, len)
    BY <1>7 DEF CheckItemFits
  <2> HIDE DEF a
  <2>2. Align(len) + Header = a + 8
    BY DEF a, Header
  <2> QED
    BY <1>1, <1>4, <2>1, <2>2 DEF CheckItemFitsDefault, Header
<1>11. ~b.full
  BY <1>1, <1>2, <1>3, <1>10
<1>12. b.kind = "nosplit" =>
         Layout(b, len) = IF a + 8 <= S - W THEN <<Part(W, len, {})>>
                          ELSE <<Part(W, 0, {"DUMMY"}), Part(0, len, {})>>
  BY DEF Layout, LayoutNoSplit, Header
<1>13. b.kind = "allowsplit" =>
         Layout(b, len) = IF a <= S - W - 8 THEN <<Part(W, len, {})>>
                          ELSE IF S - W - 8 > 0
                          THEN <<Part(W, S - W - 8, {"SPLIT"}),
                                 Part(0, len - (S - W - 8), {})>>
                          ELSE <<Part(W, 0, {"DUMMY"}), Part(0, len, {})>>
  BY DEF Layout, LayoutAllowSplit, Header
<1>14. Aligned(Align(S \div 2)) /\ Align(S \div 2) \in Nat /\ 2 * Align(S \div 2) <= S + 4
  BY <1>1 DEF Align, Aligned, Word
<1>15. ~(a + 8 <= S - W) => u < S /\ W = u
  BY <1>1, <1>2, <1>3, <1>4, <1>10, <1>11
<1> DEFINE half == Align(S \div 2)
<1> HIDE DEF a, S, F, W, u, half
<1>16. CASE a + 8 <= S - W
  <2>1. Layout(b, len) = <<Part(W, len, {})>>
    BY <1>1, <1>4, <1>7, <1>12, <1>13, <1>16
  <2>2. u + 8 + a <= F + S /\ (u < S => u + 8 + a <= S)
    BY <1>1, <1>2, <1>3, <1>4, <1>10, <1>11, <1>16
  <2>3. Straight(b, n, p, len)
    BY <1>2, <1>3, <1>6, <2>1, <2>2 DEF Straight, S, F, W, u
  <2> QED
    BY <1>11, <2>3
<1>17. CASE ~(a + 8 <= S - W) /\ b.kind = "nosplit"
  <2>1. Layout(b, len) = <<Part(W, 0, {"DUMMY"}), Part(0, len, {})>>
    BY <1>12, <1>17
  <2>2. a + 8 <= F
    <3>1. CASE W = F
      <4>1. Aligned(S - W) /\ S - W < half /\ S - W \in Int
        <5>1. Aligned(S - W)
          BY <1>1, <1>5 DEF Aligned, Word
        <5> QED
          BY <1>1, <1>8, <1>17, <1>4, <1>14, <5>1 DEF half
      <4>2. S - W + 4 <= half
        BY <1>14, <4>1, AlignedGap DEF half
      <4> QED
        BY <1>1, <1>4, <1>8, <1>14, <1>17, <3>1, <4>2 DEF half
    <3> QED
      BY <1>1, <1>3, <1>4, <1>10, <1>17, <3>1
  <2>3. S + 8 + a <= F + S
    BY <1>1, <1>4, <2>2
  <2>4. Behind(b, n, p, len)
    BY <1>1, <1>2, <1>6, <1>15, <1>17, <2>1, <2>3 DEF Behind, S, F, W, u
  <2> QED
    BY <1>11, <2>4
<1>18. CASE ~(a + 8 <= S - W) /\ b.kind = "allowsplit"
  <2> DEFINE rest == S - W - 8
  <2>1. rest \in Nat /\ Aligned(rest) /\ ~(a <= rest)
    BY <1>1, <1>3, <1>4, <1>5, <1>18 DEF Aligned, Word
  <2>2. a + 16 <= S - (W - F) /\ W \in Nat
    BY <1>1, <1>3, <1>4, <1>9, <1>10, <1>18
  <2>3. CASE rest = 0
    <3>1. Layout(b, len) = <<Part(W, 0, {"DUMMY"}), Part(0, len, {})>>
      BY <1>13, <1>18, <2>1, <2>3
    <3>2. S + 8 + a <= F + S
      BY <1>1, <1>4, <2>2, <2>3
    <3>3. Behind(b, n, p, len)
      BY <1>1, <1>2, <1>6, <1>15, <1>18, <3>1, <3>2 DEF Behind, S, F, W, u
    <3> QED
      BY <1>11, <3>3
  <2>4. CASE rest # 0
    <3>1. Layout(b, len) = <<Part(W, rest, {"SPLIT"}), Part(0, len - rest, {})>>
      <4>1. ~(a <= S - W - 8) /\ S - W - 8 > 0
        <5>1. rest = S - W - 8
          OBVIOUS
        <5> HIDE DEF rest
        <5>2. ~(a <= rest) /\ rest > 0
          BY <2>1, <2>4
        <5> QED
          BY <5>1, <5>2
      <4> QED
        BY <1>13, <1>18, <4>1, Zenon
    <3>2. rest + 4 <= a /\ a + 16 <= S
      BY <1>4, <1>9, <1>18, <2>1, AlignedGap
    <3>3. b.max = S - 16
      BY <1>18 DEF Sized, S, Header
    <3>4. rest \in 1 .. b.max /\ len - rest \in 0 .. b.max
      BY <1>1, <1>4, <2>1, <2>4, <3>2, <3>3
    <3>5. Align(len - rest) = a - rest
      <4>1. len \in Nat /\ rest \in Nat /\ len - rest \in Nat
        BY <1>4, <2>1, <3>4
      <4> HIDE DEF rest
      <4> QED
        BY <2>1, <4>1 DEF a, Align, Aligned, Word
    <3>6. Ending(S, len - rest) <= F + S
      <4>1. Ending(S, len - rest) = S + 8 + (a - rest)
        BY <3>5 DEF Ending, Header
      <4> QED
        BY <1>1, <1>4, <2>1, <2>2, <4>1
    <3>7. 0 < W
      BY <1>1, <1>4, <2>1, <3>2
    <3>8. rest = b.size - b.write - Header
      BY DEF S, W, Header
    <3>9. 0 < p[n] /\ p[n] < b.size
      BY <1>15, <1>18, <3>7 DEF u, S
    <3> HIDE DEF rest
    <3>10. Cut(b, n, p, len)
      BY <1>2, <2>1, <3>1, <3>4, <3>6, <3>8, <3>9 DEF Cut, S, F, W
    <3> QED
      BY <1>11, <3>10
  <2> QED
    BY <2>3, <2>4
<1> QED
  BY <1>7, <1>16, <1>17, <1>18

(* The buffer after a copy, field by field.                                *)
Copied(b, b2, hdr, write, waiting) ==
    /\ b2.kind = b.kind /\ b2.size = b.size /\ b2.max = b.max
    /\ b2.read = b.read /\ b2.free = b.free
    /\ b2.hdr = hdr /\ b2.write = write /\ b2.waiting = waiting
    /\ b2.full \in BOOLEAN /\ (b2.full <=> b.full \/ write = b.free)
    /\ b2 \in [kind : Kinds, size : Nat, max : Nat, write : {write}, read : Nat,
              free : Nat, full : BOOLEAN, waiting : {waiting}, hdr : {hdr}]

(* What CopyItem does to every field.                                      *)
LEMMA CopyIs ==
    ASSUME NEW b, Sized(b), NEW len,
           NEW layout, Layout(b, len) = layout,
           NEW m, m = Cardinality({i \in DOMAIN layout :
                                     "DUMMY" \notin layout[i].flags}),
           NEW last, last = layout[Len(layout)]
    PROVE  Copied(b, CopyItem(b, len), Put(Put(b.hdr, layout[1]), last),
                  After(b, last.off, last.len), b.waiting + m)
<1> DEFINE hdr == Put(Put(b.hdr, layout[1]), last)
           write == After(b, last.off, last.len)
           full == b.full \/ write = b.free
           waiting == b.waiting + m
           b2 == [b EXCEPT !.hdr = hdr, !.write = write, !.waiting = waiting,
                           !.full = full]
<1>1. CopyItem(b, len) = b2
  <2>1. CopyItem(b, len) = CopyItemDefault(b, len)
    BY DEF CopyItem, Sized
  <2> QED
    BY <2>1 DEF CopyItemDefault
<1>2. b \in [kind : Kinds, size : Nat, max : Nat, write : Nat, read : Nat,
             free : Nat, full : BOOLEAN, waiting : Nat,
             hdr : [Cells(b.size) -> Heads]]
  BY DEF Sized
<1>3. full \in BOOLEAN
  BY <1>2
<1> HIDE DEF hdr, write, waiting
<1>4. Copied(b, b2, hdr, write, waiting)
  BY <1>2, <1>3 DEF Copied
<1> QED
  BY <1>1, <1>4 DEF hdr, write, waiting

(* A header that is put twice is put once.                                 *)
LEMMA PutTwice ==
    ASSUME NEW hdr, NEW part
    PROVE  Put(Put(hdr, part), part) = Put(hdr, part)
BY DEF Put

(* A header was put where the next one goes, and the place after it is y.  *)
Stored(size, max, hdr, n, p, len, flags, y, new) ==
    /\ new \in [Cells(size) -> Heads]
    /\ Laid(size, max, new, n + 1, More(p, n, y))
    /\ new[Spot(size, p[n])] = [len |-> len, flags |-> flags]
    /\ \A i \in 0 .. n - 1 : new[Spot(size, p[i])] = hdr[Spot(size, p[i])]

(* The last part of a layout.                                              *)
LEMMA LastPut ==
    ASSUME NEW b, Sized(b), NEW hdr \in [Cells(b.size) -> Heads], NEW n, NEW p,
           Laid(b.size, b.max, hdr, n, p), NEW len \in 0 .. b.max,
           Ending(p[n], len) <= p[0] + b.size,
           p[n] < b.size => Ending(p[n], len) <= b.size
    PROVE  LET off == Spot(b.size, p[n])
               new == Put(hdr, Part(off, len, {}))
               y == Onward(b.size, p[n], len)
           IN  /\ Stored(b.size, b.max, hdr, n, p, len, {}, y, new)
               /\ y \in Nat /\ After(b, off, len) = Spot(b.size, y)
               /\ After(b, off, len) = p[0] <=> y = p[0] + b.size
<1> DEFINE S == b.size
           x == p[n]
           s == p[0]
           y == Onward(S, x, len)
<1>1. S \in Nat /\ Aligned(S) /\ b.max \in Nat /\ S > 0 /\ len \in Nat
  BY DEF Sized, Header
<1>2. /\ n \in Nat /\ x \in Nat /\ s \in Nat /\ s < S
      /\ Place(S, s, x) /\ Place(S, s, s) /\ s <= x
  <2>1. n \in Nat
    BY <1>1, LaidIs
  <2>2. n \in 0 .. n /\ 0 \in 0 .. n
    BY <2>1
  <2> QED
    BY <1>1, <2>1, <2>2, LaidIs
<1>3. Ending(x, len) <= s + S /\ (x < S => Ending(x, len) <= S)
  OBVIOUS
<1> HIDE DEF S, x, s
<1>4. /\ y \in Nat /\ Place(S, s, y) /\ x + Header + len <= y /\ s < y
      /\ After(b, Spot(S, x), len) = Spot(S, y)
  BY <1>1, <1>2, <1>3, OnwardIs DEF S
<1>5. Leads(S, b.max, [len |-> len, flags |-> {}], x, y)
  BY <1>3 DEF Leads, Marks, Onward
<1> HIDE DEF y
<1>6. Spot(S, y) = s <=> y = s + S
  BY <1>1, <1>2, <1>4 DEF Place, Spot
<1>7. {} \in SUBSET ItemFlags
  OBVIOUS
<1>8. LET new == Put(hdr, Part(Spot(S, x), len, {}))
      IN  /\ new \in [Cells(S) -> Heads]
          /\ Laid(S, b.max, new, n + 1, More(p, n, y))
          /\ new[Spot(S, x)] = [len |-> len, flags |-> {}]
          /\ \A i \in 0 .. n - 1 : new[Spot(S, p[i])] = hdr[Spot(S, p[i])]
  <2>1. Place(S, p[0], y) /\ p[n] + Header + len <= y
        /\ Leads(S, b.max, [len |-> len, flags |-> {}], p[n], y)
    BY <1>4, <1>5 DEF s, x
  <2>2. hdr \in [Cells(S) -> Heads] /\ Laid(S, b.max, hdr, n, p)
    BY DEF S
  <2> DEFINE new == Put(hdr, Part(Spot(S, p[n]), len, {}))
  <2>3. /\ new \in [Cells(S) -> Heads]
        /\ Laid(S, b.max, new, n + 1, More(p, n, y))
        /\ new[Spot(S, p[n])] = [len |-> len, flags |-> {}]
        /\ \A i \in 0 .. n - 1 : new[Spot(S, p[i])] = hdr[Spot(S, p[i])]
    BY <1>1, <1>4, <1>7, <2>1, <2>2, LaidGrows
  <2> QED
    BY <2>3 DEF x
<1> QED
  BY <1>4, <1>6, <1>8 DEF S, x, s, y, Stored

(* The first part of a layout of two, which goes up to the tail.           *)
LEMMA FirstPut ==
    ASSUME NEW b, Sized(b), NEW hdr \in [Cells(b.size) -> Heads], NEW n, NEW p,
           Laid(b.size, b.max, hdr, n, p), p[n] < b.size,
           NEW len \in 0 .. b.max, NEW flags,
           \/ flags = {"DUMMY"} /\ len = 0
           \/ flags = {"SPLIT"} /\ 0 < p[n] /\ Ending(p[n], len) = b.size
    PROVE  LET off == Spot(b.size, p[n])
               new == Put(hdr, Part(off, len, flags))
           IN  Stored(b.size, b.max, hdr, n, p, len, flags, b.size, new)
<1> DEFINE S == b.size
           x == p[n]
<1>1. S \in Nat /\ Aligned(S) /\ b.max \in Nat /\ S >= 16 /\ len \in Nat
  BY DEF Sized, Header
<1>2. n \in Nat /\ x \in Nat /\ p[0] \in Nat /\ Place(S, p[0], x)
  <2>1. n \in Nat
    BY <1>1, LaidIs
  <2>2. n \in 0 .. n /\ 0 \in 0 .. n
    BY <2>1
  <2> QED
    BY <1>1, <2>1, <2>2, LaidIs
<1>3. Align(len) \in Nat /\ len <= Align(len)
  BY <1>1, AlignIs
<1>4. x < S
  OBVIOUS
<1> HIDE DEF S, x
<1>5. x + Header + len <= S
  <2>1. CASE flags = {"DUMMY"} /\ len = 0
    BY <1>1, <1>2, <1>4, <2>1 DEF Place, Spot, Header
  <2>2. CASE flags = {"SPLIT"} /\ 0 < p[n] /\ Ending(p[n], len) = b.size
    <3>1. x + Header + Align(len) = S
      BY <2>2 DEF Ending, x, S
    <3> QED
      BY <1>1, <1>2, <1>3, <3>1 DEF Header
  <2> QED
    BY <2>1, <2>2
<1>6. Place(S, p[0], S)
  BY <1>1, <1>2 DEF Place, Spot, Header
<1>7. flags \in SUBSET ItemFlags
  BY DEF ItemFlags
<1>8. Leads(S, b.max, [len |-> len, flags |-> flags], x, S)
  <2>1. CASE flags = {"DUMMY"} /\ len = 0
    BY <1>1, <1>4, <2>1 DEF Leads, Marks
  <2>2. CASE flags = {"SPLIT"} /\ 0 < p[n] /\ Ending(p[n], len) = b.size
    <3>1. Ending(x, len) = S /\ 0 < x
      BY <2>2 DEF x, S
    <3>2. Ending(x, len) <= S /\ Ending(x, len) + Header > S
      BY <1>1, <3>1 DEF Header
    <3> QED
      BY <1>4, <2>2, <3>1, <3>2 DEF Leads, Marks
  <2> QED
    BY <2>1, <2>2
<1>9. p[n] + Header + len <= S /\ Leads(S, b.max, [len |-> len, flags |-> flags], p[n], S)
  BY <1>5, <1>8 DEF x
<1>10. hdr \in [Cells(S) -> Heads] /\ Laid(S, b.max, hdr, n, p)
  BY DEF S
<1> QED
  BY <1>1, <1>6, <1>7, <1>9, <1>10, LaidGrows DEF S, Stored

(* What a send adds behind the headers that were there.                    *)
Grown(b, b2, n, d, p, n2, d2, p2) ==
    /\ n2 \in {n + 1, n + 2}
    /\ \A i \in 0 .. n : p2[i] = p[i]
    /\ \A i \in 0 .. n - 1 : At(b2, p2, i) = At(b, p, i)
    /\ \A i \in n .. n2 - 1 :
         /\ At(b2, p2, i).flags # {"FREE"}
         /\ At(b2, p2, i).flags = {"DUMMY"} <=> i = d2
         /\ At(b2, p2, i).flags = {"SPLIT"} => i + 1 < n2
    /\ \/ d < n /\ d2 = d
       \/ d = n /\ d2 = n2
       \/ d = n /\ d2 = n /\ n2 = n + 2

(* The items among what a send adds.                                       *)
Fresh(n, d, n2, d2) == n2 - n - (IF d = n /\ d2 = n THEN 1 ELSE 0)

(* A buffer whose headers grew that way is a buffer whose headers can be   *)
(* unrolled.                                                               *)
LEMMA GrownIs ==
    ASSUME NEW b, NEW n, NEW r, NEW d, NEW p, Sized(b), Chained(b, n, r, d, p),
           ~b.full,
           NEW hdr \in [Cells(b.size) -> Heads], NEW write \in Nat, NEW waiting,
           NEW b2, Copied(b, b2, hdr, write, waiting),
           NEW n2, NEW d2, NEW p2, Laid(b.size, b.max, hdr, n2, p2),
           Spot(b.size, p2[n2]) = write, write = p[0] <=> p2[n2] = p[0] + b.size,
           Grown(b, b2, n, d, p, n2, d2, p2),
           waiting = b.waiting + Fresh(n, d, n2, d2)
    PROVE  Sized(b2) /\ Chained(b2, n2, r, d2, p2)
<1>1. /\ n \in Nat /\ r \in 0 .. n /\ d \in 0 .. n
      /\ n2 \in Nat /\ n <= n2
      /\ b.waiting = n - r - (IF r <= d /\ d < n THEN 1 ELSE 0)
  BY AllRead DEF Grown, Chained, Read
<1>2. waiting \in Nat /\ waiting = n2 - r - (IF r <= d2 /\ d2 < n2 THEN 1 ELSE 0)
  BY <1>1 DEF Grown, Fresh
<1>3. Sized(b2)
  BY <1>2 DEF Copied, Sized
<1>4. Linked(b2, n2, p2)
  <2>1. p2[0] = p[0] /\ p[0] = b.free
    BY <1>1 DEF Grown, Chained, Linked
  <2> QED
    BY <2>1 DEF Linked, Copied
<1>5. Marked(b2, n2, d2, p2)
  <2>1. d2 \in 0 .. n2 /\ (d2 < n2 => d2 + 1 < n2)
    BY <1>1 DEF Grown, Chained, Marked
  <2>2. ASSUME NEW i \in 0 .. n2 - 1
        PROVE  /\ At(b2, p2, i).flags = {"DUMMY"} <=> i = d2
               /\ At(b2, p2, i).flags = {"SPLIT"} => i + 1 < n2
    <3>1. CASE i \in 0 .. n - 1
      <4>1. At(b2, p2, i) = At(b, p, i)
        BY <3>1 DEF Grown
      <4>2. At(b, p, i).flags = {"DUMMY"} <=> i = d
        BY <3>1 DEF Chained, Marked
      <4>3. At(b, p, i).flags = {"SPLIT"} => i + 1 < n
        BY <3>1 DEF Chained, Marked
      <4>4. i = d <=> i = d2
        BY <1>1, <3>1 DEF Grown
      <4> QED
        BY <1>1, <4>1, <4>2, <4>3, <4>4
    <3>2. CASE i \in n .. n2 - 1
      BY <3>2 DEF Grown
    <3> QED
      BY <1>1, <3>1, <3>2
  <2> QED
    BY <2>1, <2>2 DEF Marked
<1>6. Read(b2, n2, r, d2, p2)
  <2>1. r \in 0 .. n2 /\ (d2 < n2 => r # d2 + 1)
    BY <1>1 DEF Grown, Chained, Read
  <2>2. Spot(b2.size, p2[r]) = b2.read
    BY <1>1 DEF Grown, Chained, Read, Copied
  <2>3. b2.waiting = n2 - r - (IF r <= d2 /\ d2 < n2 THEN 1 ELSE 0)
    BY <1>2 DEF Copied
  <2>4. ASSUME NEW i \in r .. n2 - 1 PROVE At(b2, p2, i).flags # {"FREE"}
    <3>1. CASE i \in r .. n - 1
      <4>1. i \in 0 .. n - 1
        BY <1>1, <3>1
      <4> QED
        BY <3>1, <4>1 DEF Grown, Chained, Read
    <3>2. CASE i \in n .. n2 - 1
      BY <3>2 DEF Grown
    <3> QED
      BY <1>1, <3>1, <3>2
  <2> QED
    BY <2>1, <2>2, <2>3, <2>4 DEF Read
<1>7. Laid(b2.size, b2.max, b2.hdr, n2, p2)
  BY DEF Copied
<1> QED
  BY <1>3, <1>4, <1>5, <1>6, <1>7 DEF Chained

(* An item that fits is added to the headers.                              *)
LEMMA SendAdds ==
    ASSUME NEW b, NEW n, NEW r, NEW d, NEW p, Sized(b), Chained(b, n, r, d, p),
           NEW len \in 0 .. b.max, CheckItemFits(b, len)
    PROVE  /\ Sized(CopyItem(b, len))
           /\ \E n2, d2, p2 : /\ Chained(CopyItem(b, len), n2, r, d2, p2)
                              /\ Grown(b, CopyItem(b, len), n, d, p, n2, d2, p2)
<1> DEFINE S == b.size
           b2 == CopyItem(b, len)
<1>1. /\ S \in Nat /\ Aligned(S) /\ S > 0 /\ b.max \in Nat /\ len \in Nat
      /\ b.hdr \in [Cells(S) -> Heads]
      /\ Laid(S, b.max, b.hdr, n, p) /\ Linked(b, n, p)
  BY DEF Sized, Chained, Header
<1>2. n \in Nat /\ d \in 0 .. n /\ b.waiting \in Nat
  BY AllRead DEF Sized
<1>3. /\ ~b.full
      /\ Straight(b, n, p, len) \/ Behind(b, n, p, len) \/ Cut(b, n, p, len)
  BY <1>1, FitsSomehow
<1>4. /\ Spot(S, p[n]) = b.write /\ p[0] = b.free
      /\ \A i \in 0 .. n : p[i] \in Nat
      /\ p[0] \in Nat
  BY <1>1, LaidIs DEF Linked
<1>6. CASE Straight(b, n, p, len)
  <2> DEFINE part == Part(b.write, len, {})
             hdr == Put(b.hdr, part)
             y == Onward(S, p[n], len)
             n2 == n + 1
             d2 == IF d < n THEN d ELSE n2
             p2 == More(p, n, y)
             layout == <<part>>
             write == After(b, part.off, part.len)
  <2>1. layout[1] = part /\ layout[Len(layout)] = part
        /\ {i \in DOMAIN layout : "DUMMY" \notin layout[i].flags} = {1}
    BY DEF Part
  <2>2. Cardinality({1}) = 1
    BY FS_Singleton
  <2>3. Copied(b, b2, Put(Put(b.hdr, part), part), write, b.waiting + 1)
    <3>1. Layout(b, len) = layout
      BY <1>6 DEF Straight
    <3> HIDE DEF layout, part, b2
    <3> QED
      BY <2>1, <2>2, <3>1, CopyIs DEF b2
  <2>4. Copied(b, b2, hdr, write, b.waiting + 1)
    BY <2>3, PutTwice
  <2>5. /\ hdr \in [Cells(S) -> Heads]
        /\ Laid(S, b.max, hdr, n2, p2)
        /\ hdr[Spot(S, p[n])] = [len |-> len, flags |-> {}]
        /\ \A i \in 0 .. n - 1 : hdr[Spot(S, p[i])] = b.hdr[Spot(S, p[i])]
        /\ y \in Nat /\ write = Spot(S, y)
        /\ write = p[0] <=> y = p[0] + S
    <3>1. /\ part = Part(Spot(S, p[n]), len, {})
          /\ write = After(b, Spot(S, p[n]), len)
      BY <1>4 DEF Part
    <3>2. Ending(p[n], len) <= p[0] + S /\ (p[n] < S => Ending(p[n], len) <= S)
      BY <1>6 DEF Straight
    <3> HIDE DEF part, write
    <3>3. /\ Stored(S, b.max, b.hdr, n, p, len, {}, y, hdr)
          /\ y \in Nat /\ write = Spot(S, y)
          /\ write = p[0] <=> y = p[0] + S
      BY <1>1, <3>1, <3>2, LastPut
    <3> HIDE DEF y, hdr
    <3> QED
      BY <3>3 DEF Stored
  <2> HIDE DEF hdr, write, y, b2, part
  <2>6. b2.size = S /\ b2.hdr = hdr
    BY <2>4 DEF Copied
  <2>7. (\A i \in 0 .. n : p2[i] = p[i]) /\ p2[n2] = y
    BY <1>2 DEF More
  <2> HIDE DEF p2
  <2>8. \A i \in 0 .. n - 1 : At(b2, p2, i) = At(b, p, i)
    <3> TAKE i \in 0 .. n - 1
    <3>1. i \in 0 .. n
      BY <1>2
    <3> QED
      BY <2>5, <2>6, <2>7, <3>1 DEF At
  <2>9. At(b2, p2, n).flags = {}
    BY <1>2, <2>5, <2>6, <2>7 DEF At
  <2>10. Grown(b, b2, n, d, p, n2, d2, p2)
    BY <1>2, <2>7, <2>8, <2>9 DEF Grown
  <2>11. write \in Nat
    BY <1>1, <1>2, <1>4, <2>5, <2>7, LaidIs
  <2>12. b.waiting + 1 = b.waiting + Fresh(n, d, n2, d2)
    BY <1>2 DEF Fresh
  <2> HIDE DEF n2, d2
  <2>13. Sized(b2) /\ Chained(b2, n2, r, d2, p2)
    BY <1>3, <2>4, <2>5, <2>7, <2>10, <2>11, <2>12, GrownIs
  <2> QED
    BY <2>10, <2>13 DEF b2
<1>7. ASSUME NEW l1 \in 0 .. b.max, NEW f, NEW l2 \in 0 .. b.max, NEW c, NEW d2,
             Layout(b, len) = <<Part(b.write, l1, f), Part(0, l2, {})>>,
             p[n] < S, Ending(S, l2) <= p[0] + S,
             \/ f = {"DUMMY"} /\ l1 = 0 /\ c = 1 /\ d2 = n
             \/ /\ f = {"SPLIT"} /\ 0 < p[n] /\ Ending(p[n], l1) = S
                /\ c = 2 /\ d2 = n + 2
      PROVE  /\ Sized(b2)
             /\ \E n2, p2 : /\ Chained(b2, n2, r, d2, p2)
                            /\ Grown(b, b2, n, d, p, n2, d2, p2)
  <2> DEFINE one == Part(b.write, l1, f)
             two == Part(0, l2, {})
             mid == Put(b.hdr, one)
             hdr == Put(mid, two)
             pm == More(p, n, S)
             y == Onward(S, S, l2)
             n2 == n + 2
             p2 == More(pm, n + 1, y)
             layout == <<one, two>>
             write == After(b, two.off, two.len)
  <2>0. d = n
    <3> SUFFICES ASSUME d < n PROVE FALSE
      BY <1>2
    <3>1. d \in 0 .. n - 1 /\ d + 1 \in 0 .. n
      BY <1>2
    <3>2. At(b, p, d).flags = {"DUMMY"}
      BY <3>1 DEF Chained, Marked
    <3>3. p[d + 1] = S
      BY <3>1, <3>2, FlagsAre DEF Leads
    <3>4. p[d + 1] <= p[n] /\ p[n] < S
      BY <1>1, <1>7, <3>1, LaidIs
    <3> QED
      BY <1>1, <1>2, <1>4, <3>3, <3>4
  <2>1. layout[1] = one /\ layout[Len(layout)] = two
    OBVIOUS
  <2>2. Cardinality({i \in DOMAIN layout : "DUMMY" \notin layout[i].flags}) = c
    <3>1. DOMAIN layout = {1, 2} /\ layout[1].flags = f /\ layout[2].flags = {}
      BY DEF Part
    <3> HIDE DEF layout
    <3>2. CASE f = {"DUMMY"} /\ c = 1
      <4>1. {i \in DOMAIN layout : "DUMMY" \notin layout[i].flags} = {2}
        BY <3>1, <3>2
      <4> QED
        BY <3>2, <4>1, FS_Singleton
    <3>3. CASE f = {"SPLIT"} /\ c = 2
      <4>1. {i \in DOMAIN layout : "DUMMY" \notin layout[i].flags} = 1 .. 2
        BY <3>1, <3>3
      <4>2. Cardinality(1 .. 2) = 2
        <5> DEFINE low == 1
                   high == 2
        <5>1. low \in Int /\ high \in Int /\ ~(low > high) /\ high - low + 1 = 2
          OBVIOUS
        <5> HIDE DEF low, high
        <5>2. Cardinality(low .. high) = 2
          BY <5>1, FS_Interval
        <5> QED
          BY <5>2 DEF low, high
      <4> QED
        BY <3>3, <4>1, <4>2
    <3> QED
      BY <1>7, <3>2, <3>3
  <2>3. Copied(b, b2, hdr, write, b.waiting + c)
    <3>1. Layout(b, len) = layout
      BY <1>7
    <3> HIDE DEF layout, one, two, b2
    <3> QED
      BY <2>1, <2>2, <3>1, CopyIs DEF b2
  <2>4. /\ mid \in [Cells(S) -> Heads]
        /\ Laid(S, b.max, mid, n + 1, pm)
        /\ mid[Spot(S, p[n])] = [len |-> l1, flags |-> f]
        /\ \A i \in 0 .. n - 1 : mid[Spot(S, p[i])] = b.hdr[Spot(S, p[i])]
    <3>1. one = Part(Spot(S, p[n]), l1, f)
      BY <1>4
    <3> HIDE DEF one
    <3>2. \/ f = {"DUMMY"} /\ l1 = 0
          \/ f = {"SPLIT"} /\ 0 < p[n] /\ Ending(p[n], l1) = S
      BY <1>7
    <3>3. Stored(S, b.max, b.hdr, n, p, l1, f, S, mid)
      BY <1>1, <1>7, <3>1, <3>2, FirstPut
    <3> HIDE DEF mid
    <3> QED
      BY <3>3 DEF Stored
  <2>5. (\A i \in 0 .. n : pm[i] = p[i]) /\ pm[n + 1] = S
    BY <1>2 DEF More
  <2> HIDE DEF mid, pm
  <2>6. Spot(S, pm[n + 1]) = 0
    BY <1>1, <2>5 DEF Spot
  <2> DEFINE m == n + 1
  <2>7. m \in Nat /\ m + 1 = n2 /\ pm[0] = p[0]
    BY <1>2, <2>5
  <2>8. /\ hdr \in [Cells(S) -> Heads]
        /\ Laid(S, b.max, hdr, m + 1, p2)
        /\ hdr[Spot(S, pm[m])] = [len |-> l2, flags |-> {}]
        /\ \A i \in 0 .. m - 1 : hdr[Spot(S, pm[i])] = mid[Spot(S, pm[i])]
        /\ y \in Nat /\ write = Spot(S, y)
        /\ write = p[0] <=> y = p[0] + S
    <3>1. pm[m] = S /\ Spot(S, pm[m]) = 0
      BY <2>5, <2>6
    <3>2. Ending(pm[m], l2) <= pm[0] + S /\ ~(pm[m] < S)
      BY <1>1, <1>7, <2>7, <3>1
    <3>3. Laid(S, b.max, mid, m, pm)
      BY <2>4
    <3>4. p2 = More(pm, m, y) /\ y = Onward(S, pm[m], l2) /\ two = Part(Spot(S, pm[m]), l2, {})
          /\ two.off = Spot(S, pm[m]) /\ two.len = l2
      BY <3>1 DEF Part
    <3>5. write = After(b, Spot(S, pm[m]), l2)
      BY <3>4
    <3> HIDE DEF m, p2, two, y, write
    <3>6. /\ Stored(S, b.max, mid, m, pm, l2, {}, y, hdr)
          /\ y \in Nat /\ write = Spot(S, y)
          /\ write = pm[0] <=> y = pm[0] + S
      BY <1>7, <2>4, <3>2, <3>3, <3>4, <3>5, LastPut
    <3> HIDE DEF hdr
    <3> QED
      BY <2>7, <3>4, <3>6 DEF Stored
  <2> HIDE DEF hdr, write, y, b2, one, two
  <2>9. b2.size = S /\ b2.hdr = hdr
    BY <2>3 DEF Copied
  <2>10. (\A i \in 0 .. m : p2[i] = pm[i]) /\ p2[n2] = y
    BY <2>7 DEF More
  <2>11. \A i \in 0 .. n : p2[i] = p[i]
    BY <1>2, <2>5, <2>10
  <2> HIDE DEF p2
  <2>12. \A i \in 0 .. n - 1 : At(b2, p2, i) = At(b, p, i)
    <3> TAKE i \in 0 .. n - 1
    <3>1. i \in 0 .. n /\ i \in 0 .. m - 1
      BY <1>2
    <3>2. hdr[Spot(S, p[i])] = mid[Spot(S, p[i])]
      BY <2>5, <2>8, <3>1
    <3> QED
      BY <2>4, <2>9, <2>11, <3>1, <3>2 DEF At
  <2>13. At(b2, p2, n).flags = f
    <3>1. n \in 0 .. n /\ n \in 0 .. m - 1
      BY <1>2
    <3>2. hdr[Spot(S, p[n])] = mid[Spot(S, p[n])]
      BY <2>5, <2>8, <3>1
    <3> QED
      BY <2>4, <2>9, <2>11, <3>1, <3>2 DEF At
  <2>14. At(b2, p2, n + 1).flags = {}
    BY <1>2, <2>7, <2>8, <2>9, <2>10 DEF At
  <2>15. Grown(b, b2, n, d, p, n2, d2, p2)
    <3>1. /\ At(b2, p2, n).flags # {"FREE"} /\ At(b2, p2, n + 1).flags = {}
          /\ At(b2, p2, n).flags = {"DUMMY"} <=> n = d2
          /\ d2 # n + 1 /\ d = n /\ d2 \in {n, n2}
      BY <1>2, <1>7, <2>0, <2>13, <2>14
    <3>2. \A i \in n .. n2 - 1 : i = n \/ i = n + 1
      BY <1>2
    <3>3. ASSUME NEW i \in n .. n2 - 1
          PROVE  /\ At(b2, p2, i).flags # {"FREE"}
                 /\ At(b2, p2, i).flags = {"DUMMY"} <=> i = d2
                 /\ At(b2, p2, i).flags = {"SPLIT"} => i + 1 < n2
      <4>1. CASE i = n
        BY <1>2, <3>1, <4>1
      <4>2. CASE i = n + 1
        BY <3>1, <4>2
      <4> QED
        BY <3>2, <4>1, <4>2
    <3>4. /\ n2 \in {n + 1, n + 2} /\ d = n
          /\ d2 = n2 \/ (d2 = n /\ n2 = n + 2)
      BY <1>2, <3>1
    <3> HIDE DEF n2
    <3> QED
      BY <2>11, <2>12, <3>3, <3>4 DEF Grown
  <2>16. write \in Nat
    BY <1>1, <2>7, <2>8, <2>10, LaidIs
  <2>17. b.waiting + c = b.waiting + Fresh(n, d, n2, d2)
    BY <1>2, <1>7, <2>0 DEF Fresh
  <2>18. Laid(S, b.max, hdr, n2, p2)
    BY <2>7, <2>8
  <2> HIDE DEF n2, m
  <2>19. Sized(b2) /\ Chained(b2, n2, r, d2, p2)
    BY <1>3, <2>3, <2>8, <2>10, <2>15, <2>16, <2>17, <2>18, GrownIs
  <2> QED
    BY <2>15, <2>19 DEF b2
<1>8. CASE Behind(b, n, p, len)
  <2>1. 0 \in 0 .. b.max
    BY <1>1
  <2> QED
    BY <1>7, <1>8, <2>1 DEF Behind
<1>9. CASE Cut(b, n, p, len)
  <2> DEFINE rest == b.size - b.write - Header
  <2>0. p[n] \in Nat
    BY <1>2, <1>4
  <2>1. b.write = p[n] /\ b.write \in Nat
    BY <1>1, <1>4, <1>9, <2>0 DEF Cut, Spot
  <2>2. rest \in Nat /\ Align(rest) = rest
    BY <1>1, <1>9, AlignIs DEF Cut
  <2>3. Ending(p[n], rest) = S
    BY <1>1, <2>1, <2>2 DEF Ending, Header
  <2>4. /\ rest \in 0 .. b.max /\ len - rest \in 0 .. b.max
        /\ Layout(b, len) = <<Part(b.write, rest, {"SPLIT"}), Part(0, len - rest, {})>>
        /\ p[n] < S /\ 0 < p[n] /\ Ending(S, len - rest) <= p[0] + S
    BY <1>1, <1>9 DEF Cut
  <2> DEFINE l2 == len - rest
             d2 == n + 2
  <2> HIDE DEF rest, l2, b2
  <2>5. /\ Sized(b2)
        /\ \E n2, p2 : /\ Chained(b2, n2, r, d2, p2)
                       /\ Grown(b, b2, n, d, p, n2, d2, p2)
    BY <1>7, <2>3, <2>4 DEF l2
  <2> QED
    BY <2>5 DEF b2
<1> QED
  BY <1>3, <1>6, <1>8, <1>9

------------------------------------------------------------------------------
(* Receiving                                                               *)

(* The item under header i.                                                *)
Piece(b, p, i) == Part(Spot(b.size, p[i]), At(b, p, i).len, At(b, p, i).flags)

(* The headers of a buffer follow each other.                              *)
LEMMA NextIs ==
    ASSUME NEW b, NEW n, NEW r, NEW d, NEW p, Sized(b), Chained(b, n, r, d, p),
           NEW i \in 0 .. n - 1
    PROVE  /\ Spot(b.size, p[i]) \in DOMAIN b.hdr
           /\ Follower(b)[Spot(b.size, p[i])] = Spot(b.size, p[i + 1])
<1>0. /\ b.size \in Nat /\ Aligned(b.size) /\ b.max \in Nat
      /\ b.hdr \in [Cells(b.size) -> Heads]
      /\ Laid(b.size, b.max, b.hdr, n, p)
  BY DEF Sized, Chained
<1>1. Follower(b)[Spot(b.size, p[i])] = Spot(b.size, p[i + 1])
  BY <1>0, FollowerIsNext
<1>2. Spot(b.size, p[i]) \in DOMAIN b.hdr
  <2>1. i \in 0 .. n
    BY AllRead
  <2> QED
    BY <1>0, <2>1, LaidIs
<1> QED
  BY <1>1, <1>2

(* Only the read pointer and the count moved.                              *)
Moved(b, b2) ==
    /\ b2.kind = b.kind /\ b2.size = b.size /\ b2.max = b.max
    /\ b2.write = b.write /\ b2.free = b.free /\ b2.full = b.full
    /\ b2.hdr = b.hdr

(* The header that a get takes: the next one that is no dummy.             *)
Next1(r, d, j) == j # d /\ (j = r \/ (r = d /\ j = r + 1))

(* prvGetItemDefault takes the next item, and the read pointer passes the  *)
(* dummy before it.                                                        *)
LEMMA GetTakes ==
    ASSUME NEW b, NEW n, NEW r, NEW d, NEW p, Sized(b), Chained(b, n, r, d, p),
           b.waiting > 0
    PROVE  \E j \in r .. n - 1 :
             /\ Next1(r, d, j)
             /\ GetItemDefault(b).item = Piece(b, p, j)
             /\ Moved(b, GetItemDefault(b).rb)
             /\ GetItemDefault(b).rb.waiting = b.waiting - 1
             /\ GetItemDefault(b).rb.read = Spot(b.size, p[j + 1])
             /\ Sized(GetItemDefault(b).rb)
             /\ Chained(GetItemDefault(b).rb, n, j + 1, d, p)
<1> DEFINE S == b.size
           j == IF r = d THEN r + 1 ELSE r
           at == IF "DUMMY" \in b.hdr[b.read].flags THEN 0 ELSE b.read
           h == b.hdr[at]
           read == After(b, at, h.len)
           b2 == [b EXCEPT !.waiting = @ - 1, !.read = read]
<1>1. /\ S \in Nat /\ Aligned(S) /\ S > 0 /\ b.max \in Nat /\ b.waiting \in Nat
      /\ b.hdr \in [Cells(S) -> Heads] /\ Laid(S, b.max, b.hdr, n, p)
  BY DEF Sized, Chained, Header
<1>2. n \in Nat /\ r \in 0 .. n /\ d \in 0 .. n /\ r < n
  BY AllRead
<1>3. /\ d < n => d + 1 < n /\ r # d + 1
      /\ Spot(S, p[r]) = b.read
      /\ b.waiting = n - r - (IF r <= d /\ d < n THEN 1 ELSE 0)
  BY DEF Chained, Marked, Read
<1>4. j \in r .. n - 1 /\ Next1(r, d, j) /\ j \in 0 .. n - 1
  BY <1>2, <1>3 DEF Next1
<1>5. at = Spot(S, p[j])
  <2>0. r \in 0 .. n - 1
    BY <1>2
  <2>1. b.hdr[b.read] = At(b, p, r)
    BY <1>3 DEF At
  <2>2. "DUMMY" \in At(b, p, r).flags <=> r = d
    BY <2>0, FlagsAre DEF Chained, Marked
  <2>3. CASE r # d
    BY <1>3, <2>1, <2>2, <2>3
  <2>4. CASE r = d
    <3>1. p[r + 1] = S
      <4>1. At(b, p, r).flags = {"DUMMY"}
        BY <2>0, <2>4 DEF Chained, Marked
      <4> QED
        BY <2>0, <4>1, FlagsAre DEF Leads
    <3>2. Spot(S, p[j]) = 0
      BY <1>1, <2>4, <3>1 DEF Spot
    <3> QED
      BY <2>1, <2>2, <2>4, <3>2
  <2> QED
    BY <2>3, <2>4
<1>6. h = At(b, p, j)
  BY <1>5 DEF At
<1> HIDE DEF j, at, h
<1>7. /\ "DUMMY" \notin h.flags /\ h.len \in Nat
  <2>1. At(b, p, j).flags # {"DUMMY"}
    BY <1>4 DEF Chained, Marked, Next1
  <2> QED
    BY <1>4, <1>6, <2>1, FlagsAre
<1>8. read = Spot(S, p[j + 1])
  <2>1. Follower(b)[Spot(S, p[j])] = Spot(S, p[j + 1]) /\ Spot(S, p[j]) \in DOMAIN b.hdr
    <3>1. j \in 0 .. n - 1
      BY <1>4
    <3> HIDE DEF j
    <3> QED
      BY <3>1, NextIs
  <2>2. b.hdr[Spot(S, p[j])] = h
    BY <1>6 DEF At
  <2>3. Follower(b)[Spot(S, p[j])] = After(b, Spot(S, p[j]), h.len)
    BY <1>7, <2>1, <2>2 DEF Follower
  <2> QED
    BY <1>5, <2>1, <2>3
<1>9. j + 1 \in 0 .. n
  BY <1>4, <1>2
<1>10. read \in Nat
  BY <1>1, <1>8, <1>9, LaidIs
<1>11. GetItemDefault(b).rb = b2 /\ GetItemDefault(b).item = Part(at, h.len, h.flags)
  BY DEF GetItemDefault, at, h
<1>12. GetItemDefault(b).item = Piece(b, p, j)
  BY <1>5, <1>6, <1>11 DEF Piece
<1>13. b.waiting - 1 \in Nat
  BY <1>1
<1> HIDE DEF read
<1>14. Moved(b, b2) /\ b2.waiting = b.waiting - 1 /\ b2.read = read
       /\ Sized(b2)
  <2>1. b \in [kind : Kinds, size : Nat, max : Nat, write : Nat, read : Nat,
               free : Nat, full : BOOLEAN, waiting : Nat,
               hdr : [Cells(b.size) -> Heads]]
    BY DEF Sized
  <2> DEFINE w == b.waiting - 1
  <2>2. w \in Nat /\ b2 = [b EXCEPT !.waiting = w, !.read = read]
    BY <1>13
  <2> HIDE DEF w, b2
  <2>3. Moved(b, b2) /\ b2.waiting = w /\ b2.read = read
    BY <2>1, <2>2 DEF Moved
  <2>4. b2 \in [kind : Kinds, size : Nat, max : Nat, write : Nat, read : Nat,
                free : Nat, full : BOOLEAN, waiting : Nat,
                hdr : [Cells(b.size) -> Heads]]
    BY <1>10, <2>1, <2>2
  <2>5. Sized(b2)
    BY <2>3, <2>4 DEF Sized, Moved
  <2> QED
    BY <2>3, <2>5 DEF w
<1> HIDE DEF b2
<1>15. \A i : At(b2, p, i) = At(b, p, i)
  BY <1>14 DEF Moved, At
<1>16. Read(b2, n, j + 1, d, p)
  <2>1. b2.waiting = n - (j + 1) - (IF j + 1 <= d /\ d < n THEN 1 ELSE 0)
    BY <1>2, <1>3, <1>4, <1>14 DEF Next1
  <2>2. d < n => j + 1 # d + 1
    BY <1>2, <1>4 DEF Next1
  <2>3. \A i \in j + 1 .. n - 1 : At(b2, p, i).flags # {"FREE"}
    <3>1. \A i \in j + 1 .. n - 1 : i \in r .. n - 1
      BY <1>2, <1>4
    <3> QED
      BY <1>15, <3>1 DEF Chained, Read
  <2>4. Spot(b2.size, p[j + 1]) = b2.read
    BY <1>8, <1>14 DEF Moved
  <2> QED
    BY <1>9, <2>1, <2>2, <2>3, <2>4 DEF Read
<1>17. Chained(b2, n, j + 1, d, p)
  BY <1>14, <1>15, <1>16 DEF Chained, Moved, Linked, Marked
<1> QED
  BY <1>4, <1>8, <1>11, <1>12, <1>14, <1>17

(* The two halves of a split item are next to each other.                  *)
LEMMA SplitFollows ==
    ASSUME NEW b, NEW n, NEW r, NEW d, NEW p, Sized(b), Chained(b, n, r, d, p),
           NEW j \in 0 .. n - 1, At(b, p, j).flags = {"SPLIT"}
    PROVE  /\ j + 1 \in 0 .. n - 1 /\ j + 1 # d /\ 0 < p[j] /\ p[j] < b.size
           /\ p[j + 1] = b.size
           /\ At(b, p, j + 1).flags \notin {{"SPLIT"}, {"DUMMY"}}
<1>1. n \in Nat /\ b.size \in Nat
  BY AllRead DEF Sized
<1>2. j + 1 \in 0 .. n - 1
  BY <1>1 DEF Chained, Marked
<1>3. 0 < p[j] /\ p[j] < b.size /\ p[j + 1] = b.size
  BY FlagsAre DEF Leads
<1>4. At(b, p, j + 1).flags \notin {{"SPLIT"}, {"DUMMY"}}
  <2> DEFINE i == j + 1
  <2>1. i \in 0 .. n - 1 /\ ~(p[i] < b.size)
    BY <1>1, <1>2, <1>3
  <2> HIDE DEF i
  <2>2. At(b, p, i).flags \notin {{"SPLIT"}, {"DUMMY"}}
    BY <2>1, FlagsAre DEF Leads
  <2> QED
    BY <2>2 DEF i
<1>5. j + 1 # d
  BY <1>2, <1>4 DEF Chained, Marked
<1> QED
  BY <1>2, <1>3, <1>4, <1>5

------------------------------------------------------------------------------
(* Returning                                                               *)

(* A walk stays where its step leads back to.                              *)
LEMMA WalkStays ==
    ASSUME NEW f, NEW q, NEW T \in Nat, NEW m \in 0 .. T, Strides(f, q, m),
           f[q[m]] = q[m]
    PROVE  \A i \in m .. T : Walk(f, q[0], T)[i] = q[m]
<1> DEFINE at == Walk(f, q[0], T)
           x == q[m]
<1>1. \A i \in 0 .. T - 1 : at[i + 1] = f[at[i]]
  BY WalkIs
<1>2. at[m] = x
  <2>1. \A i \in 0 .. m : at[i] = q[i]
    BY WalkFinds
  <2>2. m \in 0 .. m
    OBVIOUS
  <2> QED
    BY <2>1, <2>2
<1>3. f[x] = x
  OBVIOUS
<1> HIDE DEF at, x
<1> SUFFICES ASSUME NEW i \in m .. T PROVE at[i] = x
  BY DEF at, x
<1> DEFINE S == {k \in 0 .. i - m : at[m + k] = x}
<1>4. 0 \in S
  BY <1>2
<1>5. ASSUME NEW k \in 1 .. i - m, k - 1 \in S PROVE k \in S
  <2> DEFINE l == m + (k - 1)
  <2>1. l \in 0 .. T - 1 /\ l + 1 = m + k /\ k \in 0 .. i - m
    OBVIOUS
  <2>2. at[l] = x
    BY <1>5
  <2> HIDE DEF l
  <2>3. at[l + 1] = x
    BY <1>1, <1>3, <2>1, <2>2
  <2> QED
    BY <2>1, <2>3
<1> DEFINE z == i - m
<1>6. z \in Nat /\ m + z = i
  OBVIOUS
<1>7. z \in S
  <2>1. 0 \in S /\ \A k \in 1 .. z : k - 1 \in S => k \in S
    BY <1>4, <1>5
  <2> HIDE DEF S, z
  <2> QED
    BY <1>6, <2>1, CountUp
<1> QED
  BY <1>6, <1>7

(* The free pointer moves over header i.                                   *)
Over(b, p, i) == At(b, p, i).flags \in {{"FREE"}, {"DUMMY"}}

(* The free pointer can move over the first J headers, and no further.     *)
Stops(b, n, p, J) ==
    /\ \A i \in 0 .. J - 1 : Over(b, p, i) /\ Spot(b.size, p[i]) # b.read
    /\ Spot(b.size, p[J]) = b.read \/ (J < n /\ ~Over(b, p, J))

(* The buffer after the free pointer moved.                                *)
Advanced(b, b2, n, p, J) ==
    /\ b2.kind = b.kind /\ b2.size = b.size /\ b2.max = b.max
    /\ b2.write = b.write /\ b2.read = b.read /\ b2.full = b.full
    /\ b2.waiting = b.waiting
    /\ b2.free = Spot(b.size, p[J])
    /\ \A j \in J .. n - 1 : At(b2, p, j) = At(b, p, j)
    /\ Sized(b2)

(* prvReturnItemDefault moves the free pointer over the first J headers    *)
(* when it can move over them and no further; those after them stay as     *)
(* they were.                                                              *)
LEMMA AdvanceIs ==
    ASSUME NEW b, NEW n, NEW r, NEW d, NEW p, Sized(b), Chained(b, n, r, d, p),
           NEW J \in 0 .. r, Stops(b, n, p, J)
    PROVE  Advanced(b, AdvanceFree(b), n, p, J)
<1> DEFINE S == b.size
           T == Turns(b)
           follower == Follower(b)
           passed == {o \in DOMAIN b.hdr :
                       /\ o # b.read
                       /\ b.hdr[o].flags \cap {"FREE", "DUMMY"} # {}}
           step == [o \in DOMAIN b.hdr |-> IF o \in passed THEN follower[o] ELSE o]
           at == Walk(step, b.free, T)
           dummies == {o \in passed : "DUMMY" \in b.hdr[o].flags
                                       /\ \E i \in 0 .. T : at[i] = o}
           q == [i \in 0 .. n |-> Spot(S, p[i])]
           hdr == [o \in DOMAIN b.hdr |->
                    IF o \in dummies
                    THEN [b.hdr[o] EXCEPT !.flags = @ \cup {"FREE"}] ELSE b.hdr[o]]
           free == at[T]
           b2 == [b EXCEPT !.free = free, !.hdr = hdr]
<1>1. /\ S \in Nat /\ Aligned(S) /\ S > 0 /\ b.max \in Nat
      /\ b.hdr \in [Cells(S) -> Heads] /\ Laid(S, b.max, b.hdr, n, p)
      /\ DOMAIN b.hdr = Cells(S)
  BY DEF Sized, Chained, Header
<1>2. n \in Nat /\ r \in 0 .. n /\ J \in 0 .. n
  BY AllRead
<1>3. T \in Nat /\ n \in 0 .. T
  BY ItemsFind
<1>4. AdvanceFree(b) = b2
  BY DEF AdvanceFree
<1>5. q[0] = b.free
  <2>1. p[0] < S /\ p[0] = b.free
    BY <1>1, LaidIs DEF Chained, Linked
  <2> QED
    BY <1>2, <2>1 DEF Spot
<1>6. \A i \in 0 .. n : q[i] \in Cells(S) /\ q[i] = Spot(S, p[i]) /\ q[i] \in Nat
  BY <1>1, LaidIs
<1>7. \A i \in 0 .. n - 1 : b.hdr[q[i]] = At(b, p, i) /\ follower[q[i]] = q[i + 1]
  <2> TAKE i \in 0 .. n - 1
  <2>1. i \in 0 .. n /\ i + 1 \in 0 .. n
    BY <1>2
  <2>2. Follower(b)[Spot(b.size, p[i])] = Spot(b.size, p[i + 1])
    BY NextIs
  <2> QED
    BY <2>1, <2>2 DEF At
<1>8. \A i, j \in 0 .. n : i < j /\ q[i] = q[j] => i = 0 /\ j = n
  BY <1>1, <1>6, SpotsDiffer
<1> HIDE DEF q, follower
<1>9. \A i \in 0 .. n - 1 : q[i] \in passed <=> q[i] # b.read /\ Over(b, p, i)
  <2> TAKE i \in 0 .. n - 1
  <2>1. At(b, p, i).flags \in Marks
    BY FlagsAre
  <2>2. At(b, p, i).flags \cap {"FREE", "DUMMY"} # {} <=> Over(b, p, i)
    BY <2>1 DEF Marks, Over
  <2>3. i \in 0 .. n
    BY <1>2
  <2> QED
    BY <1>1, <1>6, <1>7, <2>2, <2>3
<1>10. Strides(step, q, J) /\ q[J] \notin passed
  <2>1. ASSUME NEW i \in 0 .. J - 1 PROVE step[q[i]] = q[i + 1]
    <3>1. i \in 0 .. n /\ i \in 0 .. n - 1
      BY <1>2
    <3>2. q[i] \in passed
      BY <1>6, <1>9, <3>1 DEF Stops
    <3> HIDE DEF passed
    <3> QED
      BY <1>1, <1>6, <1>7, <3>1, <3>2
  <2>2. q[J] \notin passed
    <3>1. CASE Spot(S, p[J]) = b.read
      BY <1>2, <1>6, <3>1
    <3>2. CASE J < n /\ ~Over(b, p, J)
      <4>1. J \in 0 .. n - 1
        BY <1>2, <3>2
      <4> HIDE DEF passed
      <4> QED
        BY <1>9, <3>2, <4>1
    <3> QED
      BY <3>1, <3>2 DEF Stops
  <2> QED
    BY <2>1, <2>2 DEF Strides
<1> HIDE DEF passed
<1>11. step[q[J]] = q[J]
  BY <1>1, <1>2, <1>6, <1>10
<1>12. J \in 0 .. T
  BY <1>2, <1>3
<1> HIDE DEF step, T
<1>13. /\ \A i \in 0 .. J : at[i] = q[i]
       /\ \A i \in J .. T : at[i] = q[J]
  <2>1. \A i \in 0 .. J : Walk(step, q[0], T)[i] = q[i]
    BY <1>3, <1>10, <1>12, WalkFinds
  <2>2. \A i \in J .. T : Walk(step, q[0], T)[i] = q[J]
    BY <1>3, <1>10, <1>11, <1>12, WalkStays
  <2> QED
    BY <1>5, <2>1, <2>2
<1> HIDE DEF at
<1>14. free = q[J]
  BY <1>3, <1>12, <1>13
<1>15. \A j \in J .. n - 1 : q[j] \notin dummies
  <2> SUFFICES ASSUME NEW j \in J .. n - 1, q[j] \in dummies PROVE FALSE
    OBVIOUS
  <2>1. PICK i \in 0 .. T : at[i] = q[j] /\ q[j] \in passed
    OBVIOUS
  <2>2. j \in 0 .. n /\ j # n
    BY <1>2
  <2>3. CASE i \in 0 .. J - 1
    <3>1. i \in 0 .. J /\ i \in 0 .. n /\ i < j
      BY <1>2, <2>3
    <3> QED
      BY <1>8, <1>13, <2>1, <2>2, <3>1
  <2>4. CASE i \in J .. T
    <3>1. q[J] = q[j]
      BY <1>13, <2>1, <2>4
    <3>2. J = j
      BY <1>2, <1>8, <2>2, <3>1
    <3> QED
      BY <1>10, <2>1, <3>2
  <2> QED
    BY <1>2, <1>3, <2>3, <2>4
<1> HIDE DEF dummies
<1>16. hdr \in [Cells(S) -> Heads]
  <2>1. \A o \in Cells(S) : b.hdr[o] \in Heads
    BY <1>1
  <2>2. \A x \in Heads : [x EXCEPT !.flags = @ \cup {"FREE"}] \in Heads
    BY DEF Heads, ItemFlags
  <2> QED
    BY <1>1, <2>1, <2>2
<1>17. \A j \in J .. n - 1 : hdr[Spot(S, p[j])] = At(b, p, j)
  <2> TAKE j \in J .. n - 1
  <2>1. j \in 0 .. n /\ j \in 0 .. n - 1
    BY <1>2
  <2> QED
    BY <1>1, <1>6, <1>7, <1>15, <2>1
<1>18. free \in Nat /\ free = Spot(S, p[J])
  BY <1>2, <1>6, <1>14
<1> HIDE DEF hdr, free
<1>19. b \in [kind : Kinds, size : Nat, max : Nat, write : Nat, read : Nat,
              free : Nat, full : BOOLEAN, waiting : Nat,
              hdr : [Cells(S) -> Heads]]
  BY DEF Sized
<1>20. /\ b2.kind = b.kind /\ b2.size = b.size /\ b2.max = b.max
       /\ b2.write = b.write /\ b2.read = b.read /\ b2.full = b.full
       /\ b2.waiting = b.waiting /\ b2.free = free /\ b2.hdr = hdr
       /\ b2 \in [kind : Kinds, size : Nat, max : Nat, write : Nat, read : Nat,
                  free : Nat, full : BOOLEAN, waiting : Nat,
                  hdr : [Cells(S) -> Heads]]
  BY <1>16, <1>18, <1>19
<1> HIDE DEF b2
<1>21. Sized(b2)
  BY <1>20 DEF Sized
<1> QED
  BY <1>4, <1>17, <1>18, <1>20, <1>21 DEF Advanced, At

(* The places after the first J, unrolled from where the oldest one lies.  *)
Lap(b, p, J) == IF p[J] < b.size THEN 0 ELSE b.size
Slide(b, n, p, J) == [i \in 0 .. n - J |-> p[J + i] - Lap(b, p, J)]

(* What follows a header at the head of the storage does not depend on the *)
(* lap.                                                                    *)
LEMMA LeadsSlides ==
    ASSUME NEW size \in Nat, NEW max \in Nat, NEW h, NEW x \in Nat, NEW y \in Nat,
           size > 0, x >= size, Leads(size, max, h, x, y), y - size + 8 <= size
    PROVE  Leads(size, max, h, x - size, y - size)
<1>1. h.len \in Nat /\ h.flags \in Marks /\ h.len \in 0 .. max
  BY DEF Leads
<1>2. Align(h.len) \in Nat
  BY <1>1, AlignIs
<1>3. h.flags # {"DUMMY"} /\ h.flags # {"SPLIT"}
  BY DEF Leads
<1> DEFINE a == Align(h.len)
<1>4. y = IF x + 8 + a <= size /\ x + 8 + a + 8 > size THEN size ELSE x + 8 + a
  BY <1>3 DEF Leads, Ending, Header
<1>5. Ending(x - size, h.len) = x - size + 8 + a
  BY DEF Ending, Header
<1> HIDE DEF a
<1>6. y = x + 8 + a /\ a \in Nat
  BY <1>2, <1>4 DEF a
<1>7. Ending(x - size, h.len) = y - size
  BY <1>5, <1>6
<1> DEFINE e == Ending(x - size, h.len)
           z == y - size
<1>8. e = z /\ z \in Int /\ z + 8 <= size
  BY <1>7
<1>9. z = IF e <= size /\ e + Header > size THEN size ELSE e
  <2> HIDE DEF e, z
  <2> QED
    BY <1>8 DEF Header
<1>10. e <= size
  <2> HIDE DEF e, z
  <2> QED
    BY <1>8
<1> QED
  BY <1>1, <1>3, <1>9, <1>10 DEF Leads

(* The places after the first J are unrolled again when the oldest of them *)
(* is taken for the first.                                                 *)
LEMMA SlideIs ==
    ASSUME NEW b, NEW n, NEW r, NEW d, NEW p, Sized(b), Chained(b, n, r, d, p),
           NEW J \in 0 .. n
    PROVE  LET q == Slide(b, n, p, J)
           IN  /\ q \in [0 .. n - J -> Nat]
               /\ q[0] < b.size /\ q[0] = Spot(b.size, p[J])
               /\ \A i \in 0 .. n - J :
                    /\ J + i \in 0 .. n
                    /\ Place(b.size, q[0], q[i])
                    /\ Spot(b.size, q[i]) = Spot(b.size, p[J + i])
                    /\ q[i] = p[J + i] - Lap(b, p, J)
               /\ \A i, j \in 0 .. n - J : i < j => q[i] + Header <= q[j]
<1> DEFINE S == b.size
           q == Slide(b, n, p, J)
           lap == Lap(b, p, J)
<1>1. /\ S \in Nat /\ Aligned(S) /\ S > 0 /\ b.max \in Nat
      /\ Laid(S, b.max, b.hdr, n, p)
  BY DEF Sized, Chained, Header
<1>2. n \in Nat /\ J \in 0 .. n /\ 0 \in 0 .. n
  BY AllRead
<1>3. /\ p[0] \in Nat /\ p[0] < S
      /\ \A i \in 0 .. n :
            /\ p[i] \in Nat /\ p[0] <= p[i] /\ p[i] <= p[0] + S
            /\ Aligned(p[i])
            /\ Spot(S, p[i]) + 8 <= S
            /\ \/ p[i] < S /\ Spot(S, p[i]) = p[i]
               \/ p[i] >= S /\ Spot(S, p[i]) = p[i] - S
  BY <1>1, LaidIs DEF Place
<1>4. \A i, j \in 0 .. n : i < j => p[i] + 8 <= p[j]
  BY <1>1, LaidIs
<1>5. lap = IF p[J] < S THEN 0 ELSE S
  BY DEF Lap
<1>6. q = [i \in 0 .. n - J |-> p[J + i] - lap]
  BY DEF Slide
<1> HIDE DEF lap, q, S
<1>7. ASSUME NEW i \in 0 .. n - J
      PROVE  /\ q[i] = p[J + i] - lap /\ J + i \in 0 .. n /\ q[i] \in Nat
             /\ p[J] <= p[J + i]
             /\ q[i] < p[J] - lap + S + 1
             /\ Spot(S, q[i]) = Spot(S, p[J + i])
             /\ Aligned(q[i])
  <2> DEFINE k == J + i
  <2>1. k \in 0 .. n /\ (k = J \/ J < k)
    BY <1>2
  <2>2. q[i] = p[k] - lap
    BY <1>6
  <2> HIDE DEF k
  <2>3. p[J] <= p[k] /\ p[J] \in Nat /\ p[k] \in Nat
    BY <1>2, <1>3, <1>4, <2>1
  <2>4. q[i] \in Nat /\ p[k] <= p[0] + S /\ p[0] <= p[J]
    BY <1>1, <1>2, <1>3, <1>5, <2>1, <2>2, <2>3
  <2>5. q[i] < p[J] - lap + S + 1
    BY <1>1, <1>3, <1>5, <2>2, <2>3, <2>4
  <2>6. Spot(S, q[i]) = Spot(S, p[k])
    BY <1>1, <1>3, <1>5, <2>1, <2>2, <2>3, <2>4 DEF Spot
  <2>7. Aligned(q[i])
    BY <1>1, <1>3, <1>5, <2>1, <2>2, <2>3 DEF Aligned, Word
  <2> QED
    BY <2>1, <2>2, <2>3, <2>4, <2>5, <2>6, <2>7 DEF k
<1>8. q[0] = p[J] - lap /\ q[0] < S /\ q[0] = Spot(S, p[J])
  <2>1. 0 \in 0 .. n - J /\ J + 0 = J
    BY <1>2
  <2>2. q[0] = p[J] - lap
    BY <1>7, <2>1
  <2> QED
    BY <1>1, <1>2, <1>3, <1>5, <2>2
<1>9. ASSUME NEW i \in 0 .. n - J PROVE Place(S, q[0], q[i])
  <2>1. q[0] \in Nat /\ q[i] \in Nat /\ q[i] <= q[0] + S /\ Aligned(q[i])
    <3>1. 0 \in 0 .. n - J
      BY <1>2
    <3>2. q[0] \in Nat /\ q[i] \in Nat /\ q[i] < p[J] - lap + S + 1
      BY <1>7, <3>1
    <3> QED
      BY <1>1, <1>7, <1>8, <3>2
  <2>2. Spot(S, q[i]) + 8 <= S
    BY <1>3, <1>7
  <2> QED
    BY <2>1, <2>2 DEF Place, Header
<1>10. ASSUME NEW i \in 0 .. n - J, NEW j \in 0 .. n - J, i < j
       PROVE  q[i] + Header <= q[j]
  <2> DEFINE k == J + i
             l == J + j
  <2>1. k \in 0 .. n /\ l \in 0 .. n /\ k < l
    BY <1>2, <1>10
  <2>2. q[i] = p[k] - lap /\ q[j] = p[l] - lap
    BY <1>6
  <2> HIDE DEF k, l
  <2>3. p[k] + 8 <= p[l] /\ p[k] \in Nat /\ p[l] \in Nat /\ lap \in Int
    BY <1>1, <1>3, <1>4, <1>5, <2>1
  <2> QED
    BY <2>2, <2>3 DEF Header
<1>11. q \in [0 .. n - J -> Nat]
  BY <1>6, <1>7
<1> QED
  BY <1>7, <1>8, <1>9, <1>10, <1>11 DEF q, S, lap

(* The headers that are left when the first J are gone.                    *)
DropAt(n, d, J) == IF d < J THEN n - J ELSE d - J

(* The headers from J on are the same.                                     *)
KeptFrom(b, b3, n, p, J) ==
    \A j \in J .. n - 1 : At(b3, p, j) = At(b, p, j)

(* A buffer whose free pointer moved over its first J headers is a buffer  *)
(* whose headers can be unrolled, and the other headers are unchanged.     *)
LEMMA DropIs ==
    ASSUME NEW b, NEW n, NEW r, NEW d, NEW p, Sized(b), Chained(b, n, r, d, p),
           NEW J \in 0 .. r, NEW b3, Sized(b3),
           b3.size = b.size, b3.max = b.max, b3.write = b.write,
           b3.read = b.read, b3.waiting = b.waiting,
           b3.free = Spot(b.size, p[J]), b3.full <=> b.full /\ J = 0,
           KeptFrom(b, b3, n, p, J)
    PROVE  LET q == Slide(b, n, p, J)
           IN  /\ Chained(b3, n - J, r - J, DropAt(n, d, J), q)
               /\ \A i \in 0 .. n - J - 1 :
                    /\ J + i \in 0 .. n - 1
                    /\ At(b3, q, i) = At(b, p, J + i)
                    /\ Spot(b3.size, q[i]) = Spot(b.size, p[J + i])
<1> DEFINE S == b.size
           q == Slide(b, n, p, J)
           m == n - J
           D == DropAt(n, d, J)
           lap == Lap(b, p, J)
<1>1. /\ S \in Nat /\ Aligned(S) /\ S > 0 /\ b.max \in Nat
      /\ Laid(S, b.max, b.hdr, n, p)
  BY DEF Sized, Chained, Header
<1>2. n \in Nat /\ r \in 0 .. n /\ d \in 0 .. n /\ J \in 0 .. n /\ m \in Nat /\ 0 \in 0 .. m
  BY AllRead
<1>3. /\ q \in [0 .. m -> Nat]
      /\ q[0] < S /\ q[0] = Spot(S, p[J])
      /\ \A i \in 0 .. m :
            /\ J + i \in 0 .. n
            /\ Place(S, q[0], q[i])
            /\ Spot(S, q[i]) = Spot(S, p[J + i])
            /\ q[i] = p[J + i] - lap
      /\ \A i, j \in 0 .. m : i < j => q[i] + Header <= q[j]
  BY <1>2, SlideIs
<1> HIDE DEF q
<1>4. ASSUME NEW i \in 0 .. m - 1
      PROVE  /\ J + i \in J .. n - 1 /\ J + i \in 0 .. n - 1
             /\ At(b3, q, i) = At(b, p, J + i)
  <2>1. J + i \in J .. n - 1 /\ J + i \in 0 .. n - 1 /\ i \in 0 .. m
    BY <1>2
  <2>2. At(b3, p, J + i) = At(b, p, J + i)
    BY <2>1 DEF KeptFrom
  <2>3. At(b3, q, i) = At(b3, p, J + i)
    BY <1>3, <2>1 DEF At
  <2> QED
    BY <2>1, <2>2, <2>3
<1>5. ASSUME NEW i \in 0 .. m - 1
      PROVE  Leads(S, b.max, At(b3, q, i), q[i], q[i + 1])
  <2> DEFINE k == J + i
             x == p[k]
             y == p[k + 1]
             h == At(b, p, k)
  <2>1. k \in 0 .. n - 1 /\ k + 1 \in 0 .. n /\ k \in 0 .. n /\ J + (i + 1) = k + 1
        /\ i \in 0 .. m /\ i + 1 \in 0 .. m
    BY <1>2
  <2>2. q[i] = x - lap /\ q[i + 1] = y - lap /\ At(b3, q, i) = h
    BY <1>3, <1>4, <2>1
  <2> HIDE DEF k
  <2>3. Leads(S, b.max, h, x, y)
    BY <2>1, FlagsAre
  <2>4. /\ x \in Nat /\ y \in Nat /\ p[J] \in Nat
        /\ Spot(S, y) + 8 <= S
        /\ J = k \/ p[J] + 8 <= x
        /\ x + 8 <= y
    <3>1. J = k \/ J < k
      BY <1>2, <2>1 DEF k
    <3> QED
      BY <1>1, <1>2, <2>1, <3>1, LaidIs
  <2> HIDE DEF h, x, y
  <2>5. CASE p[J] < S
    <3>1. x - lap = x /\ y - lap = y
      BY <2>4, <2>5 DEF Lap
    <3> QED
      BY <2>2, <2>3, <3>1
  <2>6. CASE ~(p[J] < S)
    <3>1. lap = S /\ x >= S
      BY <1>1, <2>4, <2>6 DEF Lap, x
    <3>2. y - S + 8 <= S
      BY <1>1, <2>4, <3>1 DEF Spot
    <3>3. Leads(S, b.max, h, x - S, y - S)
      BY <1>1, <2>3, <2>4, <3>1, <3>2, LeadsSlides
    <3> QED
      BY <2>2, <3>1, <3>3
  <2> QED
    BY <2>5, <2>6
<1>6. Laid(b3.size, b3.max, b3.hdr, m, q)
  <2>1. \A i \in 0 .. m - 1 : b3.hdr[Spot(S, q[i])] = At(b3, q, i)
    BY DEF At
  <2> QED
    BY <1>2, <1>3, <1>5, <2>1 DEF Laid
<1>7. Linked(b3, m, q)
  <2>1. m \in 0 .. m /\ J + m = n
    BY <1>2
  <2>2. Spot(S, q[m]) = Spot(S, p[n])
    BY <1>3, <2>1
  <2>3. Spot(S, p[n]) = b.write /\ (b.full <=> p[n] = p[0] + S)
    BY DEF Chained, Linked
  <2>4. q[m] = p[n] - lap /\ q[0] = p[J] - lap
    <3>1. J + 0 = J
      BY <1>2
    <3> QED
      BY <1>2, <1>3, <2>1, <3>1
  <2>5. /\ p[n] \in Nat /\ p[J] \in Nat /\ p[0] \in Nat /\ lap \in Int
        /\ p[n] <= p[0] + S /\ (J = 0 \/ p[0] + 8 <= p[J])
    <3>1. J = 0 \/ 0 < J
      BY <1>2
    <3>2. 0 \in 0 .. n /\ n \in 0 .. n
      BY <1>2
    <3> QED
      BY <1>1, <1>2, <3>1, <3>2, LaidIs DEF Lap
  <2> HIDE DEF lap, m
  <2>6. b3.full <=> q[m] = q[0] + S
    BY <1>1, <2>3, <2>4, <2>5
  <2> QED
    BY <1>3, <2>2, <2>3, <2>6 DEF Linked
<1>8. Marked(b3, m, D, q)
  <2>1. D \in 0 .. m /\ (D < m => D + 1 < m)
    BY <1>2 DEF DropAt, Chained, Marked
  <2>2. ASSUME NEW i \in 0 .. m - 1
        PROVE  /\ At(b3, q, i).flags = {"DUMMY"} <=> i = D
               /\ At(b3, q, i).flags = {"SPLIT"} => i + 1 < m
    <3> DEFINE k == J + i
    <3>1. At(b3, q, i) = At(b, p, k) /\ k \in 0 .. n - 1
      BY <1>4
    <3>2. k = d <=> i = D
      BY <1>2 DEF DropAt
    <3>3. k + 1 < n => i + 1 < m
      BY <1>2
    <3> HIDE DEF k, D, m
    <3> QED
      BY <3>1, <3>2, <3>3 DEF Chained, Marked
  <2> QED
    BY <2>1, <2>2 DEF Marked
<1>9. Read(b3, m, r - J, D, q)
  <2>1. r - J \in 0 .. m /\ J + (r - J) = r
    BY <1>2
  <2>2. D < m => r - J # D + 1
    BY <1>2 DEF DropAt, Chained, Read
  <2>3. Spot(S, q[r - J]) = b.read
    BY <1>3, <2>1 DEF Chained, Read
  <2>4. b3.waiting = m - (r - J) - (IF r - J <= D /\ D < m THEN 1 ELSE 0)
    BY <1>2 DEF DropAt, Chained, Read
  <2>5. ASSUME NEW i \in r - J .. m - 1 PROVE At(b3, q, i).flags # {"FREE"}
    <3> DEFINE k == J + i
    <3>1. i \in 0 .. m - 1 /\ k \in r .. n - 1
      BY <1>2
    <3>2. At(b3, q, i) = At(b, p, k)
      BY <1>4, <3>1
    <3> HIDE DEF k
    <3> QED
      BY <3>1, <3>2 DEF Chained, Read
  <2> QED
    BY <2>1, <2>2, <2>3, <2>4, <2>5 DEF Read
<1>10. \A i \in 0 .. m - 1 : Spot(b3.size, q[i]) = Spot(S, p[J + i])
  <2>1. \A i \in 0 .. m - 1 : i \in 0 .. m
    BY <1>2
  <2> QED
    BY <1>3, <2>1
<1> QED
  BY <1>4, <1>6, <1>7, <1>8, <1>9, <1>10 DEF Chained, q

(* A set of numbers that is not empty has a least element.                 *)
LEMMA LeastIs ==
    ASSUME NEW S \in SUBSET Nat, S # {}
    PROVE  \E i \in S : \A j \in S : i <= j
<1>1. PICK i \in S : \A j \in S : <<j, i>> \notin OpToRel(<, Nat)
  BY WFMin, NatLessThanWellFounded
<1>2. \A j \in S : ~(j < i)
  BY <1>1 DEF OpToRel
<1> QED
  BY <1>2

(* The headers of the items that the client holds.                         *)
Lent(b, r, p) == {i \in 0 .. r - 1 : ~Over(b, p, i)}

(* Marking a held item as returned changes nothing but its header.         *)
LEMMA MarkIs ==
    ASSUME NEW b, NEW n, NEW r, NEW d, NEW p, Sized(b), Chained(b, n, r, d, p),
           NEW k \in Lent(b, r, p)
    PROVE  LET b1 == MarkFree(b, Spot(b.size, p[k]))
           IN  /\ Sized(b1) /\ Chained(b1, n, r, d, p)
               /\ b1.size = b.size /\ b1.max = b.max /\ b1.write = b.write
               /\ b1.read = b.read /\ b1.free = b.free /\ b1.full = b.full
               /\ b1.waiting = b.waiting /\ b1.kind = b.kind
               /\ At(b1, p, k) = [len |-> At(b, p, k).len, flags |-> {"FREE"}]
               /\ \A i \in 0 .. n - 1 : i # k => At(b1, p, i) = At(b, p, i)
<1> DEFINE S == b.size
           off == Spot(S, p[k])
           h == b.hdr[off]
           new == [len |-> h.len, flags |-> {"FREE"}]
           hdr == [b.hdr EXCEPT ![off] = new]
           b1 == [b EXCEPT !.hdr = hdr]
<1>1. /\ S \in Nat /\ Aligned(S) /\ S > 0 /\ b.max \in Nat
      /\ b.hdr \in [Cells(S) -> Heads] /\ Laid(S, b.max, b.hdr, n, p)
      /\ b \in [kind : Kinds, size : Nat, max : Nat, write : Nat, read : Nat,
                free : Nat, full : BOOLEAN, waiting : Nat,
                hdr : [Cells(S) -> Heads]]
  BY DEF Sized, Chained, Header
<1>2. n \in Nat /\ r \in 0 .. n /\ k \in 0 .. n /\ k \in 0 .. n - 1 /\ k < r
  BY AllRead DEF Lent
<1>3. off \in Cells(S) /\ \A i \in 0 .. n : Spot(S, p[i]) \in Cells(S)
  BY <1>1, <1>2, LaidIs
<1>4. h = At(b, p, k)
  BY DEF At
<1>5. h.flags \in {{}, {"SPLIT"}} /\ h \in Heads
  <2>1. h.flags \in Marks
    BY <1>2, <1>4, FlagsAre
  <2> HIDE DEF h
  <2>2. h.flags \notin {{"FREE"}, {"DUMMY"}}
    BY <1>4 DEF Lent, Over
  <2>3. h \in Heads
    BY <1>1, <1>3 DEF h
  <2> QED
    BY <2>1, <2>2, <2>3 DEF Marks
<1>6. MarkFree(b, off) = b1
  <2> DEFINE flags == (h.flags \ {"SPLIT"}) \cup {"FREE"}
  <2>1. flags = {"FREE"}
    <3> HIDE DEF h
    <3> QED
      BY <1>5
  <2>2. MarkFree(b, off) = [b EXCEPT !.hdr = [b.hdr EXCEPT ![off] = [b.hdr[off] EXCEPT !.flags = flags]]]
    BY DEF MarkFree
  <2>3. [h EXCEPT !.flags = flags] = new
    <3> HIDE DEF h, flags
    <3> QED
      BY <1>5, <2>1 DEF Heads
  <2> HIDE DEF flags
  <2> QED
    BY <2>2, <2>3
<1>7. new \in Heads
  <2> HIDE DEF h
  <2> QED
    BY <1>5 DEF Heads, ItemFlags
<1>8. hdr \in [Cells(S) -> Heads]
  <2> HIDE DEF new, off
  <2> QED
    BY <1>1, <1>3, <1>7
<1>9. hdr[off] = new /\ \A o \in Cells(S) : o # off => hdr[o] = b.hdr[o]
  <2> HIDE DEF new, off
  <2> QED
    BY <1>1, <1>3
<1> HIDE DEF hdr
<1>10. /\ b1.kind = b.kind /\ b1.size = b.size /\ b1.max = b.max
       /\ b1.write = b.write /\ b1.read = b.read /\ b1.full = b.full
       /\ b1.waiting = b.waiting /\ b1.free = b.free /\ b1.hdr = hdr
       /\ b1 \in [kind : Kinds, size : Nat, max : Nat, write : Nat, read : Nat,
                  free : Nat, full : BOOLEAN, waiting : Nat,
                  hdr : [Cells(S) -> Heads]]
  BY <1>1, <1>8
<1> HIDE DEF b1
<1>11. Sized(b1)
  BY <1>10 DEF Sized
<1>12. At(b1, p, k) = new
  BY <1>9, <1>10 DEF At
<1>13. ASSUME NEW i \in 0 .. n - 1, i # k PROVE At(b1, p, i) = At(b, p, i)
  <2>1. i \in 0 .. n
    BY <1>2
  <2>2. Spot(S, p[i]) # off
    <3> SUFFICES ASSUME Spot(S, p[i]) = off PROVE FALSE
      OBVIOUS
    <3>1. i < k \/ k < i
      BY <1>2, <1>13
    <3>2. (i < k => k = n) /\ (k < i => i = n)
      BY <1>1, <1>2, <2>1, SpotsDiffer
    <3> QED
      BY <1>2, <3>1, <3>2
  <2>3. b1.hdr[Spot(S, p[i])] = b.hdr[Spot(S, p[i])]
    BY <1>3, <1>9, <1>10, <2>1, <2>2
  <2> QED
    BY <1>10, <2>3 DEF At
<1>14. ASSUME NEW i \in 0 .. n - 1
       PROVE  /\ Leads(S, b.max, At(b1, p, i), p[i], p[i + 1])
              /\ i # k => At(b1, p, i) = At(b, p, i)
              /\ At(b1, p, i).flags = {"DUMMY"} <=> At(b, p, i).flags = {"DUMMY"}
              /\ At(b1, p, i).flags = {"SPLIT"} => At(b, p, i).flags = {"SPLIT"}
  <2>1. Leads(S, b.max, At(b, p, i), p[i], p[i + 1])
    BY FlagsAre
  <2>2. CASE i # k
    BY <1>13, <2>1, <2>2
  <2>3. CASE i = k
    <3>1. At(b1, p, i).len = At(b, p, i).len /\ At(b1, p, i).flags = {"FREE"}
      BY <1>4, <1>12, <2>3
    <3>2. At(b, p, i).flags # {"DUMMY"}
      BY <1>4, <1>5, <2>3
    <3>3. Leads(S, b.max, At(b1, p, i), p[i], p[i + 1])
      BY <2>1, <3>1, <3>2 DEF Leads, Marks
    <3> QED
      BY <2>3, <3>1, <3>2, <3>3
  <2> QED
    BY <2>2, <2>3
<1>15. Chained(b1, n, r, d, p)
  <2>1. Laid(b1.size, b1.max, b1.hdr, n, p)
    BY <1>1, <1>10, <1>14 DEF Laid, At
  <2>2. Linked(b1, n, p)
    BY <1>10 DEF Chained, Linked
  <2>3. Marked(b1, n, d, p)
    BY <1>14 DEF Chained, Marked
  <2>4. Read(b1, n, r, d, p)
    <3>1. \A i \in r .. n - 1 : i \in 0 .. n - 1 /\ i # k
      BY <1>2
    <3> QED
      BY <1>10, <1>14, <3>1 DEF Chained, Read
  <2> QED
    BY <2>1, <2>2, <2>3, <2>4 DEF Chained
<1> QED
  BY <1>4, <1>6, <1>10, <1>11, <1>12, <1>13, <1>15

(* The client may hold all of a full buffer in one item only.              *)
Sole(b, n, r, p) ==
    b.full /\ r = n => \A i, j \in Lent(b, r, p) : i = j

(* What a return leaves: the headers from J on, where J is the first that  *)
(* is not returned and no dummy, or was not read.                          *)
LEMMA ReturnIs ==
    ASSUME NEW b, NEW n, NEW r, NEW d, NEW p, Sized(b), Chained(b, n, r, d, p),
           Sole(b, n, r, p), NEW k \in Lent(b, r, p)
    PROVE  LET off == Spot(b.size, p[k])
               b1 == MarkFree(b, off)
               b3 == ReturnItem(b, off)
           IN  \E J \in 0 .. r :
                 LET q == Slide(b1, n, p, J)
                 IN  /\ \A i \in 0 .. J - 1 : Over(b1, p, i)
                     /\ J < r => ~Over(b1, p, J)
                     /\ Sized(b3)
                     /\ Chained(b3, n - J, r - J, DropAt(n, d, J), q)
                     /\ \A i \in 0 .. n - J - 1 :
                          /\ J + i \in 0 .. n - 1
                          /\ At(b3, q, i) = At(b1, p, J + i)
                          /\ Spot(b3.size, q[i]) = Spot(b1.size, p[J + i])
                     /\ b3.full => b.full /\ J = 0 /\ r < n
                     /\ b3.kind = b.kind
<1> DEFINE S == b.size
           off == Spot(S, p[k])
           b1 == MarkFree(b, off)
           b2 == AdvanceFree(b1)
           full == b2.full /\ b2.free = b.write /\ b2.free # b.read
           b3 == [b2 EXCEPT !.full = full]
<1>1. ReturnItem(b, off) = b3
  <2>1. ReturnItem(b, off) = ReturnItemDefault(b, off)
    BY DEF ReturnItem, Sized
  <2> HIDE DEF b1
  <2>2. ReturnItemDefault(b, off) = b3
    BY DEF ReturnItemDefault, b1
  <2> QED
    BY <2>1, <2>2
<1>2. /\ Sized(b1) /\ Chained(b1, n, r, d, p)
      /\ b1.size = b.size /\ b1.max = b.max /\ b1.write = b.write
      /\ b1.read = b.read /\ b1.free = b.free /\ b1.full = b.full
      /\ b1.waiting = b.waiting /\ b1.kind = b.kind
      /\ At(b1, p, k) = [len |-> At(b, p, k).len, flags |-> {"FREE"}]
      /\ \A i \in 0 .. n - 1 : i # k => At(b1, p, i) = At(b, p, i)
  BY MarkIs
<1>3. n \in Nat /\ r \in 0 .. n /\ k \in 0 .. n - 1 /\ k \in 0 .. r - 1
  BY AllRead DEF Lent
<1>4. /\ S \in Nat /\ Aligned(S) /\ S > 0 /\ b.max \in Nat /\ b.full \in BOOLEAN
      /\ Laid(S, b.max, b.hdr, n, p)
      /\ p[0] = b.free /\ Spot(S, p[n]) = b.write /\ Spot(S, p[r]) = b.read
      /\ b.full <=> p[n] = p[0] + S
  BY DEF Sized, Chained, Linked, Read, Header
<1>5. \A i, j \in 0 .. n : i < j /\ Spot(S, p[i]) = Spot(S, p[j]) =>
          i = 0 /\ j = n /\ b.full
  BY <1>4, SpotsDiffer
<1>6. \A J \in 0 .. r : Stops(b1, n, p, J) => Advanced(b1, b2, n, p, J)
  <2> HIDE DEF b1
  <2> QED
    BY <1>2, AdvanceIs
<1> HIDE DEF b1, b2
(* The header where the free pointer ends, and the first one left.         *)
<1>7. \E J \in 0 .. r, G \in 0 .. r :
        /\ \A i \in 0 .. J - 1 : Over(b1, p, i)
        /\ J < r => ~Over(b1, p, J)
        /\ Stops(b1, n, p, G) /\ Spot(S, p[G]) = Spot(S, p[J])
        /\ G = J \/ (J = n /\ G = 0)
        /\ full <=> b.full /\ J = 0
        /\ full => r < n
  <2>0. Spot(S, p[0]) = p[0] /\ 0 \in 0 .. n /\ n \in 0 .. n /\ r \in 0 .. n
    BY <1>3, <1>4, LaidIs
  <2>1. CASE b.full /\ r = n
    <3>1. Lent(b, r, p) = {k}
      BY <2>1 DEF Sole
    <3>2. ASSUME NEW i \in 0 .. n - 1 PROVE Over(b1, p, i)
      <4>1. CASE i = k
        BY <1>2, <4>1 DEF Over
      <4>2. CASE i # k
        <5>1. Over(b, p, i)
          BY <1>3, <2>1, <3>1, <4>2 DEF Lent
        <5> QED
          BY <1>2, <4>2, <5>1 DEF Over
      <4> QED
        BY <4>1, <4>2
    <3>3. Spot(S, p[n]) = p[0]
      <4>1. p[n] = p[0] + S /\ p[0] \in Nat /\ p[0] < S
        BY <1>4, <2>1, LaidIs
      <4> QED
        BY <1>4, <4>1 DEF Spot
    <3>4. Stops(b1, n, p, 0)
      BY <1>2, <1>4, <2>0, <2>1, <3>3 DEF Stops
    <3>5. Advanced(b1, b2, n, p, 0)
      BY <1>3, <1>6, <3>4
    <3>6. ~full
      BY <1>2, <1>4, <2>0, <2>1, <3>3, <3>5 DEF Advanced
    <3>7. n # 0
      BY <1>3
    <3> QED
      BY <1>3, <2>0, <2>1, <3>2, <3>3, <3>4, <3>6, <3>7
  <2>2. CASE ~(b.full /\ r = n)
    <3> DEFINE stop == {i \in 0 .. r - 1 : ~Over(b1, p, i)} \cup {r}
    <3>1. stop \in SUBSET Nat /\ r \in stop
      BY <1>3
    <3>2. PICK J \in stop : \A j \in stop : J <= j
      <4> HIDE DEF stop
      <4> QED
        BY <3>1, LeastIs
    <3>3. J \in 0 .. r /\ (J < r => ~Over(b1, p, J))
      BY <1>3
    <3>4. \A i \in 0 .. J - 1 : Over(b1, p, i)
      BY <1>3, <3>2, <3>3
    <3>5. \A i \in 0 .. J - 1 : Spot(S, p[i]) # b.read
      <4> TAKE i \in 0 .. J - 1
      <4>1. i \in 0 .. n /\ i < r
        BY <1>3, <3>3
      <4> QED
        BY <1>4, <1>5, <2>0, <2>2, <4>1
    <3>6. Stops(b1, n, p, J)
      <4>1. J = r \/ (J < n /\ ~Over(b1, p, J))
        BY <1>3, <3>3
      <4> QED
        BY <1>2, <1>4, <3>4, <3>5, <4>1 DEF Stops
    <3>7. Advanced(b1, b2, n, p, J)
      BY <1>6, <3>3, <3>6
    <3>8. full <=> b.full /\ Spot(S, p[J]) = Spot(S, p[n]) /\ Spot(S, p[J]) # Spot(S, p[r])
      BY <1>2, <1>4, <3>7 DEF Advanced
    <3>9. full <=> b.full /\ J = 0
      <4>1. J \in 0 .. n
        BY <1>3, <3>3
      <4>2. ASSUME b.full, J = 0
            PROVE  Spot(S, p[J]) = Spot(S, p[n]) /\ Spot(S, p[J]) # Spot(S, p[r])
        <5>1. Spot(S, p[n]) = p[0]
          <6>1. p[n] = p[0] + S /\ p[0] \in Nat /\ p[0] < S
            BY <1>4, <4>2, LaidIs
          <6> QED
            BY <1>4, <6>1 DEF Spot
        <5>2. 0 < r /\ r # n
          BY <1>3, <2>2, <4>2
        <5> QED
          BY <1>3, <1>5, <2>0, <4>2, <5>1, <5>2
      <4>3. ASSUME b.full, Spot(S, p[J]) = Spot(S, p[n]) PROVE J = 0
        <5>1. J < n
          BY <1>3, <2>2, <3>3, <4>3
        <5> QED
          BY <1>5, <2>0, <4>1, <4>3, <5>1
      <4> HIDE DEF full
      <4> QED
        BY <3>8, <4>2, <4>3
    <3>10. full => r < n
      <4>1. full => b.full
        BY <3>9
      <4>2. r < n \/ r = n
        BY <1>3
      <4> HIDE DEF full
      <4> QED
        BY <2>2, <4>1, <4>2
    <3> HIDE DEF full
    <3> QED
      BY <3>3, <3>4, <3>6, <3>9, <3>10
  <2> QED
    BY <2>1, <2>2
<1>8. PICK J \in 0 .. r, G \in 0 .. r :
        /\ \A i \in 0 .. J - 1 : Over(b1, p, i)
        /\ J < r => ~Over(b1, p, J)
        /\ Stops(b1, n, p, G) /\ Spot(S, p[G]) = Spot(S, p[J])
        /\ G = J \/ (J = n /\ G = 0)
        /\ full <=> b.full /\ J = 0
        /\ full => r < n
  BY <1>7
<1>9. Advanced(b1, b2, n, p, G)
  BY <1>6, <1>8
<1>10. full \in BOOLEAN
  BY <1>2, <1>9 DEF Advanced, Sized
<1> HIDE DEF full
<1>11. /\ b3.kind = b2.kind /\ b3.size = b2.size /\ b3.max = b2.max
       /\ b3.write = b2.write /\ b3.read = b2.read /\ b3.full = full
       /\ b3.waiting = b2.waiting /\ b3.free = b2.free /\ b3.hdr = b2.hdr
       /\ Sized(b3)
  <2>1. b2 \in [kind : Kinds, size : Nat, max : Nat, write : Nat, read : Nat,
                free : Nat, full : BOOLEAN, waiting : Nat,
                hdr : [Cells(b2.size) -> Heads]] /\ Sized(b2)
    BY <1>9 DEF Advanced, Sized
  <2>2. /\ b3.kind = b2.kind /\ b3.size = b2.size /\ b3.max = b2.max
        /\ b3.write = b2.write /\ b3.read = b2.read /\ b3.full = full
        /\ b3.waiting = b2.waiting /\ b3.free = b2.free /\ b3.hdr = b2.hdr
        /\ b3 \in [kind : Kinds, size : Nat, max : Nat, write : Nat, read : Nat,
                   free : Nat, full : BOOLEAN, waiting : Nat,
                   hdr : [Cells(b2.size) -> Heads]]
    BY <1>10, <2>1
  <2> HIDE DEF b3
  <2> QED
    BY <2>1, <2>2 DEF Sized
<1> HIDE DEF b3
<1>12. /\ b3.size = b1.size /\ b3.max = b1.max /\ b3.write = b1.write
       /\ b3.read = b1.read /\ b3.waiting = b1.waiting /\ b3.kind = b1.kind
       /\ b3.free = Spot(b1.size, p[J])
       /\ b3.full <=> b1.full /\ J = 0
  BY <1>2, <1>8, <1>9, <1>11 DEF Advanced
<1>13. KeptFrom(b1, b3, n, p, J)
  <2> SUFFICES ASSUME NEW j \in J .. n - 1 PROVE At(b3, p, j) = At(b1, p, j)
    BY DEF KeptFrom
  <2>1. j \in G .. n - 1
    BY <1>3, <1>8
  <2>2. At(b2, p, j) = At(b1, p, j)
    BY <1>9, <2>1 DEF Advanced
  <2> QED
    BY <1>11, <2>2 DEF At
<1>14. LET q == Slide(b1, n, p, J)
       IN  /\ Chained(b3, n - J, r - J, DropAt(n, d, J), q)
           /\ \A i \in 0 .. n - J - 1 :
                /\ J + i \in 0 .. n - 1
                /\ At(b3, q, i) = At(b1, p, J + i)
                /\ Spot(b3.size, q[i]) = Spot(b1.size, p[J + i])
  <2>1. J \in 0 .. r
    BY <1>8
  <2>2. b3.full <=> b1.full /\ J = 0
    BY <1>12
  <2> QED
    BY <1>2, <1>11, <1>12, <1>13, <2>1, <2>2, DropIs
<1>15. b3.full => b.full /\ J = 0 /\ r < n
  BY <1>8, <1>11
<1> QED
  BY <1>1, <1>2, <1>8, <1>11, <1>12, <1>14, <1>15 DEF b1

(* A receive took the headers up to r2, the dummy left out.                *)
Passed(r, d, r2) == {i \in r .. r2 - 1 : i # d}
Received(b, got, n, r, d, p, r2) ==
    /\ r2 \in r + 1 .. n /\ Passed(r, d, r2) # {}
    /\ Sized(got.rb) /\ Chained(got.rb, n, r2, d, p) /\ Moved(b, got.rb)
    /\ got.items = {Piece(b, p, i) : i \in Passed(r, d, r2)}
    /\ IsFiniteSet(got.items)

(* xRingbufferReceive takes the next item.                                 *)
LEMMA OneReceived ==
    ASSUME NEW b, NEW n, NEW r, NEW d, NEW p, Sized(b), Chained(b, n, r, d, p),
           CheckItemAvail(b), NEW maxSize
    PROVE  \E r2 : Received(b, GotOne(b, maxSize), n, r, d, p, r2)
<1>1. b.waiting > 0 /\ b.kind # "bytebuf"
  BY DEF CheckItemAvail, Sized
<1>2. PICK j \in r .. n - 1 :
        /\ Next1(r, d, j)
        /\ GetItemDefault(b).item = Piece(b, p, j)
        /\ Moved(b, GetItemDefault(b).rb)
        /\ Sized(GetItemDefault(b).rb)
        /\ Chained(GetItemDefault(b).rb, n, j + 1, d, p)
  BY <1>1, GetTakes
<1> DEFINE got == GotOne(b, maxSize)
<1>3. got.rb = GetItemDefault(b).rb /\ got.items = {GetItemDefault(b).item}
  BY <1>1 DEF GotOne
<1>4. n \in Nat /\ r \in 0 .. n
  BY AllRead
<1>5. Passed(r, d, j + 1) = {j} /\ j + 1 \in r + 1 .. n
  BY <1>2, <1>4 DEF Passed, Next1
<1> HIDE DEF got
<1>6. got.items = {Piece(b, p, i) : i \in Passed(r, d, j + 1)}
  BY <1>2, <1>3, <1>5
<1>7. IsFiniteSet(got.items)
  BY <1>3, FS_Singleton
<1>8. Received(b, got, n, r, d, p, j + 1)
  BY <1>2, <1>3, <1>5, <1>6, <1>7 DEF Received
<1> QED
  BY <1>8 DEF got

(* xRingbufferReceiveSplit takes the next item, with its second half if it *)
(* was cut in two.                                                         *)
LEMMA BothReceived ==
    ASSUME NEW b, NEW n, NEW r, NEW d, NEW p, Sized(b), Chained(b, n, r, d, p),
           CheckItemAvail(b)
    PROVE  \E r2 : Received(b, GotBoth(b), n, r, d, p, r2)
<1>1. b.waiting > 0 /\ b.kind # "bytebuf"
  BY DEF CheckItemAvail, Sized
<1> DEFINE head == GetItemDefault(b)
           b1 == head.rb
           tail == GetItemDefault(b1)
           got == GotBoth(b)
<1>2. PICK j \in r .. n - 1 :
        /\ Next1(r, d, j)
        /\ head.item = Piece(b, p, j)
        /\ Moved(b, b1)
        /\ Sized(b1)
        /\ Chained(b1, n, j + 1, d, p)
  BY <1>1, GetTakes
<1>3. n \in Nat /\ r \in 0 .. n /\ d \in 0 .. n
  BY AllRead
<1>4. Passed(r, d, j + 1) = {j} /\ j + 1 \in r + 1 .. n /\ j \in 0 .. n - 1
  BY <1>2, <1>3 DEF Passed, Next1
<1>5. head.item.flags = At(b, p, j).flags
  BY <1>2 DEF Piece, Part
<1>6. "SPLIT" \in At(b, p, j).flags <=> At(b, p, j).flags = {"SPLIT"}
  BY <1>4, FlagsAre
<1>7. got = IF "SPLIT" \in head.item.flags
            THEN [rb |-> tail.rb, items |-> {head.item, tail.item}]
            ELSE [rb |-> b1, items |-> {head.item}]
  BY DEF GotBoth
<1> HIDE DEF head, b1, tail, got
<1>8. CASE "SPLIT" \notin head.item.flags
  <2>1. got.rb = b1 /\ got.items = {Piece(b, p, j)}
    BY <1>2, <1>7, <1>8
  <2>2. got.items = {Piece(b, p, i) : i \in Passed(r, d, j + 1)}
    BY <1>4, <2>1
  <2>3. IsFiniteSet(got.items)
    BY <2>1, FS_Singleton
  <2>4. Received(b, got, n, r, d, p, j + 1)
    BY <1>2, <1>4, <2>1, <2>2, <2>3 DEF Received
  <2> QED
    BY <2>4 DEF got
<1>9. CASE "SPLIT" \in head.item.flags
  <2>1. j + 1 \in 0 .. n - 1 /\ j + 1 # d
    BY <1>4, <1>5, <1>6, <1>9, SplitFollows
  <2>2. b1.waiting > 0
    <3>1. b1.waiting # 0 /\ b1.waiting \in Nat
      <4>1. b1.waiting = 0 <=> j + 1 = n
        BY <1>2, AllRead
      <4> QED
        BY <1>2, <1>3, <2>1, <4>1 DEF Sized
    <3> QED
      BY <3>1
  <2>3. PICK k \in j + 1 .. n - 1 :
          /\ Next1(j + 1, d, k)
          /\ tail.item = Piece(b1, p, k)
          /\ Moved(b1, tail.rb)
          /\ Sized(tail.rb)
          /\ Chained(tail.rb, n, k + 1, d, p)
    BY <1>2, <2>2, GetTakes DEF tail
  <2>4. k = j + 1
    BY <2>1, <2>3 DEF Next1
  <2>5. Piece(b1, p, k) = Piece(b, p, k) /\ Moved(b, tail.rb)
    BY <1>2, <2>3 DEF Piece, At, Moved
  <2>6. got.rb = tail.rb /\ got.items = {Piece(b, p, j), Piece(b, p, j + 1)}
    BY <1>2, <1>7, <1>9, <2>3, <2>4, <2>5
  <2>7. Passed(r, d, j + 2) = {j, j + 1} /\ j + 2 \in r + 1 .. n /\ j + 2 = k + 1
    BY <1>2, <1>3, <2>1, <2>4 DEF Passed, Next1
  <2>8. got.items = {Piece(b, p, i) : i \in Passed(r, d, j + 2)}
    BY <2>6, <2>7
  <2>9. IsFiniteSet(got.items)
    <3> DEFINE x == Piece(b, p, j)
               y == Piece(b, p, j + 1)
    <3>1. got.items = {x} \cup {y}
      BY <2>6
    <3> HIDE DEF x, y
    <3>2. IsFiniteSet({x})
      BY FS_Singleton
    <3>3. IsFiniteSet({x} \cup {y})
      BY <3>2, FS_AddElement
    <3> QED
      BY <3>1, <3>3
  <2>10. Received(b, got, n, r, d, p, j + 2)
    BY <2>3, <2>5, <2>6, <2>7, <2>8, <2>9 DEF Received
  <2> QED
    BY <2>10 DEF got
<1> QED
  BY <1>8, <1>9

(* What the client holds are the items under the headers that were read    *)
(* and not returned. It holds one when any header was read, for the free   *)
(* pointer moves over those that were returned.                            *)
Owned(b, h, n, r, p) ==
    /\ h = {Piece(b, p, i) : i \in Lent(b, r, p)}
    /\ r > 0 => Lent(b, r, p) # {}
    /\ Sole(b, n, r, p)
    /\ IsFiniteSet(h)

(* A set of one element at most has no two.                                *)
LEMMA AtMostOne ==
    ASSUME NEW S, IsFiniteSet(S), Cardinality(S) <= 1, NEW x \in S, NEW y \in S
    PROVE  x = y
<1> SUFFICES ASSUME x # y PROVE FALSE
  OBVIOUS
<1>1. IsFiniteSet({x}) /\ Cardinality({x}) = 1
  BY FS_Singleton
<1>2. Cardinality({x} \cup {y}) = 2
  <2>1. y \notin {x}
    OBVIOUS
  <2>2. Cardinality({x} \cup {y}) = IF y \in {x} THEN Cardinality({x}) ELSE Cardinality({x}) + 1
    BY <1>1, FS_AddElement
  <2> QED
    BY <1>1, <2>1, <2>2
<1>3. {x} \cup {y} \in SUBSET S
  OBVIOUS
<1>4. Cardinality({x} \cup {y}) <= Cardinality(S)
  BY <1>3, FS_Subset
<1>5. Cardinality(S) \in Nat
  BY FS_CardinalityType
<1> QED
  BY <1>2, <1>4, <1>5

(* Two headers of a buffer never lie at the same place.                    *)
LEMMA PiecesDiffer ==
    ASSUME NEW b, NEW n, NEW r, NEW d, NEW p, Sized(b), Chained(b, n, r, d, p),
           NEW i \in 0 .. n - 1, NEW j \in 0 .. n - 1,
           Spot(b.size, p[i]) = Spot(b.size, p[j])
    PROVE  i = j
<1>1. /\ b.size \in Nat /\ Aligned(b.size) /\ b.max \in Nat
      /\ Laid(b.size, b.max, b.hdr, n, p) /\ n \in Nat
  BY AllRead DEF Sized, Chained, Header
<1>2. i \in 0 .. n /\ j \in 0 .. n
  BY <1>1
<1>3. ~(i < j) /\ ~(j < i)
  BY <1>1, <1>2, SpotsDiffer
<1> QED
  BY <1>1, <1>3

(* A send changes neither the size nor the type of a buffer.               *)
LEMMA SendShape ==
    ASSUME NEW b, Sized(b), NEW len
    PROVE  /\ CopyItem(b, len).size = b.size
           /\ CopyItem(b, len).kind = b.kind
           /\ CopyItem(b, len).max = b.max
<1> DEFINE layout == Layout(b, len)
           m == Cardinality({i \in DOMAIN layout : "DUMMY" \notin layout[i].flags})
           last == layout[Len(layout)]
<1>1. layout = Layout(b, len) /\ last = layout[Len(layout)]
      /\ m = Cardinality({i \in DOMAIN layout : "DUMMY" \notin layout[i].flags})
  OBVIOUS
<1> HIDE DEF layout, m, last
<1>2. Copied(b, CopyItem(b, len), Put(Put(b.hdr, layout[1]), last),
             After(b, last.off, last.len), b.waiting + m)
  BY <1>1, CopyIs
<1> QED
  BY <1>2 DEF Copied

(* After a send the client holds what it held.                             *)
LEMMA SendOwned ==
    ASSUME NEW b, NEW n, NEW r, NEW d, NEW p, Sized(b), Chained(b, n, r, d, p),
           NEW b2, NEW n2, NEW d2, NEW p2, Sized(b2), Chained(b2, n2, r, d2, p2),
           b2.size = b.size, Grown(b, b2, n, d, p, n2, d2, p2),
           NEW h, Owned(b, h, n, r, p)
    PROVE  Owned(b2, h, n2, r, p2)
<1>1. n \in Nat /\ r \in 0 .. n /\ n2 \in Nat /\ r < n2
  <2>1. n \in Nat /\ r \in 0 .. n
    BY AllRead
  <2> QED
    BY <2>1 DEF Grown
<1>2. \A i \in 0 .. r - 1 :
        /\ i \in 0 .. n /\ i \in 0 .. n - 1
        /\ p2[i] = p[i] /\ At(b2, p2, i) = At(b, p, i)
  BY <1>1 DEF Grown
<1>3. Lent(b2, r, p2) = Lent(b, r, p)
  BY <1>2 DEF Lent, Over
<1>4. \A i \in Lent(b, r, p) : Piece(b2, p2, i) = Piece(b, p, i)
  BY <1>2 DEF Lent, Piece
<1>5. {Piece(b2, p2, i) : i \in Lent(b2, r, p2)} = {Piece(b, p, i) : i \in Lent(b, r, p)}
  BY <1>3, <1>4
<1>6. Sole(b2, n2, r, p2)
  BY <1>1 DEF Sole
<1> QED
  BY <1>3, <1>5, <1>6 DEF Owned

(* After a receive the client holds the items received too, and does not   *)
(* hold all of a full buffer in several items if it is restrained.         *)
LEMMA ReceiveOwned ==
    ASSUME NEW b, NEW n, NEW r, NEW d, NEW p, Sized(b), Chained(b, n, r, d, p),
           NEW got, NEW r2, Received(b, got, n, r, d, p, r2),
           NEW h, Owned(b, h, n, r, p),
           \/ Cardinality(h \cup got.items) <= 1
           \/ ~(got.rb.full /\ got.rb.waiting = 0)
    PROVE  Owned(got.rb, h \cup got.items, n, r2, p)
<1> DEFINE b2 == got.rb
           h2 == h \cup got.items
<1>1. n \in Nat /\ r \in 0 .. n /\ r2 \in r + 1 .. n /\ d \in 0 .. n
  BY AllRead DEF Received
<1>2. \A i : At(b2, p, i) = At(b, p, i) /\ Piece(b2, p, i) = Piece(b, p, i)
  BY DEF Received, Moved, At, Piece
<1>3. Lent(b2, r2, p) = Lent(b, r, p) \cup Passed(r, d, r2)
  <2>1. ASSUME NEW i \in r .. r2 - 1 PROVE Over(b, p, i) <=> i = d
    <3>1. i \in r .. n - 1 /\ i \in 0 .. n - 1
      BY <1>1
    <3>2. At(b, p, i).flags # {"FREE"}
      BY <3>1 DEF Chained, Read
    <3>3. At(b, p, i).flags = {"DUMMY"} <=> i = d
      BY <3>1 DEF Chained, Marked
    <3> QED
      BY <3>2, <3>3 DEF Over
  <2>2. 0 .. r2 - 1 = (0 .. r - 1) \cup (r .. r2 - 1)
    BY <1>1
  <2>3. \A i : Over(b2, p, i) <=> Over(b, p, i)
    BY <1>2 DEF Over
  <2> HIDE DEF b2
  <2> QED
    BY <2>1, <2>2, <2>3 DEF Lent, Passed
<1>4. h2 = {Piece(b2, p, i) : i \in Lent(b2, r2, p)}
  <2>1. h = {Piece(b, p, i) : i \in Lent(b, r, p)}
    BY DEF Owned
  <2>2. got.items = {Piece(b, p, i) : i \in Passed(r, d, r2)}
    BY DEF Received
  <2>3. {Piece(b2, p, i) : i \in Lent(b2, r2, p)} = {Piece(b, p, i) : i \in Lent(b2, r2, p)}
    BY <1>2
  <2> HIDE DEF b2
  <2> QED
    BY <1>3, <2>1, <2>2, <2>3
<1>5. Lent(b2, r2, p) # {}
  BY <1>3 DEF Received
<1>6. IsFiniteSet(h2)
  BY FS_Union DEF Owned, Received
<1>7. Sole(b2, n, r2, p)
  <2> SUFFICES ASSUME b2.full, r2 = n,
                      NEW i \in Lent(b2, r2, p), NEW j \in Lent(b2, r2, p)
               PROVE  i = j
    BY DEF Sole
  <2>1. Sized(b2) /\ Chained(b2, n, r2, d, p)
    BY DEF Received
  <2> HIDE DEF b2
  <2>2. b2.waiting = 0
    BY <2>1, AllRead
  <2>3. Cardinality(h2) <= 1
    BY <2>2 DEF b2
  <2> HIDE DEF h2
  <2>4. Piece(b2, p, i) = Piece(b2, p, j)
    BY <1>4, <1>6, <2>3, AtMostOne
  <2>5. Spot(b2.size, p[i]) = Spot(b2.size, p[j])
    BY <2>4 DEF Piece, Part
  <2>6. i \in 0 .. n - 1 /\ j \in 0 .. n - 1
    BY DEF Lent
  <2> QED
    BY <2>1, <2>5, <2>6, PiecesDiffer
<1> QED
  BY <1>4, <1>5, <1>6, <1>7 DEF Owned

(* The return of the item under header k left b3, of b1 with that header   *)
(* marked, without its first J headers.                                    *)
Gone(b, b1, b3, n, r, d, p, k, J, q) ==
    /\ Sized(b1) /\ Chained(b1, n, r, d, p) /\ b1.size = b.size
    /\ At(b1, p, k) = [len |-> At(b, p, k).len, flags |-> {"FREE"}]
    /\ \A i \in 0 .. n - 1 : i # k => At(b1, p, i) = At(b, p, i)
    /\ J \in 0 .. r /\ q = Slide(b1, n, p, J)
    /\ \A i \in 0 .. J - 1 : Over(b1, p, i)
    /\ J < r => ~Over(b1, p, J)
    /\ Sized(b3) /\ Chained(b3, n - J, r - J, DropAt(n, d, J), q)
    /\ \A i \in 0 .. n - J - 1 :
         /\ J + i \in 0 .. n - 1
         /\ At(b3, q, i) = At(b1, p, J + i)
         /\ Spot(b3.size, q[i]) = Spot(b1.size, p[J + i])
    /\ b3.full => b.full /\ J = 0 /\ r < n

(* vRingbufferReturnItem does so with any item that the client holds.      *)
LEMMA ReturnGone ==
    ASSUME NEW b, NEW n, NEW r, NEW d, NEW p, Sized(b), Chained(b, n, r, d, p),
           Sole(b, n, r, p), NEW k \in Lent(b, r, p)
    PROVE  \E b1, J, q : Gone(b, b1, ReturnItem(b, Spot(b.size, p[k])),
                              n, r, d, p, k, J, q)
<1> DEFINE off == Spot(b.size, p[k])
           b1 == MarkFree(b, off)
           b3 == ReturnItem(b, off)
<1>1. /\ Sized(b1) /\ Chained(b1, n, r, d, p) /\ b1.size = b.size
      /\ At(b1, p, k) = [len |-> At(b, p, k).len, flags |-> {"FREE"}]
      /\ \A i \in 0 .. n - 1 : i # k => At(b1, p, i) = At(b, p, i)
  BY MarkIs
<1>2. PICK J \in 0 .. r :
        LET q == Slide(b1, n, p, J)
        IN  /\ \A i \in 0 .. J - 1 : Over(b1, p, i)
            /\ J < r => ~Over(b1, p, J)
            /\ Sized(b3)
            /\ Chained(b3, n - J, r - J, DropAt(n, d, J), q)
            /\ \A i \in 0 .. n - J - 1 :
                 /\ J + i \in 0 .. n - 1
                 /\ At(b3, q, i) = At(b1, p, J + i)
                 /\ Spot(b3.size, q[i]) = Spot(b1.size, p[J + i])
            /\ b3.full => b.full /\ J = 0 /\ r < n
  BY ReturnIs
<1> HIDE DEF b1, b3
<1>3. Gone(b, b1, b3, n, r, d, p, k, J, Slide(b1, n, p, J))
  BY <1>1, <1>2 DEF Gone
<1> QED
  BY <1>3 DEF b3

(* After a return the client holds the other items.                        *)
LEMMA ReturnOwned ==
    ASSUME NEW b, NEW n, NEW r, NEW d, NEW p, Sized(b), Chained(b, n, r, d, p),
           NEW h, Owned(b, h, n, r, p), NEW k \in Lent(b, r, p),
           NEW b1, NEW b3, NEW J, NEW q, Gone(b, b1, b3, n, r, d, p, k, J, q)
    PROVE  Owned(b3, h \ {Piece(b, p, k)}, n - J, r - J, q)
<1> DEFINE left == {i \in 0 .. r - 1 : i # k /\ ~Over(b, p, i)}
<1>1. n \in Nat /\ r \in 0 .. n /\ J \in 0 .. r /\ k \in 0 .. r - 1 /\ k \in 0 .. n - 1
  BY AllRead DEF Gone, Lent
<1>2. h \ {Piece(b, p, k)} = {Piece(b, p, i) : i \in left}
  <2>1. \A i \in Lent(b, r, p) : Piece(b, p, i) = Piece(b, p, k) => i = k
    <3> TAKE i \in Lent(b, r, p)
    <3>1. i \in 0 .. n - 1
      BY <1>1 DEF Lent
    <3>2. Piece(b, p, i) = Piece(b, p, k) => Spot(b.size, p[i]) = Spot(b.size, p[k])
      BY DEF Piece, Part
    <3> QED
      BY <1>1, <3>1, <3>2, PiecesDiffer
  <2>2. left = Lent(b, r, p) \ {k}
    BY DEF Lent
  <2>3. h = {Piece(b, p, i) : i \in Lent(b, r, p)}
    BY DEF Owned
  <2> HIDE DEF left
  <2> QED
    BY <2>1, <2>2, <2>3
<1>3. ASSUME NEW i \in 0 .. n - J - 1
      PROVE  /\ J + i \in 0 .. n - 1
             /\ Over(b3, q, i) <=> J + i = k \/ Over(b, p, J + i)
             /\ J + i # k => Piece(b3, q, i) = Piece(b, p, J + i)
  <2>1. /\ J + i \in 0 .. n - 1
        /\ At(b3, q, i) = At(b1, p, J + i)
        /\ Spot(b3.size, q[i]) = Spot(b.size, p[J + i])
        /\ J + i = k => At(b1, p, J + i).flags = {"FREE"}
        /\ J + i # k => At(b1, p, J + i) = At(b, p, J + i)
    BY DEF Gone
  <2> QED
    BY <2>1 DEF Over, Piece
<1>4. \A i \in left : J <= i
  <2> TAKE i \in left
  <2>1. i \in 0 .. n - 1 /\ i # k /\ ~Over(b, p, i)
    BY <1>1
  <2>2. At(b1, p, i) = At(b, p, i)
    BY <2>1 DEF Gone
  <2>3. i \notin 0 .. J - 1
    BY <2>1, <2>2 DEF Gone, Over
  <2> QED
    BY <1>1, <2>1, <2>3
<1>5. \A i \in Lent(b3, r - J, q) : J + i \in left /\ Piece(b3, q, i) = Piece(b, p, J + i)
  <2> TAKE i \in Lent(b3, r - J, q)
  <2>1. i \in 0 .. n - J - 1 /\ J + i \in 0 .. r - 1 /\ ~Over(b3, q, i)
    BY <1>1 DEF Lent
  <2> QED
    BY <1>3, <2>1
<1>6. \A i \in left : i - J \in Lent(b3, r - J, q) /\ J + (i - J) = i
  <2> TAKE i \in left
  <2>1. i - J \in 0 .. n - J - 1 /\ i - J \in 0 .. (r - J) - 1 /\ J + (i - J) = i
    BY <1>1, <1>4
  <2>2. i # k /\ ~Over(b, p, i)
    OBVIOUS
  <2> QED
    BY <1>3, <2>1, <2>2 DEF Lent
<1>7. h \ {Piece(b, p, k)} = {Piece(b3, q, i) : i \in Lent(b3, r - J, q)}
  <2> HIDE DEF left
  <2> QED
    BY <1>2, <1>5, <1>6
<1>8. r - J > 0 => Lent(b3, r - J, q) # {}
  <2> SUFFICES ASSUME r - J > 0 PROVE 0 \in Lent(b3, r - J, q)
    OBVIOUS
  <2>1. 0 \in 0 .. n - J - 1 /\ 0 \in 0 .. (r - J) - 1 /\ J + 0 = J /\ J < r
    BY <1>1
  <2>2. At(b3, q, 0) = At(b1, p, J) /\ ~Over(b1, p, J)
    BY <2>1 DEF Gone
  <2> QED
    BY <2>1, <2>2 DEF Lent, Over
<1>9. Sole(b3, n - J, r - J, q)
  <2>1. ~(b3.full /\ r - J = n - J)
    BY <1>1 DEF Gone
  <2> QED
    BY <2>1 DEF Sole
<1>10. IsFiniteSet(h \ {Piece(b, p, k)})
  BY FS_RemoveElement DEF Owned
<1> QED
  BY <1>7, <1>8, <1>9, <1>10 DEF Owned

------------------------------------------------------------------------------
(* The byte buffer: from the free pointer on, l bytes that the client      *)
(* holds as one item, and w bytes that wait. A get stops at the tail, so   *)
(* the bytes that are held never wrap.                                     *)
ByteRing(b, h, l, w) ==
    /\ b.kind = "bytebuf" /\ b.max = b.size
    /\ b.size \in Nat \ {0} /\ b.size <= MostParts
    /\ b \in [kind : Kinds, size : Nat, max : Nat, write : Nat, read : Nat,
              free : Nat, full : BOOLEAN, waiting : Nat, hdr : [Cells(0) -> Heads]]
    /\ l \in Nat /\ w \in Nat /\ l + w <= b.size
    /\ b.free < b.size /\ b.free + l <= b.size
    /\ b.read = Spot(b.size, b.free + l)
    /\ b.write = Spot(b.size, b.free + l + w)
    /\ b.full <=> l + w = b.size
    /\ b.waiting = w
    /\ h = IF l = 0 THEN {} ELSE {Part(b.free, l, {})}

(* A send to a byte buffer, wrapped at the tail or not, adds its bytes to  *)
(* those that wait.                                                        *)
LEMMA BytesSent ==
    ASSUME NEW b, NEW h, NEW l, NEW w, ByteRing(b, h, l, w),
           NEW n \in 1 .. b.max, CheckItemFits(b, n)
    PROVE  l + w + n <= b.size /\ ByteRing(CopyItem(b, n), h, l, w + n)
<1> DEFINE S == b.size
           F == b.free
           end == (b.write + n) % S
           full == b.full \/ end = b.free
           waiting == b.waiting + n
           b2 == [b EXCEPT !.write = end, !.waiting = waiting, !.full = full]
<1>1. /\ S \in Nat \ {0} /\ l \in Nat /\ w \in Nat /\ F \in Nat /\ F < S
      /\ l + w <= S /\ b.write = Spot(S, F + l + w) /\ n \in 1 .. S
      /\ b.full <=> l + w = S
      /\ b.full \in BOOLEAN /\ b.kind = "bytebuf" /\ b.waiting = w
  BY DEF ByteRing
<1>2. CopyItem(b, n) = b2
  BY <1>1 DEF CopyItem, CopyItemByteBuf
<1>3. CheckItemFitsByteBuffer(b, n)
  BY <1>1 DEF CheckItemFits
<1>4. l + w + n <= S
  <2> HIDE DEF S, F
  <2> QED
    BY <1>1, <1>3 DEF CheckItemFitsByteBuffer, Spot, S, F
<1>5. end = Spot(S, b.write + n) /\ b.write \in Nat
  <2>1. b.write + n \in 0 .. 2 * S - 1 /\ b.write \in Nat
    BY <1>1, <1>4 DEF Spot
  <2> HIDE DEF S
  <2> QED
    BY <1>1, <2>1, ModIsSpot
<1> HIDE DEF end
<1>6. end = Spot(S, F + l + (w + n)) /\ end \in Nat
  BY <1>1, <1>4, <1>5 DEF Spot
<1>7. full \in BOOLEAN /\ (full <=> l + (w + n) = S) /\ waiting = w + n
  <2>1. ~b.full
    BY <1>1, <1>4
  <2>2. end = F <=> l + (w + n) = S
    <3> HIDE DEF S, F
    <3> QED
      BY <1>1, <1>4, <1>6 DEF Spot
  <2> HIDE DEF end
  <2> QED
    BY <1>1, <2>1, <2>2
<1> HIDE DEF full, waiting
<1>8. /\ b2.kind = b.kind /\ b2.size = b.size /\ b2.max = b.max
      /\ b2.free = b.free /\ b2.read = b.read /\ b2.write = end
      /\ b2.full = full /\ b2.waiting = waiting
      /\ b2 \in [kind : Kinds, size : Nat, max : Nat, write : Nat, read : Nat,
                 free : Nat, full : BOOLEAN, waiting : Nat, hdr : [Cells(0) -> Heads]]
  <2>1. b \in [kind : Kinds, size : Nat, max : Nat, write : Nat, read : Nat,
               free : Nat, full : BOOLEAN, waiting : Nat, hdr : [Cells(0) -> Heads]]
    BY DEF ByteRing
  <2>2. waiting \in Nat
    BY <1>1, <1>7
  <2> QED
    BY <1>6, <1>7, <2>1, <2>2
<1> HIDE DEF b2
<1>9. ByteRing(b2, h, l, w + n)
  <2>1. w + n \in Nat /\ l + (w + n) <= S
    BY <1>1, <1>4
  <2> QED
    BY <1>6, <1>7, <1>8, <2>1 DEF ByteRing
<1> QED
  BY <1>2, <1>4, <1>9

(* A get from a byte buffer, limited or not, lends the oldest bytes, and   *)
(* only when none are lent.                                                *)
LEMMA BytesTaken ==
    ASSUME NEW b, NEW h, NEW l, NEW w, ByteRing(b, h, l, w),
           CheckItemAvail(b), NEW maxSize \in Nat, NEW got, got = GotOne(b, maxSize)
    PROVE  /\ l = 0 /\ h = {}
           /\ \E n \in 1 .. w : ByteRing(got.rb, h \cup got.items, n, w - n)
<1> DEFINE S == b.size
           F == b.free
           run == IF b.read > b.write \/ b.full THEN b.size - b.read
                                                ELSE b.write - b.read
           n == IF maxSize = 0 \/ run <= maxSize THEN run ELSE maxSize
           read == (b.read + n) % S
           waiting == b.waiting - n
           b2 == [b EXCEPT !.waiting = waiting, !.read = read]
<1>1. /\ S \in Nat \ {0} /\ l \in Nat /\ w \in Nat /\ F \in Nat /\ F < S
      /\ l + w <= S /\ b.write = Spot(S, F + l + w)
      /\ b.full <=> l + w = S
      /\ b.full \in BOOLEAN /\ b.kind = "bytebuf" /\ b.waiting = w
      /\ b.read = Spot(S, F + l) /\ F + l <= S
  BY DEF ByteRing
<1>2. b.read = F /\ w > 0
  BY <1>1 DEF CheckItemAvail
<1>3. l = 0
  <2> HIDE DEF S, F
  <2> QED
    BY <1>1, <1>2 DEF Spot
<1>4. h = {}
  BY <1>3 DEF ByteRing
<1>5. run \in 1 .. w /\ F + run <= S
  <2> DEFINE R == b.read
             W == b.write
             U == b.full
  <2>1. R = F /\ W = Spot(S, F + w) /\ (U <=> w = S) /\ w > 0 /\ w <= S
    BY <1>1, <1>2, <1>3
  <2>2. run = IF R > W \/ U THEN S - R ELSE W - R
    OBVIOUS
  <2> HIDE DEF S, F, R, W, U, run
  <2> QED
    BY <1>1, <2>1, <2>2 DEF Spot
<1>6. got.rb = b2 /\ got.items = {Part(F, n, {})}
  BY <1>1, <1>2 DEF GotOne, GetItemByteBuf
<1> HIDE DEF run
<1>7. n \in 1 .. w /\ F + n <= S
  BY <1>1, <1>5
<1> HIDE DEF n
<1>8. read = Spot(S, F + n)
  <2>1. F + n \in 0 .. 2 * S - 1
    BY <1>1, <1>7
  <2> HIDE DEF S, F
  <2> QED
    BY <1>1, <1>2, <2>1, ModIsSpot
<1> HIDE DEF read
<1>9. waiting = w - n /\ waiting \in Nat /\ read \in Nat
  BY <1>1, <1>7, <1>8 DEF Spot
<1> HIDE DEF waiting
<1>10. /\ b2.kind = b.kind /\ b2.size = b.size /\ b2.max = b.max
       /\ b2.free = b.free /\ b2.read = read /\ b2.write = b.write
       /\ b2.full = b.full /\ b2.waiting = waiting
       /\ b2 \in [kind : Kinds, size : Nat, max : Nat, write : Nat, read : Nat,
                  free : Nat, full : BOOLEAN, waiting : Nat, hdr : [Cells(0) -> Heads]]
  BY <1>9 DEF ByteRing
<1> HIDE DEF b2
<1>11. ByteRing(b2, h \cup got.items, n, w - n)
  <2>1. /\ n \in Nat /\ w - n \in Nat /\ n + (w - n) = w /\ n # 0
        /\ F + n + (w - n) = F + l + w /\ l + w = w
    BY <1>1, <1>3, <1>7
  <2>2. h \cup got.items = IF n = 0 THEN {} ELSE {Part(b2.free, n, {})}
    BY <1>4, <1>6, <1>10, <2>1
  <2> QED
    BY <1>1, <1>7, <1>8, <1>9, <1>10, <2>1, <2>2 DEF ByteRing
<1> QED
  BY <1>3, <1>4, <1>6, <1>7, <1>11

(* A return to a byte buffer gives all that is lent back.                  *)
LEMMA BytesReturned ==
    ASSUME NEW b, NEW h, NEW l, NEW w, ByteRing(b, h, l, w), NEW item \in h
    PROVE  l > 0 /\ ByteRing(ReturnItem(b, item.off), h \ {item}, 0, w)
<1> DEFINE read == b.read
           b2 == [b EXCEPT !.free = read, !.full = FALSE]
           S == b.size
           F == b.free
<1>1. /\ S \in Nat \ {0} /\ l \in Nat /\ w \in Nat /\ F \in Nat /\ F < S
      /\ l + w <= S /\ b.write = Spot(S, F + l + w)
      /\ b.kind = "bytebuf" /\ b.waiting = w
      /\ b.read = Spot(S, F + l) /\ F + l <= S
  BY DEF ByteRing
<1>2. l # 0 /\ h \ {item} = {}
  BY DEF ByteRing
<1>3. ReturnItem(b, item.off) = b2
  BY <1>1 DEF ReturnItem, ReturnItemByteBuf
<1> HIDE DEF read
<1>4. /\ b2.kind = b.kind /\ b2.size = b.size /\ b2.max = b.max
      /\ b2.free = read /\ b2.read = b.read /\ b2.write = b.write
      /\ b2.full = FALSE /\ b2.waiting = b.waiting
      /\ b2 \in [kind : Kinds, size : Nat, max : Nat, write : Nat, read : Nat,
                 free : Nat, full : BOOLEAN, waiting : Nat, hdr : [Cells(0) -> Heads]]
  BY DEF ByteRing, read
<1> HIDE DEF b2
<1>5. /\ read \in Nat /\ read < S /\ read + 0 <= S
      /\ b.read = Spot(S, read + 0) /\ b.write = Spot(S, read + 0 + w)
      /\ 0 + w < S
  <2> HIDE DEF S, F
  <2> QED
    BY <1>1, <1>2 DEF Spot, read
<1>6. ByteRing(b2, {}, 0, w)
  BY <1>1, <1>4, <1>5 DEF ByteRing
<1> QED
  BY <1>1, <1>2, <1>3, <1>6

(* The free size is what neither is held nor waits.                        *)
LEMMA BytesFree ==
    ASSUME NEW b, NEW h, NEW l, NEW w, ByteRing(b, h, l, w), ~b.full
    PROVE  GetFreeSize(b) = b.size - (l + w)
<1> DEFINE S == b.size
           F == b.free
           W == b.write
<1>1. /\ S \in Nat \ {0} /\ l \in Nat /\ w \in Nat /\ F \in Nat /\ F < S
      /\ l + w < S /\ W = Spot(S, F + l + w)
  BY DEF ByteRing
<1>2. GetFreeSize(b) = IF F > W THEN F - W ELSE F - W + S
  BY DEF GetFreeSize
<1> HIDE DEF S, F, W
<1>3. GetFreeSize(b) = S - (l + w)
  BY <1>1, <1>2 DEF Spot
<1> QED
  BY <1>3 DEF S

(* What the storage of a byte buffer shows.                                *)
LEMMA BytesAre ==
    ASSUME NEW b, NEW h, NEW l, NEW w, ByteRing(b, h, l, w)
    PROVE  /\ States(b) = Loan(l, w)
           /\ DOMAIN Contents(b) = 1 .. l + w
           /\ l > 0 => Contents(b)[1] = [off |-> b.free, state |-> "client"]
<1> DEFINE S == b.size
           F == b.free
           live == IF b.full THEN b.size ELSE b.size - GetFreeSize(b)
           bytes == [i \in 1 .. live |->
                       [off |-> (F + i - 1) % S,
                        state |-> IF i <= live - b.waiting THEN "client" ELSE "unread"]]
<1>1. /\ S \in Nat \ {0} /\ l \in Nat /\ w \in Nat /\ F \in Nat /\ F < S
      /\ l + w <= S /\ b.write = Spot(S, F + l + w)
      /\ b.full <=> l + w = S
      /\ b.full \in BOOLEAN /\ b.kind = "bytebuf" /\ b.waiting = w
  BY DEF ByteRing
<1>2. ~b.full => GetFreeSize(b) = S - (l + w)
  BY BytesFree
<1>3. Contents(b) = bytes
  BY <1>1 DEF Contents, Bytes
<1>4. live = l + w /\ live - b.waiting = l
  BY <1>1, <1>2
<1> HIDE DEF live
<1>5. DOMAIN bytes = 1 .. l + w /\ DOMAIN Contents(b) = 1 .. l + w
  BY <1>3, <1>4
<1>6. \A i \in 1 .. l + w : bytes[i].state = IF i <= l THEN "client" ELSE "unread"
  BY <1>4
<1>7. l > 0 => bytes[1] = [off |-> F, state |-> "client"]
  <2> SUFFICES ASSUME l > 0 PROVE bytes[1] = [off |-> F, state |-> "client"]
    OBVIOUS
  <2>1. 1 \in 1 .. l + w /\ 1 <= l /\ F + 1 - 1 = F
    BY <1>1
  <2>2. F % S = F
    <3>1. F \in 0 .. 2 * S - 1
      BY <1>1
    <3> HIDE DEF S, F
    <3>2. F % S = Spot(S, F)
      BY <1>1, <3>1, ModIsSpot
    <3> QED
      BY <1>1, <3>2 DEF Spot
  <2> HIDE DEF S, F
  <2> QED
    BY <1>4, <2>1, <2>2
<1>8. States(b) = Loan(l, w)
  <2>1. States(b) = [i \in DOMAIN bytes |-> bytes[i].state]
    BY <1>3 DEF States
  <2> HIDE DEF bytes
  <2>2. [i \in DOMAIN bytes |-> bytes[i].state] = Loan(l, w)
    BY <1>5, <1>6 DEF Loan
  <2> QED
    BY <2>1, <2>2
<1> QED
  BY <1>3, <1>5, <1>7, <1>8

(* Its states are a loan.                                                  *)
LEMMA BytesStates ==
    ASSUME NEW b, NEW h, NEW l, NEW w, ByteRing(b, h, l, w)
    PROVE  States(b) = Loan(l, w)
  BY BytesAre

------------------------------------------------------------------------------
(* The inductive invariant                                                 *)

(* A buffer whose headers can be unrolled, when the client holds h.        *)
HoldsItems(b, h) ==
    \E n, r, d, p : Sized(b) /\ Chained(b, n, r, d, p) /\ Owned(b, h, n, r, p)

(* A byte buffer whose bytes can, and the invariant.                       *)
HoldsBytes(b, h) == \E l, w : ByteRing(b, h, l, w)

Inv == HoldsItems(rb, held) \/ HoldsBytes(rb, held)

(* No buffer that is created has more room for headers or bytes than the   *)
(* queue has for parts.                                                    *)
LEMMA MostPartsIs ==
    /\ MostParts \in Nat /\ ByteRequest <= MostParts
    /\ 2 * Align(ItemRequest \div 2) < Header * (MostParts + 1)
    /\ Align(ItemRequest) < Header * (MostParts + 1)
<1> DEFINE k == ItemRequest \div 2
           a == 2 * Align(k)
<1>1. ItemRequest \in Nat /\ ByteRequest \in Nat
  BY ItemsAssumption
<1>2. k \in Nat /\ ItemRequest <= 2 * k + 1
  <2>1. /\ ItemRequest % 2 \in 0 .. 1 /\ k \in Nat
        /\ ItemRequest = 2 * k + (ItemRequest % 2)
    BY <1>1, DivMod
  <2> HIDE DEF k
  <2> QED
    BY <2>1
<1>3. Align(k) \in Nat /\ k <= Align(k) /\ Align(k) % 4 = 0
  BY <1>2, AlignIs DEF Aligned, Word
<1>4. Align(ItemRequest) \in Nat /\ Align(ItemRequest) <= ItemRequest + 3
  BY <1>1, AlignIs
<1>5. a \in Nat
  BY <1>3
<1>6. a \div 8 \in Nat /\ a < 8 * (a \div 8) + 8 /\ 8 * (a \div 8) <= a
  <2> HIDE DEF a
  <2>1. a % 8 \in 0 .. 7 /\ a \div 8 \in Nat /\ a = 8 * (a \div 8) + (a % 8)
    BY <1>5, DivMod
  <2> QED
    BY <1>5, <2>1
<1> DEFINE m == a \div 8
<1>7. MostParts = IF m > ByteRequest THEN m ELSE ByteRequest
  BY DEF MostParts, Header
<1>8. a = 8 * m
  <2>1. a % 8 = 0
    <3> HIDE DEF k
    <3> QED
      BY <1>3
  <2> HIDE DEF a
  <2>2. a % 8 \in 0 .. 7 /\ a \div 8 \in Nat /\ a = 8 * (a \div 8) + (a % 8)
    BY <1>5, DivMod
  <2> QED
    BY <1>5, <2>1, <2>2
<1> HIDE DEF m, k
<1>9. m \in Nat /\ Align(ItemRequest) < 8 * m + 8 /\ a < 8 * m + 8
  <2>1. Align(ItemRequest) <= 2 * k + 4 /\ 2 * k <= a
    BY <1>1, <1>2, <1>3, <1>4
  <2> HIDE DEF a
  <2> QED
    BY <1>2, <1>4, <1>5, <1>6, <1>8, <2>1 DEF m
<1> HIDE DEF a
<1>10. MostParts \in Nat /\ m <= MostParts /\ ByteRequest <= MostParts
  BY <1>1, <1>7, <1>9
<1>11. a < 8 * (MostParts + 1) /\ Align(ItemRequest) < 8 * (MostParts + 1)
  BY <1>4, <1>5, <1>9, <1>10
<1> QED
  BY <1>10, <1>11 DEF a, k, Header

(* An empty buffer of items.                                               *)
LEMMA CreatedHolds ==
    ASSUME NEW kind \in {"nosplit", "allowsplit"}, NEW request \in Nat,
           Align(request) >= 16, Align(request) < Header * (MostParts + 1)
    PROVE  HoldsItems(Create(kind, request), {})
<1> DEFINE S == Align(request)
           max == IF kind = "nosplit" THEN Align(S \div 2) - Header ELSE S - 2 * Header
           hdr == [o \in Cells(S) |-> Junk]
           b == Create(kind, request)
           p == [i \in 0 .. 0 |-> 0]
<1>1. S \in Nat /\ Aligned(S) /\ S >= 16
  BY AlignIs
<1>2. max \in Nat
  <2>1. S \div 2 \in Nat /\ S \div 2 >= 8
    <3> HIDE DEF S
    <3> QED
      BY <1>1
  <2>2. Align(S \div 2) \in Nat /\ Align(S \div 2) >= 8
    <3> HIDE DEF S
    <3> QED
      BY <2>1, AlignIs
  <2> QED
    BY <1>1, <2>2 DEF Header
<1>3. hdr \in [Cells(S) -> Heads]
  BY DEF Heads, Junk
<1>4. b = [kind |-> kind, size |-> S, max |-> max, write |-> 0, read |-> 0,
           free |-> 0, full |-> FALSE, waiting |-> 0, hdr |-> hdr]
  BY DEF Create
<1>5. max = IF kind = "nosplit" THEN Align(S \div 2) - Header ELSE S - 2 * Header
  OBVIOUS
<1> HIDE DEF S, max, hdr
<1>6. /\ b.kind = kind /\ b.size = S /\ b.max = max /\ b.write = 0 /\ b.read = 0
      /\ b.free = 0 /\ b.full = FALSE /\ b.waiting = 0 /\ b.hdr = hdr
      /\ b \in [kind : Kinds, size : Nat, max : Nat, write : Nat, read : Nat,
                free : Nat, full : BOOLEAN, waiting : Nat, hdr : [Cells(S) -> Heads]]
  BY <1>1, <1>2, <1>3, <1>4 DEF Kinds
<1> HIDE DEF b
<1>7. Sized(b)
  BY <1>1, <1>5, <1>6 DEF Sized, S, Header
<1>8. p \in [0 .. 0 -> Nat] /\ p[0] = 0 /\ \A i \in 0 .. 0 : i = 0
  OBVIOUS
<1> HIDE DEF p
<1>9. Laid(S, max, hdr, 0, p)
  <2>1. Place(S, 0, 0)
    BY <1>1, AlignedConstants DEF Place, Spot, Header
  <2> QED
    BY <1>1, <1>8, <2>1 DEF Laid
<1>10. Chained(b, 0, 0, 0, p)
  <2>1. Linked(b, 0, p)
    BY <1>1, <1>6, <1>8 DEF Linked, Spot
  <2>2. Marked(b, 0, 0, p)
    BY DEF Marked
  <2>3. Read(b, 0, 0, 0, p)
    BY <1>1, <1>6, <1>8 DEF Read, Spot
  <2> QED
    BY <1>6, <1>9, <2>1, <2>2, <2>3 DEF Chained
<1>11. Owned(b, {}, 0, 0, p)
  BY FS_EmptySet DEF Owned, Lent, Sole
<1> QED
  BY <1>7, <1>10, <1>11 DEF HoldsItems, b

(* An empty byte buffer.                                                   *)
LEMMA BytesCreated == HoldsBytes(Create("bytebuf", ByteRequest), {})
<1> DEFINE S == ByteRequest
           hdr == [o \in Cells(0) |-> Junk]
           b == Create("bytebuf", S)
<1>1. S \in Nat \ {0} /\ S <= MostParts
  BY ItemsAssumption, MostPartsIs
<1>2. b = [kind |-> "bytebuf", size |-> S, max |-> S, write |-> 0, read |-> 0,
           free |-> 0, full |-> FALSE, waiting |-> 0, hdr |-> hdr]
  BY DEF Create
<1>3. hdr \in [Cells(0) -> Heads]
  BY DEF Heads, Junk
<1> HIDE DEF hdr, S, b
<1>4. /\ b.kind = "bytebuf" /\ b.size = S /\ b.max = S /\ b.write = 0 /\ b.read = 0
      /\ b.free = 0 /\ b.full = FALSE /\ b.waiting = 0
      /\ b \in [kind : Kinds, size : Nat, max : Nat, write : Nat, read : Nat,
                free : Nat, full : BOOLEAN, waiting : Nat, hdr : [Cells(0) -> Heads]]
  <2>1. S \in Nat /\ "bytebuf" \in Kinds
    BY <1>1 DEF Kinds
  <2> QED
    BY <1>2, <1>3, <2>1
<1>5. ByteRing(b, {}, 0, 0)
  BY <1>1, <1>4 DEF ByteRing, Spot
<1> QED
  BY <1>5 DEF HoldsBytes, b, S

(* xRingbufferCreate and xRingbufferCreateNoSplit establish the invariant. *)
LEMMA InitHolds == Init => Inv
<1> SUFFICES ASSUME Init PROVE Inv
  OBVIOUS
<1>1. ItemRequest \in Nat /\ ItemRequest > 16
  BY ItemsAssumption DEF Header
<1>2. held = {}
  BY DEF Init
<1>3. CASE rb = CreateNoSplit(ItemRequest \div 2 - Header, 2)
  <2> DEFINE k == ItemRequest \div 2
             size == k - Header
             request == (Align(size) + Header) * 2
  <2>1. k \in Nat /\ k >= 8 /\ size \in Nat
    BY <1>1 DEF Header
  <2>2. Align(size) + 8 = Align(k) /\ Align(size) \in Nat
    <3> HIDE DEF k
    <3> QED
      BY <2>1 DEF Align, Word, Header
  <2>3. request = 2 * Align(k) /\ request \in Nat
    BY <2>2 DEF Header
  <2>4. Aligned(request)
    <3>1. Align(k) \in Nat /\ Aligned(Align(k))
      BY <2>1, AlignIs
    <3>2. Aligned(Align(k) + Align(k))
      BY <3>1, AlignedSum
    <3> QED
      BY <2>3, <3>1, <3>2
  <2>5. Align(request) = request /\ request >= 16
    <3>1. k <= Align(k) /\ Align(k) \in Nat
      BY <2>1, AlignIs
    <3> HIDE DEF request
    <3>2. Align(request) = request
      BY <2>3, <2>4, AlignIs
    <3> QED
      BY <2>1, <2>3, <3>1, <3>2
  <2>6. request < Header * (MostParts + 1)
    BY <2>3, MostPartsIs
  <2>7. rb = Create("nosplit", request)
    BY <1>3 DEF CreateNoSplit
  <2> HIDE DEF request
  <2> QED
    BY <1>2, <2>3, <2>5, <2>6, <2>7, CreatedHolds DEF Inv
<1>4. ASSUME NEW kind \in {"nosplit", "allowsplit"}, rb = Create(kind, ItemRequest)
      PROVE  Inv
  <2>1. Align(ItemRequest) >= 16
    BY <1>1, AlignIs
  <2>2. HoldsItems(Create(kind, ItemRequest), {})
    BY <1>1, <2>1, MostPartsIs, CreatedHolds
  <2> QED
    BY <1>2, <1>4, <2>2 DEF Inv
<1>5. CASE rb = Create("bytebuf", ByteRequest)
  BY <1>2, <1>5, BytesCreated DEF Inv
<1> QED
  BY <1>3, <1>4, <1>5 DEF Init, Kinds

------------------------------------------------------------------------------
(* The refinement                                                          *)

(* A step of the queue.                                                    *)
QueueStep(q, q2) ==
    \/ \E k \in 1 .. MostParts :
         Len(q) + k <= MostParts /\ q2 = Queue!Sent(q, k)
    \/ \E k \in 1 .. MostParts :
         k <= Queue!Cardinality(Queue!UnreadAt(q)) /\ q2 = Queue!Taken(q, "client", k)
    \/ \E i \in Queue!HeldAt(q, "client") : q2 = Queue!Returned(q, {i})
    \/ /\ Queue!HeldAt(q, "client") # {}
       /\ q2 = Queue!Returned(q, Queue!HeldAt(q, "client"))

(* The parts of the queue are the headers without the dummy.               *)
Count(d, n) == IF d < n THEN n - 1 ELSE n
Index(d, k) == IF k <= d THEN k - 1 ELSE k
Labels(b, n, r, d, p) == [k \in 1 .. Count(d, n) |-> State(b, r, p, Index(d, k))]

(* Every header but the dummy is one part of the queue, in the same order. *)
LEMMA IndexIs ==
    ASSUME NEW n \in Nat, NEW d \in 0 .. n
    PROVE  /\ Count(d, n) \in Nat /\ Count(d, n) <= n
           /\ \A k \in 1 .. Count(d, n) :
                Index(d, k) \in 0 .. n - 1 /\ Index(d, k) # d
           /\ \A i \in 0 .. n - 1 : i # d =>
                \E k \in 1 .. Count(d, n) : Index(d, k) = i
<1>1. ASSUME NEW i \in 0 .. n - 1, i # d
      PROVE  \E k \in 1 .. Count(d, n) : Index(d, k) = i
  <2>1. CASE i < d
    <3>1. i + 1 \in 1 .. Count(d, n) /\ Index(d, i + 1) = i
      BY <2>1 DEF Count, Index
    <3> QED
      BY <3>1
  <2>2. CASE i > d
    <3>1. i \in 1 .. Count(d, n) /\ Index(d, i) = i
      BY <2>2 DEF Count, Index
    <3> QED
      BY <3>1
  <2> QED
    BY <1>1, <2>1, <2>2
<1> QED
  BY <1>1 DEF Count, Index

(* What Contents and States read off the storage are the labels of its     *)
(* headers.                                                                *)
LEMMA StatesAre ==
    ASSUME NEW b, NEW n, NEW r, NEW d, NEW p, Sized(b), Chained(b, n, r, d, p)
    PROVE  /\ States(b) = Labels(b, n, r, d, p)
           /\ Labels(b, n, r, d, p) \in [1 .. Count(d, n) -> PartStates]
           /\ DOMAIN Contents(b) = 1 .. Count(d, n)
           /\ \A k \in 1 .. Count(d, n) :
                Contents(b)[k] = [off |-> Spot(b.size, p[Index(d, k)]),
                                  state |-> State(b, r, p, Index(d, k))]
<1> DEFINE e == Entries(b, n, r, p)
           N == Count(d, n)
<1>1. n \in Nat /\ d \in 0 .. n
  BY AllRead
<1>2. Contents(b) = But(e, d, n)
  BY ItemsAre DEF Contents, Sized
<1>3. \A k \in 1 .. N : Index(d, k) \in 0 .. n - 1
  BY <1>1, IndexIs
<1>4. But(e, d, n) = [k \in 1 .. N |-> e[Index(d, k)]]
  BY DEF But, Index, Count
<1>5. \A k \in 1 .. N : e[Index(d, k)] =
            [off |-> Spot(b.size, p[Index(d, k)]), state |-> State(b, r, p, Index(d, k))]
  BY <1>3 DEF Entries
<1> HIDE DEF e, N
<1>6. DOMAIN Contents(b) = 1 .. N
  BY <1>2, <1>4
<1>7. \A k \in 1 .. N : Contents(b)[k] =
            [off |-> Spot(b.size, p[Index(d, k)]), state |-> State(b, r, p, Index(d, k))]
  BY <1>2, <1>4, <1>5
<1>8. States(b) = [k \in 1 .. N |-> State(b, r, p, Index(d, k))]
  BY <1>6, <1>7 DEF States
<1>9. \A i : State(b, r, p, i) \in PartStates
  BY DEF State, PartStates
<1> QED
  BY <1>6, <1>7, <1>8, <1>9 DEF Labels, N

(* The parts of a buffer fit in the queue.                                 *)
LEMMA CountFits ==
    ASSUME NEW b, NEW n, NEW r, NEW d, NEW p, Sized(b), Chained(b, n, r, d, p)
    PROVE  Count(d, n) \in Nat /\ n <= MostParts /\ Count(d, n) <= MostParts
<1>1. n \in Nat /\ d \in 0 .. n
  BY AllRead
<1>2. 8 * n <= b.size
  <2>1. /\ b.size \in Nat /\ Aligned(b.size) /\ b.max \in Nat
        /\ Laid(b.size, b.max, b.hdr, n, p)
    BY DEF Sized, Chained
  <2> QED
    BY <2>1, LaidRoom
<1>3. b.size \in Nat /\ b.size < 8 * (MostParts + 1) /\ MostParts \in Nat
  BY MostPartsIs DEF Sized, Header
<1>4. n <= MostParts
  BY <1>1, <1>2, <1>3
<1>5. Count(d, n) \in Nat /\ Count(d, n) <= n
  BY <1>1, IndexIs
<1> QED
  BY <1>1, <1>3, <1>4, <1>5

(* A send puts new unread parts at the end of the queue.                   *)
LEMMA SendQueued ==
    ASSUME NEW b, NEW n, NEW r, NEW d, NEW p, Sized(b), Chained(b, n, r, d, p),
           NEW b2, NEW n2, NEW d2, NEW p2, Sized(b2), Chained(b2, n2, r, d2, p2),
           Grown(b, b2, n, d, p, n2, d2, p2)
    PROVE  \E k \in 1 .. MostParts :
             /\ Len(States(b)) + k <= MostParts
             /\ States(b2) = Queue!Sent(States(b), k)
<1> DEFINE N == Count(d, n)
           N2 == Count(d2, n2)
           k == N2 - N
           q == Labels(b, n, r, d, p)
           q2 == Labels(b2, n2, r, d2, p2)
<1>1. n \in Nat /\ d \in 0 .. n /\ n2 \in {n + 1, n + 2} /\ d2 \in 0 .. n2 /\ r \in 0 .. n
  BY AllRead DEF Grown
<1>2. States(b) = q /\ q \in [1 .. N -> PartStates] /\ States(b2) = q2
  BY StatesAre
<1>3. N \in Nat /\ N2 \in Nat /\ N2 <= MostParts /\ MostParts \in Nat
  BY CountFits, MostPartsIs
<1>4. k \in 1 .. 2 /\ N + k = N2
  BY <1>1 DEF Grown, Count
<1>5. ASSUME NEW i \in 1 .. N PROVE q2[i] = q[i] /\ i \in 1 .. N2
  <2>1. Index(d2, i) = Index(d, i) /\ i \in 1 .. N2 /\ Index(d, i) \in 0 .. n - 1
    BY <1>1 DEF Grown, Count, Index
  <2>2. At(b2, p2, Index(d, i)) = At(b, p, Index(d, i))
    BY <2>1 DEF Grown
  <2> QED
    BY <2>1, <2>2 DEF Labels, State
<1>6. ASSUME NEW i \in N + 1 .. N2 PROVE q2[i] = "unread" /\ i \in 1 .. N2
  <2>1. Index(d2, i) \in n .. n2 - 1 /\ i \in 1 .. N2
    BY <1>1 DEF Grown, Count, Index
  <2>2. At(b2, p2, Index(d2, i)).flags # {"FREE"} /\ ~(Index(d2, i) < r)
    BY <1>1, <2>1 DEF Grown
  <2> QED
    BY <2>1, <2>2 DEF Labels, State
<1>7. q2 = [i \in 1 .. N2 |-> q2[i]]
  BY DEF Labels
<1> HIDE DEF q, q2
<1> HIDE DEF N, N2
<1>8. Queue!Sent(q, k) = Longer(q, N, k)
  <2>1. k \in Nat
    BY <1>4
  <2>2. q = [i \in 1 .. N |-> q[i]]
    BY <1>2
  <2> HIDE DEF k
  <2> QED
    BY <1>3, <2>1, <2>2, SentIs
<1>9. \A i \in 1 .. N2 : q2[i] = IF i <= N THEN q[i] ELSE "unread"
  <2> TAKE i \in 1 .. N2
  <2>1. i \in 1 .. N \/ i \in N + 1 .. N2
    BY <1>3
  <2> QED
    BY <1>3, <1>5, <1>6, <2>1
<1>10. q2 = Queue!Sent(q, k)
  BY <1>4, <1>7, <1>8, <1>9 DEF Longer
<1>11. Len(q) = N
  BY <1>2, <1>3
<1>12. k \in 1 .. MostParts /\ Len(q) + k <= MostParts
  BY <1>3, <1>4, <1>11
<1> HIDE DEF k
<1> QED
  BY <1>2, <1>10, <1>12

(* The parts under the first r headers.                                    *)
Rank(d, r) == IF d < r THEN r - 1 ELSE r

(* They are the first parts.                                               *)
LEMMA RankIs ==
    ASSUME NEW n \in Nat, NEW d \in 0 .. n, NEW r \in 0 .. n
    PROVE  /\ Rank(d, r) \in 0 .. Count(d, n)
           /\ \A k \in 1 .. Count(d, n) : Index(d, k) < r <=> k <= Rank(d, r)
  BY DEF Rank, Count, Index

(* The unread parts are those from the read pointer on.                    *)
LEMMA UnreadRun ==
    ASSUME NEW b, NEW n, NEW r, NEW d, NEW p, Sized(b), Chained(b, n, r, d, p)
    PROVE  /\ Queue!UnreadAt(States(b)) = Rank(d, r) + 1 .. Count(d, n)
           /\ Rank(d, r) \in 0 .. Count(d, n)
           /\ Count(d, n) - Rank(d, r) = b.waiting
<1> DEFINE N == Count(d, n)
           c == Rank(d, r)
           q == Labels(b, n, r, d, p)
<1>1. n \in Nat /\ d \in 0 .. n /\ r \in 0 .. n /\ (d < n => r # d + 1)
  BY AllRead DEF Chained, Read
<1>2. /\ c \in 0 .. N /\ N \in Nat
      /\ \A k \in 1 .. N : Index(d, k) < r <=> k <= c
      /\ \A k \in 1 .. N : Index(d, k) \in 0 .. n - 1
  BY <1>1, RankIs, IndexIs
<1>3. States(b) = q /\ DOMAIN q = 1 .. N
  BY StatesAre
<1>4. ASSUME NEW k \in 1 .. N PROVE q[k] = "unread" <=> k > c
  <2> DEFINE i == Index(d, k)
  <2>1. q[k] = State(b, r, p, i)
    BY DEF Labels
  <2>2. i \in 0 .. n - 1 /\ (i < r <=> k <= c)
    BY <1>2
  <2> HIDE DEF i
  <2>3. i >= r => At(b, p, i).flags # {"FREE"}
    <3>1. i >= r => i \in r .. n - 1
      BY <1>1, <2>2
    <3> QED
      BY <3>1 DEF Chained, Read
  <2> HIDE DEF q, c, N
  <2>4. CASE k <= c
    BY <1>2, <2>1, <2>2, <2>4 DEF State
  <2>5. CASE k > c
    <3>1. i >= r /\ ~(i < r)
      BY <1>1, <1>2, <2>2, <2>5
    <3> QED
      BY <2>1, <2>3, <2>5, <3>1 DEF State
  <2> QED
    BY <1>2, <2>4, <2>5
<1>5. N - c = b.waiting
  <2>1. b.waiting = n - r - (IF r <= d /\ d < n THEN 1 ELSE 0)
    BY DEF Chained, Read
  <2> QED
    BY <1>1, <2>1 DEF Count, Rank
<1> HIDE DEF q, c, N
<1>6. Queue!UnreadAt(q) = c + 1 .. N
  <2>1. Queue!UnreadAt(q) = {k \in 1 .. N : q[k] = "unread"}
    BY <1>3 DEF Queue!UnreadAt
  <2>2. \A k \in 1 .. N : q[k] = "unread" <=> k \in c + 1 .. N
    BY <1>2, <1>4
  <2>3. c + 1 .. N \subseteq 1 .. N
    BY <1>2
  <2> QED
    BY <2>1, <2>2, <2>3
<1> QED
  BY <1>2, <1>3, <1>5, <1>6 DEF c, N

(* A receive takes the oldest unread parts of the queue, one or both       *)
(* halves of an item.                                                      *)
LEMMA ReceiveQueued ==
    ASSUME NEW b, NEW n, NEW r, NEW d, NEW p, Sized(b), Chained(b, n, r, d, p),
           NEW got, NEW r2, Received(b, got, n, r, d, p, r2)
    PROVE  \E k \in 1 .. MostParts :
             /\ k <= Queue!Cardinality(Queue!UnreadAt(States(b)))
             /\ States(got.rb) = Queue!Taken(States(b), "client", k)
<1> DEFINE b2 == got.rb
           N == Count(d, n)
           c == Rank(d, r)
           c2 == Rank(d, r2)
           k == c2 - c
           q == Labels(b, n, r, d, p)
           q2 == Labels(b2, n, r2, d, p)
<1>1. /\ n \in Nat /\ d \in 0 .. n /\ r \in 0 .. n /\ (d < n => r # d + 1)
      /\ r2 \in r + 1 .. n /\ r2 \in 0 .. n
      /\ Sized(b2) /\ Chained(b2, n, r2, d, p) /\ (d < n => r2 # d + 1)
  <2>1. n \in Nat /\ d \in 0 .. n /\ r \in 0 .. n
    BY AllRead
  <2>2. d < n => r # d + 1
    BY DEF Chained, Read
  <2>3. r2 \in r + 1 .. n /\ Sized(b2) /\ Chained(b2, n, r2, d, p)
    BY DEF Received
  <2>4. d < n => r2 # d + 1
    BY <2>3 DEF Chained, Read
  <2> QED
    BY <2>1, <2>2, <2>3, <2>4
<1>2. /\ c \in 0 .. N /\ c2 \in 0 .. N /\ N \in Nat
      /\ \A j \in 1 .. N : Index(d, j) < r <=> j <= c
      /\ \A j \in 1 .. N : Index(d, j) < r2 <=> j <= c2
      /\ \A j \in 1 .. N : Index(d, j) \in 0 .. n - 1
  BY <1>1, RankIs, IndexIs
<1>3. States(b) = q /\ DOMAIN q = 1 .. N /\ States(b2) = q2
  <2> HIDE DEF b2
  <2> QED
    BY <1>1, StatesAre
<1>4. c < c2
  <2>1. PICK i \in Passed(r, d, r2) : TRUE
    BY DEF Received
  <2>2. i \in r .. r2 - 1 /\ i # d
    BY DEF Passed
  <2> QED
    BY <1>1, <2>2 DEF Rank
<1>5. Queue!UnreadAt(q) = c + 1 .. N
  BY <1>3, UnreadRun
<1>6. ASSUME NEW j \in 1 .. N
      PROVE  q2[j] = IF j \in c + 1 .. c + k THEN "client" ELSE q[j]
  <2> DEFINE i == Index(d, j)
  <2>1. q[j] = State(b, r, p, i) /\ q2[j] = State(b2, r2, p, i)
    BY DEF Labels
  <2>2. i \in 0 .. n - 1 /\ (i < r <=> j <= c) /\ (i < r2 <=> j <= c2)
    BY <1>2
  <2> HIDE DEF i
  <2>3. At(b2, p, i) = At(b, p, i)
    BY DEF Received, Moved, At
  <2>4. i >= r => At(b, p, i).flags # {"FREE"}
    <3>1. i >= r => i \in r .. n - 1
      BY <1>1, <2>2
    <3> QED
      BY <3>1 DEF Chained, Read
  <2>5. j \in c + 1 .. c + k <=> ~(i < r) /\ i < r2
    BY <1>2, <2>2
  <2>6. i < r => i < r2
    BY <1>1, <2>2
  <2> HIDE DEF b2, q, q2, c, c2, N, k
  <2>7. ~(i < r) => i >= r
    BY <1>1, <2>2
  <2> QED
    BY <2>1, <2>3, <2>4, <2>5, <2>6, <2>7 DEF State
<1>7. q2 = [j \in 1 .. N |-> q2[j]]
  BY DEF Labels
<1>8. k \in 1 .. N - c
  BY <1>2, <1>4
<1>9. N <= MostParts /\ MostParts \in Nat
  BY CountFits, MostPartsIs
<1> HIDE DEF b2, q, q2, c, c2, N, k
<1>10. /\ Queue!Taken(q, "client", k) = Handed(q, N, c, k, "client")
       /\ Cardinality(Queue!UnreadAt(q)) = N - c
  BY <1>2, <1>3, <1>5, <1>8, TakenRun
<1>11. q2 = Queue!Taken(q, "client", k)
  BY <1>6, <1>7, <1>10 DEF Handed
<1>12. k \in 1 .. MostParts /\ k <= Queue!Cardinality(Queue!UnreadAt(q))
  BY <1>2, <1>8, <1>9, <1>10, SameCount
<1> QED
  BY <1>3, <1>11, <1>12 DEF b2

(* The parts of the queue without those under the first J headers.         *)
LEMMA DropCounts ==
    ASSUME NEW n \in Nat, NEW d \in 0 .. n, NEW J \in 0 .. n
    PROVE  LET D == DropAt(n, d, J)
           IN  /\ Count(D, n - J) = Count(d, n) - Rank(d, J)
               /\ Rank(d, J) \in 0 .. Count(d, n)
               /\ \A i \in 1 .. Count(D, n - J) :
                    J + Index(D, i) = Index(d, Rank(d, J) + i)
  BY DEF DropAt, Count, Rank, Index

(* A return frees one part of the queue, and the freed parts at its front  *)
(* are dropped, whatever the order of the returns.                         *)
LEMMA ReturnQueued ==
    ASSUME NEW b, NEW n, NEW r, NEW d, NEW p, Sized(b), Chained(b, n, r, d, p),
           NEW k \in Lent(b, r, p),
           NEW b1, NEW b3, NEW J, NEW q, Gone(b, b1, b3, n, r, d, p, k, J, q)
    PROVE  QueueStep(States(b), States(b3))
<1> DEFINE N == Count(d, n)
           f == Rank(d, J)
           D == DropAt(n, d, J)
           q0 == Labels(b, n, r, d, p)
           q1 == Labels(b1, n, r, d, p)
           q3 == Labels(b3, n - J, r - J, D, q)
<1>1. /\ n \in Nat /\ d \in 0 .. n /\ r \in 0 .. n /\ J \in 0 .. r /\ J \in 0 .. n
      /\ k \in 0 .. r - 1 /\ k \in 0 .. n - 1
      /\ Sized(b1) /\ Chained(b1, n, r, d, p)
      /\ Sized(b3) /\ Chained(b3, n - J, r - J, D, q)
  BY AllRead DEF Gone, Lent
<1>2. /\ N \in Nat /\ f \in 0 .. N
      /\ \A i \in 1 .. N : Index(d, i) \in 0 .. n - 1 /\ Index(d, i) # d
      /\ \A i \in 1 .. N : Index(d, i) < J <=> i <= f
  BY <1>1, IndexIs, RankIs
<1>3. /\ States(b) = q0 /\ q0 \in [1 .. N -> PartStates]
      /\ q1 \in [1 .. N -> PartStates] /\ States(b3) = q3
  BY <1>1, StatesAre
<1>4. k # d /\ At(b, p, k).flags # {"FREE"}
  BY <1>1 DEF Lent, Over, Chained, Marked
<1>5. PICK pos \in 1 .. N : Index(d, pos) = k
  BY <1>1, <1>4, IndexIs
<1>6. pos \in Queue!HeldAt(q0, "client")
  <2>1. q0[pos] = State(b, r, p, k)
    BY <1>5 DEF Labels
  <2>2. State(b, r, p, k) = "client"
    BY <1>1, <1>4 DEF State
  <2> HIDE DEF q0
  <2> QED
    BY <1>3, <2>1, <2>2 DEF Queue!HeldAt
<1>7. q1 = [i \in 1 .. N |-> IF i \in {pos} THEN "freed" ELSE q0[i]]
  <2>1. ASSUME NEW i \in 1 .. N PROVE q1[i] = IF i \in {pos} THEN "freed" ELSE q0[i]
    <3> DEFINE j == Index(d, i)
    <3>1. q1[i] = State(b1, r, p, j) /\ q0[i] = State(b, r, p, j)
      BY DEF Labels
    <3>2. j \in 0 .. n - 1 /\ (i # pos => j # k)
      BY <1>1, <1>2, <1>5 DEF Index
    <3>3. i = pos => j = k
      BY <1>5
    <3> HIDE DEF j
    <3>4. j = k => At(b1, p, j).flags = {"FREE"}
      BY DEF Gone
    <3>5. j # k => At(b1, p, j) = At(b, p, j)
      BY <3>2 DEF Gone
    <3> HIDE DEF q0, q1
    <3> QED
      BY <3>1, <3>2, <3>3, <3>4, <3>5 DEF State
  <2>2. q1 = [i \in 1 .. N |-> q1[i]]
    BY DEF Labels
  <2> HIDE DEF q1, q0
  <2> QED
    BY <2>1, <2>2
<1>8. Queue!Returned(q0, {pos}) = Queue!Reclaim(q1)
  <2>1. DOMAIN q0 = 1 .. N
    BY <1>3
  <2> HIDE DEF q1, q0
  <2> QED
    BY <1>7, <2>1 DEF Queue!Returned
<1>9. Freed(q1, N, f)
  <2>1. ASSUME NEW i \in 1 .. f PROVE q1[i] = "freed"
    <3> DEFINE j == Index(d, i)
    <3>1. i \in 1 .. N /\ i <= f
      BY <1>2
    <3>2. q1[i] = State(b1, r, p, j)
      BY <3>1 DEF Labels
    <3>3. j \in 0 .. J - 1 /\ j \in 0 .. n - 1 /\ j # d
      BY <1>1, <1>2, <3>1
    <3> HIDE DEF j
    <3>4. At(b1, p, j).flags = {"FREE"}
      <4>1. Over(b1, p, j)
        BY <3>3 DEF Gone
      <4>2. At(b1, p, j).flags # {"DUMMY"}
        BY <1>1, <3>3 DEF Chained, Marked
      <4> QED
        BY <4>1, <4>2 DEF Over
    <3> QED
      BY <3>2, <3>4 DEF State
  <2>2. ASSUME f < N PROVE q1[f + 1] # "freed"
    <3> DEFINE j == Index(d, f + 1)
    <3>1. f + 1 \in 1 .. N /\ ~(f + 1 <= f)
      BY <1>2, <2>2
    <3>2. q1[f + 1] = State(b1, r, p, j)
      BY <3>1 DEF Labels
    <3>3. j \in 0 .. n - 1 /\ ~(j < J)
      BY <1>2, <3>1
    <3>4. J # d => j = J
      BY <1>1 DEF Rank, Index
    <3> HIDE DEF j, f
    <3>5. At(b1, p, j).flags # {"FREE"}
      <4>1. CASE J < r
        <5>1. ~Over(b1, p, J) /\ J \in 0 .. n - 1
          BY <1>1, <4>1 DEF Gone
        <5>2. J # d
          BY <1>1, <5>1 DEF Over, Chained, Marked
        <5> QED
          BY <3>4, <5>1, <5>2 DEF Over
      <4>2. CASE J = r
        <5>1. j \in r .. n - 1
          BY <1>1, <3>3, <4>2
        <5> QED
          BY <1>1, <5>1 DEF Chained, Read
      <4> QED
        BY <1>1, <4>1, <4>2
    <3> QED
      BY <3>2, <3>5 DEF State
  <2> HIDE DEF q1, f, N
  <2> QED
    BY <2>1, <2>2 DEF Freed
<1>10. Queue!Reclaim(q1) = Rest(q1, N, f)
  <2> HIDE DEF q1, f, N
  <2> QED
    BY <1>2, <1>3, <1>9, ReclaimFrom
<1>11. Rest(q1, N, f) = q3
  <2>1. /\ Count(D, n - J) = N - f
        /\ \A i \in 1 .. N - f : J + Index(D, i) = Index(d, f + i)
    BY <1>1, DropCounts
  <2>2. D \in 0 .. n - J /\ n - J \in Nat
    BY <1>1 DEF DropAt
  <2>3. \A i \in 1 .. N - f : Index(D, i) \in 0 .. n - J - 1
    BY <2>1, <2>2, IndexIs
  <2>4. ASSUME NEW i \in 1 .. N - f PROVE q1[f + i] = q3[i]
    <3> DEFINE j == Index(D, i)
    <3>1. f + i \in 1 .. N
      BY <1>2
    <3>2. q1[f + i] = State(b1, r, p, J + j) /\ q3[i] = State(b3, r - J, q, j)
      BY <2>1, <3>1 DEF Labels
    <3>3. j \in 0 .. n - J - 1
      BY <2>3
    <3> HIDE DEF j, D
    <3>4. At(b3, q, j) = At(b1, p, J + j)
      BY <3>3 DEF Gone
    <3>5. J + j < r <=> j < r - J
      BY <1>1, <3>3
    <3> HIDE DEF q1, q3
    <3> QED
      BY <3>2, <3>4, <3>5 DEF State
  <2>5. q3 = [i \in 1 .. N - f |-> q3[i]]
    BY <2>1 DEF Labels
  <2> HIDE DEF q1, q3, N, f
  <2> QED
    BY <2>4, <2>5 DEF Rest
<1> HIDE DEF q0, q1, q3
<1> QED
  BY <1>3, <1>6, <1>8, <1>10, <1>11 DEF QueueStep

(* A send to a buffer of items keeps the invariant and is a step of the    *)
(* queue.                                                                  *)
LEMMA ItemsSend ==
    ASSUME NEW b, NEW h, HoldsItems(b, h), NEW len \in 0 .. b.max,
           CheckItemFits(b, len)
    PROVE  /\ HoldsItems(CopyItem(b, len), h)
           /\ QueueStep(States(b), States(CopyItem(b, len)))
<1> DEFINE b2 == CopyItem(b, len)
<1>1. PICK n, r, d, p : Sized(b) /\ Chained(b, n, r, d, p) /\ Owned(b, h, n, r, p)
  BY DEF HoldsItems
<1>2. Sized(b2) /\ b2.size = b.size
  BY <1>1, SendAdds, SendShape
<1>3. PICK n2, d2, p2 : Chained(b2, n2, r, d2, p2) /\ Grown(b, b2, n, d, p, n2, d2, p2)
  BY <1>1, SendAdds
<1> HIDE DEF b2
<1>4. Owned(b2, h, n2, r, p2)
  BY <1>1, <1>2, <1>3, SendOwned
<1>5. QueueStep(States(b), States(b2))
  BY <1>1, <1>2, <1>3, SendQueued DEF QueueStep
<1>6. HoldsItems(b2, h)
  BY <1>2, <1>3, <1>4 DEF HoldsItems
<1> QED
  BY <1>5, <1>6 DEF b2

(* So is a receive, in one part or in two.                                 *)
LEMMA ItemsReceive ==
    ASSUME NEW b, NEW h, HoldsItems(b, h), CheckItemAvail(b),
           NEW got, got \in {GotOne(b, 0), GotBoth(b)},
           \/ Cardinality(h \cup got.items) <= 1
           \/ ~(got.rb.full /\ got.rb.waiting = 0)
    PROVE  /\ HoldsItems(got.rb, h \cup got.items)
           /\ QueueStep(States(b), States(got.rb))
<1>1. PICK n, r, d, p : Sized(b) /\ Chained(b, n, r, d, p) /\ Owned(b, h, n, r, p)
  BY DEF HoldsItems
<1>2. PICK r2 : Received(b, got, n, r, d, p, r2)
  BY <1>1, OneReceived, BothReceived
<1>3. Owned(got.rb, h \cup got.items, n, r2, p)
  BY <1>1, <1>2, ReceiveOwned
<1>4. QueueStep(States(b), States(got.rb))
  BY <1>1, <1>2, ReceiveQueued DEF QueueStep
<1>5. HoldsItems(got.rb, h \cup got.items)
  BY <1>2, <1>3 DEF HoldsItems, Received
<1> QED
  BY <1>4, <1>5

(* So is a return.                                                         *)
LEMMA ItemsReturn ==
    ASSUME NEW b, NEW h, HoldsItems(b, h), NEW item \in h
    PROVE  /\ HoldsItems(ReturnItem(b, item.off), h \ {item})
           /\ QueueStep(States(b), States(ReturnItem(b, item.off)))
<1> DEFINE b3 == ReturnItem(b, item.off)
<1>1. PICK n, r, d, p : Sized(b) /\ Chained(b, n, r, d, p) /\ Owned(b, h, n, r, p)
  BY DEF HoldsItems
<1>2. PICK k \in Lent(b, r, p) : item = Piece(b, p, k)
  BY <1>1 DEF Owned
<1>3. item.off = Spot(b.size, p[k])
  BY <1>2 DEF Piece, Part
<1>4. PICK b1, J, q : Gone(b, b1, b3, n, r, d, p, k, J, q)
  BY <1>1, <1>3, ReturnGone DEF Owned
<1> HIDE DEF b3
<1>5. Owned(b3, h \ {item}, n - J, r - J, q)
  BY <1>1, <1>2, <1>4, ReturnOwned
<1>6. QueueStep(States(b), States(b3))
  BY <1>1, <1>4, ReturnQueued
<1>7. HoldsItems(b3, h \ {item})
  <2>1. Sized(b3) /\ Chained(b3, n - J, r - J, DropAt(n, d, J), q)
    BY <1>4 DEF Gone
  <2> QED
    BY <1>5, <2>1 DEF HoldsItems
<1> QED
  BY <1>6, <1>7 DEF b3

(* A send to a byte buffer keeps the invariant and is a step of the queue. *)
LEMMA BytesSend ==
    ASSUME NEW b, NEW h, HoldsBytes(b, h), NEW n \in 1 .. b.max,
           CheckItemFits(b, n)
    PROVE  /\ HoldsBytes(CopyItem(b, n), h)
           /\ QueueStep(States(b), States(CopyItem(b, n)))
<1> DEFINE b2 == CopyItem(b, n)
<1>1. PICK l, w : ByteRing(b, h, l, w)
  BY DEF HoldsBytes
<1>2. ByteRing(b2, h, l, w + n) /\ l + w + n <= b.size
  BY <1>1, BytesSent
<1>3. /\ l \in Nat /\ w \in Nat /\ n \in Nat /\ n >= 1
      /\ b.size \in Nat /\ b.size <= MostParts /\ MostParts \in Nat
  BY <1>1, MostPartsIs DEF ByteRing
<1> HIDE DEF b2
<1>4. States(b) = Loan(l, w) /\ States(b2) = Loan(l, w + n)
  BY <1>1, <1>2, BytesStates
<1>5. Len(Loan(l, w)) = l + w /\ Queue!Sent(Loan(l, w), n) = Loan(l, w + n)
  <2>1. Len(Loan(l, w)) = l + w
    BY <1>3, LoanParts
  <2>2. Queue!Sent(Loan(l, w), n) = Loan(l, w + n)
    BY <1>3, LoanSent
  <2> QED
    BY <2>1, <2>2
<1>6. n \in 1 .. MostParts /\ l + w + n <= MostParts
  BY <1>2, <1>3
<1>7. QueueStep(States(b), States(b2))
  BY <1>4, <1>5, <1>6 DEF QueueStep
<1> QED
  BY <1>2, <1>7 DEF HoldsBytes, b2

(* So is a receive, limited or not.                                        *)
LEMMA BytesReceive ==
    ASSUME NEW b, NEW h, HoldsBytes(b, h), CheckItemAvail(b), NEW maxSize \in Nat
    PROVE  LET got == GotOne(b, maxSize)
           IN  /\ HoldsBytes(got.rb, h \cup got.items)
               /\ QueueStep(States(b), States(got.rb))
<1> DEFINE got == GotOne(b, maxSize)
<1>1. PICK l, w : ByteRing(b, h, l, w)
  BY DEF HoldsBytes
<1>0. got = GotOne(b, maxSize)
  OBVIOUS
<1> HIDE DEF got
<1>2. l = 0
  BY <1>1, <1>0, BytesTaken
<1>3. PICK n \in 1 .. w : ByteRing(got.rb, h \cup got.items, n, w - n)
  BY <1>1, <1>0, BytesTaken
<1>4. w \in Nat /\ w <= MostParts /\ MostParts \in Nat
  BY <1>1, <1>2, MostPartsIs DEF ByteRing
<1>5. States(b) = Loan(0, w) /\ States(got.rb) = Loan(n, w - n)
  BY <1>1, <1>2, <1>3, BytesStates
<1>6. /\ Queue!Taken(Loan(0, w), "client", n) = Loan(n, w - n)
      /\ Queue!Cardinality(Queue!UnreadAt(Loan(0, w))) = w
  BY <1>4, LoanTaken, SameCount
<1>7. n \in 1 .. MostParts /\ n <= w
  BY <1>4
<1>8. QueueStep(States(b), States(got.rb))
  BY <1>5, <1>6, <1>7 DEF QueueStep
<1> QED
  BY <1>3, <1>8 DEF HoldsBytes, got

(* So is a return.                                                         *)
LEMMA BytesReturn ==
    ASSUME NEW b, NEW h, HoldsBytes(b, h), NEW item \in h
    PROVE  /\ HoldsBytes(ReturnItem(b, item.off), h \ {item})
           /\ QueueStep(States(b), States(ReturnItem(b, item.off)))
<1> DEFINE b2 == ReturnItem(b, item.off)
<1>1. PICK l, w : ByteRing(b, h, l, w)
  BY DEF HoldsBytes
<1>2. l > 0 /\ ByteRing(b2, h \ {item}, 0, w)
  BY <1>1, BytesReturned
<1>3. l \in Nat /\ w \in Nat
  BY <1>1 DEF ByteRing
<1> HIDE DEF b2
<1>4. States(b) = Loan(l, w) /\ States(b2) = Loan(0, w)
  BY <1>1, <1>2, BytesStates
<1>5. /\ Queue!HeldAt(Loan(l, w), "client") = 1 .. l
      /\ Queue!Returned(Loan(l, w), 1 .. l) = Loan(0, w)
  BY <1>3, LoanParts, LoanReturned
<1>6. 1 \in 1 .. l
  BY <1>2, <1>3
<1>7. QueueStep(States(b), States(b2))
  BY <1>4, <1>5, <1>6 DEF QueueStep
<1> QED
  BY <1>2, <1>7 DEF HoldsBytes, b2

(* Every step keeps the invariant and is a step of the queue.              *)
LEMMA StepHolds ==
    ASSUME Inv, ~Hoarding, Next
    PROVE  Inv' /\ QueueStep(States(rb), States(rb'))
<1>1. ASSUME NEW n \in ItemSizes, Send(n)
      PROVE  Inv' /\ QueueStep(States(rb), States(rb'))
  <2>1. /\ n <= rb.max /\ CheckItemFits(rb, n) /\ rb' = CopyItem(rb, n)
        /\ held' = held /\ ~(rb.kind = "bytebuf" /\ n = 0)
    BY <1>1 DEF Send
  <2>2. n \in Nat
    BY ItemsAssumption
  <2>3. CASE HoldsItems(rb, held)
    <3>1. rb.max \in Nat
      <4>1. PICK m, r, d, p : Sized(rb) /\ Chained(rb, m, r, d, p)
        BY <2>3 DEF HoldsItems
      <4> QED
        BY <4>1 DEF Sized
    <3>2. n \in 0 .. rb.max
      BY <2>1, <2>2, <3>1
    <3> QED
      BY <2>1, <2>3, <3>2, ItemsSend DEF Inv
  <2>4. CASE HoldsBytes(rb, held)
    <3>1. rb.kind = "bytebuf" /\ rb.max \in Nat
      BY <2>4 DEF HoldsBytes, ByteRing
    <3>2. n \in 1 .. rb.max
      BY <2>1, <2>2, <3>1
    <3> QED
      BY <2>1, <2>4, <3>2, BytesSend DEF Inv
  <2> QED
    BY <2>3, <2>4 DEF Inv
<1>2. ASSUME NEW got, got \in {GotOne(rb, 0), GotBoth(rb)},
             CheckItemAvail(rb), Keep(got), HoldsItems(rb, held)
      PROVE  Inv' /\ QueueStep(States(rb), States(rb'))
  <2>1. rb' = got.rb /\ held' = held \cup got.items
    BY <1>2 DEF Keep
  <2>2. Cardinality(held \cup got.items) <= 1 \/ ~(got.rb.full /\ got.rb.waiting = 0)
    BY <1>2 DEF Keep, Restrained
  <2>3. HoldsItems(got.rb, held \cup got.items) /\ QueueStep(States(rb), States(got.rb))
    BY <1>2, <2>2, ItemsReceive
  <2> QED
    BY <2>1, <2>3 DEF Inv
<1>3. ASSUME NEW maxSize \in Nat, CheckItemAvail(rb), Keep(GotOne(rb, maxSize)),
             HoldsBytes(rb, held)
      PROVE  Inv' /\ QueueStep(States(rb), States(rb'))
  <2> DEFINE got == GotOne(rb, maxSize)
  <2>1. rb' = got.rb /\ held' = held \cup got.items
    BY <1>3 DEF Keep
  <2>2. HoldsBytes(got.rb, held \cup got.items) /\ QueueStep(States(rb), States(got.rb))
    BY <1>3, BytesReceive
  <2> HIDE DEF got
  <2> QED
    BY <2>1, <2>2 DEF Inv
<1>4. (HoldsItems(rb, held) => rb.kind # "bytebuf")
      /\ (HoldsBytes(rb, held) => rb.kind = "bytebuf")
  BY DEF HoldsItems, HoldsBytes, Sized, ByteRing
<1>5. ASSUME Receive PROVE Inv' /\ QueueStep(States(rb), States(rb'))
  BY <1>2, <1>3, <1>5 DEF Receive, Inv
<1>6. ASSUME NEW n \in MaxSizes, ReceiveUpTo(n)
      PROVE  Inv' /\ QueueStep(States(rb), States(rb'))
  <2>1. n \in Nat
    BY ItemsAssumption
  <2> QED
    BY <1>3, <1>4, <1>6, <2>1 DEF ReceiveUpTo, Inv
<1>7. ASSUME ReceiveSplit PROVE Inv' /\ QueueStep(States(rb), States(rb'))
  BY <1>2, <1>4, <1>7 DEF ReceiveSplit, Inv
<1>8. ASSUME NEW item \in held, Return(item)
      PROVE  Inv' /\ QueueStep(States(rb), States(rb'))
  <2>1. rb' = ReturnItem(rb, item.off) /\ held' = held \ {item}
    BY <1>8 DEF Return
  <2>2. CASE HoldsItems(rb, held)
    BY <2>1, <2>2, ItemsReturn DEF Inv
  <2>3. CASE HoldsBytes(rb, held)
    BY <2>1, <2>3, BytesReturn DEF Inv
  <2> QED
    BY <2>2, <2>3 DEF Inv
<1> QED
  BY <1>1, <1>5, <1>6, <1>7, <1>8 DEF Next

(* When nothing waits and nothing is held, the storage is empty.           *)
LEMMA DrainedItems ==
    ASSUME NEW b, HoldsItems(b, {}), b.waiting = 0
    PROVE  States(b) = <<>> /\ b.write = b.free /\ ~b.full /\ b.kind # "bytebuf"
<1>1. PICK n, r, d, p : Sized(b) /\ Chained(b, n, r, d, p) /\ Owned(b, {}, n, r, p)
  BY DEF HoldsItems
<1>2. n \in Nat /\ r \in 0 .. n /\ d \in 0 .. n /\ r = n
  BY <1>1, AllRead
<1>3. r = 0
  <2>1. Lent(b, r, p) = {}
    BY <1>1 DEF Owned
  <2> QED
    BY <1>1, <1>2, <2>1 DEF Owned
<1>4. Labels(b, n, r, d, p) = <<>>
  BY <1>2, <1>3 DEF Labels, Count
<1>5. b.size \in Nat /\ b.size > 0 /\ p[0] \in Nat /\ p[0] < b.size
  BY <1>1, <1>2, LaidIs DEF Sized, Chained, Header
<1>6. b.write = b.free /\ ~b.full
  BY <1>1, <1>2, <1>3, <1>5 DEF Chained, Linked, Spot
<1> QED
  BY <1>1, <1>4, <1>6, StatesAre DEF Sized

(* The same for a byte buffer.                                             *)
LEMMA DrainedBytes ==
    ASSUME NEW b, HoldsBytes(b, {}), b.waiting = 0
    PROVE  States(b) = <<>> /\ b.write = b.free /\ ~b.full /\ b.kind = "bytebuf"
<1>1. PICK l, w : ByteRing(b, {}, l, w)
  BY DEF HoldsBytes
<1>2. l = 0 /\ w = 0 /\ b.kind = "bytebuf"
  BY <1>1 DEF ByteRing
<1>3. Loan(0, 0) = <<>>
  BY DEF Loan
<1>4. States(b) = <<>>
  BY <1>1, <1>2, <1>3, BytesStates
<1>5. b.write = b.free /\ ~b.full
  BY <1>1, <1>2 DEF ByteRing, Spot
<1> QED
  BY <1>2, <1>4, <1>5

(* The invariant holds in every state, as long as the client does not      *)
(* hoard.                                                                  *)
LEMMA InvHolds == ASSUME ~Hoarding PROVE Spec => []Inv
<1>1. Inv /\ [Next]_vars => Inv'
  <2>1. Inv /\ UNCHANGED vars => Inv'
    BY DEF vars, Inv
  <2> QED
    BY <2>1, StepHolds
<1> QED
  BY InitHolds, <1>1, PTL DEF Spec

(* The storage of ringbuf.c is the bounded queue that RingQueue promises,  *)
(* of any size, for items of any sizes, of any of the three types,         *)
(* whatever the order in which the items are returned. A client that holds *)
(* all of a full buffer in several items breaks it (prvReturnItemDefault). *)
THEOREM StorageIsAQueue == ASSUME ~Hoarding PROVE Spec => ImplementsQueue
<1>1. Init => Queue!QueueInit
  <2> SUFFICES ASSUME Init PROVE States(rb) = <<>>
    BY DEF Queue!QueueInit
  <2>1. held = {} /\ rb.waiting = 0
    BY DEF Init, Create, CreateNoSplit
  <2>2. Inv
    BY InitHolds
  <2> QED
    BY <2>1, <2>2, DrainedItems, DrainedBytes DEF Inv
<1>2. Inv /\ [Next]_vars => [Queue!QueueNext]_(States(rb))
  <2>1. ASSUME QueueStep(States(rb), States(rb')) PROVE Queue!QueueNext
    BY <2>1 DEF QueueStep, Queue!QueueNext, Queue!QueueSend, Queue!QueueReceive,
                Queue!QueueReturn
  <2>2. UNCHANGED vars => UNCHANGED States(rb)
    BY DEF vars
  <2> QED
    BY <2>1, <2>2, StepHolds
<1> QED
  BY <1>1, <1>2, InvHolds, PTL DEF Spec, ImplementsQueue, Queue!QueueSpec

------------------------------------------------------------------------------
(* What the invariant gives for a buffer of items                          *)

(* The pointers of a buffer of items leave room for a header.              *)
LEMMA PointersAre ==
    ASSUME NEW b, NEW n, NEW r, NEW d, NEW p, Sized(b), Chained(b, n, r, d, p)
    PROVE  /\ b.size \in Nat /\ Aligned(b.size) /\ b.max \in Nat /\ b.size >= 16
           /\ Laid(b.size, b.max, b.hdr, n, p)
           /\ b.write \in Nat /\ Aligned(b.write) /\ b.write + 8 <= b.size
           /\ b.read \in Nat /\ b.read + 8 <= b.size
           /\ b.free \in Nat /\ Aligned(b.free) /\ b.free + 8 <= b.size
           /\ b.full \in BOOLEAN
           /\ b.waiting \in Nat /\ b.waiting <= b.size
<1>1. /\ b.size \in Nat /\ Aligned(b.size) /\ b.max \in Nat /\ b.size >= 16
      /\ b.waiting \in Nat /\ b.full \in BOOLEAN
      /\ Laid(b.size, b.max, b.hdr, n, p)
  BY DEF Sized, Chained, Header
<1>2. n \in Nat /\ r \in 0 .. n /\ d \in 0 .. n /\ 0 \in 0 .. n /\ n \in 0 .. n
  BY AllRead
<1>3. /\ \A i \in 0 .. n : Spot(b.size, p[i]) \in Cells(b.size)
      /\ \A i \in 0 .. n : Spot(b.size, p[i]) \in Nat /\ Spot(b.size, p[i]) + 8 <= b.size
      /\ p[0] \in Nat /\ p[0] < b.size /\ 8 * n <= b.size
  BY <1>1, LaidIs, LaidRoom
<1>4. /\ b.free = Spot(b.size, p[0]) /\ b.write = Spot(b.size, p[n])
      /\ b.read = Spot(b.size, p[r])
  BY <1>3 DEF Chained, Linked, Read, Spot
<1>5. \A x \in Cells(b.size) : Aligned(x)
  BY DEF Cells, Aligned
<1>6. b.waiting <= b.size
  <2>1. b.waiting = n - r - (IF r <= d /\ d < n THEN 1 ELSE 0)
    BY DEF Chained, Read
  <2> QED
    BY <1>1, <1>2, <1>3, <2>1
<1> QED
  BY <1>1, <1>2, <1>3, <1>4, <1>5, <1>6

(* The pointers and the items held lie in the storage.                     *)
LEMMA ItemsTyped ==
    ASSUME NEW b, NEW h, HoldsItems(b, h)
    PROVE  /\ b.kind \in Kinds
           /\ {b.write, b.read, b.free} \subseteq 0 .. b.size - 1
           /\ b.full \in BOOLEAN /\ b.waiting \in 0 .. b.size
           /\ \A item \in h : item.off \in 0 .. b.size - 1
<1>1. PICK n, r, d, p : Sized(b) /\ Chained(b, n, r, d, p) /\ Owned(b, h, n, r, p)
  BY DEF HoldsItems
<1>2. /\ b.size \in Nat /\ b.write \in Nat /\ b.write + 8 <= b.size
      /\ b.read \in Nat /\ b.read + 8 <= b.size
      /\ b.free \in Nat /\ b.free + 8 <= b.size
      /\ b.full \in BOOLEAN /\ b.waiting \in Nat /\ b.waiting <= b.size
      /\ Aligned(b.size) /\ b.max \in Nat /\ Laid(b.size, b.max, b.hdr, n, p)
  BY <1>1, PointersAre
<1>3. n \in Nat /\ r \in 0 .. n
  BY <1>1, AllRead
<1>4. ASSUME NEW item \in h PROVE item.off \in 0 .. b.size - 1
  <2>1. PICK k \in Lent(b, r, p) : item = Piece(b, p, k)
    BY <1>1 DEF Owned
  <2>2. k \in 0 .. n /\ item.off = Spot(b.size, p[k])
    BY <1>3, <2>1 DEF Lent, Piece, Part
  <2>3. Spot(b.size, p[k]) \in Nat /\ Spot(b.size, p[k]) + 8 <= b.size
    BY <1>2, <2>2, LaidIs
  <2> QED
    BY <1>2, <2>2, <2>3
<1>5. b.kind \in Kinds
  BY <1>1 DEF Sized, Kinds
<1> QED
  BY <1>2, <1>4, <1>5

(* A second get follows the first half of a split item.                    *)
LEMMA HalvesAre ==
    ASSUME NEW b, NEW n, NEW r, NEW d, NEW p, Sized(b), Chained(b, n, r, d, p),
           b.waiting > 0
    PROVE  LET next == GetItemDefault(b)
               second == GetItemDefault(next.rb).item
           IN  /\ next.item.len \in 0 .. b.max
               /\ "SPLIT" \in next.item.flags <=> "SPLIT" \in b.hdr[b.read].flags
               /\ "SPLIT" \in next.item.flags =>
                    /\ second.len \in 0 .. b.max
                    /\ second.off < next.item.off
                    /\ "SPLIT" \notin second.flags
                    /\ next.rb.read = 0 /\ next.rb.waiting > 0
               /\ Moved(b, next.rb) /\ next.rb.waiting = b.waiting - 1
<1> DEFINE next == GetItemDefault(b)
           b1 == next.rb
           second == GetItemDefault(b1).item
<1>1. PICK j \in r .. n - 1 :
        /\ Next1(r, d, j)
        /\ next.item = Piece(b, p, j)
        /\ Moved(b, b1) /\ b1.waiting = b.waiting - 1
        /\ b1.read = Spot(b.size, p[j + 1])
        /\ Sized(b1)
        /\ Chained(b1, n, j + 1, d, p)
  BY GetTakes
<1> HIDE DEF next, b1
<1>2. /\ n \in Nat /\ r \in 0 .. n /\ d \in 0 .. n /\ j \in 0 .. n - 1
      /\ b.size \in Nat /\ b.size > 0
  BY <1>1, AllRead DEF Sized, Header
<1>3. /\ next.item.flags = At(b, p, j).flags /\ next.item.len = At(b, p, j).len
      /\ next.item.off = Spot(b.size, p[j])
  BY <1>1 DEF Piece, Part
<1>4. /\ next.item.len \in 0 .. b.max
      /\ "SPLIT" \in next.item.flags <=> At(b, p, j).flags = {"SPLIT"}
  BY <1>2, <1>3, FlagsAre
<1>5. b.hdr[b.read] = At(b, p, r)
  BY DEF Chained, Read, At
<1>6. "SPLIT" \in next.item.flags <=> "SPLIT" \in b.hdr[b.read].flags
  <2>1. CASE j = r
    BY <1>3, <1>5, <2>1
  <2>2. CASE j # r
    <3>1. r = d /\ j = r + 1 /\ r \in 0 .. n - 1
      BY <1>1, <1>2, <2>2 DEF Next1
    <3>2. At(b, p, r).flags = {"DUMMY"}
      BY <3>1 DEF Chained, Marked
    <3>3. p[j] = b.size
      <4>1. Leads(b.size, b.max, At(b, p, r), p[r], p[r + 1])
        BY <3>1, FlagsAre
      <4> QED
        BY <3>1, <3>2, <4>1 DEF Leads
    <3>4. At(b, p, j).flags # {"SPLIT"}
      <4>1. At(b, p, j).flags = {"SPLIT"} => p[j] < b.size
        BY <1>2, SplitFollows
      <4> QED
        BY <1>2, <3>3, <4>1
    <3> QED
      BY <1>4, <1>5, <3>2, <3>4
  <2> QED
    BY <2>1, <2>2
<1>7. ASSUME "SPLIT" \in next.item.flags
      PROVE  /\ second.len \in 0 .. b.max /\ second.off < next.item.off
             /\ "SPLIT" \notin second.flags /\ b1.read = 0 /\ b1.waiting > 0
  <2>1. /\ j + 1 \in 0 .. n - 1 /\ j + 1 # d /\ 0 < p[j] /\ p[j] < b.size
        /\ p[j + 1] = b.size
        /\ At(b, p, j + 1).flags \notin {{"SPLIT"}, {"DUMMY"}}
    BY <1>2, <1>4, <1>7, SplitFollows
  <2>2. b1.waiting > 0
    <3>1. b1.waiting \in Nat /\ (b1.waiting = 0 <=> j + 1 = n)
      <4>1. b1.waiting = 0 <=> j + 1 = n
        BY <1>1, AllRead
      <4> QED
        BY <1>1, <4>1 DEF Sized
    <3> QED
      BY <1>2, <2>1, <3>1
  <2>3. PICK k \in j + 1 .. n - 1 : Next1(j + 1, d, k) /\ second = Piece(b1, p, k)
    BY <1>1, <2>2, GetTakes
  <2>4. k = j + 1
    BY <2>1, <2>3 DEF Next1
  <2>5. second = Piece(b, p, j + 1)
    BY <1>1, <2>3, <2>4 DEF Piece, At, Moved
  <2>6. /\ second.len = At(b, p, j + 1).len /\ second.flags = At(b, p, j + 1).flags
        /\ second.off = Spot(b.size, p[j + 1])
    BY <2>5 DEF Piece, Part
  <2>7. Spot(b.size, p[j + 1]) = 0 /\ Spot(b.size, p[j]) = p[j]
    BY <1>2, <2>1 DEF Spot
  <2>8. /\ At(b, p, j + 1).len \in 0 .. b.max
        /\ "SPLIT" \in At(b, p, j + 1).flags <=> At(b, p, j + 1).flags = {"SPLIT"}
    BY <2>1, FlagsAre
  <2> HIDE DEF second
  <2> QED
    BY <1>1, <1>3, <2>1, <2>2, <2>6, <2>7, <2>8
<1> QED
  BY <1>1, <1>4, <1>6, <1>7 DEF b1, next

(* The write pointer has room for a header, and the header of a held item  *)
(* is that of the item.                                                    *)
LEMMA ItemsAssert ==
    ASSUME NEW b, NEW h, HoldsItems(b, h)
    PROVE  /\ b.write % Word = 0 /\ b.size - b.write >= Header
           /\ \A item \in h :
                /\ b.hdr[item.off].len = item.len
                /\ b.hdr[item.off].flags \cap {"DUMMY", "FREE"} = {}
<1>1. PICK n, r, d, p : Sized(b) /\ Chained(b, n, r, d, p) /\ Owned(b, h, n, r, p)
  BY DEF HoldsItems
<1>2. b.write % Word = 0 /\ b.size - b.write >= Header
  <2>1. /\ b.size \in Nat /\ b.write \in Nat /\ Aligned(b.write)
        /\ b.write + 8 <= b.size
    BY <1>1, PointersAre
  <2> QED
    BY <2>1 DEF Aligned, Header
<1>3. n \in Nat /\ r \in 0 .. n
  BY <1>1, AllRead
<1>4. ASSUME NEW item \in h
      PROVE  /\ b.hdr[item.off].len = item.len
             /\ b.hdr[item.off].flags \cap {"DUMMY", "FREE"} = {}
  <2>1. PICK k \in Lent(b, r, p) : item = Piece(b, p, k)
    BY <1>1 DEF Owned
  <2>2. k \in 0 .. n - 1 /\ b.hdr[item.off] = At(b, p, k) /\ item.len = At(b, p, k).len
    BY <1>3, <2>1 DEF Lent, Piece, Part, At
  <2>3. At(b, p, k).flags \in Marks
    BY <1>1, <2>2, FlagsAre
  <2>4. At(b, p, k).flags \notin {{"FREE"}, {"DUMMY"}}
    BY <2>1 DEF Lent, Over
  <2> QED
    BY <2>2, <2>3, <2>4 DEF Marks
<1> QED
  BY <1>2, <1>4

(* The count is that of the unread parts, and they can be received.        *)
LEMMA ItemsUnread ==
    ASSUME NEW b, NEW h, HoldsItems(b, h)
    PROVE  LET waits == Queue!UnreadAt(States(b))
           IN  /\ b.waiting = Cardinality(waits)
               /\ CheckItemAvail(b) <=> waits # {}
<1>1. PICK n, r, d, p : Sized(b) /\ Chained(b, n, r, d, p) /\ Owned(b, h, n, r, p)
  BY DEF HoldsItems
<1> DEFINE N == Count(d, n)
           c == Rank(d, r)
           waits == Queue!UnreadAt(States(b))
<1>2. waits = c + 1 .. N /\ c \in 0 .. N /\ N - c = b.waiting
  BY <1>1, UnreadRun
<1>3. N \in Nat
  BY <1>1, CountFits
<1> HIDE DEF N, c, waits
<1>4. Cardinality(waits) = b.waiting
  <2>1. Cardinality(c + 1 .. N) = N - (c + 1) + 1
    <3>1. c + 1 \in Int /\ N \in Int /\ ~(c + 1 > N + 1)
      BY <1>2, <1>3
    <3> DEFINE lo == c + 1
    <3>2. Cardinality(lo .. N) = IF lo > N THEN 0 ELSE N - lo + 1
      <4> HIDE DEF lo
      <4> QED
        BY <3>1, FS_Interval DEF lo
    <3> QED
      BY <1>2, <1>3, <3>2
  <2> QED
    BY <1>2, <1>3, <2>1
<1>5. waits # {} <=> b.waiting > 0
  <2>1. b.waiting > 0 => c + 1 \in waits
    BY <1>2, <1>3
  <2>2. \A i \in waits : b.waiting > 0
    BY <1>2, <1>3
  <2> QED
    BY <2>1, <2>2
<1>6. b.waiting > 0 => b.read # b.write \/ b.full
  <2> SUFFICES ASSUME b.waiting > 0, b.read = b.write PROVE b.full
    OBVIOUS
  <2>1. n \in Nat /\ r \in 0 .. n /\ r < n /\ n \in 0 .. n
    BY <1>1, AllRead
  <2>2. /\ b.size \in Nat /\ Aligned(b.size) /\ b.max \in Nat
        /\ Laid(b.size, b.max, b.hdr, n, p)
    BY <1>1, PointersAre
  <2>3. Spot(b.size, p[r]) = Spot(b.size, p[n])
    BY <1>1 DEF Chained, Linked, Read
  <2>4. p[n] = p[0] + b.size
    BY <2>1, <2>2, <2>3, SpotsDiffer
  <2> QED
    BY <1>1, <2>4 DEF Chained, Linked
<1>7. b.kind # "bytebuf"
  BY <1>1 DEF Sized
<1> QED
  BY <1>4, <1>5, <1>6, <1>7 DEF CheckItemAvail, waits

(* An item that fits ends before the tail and before the oldest part.      *)
LEMMA ItemsRoom ==
    ASSUME NEW b, NEW h, HoldsItems(b, h), NEW len \in 0 .. b.max,
           CheckItemFits(b, len)
    PROVE  LET layout == Layout(b, len)
               last == layout[Len(layout)]
               end == last.off + Header + Align(last.len)
           IN  /\ end <= b.size
               /\ (Len(layout) = 2 \/ b.free > b.write) => end <= b.free
<1> DEFINE layout == Layout(b, len)
           last == layout[Len(layout)]
           end == last.off + Header + Align(last.len)
<1> SUFFICES /\ end <= b.size
             /\ (Len(layout) = 2 \/ b.free > b.write) => end <= b.free
  OBVIOUS
<1>1. PICK n, r, d, p : Sized(b) /\ Chained(b, n, r, d, p) /\ Owned(b, h, n, r, p)
  BY DEF HoldsItems
<1>2. /\ b.size \in Nat /\ Aligned(b.size) /\ b.max \in Nat
      /\ Laid(b.size, b.max, b.hdr, n, p)
      /\ b.free \in Nat /\ b.free + 8 <= b.size /\ b.write \in Nat
  BY <1>1, PointersAre
<1>3. n \in Nat /\ p[0] \in Nat /\ p[n] \in Nat /\ p[0] <= p[n] /\ p[0] = b.free
      /\ b.write = Spot(b.size, p[n])
  <2>1. n \in Nat /\ 0 \in 0 .. n /\ n \in 0 .. n
    BY <1>1, AllRead
  <2> QED
    BY <1>1, <1>2, <2>1, LaidIs DEF Chained, Linked
<1>4. Straight(b, n, p, len) \/ Behind(b, n, p, len) \/ Cut(b, n, p, len)
  BY <1>1, <1>2, FitsSomehow DEF Chained
<1>5. Align(len) \in Nat
  BY AlignIs
<1>6. CASE Straight(b, n, p, len)
  <2>1. Len(layout) = 1 /\ end = b.write + 8 + Align(len)
    BY <1>6 DEF Straight, Part, Header
  <2>2. Ending(p[n], len) = p[n] + 8 + Align(len)
    BY DEF Ending, Header
  <2> HIDE DEF layout, end
  <2> QED
    BY <1>2, <1>3, <1>5, <1>6, <2>1, <2>2 DEF Straight, Spot
<1>7. ASSUME NEW rest \in 0 .. b.max, NEW x \in Nat, NEW first,
             layout = <<first, Part(0, x, {})>>,
             Ending(b.size, x) <= p[0] + b.size
      PROVE  end <= b.size /\ end <= b.free
  <2>1. end = 8 + Align(x)
    BY <1>7 DEF Part, Header
  <2>2. Ending(b.size, x) = b.size + 8 + Align(x) /\ Align(x) \in Nat
    BY <1>7, AlignIs DEF Ending, Header
  <2> HIDE DEF layout, end
  <2> QED
    BY <1>2, <1>3, <1>7, <2>1, <2>2
<1>8. CASE Behind(b, n, p, len)
  BY <1>2, <1>7, <1>8 DEF Behind
<1>9. CASE Cut(b, n, p, len)
  <2> DEFINE rest == b.size - b.write - Header
  <2>1. /\ layout = <<Part(b.write, rest, {"SPLIT"}), Part(0, len - rest, {})>>
        /\ rest \in 1 .. b.max /\ len - rest \in 0 .. b.max
        /\ Ending(b.size, len - rest) <= p[0] + b.size
    BY <1>9 DEF Cut
  <2>2. rest \in 0 .. b.max /\ len - rest \in Nat
    BY <1>2, <2>1
  <2> HIDE DEF rest, end, layout
  <2> QED
    BY <1>7, <2>1, <2>2
<1> QED
  BY <1>4, <1>6, <1>8, <1>9

(* The free size that is told takes an item of that size.                  *)
LEMMA LimitedIs ==
    ASSUME NEW b, b.max \in Nat, Aligned(b.max), NEW room \in Nat, Aligned(room)
    PROVE  LET n == Limited(b, room)
           IN  n \in Nat /\ Align(n) = n /\ n <= room
<1>1. Limited(b, room) \in {b.max, room} /\ Limited(b, room) <= room
  BY DEF Limited
<1> QED
  BY <1>1, AlignIs

(* The longest item a buffer takes is aligned.                             *)
LEMMA MaxAligned ==
    ASSUME NEW b, Sized(b)
    PROVE  b.max \in Nat /\ Aligned(b.max)
<1>1. b.size \in Nat /\ b.size >= 16 /\ Aligned(b.size) /\ b.max \in Nat
  BY DEF Sized, Header
<1>2. b.size \div 2 \in Nat
  BY <1>1
<1>3. Align(b.size \div 2) \in Nat /\ Aligned(Align(b.size \div 2))
  BY <1>2, AlignIs
<1>4. Aligned(Header) /\ Header = 8 /\ Aligned(2 * Header)
  BY AlignedConstants DEF Header, Aligned, Word
<1>5. Aligned(Align(b.size \div 2) - Header)
  <2> DEFINE a == Align(b.size \div 2)
  <2> HIDE DEF a
  <2> QED
    BY <1>3, <1>4, AlignedSum DEF a
<1>6. Aligned(b.size - 2 * Header)
  BY <1>1, <1>4 DEF Aligned, Word
<1> QED
  BY <1>1, <1>5, <1>6 DEF Sized

(* Of a buffer that is not full, an item of the current maximum size fits, *)
(* when the free space has room for the headers.                           *)
LEMMA ItemsFreeSize ==
    ASSUME NEW b, NEW h, HoldsItems(b, h), ~b.full,
           GetFreeSize(b) >= IF b.kind = "nosplit" THEN Header ELSE 2 * Header
    PROVE  CheckItemFits(b, GetCurMaxSize(b))
<1>1. PICK n, r, d, p : Sized(b) /\ Chained(b, n, r, d, p) /\ Owned(b, h, n, r, p)
  BY DEF HoldsItems
<1>2. /\ b.size \in Nat /\ Aligned(b.size) /\ b.size >= 16
      /\ b.free \in Nat /\ Aligned(b.free) /\ b.free + 8 <= b.size
      /\ b.write \in Nat /\ Aligned(b.write) /\ b.write + 8 <= b.size
      /\ b.max \in Nat /\ Aligned(b.max)
  BY <1>1, PointersAre, MaxAligned
<1> DEFINE W == b.write
           F == b.free
           S == b.size
           len == GetCurMaxSize(b)
<1> SUFFICES CheckItemFits(b, len)
  OBVIOUS
<1>3. CASE W = F
  BY <1>3 DEF CheckItemFits, CheckItemFitsDefault, CheckItemFitsByteBuffer
<1>4. ASSUME NEW room \in Nat, room % 4 = 0, len = Limited(b, room)
      PROVE  Align(len) + Header <= room + 8
  <2>1. len \in Nat /\ Align(len) = len /\ len <= room
    BY <1>2, <1>4, LimitedIs DEF Aligned, Word
  <2> HIDE DEF len
  <2> QED
    BY <2>1 DEF Header
<1>5. CASE W < F
  <2>1. GetFreeSize(b) = F - W
    BY <1>5 DEF GetFreeSize
  <2>2. F - W >= 8 /\ F - W - 8 \in Nat /\ (F - W - 8) % 4 = 0
    <3>1. F - W >= 8
      BY <1>2, <2>1 DEF Header
    <3> HIDE DEF F, W
    <3> QED
      BY <1>2, <3>1 DEF Aligned, Word, F, W
  <2>3. len = Limited(b, F - W - 8)
    BY <1>1, <1>5 DEF Sized, GetCurMaxSize, GetCurMaxSizeNoSplit,
                      GetCurMaxSizeAllowSplit, Header
  <2>4. Align(len) + Header <= F - W
    <3> HIDE DEF len
    <3>1. Align(len) + Header <= F - W - 8 + 8
      BY <1>4, <2>2, <2>3
    <3> QED
      BY <1>2, <3>1
  <2> HIDE DEF len
  <2> QED
    BY <1>1, <1>5, <2>4 DEF CheckItemFits, CheckItemFitsDefault, Sized
<1>6. CASE W > F /\ b.kind = "nosplit"
  <2> DEFINE tail == S - W
             room == IF tail > F THEN tail ELSE F
  <2>1. room - 8 \in Nat /\ (room - 8) % 4 = 0
    BY <1>2 DEF Aligned, Word
  <2>2. len = Limited(b, room - 8)
    BY <1>2, <1>6 DEF GetCurMaxSize, GetCurMaxSizeNoSplit, Header
  <2>3. Align(len) + Header <= tail \/ Align(len) + Header <= F
    <3> HIDE DEF len, room
    <3>1. Align(len) + Header <= room - 8 + 8
      BY <1>4, <2>1, <2>2
    <3>2. Align(len) + Header <= room
      BY <1>2, <3>1 DEF room
    <3> QED
      BY <3>2 DEF room
  <2> HIDE DEF len
  <2> QED
    BY <1>1, <1>6, <2>3 DEF CheckItemFits, CheckItemFitsDefault, Sized
<1>7. CASE W > F /\ b.kind = "allowsplit"
  <2> DEFINE room == F + (S - W) - 2 * Header
  <2>1. room \in Nat /\ room % 4 = 0
    <3>1. GetFreeSize(b) = F - W + S
      BY <1>2, <1>7 DEF GetFreeSize
    <3>2. F - W + S >= 16
      BY <1>7, <3>1 DEF Header
    <3> QED
      BY <1>2, <3>2 DEF Aligned, Word, Header
  <2>2. len = Limited(b, room)
    BY <1>2, <1>7 DEF GetCurMaxSize, GetCurMaxSizeAllowSplit
  <2>3. Align(len) + Header + Header <= S - (W - F)
    <3> HIDE DEF len
    <3>1. Align(len) + Header <= room + 8
      <4> HIDE DEF room
      <4> QED
        BY <1>4, <2>1, <2>2
    <3>2. Align(len) \in Int
      <4>1. len \in Nat
        <5> HIDE DEF room
        <5> QED
          BY <1>2, <2>1, <2>2, LimitedIs DEF Aligned, Word
      <4> QED
        BY <4>1, AlignIs
    <3> QED
      BY <1>2, <3>1, <3>2 DEF Header
  <2> HIDE DEF len
  <2> QED
    BY <1>1, <1>7, <2>3 DEF CheckItemFits, CheckItemFitsDefault, Sized
<1> QED
  BY <1>1, <1>2, <1>3, <1>5, <1>6, <1>7 DEF Sized

(* The pointers of a byte buffer and its loan lie in the storage.          *)
LEMMA BytesTyped ==
    ASSUME NEW b, NEW h, HoldsBytes(b, h)
    PROVE  /\ b.kind \in Kinds
           /\ {b.write, b.read, b.free} \subseteq 0 .. b.size - 1
           /\ b.full \in BOOLEAN /\ b.waiting \in 0 .. b.size
           /\ \A item \in h : item.off \in 0 .. b.size - 1
<1>1. PICK l, w : ByteRing(b, h, l, w)
  BY DEF HoldsBytes
<1>2. /\ b.size \in Nat \ {0} /\ l \in Nat /\ w \in Nat /\ l + w <= b.size
      /\ b.free \in Nat /\ b.free < b.size /\ b.free + l <= b.size
      /\ b.read = Spot(b.size, b.free + l) /\ b.write = Spot(b.size, b.free + l + w)
      /\ b.full \in BOOLEAN /\ b.waiting = w /\ b.kind \in Kinds
  BY <1>1 DEF ByteRing
<1>3. b.read \in 0 .. b.size - 1 /\ b.write \in 0 .. b.size - 1
      /\ b.free \in 0 .. b.size - 1
  BY <1>2 DEF Spot
<1>4. \A item \in h : item.off = b.free
  BY <1>1 DEF ByteRing, Part
<1> QED
  BY <1>2, <1>3, <1>4

(* The count of a byte buffer is that of its unread bytes, and they can be *)
(* received when none are lent.                                            *)
LEMMA BytesUnread ==
    ASSUME NEW b, NEW h, HoldsBytes(b, h)
    PROVE  LET waits == Queue!UnreadAt(States(b))
           IN  /\ b.waiting = Cardinality(waits)
               /\ CheckItemAvail(b) <=> waits # {} /\ h = {}
<1>1. PICK l, w : ByteRing(b, h, l, w)
  BY DEF HoldsBytes
<1> DEFINE waits == Queue!UnreadAt(States(b))
           S == b.size
           F == b.free
<1>2. /\ S \in Nat \ {0} /\ l \in Nat /\ w \in Nat /\ l + w <= S
      /\ F \in Nat /\ F < S /\ F + l <= S
      /\ b.read = Spot(S, F + l) /\ b.write = Spot(S, F + l + w)
      /\ b.full \in BOOLEAN /\ b.waiting = w /\ (b.full <=> l + w = S)
      /\ b.kind = "bytebuf" /\ (h = {} <=> l = 0)
  BY <1>1 DEF ByteRing
<1>3. waits = l + 1 .. l + w
  BY <1>1, <1>2, BytesStates, LoanParts
<1> HIDE DEF waits
<1>4. Cardinality(waits) = w
  <2> DEFINE lo == l + 1
             hi == l + w
  <2>1. Cardinality(lo .. hi) = IF lo > hi THEN 0 ELSE hi - lo + 1
    <3>1. lo \in Int /\ hi \in Int
      BY <1>2
    <3> HIDE DEF lo, hi
    <3> QED
      BY <3>1, FS_Interval
  <2> QED
    BY <1>2, <1>3, <2>1
<1>5. waits # {} <=> w > 0
  <2>1. w > 0 => l + 1 \in waits
    BY <1>2, <1>3
  <2>2. \A i \in waits : w > 0
    BY <1>2, <1>3
  <2> QED
    BY <1>2, <2>1, <2>2
<1>6. b.read = F /\ w > 0 <=> l = 0 /\ w > 0
  <2> HIDE DEF S, F
  <2> QED
    BY <1>2 DEF Spot
<1>7. l = 0 /\ w > 0 => b.read # b.write \/ b.full
  <2> HIDE DEF S, F
  <2> QED
    BY <1>2 DEF Spot
<1>8. CheckItemAvail(b) <=> b.read = F /\ w > 0 /\ (b.read # b.write \/ b.full)
  BY <1>2 DEF CheckItemAvail
<1>9. CheckItemAvail(b) <=> waits # {} /\ h = {}
  BY <1>2, <1>5, <1>6, <1>7, <1>8
<1> QED
  BY <1>2, <1>4, <1>9 DEF waits

(* Bytes that fit have room, and the current maximum size fits.            *)
LEMMA BytesRoom ==
    ASSUME NEW b, NEW h, HoldsBytes(b, h)
    PROVE  /\ \A n \in 0 .. b.max : CheckItemFits(b, n) => n <= GetFreeSize(b)
           /\ ~b.full => CheckItemFits(b, GetCurMaxSize(b))
<1>1. PICK l, w : ByteRing(b, h, l, w)
  BY DEF HoldsBytes
<1> DEFINE S == b.size
           F == b.free
           W == b.write
<1>2. /\ S \in Nat \ {0} /\ l \in Nat /\ w \in Nat /\ l + w <= S
      /\ F \in Nat /\ F < S /\ W = Spot(S, F + l + w) /\ F + l <= S
      /\ b.full \in BOOLEAN /\ (b.full <=> l + w = S)
      /\ b.kind = "bytebuf" /\ b.max = S
  BY <1>1 DEF ByteRing
<1>3. ~b.full => GetFreeSize(b) = S - (l + w)
  BY <1>1, BytesFree
<1>4. b.full => GetFreeSize(b) = 0
  BY DEF GetFreeSize
<1>5. ASSUME NEW n \in 0 .. b.max, CheckItemFits(b, n) PROVE n <= GetFreeSize(b)
  <2>1. CASE n = 0
    BY <1>2, <1>3, <1>4, <2>1
  <2>2. CASE n # 0
    <3>1. n \in 1 .. b.max
      BY <1>2, <2>2
    <3>2. l + w + n <= S
      BY <1>1, <1>5, <3>1, BytesSent
    <3> QED
      BY <1>2, <1>3, <1>4, <3>1, <3>2
  <2> QED
    BY <2>1, <2>2
<1>6. ASSUME ~b.full PROVE CheckItemFits(b, GetCurMaxSize(b))
  <2> DEFINE n == GetCurMaxSize(b)
  <2>1. n = IF F - W <= 0 THEN F - W + S ELSE F - W
    BY <1>2, <1>6 DEF GetCurMaxSize, GetCurMaxSizeByteBuf
  <2>2. W \in Nat
    BY <1>2 DEF Spot
  <2> HIDE DEF n
  <2>3. \/ W = F
        \/ F > W /\ n <= F - W
        \/ F < W /\ n <= S - (W - F)
    BY <1>2, <2>1, <2>2
  <2>4. CheckItemFits(b, n)
    BY <1>2, <1>6, <2>3 DEF CheckItemFits, CheckItemFitsByteBuffer
  <2> QED
    BY <2>4 DEF n
<1> QED
  BY <1>5, <1>6

(* What the client holds is shown by the storage.                          *)
LEMMA ItemsShown ==
    ASSUME NEW b, NEW h, HoldsItems(b, h), NEW item \in h
    PROVE  \E i \in DOMAIN Contents(b) :
             Contents(b)[i] = [off |-> item.off, state |-> "client"]
<1>1. PICK n, r, d, p : Sized(b) /\ Chained(b, n, r, d, p) /\ Owned(b, h, n, r, p)
  BY DEF HoldsItems
<1>2. n \in Nat /\ r \in 0 .. n /\ d \in 0 .. n
  BY <1>1, AllRead
<1>3. PICK k \in Lent(b, r, p) : item = Piece(b, p, k)
  BY <1>1 DEF Owned
<1>4. k \in 0 .. n - 1 /\ k < r /\ ~Over(b, p, k) /\ item.off = Spot(b.size, p[k])
  BY <1>2, <1>3 DEF Lent, Piece, Part
<1>5. k # d /\ At(b, p, k).flags # {"FREE"}
  BY <1>1, <1>4 DEF Over, Chained, Marked
<1>6. PICK i \in 1 .. Count(d, n) : Index(d, i) = k
  <2>1. k \in 0 .. n - 1 /\ k # d
    BY <1>4, <1>5
  <2>2. \A j \in 0 .. n - 1 : j # d =>
          \E i \in 1 .. Count(d, n) : Index(d, i) = j
    BY <1>2, IndexIs
  <2> QED
    BY <2>1, <2>2
<1>7. /\ DOMAIN Contents(b) = 1 .. Count(d, n)
      /\ Contents(b)[i] = [off |-> Spot(b.size, p[k]), state |-> State(b, r, p, k)]
  BY <1>1, <1>6, StatesAre
<1>8. State(b, r, p, k) = "client"
  BY <1>4, <1>5 DEF State
<1> QED
  BY <1>4, <1>6, <1>7, <1>8

(* The same for a byte buffer, where the loan starts at the free pointer.  *)
LEMMA BytesShown ==
    ASSUME NEW b, NEW h, HoldsBytes(b, h), NEW item \in h
    PROVE  \E i \in DOMAIN Contents(b) :
             Contents(b)[i] = [off |-> item.off, state |-> "client"]
<1>1. PICK l, w : ByteRing(b, h, l, w)
  BY DEF HoldsBytes
<1>2. l \in Nat /\ w \in Nat /\ l > 0 /\ item.off = b.free
  BY <1>1 DEF ByteRing, Part
<1>3. /\ DOMAIN Contents(b) = 1 .. l + w
      /\ Contents(b)[1] = [off |-> b.free, state |-> "client"]
  BY <1>1, <1>2, BytesAre
<1>4. 1 \in 1 .. l + w
  BY <1>2
<1> QED
  BY <1>2, <1>3, <1>4

------------------------------------------------------------------------------

(* An item that was received keeps its place until it is returned, in a    *)
(* buffer of any size and wherever the other items went                    *)
(* (vRingbufferReturnItem).                                                *)
THEOREM HeldItemsStay == ASSUME ~Hoarding PROVE Spec => []HeldIsKept
<1>1. Inv => HeldIsKept
  BY ItemsShown, BytesShown DEF Inv, HeldIsKept
<1> QED
  BY <1>1, InvHolds, PTL

(* A client that has returned everything can send an item of xMaxItemSize  *)
(* again, wherever the pointers stand (prvCheckItemFitsDefault and its     *)
(* twin for bytes).                                                        *)
THEOREM DrainedBufferTakesMax == ASSUME ~Hoarding PROVE Spec => []DrainedTakesMax
<1>1. Inv => DrainedTakesMax
  BY DrainedItems, DrainedBytes
     DEF Inv, DrainedTakesMax, CheckItemFits, CheckItemFitsDefault,
         CheckItemFitsByteBuffer
<1> QED
  BY <1>1, InvHolds, PTL

(* The invariant makes a buffer of items sound.                            *)
LEMMA SoundItems ==
    ASSUME HoldsItems(rb, held)
    PROVE  StorageIsSound
<1>1. rb.kind # "bytebuf" /\ rb.kind \in {"nosplit", "allowsplit"}
  BY DEF HoldsItems, Sized
<1>2. TypeOK
  BY ItemsTyped DEF TypeOK
<1>3. AssertsHold
  <2>1. ASSUME CheckItemAvail(rb)
        PROVE  LET first == GetItemDefault(rb).item
                   second == GetItemDefault(GetItemDefault(rb).rb).item
               IN  /\ first.len \in 0 .. rb.max
                   /\ "SPLIT" \in first.flags =>
                        /\ second.len \in 0 .. rb.max
                        /\ second.off < first.off
                        /\ "SPLIT" \notin second.flags
    <3>1. PICK n, r, d, p : Sized(rb) /\ Chained(rb, n, r, d, p)
      BY DEF HoldsItems
    <3>2. rb.waiting > 0
      BY <2>1 DEF CheckItemAvail
    <3> QED
      BY <3>1, <3>2, HalvesAre
  <2> QED
    BY <2>1, ItemsAssert DEF AssertsHold
<1>4. UnreadIsAvailable
  BY <1>1, ItemsUnread DEF UnreadIsAvailable, GetInfo
<1>5. FitsMeansRoom
  BY <1>1, ItemsRoom DEF FitsMeansRoom, GetMaxItemSize
<1>6. CurFreeSizeFits
  BY <1>1, ItemsFreeSize DEF CurFreeSizeFits
<1>7. WrapIsTold
  <2> SUFFICES ASSUME rb.waiting > 0
               PROVE  LET next == GetItemDefault(rb)
                          told == GetInfo(rb)
                          then == GetInfo(next.rb)
                      IN  /\ IsNextItemWrapped(rb) <=> "SPLIT" \in next.item.flags
                          /\ IsNextItemWrapped(rb) =>
                               /\ then.read = 0
                               /\ then.waiting > 0
                               /\ then.waiting = told.waiting - 1
                               /\ then.free = told.free /\ then.write = told.write
    BY DEF WrapIsTold
  <2>1. PICK n, r, d, p : Sized(rb) /\ Chained(rb, n, r, d, p)
    BY DEF HoldsItems
  <2>2. LET next == GetItemDefault(rb)
        IN  /\ "SPLIT" \in next.item.flags <=> "SPLIT" \in rb.hdr[rb.read].flags
            /\ "SPLIT" \in next.item.flags => next.rb.read = 0 /\ next.rb.waiting > 0
            /\ Moved(rb, next.rb) /\ next.rb.waiting = rb.waiting - 1
    BY <2>1, HalvesAre
  <2> QED
    BY <2>2 DEF IsNextItemWrapped, Moved, GetInfo
<1> QED
  BY <1>2, <1>3, <1>4, <1>5, <1>6, <1>7 DEF StorageIsSound

(* And a byte buffer.                                                      *)
LEMMA SoundBytes ==
    ASSUME HoldsBytes(rb, held)
    PROVE  StorageIsSound
<1>1. rb.kind = "bytebuf"
  BY DEF HoldsBytes, ByteRing
<1>2. TypeOK
  BY BytesTyped DEF TypeOK
<1>3. AssertsHold /\ WrapIsTold
  BY <1>1 DEF AssertsHold, WrapIsTold
<1>4. UnreadIsAvailable
  BY <1>1, BytesUnread DEF UnreadIsAvailable, GetInfo
<1>5. FitsMeansRoom
  BY <1>1, BytesRoom DEF FitsMeansRoom, GetMaxItemSize
<1>6. CurFreeSizeFits
  BY <1>1, BytesRoom DEF CurFreeSizeFits
<1> QED
  BY <1>2, <1>3, <1>4, <1>5, <1>6 DEF StorageIsSound

(* No assertion of ringbuf.c fails, its counts and its pointers agree on   *)
(* what is unread, an item that fits has its room, and what the buffer     *)
(* tells of itself can be relied on, for any size of the storage and of    *)
(* the items.                                                              *)
THEOREM StorageCanBeTrusted == ASSUME ~Hoarding PROVE Spec => []StorageIsSound
<1>1. Inv => StorageIsSound
  BY SoundItems, SoundBytes DEF Inv
<1> QED
  BY <1>1, InvHolds, PTL

------------------------------------------------------------------------------
(* The queue set                                                           *)

SenderStates ==
    {"idle", "looking", "announcing", "announcingFull", "givingBack"}

(* What the steps need to know of the types.                               *)
SetShape ==
    /\ unread \in Nat
    /\ given \subseteq Semaphores /\ members \subseteq Semaphores
    /\ events \in [Semaphores -> Nat] /\ joins \in [Semaphores -> Nat]
    /\ aborted \in BOOLEAN
    /\ pc \in [Senders -> SenderStates]

Announcing == \E s \in Senders : pc[s] \in {"announcing", "announcingFull"}

(* Something unread is announced by the semaphore, or about to be.         *)
UnreadIsGiven ==
    unread > 0 =>
        "items" \in given \/ Announcing \/ reader \in {"looking", "givingBack"}

(* A member that is given can be selected, or was.                         *)
GivenIsSelectable ==
    "items" \in members \cap given => events["items"] > 0 \/ reader = "receiving"

One(condition) == IF condition THEN 1 ELSE 0

(* The events of the items semaphore, as long as the free one has none:    *)
(* every join lets in one that no give explains, and one more for a        *)
(* receive that began outside the set.                                     *)
EventsAreFew ==
    joins["free"] = 0 =>
        /\ "free" \notin members /\ events["free"] = 0
        /\ IF "items" \in members
           THEN events["items"] + One(reader = "receiving") + 1
                    <= 2 * joins["items"] + One("items" \in given)
           ELSE events["items"] <= 2 * joins["items"]

(* The inductive invariant: UnreadIsSelectable says nothing of a semaphore *)
(* outside the set, which may join it at any time, and NoEventIsRefused    *)
(* nothing of a set that has room.                                         *)
SetIInv ==
    /\ SetShape
    /\ NoEventIsRefused
    /\ ~aborted => UnreadIsGiven /\ GivenIsSelectable /\ EventsAreFew

-----------------------------------------------------------------------------
(* What the set is told                                                    *)

(* The set has the events of news, or had no room for them.                *)
Told(news) ==
    /\ events' \in [Semaphores -> Nat] /\ aborted' \in BOOLEAN
    /\ ~aborted' => \A sem \in Semaphores :
                        events'[sem] = events[sem] + One(sem \in news)
    /\ aborted' => SetLength < events["items"] + events["free"]
                                + One("items" \in news) + One("free" \in news)

(* How many semaphores a set of them has.                                  *)
LEMMA SemaphoresCount ==
  ASSUME NEW news \in SUBSET Semaphores
  PROVE  Cardinality(news) = One("items" \in news) + One("free" \in news)
<1>1. Cardinality({}) = 0 /\ IsFiniteSet({})
  BY FS_EmptySet
<1>2. \A x : IsFiniteSet({x}) /\ Cardinality({x}) = 1
  BY FS_Singleton
<1>3. Cardinality({"items"} \cup {"free"}) = 2
  <2>1. /\ IsFiniteSet({"items"}) /\ Cardinality({"items"}) = 1
        /\ "free" \notin {"items"}
    BY <1>2
  <2> QED
    BY <2>1, FS_AddElement
<1>4. \/ news = {} \/ news = {"items"} \/ news = {"free"}
      \/ news = {"items"} \cup {"free"}
  BY DEF Semaphores
<1>5. CASE news = {}
  BY <1>1, <1>5 DEF One
<1>6. CASE news = {"items"}
  <2>1. Cardinality(news) = 1 /\ "items" \in news /\ "free" \notin news
    BY <1>2, <1>6
  <2> QED
    BY <2>1 DEF One
<1>7. CASE news = {"free"}
  <2>1. Cardinality(news) = 1 /\ "free" \in news /\ "items" \notin news
    BY <1>2, <1>7
  <2> QED
    BY <2>1 DEF One
<1>8. CASE news = {"items"} \cup {"free"}
  <2>1. Cardinality(news) = 2 /\ "items" \in news /\ "free" \in news
    BY <1>3, <1>8
  <2> QED
    BY <2>1 DEF One
<1> QED
  BY <1>4, <1>5, <1>6, <1>7, <1>8

(* A notification tells the set, or finds no room.                         *)
LEMMA NotifyTells ==
  ASSUME SetShape, ~aborted, NEW news \in SUBSET Semaphores, Notify(news)
  PROVE  Told(news)
<1>1. Cardinality(news) = One("items" \in news) + One("free" \in news)
  BY SemaphoresCount
<1> DEFINE count == Cardinality(news)
           total == events["items"] + events["free"]
<1>2. /\ events \in [Semaphores -> Nat] /\ total \in Nat /\ count \in Nat
      /\ count = One("items" \in news) + One("free" \in news)
      /\ SetLength \in Nat
  BY <1>1, BoundsAssumption DEF SetShape, One, Semaphores
<1>3. IF total + count <= SetLength
        THEN /\ events' = [sem \in Semaphores |->
                              IF sem \in news THEN events[sem] + 1 ELSE events[sem]]
             /\ aborted' = aborted
        ELSE aborted' = TRUE /\ events' = events
  BY DEF Notify
<1> HIDE DEF count
<1>4. CASE total + count <= SetLength
  <2>1. /\ events' = [sem \in Semaphores |->
                         IF sem \in news THEN events[sem] + 1 ELSE events[sem]]
        /\ ~aborted'
    BY <1>3, <1>4
  <2>2. events' \in [Semaphores -> Nat]
    BY <1>2, <2>1
  <2>4. aborted' \in BOOLEAN
    BY <1>3, <1>4 DEF SetShape
  <2>3. ASSUME NEW sem \in Semaphores
        PROVE  events'[sem] = events[sem] + One(sem \in news)
    BY <1>2, <2>1 DEF One
  <2> QED
    BY <2>1, <2>2, <2>3, <2>4 DEF Told
<1>5. CASE ~(total + count <= SetLength)
  <2>1. aborted' /\ events' = events /\ aborted' \in BOOLEAN
    BY <1>3, <1>5
  <2>2. SetLength < total + One("items" \in news) + One("free" \in news)
    BY <1>2, <1>5 DEF One
  <2> QED
    BY <1>2, <2>1, <2>2 DEF Told
<1> QED
  BY <1>4, <1>5

(* A give tells the set of a member that was not given.                    *)
LEMMA GiveTells ==
  ASSUME SetShape, ~aborted, NEW sem \in Semaphores, Give(sem)
  PROVE  /\ given' = given \cup {sem} /\ members' = members
         /\ Told((members \cap {sem}) \ given)
  BY NotifyTells DEF Give, SetShape

(* A join tells the set of what is given already.                          *)
LEMMA JoinTells ==
  ASSUME SetShape, ~aborted, NEW sem \in Semaphores, Join(sem)
  PROVE  /\ given' = given /\ members' = members \cup {sem}
         /\ Told(given \cap {sem})
  BY NotifyTells DEF Join, SetShape

-----------------------------------------------------------------------------

(* The invariant holds at first.                                           *)
LEMMA SetInitially == SetInit => SetIInv
<1> SUFFICES ASSUME SetInit
             PROVE  SetIInv
  OBVIOUS
<1>1. /\ events["items"] = 0 /\ events["free"] = 0
      /\ joins["items"] = 0 /\ joins["free"] = 0
      /\ unread = 0 /\ given = {"free"} /\ members = {} /\ ~aborted
  BY DEF SetInit, Semaphores
<1>2. SetShape
  BY DEF SetInit, SetShape, Semaphores, SenderStates
<1>3. EventsAreFew
  BY <1>1 DEF EventsAreFew
<1> QED
  BY <1>1, <1>2, <1>3 DEF SetIInv, UnreadIsGiven, GivenIsSelectable, NoEventIsRefused

(* A join keeps the invariant: joins counts it.                            *)
LEMMA JoinKeeps ==
  ASSUME SetIInv, ~aborted, NEW sem \in Semaphores, SetCall({sem}), Join(sem)
  PROVE  SetIInv'
<1>1. /\ given' = given /\ members' = members \cup {sem}
      /\ Told(given \cap {sem})
  BY JoinTells DEF SetIInv
<1>2. /\ joins' \in [Semaphores -> Nat]
      /\ joins'[sem] = joins[sem] + 1
      /\ \A other \in Semaphores \ {sem} : joins'[other] = joins[other]
      /\ unread' = unread /\ pc' = pc /\ reader' = reader
  BY DEF SetCall, storage, SetIInv, SetShape
<1>3. SetShape'
  BY <1>1, <1>2 DEF SetIInv, SetShape, Told
<1>4. ~aborted' => UnreadIsGiven' /\ GivenIsSelectable'
  BY <1>1, <1>2 DEF SetIInv, SetShape, UnreadIsGiven, GivenIsSelectable, Announcing,
                    Told, One, Semaphores
<1>5. CASE sem = "free"
  <2>1. joins'["free"] > 0
    BY <1>2, <1>5 DEF SetIInv, SetShape, Semaphores
  <2> QED
    BY <1>3, <1>4, <2>1 DEF SetIInv, NoEventIsRefused, EventsAreFew
<1>6. CASE sem = "items"
  <2>1. /\ joins["items"] \in Nat /\ events["items"] \in Nat
        /\ joins'["items"] = joins["items"] + 1 /\ joins'["free"] = joins["free"]
        /\ events["free"] \in Nat /\ events'["free"] \in Nat /\ joins["free"] \in Nat
    BY <1>1, <1>2, <1>6 DEF SetIInv, SetShape, Told, Semaphores
  <2>2. /\ "items" \in members'
        /\ "free" \in members' <=> "free" \in members
    BY <1>1, <1>6
  <2>3. /\ ~aborted' =>
              /\ events'["items"] = events["items"] + One("items" \in given)
              /\ events'["free"] = events["free"]
        /\ aborted' => SetLength < events["items"] + events["free"]
                                   + One("items" \in given)
    BY <1>1, <1>6, <2>1, BoundsAssumption DEF Told, One, Semaphores
  <2>4. EventsAreFew
    BY DEF SetIInv
  <2>5. NoEventIsRefused'
    <3> SUFFICES ASSUME aborted', joins["free"] = 0
                 PROVE  SetLength < 2 * joins'["items"]
      BY <2>1 DEF NoEventIsRefused
    <3>2. One(reader = "receiving") \in {0, 1} /\ One("items" \in given) \in {0, 1}
      BY DEF One
    <3>1. events["items"] <= 2 * joins["items"] /\ events["free"] = 0
      <4>1. /\ events["free"] = 0
            /\ IF "items" \in members
                 THEN events["items"] + One(reader = "receiving") + 1
                          <= 2 * joins["items"] + One("items" \in given)
                 ELSE events["items"] <= 2 * joins["items"]
        BY <2>1, <2>4 DEF EventsAreFew
      <4>2. ASSUME NEW r \in {0, 1}, NEW g \in {0, 1},
                   events["items"] + r + 1 <= 2 * joins["items"] + g
            PROVE  events["items"] <= 2 * joins["items"]
        BY <2>1, <4>2
      <4> QED
        BY <3>2, <4>1, <4>2
    <3> QED
      BY <2>1, <2>3, <3>1, BoundsAssumption DEF One
  <2>6. ~aborted' => EventsAreFew'
    <3> SUFFICES ASSUME ~aborted', joins'["free"] = 0
                 PROVE  EventsAreFew'
      BY DEF EventsAreFew
    <3>1. /\ "free" \notin members' /\ events'["free"] = 0
          /\ events["items"] + One(reader = "receiving") <= 2 * joins["items"] + 1
      BY <2>1, <2>2, <2>3, <2>4 DEF EventsAreFew, One
    <3>2. events'["items"] + One(reader' = "receiving") + 1
             <= 2 * joins'["items"] + One("items" \in given')
      BY <1>1, <1>2, <2>1, <2>3, <3>1 DEF One
    <3> QED
      BY <2>2, <3>1, <3>2 DEF EventsAreFew
  <2> QED
    BY <1>3, <1>4, <2>5, <2>6 DEF SetIInv
<1> QED
  BY <1>5, <1>6 DEF Semaphores

(* The calls on the queue set.                                             *)
LEMMA SetCallsKeep ==
  ASSUME SetIInv, ~aborted, SetCalls
  PROVE  SetIInv'
<1>1. ASSUME NEW sem \in Semaphores, SetCall({}), Leave(sem)
      PROVE  SetIInv'
  <2>1. /\ joins' = joins /\ given' = given /\ events' = events
        /\ aborted' = aborted /\ unread' = unread /\ pc' = pc /\ reader' = reader
        /\ members' = members \ {sem}
    BY <1>1 DEF SetCall, Leave, storage, SetIInv, SetShape
  <2> QED
    BY <2>1 DEF SetIInv, SetShape, UnreadIsGiven, GivenIsSelectable, Announcing,
                EventsAreFew, NoEventIsRefused, One, Semaphores
<1> QED
  BY <1>1, JoinKeeps DEF SetCalls, AddToQueueSetRead, AddToQueueSetWrite,
                         RemoveFromQueueSetRead, RemoveFromQueueSetWrite, Semaphores

(* A give of the semaphores in gives keeps what is known of the events.    *)
LEMMA GivesKeep ==
  ASSUME SetIInv, ~aborted, NEW gives \in SUBSET Semaphores,
         given' = given \cup gives, members' = members, joins' = joins,
         reader' = "receiving" <=> reader = "receiving",
         Told((members \cap gives) \ given)
  PROVE  /\ events' \in [Semaphores -> Nat] /\ aborted' \in BOOLEAN
         /\ NoEventIsRefused'
         /\ ~aborted' => EventsAreFew' /\ GivenIsSelectable'
<1>1. /\ joins["items"] \in Nat /\ events["items"] \in Nat
      /\ joins["free"] \in Nat /\ events["free"] \in Nat
  BY DEF SetIInv, SetShape, Semaphores
<1> DEFINE fresh == One("items" \in members /\ "items" \in gives /\ "items" \notin given)
<1>2. fresh \in {0, 1} /\ (fresh = 1 => "items" \in members \ given /\ "items" \in given')
  BY DEF One
<1>7. /\ events' \in [Semaphores -> Nat] /\ aborted' \in BOOLEAN
      /\ ~aborted' => GivenIsSelectable'
  BY DEF Told, SetIInv, SetShape, GivenIsSelectable, One, Semaphores
<1> SUFFICES ASSUME joins["free"] = 0
             PROVE  NoEventIsRefused' /\ (~aborted' => EventsAreFew')
  BY <1>1, <1>7 DEF NoEventIsRefused, EventsAreFew
<1>3. /\ "free" \notin members /\ events["free"] = 0
      /\ IF "items" \in members
           THEN events["items"] + One(reader = "receiving") + 1
                    <= 2 * joins["items"] + One("items" \in given)
           ELSE events["items"] <= 2 * joins["items"]
  BY DEF SetIInv, EventsAreFew
<1>4. /\ ~aborted' => /\ events'["items"] = events["items"] + fresh
                      /\ events'["free"] = 0
      /\ aborted' => SetLength < events["items"] + fresh
  <2>1. /\ One("items" \in (members \cap gives) \ given) = fresh
        /\ One("free" \in (members \cap gives) \ given) = 0
    BY <1>3 DEF One
  <2> QED
    BY <1>1, <1>2, <1>3, <2>1, BoundsAssumption DEF Told, Semaphores
<1> HIDE DEF fresh
<1>5. IF "items" \in members
        THEN events["items"] + fresh + One(reader' = "receiving") + 1
                 <= 2 * joins["items"] + One("items" \in given')
        ELSE events["items"] + fresh <= 2 * joins["items"]
  BY <1>1, <1>2, <1>3 DEF One
<1>6. events["items"] + fresh <= 2 * joins["items"]
  BY <1>1, <1>2, <1>5 DEF One
<1> QED
  BY <1>1, <1>2, <1>3, <1>4, <1>5, <1>6, BoundsAssumption
  DEF NoEventIsRefused, EventsAreFew

(* The steps of a send.                                                    *)
LEMMA SendersKeep ==
  ASSUME SetIInv, ~aborted, NEW s \in Senders, TakeFree(s) \/ SenderStep(s)
  PROVE  SetIInv'
<1> USE DEF SetIInv, SetShape, UnreadIsGiven, Announcing, SenderStates, Goto
<1>1. CASE TakeFree(s)
  BY <1>1 DEF TakeFree, Take, GivenIsSelectable, EventsAreFew, NoEventIsRefused,
              storage, set, calls, Semaphores
<1>2. CASE TryCopy(s)
  BY <1>2 DEF TryCopy, GivenIsSelectable, EventsAreFew, NoEventIsRefused, set, calls
<1>3. CASE GiveItems(s)
  <2>1. /\ given' = given \cup {"items"} /\ members' = members
        /\ Told((members \cap {"items"}) \ given)
    BY <1>3, GiveTells DEF GiveItems, Semaphores
  <2>2. unread' = unread /\ reader' = reader /\ joins' = joins
    BY <1>3 DEF GiveItems, storage, calls
  <2>3. pc' \in [Senders -> SenderStates]
    BY <1>3 DEF GiveItems
  <2> QED
    BY <2>1, <2>2, <2>3, GivesKeep DEF Semaphores
<1>4. CASE GiveFreeBack(s)
  <2>1. /\ given' = given \cup {"free"} /\ members' = members
        /\ Told((members \cap {"free"}) \ given)
    BY <1>4, GiveTells DEF GiveFreeBack, Semaphores
  <2>2. unread' = unread /\ reader' = reader /\ joins' = joins
    BY <1>4 DEF GiveFreeBack, storage, calls
  <2>3. pc' \in [Senders -> SenderStates] /\ (Announcing => Announcing')
    BY <1>4 DEF GiveFreeBack
  <2> QED
    BY <2>1, <2>2, <2>3, GivesKeep DEF Semaphores
<1> QED
  BY <1>1, <1>2, <1>3, <1>4 DEF SenderStep

(* A send from an interrupt.                                               *)
LEMMA InterruptKeeps ==
  ASSUME SetIInv, ~aborted, SendFromISR
  PROVE  SetIInv'
<1> DEFINE gives == {"items"} \cup
                    (IF unread' + received < Capacity THEN {"free"} ELSE {})
<1>1. /\ given' = given \cup gives /\ members' = members
      /\ Notify((gives \cap members) \ given)
  BY DEF SendFromISR
<1>2. "items" \in gives /\ gives \in SUBSET Semaphores
  BY DEF Semaphores
<1>3. unread' = unread + 1 /\ reader' = reader /\ pc' = pc /\ joins' = joins
  BY DEF SendFromISR, calls
<1> HIDE DEF gives
<1>4. /\ (gives \cap members) \ given = (members \cap gives) \ given
      /\ (members \cap gives) \ given \in SUBSET Semaphores
  BY <1>2
<1>5. Told((members \cap gives) \ given)
  BY <1>1, <1>4, NotifyTells DEF SetIInv
<1> QED
  <2>1. /\ events' \in [Semaphores -> Nat] /\ aborted' \in BOOLEAN
        /\ NoEventIsRefused'
        /\ ~aborted' => EventsAreFew' /\ GivenIsSelectable'
    BY <1>1, <1>2, <1>3, <1>5, GivesKeep
  <2>2. "items" \in given' /\ given' \subseteq Semaphores
    BY <1>1, <1>2 DEF SetIInv, SetShape
  <2> QED
    BY <1>1, <1>3, <2>1, <2>2 DEF SetIInv, SetShape, UnreadIsGiven

(* The steps of the reader.                                                *)
LEMMA ReaderKeeps ==
  ASSUME SetIInv, ~aborted, ReaderStep
  PROVE  SetIInv'
<1> USE DEF SetIInv, SetShape, UnreadIsGiven, Announcing
<1>1. CASE Select
  BY <1>1 DEF Select, CanRead, GivenIsSelectable, EventsAreFew, NoEventIsRefused,
              One, storage, calls, Semaphores
<1>2. CASE ReceiveDirectly
  BY <1>2 DEF ReceiveDirectly, GivenIsSelectable, EventsAreFew, NoEventIsRefused,
              One, storage, set, calls
<1>3. CASE TakeItems
  BY <1>3 DEF TakeItems, Take, GivenIsSelectable, EventsAreFew, NoEventIsRefused,
              One, storage, set, calls, Semaphores
<1>4. CASE TryGet
  BY <1>4 DEF TryGet, GivenIsSelectable, EventsAreFew, NoEventIsRefused, storage,
              set, calls
<1>5. CASE GiveItemsBack
  <2>1. /\ given' = given \cup {"items"} /\ members' = members
        /\ Told((members \cap {"items"}) \ given)
    BY <1>5, GiveTells DEF GiveItemsBack, Semaphores
  <2>2. /\ unread' = unread /\ joins' = joins /\ pc' = pc
        /\ reader # "receiving" /\ reader' # "receiving"
    BY <1>5 DEF GiveItemsBack, storage, calls
  <2> QED
    BY <2>1, <2>2, GivesKeep DEF Semaphores
<1>6. CASE ReturnReceived
  BY <1>6 DEF ReturnReceived, GivenIsSelectable, EventsAreFew, NoEventIsRefused,
              One, set, calls
<1>7. CASE GiveSpace
  <2>1. /\ given' = given \cup {"free"} /\ members' = members
        /\ Told((members \cap {"free"}) \ given)
    BY <1>7, GiveTells DEF GiveSpace, Semaphores
  <2>2. /\ unread' = unread /\ joins' = joins /\ pc' = pc
        /\ reader = "returned" /\ reader' = "idle"
    BY <1>7 DEF GiveSpace, storage, calls
  <2> QED
    BY <2>1, <2>2, GivesKeep DEF Semaphores
<1> QED
  BY <1>1, <1>2, <1>3, <1>4, <1>5, <1>6, <1>7 DEF ReaderStep

(* Something unread is announced, what is given can be selected, and the   *)
(* events of the items semaphore are at most two for every join, for any   *)
(* number of senders, items, joins and leaves and a set of any length.     *)
THEOREM SetInvariance == SetSpec => []SetIInv
<1>1. SetIInv /\ [SetNext]_setVars => SetIInv'
  <2> SUFFICES ASSUME SetIInv, [SetNext]_setVars
               PROVE  SetIInv'
    OBVIOUS
  <2>1. CASE UNCHANGED setVars
    BY <2>1 DEF setVars, storage, set, calls, SetIInv, SetShape, UnreadIsGiven,
                GivenIsSelectable, Announcing, EventsAreFew, NoEventIsRefused
  <2> QED
    BY <2>1, SetCallsKeep, SendersKeep, InterruptKeeps, ReaderKeeps DEF SetNext
<1> QED
  BY <1>1, SetInitially, PTL DEF SetSpec

(* While the program runs, a reader that waits on the set loses no item.   *)
THEOREM NoItemIsLost == SetSpec => []UnreadIsSelectable
<1>1. SetIInv => UnreadIsSelectable
  BY DEF SetIInv, SetShape, UnreadIsGiven, GivenIsSelectable, Announcing,
         UnreadIsSelectable
<1> QED
  BY <1>1, SetInvariance, PTL

(* A set with two places for every join of the items semaphore has room    *)
(* for every event, as long as the free semaphore never joins.             *)
THEOREM TwoPlacesPerJoin == SetSpec => []NoEventIsRefused
<1>1. SetIInv => NoEventIsRefused
  BY DEF SetIInv
<1> QED
  BY <1>1, SetInvariance, PTL

-----------------------------------------------------------------------------
(* The types need to know when the reader has an item.                     *)

SetTypeInv ==
    /\ SetTypeOK
    /\ received = IF reader \in {"givingBack", "holding"} THEN 1 ELSE 0

(* What a notification and the counts of the calls leave of the types.     *)
LEMMA NotifyTypes ==
  ASSUME SetTypeOK, NEW news, Notify(news)
  PROVE  events' \in [Semaphores -> Nat] /\ aborted' \in BOOLEAN
<1>1. events \in [Semaphores -> Nat] /\ aborted \in BOOLEAN
  BY DEF SetTypeOK
<1>2. \/ /\ events' = [sem \in Semaphores |->
                         IF sem \in news THEN events[sem] + 1 ELSE events[sem]]
         /\ aborted' = aborted
      \/ aborted' = TRUE /\ events' = events
  BY DEF Notify
<1>3. events' \in [Semaphores -> Nat]
  BY <1>1, <1>2
<1>4. aborted' \in BOOLEAN
  BY <1>1, <1>2
<1> QED
  BY <1>3, <1>4

LEMMA SetCallTypes ==
  ASSUME SetTypeOK, NEW added, SetCall(added)
  PROVE  setCalls' \in 0 .. MaxSetCalls /\ joins' \in [Semaphores -> 0 .. setCalls']
<1>1. setCalls' \in 0 .. MaxSetCalls /\ setCalls \in Nat /\ setCalls' = setCalls + 1
  BY BoundsAssumption DEF SetCall, SetTypeOK
<1>2. \A sem \in Semaphores : joins[sem] \in 0 .. setCalls
  BY DEF SetTypeOK
<1>3. \A sem \in Semaphores :
          joins[sem] \in 0 .. setCalls' /\ joins[sem] + 1 \in 0 .. setCalls'
  BY <1>1, <1>2
<1>4. joins' = [sem \in Semaphores |->
                  IF sem \in added THEN joins[sem] + 1 ELSE joins[sem]]
  BY DEF SetCall
<1> QED
  BY <1>1, <1>3, <1>4

(* The storage stays within its capacity and no reader holds two items,    *)
(* for any capacity, any number of senders and a set of any length         *)
(* (xRingbufferSend and vRingbufferReturnItem).                            *)
THEOREM SetTypeCorrect == SetSpec => []SetTypeOK
<1> USE BoundsAssumption DEF SetTypeInv
<1>1. SetInit => SetTypeInv
  <2> SUFFICES ASSUME SetInit
               PROVE  SetTypeInv
    OBVIOUS
  <2>1. joins \in [Semaphores -> 0 .. setCalls]
    <3>1. setCalls = 0 /\ 0 \in 0 .. setCalls
      BY DEF SetInit
    <3> QED
      BY <3>1 DEF SetInit
  <2>2. events \in [Semaphores -> Nat] /\ aborted \in BOOLEAN
    BY DEF SetInit
  <2> QED
    BY <2>1, <2>2 DEF SetInit, SetTypeOK, Semaphores
<1>2. SetTypeInv /\ [SetNext]_setVars => SetTypeInv'
  <2> SUFFICES ASSUME SetTypeInv, [SetNext]_setVars
               PROVE  SetTypeInv'
    OBVIOUS
  <2> USE DEF storage, set, calls, Goto, Give, Take
  <2>1. CASE SetCalls
    <3>1. CASE AddToQueueSetRead
      <4>1. SetCall({"items"}) /\ Join("items")
        BY <3>1 DEF AddToQueueSetRead
      <4> QED
        BY <4>1, NotifyTypes, SetCallTypes DEF Join, SetCall, SetTypeOK, Semaphores
    <3>2. CASE RemoveFromQueueSetRead
      <4>1. SetCall({}) /\ Leave("items")
        BY <3>2 DEF RemoveFromQueueSetRead
      <4> QED
        BY <4>1, SetCallTypes DEF Leave, SetCall, SetTypeOK
    <3>3. CASE AddToQueueSetWrite
      <4>1. SetCall({"free"}) /\ Join("free")
        BY <3>3 DEF AddToQueueSetWrite
      <4> QED
        BY <4>1, NotifyTypes, SetCallTypes DEF Join, SetCall, SetTypeOK, Semaphores
    <3>4. CASE RemoveFromQueueSetWrite
      <4>1. SetCall({}) /\ Leave("free")
        BY <3>4 DEF RemoveFromQueueSetWrite
      <4> QED
        BY <4>1, SetCallTypes DEF Leave, SetCall, SetTypeOK
    <3> QED
      BY <2>1, <3>1, <3>2, <3>3, <3>4 DEF SetCalls
  <2>2. ASSUME NEW s \in Senders, TakeFree(s) \/ SenderStep(s)
        PROVE  SetTypeInv'
    <3>1. CASE TakeFree(s)
      BY <3>1 DEF TakeFree, SetTypeOK
    <3>2. CASE TryCopy(s)
      BY <3>2 DEF TryCopy, SetTypeOK
    <3>3. CASE GiveItems(s)
      BY <3>3, NotifyTypes DEF GiveItems, SetTypeOK, Semaphores
    <3>4. CASE GiveFreeBack(s)
      BY <3>4, NotifyTypes DEF GiveFreeBack, SetTypeOK, Semaphores
    <3> QED
      BY <2>2, <3>1, <3>2, <3>3, <3>4 DEF SenderStep
  <2>3. CASE SendFromISR
    BY <2>3, NotifyTypes DEF SendFromISR, SetTypeOK, Semaphores
  <2>4. CASE ReaderStep
    <3>1. CASE Select
      BY <3>1 DEF Select, CanRead, SetTypeOK
    <3>2. CASE ReceiveDirectly
      BY <3>2 DEF ReceiveDirectly, SetTypeOK
    <3>3. CASE TakeItems
      BY <3>3 DEF TakeItems, SetTypeOK
    <3>4. CASE TryGet
      BY <3>4 DEF TryGet, SetTypeOK
    <3>5. CASE GiveItemsBack
      BY <3>5, NotifyTypes DEF GiveItemsBack, SetTypeOK, Semaphores
    <3>6. CASE ReturnReceived
      BY <3>6 DEF ReturnReceived, SetTypeOK
    <3>7. CASE GiveSpace
      BY <3>7, NotifyTypes DEF GiveSpace, SetTypeOK, Semaphores
    <3> QED
      BY <2>4, <3>1, <3>2, <3>3, <3>4, <3>5, <3>6, <3>7 DEF ReaderStep
  <2>5. CASE UNCHANGED setVars
    BY <2>5 DEF setVars, SetTypeOK
  <2> QED
    BY <2>1, <2>2, <2>3, <2>4, <2>5 DEF SetNext
<1>3. SetTypeInv => SetTypeOK
  OBVIOUS
<1> QED
  BY <1>1, <1>2, <1>3, PTL DEF SetSpec
==============================================================================
