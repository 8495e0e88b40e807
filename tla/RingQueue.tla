----------------------------- MODULE RingQueue -----------------------------
(***************************************************************************)
(* What a ring buffer of espressif_code/freertos/ringbuf.c promises its    *)
(* clients, without pointers, headers or a full flag: a bounded queue of   *)
(* parts (the items of a no-split buffer, the items and halves of items of *)
(* an allow-split buffer, the bytes of a byte buffer) that are handed out  *)
(* oldest first, stay where they are until their holder returns them, and  *)
(* give their space back in the order in which they were written.          *)
(***************************************************************************)
EXTENDS Naturals, Sequences, FiniteSets

CONSTANTS
    Capacity,   \* the most parts the storage can hold
    MaxParts,   \* the most parts one send adds or one receive takes
    Holders     \* the clients that receive and return

ASSUME QueueAssumption ==
    /\ Capacity \in Nat
    /\ MaxParts \in Nat
    /\ "unread" \notin Holders /\ "freed" \notin Holders

(* From the oldest part still occupying space to the newest: "unread", the *)
(* client holding it, or "freed" behind an older part that is still held.  *)
VARIABLE parts

UnreadAt(q) == {i \in DOMAIN q : q[i] = "unread"}
HeldAt(q, h) == {i \in DOMAIN q : q[i] = h}

(* The space of returned parts is reclaimed up to the oldest part that is  *)
(* still unread or held.                                                   *)
Reclaim(q) ==
    LET live == {i \in DOMAIN q : q[i] # "freed"}
        first == CHOOSE i \in live : \A j \in live : i <= j
    IN  IF live = {} THEN <<>> ELSE SubSeq(q, first, Len(q))

Sent(q, k) == q \o [i \in 1 .. k |-> "unread"]

(* The k oldest unread parts go to client h.                               *)
Taken(q, h, k) ==
    LET older(i) == Cardinality({j \in UnreadAt(q) : j < i})
    IN  [i \in DOMAIN q |->
            IF q[i] = "unread" /\ older(i) < k THEN h ELSE q[i]]

Returned(q, given) ==
    Reclaim([i \in DOMAIN q |-> IF i \in given THEN "freed" ELSE q[i]])

------------------------------------------------------------------------------

QueueInit == parts = <<>>

QueueSend ==
    \E k \in 1 .. MaxParts :
        /\ Len(parts) + k <= Capacity
        /\ parts' = Sent(parts, k)

QueueReceive(h) ==
    \E k \in 1 .. MaxParts :
        /\ k <= Cardinality(UnreadAt(parts))
        /\ parts' = Taken(parts, h, k)

(* One part is returned, or all that the client holds.                     *)
QueueReturn(h) ==
    \E given \in {{i} : i \in HeldAt(parts, h)} \cup {HeldAt(parts, h)} :
        /\ given # {}
        /\ parts' = Returned(parts, given)

QueueNext ==
    QueueSend \/ \E h \in Holders : QueueReceive(h) \/ QueueReturn(h)

QueueSpec == QueueInit /\ [][QueueNext]_parts
==============================================================================
