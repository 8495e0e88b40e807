-------------------------- MODULE RingTasks_proofs --------------------------
(***************************************************************************)
(* Proofs about the queue of RingQueue and the semaphores of RingTasks,    *)
(* for any number of senders and receivers, any capacity and any number of *)
(* calls from interrupts.                                                  *)
(***************************************************************************)
EXTENDS RingTasks, SequenceTheorems, FiniteSetTheorems, WellFoundedInduction,
        TLAPS

(* Every set of indexes has a lowest one, so Reclaim keeps a suffix.       *)
LEMMA LowestIndex ==
    ASSUME NEW S \in SUBSET Nat, S # {}
    PROVE  \E i \in S : \A j \in S : i <= j
<1>1. PICK i \in S : \A j \in S : <<j, i>> \notin OpToRel(<, Nat)
  BY WFMin, NatLessThanWellFounded
<1>2. \A j \in S : ~(j < i)
  BY <1>1 DEF OpToRel
<1> QED
  BY <1>2

(* Reclaiming keeps a queue a queue that is no longer and holds nothing    *)
(* that was not in it before.                                              *)
LEMMA ReclaimShape ==
    ASSUME NEW X, NEW q \in Seq(X)
    PROVE  /\ Reclaim(q) \in Seq(X)
           /\ Len(Reclaim(q)) <= Len(q)
           /\ \A i \in DOMAIN Reclaim(q) :
                \E j \in DOMAIN q : Reclaim(q)[i] = q[j]
<1> DEFINE live == {i \in DOMAIN q : q[i] # "freed"}
           first == CHOOSE i \in live : \A j \in live : i <= j
<1>1. CASE live = {}
  BY <1>1 DEF Reclaim
<1>2. CASE live # {}
  <2>1. live \in SUBSET Nat
    OBVIOUS
  <2>2. first \in live
    BY <1>2, <2>1, LowestIndex
  <2>3. Reclaim(q) = SubSeq(q, first, Len(q))
    BY <1>2 DEF Reclaim
  <2>4. first \in 1 .. Len(q)
    BY <2>2
  <2> HIDE DEF first, live
  <2>5. /\ SubSeq(q, first, Len(q)) \in Seq(X)
        /\ Len(SubSeq(q, first, Len(q))) = Len(q) - first + 1
        /\ \A i \in 1 .. Len(q) - first + 1 :
            SubSeq(q, first, Len(q))[i] = q[first + i - 1]
    BY <2>4
  <2>6. \A i \in 1 .. Len(q) - first + 1 : first + i - 1 \in DOMAIN q
    BY <2>4
  <2> QED
    BY <2>3, <2>4, <2>5, <2>6
<1> QED
  BY <1>1, <1>2

(* What the three changes do to the entries and the length of a queue.     *)
LEMMA SentShape ==
    ASSUME NEW X, "unread" \in X, NEW q \in Seq(X), NEW k \in Nat
    PROVE  /\ Sent(q, k) \in Seq(X)
           /\ Len(Sent(q, k)) = Len(q) + k
           /\ \A i \in DOMAIN Sent(q, k) :
                \/ Sent(q, k)[i] = "unread"
                \/ \E j \in DOMAIN q : Sent(q, k)[i] = q[j]
<1> DEFINE new == [i \in 1 .. k |-> "unread"]
<1>1. new \in Seq(X) /\ Len(new) = k /\ \A i \in 1 .. k : new[i] = "unread"
  OBVIOUS
<1>2. Sent(q, k) = q \o new
  BY DEF Sent
<1> HIDE DEF new
<1>3. /\ q \o new \in Seq(X)
      /\ Len(q \o new) = Len(q) + k
      /\ \A i \in 1 .. Len(q) + k :
            (q \o new)[i] = IF i <= Len(q) THEN q[i] ELSE new[i - Len(q)]
  BY <1>1, ConcatProperties
<1>4. ASSUME NEW i \in 1 .. Len(q) + k
      PROVE  \/ (q \o new)[i] = "unread"
             \/ \E j \in DOMAIN q : (q \o new)[i] = q[j]
  <2>1. CASE i <= Len(q)
    BY <1>3, <2>1
  <2>2. CASE ~(i <= Len(q))
    BY <1>1, <1>3, <2>2
  <2> QED
    BY <2>1, <2>2
<1> QED
  BY <1>2, <1>3, <1>4

(* A receive changes who has a part, never how many there are.             *)
LEMMA TakenShape ==
    ASSUME NEW X, NEW q \in Seq(X), NEW h \in X, NEW k
    PROVE  /\ Taken(q, h, k) \in Seq(X)
           /\ Len(Taken(q, h, k)) = Len(q)
           /\ \A i \in DOMAIN Taken(q, h, k) :
                /\ i \in DOMAIN q
                /\ Taken(q, h, k)[i] \in {q[i], h}
<1> DEFINE chosen == {i \in DOMAIN q :
                        /\ q[i] = "unread"
                        /\ Cardinality({j \in UnreadAt(q) : j < i}) < k}
<1>1. Taken(q, h, k) = [i \in DOMAIN q |-> IF i \in chosen THEN h ELSE q[i]]
  BY DEF Taken
<1> HIDE DEF chosen
<1> QED
  BY <1>1

(* A return leaves a queue that is no longer than it was.                  *)
LEMMA ReturnedShape ==
    ASSUME NEW X, "freed" \in X, NEW q \in Seq(X), NEW given
    PROVE  /\ Returned(q, given) \in Seq(X)
           /\ Len(Returned(q, given)) <= Len(q)
           /\ \A i \in DOMAIN Returned(q, given) :
                \/ Returned(q, given)[i] = "freed"
                \/ \E j \in DOMAIN q : Returned(q, given)[i] = q[j]
<1> DEFINE marked == [i \in DOMAIN q |-> IF i \in given THEN "freed" ELSE q[i]]
<1>1. /\ marked \in Seq(X) /\ Len(marked) = Len(q)
      /\ \A i \in DOMAIN marked : i \in DOMAIN q /\ marked[i] \in {"freed", q[i]}
  OBVIOUS
<1>2. Returned(q, given) = Reclaim(marked)
  BY DEF Returned
<1> HIDE DEF marked
<1>3. /\ Reclaim(marked) \in Seq(X)
      /\ Len(Reclaim(marked)) <= Len(marked)
      /\ \A i \in DOMAIN Reclaim(marked) :
            \E j \in DOMAIN marked : Reclaim(marked)[i] = marked[j]
  BY <1>1, ReclaimShape
<1> QED
  BY <1>1, <1>2, <1>3

(* The types TypeOK leaves to the shape of the model: what is a function   *)
(* of the tasks, and who may wait for the bytes of a byte buffer.          *)
ShapeOK ==
    /\ TypeOK
    /\ bytes \in BOOLEAN
    /\ pc = [t \in Senders \cup Receivers |-> pc[t]]
    /\ want \in [Senders -> 1 .. MaxParts]

(* No task is both a sender and a receiver.                                *)
LEMMA Disjoint == Senders \cap Receivers = {}
  BY TasksAssumption

(* The empty queue and idle tasks are well formed.                         *)
LEMMA ShapeInit == Init => ShapeOK
<1> SUFFICES ASSUME Init PROVE ShapeOK
  OBVIOUS
<1>1. parts \in Seq(Holders \cup {"unread", "freed"}) /\ Len(parts) <= Capacity
  BY QueueAssumption DEF Init, QueueInit
<1>2. interrupts \in 0 .. MaxInterrupts
  BY TasksAssumption DEF Init
<1> QED
  BY <1>1, <1>2, Disjoint DEF Init, ShapeOK, TypeOK

(* What changes of the queue leave its type and its bound alone.           *)
QueueOK(q) == q \in Seq(Holders \cup {"unread", "freed"}) /\ Len(q) <= Capacity

(* A send that fits keeps the queue within its capacity.                   *)
LEMMA SentOK ==
    ASSUME QueueOK(parts), NEW k \in 1 .. MaxParts, MayFit(k)
    PROVE  QueueOK(Sent(parts, k)) /\ Sent(parts, k) # <<>>
<1>1. /\ Sent(parts, k) \in Seq(Holders \cup {"unread", "freed"})
      /\ Len(Sent(parts, k)) = Len(parts) + k
  BY SentShape DEF QueueOK
<1>2. Len(parts) \in Nat /\ k \in Nat /\ k > 0
  BY QueueAssumption DEF QueueOK
<1> QED
  BY <1>1, <1>2 DEF QueueOK, MayFit

(* A receive keeps the queue well formed.                                  *)
LEMMA TakenOK ==
    ASSUME QueueOK(parts), NEW h \in Holders, NEW k
    PROVE  /\ QueueOK(Taken(parts, h, k))
           /\ Len(Taken(parts, h, k)) = Len(parts)
  BY TakenShape DEF QueueOK

(* A return keeps the queue well formed.                                   *)
LEMMA ReturnedOK ==
    ASSUME QueueOK(parts), NEW given
    PROVE  QueueOK(Returned(parts, given))
<1>1. /\ Returned(parts, given) \in Seq(Holders \cup {"unread", "freed"})
      /\ Len(Returned(parts, given)) <= Len(parts)
  BY ReturnedShape DEF QueueOK
<1>2. Len(parts) \in Nat /\ Len(Returned(parts, given)) \in Nat
  BY <1>1 DEF QueueOK
<1> QED
  BY <1>1, <1>2, QueueAssumption DEF QueueOK

(* A step moves one task to a label of its own and leaves a queue behind.  *)
LEMMA ShapeStep == ShapeOK /\ [Next]_vars => ShapeOK'
<1> SUFFICES ASSUME ShapeOK, [Next]_vars PROVE ShapeOK'
  OBVIOUS
<1> USE Disjoint DEF ShapeOK, TypeOK, Goto
<1>1. QueueOK(parts)
  BY DEF QueueOK
<1>2. ASSUME NEW s \in Senders, SendCall(s) \/ SenderStep(s) \/ TimeOut(s)
      PROVE  ShapeOK'
  <2>1. CASE SendCall(s) \/ TimeOut(s)
    BY <2>1 DEF SendCall, TimeOut
  <2>2. CASE TakeFree(s)
    BY <2>2 DEF TakeFree
  <2>3. CASE TryCopy(s)
    <3>1. want[s] \in 1 .. MaxParts
      OBVIOUS
    <3>2. CASE MayFit(want[s]) /\ parts' = Sent(parts, want[s])
      <4>1. QueueOK(parts')
        BY <1>1, <3>1, <3>2, SentOK
      <4>2. parts' \in Seq(Holders \cup {"unread", "freed"}) /\ Len(parts') <= Capacity
        BY <4>1 DEF QueueOK
      <4> QED
        BY <2>3, <4>2 DEF TryCopy, TryAgain
    <3>3. CASE UNCHANGED parts
      BY <2>3, <3>3 DEF TryCopy, TryAgain
    <3> QED
      BY <2>3, <3>2, <3>3 DEF TryCopy
  <2>4. CASE GiveItems(s)
    BY <2>4 DEF GiveItems
  <2>5. CASE GiveFreeBack(s)
    BY <2>5 DEF GiveFreeBack
  <2> QED
    BY <1>2, <2>1, <2>2, <2>3, <2>4, <2>5 DEF SenderStep
<1>3. ASSUME NEW r \in Receivers, ReceiveCall(r) \/ ReceiverStep(r) \/ TimeOut(r)
      PROVE  ShapeOK'
  <2>1. CASE ReceiveCall(r) \/ TimeOut(r)
    BY <2>1 DEF ReceiveCall, TimeOut
  <2>2. CASE TakeItems(r)
    BY <2>2 DEF TakeItems
  <2>3. CASE TryGet(r)
    <3>1. QueueOK(parts')
      BY <1>1, <2>3, TakenOK, TasksAssumption DEF TryGet
    <3>2. parts' \in Seq(Holders \cup {"unread", "freed"}) /\ Len(parts') <= Capacity
      BY <3>1 DEF QueueOK
    <3> QED
      BY <2>3, <3>2 DEF TryGet, TryAgain
  <2>4. CASE GiveItemsBack(r)
    BY <2>4 DEF GiveItemsBack
  <2>5. CASE ReturnItem(r)
    <3>1. QueueOK(parts')
      BY <1>1, <2>5, ReturnedOK DEF ReturnItem
    <3>2. parts' \in Seq(Holders \cup {"unread", "freed"}) /\ Len(parts') <= Capacity
      BY <3>1 DEF QueueOK
    <3> QED
      BY <2>5, <3>2 DEF ReturnItem
  <2>6. CASE GiveSpace(r)
    BY <2>6 DEF GiveSpace
  <2> QED
    BY <1>3, <2>1, <2>2, <2>3, <2>4, <2>5, <2>6 DEF ReceiverStep
<1>4. ASSUME NEW k \in 1 .. MaxParts, SendFromISR(k) PROVE ShapeOK'
  <2>1. QueueOK(parts')
    BY <1>1, <1>4, SentOK DEF SendFromISR
  <2>2. parts' \in Seq(Holders \cup {"unread", "freed"}) /\ Len(parts') <= Capacity
    BY <2>1 DEF QueueOK
  <2> QED
    BY <1>4, <2>2, TasksAssumption DEF SendFromISR, InterruptCall, SpaceLeft
<1>5. CASE ReceiveFromISR
  <2>1. QueueOK(parts')
    BY <1>1, <1>5, TakenOK, TasksAssumption DEF ReceiveFromISR
  <2>2. parts' \in Seq(Holders \cup {"unread", "freed"}) /\ Len(parts') <= Capacity
    BY <2>1 DEF QueueOK
  <2> QED
    BY <1>5, <2>2, TasksAssumption DEF ReceiveFromISR, InterruptCall
<1>6. CASE ReturnItemFromISR
  <2>1. QueueOK(parts')
    BY <1>1, <1>6, ReturnedOK DEF ReturnItemFromISR
  <2>2. parts' \in Seq(Holders \cup {"unread", "freed"}) /\ Len(parts') <= Capacity
    BY <2>1 DEF QueueOK
  <2> QED
    BY <1>6, <2>2 DEF ReturnItemFromISR
<1>7. CASE UNCHANGED vars
  BY <1>7 DEF vars
<1> QED
  BY <1>2, <1>3, <1>4, <1>5, <1>6, <1>7 DEF Next

(* The queue never outgrows the storage, and every task is where the code  *)
(* of its call can be.                                                     *)
THEOREM RingTypeCorrect == Spec => []TypeOK
<1>1. Spec => []ShapeOK
  BY ShapeInit, ShapeStep, PTL DEF Spec
<1>2. ShapeOK => TypeOK
  BY DEF ShapeOK
<1> QED
  BY <1>1, <1>2, PTL

------------------------------------------------------------------------------
(* Space *)

(* Each step keeps an empty storage announced to the senders.              *)
LEMMA SpaceStep == ShapeOK /\ SpaceAnnounced /\ [Next]_vars => SpaceAnnounced'
<1> SUFFICES ASSUME ShapeOK, SpaceAnnounced, [Next]_vars, parts' = <<>>
             PROVE  \/ freeSem'
                    \/ \E s \in Senders :
                        pc'[s] \in {"looking", "announcing", "givingBack"}
                    \/ \E r \in Receivers : pc'[r] = "returned"
  BY DEF SpaceAnnounced
<1> USE Disjoint DEF ShapeOK, TypeOK, SpaceAnnounced, Goto
<1>1. QueueOK(parts)
  BY DEF QueueOK
<1>2. ASSUME NEW s \in Senders, SendCall(s) \/ SenderStep(s) \/ TimeOut(s)
      PROVE  \/ freeSem'
             \/ \E t \in Senders :
                 pc'[t] \in {"looking", "announcing", "givingBack"}
             \/ \E r \in Receivers : pc'[r] = "returned"
  <2>1. CASE SendCall(s) \/ TimeOut(s)
    BY <2>1 DEF SendCall, TimeOut
  <2>2. CASE TakeFree(s)
    BY <2>2 DEF TakeFree
  (* An empty storage takes every item, so a sender that looked at one     *)
  (* does not go away.                                                     *)
  <2>3. CASE TryCopy(s)
    <3>1. want[s] \in 1 .. MaxParts
      OBVIOUS
    <3>2. ~(MayFit(want[s]) /\ parts' = Sent(parts, want[s]))
      BY <1>1, <3>1, SentOK
    <3>3. parts = <<>> /\ MayNotFit(want[s])
      BY <2>3, <3>2 DEF TryCopy
    <3>4. Len(parts) = 0
      BY <3>3
    <3>5. MayFit(want[s])
      BY <3>1, <3>4, TasksAssumption, QueueAssumption DEF MayFit
    <3> QED
      BY <3>3, <3>5 DEF MayNotFit
  <2>4. CASE GiveItems(s)
    BY <2>4 DEF GiveItems
  <2>5. CASE GiveFreeBack(s)
    BY <2>5 DEF GiveFreeBack
  <2> QED
    BY <1>2, <2>1, <2>2, <2>3, <2>4, <2>5 DEF SenderStep
<1>3. ASSUME NEW r \in Receivers, ReceiveCall(r) \/ ReceiverStep(r) \/ TimeOut(r)
      PROVE  \/ freeSem'
             \/ \E t \in Senders :
                 pc'[t] \in {"looking", "announcing", "givingBack"}
             \/ \E t \in Receivers : pc'[t] = "returned"
  <2>1. CASE ReceiveCall(r) \/ TimeOut(r)
    BY <2>1 DEF ReceiveCall, TimeOut
  <2>2. CASE TakeItems(r)
    BY <2>2 DEF TakeItems
  <2>3. CASE TryGet(r)
    <3>1. parts = <<>>
      <4>1. ASSUME NEW k, parts' = Taken(parts, r, k) PROVE Len(parts) = 0
        <5>1. Len(parts') = Len(parts)
          BY <1>1, <4>1, TakenOK, TasksAssumption
        <5> QED
          BY <5>1
      <4>2. Len(parts) = 0 => parts = <<>>
        OBVIOUS
      <4> QED
        BY <2>3, <4>1, <4>2 DEF TryGet
    <3> QED
      BY <2>3, <3>1 DEF TryGet, TryAgain
  <2>4. CASE GiveItemsBack(r)
    BY <2>4 DEF GiveItemsBack
  <2>5. CASE ReturnItem(r)
    BY <2>5 DEF ReturnItem
  <2>6. CASE GiveSpace(r)
    BY <2>6 DEF GiveSpace
  <2> QED
    BY <1>3, <2>1, <2>2, <2>3, <2>4, <2>5, <2>6 DEF ReceiverStep
<1>4. ASSUME NEW k \in 1 .. MaxParts, SendFromISR(k) PROVE FALSE
  BY <1>1, <1>4, SentOK DEF SendFromISR
<1>5. ASSUME ReceiveFromISR PROVE parts = <<>> /\ UNCHANGED <<pc, freeSem>>
  <2>1. PICK k \in Takeable : parts' = Taken(parts, Interrupt, k)
    BY <1>5 DEF ReceiveFromISR
  <2>2. Len(parts') = Len(parts)
    BY <1>1, <2>1, TakenOK, TasksAssumption
  <2> QED
    BY <1>5, <2>2 DEF ReceiveFromISR, InterruptCall
<1>6. CASE ReturnItemFromISR
  BY <1>6 DEF ReturnItemFromISR
<1>7. CASE UNCHANGED vars
  BY <1>7 DEF vars
<1> QED
  BY <1>2, <1>3, <1>4, <1>5, <1>6, <1>7 DEF Next

(* No sender is left waiting for an empty storage: its semaphore is given, *)
(* or a task is about to give it, or one is about to look and will find    *)
(* room. The step that could break it is the sender that found no room and *)
(* keeps the semaphore: what it looked at was not empty, so a return is    *)
(* still to come.                                                          *)
THEOREM EmptyStorageIsAnnounced == Spec => []SpaceAnnounced
<1>1. Spec => []ShapeOK
  BY ShapeInit, ShapeStep, PTL DEF Spec
<1>2. Init => SpaceAnnounced
  BY DEF Init, SpaceAnnounced
<1> QED
  BY <1>1, <1>2, SpaceStep, PTL DEF Spec

------------------------------------------------------------------------------
(* Items *)

(* A send hands nothing to anybody.                                        *)
LEMMA SentHeld ==
    ASSUME QueueOK(parts), NEW k \in 1 .. MaxParts, NEW h \in Holders,
           HeldAt(Sent(parts, k), h) # {}
    PROVE  HeldAt(parts, h) # {}
<1>1. \A i \in DOMAIN Sent(parts, k) :
        \/ Sent(parts, k)[i] = "unread"
        \/ \E j \in DOMAIN parts : Sent(parts, k)[i] = parts[j]
  BY SentShape DEF QueueOK
<1>2. PICK i \in DOMAIN Sent(parts, k) : Sent(parts, k)[i] = h
  BY DEF HeldAt
<1>3. PICK j \in DOMAIN parts : parts[j] = h
  BY <1>1, <1>2, QueueAssumption
<1> QED
  BY <1>3 DEF HeldAt

(* A receive adds only to what its holder has.                             *)
LEMMA TakenHeld ==
    ASSUME QueueOK(parts), NEW g \in Holders, NEW k, NEW h \in Holders,
           HeldAt(Taken(parts, g, k), h) # {}, h # g
    PROVE  HeldAt(parts, h) # {}
<1>1. \A i \in DOMAIN Taken(parts, g, k) :
        i \in DOMAIN parts /\ Taken(parts, g, k)[i] \in {parts[i], g}
  BY TakenShape DEF QueueOK
<1>2. PICK i \in DOMAIN Taken(parts, g, k) : Taken(parts, g, k)[i] = h
  BY DEF HeldAt
<1>3. i \in DOMAIN parts /\ parts[i] = h
  BY <1>1, <1>2
<1> QED
  BY <1>3 DEF HeldAt

(* A return gives nothing to anybody and makes nothing unread.             *)
LEMMA ReturnedHeld ==
    ASSUME QueueOK(parts), NEW given
    PROVE  /\ \A h \in Holders :
                HeldAt(Returned(parts, given), h) # {} => HeldAt(parts, h) # {}
           /\ UnreadAt(Returned(parts, given)) # {} => UnreadAt(parts) # {}
<1>1. \A i \in DOMAIN Returned(parts, given) :
        \/ Returned(parts, given)[i] = "freed"
        \/ \E j \in DOMAIN parts : Returned(parts, given)[i] = parts[j]
  BY ReturnedShape DEF QueueOK
<1>2. ASSUME NEW v, v # "freed",
             NEW i \in DOMAIN Returned(parts, given), Returned(parts, given)[i] = v
      PROVE  \E j \in DOMAIN parts : parts[j] = v
  BY <1>1, <1>2
<1>3. ASSUME NEW h \in Holders, HeldAt(Returned(parts, given), h) # {}
      PROVE  HeldAt(parts, h) # {}
  <2>1. PICK i \in DOMAIN Returned(parts, given) : Returned(parts, given)[i] = h
    BY <1>3 DEF HeldAt
  <2>2. \E j \in DOMAIN parts : parts[j] = h
    BY <1>2, <2>1, QueueAssumption
  <2> QED
    BY <2>2 DEF HeldAt
<1>4. ASSUME UnreadAt(Returned(parts, given)) # {} PROVE UnreadAt(parts) # {}
  <2>1. PICK i \in DOMAIN Returned(parts, given) :
            Returned(parts, given)[i] = "unread"
    BY <1>4 DEF UnreadAt
  <2>2. \E j \in DOMAIN parts : parts[j] = "unread"
    BY <1>2, <2>1
  <2> QED
    BY <2>2 DEF UnreadAt
<1> QED
  BY <1>3, <1>4

(* A receiver holds parts only between a get and the last return, and only *)
(* the receivers of a byte buffer hold bytes.                              *)
Lending ==
    /\ \A r \in Receivers :
        HeldAt(parts, r) # {} => pc[r] \in {"givingBack", "holding", "returned"}
    /\ bytes =>
        /\ \A r \in Receivers : pc[r] # "idle" => r \in ByteReceivers
        /\ \A h \in Holders : HeldAt(parts, h) # {} => h \in ByteReceivers

(* Each step keeps held parts with the receivers that may hold them.       *)
LEMMA LendingStep == ShapeOK /\ Lending /\ [Next]_vars => Lending'
<1> SUFFICES ASSUME ShapeOK, Lending, [Next]_vars PROVE Lending'
  OBVIOUS
<1> USE Disjoint, TasksAssumption DEF ShapeOK, TypeOK, Lending, Goto
<1>1. QueueOK(parts)
  BY DEF QueueOK
<1>2. ASSUME UNCHANGED parts PROVE \A h : HeldAt(parts, h)' = HeldAt(parts, h)
  BY <1>2 DEF HeldAt
<1>3. ASSUME NEW k \in 1 .. MaxParts, parts' = Sent(parts, k)
      PROVE  \A h \in Holders : HeldAt(parts, h)' # {} => HeldAt(parts, h) # {}
  BY <1>1, <1>3, SentHeld
<1>4. ASSUME NEW g \in Holders, NEW k, parts' = Taken(parts, g, k)
      PROVE  \A h \in Holders :
                HeldAt(parts, h)' # {} => h = g \/ HeldAt(parts, h) # {}
  BY <1>1, <1>4, TakenHeld
<1>5. ASSUME NEW given, parts' = Returned(parts, given)
      PROVE  \A h \in Holders : HeldAt(parts, h)' # {} => HeldAt(parts, h) # {}
  BY <1>1, <1>5, ReturnedHeld
<1>6. ASSUME NEW s \in Senders, SendCall(s) \/ SenderStep(s) \/ TimeOut(s)
      PROVE  Lending'
  <2>1. UNCHANGED bytes /\ \A r \in Receivers : pc'[r] = pc[r]
    BY <1>6 DEF SendCall, SenderStep, TimeOut, TakeFree, TryCopy, TryAgain,
                GiveItems, GiveFreeBack
  <2>2. UNCHANGED parts \/ parts' = Sent(parts, want[s])
    BY <1>6 DEF SendCall, SenderStep, TimeOut, TakeFree, TryCopy, GiveItems,
                GiveFreeBack
  <2>3. \A h \in Holders : HeldAt(parts, h)' # {} => HeldAt(parts, h) # {}
    BY <1>2, <1>3, <2>2
  <2> QED
    BY <2>1, <2>3
<1>7. ASSUME NEW r \in Receivers, ReceiveCall(r) \/ ReceiverStep(r) \/ TimeOut(r)
      PROVE  Lending'
  <2>1. CASE ReceiveCall(r) \/ TimeOut(r) \/ TakeItems(r) \/ GiveItemsBack(r)
    <3>1. \A h \in Holders : HeldAt(parts, h)' = HeldAt(parts, h)
      BY <1>2, <2>1 DEF ReceiveCall, TimeOut, TakeItems, GiveItemsBack
    <3>2. CASE ReceiveCall(r)
      BY <3>1, <3>2 DEF ReceiveCall
    <3>3. CASE TimeOut(r)
      BY <3>1, <3>3 DEF TimeOut
    <3>4. CASE TakeItems(r)
      BY <3>1, <3>4 DEF TakeItems
    <3>5. CASE GiveItemsBack(r)
      BY <3>1, <3>5 DEF GiveItemsBack
    <3> QED
      BY <2>1, <3>2, <3>3, <3>4, <3>5
  <2>2. CASE TryGet(r)
    <3>1. CASE UNCHANGED parts /\ TryAgain(r)
      BY <1>2, <2>2, <3>1 DEF TryGet, TryAgain
    <3>2. ASSUME NEW k \in Takeable, parts' = Taken(parts, r, k),
                 pc' = [pc EXCEPT ![r] = IF UnreadAt(parts') # {}
                                         THEN "givingBack" ELSE "holding"]
          PROVE  Lending'
      <4>1. \A h \in Holders :
                HeldAt(parts, h)' # {} => h = r \/ HeldAt(parts, h) # {}
        BY <1>4, <3>2
      <4> QED
        BY <2>2, <3>2, <4>1 DEF TryGet
    <3> QED
      BY <2>2, <3>1, <3>2 DEF TryGet
  <2>3. CASE ReturnItem(r)
    <3>1. \A h \in Holders : HeldAt(parts, h)' # {} => HeldAt(parts, h) # {}
      BY <1>5, <2>3 DEF ReturnItem
    <3> QED
      BY <2>3, <3>1 DEF ReturnItem
  <2>4. CASE GiveSpace(r)
    BY <1>2, <2>4 DEF GiveSpace
  <2> QED
    BY <1>7, <2>1, <2>2, <2>3, <2>4 DEF ReceiverStep
<1>8. ASSUME NEW k \in 1 .. MaxParts, SendFromISR(k) PROVE Lending'
  BY <1>3, <1>8 DEF SendFromISR, InterruptCall
<1>9. CASE ReceiveFromISR
  <2>1. \A h \in Holders :
            HeldAt(parts, h)' # {} => h = Interrupt \/ HeldAt(parts, h) # {}
    BY <1>4, <1>9 DEF ReceiveFromISR
  <2> QED
    BY <1>9, <2>1 DEF ReceiveFromISR, InterruptCall
<1>10. CASE ReturnItemFromISR
  <2>1. \A h \in Holders : HeldAt(parts, h)' # {} => HeldAt(parts, h) # {}
    BY <1>5, <1>10 DEF ReturnItemFromISR
  <2> QED
    BY <1>10, <2>1 DEF ReturnItemFromISR
<1>11. CASE UNCHANGED vars
  BY <1>2, <1>11 DEF vars
<1> QED
  BY <1>6, <1>7, <1>8, <1>9, <1>10, <1>11 DEF Next

(* One task or interrupt receives from a byte buffer.                      *)
LoneByteReceiver == \A g, h \in ByteReceivers : g = h

(* With one receiver of a byte buffer, a receiver that looks while items   *)
(* are unread always gets one: nobody else holds the bytes it waits for.   *)
LEMMA LookingFinds ==
    ASSUME LoneByteReceiver, Lending, UnreadAt(parts) # {},
           NEW r \in Receivers, pc[r] = "looking"
    PROVE  Available
<1>1. ASSUME bytes, NEW h \in Holders, HeldAt(parts, h) # {} PROVE FALSE
  <2>1. r \in ByteReceivers /\ h \in ByteReceivers
    BY <1>1 DEF Lending
  <2>2. h = r
    BY <2>1 DEF LoneByteReceiver
  <2>3. pc[r] \in {"givingBack", "holding", "returned"}
    BY <1>1, <2>2 DEF Lending
  <2> QED
    BY <2>3
<1> QED
  BY <1>1 DEF Available

(* Each step keeps unread parts announced to the receivers.                *)
LEMMA ItemsStep ==
    ASSUME LoneByteReceiver
    PROVE  ShapeOK /\ Lending /\ ItemsAnnounced /\ [Next]_vars => ItemsAnnounced'
<1> SUFFICES ASSUME ShapeOK, Lending, ItemsAnnounced, [Next]_vars,
                    UnreadAt(parts') # {}
             PROVE  \/ itemsSem'
                    \/ \E s \in Senders : pc'[s] \in {"announcing", "announcingFull"}
                    \/ \E r \in Receivers : pc'[r] \in {"looking", "givingBack"}
  BY DEF ItemsAnnounced, UnreadAt
<1> USE Disjoint DEF ShapeOK, TypeOK, ItemsAnnounced, Goto
<1>1. QueueOK(parts)
  BY DEF QueueOK
<1>2. ASSUME NEW s \in Senders, SendCall(s) \/ SenderStep(s) \/ TimeOut(s)
      PROVE  \/ itemsSem'
             \/ \E t \in Senders : pc'[t] \in {"announcing", "announcingFull"}
             \/ \E r \in Receivers : pc'[r] \in {"looking", "givingBack"}
  <2>1. CASE SendCall(s)
    BY <2>1 DEF SendCall
  <2>2. CASE TimeOut(s)
    BY <2>2 DEF TimeOut
  <2>3. CASE TakeFree(s)
    BY <2>3 DEF TakeFree
  <2>4. CASE TryCopy(s)
    <3>1. CASE UNCHANGED parts /\ TryAgain(s)
      BY <2>4, <3>1 DEF TryCopy, TryAgain
    <3>2. CASE \E left \in BOOLEAN :
                    Goto(s, IF left THEN "announcing" ELSE "announcingFull")
      BY <3>2
    <3> QED
      BY <2>4, <3>1, <3>2 DEF TryCopy, SpaceLeft
  <2>5. CASE GiveItems(s)
    BY <2>5 DEF GiveItems
  <2>6. CASE GiveFreeBack(s)
    BY <2>6 DEF GiveFreeBack
  <2> QED
    BY <1>2, <2>1, <2>2, <2>3, <2>4, <2>5, <2>6 DEF SenderStep
<1>3. ASSUME NEW r \in Receivers, ReceiveCall(r) \/ ReceiverStep(r) \/ TimeOut(r)
      PROVE  \/ itemsSem'
             \/ \E t \in Senders : pc'[t] \in {"announcing", "announcingFull"}
             \/ \E t \in Receivers : pc'[t] \in {"looking", "givingBack"}
  <2>1. CASE ReceiveCall(r)
    BY <2>1 DEF ReceiveCall
  <2>2. CASE TimeOut(r)
    BY <2>2 DEF TimeOut
  <2>3. CASE TakeItems(r)
    BY <2>3 DEF TakeItems
  (* A receiver that finds nothing found no unread item, so there is none  *)
  (* to be announced; one that leaves items behind gives back.             *)
  <2>4. CASE TryGet(r)
    <3>1. CASE Available
      BY <2>4, <3>1 DEF TryGet
    <3>2. CASE ~Available
      <4>1. UNCHANGED parts
        BY <2>4, <3>2 DEF TryGet
      <4>2. UnreadAt(parts) # {}
        BY <4>1
      <4>3. pc[r] = "looking"
        BY <2>4 DEF TryGet
      <4> QED
        BY <3>2, <4>2, <4>3, LookingFinds
    <3> QED
      BY <3>1, <3>2
  <2>5. CASE GiveItemsBack(r)
    BY <2>5 DEF GiveItemsBack
  <2>6. CASE ReturnItem(r)
    <3>1. UnreadAt(parts) # {}
      BY <1>1, <2>6, ReturnedHeld DEF ReturnItem
    <3> QED
      BY <2>6, <3>1 DEF ReturnItem
  <2>7. CASE GiveSpace(r)
    BY <2>7 DEF GiveSpace
  <2> QED
    BY <1>3, <2>1, <2>2, <2>3, <2>4, <2>5, <2>6, <2>7 DEF ReceiverStep
<1>4. ASSUME NEW k \in 1 .. MaxParts, SendFromISR(k) PROVE itemsSem'
  BY <1>4 DEF SendFromISR
<1>5. CASE ReceiveFromISR
  BY <1>5 DEF ReceiveFromISR
<1>6. CASE ReturnItemFromISR
  <2>1. UnreadAt(parts) # {}
    BY <1>1, <1>6, ReturnedHeld DEF ReturnItemFromISR
  <2> QED
    BY <1>6, <2>1 DEF ReturnItemFromISR
<1>7. CASE UNCHANGED vars
  BY <1>7 DEF vars
<1> QED
  BY <1>2, <1>3, <1>4, <1>5, <1>6, <1>7 DEF Next

(* Nothing is left unread in silence: the binary items semaphore is given, *)
(* or a task is about to give it or to look. A receiver that takes it and  *)
(* finds nothing keeps it; this is safe for a byte buffer only while no    *)
(* other receiver holds bytes.                                             *)
THEOREM UnreadItemsAreAnnounced ==
    ASSUME LoneByteReceiver
    PROVE  Spec => []ItemsAnnounced
<1>1. Spec => []ShapeOK
  BY ShapeInit, ShapeStep, PTL DEF Spec
<1>2. Init => Lending /\ ItemsAnnounced
  BY Disjoint DEF Init, QueueInit, Lending, ItemsAnnounced, HeldAt, UnreadAt
<1>3. ShapeOK /\ Lending /\ ItemsAnnounced /\ [Next]_vars => ItemsAnnounced'
  BY ItemsStep
<1> QED
  BY <1>1, <1>2, <1>3, LendingStep, PTL DEF Spec

------------------------------------------------------------------------------
(* The queue the tasks share is the one RingQueue promises. *)

(* A send takes nothing from anybody.                                      *)
LEMMA SentKeeps ==
    ASSUME QueueOK(parts), NEW k \in 1 .. MaxParts, NEW h,
           HeldAt(parts, h) # {}
    PROVE  HeldAt(Sent(parts, k), h) # {}
<1> DEFINE new == [i \in 1 .. k |-> "unread"]
           X == Holders \cup {"unread", "freed"}
<1>1. PICK i \in DOMAIN parts : parts[i] = h
  BY DEF HeldAt
<1>2. parts \in Seq(X) /\ new \in Seq(X) /\ Sent(parts, k) = parts \o new
  BY DEF QueueOK, Sent
<1> HIDE DEF new, X
<1>3. i \in DOMAIN (parts \o new) /\ (parts \o new)[i] = h
  BY <1>1, <1>2, ConcatProperties
<1> QED
  BY <1>2, <1>3 DEF HeldAt

(* A receive takes nothing from anybody that holds something.              *)
LEMMA TakenKeeps ==
    ASSUME QueueOK(parts), NEW g, NEW k, NEW h, h # "unread",
           HeldAt(parts, h) # {}
    PROVE  HeldAt(Taken(parts, g, k), h) # {}
<1>1. PICK i \in DOMAIN parts : parts[i] = h
  BY DEF HeldAt
<1>2. DOMAIN Taken(parts, g, k) = DOMAIN parts /\ Taken(parts, g, k)[i] = h
  BY <1>1 DEF Taken
<1> QED
  BY <1>1, <1>2 DEF HeldAt

(* The unread parts can be counted.                                        *)
LEMMA UnreadCount ==
    ASSUME QueueOK(parts)
    PROVE  IsFiniteSet(UnreadAt(parts)) /\ Cardinality(UnreadAt(parts)) \in Nat
<1>1. IsFiniteSet(1 .. Len(parts)) /\ UnreadAt(parts) \subseteq 1 .. Len(parts)
  BY FS_Interval DEF QueueOK, UnreadAt
<1> QED
  BY <1>1, FS_Subset, FS_CardinalityType

(* Who receives holds the oldest of the parts that were unread.            *)
LEMMA TakenGets ==
    ASSUME QueueOK(parts), NEW g, NEW k \in Nat \ {0}, UnreadAt(parts) # {}
    PROVE  HeldAt(Taken(parts, g, k), g) # {}
<1>1. UnreadAt(parts) \in SUBSET Nat
  BY DEF QueueOK, UnreadAt
<1>2. PICK i \in UnreadAt(parts) : \A j \in UnreadAt(parts) : i <= j
  BY <1>1, LowestIndex
<1>3. {j \in UnreadAt(parts) : j < i} = {}
  BY <1>1, <1>2
<1>4. Cardinality({j \in UnreadAt(parts) : j < i}) < k
  BY <1>3, FS_EmptySet
<1>5. i \in DOMAIN parts /\ parts[i] = "unread"
  BY DEF UnreadAt
<1>6. DOMAIN Taken(parts, g, k) = DOMAIN parts /\ Taken(parts, g, k)[i] = g
  BY <1>4, <1>5 DEF Taken
<1> QED
  BY <1>5, <1>6 DEF HeldAt

(* Reclaiming drops freed parts only.                                      *)
LEMMA ReclaimKeeps ==
    ASSUME NEW X, NEW q \in Seq(X), NEW i \in DOMAIN q, q[i] # "freed"
    PROVE  \E j \in DOMAIN Reclaim(q) : Reclaim(q)[j] = q[i]
<1> DEFINE live == {n \in DOMAIN q : q[n] # "freed"}
           first == CHOOSE n \in live : \A j \in live : n <= j
<1>1. live \in SUBSET Nat /\ i \in live
  OBVIOUS
<1>2. first \in live /\ \A j \in live : first <= j
  BY <1>1, LowestIndex
<1>3. Reclaim(q) = SubSeq(q, first, Len(q))
  BY <1>1 DEF Reclaim
<1>4. first \in 1 .. Len(q) /\ i \in 1 .. Len(q) /\ first <= i
  BY <1>1, <1>2
<1> HIDE DEF first, live
<1>5. /\ Len(SubSeq(q, first, Len(q))) = Len(q) - first + 1
      /\ \A n \in 1 .. Len(q) - first + 1 :
            SubSeq(q, first, Len(q))[n] = q[first + n - 1]
  BY <1>4
<1>6. SubSeq(q, first, Len(q))[i - first + 1] = q[i]
  <2>1. i - first + 1 \in 1 .. Len(q) - first + 1
    BY <1>4
  <2>2. SubSeq(q, first, Len(q))[i - first + 1] = q[first + (i - first + 1) - 1]
    BY <1>5, <2>1
  <2>3. first + (i - first + 1) - 1 = i
    BY <1>4
  <2> QED
    BY <2>2, <2>3
<1>7. i - first + 1 \in DOMAIN SubSeq(q, first, Len(q))
  BY <1>4, <1>5
<1> QED
  BY <1>3, <1>6, <1>7

(* A return takes nothing from anybody else.                               *)
LEMMA ReturnedKeeps ==
    ASSUME QueueOK(parts), NEW g, NEW h, h # g, h # "freed",
           NEW given \in SUBSET HeldAt(parts, g), HeldAt(parts, h) # {}
    PROVE  HeldAt(Returned(parts, given), h) # {}
<1> DEFINE marked ==
        [i \in DOMAIN parts |-> IF i \in given THEN "freed" ELSE parts[i]]
<1>1. PICK i \in DOMAIN parts : parts[i] = h
  BY DEF HeldAt
<1>2. i \notin given
  BY <1>1 DEF HeldAt
<1>3. /\ marked \in Seq(Holders \cup {"unread", "freed"})
      /\ i \in DOMAIN marked /\ marked[i] = h
  BY <1>1, <1>2 DEF QueueOK
<1>4. Returned(parts, given) = Reclaim(marked)
  BY DEF Returned
<1> HIDE DEF marked
<1>5. \E j \in DOMAIN Reclaim(marked) : Reclaim(marked)[j] = h
  BY <1>3, ReclaimKeeps
<1> QED
  BY <1>4, <1>5 DEF HeldAt

(* A receiver that got something has it until it returns it itself.        *)
HoldersHold ==
    \A r \in Receivers :
        pc[r] \in {"givingBack", "holding"} => HeldAt(parts, r) # {}

(* No step of anybody else takes a part from its receiver.                 *)
LEMMA HoldersStep == ShapeOK /\ HoldersHold /\ [Next]_vars => HoldersHold'
<1> SUFFICES ASSUME ShapeOK, HoldersHold, [Next]_vars,
                    NEW r \in Receivers, pc'[r] \in {"givingBack", "holding"}
             PROVE  HeldAt(parts', r) # {}
  BY DEF HoldersHold, HeldAt
<1> USE Disjoint, TasksAssumption DEF ShapeOK, TypeOK, Goto
<1>1. /\ QueueOK(parts)
      /\ r \in Holders /\ r # "unread" /\ r # "freed" /\ r # Interrupt
      /\ r \notin Senders
  BY QueueAssumption DEF QueueOK
<1>2. ASSUME pc[r] \in {"givingBack", "holding"} PROVE HeldAt(parts, r) # {}
  BY <1>2 DEF HoldersHold
<1>3. ASSUME NEW s \in Senders, SendCall(s) \/ SenderStep(s) \/ TimeOut(s)
      PROVE  HeldAt(parts', r) # {}
  <2>1. pc'[r] = pc[r]
    BY <1>1, <1>3 DEF SendCall, SenderStep, TimeOut, TakeFree, TryCopy, TryAgain,
                      GiveItems, GiveFreeBack
  <2>2. UNCHANGED parts \/ parts' = Sent(parts, want[s])
    BY <1>3 DEF SendCall, SenderStep, TimeOut, TakeFree, TryCopy, GiveItems,
                GiveFreeBack
  <2>3. want[s] \in 1 .. MaxParts /\ HeldAt(parts, r) # {}
    BY <1>2, <2>1
  <2> QED
    BY <1>1, <2>2, <2>3, SentKeeps
<1>4. ASSUME NEW t \in Receivers, ReceiveCall(t) \/ ReceiverStep(t) \/ TimeOut(t)
      PROVE  HeldAt(parts', r) # {}
  <2>1. CASE ReceiveCall(t) \/ TimeOut(t) \/ TakeItems(t) \/ GiveItemsBack(t)
    <3>1. UNCHANGED parts /\ pc[r] \in {"givingBack", "holding"}
      BY <2>1 DEF ReceiveCall, TimeOut, TakeItems, GiveItemsBack
    <3> QED
      BY <1>2, <3>1
  <2>2. CASE TryGet(t)
    <3>1. CASE UNCHANGED parts /\ TryAgain(t)
      BY <1>2, <2>2, <3>1 DEF TryGet, TryAgain
    <3>2. ASSUME Available, NEW k \in Takeable, parts' = Taken(parts, t, k)
          PROVE  HeldAt(parts', r) # {}
      <4>1. CASE t = r
        <5>1. k \in Nat \ {0} /\ UnreadAt(parts) # {}
          BY <1>1, <3>2, UnreadCount DEF Takeable, Runs, Available
        <5> QED
          BY <1>1, <3>2, <4>1, <5>1, TakenGets
      <4>2. CASE t # r
        <5>1. pc'[r] = pc[r]
          BY <2>2, <4>2 DEF TryGet, TryAgain
        <5> QED
          BY <1>1, <1>2, <3>2, <5>1, TakenKeeps
      <4> QED
        BY <4>1, <4>2
    <3> QED
      BY <2>2, <3>1, <3>2 DEF TryGet
  <2>3. CASE ReturnItem(t)
    <3>1. t # r /\ pc'[r] = pc[r]
      BY <2>3 DEF ReturnItem
    <3>2. PICK given \in Returnable(t) : parts' = Returned(parts, given)
      BY <2>3 DEF ReturnItem
    <3>3. given \in SUBSET HeldAt(parts, t)
      BY DEF Returnable
    <3> QED
      BY <1>1, <1>2, <3>1, <3>2, <3>3, ReturnedKeeps
  <2>4. CASE GiveSpace(t)
    <3>1. CASE t = r
      BY <2>4, <3>1 DEF GiveSpace
    <3>2. CASE t # r
      BY <1>2, <2>4, <3>2 DEF GiveSpace
    <3> QED
      BY <3>1, <3>2
  <2> QED
    BY <1>4, <2>1, <2>2, <2>3, <2>4 DEF ReceiverStep
<1>5. ASSUME NEW k \in 1 .. MaxParts, SendFromISR(k) PROVE HeldAt(parts', r) # {}
  BY <1>1, <1>2, <1>5, SentKeeps DEF SendFromISR, InterruptCall
<1>6. CASE ReceiveFromISR
  BY <1>1, <1>2, <1>6, TakenKeeps DEF ReceiveFromISR, InterruptCall
<1>7. CASE ReturnItemFromISR
  <2>1. PICK given \in Returnable(Interrupt) : parts' = Returned(parts, given)
    BY <1>7 DEF ReturnItemFromISR
  <2>2. given \in SUBSET HeldAt(parts, Interrupt) /\ HeldAt(parts, r) # {}
    BY <1>2, <1>7 DEF ReturnItemFromISR, Returnable
  <2> QED
    BY <1>1, <2>1, <2>2, ReturnedKeeps
<1>8. CASE UNCHANGED vars
  BY <1>2, <1>8 DEF vars
<1> QED
  BY <1>3, <1>4, <1>5, <1>6, <1>7, <1>8 DEF Next

(* What a receiver or an interrupt may take is a receive of the queue.     *)
LEMMA TakeIsReceive ==
    ASSUME QueueOK(parts), NEW h \in Holders, NEW k \in Takeable,
           parts' = Taken(parts, h, k)
    PROVE  QueueNext
<1>1. k \in 1 .. MaxParts /\ k <= Cardinality(UnreadAt(parts))
  BY UnreadCount, QueueAssumption DEF Takeable, Runs
<1> QED
  BY <1>1 DEF QueueNext, QueueReceive

(* What a holder may return is a return of the queue.                      *)
LEMMA ReturnIsReturn ==
    ASSUME NEW h \in Holders, HeldAt(parts, h) # {}, NEW given \in Returnable(h),
           parts' = Returned(parts, given)
    PROVE  QueueNext
<1>1. /\ given \in {{i} : i \in HeldAt(parts, h)} \cup {HeldAt(parts, h)}
      /\ given # {}
  BY DEF Returnable
<1> QED
  BY <1>1 DEF QueueNext, QueueReturn

(* A send that fits is a send of the queue.                                *)
LEMMA FitIsSend ==
    ASSUME NEW k \in 1 .. MaxParts, MayFit(k), parts' = Sent(parts, k)
    PROVE  QueueNext
  BY DEF QueueNext, QueueSend, MayFit

(* Every step of a task or an interrupt is one of the queue's clients, or  *)
(* does not touch the queue.                                               *)
LEMMA QueueStep == ShapeOK /\ HoldersHold /\ [Next]_vars => [QueueNext]_parts
<1> SUFFICES ASSUME ShapeOK, HoldersHold, Next PROVE QueueNext \/ UNCHANGED parts
  BY DEF vars
<1> USE TasksAssumption DEF ShapeOK, TypeOK
<1>1. QueueOK(parts)
  BY DEF QueueOK
<1>2. ASSUME NEW s \in Senders, SendCall(s) \/ SenderStep(s) \/ TimeOut(s)
      PROVE  QueueNext \/ UNCHANGED parts
  <2>1. UNCHANGED parts \/ (MayFit(want[s]) /\ parts' = Sent(parts, want[s]))
    BY <1>2 DEF SendCall, SenderStep, TimeOut, TakeFree, TryCopy, GiveItems,
                GiveFreeBack
  <2>2. want[s] \in 1 .. MaxParts
    OBVIOUS
  <2> QED
    BY <2>1, <2>2, FitIsSend
<1>3. ASSUME NEW r \in Receivers, ReceiveCall(r) \/ ReceiverStep(r) \/ TimeOut(r)
      PROVE  QueueNext \/ UNCHANGED parts
  <2>1. CASE TryGet(r)
    BY <1>1, <2>1, TakeIsReceive DEF TryGet
  <2>2. CASE ReturnItem(r)
    <3>1. HeldAt(parts, r) # {}
      BY <2>2 DEF ReturnItem, HoldersHold
    <3> QED
      BY <2>2, <3>1, ReturnIsReturn DEF ReturnItem
  <2> QED
    BY <1>3, <2>1, <2>2 DEF ReceiveCall, ReceiverStep, TimeOut, TakeItems,
                            GiveItemsBack, GiveSpace
<1>4. ASSUME NEW k \in 1 .. MaxParts, SendFromISR(k) PROVE QueueNext
  BY <1>4, FitIsSend DEF SendFromISR
<1>5. ASSUME ReceiveFromISR PROVE QueueNext
  BY <1>1, <1>5, TakeIsReceive DEF ReceiveFromISR
<1>6. ASSUME ReturnItemFromISR PROVE QueueNext
  BY <1>6, ReturnIsReturn DEF ReturnItemFromISR
<1> QED
  BY <1>2, <1>3, <1>4, <1>5, <1>6 DEF Next

(* However their steps interleave, and wherever an interrupt comes between *)
(* them, the tasks use the storage as RingQueue promises: nothing is sent  *)
(* into a full storage, nothing is received twice, and who returns holds   *)
(* what it returns. A return could be the exception: between the get and   *)
(* the return other tasks and interrupts change the queue, and HoldersHold *)
(* says that none of them takes the part away.                             *)
THEOREM TasksKeepQueue == Spec => QueueSpec
<1>1. Spec => []ShapeOK
  BY ShapeInit, ShapeStep, PTL DEF Spec
<1>2. Init => HoldersHold
  BY Disjoint DEF Init, HoldersHold
<1>3. Spec => []HoldersHold
  BY <1>1, <1>2, HoldersStep, PTL DEF Spec
<1>4. Init => QueueInit
  BY DEF Init
<1> QED
  BY <1>1, <1>3, <1>4, QueueStep, PTL DEF Spec, QueueSpec
==============================================================================
