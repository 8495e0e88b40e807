------------------------------ MODULE RingTasks ------------------------------
(***************************************************************************)
(* The blocking calls of a ring buffer (espressif_code/freertos/ringbuf.c) *)
(* made by several tasks, and the calls made from interrupts. A task takes *)
(* a binary semaphore, looks at the storage inside a critical section and, *)
(* when it finds nothing for it, takes the semaphore again; between any    *)
(* two of these steps every other task may run. The storage is the queue   *)
(* RingQueue promises (RingItems shows that ringbuf.c keeps the promise);  *)
(* how its pointers fragment the space is a choice of TryCopy.             *)
(*                                                                         *)
(* CONFIG_FREERTOS_UNICORE is set in sdkconfig: an interrupt runs to its   *)
(* end between two steps of the tasks, so a call from one is one action.   *)
(***************************************************************************)
EXTENDS RingQueue

CONSTANTS
    Senders,        \* tasks that call xRingbufferSend
    Receivers,      \* tasks that call xRingbufferReceive, return, and so on
    Patient,        \* the tasks that wait for portMAX_DELAY
    ByteReceivers,  \* the receivers and interrupts a byte buffer has
    Interrupt,      \* the holder that receives from an interrupt
    MaxInterrupts   \* bound: calls from interrupts

ASSUME TasksAssumption ==
    /\ Holders = Receivers \cup {Interrupt}
    /\ Interrupt \notin Receivers
    /\ Senders \cap Holders = {}
    /\ Patient \subseteq Senders \cup Receivers
    /\ ByteReceivers \subseteq Holders
    /\ MaxParts <= Capacity
    /\ MaxInterrupts \in Nat

VARIABLES
    bytes,      \* rbBYTE_BUFFER_FLAG
    itemsSem,   \* xItemsBufferedSemaphore is given
    freeSem,    \* xFreeSpaceSemaphore is given
    pc,         \* what every task does next
    want,       \* the parts every item of a sender takes
    interrupts  \* calls from interrupts so far

vars == <<parts, bytes, itemsSem, freeSem, pc, want, interrupts>>

Init ==
    /\ QueueInit
    /\ bytes \in BOOLEAN
    /\ itemsSem = FALSE
    /\ freeSem = TRUE       \* given at 719
    /\ pc = [t \in Senders \cup Receivers |-> "idle"]
    /\ want \in [Senders -> 1 .. MaxParts]
    /\ interrupts = 0

Goto(t, label) == pc' = [pc EXCEPT ![t] = label]

(* After a look that found nothing the ticks left decide whether a task    *)
(* takes the semaphore again or leaves with pdFALSE.                       *)
TryAgain(t) ==
    \/ Goto(t, "waiting")
    \/ t \notin Patient /\ Goto(t, "idle")

(* xSemaphoreTake gives up after xTicksRemaining.                          *)
TimeOut(t) ==
    /\ pc[t] = "waiting" /\ t \notin Patient
    /\ Goto(t, "idle")
    /\ UNCHANGED <<parts, bytes, itemsSem, freeSem, want, interrupts>>

------------------------------------------------------------------------------
(* xRingbufferSend *)

SendCall(s) ==
    /\ pc[s] = "idle"
    /\ Goto(s, "waiting")
    /\ UNCHANGED <<parts, bytes, itemsSem, freeSem, want, interrupts>>

TakeFree(s) ==
    /\ pc[s] = "waiting" /\ freeSem
    /\ freeSem' = FALSE
    /\ Goto(s, "looking")
    /\ UNCHANGED <<parts, bytes, itemsSem, want, interrupts>>

(* An empty storage takes any item, and items of unlike sizes leave gaps   *)
(* that the next one may not fit into. A storage that counts as full has   *)
(* no gap left between the write and the free pointer; the sender then     *)
(* does not set xReturnSemaphore.                                          *)
MayFit(k) == Len(parts) + k <= Capacity

MayNotFit(k) == IF bytes THEN ~MayFit(k) ELSE parts # <<>>
SpaceLeft(k) ==
    {left \in BOOLEAN : /\ left => Len(parts) + k < Capacity
                        /\ bytes => (left <=> Len(parts) + k < Capacity)}

TryCopy(s) ==
    /\ pc[s] = "looking"
    /\ \/ /\ MayFit(want[s])
          /\ parts' = Sent(parts, want[s])
          /\ \E left \in SpaceLeft(want[s]) :
                Goto(s, IF left THEN "announcing" ELSE "announcingFull")
       \/ /\ MayNotFit(want[s])
          /\ TryAgain(s)
          /\ UNCHANGED parts
    /\ UNCHANGED <<bytes, itemsSem, freeSem, want, interrupts>>

\* mutant: only the first item of an empty storage is announced
AnnouncesFirst(s) ==
    /\ pc[s] \in {"announcing", "announcingFull"}
    /\ itemsSem' = (itemsSem \/ Len(parts) = want[s])
    /\ Goto(s, IF pc[s] = "announcing" THEN "givingBack" ELSE "idle")
    /\ UNCHANGED <<parts, bytes, freeSem, want, interrupts>>

GiveItems(s) ==
    /\ pc[s] \in {"announcing", "announcingFull"}
    /\ itemsSem' = TRUE
    /\ Goto(s, IF pc[s] = "announcing" THEN "givingBack" ELSE "idle")
    /\ UNCHANGED <<parts, bytes, freeSem, want, interrupts>>

GiveFreeBack(s) ==
    /\ pc[s] = "givingBack" /\ s \in Senders
    /\ freeSem' = TRUE
    /\ Goto(s, "idle")
    /\ UNCHANGED <<parts, bytes, itemsSem, want, interrupts>>

------------------------------------------------------------------------------
(* prvReceiveGeneric, then vRingbufferReturnItem for what was received. A  *)
(* receiver returns all it holds before it receives again.                 *)

ReceiveCall(r) ==
    /\ pc[r] = "idle"
    /\ bytes => r \in ByteReceivers
    /\ Goto(r, "waiting")
    /\ UNCHANGED <<parts, bytes, itemsSem, freeSem, want, interrupts>>

TakeItems(r) ==
    /\ pc[r] = "waiting" /\ itemsSem
    /\ itemsSem' = FALSE
    /\ Goto(r, "looking")
    /\ UNCHANGED <<parts, bytes, freeSem, want, interrupts>>

(* prvCheckItemAvail: a byte buffer lends its bytes out once at a time.    *)
Available ==
    /\ UnreadAt(parts) # {}
    /\ bytes => \A h \in Holders : HeldAt(parts, h) = {}

(* One part, both parts of a split item, or a run of bytes                 *)
Runs == 1 .. Cardinality(UnreadAt(parts))
Takeable == {k \in Runs : k <= MaxParts}

\* mutant: a receiver keeps the items semaphore whatever is left to read
KeepsItemsSem(r) ==
    /\ pc[r] = "looking"
    /\ IF Available
       THEN /\ \E k \in Takeable : parts' = Taken(parts, r, k)
            /\ Goto(r, "holding")
       ELSE TryAgain(r) /\ UNCHANGED parts
    /\ UNCHANGED <<bytes, itemsSem, freeSem, want, interrupts>>

TryGet(r) ==
    /\ pc[r] = "looking"
    /\ IF Available
       THEN \E k \in Takeable :
            /\ parts' = Taken(parts, r, k)
            /\ Goto(r, IF UnreadAt(parts') # {} THEN "givingBack" ELSE "holding")
       ELSE TryAgain(r) /\ UNCHANGED parts
    /\ UNCHANGED <<bytes, itemsSem, freeSem, want, interrupts>>

GiveItemsBack(r) ==
    /\ pc[r] = "givingBack" /\ r \in Receivers
    /\ itemsSem' = TRUE
    /\ Goto(r, "holding")
    /\ UNCHANGED <<parts, bytes, freeSem, want, interrupts>>

(* The pointers to return at once: a run of bytes is one.                  *)
Returnable(h) ==
    IF bytes THEN {HeldAt(parts, h)} ELSE {{i} : i \in HeldAt(parts, h)}

ReturnItem(r) ==
    /\ pc[r] = "holding"
    /\ \E given \in Returnable(r) : parts' = Returned(parts, given)
    /\ Goto(r, "returned")
    /\ UNCHANGED <<bytes, itemsSem, freeSem, want, interrupts>>

\* mutant: a return does not wake the senders
SpaceNotGiven(r) ==
    /\ pc[r] = "returned"
    /\ Goto(r, IF HeldAt(parts, r) = {} THEN "idle" ELSE "holding")
    /\ UNCHANGED <<parts, bytes, itemsSem, freeSem, want, interrupts>>

GiveSpace(r) ==
    /\ pc[r] = "returned"
    /\ freeSem' = TRUE
    /\ Goto(r, IF HeldAt(parts, r) = {} THEN "idle" ELSE "holding")
    /\ UNCHANGED <<parts, bytes, itemsSem, want, interrupts>>

------------------------------------------------------------------------------
(* The calls from interrupts: no semaphore is taken.                       *)

InterruptCall ==
    /\ interrupts < MaxInterrupts
    /\ interrupts' = interrupts + 1
    /\ UNCHANGED <<bytes, pc, want>>

SendFromISR(k) ==
    /\ MayFit(k)
    /\ parts' = Sent(parts, k)
    /\ itemsSem' = TRUE
    /\ \E left \in SpaceLeft(k) : freeSem' = (freeSem \/ left)
    /\ InterruptCall

ReceiveFromISR ==
    /\ bytes => Interrupt \in ByteReceivers
    /\ Available
    /\ \E k \in Takeable : parts' = Taken(parts, Interrupt, k)
    /\ itemsSem' = (itemsSem \/ UnreadAt(parts') # {})
    /\ UNCHANGED freeSem
    /\ InterruptCall

\* mutant: a return from an interrupt does not wake the senders
SilentReturnFromISR ==
    /\ HeldAt(parts, Interrupt) # {}
    /\ \E given \in Returnable(Interrupt) : parts' = Returned(parts, given)
    /\ UNCHANGED <<bytes, itemsSem, freeSem, pc, want, interrupts>>

ReturnItemFromISR ==
    /\ HeldAt(parts, Interrupt) # {}
    /\ \E given \in Returnable(Interrupt) : parts' = Returned(parts, given)
    /\ freeSem' = TRUE
    /\ UNCHANGED <<bytes, itemsSem, pc, want, interrupts>>

------------------------------------------------------------------------------

SenderStep(s) ==
    TakeFree(s) \/ TryCopy(s) \/ GiveItems(s) \/ GiveFreeBack(s)

ReceiverStep(r) ==
    TakeItems(r) \/ TryGet(r) \/ GiveItemsBack(r) \/ ReturnItem(r) \/ GiveSpace(r)

Next ==
    \/ \E s \in Senders : SendCall(s) \/ SenderStep(s) \/ TimeOut(s)
    \/ \E r \in Receivers : ReceiveCall(r) \/ ReceiverStep(r) \/ TimeOut(r)
    \/ \E k \in 1 .. MaxParts : SendFromISR(k)
    \/ ReceiveFromISR
    \/ ReturnItemFromISR

Spec == Init /\ [][Next]_vars

(* A task that is not blocked runs on, a receiver comes back for more, and *)
(* what an interrupt received is returned. Nobody has to send.             *)
Fairness ==
    /\ \A s \in Senders : WF_vars(SenderStep(s))
    /\ \A r \in Receivers : WF_vars(ReceiveCall(r)) /\ WF_vars(ReceiverStep(r))
    /\ WF_vars(ReturnItemFromISR)

FairSpec == Spec /\ Fairness

------------------------------------------------------------------------------

TypeOK ==
    /\ parts \in Seq(Holders \cup {"unread", "freed"})
    /\ Len(parts) <= Capacity
    /\ \A s \in Senders : pc[s] \in
        {"idle", "waiting", "looking", "announcing", "announcingFull",
         "givingBack"}
    /\ \A r \in Receivers : pc[r] \in
        {"idle", "waiting", "looking", "givingBack", "holding", "returned"}
    /\ {itemsSem, freeSem} \subseteq BOOLEAN
    /\ interrupts \in 0 .. MaxInterrupts

(* Whenever something is left to read, the items semaphore is given or a   *)
(* task is about to give it or to look: the binary semaphore stands in for *)
(* the counting one that the remark at 74 would rather have.               *)
ItemsAnnounced ==
    UnreadAt(parts) # {} =>
        \/ itemsSem
        \/ \E s \in Senders : pc[s] \in {"announcing", "announcingFull"}
        \/ \E r \in Receivers : pc[r] \in {"looking", "givingBack"}

(* Whenever the storage is empty, the free semaphore is given or a task is *)
(* about to give it or to look, although a sender whose item did not fit   *)
(* keeps the semaphore it took (781), also when it gives up.               *)
SpaceAnnounced ==
    parts = <<>> =>
        \/ freeSem
        \/ \E s \in Senders : pc[s] \in {"looking", "announcing", "givingBack"}
        \/ \E r \in Receivers : pc[r] = "returned"

(* Tasks of both sides never wait for one another for ever: as long as     *)
(* something is unread, somebody gets to hold something.                   *)
ReadersProgress ==
    []<>(UnreadAt(parts) = {} \/ \E h \in Holders : HeldAt(parts, h) # {})

(* As long as tasks wait to send, one of them gets its item in.            *)
WritersProgress ==
    []<>( \/ \A s \in Senders : pc[s] \notin {"waiting", "looking"}
          \/ \E s \in Senders : pc[s] \in {"announcing", "announcingFull"} )
==============================================================================
