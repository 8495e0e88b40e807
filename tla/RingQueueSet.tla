---------------------------- MODULE RingQueueSet ----------------------------
(***************************************************************************)
(* A ring buffer whose semaphores are members of a FreeRTOS queue set      *)
(* (espressif_code/freertos/ringbuf.c): senders send, one reader waits on  *)
(* the set and receives without waiting, and semaphores join and leave the *)
(* set at any time.  The set holds one event per give of a member that was *)
(* not given: taking a semaphore leaves its event behind, so the set and   *)
(* the semaphore tell the same thing only as long as every take follows a  *)
(* select.                                                                 *)
(*                                                                         *)
(* The set has a fixed length. FreeRTOS (external) asserts that it has     *)
(* room for an event, and a failed assertion aborts the program here       *)
(* (CONFIG_FREERTOS_ASSERT_FAIL_ABORT, sdkconfig:348).                     *)
(*                                                                         *)
(* Items count, not bytes (RingItems has the storage).  As in RingTasks, a *)
(* critical section is one step: CONFIG_FREERTOS_UNICORE is set.           *)
(***************************************************************************)
EXTENDS Naturals, FiniteSets

CONSTANTS
    Senders,      \* tasks that call xRingbufferSend
    Capacity,     \* the items the storage takes
    SetLength,    \* the length xQueueCreateSet was given
    MaxSends,     \* bound: items sent
    MaxSetCalls   \* bound: semaphores put into and taken out of the set

ASSUME BoundsAssumption ==
    /\ Capacity \in Nat \ {0} /\ SetLength \in Nat \ {0}
    /\ MaxSends \in Nat
    /\ MaxSetCalls \in Nat

VARIABLES
    unread,    \* xItemsWaiting
    received,  \* items received and not yet returned
    given,     \* the semaphores that are given
    members,   \* the semaphores whose container is the set
    events,    \* what the set holds, by semaphore
    pc,        \* what every sender does next
    reader,    \* what the reader does next
    sends,     \* items sent so far
    setCalls,  \* calls that add or remove so far
    joins,     \* history: calls that add, by semaphore
    aborted    \* the set had no room for an event

storage == <<unread, received>>
set == <<members, events, aborted>>
calls == <<setCalls, joins>>
setVars == <<storage, given, set, pc, reader, sends, calls>>

Semaphores == {"items", "free"}

SetInit ==
    /\ unread = 0 /\ received = 0
    /\ given = {"free"}
    /\ members = {}
    /\ events = [sem \in Semaphores |-> 0]
    /\ pc = [s \in Senders |-> "idle"]
    /\ reader = "idle"
    /\ sends = 0
    /\ setCalls = 0 /\ joins = [sem \in Semaphores |-> 0]
    /\ aborted = FALSE

(* An event for every one of news: prvNotifyQueueSetContainer (external).  *)
Notify(news) ==
    LET held == events["items"] + events["free"]
    IN  IF held + Cardinality(news) <= SetLength
        THEN /\ events' = [sem \in Semaphores |->
                            IF sem \in news THEN events[sem] + 1
                                           ELSE events[sem]]
             /\ UNCHANGED aborted
        ELSE aborted' = TRUE /\ UNCHANGED events

(* xSemaphoreGive: a member that was not given tells the set.              *)
Give(sem) ==
    /\ given' = given \cup {sem}
    /\ Notify((members \cap {sem}) \ given)
    /\ UNCHANGED members

Take(sem) ==
    /\ given' = given \ {sem}
    /\ UNCHANGED set

------------------------------------------------------------------------------
(* The queue set functions.  A member must not be given when it joins or   *)
(* leaves: the call takes the semaphore first, and gives it back after.    *)

(* mutant: what was held is not given back                                 *)
JoinKeepsSemaphore(sem) ==
    /\ members' = members \cup {sem}
    /\ given' = given \ {sem}
    /\ UNCHANGED <<events, aborted>>

(* Giving it back tells the set of what was given before the semaphore     *)
(* joined, and once more if it was a member already: then only             *)
(* xQueueAddToSet fails.                                                   *)
Join(sem) ==
    /\ members' = members \cup {sem}
    /\ Notify(given \cap {sem})
    /\ UNCHANGED given

(* mutant: what was held is given back before the semaphore leaves         *)
LeaveTooLate(sem) ==
    /\ members' = members \ {sem}
    /\ Notify(members \cap given \cap {sem})
    /\ UNCHANGED given

(* An event the set holds already stays.                                   *)
Leave(sem) ==
    /\ members' = members \ {sem}
    /\ UNCHANGED <<given, events, aborted>>

SetCall(added) ==
    /\ setCalls < MaxSetCalls
    /\ setCalls' = setCalls + 1
    /\ joins' = [sem \in Semaphores |->
                   IF sem \in added THEN joins[sem] + 1 ELSE joins[sem]]
    /\ UNCHANGED <<storage, pc, reader, sends>>

AddToQueueSetRead == SetCall({"items"}) /\ Join("items")
RemoveFromQueueSetRead == SetCall({}) /\ Leave("items")

(* Deprecated: the senders take their semaphore without a select.          *)
AddToQueueSetWrite == SetCall({"free"}) /\ Join("free")
RemoveFromQueueSetWrite == SetCall({}) /\ Leave("free")

------------------------------------------------------------------------------
(* xRingbufferSend *)

Goto(s, label) == pc' = [pc EXCEPT ![s] = label]

TakeFree(s) ==
    /\ pc[s] = "idle" /\ sends < MaxSends
    /\ "free" \in given
    /\ sends' = sends + 1
    /\ Take("free")
    /\ Goto(s, "looking")
    /\ UNCHANGED <<storage, reader, calls>>

(* The sender whose item does not fit gives up and keeps the semaphore, as *)
(* does the one that leaves no space.                                      *)
TryCopy(s) ==
    /\ pc[s] = "looking"
    /\ \/ /\ unread + received < Capacity
          /\ unread' = unread + 1
          /\ Goto(s, IF unread' + received < Capacity THEN "announcing"
                                                  ELSE "announcingFull")
       \/ /\ unread + received = Capacity
          /\ Goto(s, "idle")
          /\ UNCHANGED unread
    /\ UNCHANGED <<received, given, set, reader, sends, calls>>

GiveItems(s) ==
    /\ pc[s] \in {"announcing", "announcingFull"}
    /\ Give("items")
    /\ Goto(s, IF pc[s] = "announcing" THEN "givingBack" ELSE "idle")
    /\ UNCHANGED <<storage, reader, sends, calls>>

GiveFreeBack(s) ==
    /\ pc[s] = "givingBack"
    /\ Give("free")
    /\ Goto(s, "idle")
    /\ UNCHANGED <<storage, reader, sends, calls>>

(* xRingbufferSendFromISR between two steps of the tasks, a free semaphore *)
(* included that it never took.                                            *)
SendFromISR ==
    /\ sends < MaxSends
    /\ unread + received < Capacity
    /\ unread' = unread + 1 /\ sends' = sends + 1
    /\ LET gives == {"items"} \cup
                    (IF unread' + received < Capacity THEN {"free"} ELSE {})
       IN  given' = given \cup gives /\ Notify((gives \cap members) \ given)
    /\ UNCHANGED <<received, members, pc, reader, calls>>

------------------------------------------------------------------------------
(* The reader: xQueueSelectFromSet, xRingbufferCanRead, xRingbufferReceive *)
(* with no wait, vRingbufferReturnItem.                                    *)

CanRead(sem) == sem = "items"

Select ==
    /\ reader = "idle"
    /\ \E sem \in Semaphores :
        /\ events[sem] > 0
        /\ events' = [events EXCEPT ![sem] = @ - 1]
        /\ reader' = IF CanRead(sem) THEN "receiving" ELSE "idle"
    /\ UNCHANGED <<storage, given, members, aborted, pc, sends, calls>>

(* While the semaphore is in no set there is nothing to select.            *)
ReceiveDirectly ==
    /\ reader = "idle" /\ "items" \notin members
    /\ reader' = "receiving"
    /\ UNCHANGED <<storage, given, set, pc, sends, calls>>

TakeItems ==
    /\ reader = "receiving"
    /\ Take("items")
    /\ reader' = IF "items" \in given THEN "looking" ELSE "idle"
    /\ UNCHANGED <<storage, pc, sends, calls>>

(* mutant: the reader keeps the items semaphore whatever is left to read   *)
TryGetAndKeep ==
    /\ reader = "looking"
    /\ IF unread > 0
       THEN /\ unread' = unread - 1 /\ received' = received + 1
            /\ reader' = "holding"
       ELSE reader' = "idle" /\ UNCHANGED storage
    /\ UNCHANGED <<given, set, pc, sends, calls>>

TryGet ==
    /\ reader = "looking"
    /\ IF unread > 0
       THEN /\ unread' = unread - 1 /\ received' = received + 1
            /\ reader' = IF unread' > 0 THEN "givingBack" ELSE "holding"
       ELSE reader' = "idle" /\ UNCHANGED storage
    /\ UNCHANGED <<given, set, pc, sends, calls>>

GiveItemsBack ==
    /\ reader = "givingBack"
    /\ Give("items")
    /\ reader' = "holding"
    /\ UNCHANGED <<storage, pc, sends, calls>>

ReturnReceived ==
    /\ reader = "holding"
    /\ received' = received - 1
    /\ reader' = "returned"
    /\ UNCHANGED <<unread, given, set, pc, sends, calls>>

GiveSpace ==
    /\ reader = "returned"
    /\ Give("free")
    /\ reader' = "idle"
    /\ UNCHANGED <<storage, pc, sends, calls>>

------------------------------------------------------------------------------

SetCalls ==
    \/ AddToQueueSetRead \/ RemoveFromQueueSetRead
    \/ AddToQueueSetWrite \/ RemoveFromQueueSetWrite

SenderStep(s) == TryCopy(s) \/ GiveItems(s) \/ GiveFreeBack(s)

ReaderStep ==
    \/ Select \/ ReceiveDirectly
    \/ TakeItems \/ TryGet \/ GiveItemsBack \/ ReturnReceived \/ GiveSpace

SetNext ==
    /\ ~aborted
    /\ \/ SetCalls
       \/ \E s \in Senders : TakeFree(s) \/ SenderStep(s)
       \/ SendFromISR
       \/ ReaderStep

SetSpec == SetInit /\ [][SetNext]_setVars

(* A task in the middle of a call runs on, and the reader keeps reading.   *)
SetFairness ==
    /\ \A s \in Senders : WF_setVars(~aborted /\ SenderStep(s))
    /\ WF_setVars(~aborted /\ ReaderStep)

FairSetSpec == SetSpec /\ SetFairness

------------------------------------------------------------------------------

(* The storage stays within its capacity and the reader holds one item.    *)
SetTypeOK ==
    /\ unread \in Nat /\ received \in {0, 1} /\ unread + received <= Capacity
    /\ given \subseteq Semaphores /\ members \subseteq Semaphores
    /\ events \in [Semaphores -> Nat]
    /\ pc \in [Senders -> {"idle", "looking", "announcing", "announcingFull",
                           "givingBack"}]
    /\ reader \in {"idle", "receiving", "looking", "givingBack", "holding",
                   "returned"}
    /\ sends \in 0 .. MaxSends /\ setCalls \in 0 .. MaxSetCalls
    /\ joins \in [Semaphores -> 0 .. setCalls] /\ aborted \in BOOLEAN

(* A reader that waits on the set loses no item: while the program runs,   *)
(* the items semaphore is in the set and something is unread, the set      *)
(* holds an event of it, or a task is about to give the semaphore or to    *)
(* look.  Joining in the middle of a send or a receive, leaving and        *)
(* joining again, and joining twice included (xRingbufferAddToQueueSetRead,*)
(* prvReceiveGeneric).                                                     *)
UnreadIsSelectable ==
    ~aborted /\ "items" \in members /\ unread > 0 =>
        \/ events["items"] > 0
        \/ \E s \in Senders : pc[s] \in {"announcing", "announcingFull"}
        \/ reader \in {"receiving", "looking", "givingBack"}

(* The set refuses no event, which would abort the program, when it has    *)
(* two places for every time the items semaphore was put into it           *)
(* (xRingbufferAddToQueueSetRead) and the free semaphore never was, whose  *)
(* senders take it without a select (ringbuf.h:394-398).  One place for a  *)
(* binary semaphore, as FreeRTOS counts, is not enough: a receive that     *)
(* began before the semaphore joined takes a give without its event.       *)
NoEventIsRefused ==
    aborted => joins["free"] > 0 \/ SetLength < 2 * joins["items"]

(* Every item is read in the end, in whatever order the semaphores join    *)
(* and leave the set, although events outlive the gives they tell of,      *)
(* unless the set had no room for one of them and the program aborts.      *)
EverythingIsRead == []<>(unread = 0 \/ aborted)
==============================================================================
