------------------------------ MODULE UserInput ------------------------------
(***************************************************************************)
(* What the user types to confirm a Bluetooth pairing (main.c): the UART   *)
(* driver (external) keeps the bytes and queues one event per arrival, and *)
(* getUserMessage takes an event and then reads the bytes it announces,    *)
(* waiting for as long as it takes.                                        *)
(***************************************************************************)
EXTENDS Naturals, Sequences

CONSTANTS
    RxBuffer,      \* 4096 bytes that wait to be read
    EventQueue,    \* 10 events that wait to be taken
    ArrivalSizes   \* bound: how many bytes arrive at once

ASSUME UserInputAssumption ==
    /\ RxBuffer \in Nat \ {0}
    /\ EventQueue \in Nat \ {0}
    /\ ArrivalSizes \subseteq 1..RxBuffer

VARIABLES
    rx,       \* bytes in the driver's buffer
    queue,    \* spp_uart_queue
    reading   \* the bytes getUserMessage waits for, 0 outside of a read

inputVars == <<rx, queue, reading>>

InputInit ==
    /\ rx = 0
    /\ queue = <<>>
    /\ reading = 0

(* The driver drops an event that finds the queue full.                    *)
PostEvent(event) ==
    queue' = IF Len(queue) < EventQueue THEN Append(queue, event) ELSE queue

BytesArrive ==
    /\ \E n \in ArrivalSizes :
         IF rx + n <= RxBuffer
         THEN rx' = rx + n /\ PostEvent([type |-> "UART_DATA", size |-> n])
         ELSE PostEvent([type |-> "UART_BUFFER_FULL", size |-> 0]) /\ UNCHANGED rx
    /\ UNCHANGED reading

(* mutant: the event is looked at and stays.                               *)
GetUserMessagePeeks ==
    /\ reading = 0 /\ queue # <<>>
    /\ reading' \in IF Head(queue).type = "UART_DATA"
                    THEN {Head(queue).size, 0} ELSE {0}
    /\ UNCHANGED <<rx, queue>>

(* Any event but data is ignored.  When malloc fails the event is gone and *)
(* its bytes stay: they come back as the start of the next message.        *)
GetUserMessage ==
    /\ reading = 0 /\ queue # <<>>
    /\ queue' = Tail(queue)
    /\ reading' \in IF Head(queue).type = "UART_DATA"
                    THEN {Head(queue).size, 0} ELSE {0}
    /\ UNCHANGED rx

UartReadBytes ==
    /\ reading > 0 /\ rx >= reading
    /\ rx' = rx - reading
    /\ reading' = 0
    /\ UNCHANGED queue

InputNext == BytesArrive \/ GetUserMessage \/ UartReadBytes

-----------------------------------------------------------------------------
(* The bytes of the events in q, and start.                                *)
Announced(q, start) ==
    LET Sum[i \in 0..Len(q)] == IF i = 0 THEN start ELSE Sum[i - 1] + q[i].size
    IN  Sum[Len(q)]

Promised == Announced(queue, reading)

(* The read that waits for ever never has to: the bytes of the event that  *)
(* was taken, and those of every event in the queue, are in the buffer,    *)
(* although events are dropped and messages are given up half way.         *)
ReadNeverBlocks == Promised <= rx
==============================================================================
