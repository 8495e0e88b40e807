--------------------------- MODULE SmartConfigAck ---------------------------
(***************************************************************************)
(* The smartconfig acknowledger (smartconfig_ack.c).  Each call of         *)
(* sc_ack_send starts one task that tells the phone MaxCount times that    *)
(* the device has joined the network and then reports SC_STATUS_LINK_OVER. *)
(* The only thing the calls and the tasks share is the flag s_sc_ack_send: *)
(* a call sets it, sc_ack_send_stop clears it, and every task, whichever   *)
(* call started it, tests it at the top of its two loops.                  *)
(***************************************************************************)
EXTENDS Integers

CONSTANTS MaxCount,     \* SC_ACK_MAX_COUNT: ACKs before the link is over
          MaxSends      \* bound on the calls of sc_ack_send that are explored

ASSUME BoundsAreNat == MaxCount \in Nat \ {0} /\ MaxSends \in Nat

Tasks == 1..MaxSends    \* the n-th call starts task n

VARIABLES
  s_sc_ack_send,  \* the flag
  calls,          \* how many calls of sc_ack_send got past their malloc
  pc,             \* where each task is
  packet_count,   \* the counter of each task
  has_socket,     \* xSocket # FREERTOS_INVALID_SOCKET, per task
  link_over,      \* the tasks that reported SC_STATUS_LINK_OVER
  opened,         \* history: sockets the task created and has not closed
  sent,           \* history: ACKs the task sent
  late,           \* history: ACKs it sent since the flag was last cleared
  overlapped      \* history: calls made while the task was still running

ackVars == <<s_sc_ack_send, calls, pc, packet_count, has_socket, link_over,
            opened, sent, late, overlapped>>

Running(t) == pc[t] \notin {"none", "gone"}

TypeOK ==
  /\ s_sc_ack_send \in BOOLEAN
  /\ calls \in 0..MaxSends
  /\ pc \in [Tasks -> {"none", "start", "outer", "address", "socket",
                       "inner", "send", "end", "gone"}]
  /\ packet_count \in [Tasks -> Nat]
  /\ has_socket \in [Tasks -> BOOLEAN]
  /\ link_over \subseteq Tasks
  /\ opened \in [Tasks -> Nat]
  /\ sent \in [Tasks -> Nat]
  /\ late \in [Tasks -> Nat]
  /\ overlapped \in [Tasks -> Nat]

AckInit ==
  /\ s_sc_ack_send = FALSE
  /\ calls = 0
  /\ pc = [t \in Tasks |-> "none"]
  /\ packet_count = [t \in Tasks |-> 1]
  /\ has_socket = [t \in Tasks |-> FALSE]
  /\ link_over = {}
  /\ opened = [t \in Tasks |-> 0]
  /\ sent = [t \in Tasks |-> 0]
  /\ late = [t \in Tasks |-> 0]
  /\ overlapped = [t \in Tasks |-> 0]

-----------------------------------------------------------------------------
(* The interface, called by the closed smartconfig library.                *)

\* The flag is set before xTaskCreate and stays set when that fails.
sc_ack_send ==
  /\ calls < MaxSends
  /\ calls' = calls + 1
  /\ s_sc_ack_send' = TRUE
  /\ \E created \in BOOLEAN :
       pc' = [pc EXCEPT ![calls + 1] = IF created THEN "start" ELSE "gone"]
  /\ late' = [t \in Tasks |-> 0]
  /\ overlapped' = [t \in Tasks |-> IF Running(t) THEN overlapped[t] + 1
                                 ELSE overlapped[t]]
  /\ UNCHANGED <<packet_count, has_socket, link_over, opened, sent>>

\* Clears the flag and returns at once: it does not wait for the task.
sc_ack_send_stop ==
  /\ s_sc_ack_send' = FALSE
  /\ UNCHANGED <<calls, pc, packet_count, has_socket, link_over, opened, sent,
                 late, overlapped>>

-----------------------------------------------------------------------------
(* sc_ack_send_task.                                                       *)

interface == <<s_sc_ack_send, calls, overlapped>>

AckGoto(t, from, to) == pc[t] = from /\ pc' = [pc EXCEPT ![t] = to]

\* The 200 ms before the first round.
Start(t) ==
  /\ AckGoto(t, "start", "outer")
  /\ UNCHANGED <<interface, packet_count, has_socket, link_over, opened, sent,
                 late>>

\* mutant: the outer loop waits for an address whatever the flag says.
OuterTestForever(t) ==
  /\ AckGoto(t, "outer", "address")
  /\ UNCHANGED <<interface, packet_count, has_socket, link_over, opened, sent,
                 late>>

\* while (s_sc_ack_send): the outer loop, one round per address or socket.
OuterTest(t) ==
  /\ AckGoto(t, "outer", IF s_sc_ack_send THEN "address" ELSE "end")
  /\ UNCHANGED <<interface, packet_count, has_socket, link_over, opened, sent,
                 late>>

\* Without an address the task waits 100 ms and tests the flag again.
GetAddress(t) ==
  /\ \E address \in BOOLEAN :
       AckGoto(t, "address", IF address THEN "socket" ELSE "outer")
  /\ UNCHANGED <<interface, packet_count, has_socket, link_over, opened, sent,
                 late>>

\* xSocket is overwritten, whether or not it still names an open socket.
CreateSocket(t) ==
  /\ \E valid \in BOOLEAN :
       /\ AckGoto(t, "socket", IF valid THEN "inner" ELSE "end")
       /\ has_socket' = [has_socket EXCEPT ![t] = valid]
       /\ opened' = [opened EXCEPT ![t] = IF valid THEN @ + 1 ELSE @]
  /\ UNCHANGED <<interface, packet_count, link_over, sent, late>>

\* mutant: the inner loop only ends by its count or a failed send.
InnerTestForever(t) ==
  /\ AckGoto(t, "inner", "send")
  /\ UNCHANGED <<interface, packet_count, has_socket, link_over, opened, sent,
                 late>>

\* while (s_sc_ack_send): the inner loop, one round per ACK.
InnerTest(t) ==
  /\ AckGoto(t, "inner", IF s_sc_ack_send THEN "send" ELSE "outer")
  /\ UNCHANGED <<interface, packet_count, has_socket, link_over, opened, sent,
                 late>>

\* 100 ms, FreeRTOS_sendto, and the count: the flag is not read again.  The
\* report is *link_flag = 1 and the callback, those of them that were given.
SendAck(t) ==
  /\ \/ /\ packet_count[t] < MaxCount
        /\ AckGoto(t, "send", "inner")
        /\ UNCHANGED link_over
     \/ /\ packet_count[t] >= MaxCount
        /\ AckGoto(t, "send", "end")
        /\ link_over' = link_over \union {t}
  /\ packet_count' = [packet_count EXCEPT ![t] = @ + 1]
  /\ sent' = [sent EXCEPT ![t] = @ + 1]
  /\ late' = [late EXCEPT ![t] = IF s_sc_ack_send THEN @ ELSE @ + 1]
  /\ UNCHANGED <<interface, has_socket, opened>>

SendFails(t) ==
  /\ AckGoto(t, "send", "end")
  /\ UNCHANGED <<interface, packet_count, has_socket, link_over, opened, sent,
                 late>>

\* mutant: the task deletes itself without closing its socket.
EndKeepsSocket(t) ==
  /\ AckGoto(t, "end", "gone")
  /\ UNCHANGED <<interface, packet_count, has_socket, link_over, opened, sent,
                 late>>

\* _end: close the socket xSocket names, free the parameters, delete the task.
End(t) ==
  /\ AckGoto(t, "end", "gone")
  /\ opened' = [opened EXCEPT ![t] = IF has_socket[t] THEN @ - 1 ELSE @]
  /\ UNCHANGED <<interface, packet_count, has_socket, link_over, sent, late>>

sc_ack_send_task(t) ==
  \/ Start(t)
  \/ OuterTest(t)
  \/ GetAddress(t)
  \/ CreateSocket(t)
  \/ InnerTest(t)
  \/ SendAck(t)
  \/ SendFails(t)
  \/ End(t)

AckNext ==
  \/ sc_ack_send
  \/ sc_ack_send_stop
  \/ \E t \in Tasks : sc_ack_send_task(t)

AckSpec == AckInit /\ [][AckNext]_ackVars

\* The scheduler runs every task: its delays end and its calls return.
AckFairSpec == AckSpec /\ \A t \in Tasks : WF_ackVars(sc_ack_send_task(t))

-----------------------------------------------------------------------------
(* Properties.                                                             *)

\* "Totally send 30 smartconfig ACKs. Then smartconfig is successful."
\* (smartconfig_ack.c:80): the link is reported over after exactly MaxCount
\* ACKs of that task, even when a stop and a restart fell in between.
LinkOverAfterAllAcks == \A t \in link_over : sent[t] = MaxCount

\* sc_ack_send_stop does not wait, and the task tests the flag before the
\* 100 ms it waits to send (lines 74-78): one more ACK, and with it perhaps
\* the report, may follow a stop, but never two.
OneAckAfterStop == \A t \in Tasks : late[t] <= 1

\* A task that nobody restarted over leaves no socket behind.  A call made
\* while an older task is between its inner and its outer test sends that
\* task round the outer loop again, where it creates a second socket over
\* the first (line 68): every such call may cost the older task one socket
\* that is never closed, and nothing else does.
LeakedSockets(t) ==
  IF Running(t) /\ has_socket[t] THEN opened[t] - 1 ELSE opened[t]
LeaksOnlyByRestart ==
  \A t \in Tasks : 0 <= LeakedSockets(t) /\ LeakedSockets(t) <= overlapped[t]

\* Once the flag is cleared for good every task ends, frees its parameters
\* and deletes itself, wherever the stop found it (no address yet, between
\* two ACKs, creating a socket).
StopEndsEveryTask ==
  (<>[] ~s_sc_ack_send) => <>[] (\A t \in Tasks : ~Running(t))
=============================================================================
