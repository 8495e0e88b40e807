----------------------------- MODULE Lab2Shadow -----------------------------
(***************************************************************************)
(* Lab 2: the air conditioner of AirCon and the connection layer of        *)
(* LabConnection, brought together by m5stickc_lab2_shadow.c.  Two tasks   *)
(* change the air conditioner and report it to the Shadow:                 *)
(*                                                                         *)
(*   daemon   the timer task, in prvAirConTimerCallback                    *)
(*   mqtt     the task of the MQTT library, in _shadowDeltaCallback        *)
(*                                                                         *)
(* A report reads the state, formats it into one static buffer that both   *)
(* tasks use, and only then waits for shadowDelta: what is sent is what    *)
(* the buffer holds when the library reads it.  The network comes and goes *)
(* and calls vLab2NetworkConnectedCallback and the disconnected one.       *)
(***************************************************************************)
EXTENDS LabConnection, AirCon

CONSTANTS
    MaxConnects,   \* bound: how often the network comes up
    MaxDeltas      \* bound: delta documents that arrive

ASSUME ReportersAssumption == Publishers = {} /\ Updaters = {"daemon", "mqtt"}
ASSUME BoundsAssumption == MaxConnects \in Nat /\ MaxDeltas \in Nat

VARIABLES
    report,      \* where each task is in _reportShadow
    read,        \* the state a task read for its report
    document,    \* pUpdateDocument, the static buffer
    shadow,      \* the reported state the cloud holds
    network,     \* the network is up
    connects,    \* times it came up; each one starts an AirCon timer
    deltas       \* delta documents so far

reportVars == <<report, read, document>>
lab2Vars == <<reportVars, shadow, network, connects, deltas>>
vars == <<connVars, airConVars, lab2Vars>>

NoState == [powerOn |-> 0, temperature |-> 0]   \* an empty document

Init ==
    /\ ConnInit
    /\ AirConInit
    /\ report = [u \in Updaters |-> "idle"]
    /\ read = [u \in Updaters |-> NoState]
    /\ document = NoState
    /\ shadow = NoState
    /\ network = FALSE
    /\ connects = 0
    /\ deltas = 0

Reporting(u, from, to) ==
    report[u] = from /\ report' = [report EXCEPT ![u] = to]

-----------------------------------------------------------------------------
(* The network (external) and the callbacks of lab 2                       *)

(* vLab2NetworkConnectedCallback starts another AirCon timer.              *)
NetworkConnected ==
    /\ ~network
    /\ thread \notin {"absent", "failed"}
    /\ connects < MaxConnects
    /\ network' = TRUE
    /\ connects' = connects + 1
    /\ IF thread = "network" THEN NetworkUp ELSE UNCHANGED connVars
    /\ UNCHANGED <<airConVars, reportVars, shadow, deltas>>

(* vLab2NetworkDisconnectedCallback asks for the clean up.                 *)
NetworkDisconnected ==
    /\ network
    /\ network' = FALSE
    /\ RequestCleanup
    /\ UNCHANGED <<airConVars, reportVars, shadow, connects, deltas>>

Connection ==
    /\ ConnectionInit(ShadowCallbacks) \/ ThreadStep \/ ConnectionDrops
    /\ UNCHANGED <<airConVars, lab2Vars>>

-----------------------------------------------------------------------------
(* The two callbacks, up to their report                                   *)

(* mutant: the timer no longer reports.                                    *)
SilentTimerCallback ==
    /\ connects > 0
    /\ report["daemon"] = "idle"
    /\ AirConTimer
    /\ UNCHANGED <<connVars, lab2Vars>>

TimerCallback ==
    /\ connects > 0
    /\ Reporting("daemon", "idle", "read")
    /\ AirConTimer
    /\ UNCHANGED <<connVars, read, document, shadow, network, connects,
                   deltas>>

DeltaCallback ==
    /\ "delta" \in callbacks /\ conn = "open" /\ network
    /\ deltas < MaxDeltas
    /\ deltas' = deltas + 1
    /\ \E power \in Found(DeltaPowers), target \in Found(DeltaTemperatures) :
         /\ ShadowDelta(power, target)
         /\ Reporting("mqtt", "idle", IF power = {} THEN "idle" ELSE "read")
    /\ UNCHANGED <<connVars, read, document, shadow, network, connects>>

-----------------------------------------------------------------------------
(* _reportShadow                                                           *)

ReadState(u) ==
    /\ Reporting(u, "read", "format")
    /\ read' = [read EXCEPT ![u] = [powerOn |-> powerOn,
                                    temperature |-> temperature]]
    /\ UNCHANGED <<connVars, airConVars, document, shadow, network, connects,
                   deltas>>

FormatDocument(u) ==
    /\ Reporting(u, "format", "send")
    /\ document' = read[u]
    /\ CallUpdateShadow(u)
    /\ UNCHANGED <<airConVars, read, shadow, network, connects, deltas>>

TakeShadowDelta(u) ==
    /\ DeltaTake(u)
    /\ UNCHANGED <<airConVars, lab2Vars>>

(* AwsIotShadow_TimedUpdate sends the document as it is now and returns    *)
(* when the update was accepted, or with an error.                         *)
UpdateAccepted(u) ==
    /\ conn = "open" /\ network
    /\ UpdateReturns(u)
    /\ Reporting(u, "send", "idle")
    /\ shadow' = document
    /\ UNCHANGED <<airConVars, read, document, network, connects, deltas>>

UpdateFails(u) ==
    /\ UpdateReturns(u)
    /\ Reporting(u, "send", "idle")
    /\ UNCHANGED <<airConVars, read, document, shadow, network, connects,
                   deltas>>

Report(u) ==
    \/ ReadState(u) \/ FormatDocument(u) \/ TakeShadowDelta(u)
    \/ UpdateAccepted(u) \/ UpdateFails(u)

Next ==
    \/ NetworkConnected \/ NetworkDisconnected \/ Connection
    \/ TimerCallback \/ DeltaCallback
    \/ \E u \in Updaters : Report(u)

Spec == Init /\ [][Next]_vars

(* Tasks run, calls return by their timeout, the auto-reload timer keeps   *)
(* firing, a semaphore that exists serves its waiters in order, and over a *)
(* connection that stays open not every update fails.  A wait on the       *)
(* destroyed semaphore may return, or not.                                 *)
Fairness ==
    /\ WF_vars(Connection /\ ThreadStep)
    /\ WF_vars(TimerCallback)
    /\ \A u \in Updaters :
         /\ WF_vars(ReadState(u))
         /\ WF_vars(FormatDocument(u))
         /\ SF_vars(sem["shadowDelta"] = "full" /\ TakeShadowDelta(u))
         /\ WF_vars(UpdateAccepted(u) \/ UpdateFails(u))
         /\ SF_vars(UpdateAccepted(u))

FairSpec == Spec /\ Fairness

-----------------------------------------------------------------------------
(* What lab 2 guarantees                                                   *)

(* Once the deltas stop and the connection stays up, the cloud ends up     *)
(* with the power the device has, although both tasks write the one buffer *)
(* and a task may send what the other one formatted.                       *)
ShadowConverges ==
    <>[](conn = "open" /\ thread = "waitCleanUp") =>
        <>[](shadow.powerOn = powerOn)

(* A report started by the timer or by a delta comes to an end, with its   *)
(* update sent or failed, unless the semaphore it waits for is destroyed   *)
(* meanwhile (m5stickc_lab_connection.c:484).                              *)
ReportsReturnWhileUp ==
    \A u \in Updaters :
        (report[u] = "send" /\ thread \in Settled) ~>
            (report[u] = "idle" \/ sem["shadowDelta"] = "destroyed")
=============================================================================
