-------------------------- MODULE Lab2Shadow_proofs --------------------------
(***************************************************************************)
(* Lab 2 as a client of the connection layer, for any temperatures and any *)
(* number of network losses and deltas: the timer daemon and the task of   *)
(* the MQTT library use the layer as ConnSpec expects of its updaters, so  *)
(* that what was proved of the layer holds in lab 2.                       *)
(***************************************************************************)
EXTENDS Lab2Shadow, LabConnection_proofs

(* The thread was created, and with it all three semaphores.               *)
LayerExists ==
    /\ thread \notin {"absent", "failed"}
    /\ \A s \in Semaphores : sem[s] # "none"

(* The tasks report only once the network was up, which the layer outlives *)
(* from its creation on; a task is inside the layer exactly while it waits *)
(* for its update.                                                         *)
ReportsInv ==
    /\ report \in [Updaters -> {"idle", "read", "format", "send"}]
    /\ connects \in Nat
    /\ thread \notin {"absent", "failed"} => LayerExists
    /\ network => connects > 0
    /\ connects > 0 => LayerExists
    /\ \A u \in Updaters :
         /\ report[u] # "idle" => LayerExists
         /\ call[u] \in {"deltaWait", "update"} <=> report[u] = "send"
         /\ call[u] = "out" <=> report[u] # "send"

Lab2Inv == ConnTypeOK /\ ReportsInv

(* The reporters are the clients.                                          *)
LEMMA Lab2Clients ==
    /\ Publishers = {}
    /\ Updaters = {"daemon", "mqtt"}
    /\ Clients = Updaters
  BY ReportersAssumption DEF Clients

(* Nothing runs at the start.                                              *)
LEMMA Lab2Initial == Init => Lab2Inv
<1> SUFFICES ASSUME Init PROVE Lab2Inv
  OBVIOUS
<1>1. ConnTypeOK
  BY ConnTypeInit DEF Init
<1>2. ReportsInv
  BY Lab2Clients DEF Init, ConnInit, ReportsInv
<1> QED
  BY <1>1, <1>2 DEF Lab2Inv

(* Whatever lab 2 does to the connection layer, a client of the layer may  *)
(* do: it asks for a clean up and starts an update only when it exists.    *)
LEMMA Lab2UsesLayer ==
    ASSUME Lab2Inv, [Next]_vars
    PROVE  [ConnNext]_connVars
<1> USE DEF Lab2Inv, ReportsInv, LayerExists, Semaphores
<1>1. CASE NetworkConnected
  BY <1>1 DEF NetworkConnected, ConnNext
<1>2. CASE NetworkDisconnected
  BY <1>2 DEF NetworkDisconnected, ConnNext
<1>3. CASE Connection
  <2>1. ShadowCallbacks \in SUBSET ShadowCallbacks
    OBVIOUS
  <2> QED
    BY <1>3, <2>1 DEF Connection, ConnNext
<1>4. CASE TimerCallback \/ DeltaCallback
  BY <1>4 DEF TimerCallback, DeltaCallback
<1>5. ASSUME NEW u \in Updaters, Report(u)
      PROVE  [ConnNext]_connVars
  <2>1. CASE ReadState(u)
    BY <2>1 DEF ReadState
  <2>2. ASSUME UpdaterStep(u), report[u] # "idle"
        PROVE  ConnNext
    BY <2>2 DEF ConnNext, Created
  <2>3. CASE FormatDocument(u)
    BY <2>2, <2>3 DEF FormatDocument, Reporting, UpdaterStep
  <2>4. CASE TakeShadowDelta(u)
    <3>1. report[u] = "send"
      BY <2>4 DEF TakeShadowDelta, DeltaTake, At
    <3> QED
      BY <2>2, <2>4, <3>1 DEF TakeShadowDelta, UpdaterStep
  <2>5. CASE UpdateAccepted(u) \/ UpdateFails(u)
    BY <2>2, <2>5 DEF UpdateAccepted, UpdateFails, Reporting, UpdaterStep
  <2> QED
    BY <1>5, <2>1, <2>3, <2>4, <2>5 DEF Report
<1>6. CASE UNCHANGED vars
  BY <1>6 DEF vars
<1> QED
  BY <1>1, <1>2, <1>3, <1>4, <1>5, <1>6 DEF Next

(* No step of the layer undoes the creation of the thread and of the       *)
(* semaphores, and it only comes complete.                                 *)
LEMMA LayerStays ==
    ASSUME ConnTypeOK, [ConnNext]_connVars,
           thread \notin {"absent", "failed"} => LayerExists
    PROVE  /\ LayerExists => LayerExists'
           /\ thread' \notin {"absent", "failed"} => LayerExists'
<1> USE DEF ConnTypeOK, LayerExists, Semaphores, Goto, resourceVars,
            threadVars
<1>1. CASE \E given \in SUBSET ShadowCallbacks : ConnectionInit(given)
  BY <1>1 DEF ConnectionInit, CreationOrder
<1>2. CASE NetworkUp \/ ConnectionDrops
  BY <1>2 DEF NetworkUp, ConnectionDrops
<1>3. CASE ThreadStep
  <2>1. CASE CheckIdentifier \/ Initialize
    BY <2>1 DEF CheckIdentifier, Initialize
  <2>2. CASE EstablishMqttConnection \/ SetShadowCallbacks
    BY <2>2 DEF EstablishMqttConnection, SetShadowCallbacks
  <2>3. CASE PostReady \/ PostDelta
    BY <2>3 DEF PostReady, PostDelta, Post
  <2>4. CASE WaitCleanUp
    BY <2>4 DEF WaitCleanUp, Take
  <2>5. CASE DestroyCleanUp \/ DestroyDelta
    BY <2>5 DEF DestroyCleanUp, DestroyDelta, Destroy
  <2>6. CASE Disconnect \/ CleanUpLibraries
    BY <2>6 DEF Disconnect, CleanUpLibraries
  <2> QED
    BY <1>3, <2>1, <2>2, <2>3, <2>4, <2>5, <2>6 DEF ThreadStep
<1>4. CASE \E c \in Publishers : thread # "absent" /\ PublisherStep(c)
  BY <1>4, Lab2Clients
<1>5. ASSUME NEW c \in Updaters, UpdaterStep(c)
      PROVE  /\ thread' = thread
             /\ \A s \in Semaphores : sem[s] # "none" => sem'[s] # "none"
  BY <1>5 DEF UpdaterStep, CallUpdateShadow, DeltaTake, UpdateReturns, Take,
              Post
<1>6. CASE RequestCleanup
  BY <1>6 DEF RequestCleanup, Post
<1>7. CASE UNCHANGED connVars
  BY <1>7 DEF connVars
<1> QED
  BY <1>1, <1>2, <1>3, <1>4, <1>5, <1>6, <1>7 DEF ConnNext

(* Only a report moves its task in the layer.                              *)
LEMMA CallsAlone ==
    ConnectionInit(ShadowCallbacks) \/ ThreadStep \/ ConnectionDrops
    \/ NetworkUp \/ RequestCleanup => UNCHANGED call
  BY DEF ConnectionInit, ThreadStep, ConnectionDrops, NetworkUp,
         RequestCleanup, CheckIdentifier, Initialize,
         EstablishMqttConnection, SetShadowCallbacks, PostReady, PostDelta,
         WaitCleanUp, DestroyCleanUp, DestroyDelta, Disconnect,
         CleanUpLibraries

(* Every step keeps a task in the layer for as long as it reports.         *)
LEMMA ReportsStep ==
    ASSUME Lab2Inv, [Next]_vars
    PROVE  ReportsInv'
<1>1. /\ LayerExists => LayerExists'
      /\ thread' \notin {"absent", "failed"} => LayerExists'
  BY Lab2UsesLayer, LayerStays DEF Lab2Inv, ReportsInv
<1> USE Lab2Clients, <1>1, BoundsAssumption
    DEF Lab2Inv, ReportsInv, ConnTypeOK, CallStates
<1> USE DEF lab2Vars, reportVars
<1> HIDE DEF LayerExists
<1>2. CASE NetworkConnected
  <2>1. LayerExists /\ connects' \in Nat /\ connects' > 0
    BY <1>2 DEF NetworkConnected
  <2>2. UNCHANGED <<report, call>>
    BY <1>2, CallsAlone DEF NetworkConnected, connVars
  <2> QED
    BY <2>1, <2>2
<1>3. CASE NetworkDisconnected
  <2>1. UNCHANGED <<report, call, connects>> /\ ~network'
    BY <1>3, CallsAlone DEF NetworkDisconnected
  <2> QED
    BY <2>1
<1>4. CASE Connection
  <2>1. UNCHANGED <<report, call, connects, network>>
    BY <1>4, CallsAlone DEF Connection
  <2> QED
    BY <2>1
<1>5. CASE TimerCallback
  <2>1. /\ UNCHANGED <<call, connects, network>>
        /\ LayerExists /\ Reporting("daemon", "idle", "read")
    BY <1>5 DEF TimerCallback, connVars
  <2> QED
    BY <2>1 DEF Reporting
<1>6. CASE DeltaCallback
  <2>1. /\ UNCHANGED <<call, connects, network>>
        /\ LayerExists
        /\ \E s \in {"idle", "read"} : Reporting("mqtt", "idle", s)
    BY <1>6 DEF DeltaCallback, connVars
  <2> QED
    BY <2>1 DEF Reporting
<1>7. ASSUME NEW u \in Updaters, Report(u)
      PROVE  ReportsInv'
  <2>1. CASE ReadState(u)
    <3>1. /\ UNCHANGED <<call, connects, network>>
          /\ Reporting(u, "read", "format")
      BY <2>1 DEF ReadState, connVars
    <3> QED
      BY <3>1 DEF Reporting
  <2>2. CASE FormatDocument(u)
    <3>1. /\ UNCHANGED <<connects, network>>
          /\ Reporting(u, "format", "send") /\ At(u, "out", "deltaWait")
      BY <2>2 DEF FormatDocument, CallUpdateShadow
    <3> QED
      BY <3>1 DEF Reporting, At
  <2>3. CASE TakeShadowDelta(u)
    <3>1. /\ UNCHANGED <<connects, network, report>>
          /\ At(u, "deltaWait", "update")
      BY <2>3 DEF TakeShadowDelta, DeltaTake
    <3> QED
      BY <3>1 DEF At
  <2>4. CASE UpdateAccepted(u) \/ UpdateFails(u)
    <3>1. /\ UNCHANGED <<connects, network>>
          /\ Reporting(u, "send", "idle") /\ At(u, "update", "out")
      BY <2>4 DEF UpdateAccepted, UpdateFails, UpdateReturns
    <3> QED
      BY <3>1 DEF Reporting, At
  <2> QED
    BY <1>7, <2>1, <2>2, <2>3, <2>4 DEF Report
<1>8. CASE UNCHANGED vars
  BY <1>8 DEF vars, connVars
<1> QED
  BY <1>2, <1>3, <1>4, <1>5, <1>6, <1>7, <1>8 DEF Next

(* The invariant of the program holds throughout.                          *)
LEMMA Lab2Invariant == Spec => []Lab2Inv
<1>1. ASSUME Lab2Inv, [Next]_vars PROVE Lab2Inv'
  <2>1. ConnTypeOK'
    BY <1>1, Lab2UsesLayer, ConnTypeStep DEF Lab2Inv
  <2> QED
    BY <1>1, <2>1, ReportsStep DEF Lab2Inv
<1> QED
  BY Lab2Initial, <1>1, PTL DEF Spec

(* Lab 2 is a client of the connection layer: however the timer, the       *)
(* deltas and the network interleave, the layer sees a behaviour it was    *)
(* specified for.                                                          *)
THEOREM Lab2ImplementsConnSpec == Spec => ConnSpec
<1>1. Init => ConnInit
  BY DEF Init
<1> QED
  BY Lab2Invariant, Lab2UsesLayer, <1>1, PTL DEF Spec, ConnSpec

(* In lab 2 the daemon and the MQTT task never send their updates at the   *)
(* same time while the semaphore exists, and what m5stickc_lab_run         *)
(* acquired is given back in order, also when the network comes and goes   *)
(* more than once.                                                         *)
THEOREM Lab2KeepsLayer ==
    Spec => /\ []UpdatesExclusive
            /\ []ConnectionWithinLibraries
            /\ []TornDownAtEnd
            /\ ImplementsLifecycle
  BY Lab2ImplementsConnSpec, UpdatesAreExclusive, ConnectionHasLibraries,
     EndsTornDown, LayerImplementsLifecycle
=============================================================================
