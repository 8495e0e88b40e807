---------------------------- MODULE LabConnection ----------------------------
(***************************************************************************)
(* The shared connection layer of the labs, m5stickc_lab_connection.c:     *)
(* one detached thread that brings the MQTT and Shadow libraries and one   *)
(* MQTT connection up, waits for a clean up signal and tears everything    *)
(* down again, and the calls the rest of the program makes meanwhile from  *)
(* other tasks.  The tasks meet at three binary semaphores:                *)
(*                                                                         *)
(*   connectionReady  a turnstile, posted once the attempt is over         *)
(*   cleanUpReady     posted by whoever wants the connection down          *)
(*   shadowDelta      held around a Shadow update                          *)
(*                                                                         *)
(* The lab modules extend this one and drive its actions from the button   *)
(* handler, the timer daemon and the MQTT callbacks; ConnSpec below drives *)
(* them from clients that call in any order the labs can.                  *)
(***************************************************************************)
EXTENDS Naturals

CONSTANTS
    Publishers,   \* tasks that run m5stickc_lab1_action
    Updaters      \* tasks that run _reportShadow

Clients == Publishers \cup Updaters

ASSUME RolesAssumption == Publishers \cap Updaters = {}

VARIABLES
    sem,           \* state of each semaphore
    thread,        \* where the detached thread is
    handle,        \* _mqttConnection is still NULL, or was set by a connect
    conn,          \* the connection object behind the handle
    established,   \* connectionEstablished
    libsInit,      \* librariesInitialized of m5stickc_lab_run
    libs,          \* libraries that are initialised
    callbacks,     \* Shadow callbacks that are registered
    params,        \* Shadow callbacks _pConnectionParams holds, not NULL
    call           \* where each client is inside this layer

resourceVars ==
    <<handle, conn, established, libsInit, libs, callbacks, params>>
connVars == <<sem, thread, resourceVars, call>>

ShadowCallbacks == {"delta", "updated"}

Semaphores == {"connectionReady", "cleanUpReady", "shadowDelta"}
SemStates  == {"none", "empty", "full", "destroyed"}
Libraries  == {"mqtt", "shadow"}

ThreadStates ==
    {"absent", "failed", "network", "start", "initialize", "connect",
     "callbacks", "postReady", "postDelta", "waitCleanUp", "destroyCleanUp",
     "destroyDelta", "disconnect", "cleanup", "ended"}

CallStates == {"out", "readyWait", "readyPost", "ready", "publish",
               "deltaWait", "update"}

ConnTypeOK ==
    /\ sem \in [Semaphores -> SemStates]
    /\ thread \in ThreadStates
    /\ handle \in {"NULL", "set"}
    /\ conn \in {"none", "open", "dropped", "freed"}
    /\ established \in BOOLEAN
    /\ libsInit \in BOOLEAN
    /\ libs \subseteq Libraries
    /\ callbacks \subseteq ShadowCallbacks
    /\ params \subseteq ShadowCallbacks
    /\ call \in [Clients -> CallStates]

ConnInit ==
    /\ sem = [s \in Semaphores |-> "none"]
    /\ thread = "absent"
    /\ handle = "NULL"
    /\ conn = "none"
    /\ established = FALSE
    /\ libsInit = FALSE
    /\ libs = {}
    /\ callbacks = {}
    /\ params = {}
    /\ call = [c \in Clients |-> "out"]

-----------------------------------------------------------------------------
(* Binary semaphores of the platform layer.  A post on a full semaphore is *)
(* lost.  What an operation on a destroyed semaphore does is not defined:  *)
(* a post changes nothing, a wait may return or may block for ever.        *)

Created(s) == sem[s] # "none"

CanTake(s) == sem[s] \in {"full", "destroyed"}

Take(s) == sem' = [sem EXCEPT ![s] = IF @ = "full" THEN "empty" ELSE @]

Post(s) == sem' = [sem EXCEPT ![s] = IF @ = "empty" THEN "full" ELSE @]

Destroy(s) == sem' = [sem EXCEPT ![s] = "destroyed"]

Goto(t) == thread' = t

At(c, from, to) == call[c] = from /\ call' = [call EXCEPT ![c] = to]

CreationOrder == [connectionReady |-> 1, cleanUpReady |-> 2, shadowDelta |-> 3]

(* m5stickc_lab_connection_init with the parameters of the lab: the three  *)
(* semaphores and the thread are created in order and the first failure    *)
(* stops the rest.                                                         *)
ConnectionInit(given) ==
    /\ thread = "absent"
    /\ params' = given
    /\ \E created \in 0..4 :
         /\ sem' = [s \in Semaphores |->
                      IF CreationOrder[s] <= created THEN "empty" ELSE "none"]
         /\ Goto(IF created = 4 THEN "network" ELSE "failed")
    /\ UNCHANGED <<handle, conn, established, libsInit, libs, callbacks, call>>

(* runDemoTask (external) waits for a network and calls m5stickc_lab_run.  *)
NetworkUp ==
    /\ thread = "network"
    /\ Goto("start")
    /\ UNCHANGED <<sem, resourceVars, call>>

-----------------------------------------------------------------------------
(* m5stickc_lab_run                                                        *)

CheckIdentifier ==
    /\ thread = "start"
    /\ established' = FALSE
    /\ libsInit' = FALSE
    /\ \E identifierGiven \in BOOLEAN :
         Goto(IF identifierGiven THEN "initialize" ELSE "postReady")
    /\ UNCHANGED <<sem, handle, conn, libs, callbacks, call, params>>

(* mutant: a Shadow library that fails leaves the MQTT library up.         *)
ForgottenMqttCleanup(mqttOk, shadowOk) ==
    {lib \in Libraries : mqttOk /\ (lib = "shadow" => shadowOk)}

(* The libraries that are up when _initialize returns.                     *)
InitializedLibs(mqttOk, shadowOk) ==
    IF mqttOk /\ shadowOk THEN Libraries ELSE {}

Initialize ==
    /\ thread = "initialize"
    /\ \E mqttOk, shadowOk \in BOOLEAN :
         /\ libs' = InitializedLibs(mqttOk, shadowOk)
         /\ libsInit' = (mqttOk /\ shadowOk)
         /\ Goto(IF mqttOk /\ shadowOk THEN "connect" ELSE "postReady")
    /\ UNCHANGED <<sem, handle, conn, established, callbacks, call, params>>

(* _establishMqttConnection writes _mqttConnection only when it succeeds.  *)
EstablishMqttConnection ==
    /\ thread = "connect"
    /\ \/ /\ handle' = "set"
          /\ conn' = "open"
          /\ Goto("callbacks")
       \/ /\ Goto("postReady")
          /\ UNCHANGED <<handle, conn>>
    /\ UNCHANGED <<sem, established, libsInit, libs, callbacks, call, params>>

(* _setShadowCallbacks: the updated callback is set only after the delta   *)
(* callback was set without error.                                         *)
RegisteredCallbacks(deltaOk, updatedOk) ==
    {cb \in params : /\ "delta" \in params /\ deltaOk
                     /\ cb = "updated" => updatedOk}

SetShadowCallbacks ==
    /\ thread = "callbacks"
    /\ established' = TRUE
    /\ \E deltaOk, updatedOk \in BOOLEAN :
         callbacks' = RegisteredCallbacks(deltaOk, updatedOk)
    /\ Goto("postReady")
    /\ UNCHANGED <<sem, handle, conn, libsInit, libs, call, params>>

PostReady ==
    /\ thread = "postReady"
    /\ Post("connectionReady")
    /\ Goto("postDelta")
    /\ UNCHANGED <<resourceVars, call>>

(* mutant: clean up requests from before the connection are discarded.     *)
DiscardEarlyCleanup ==
    /\ thread = "postDelta"
    /\ sem' = [sem EXCEPT !["shadowDelta"] = "full",
                           !["cleanUpReady"] = "empty"]
    /\ Goto("waitCleanUp")
    /\ UNCHANGED <<resourceVars, call>>

PostDelta ==
    /\ thread = "postDelta"
    /\ Post("shadowDelta")
    /\ Goto("waitCleanUp")
    /\ UNCHANGED <<resourceVars, call>>

WaitCleanUp ==
    /\ thread = "waitCleanUp"
    /\ CanTake("cleanUpReady")
    /\ Take("cleanUpReady")
    /\ Goto("destroyCleanUp")
    /\ UNCHANGED <<resourceVars, call>>

DestroyCleanUp ==
    /\ thread = "destroyCleanUp"
    /\ Destroy("cleanUpReady")
    /\ Goto("destroyDelta")
    /\ UNCHANGED <<resourceVars, call>>

(* mutant: the libraries are cleaned up without disconnecting.             *)
SkipDisconnect ==
    /\ thread = "destroyDelta"
    /\ Destroy("shadowDelta")
    /\ Goto("cleanup")
    /\ UNCHANGED <<resourceVars, call>>

DestroyDelta ==
    /\ thread = "destroyDelta"
    /\ Destroy("shadowDelta")
    /\ Goto("disconnect")
    /\ UNCHANGED <<resourceVars, call>>

(* IotMqtt_Disconnect frees the connection; _mqttConnection keeps its      *)
(* value.  The registered callbacks go with the subscriptions.             *)
Disconnect ==
    /\ thread = "disconnect"
    /\ IF established
         THEN conn' = "freed" /\ established' = FALSE /\ callbacks' = {}
         ELSE UNCHANGED <<conn, established, callbacks>>
    /\ Goto("cleanup")
    /\ UNCHANGED <<sem, handle, libsInit, libs, call, params>>

CleanUpLibraries ==
    /\ thread = "cleanup"
    /\ libs' = IF libsInit THEN {} ELSE libs
    /\ Goto("ended")
    /\ UNCHANGED <<sem, handle, conn, established, libsInit, callbacks, call,
                   params>>

(* The network goes away under the connection (external); the handle stays *)
(* valid until IotMqtt_Disconnect.                                         *)
ConnectionDrops ==
    /\ conn = "open"
    /\ conn' = "dropped"
    /\ UNCHANGED <<sem, thread, handle, established, libsInit, libs,
                   callbacks, call, params>>

ThreadStep ==
    \/ CheckIdentifier \/ Initialize \/ EstablishMqttConnection
    \/ SetShadowCallbacks \/ PostReady \/ PostDelta \/ WaitCleanUp
    \/ DestroyCleanUp \/ DestroyDelta \/ Disconnect \/ CleanUpLibraries

-----------------------------------------------------------------------------
(* The calls of the other tasks                                            *)

threadVars == <<thread, resourceVars>>

(* m5stickc_lab_connection_ready_wait: wait, then post for the next task.  *)
CallReadyWait(c) ==
    /\ At(c, "out", "readyWait")
    /\ UNCHANGED <<sem, threadVars>>

(* mutant: a wait that does not block.                                     *)
ReadyTakeEarly(c) ==
    /\ At(c, "readyWait", "readyPost")
    /\ Take("connectionReady")
    /\ UNCHANGED threadVars

ReadyTake(c) ==
    /\ At(c, "readyWait", "readyPost")
    /\ CanTake("connectionReady")
    /\ Take("connectionReady")
    /\ UNCHANGED threadVars

(* mutant: the token is kept.                                              *)
ReadyPostForgotten(c) ==
    /\ At(c, "readyPost", "ready")
    /\ UNCHANGED <<sem, threadVars>>

ReadyPost(c) ==
    /\ At(c, "readyPost", "ready")
    /\ Post("connectionReady")
    /\ UNCHANGED threadVars

(* m5stickc_lab_connection_publish tests the handle first ...              *)
PublishCheck(c) ==
    /\ At(c, "ready", IF handle = "NULL" THEN "out" ELSE "publish")
    /\ UNCHANGED <<sem, threadVars>>

(* ... and hands the message to the library if it was set.                 *)
Publish(c) ==
    /\ At(c, "publish", "out")
    /\ UNCHANGED <<sem, threadVars>>

(* m5stickc_lab_connection_update_shadow                                   *)
CallUpdateShadow(c) ==
    /\ At(c, "out", "deltaWait")
    /\ UNCHANGED <<sem, threadVars>>

DeltaTake(c) ==
    /\ At(c, "deltaWait", "update")
    /\ CanTake("shadowDelta")
    /\ Take("shadowDelta")
    /\ UNCHANGED threadVars

(* mutant: an early return without the post.                               *)
UpdateKeepsDelta(c) ==
    /\ At(c, "update", "out")
    /\ UNCHANGED <<sem, threadVars>>

UpdateReturns(c) ==
    /\ At(c, "update", "out")
    /\ Post("shadowDelta")
    /\ UNCHANGED threadVars

(* m5stickc_lab_connection_cleanup, on a semaphore that was created.       *)
RequestCleanup ==
    /\ Created("cleanUpReady")
    /\ Post("cleanUpReady")
    /\ UNCHANGED <<threadVars, call>>

PublisherStep(c) ==
    \/ CallReadyWait(c) \/ ReadyTake(c) \/ ReadyPost(c)
    \/ PublishCheck(c) \/ Publish(c)

UpdaterStep(c) == CallUpdateShadow(c) \/ DeltaTake(c) \/ UpdateReturns(c)

(* The labs call ready_wait only when connection_init has returned, but do *)
(* not ask whether it succeeded: where it created no semaphore the wait    *)
(* never ends (configASSERT stops the device).                             *)
ConnNext ==
    \/ \E given \in SUBSET ShadowCallbacks : ConnectionInit(given)
    \/ NetworkUp
    \/ ThreadStep
    \/ ConnectionDrops
    \/ \E c \in Publishers : thread # "absent" /\ PublisherStep(c)
    \/ \E c \in Updaters : Created("shadowDelta") /\ UpdaterStep(c)
    \/ RequestCleanup

ConnSpec == ConnInit /\ [][ConnNext]_connVars

(* The thread and the callers run whenever they can, IotMqtt_Connect and   *)
(* the Shadow calls return by their timeout, and a task that waits for a   *)
(* semaphore gets it when it is posted again and again: FreeRTOS wakes     *)
(* waiting tasks of one priority in the order they came.  Nothing makes    *)
(* the network come up or anyone call.                                     *)
ConnFairness ==
    /\ WF_connVars(ThreadStep)
    /\ \A c \in Publishers :
         /\ SF_connVars(ReadyTake(c))
         /\ WF_connVars(ReadyPost(c) \/ PublishCheck(c) \/ Publish(c))
    /\ \A c \in Updaters :
         /\ SF_connVars(DeltaTake(c))
         /\ WF_connVars(UpdateReturns(c))

ConnFairSpec == ConnSpec /\ ConnFairness

-----------------------------------------------------------------------------
(* What the layer guarantees                                               *)

Settled == {"postDelta", "waitCleanUp", "destroyCleanUp", "destroyDelta",
            "disconnect", "cleanup", "ended"}

(* The turnstile of ready_wait: from the post of m5stickc_lab_run on there *)
(* is exactly one token, in the semaphore or in the hands of one client    *)
(* that is about to post it back, and before it there is none.             *)
Turnstile ==
    /\ \A c, d \in Publishers :
         call[c] = "readyPost" /\ call[d] = "readyPost" => c = d
    /\ (\E c \in Publishers : call[c] = "readyPost") =>
         sem["connectionReady"] = "empty"
    /\ thread \in Settled =>
         \/ sem["connectionReady"] = "full"
         \/ \E c \in Publishers : call[c] = "readyPost"
    /\ thread \notin Settled => sem["connectionReady"] # "full"

(* Nobody is past ready_wait before the connection attempt is over.        *)
ReadyMeansSettled ==
    \A c \in Publishers :
        call[c] \in {"readyPost", "ready", "publish"} => thread \in Settled

(* As long as shadowDelta exists at most one task is in a Shadow update.   *)
UpdatesExclusive ==
    sem["shadowDelta"] # "destroyed" =>
        \A c, d \in Updaters :
            call[c] = "update" /\ call[d] = "update" => c = d

(* A connection exists only while both libraries are initialised: they are *)
(* initialised first and cleaned up last, on every path of lab_run.        *)
ConnectionWithinLibraries ==
    conn \in {"open", "dropped"} => libs = Libraries

(* Whatever failed on the way, when lab_run returns the connection is gone *)
(* and no library is left initialised.                                     *)
TornDownAtEnd ==
    thread = "ended" =>
        /\ conn \in {"none", "freed"}
        /\ ~established
        /\ libs = {}

(* Once the attempt is over every client that waits for it goes on: the    *)
(* single token is passed to all of them.                                  *)
WaitersReleased ==
    \A c \in Publishers :
        (thread \in Settled /\ call[c] = "readyWait") ~> call[c] = "out"

(* A clean up request that arrives while the layer comes up or is up is    *)
(* never lost: the layer is torn down.                                     *)
CleanupHonoured ==
    (sem["cleanUpReady"] = "full" /\ thread \notin {"failed", "network"}) ~>
        thread = "ended"

(* The layer implements the lifecycle it promises.                         *)
Phase ==
    CASE thread = "ended" -> "ended"
      [] thread \in Settled \ {"ended"} -> "settled"
      [] OTHER -> "attempting"

Resources ==
    CASE conn \in {"open", "dropped"} -> "connection"
      [] conn \notin {"open", "dropped"} /\ libs # {} -> "libraries"
      [] OTHER -> "nothing"

Lifecycle == INSTANCE ConnectionLifecycle WITH
    Clients <- Publishers,
    phase <- Phase,
    resources <- Resources,
    inside <- {c \in Publishers :
                 call[c] \in {"readyPost", "ready", "publish"}}

ImplementsLifecycle == Lifecycle!LifecycleSpec
=============================================================================
