---------------------------- MODULE Device_proofs ----------------------------
(***************************************************************************)
(* Proofs about the program of the device: the demo program from boot to   *)
(* deep sleep with its button, its sleep timer and the connection layer it *)
(* uses, for every build, sleep period and number of presses; the texts,   *)
(* the input and the air conditioner of Device; and the acknowledger of    *)
(* smartconfig, for any number of calls and of ACKs per call.              *)
(***************************************************************************)
EXTENDS M5Demo, Device, SmartConfigAck, LabConnection_proofs,
        FiniteSetTheorems, SequenceTheorems, WellFoundedInduction

-----------------------------------------------------------------------------
(* The demo program                                                        *)

MainStates == {"boot", "failed", "lab0Early", "lab2Init", "registerA",
               "registerB", "createSem", "postSem", "lab1Init", "takeSem",
               "giveSem", "lab0Init", "done"}
LoopStates == {"idle", "reset", "takeSem", "giveSem", "resetAfter"}
DaemonStates == {"idle", "takeSem", "cleanUp", "enableWakeup", "powerDown"}

(* The values the variables of the program itself can have.                *)
DemoTypeOK ==
    /\ main \in MainStates
    /\ loop \in LoopStates
    /\ daemon \in DaemonStates
    /\ lab1Sem \in {"none", "empty", "full"}
    /\ handlers \in {{}, {"A"}, {"A", "B"}}
    /\ queued \in Nat
    /\ presses \in Nat
    /\ xSleepTimer \in {0} \cup Timers
    /\ left \in [Timers -> 0..SleepTicks]
    /\ due \in Nat
    /\ idleFor \in 0..SleepTicks
    /\ build \in {"LAB0", "LAB1", "LAB2"}
    /\ woken \in BOOLEAN
    /\ device \in {"on", "asleep", "restarted", "panic"}

(* What m5stickc_demo_init has done wherever it is: which step belongs to  *)
(* which build, how many timers exist, and that no event reaches the       *)
(* handler before it is registered.                                        *)
StartUpOrder ==
    /\ main \in {"boot", "lab0Early", "lab2Init"} => xSleepTimer = 0
    /\ main # "done" => xSleepTimer \in {0, 1}
    /\ build # "LAB0" /\ main # "done" => xSleepTimer = 0
    /\ build = "LAB0" /\ main \notin {"boot", "lab0Early", "failed"} =>
         xSleepTimer # 0
    /\ build = "LAB0" /\ handlers # {} => xSleepTimer # 0
    /\ main = "lab0Early" => build = "LAB0"
    /\ main = "lab2Init" => build = "LAB2"
    /\ main \in {"createSem", "postSem"} => build # "LAB0"
    /\ main \in {"lab1Init", "takeSem", "giveSem"} => build = "LAB1"
    /\ main \in {"boot", "lab0Early", "lab2Init", "registerA"} => handlers = {}
    /\ handlers = {} => queued = 0 /\ loop = "idle"

(* Which tasks may be inside the connection layer, and when it exists: lab *)
(* 2 creates it before it registers a handler; in lab 1 an event gets past *)
(* the reset of the sleep timer only when the start-up is over.  A task    *)
(* calls the layer only while it has lab1Sem.                              *)
LayerInUse ==
    /\ main \in {"boot", "lab2Init"} => thread = "absent"
    /\ build = "LAB1" /\ main \in {"registerA", "registerB", "createSem",
                                   "postSem", "lab1Init"} => thread = "absent"
    /\ build = "LAB1" /\ main \in {"takeSem", "giveSem", "lab0Init", "done"} =>
         thread # "absent"
    /\ build = "LAB2" /\ main \notin {"boot", "lab2Init", "failed"} =>
         thread # "absent"
    /\ build = "LAB2" /\ handlers # {} => thread # "absent"
    /\ build = "LAB0" => loop \in {"idle", "resetAfter"}
    /\ device = "on" /\ build = "LAB1" /\ loop \in {"takeSem", "giveSem"} =>
         xSleepTimer # 0
    /\ call["main"] # "out" => main = "giveSem"
    /\ call["loop"] # "out" => loop = "giveSem"

(* A timer that was not created does not run and has no callback to make;  *)
(* what the current one has left and how long no event came make the whole *)
(* period.                                                                 *)
TimersInv ==
    /\ \A t \in Timers : t > xSleepTimer => left[t] = 0
    /\ xSleepTimer = 0 => due = 0 /\ daemon = "idle"
    /\ xSleepTimer # 0 /\ left[xSleepTimer] > 0 =>
         left[xSleepTimer] + idleFor = SleepTicks

(* In the button build lab1Sem has one token from its post on: in the      *)
(* semaphore, with the task that is inside lab1_action, or with the sleep  *)
(* callback, which never gives it back.                                    *)
ActionToken ==
    build = "LAB1" =>
      /\ main = "postSem" => lab1Sem = "empty"
      /\ main = "giveSem" => lab1Sem = "empty" /\ loop # "giveSem"
      /\ loop = "giveSem" => lab1Sem = "empty"
      /\ GoingDown => main = "done" /\ loop # "giveSem" /\ lab1Sem = "empty"

DemoInv ==
    /\ ConnTypeOK
    /\ DemoTypeOK
    /\ StartUpOrder
    /\ LayerInUse
    /\ TimersInv
    /\ ActionToken

(* The tasks of the program are the clients of the layer.                  *)
LEMMA DemoClients ==
    /\ Publishers = {"main", "loop"}
    /\ Updaters = {}
    /\ Clients = {"main", "loop"}
  BY TasksAssumption DEF Clients

(* Nothing runs at boot.                                                   *)
LEMMA DemoInitial == Init => DemoInv
<1> SUFFICES ASSUME Init PROVE DemoInv
  OBVIOUS
<1>1. ConnTypeOK
  BY ConnTypeInit DEF Init
<1>2. DemoTypeOK
  BY BuildsAssumption, SleepTicksAssumption
     DEF Init, DemoTypeOK, MainStates, LoopStates, DaemonStates, Timers
<1>3. StartUpOrder /\ LayerInUse
  BY DemoClients DEF Init, ConnInit, StartUpOrder, LayerInUse
<1>4. TimersInv
  BY DEF Init, TimersInv, Timers
<1>5. ActionToken
  BY DEF Init, ConnInit, ActionToken, GoingDown, Semaphores, Settled
<1> QED
  BY <1>1, <1>2, <1>3, <1>4, <1>5 DEF DemoInv

(* Whatever the program does to the connection layer, a client of the      *)
(* layer may do.                                                           *)
LEMMA DemoUsesLayer ==
    ASSUME DemoInv, [Next]_vars
    PROVE  [ConnNext]_connVars
<1> USE DEF DemoInv
<1>1. CASE MainStep
  <2>1. CASE Lab2Init \/ Lab1Init
    <3>1. {} \in SUBSET ShadowCallbacks
      OBVIOUS
    <3> QED
      BY <2>1, <3>1 DEF Lab2Init, Lab1Init, ConnNext
  <2>2. CASE MainTakeSem
    <3>1. thread # "absent"
      BY <2>2 DEF MainTakeSem, MainGoto, StartUpOrder, LayerInUse
    <3> QED
      BY <2>2, <3>1, DemoClients DEF MainTakeSem, ConnNext, PublisherStep
  <2> QED
    BY <1>1, <2>1, <2>2
       DEF MainStep, InitHardware, Lab0Early, RegisterA, RegisterB,
           CreateLab1Sem, PostLab1Sem, MainGiveSem, Lab0InitLast
<1>2. CASE LoopStep /\ device = "on"
  <2>1. CASE LoopTakeSem
    <3>1. thread # "absent"
      BY <1>2, <2>1
         DEF LoopTakeSem, LoopGoto, DemoTypeOK, StartUpOrder, LayerInUse
    <3> QED
      BY <2>1, <3>1, DemoClients DEF LoopTakeSem, ConnNext, PublisherStep
  <2> QED
    BY <1>2, <2>1
       DEF LoopStep, HandlerStarts, LoopReset, LoopGiveSem, LoopResetAfter
<1>3. CASE DaemonStep
  BY <1>3 DEF DaemonStep, SleepTimerCallback, DaemonTakeSem, DaemonCleanUp,
              EnableWakeup, PowerDown, ConnNext
<1>4. CASE ConnectionStep
  BY <1>4 DEF ConnectionStep, Lab2NetworkDisconnected, ConnNext
<1>5. ASSUME NEW c \in Publishers, Lab1Action(c), device = "on"
      PROVE  [ConnNext]_connVars
  <2>1. CASE UNCHANGED connVars
    BY <2>1
  <2>2. CASE PublisherStep(c) /\ call[c] # "out"
    <3>1. main = "giveSem" \/ loop = "giveSem"
      BY <2>2, DemoClients DEF LayerInUse
    <3>2. thread # "absent"
      BY <1>5, <3>1 DEF DemoTypeOK, StartUpOrder, LayerInUse
    <3> QED
      BY <2>2, <3>2 DEF ConnNext
  <2> QED
    BY <1>5, <2>1, <2>2
       DEF Lab1Action, PublisherStep, ReadyTake, ReadyPost, PublishCheck,
           Publish, At
<1>6. CASE Press \/ ButtonBHold \/ Tick
  BY <1>6 DEF Press, ButtonBHold, Tick
<1>7. CASE UNCHANGED vars
  BY <1>7 DEF vars
<1> QED
  BY <1>1, <1>2, <1>3, <1>4, <1>5, <1>6, <1>7 DEF Next

(* The program keeps the types of its variables; a timer is created only   *)
(* twice.                                                                  *)
LEMMA DemoTypeStep ==
    ASSUME DemoInv, [Next]_vars
    PROVE  DemoTypeOK'
<1> USE DEF DemoInv, DemoTypeOK, MainStates, LoopStates, DaemonStates,
            mainVars, bootVars, timerVars, demoVars
<1>1. CASE MainStep
  <2>1. CASE InitHardware \/ Lab2Init \/ RegisterA \/ RegisterB
    BY <2>1 DEF InitHardware, Lab2Init, RegisterA, RegisterB, MainGoto,
                StartUpOrder
  <2>2. CASE Lab0Early \/ Lab0InitLast
    <3>1. xSleepTimer \in {0, 1}
      BY <2>2 DEF Lab0Early, Lab0InitLast, MainGoto, StartUpOrder
    <3>2. xSleepTimer + 1 \in Timers
      BY <3>1 DEF Timers
    <3>3. SleepTicks \in 0..SleepTicks /\ 0 \in 0..SleepTicks
      BY SleepTicksAssumption
    <3>4. left' \in [Timers -> 0..SleepTicks]
      BY <2>2, <3>2, <3>3 DEF Lab0Early, Lab0InitLast, Lab0Init
    <3> QED
      BY <2>2, <3>2, <3>3, <3>4
         DEF Lab0Early, Lab0InitLast, Lab0Init, MainGoto
  <2>3. CASE CreateLab1Sem \/ PostLab1Sem
    BY <2>3 DEF CreateLab1Sem, PostLab1Sem, GiveLab1, MainGoto
  <2>4. CASE Lab1Init \/ MainTakeSem \/ MainGiveSem
    BY <2>4 DEF Lab1Init, MainTakeSem, MainGiveSem, TakeLab1, GiveLab1,
                MainGoto
  <2> QED
    BY <1>1, <2>1, <2>2, <2>3, <2>4 DEF MainStep
<1>2. CASE LoopStep
  <2>1. CASE HandlerStarts
    BY <2>1 DEF HandlerStarts, LoopGoto
  <2>2. CASE LoopReset \/ LoopResetAfter
    <3>1. SleepTicks \in 0..SleepTicks /\ 0 \in 0..SleepTicks
      BY SleepTicksAssumption
    <3>2. left' \in [Timers -> 0..SleepTicks]
      BY <2>2, <3>1 DEF LoopReset, LoopResetAfter, Lab0Event
    <3> QED
      BY <2>2, <3>1, <3>2 DEF LoopReset, LoopResetAfter, Lab0Event, LoopGoto
  <2>3. CASE LoopTakeSem
    BY <2>3 DEF LoopTakeSem, TakeLab1
  <2>4. CASE LoopGiveSem
    BY <2>4 DEF LoopGiveSem, GiveLab1, LoopGoto
  <2> QED
    BY <1>2, <2>1, <2>2, <2>3, <2>4 DEF LoopStep
<1>3. CASE DaemonStep
  <2>1. CASE SleepTimerCallback
    BY <2>1 DEF SleepTimerCallback, DaemonGoto
  <2>2. CASE DaemonTakeSem
    BY <2>2 DEF DaemonTakeSem, TakeLab1
  <2>3. CASE DaemonCleanUp \/ EnableWakeup \/ PowerDown
    BY <2>3 DEF DaemonCleanUp, EnableWakeup, PowerDown, DaemonGoto
  <2> QED
    BY <1>3, <2>1, <2>2, <2>3 DEF DaemonStep
<1>4. CASE ConnectionStep
  BY <1>4 DEF ConnectionStep
<1>5. CASE \E c \in Publishers : Lab1Action(c)
  BY <1>5 DEF Lab1Action
<1>6. CASE Press \/ ButtonBHold
  BY <1>6 DEF Press, ButtonBHold
<1>7. CASE Tick
  <2>1. left' \in [Timers -> 0..SleepTicks]
    BY <1>7, SleepTicksAssumption DEF Tick
  <2>2. Cardinality({t \in Timers : left[t] = 1}) \in Nat
    <3>1. IsFiniteSet(Timers)
      <4>1. IsFiniteSet({1} \cup {2})
        BY FS_Singleton, FS_AddElement
      <4>2. Timers = {1} \cup {2}
        BY DEF Timers
      <4> QED
        BY <4>1, <4>2
    <3>2. IsFiniteSet({t \in Timers : left[t] = 1})
      BY <3>1, FS_Subset
    <3> QED
      BY <3>2, FS_CardinalityType
  <2>3. idleFor' \in 0..SleepTicks
    BY <1>7, SleepTicksAssumption DEF Tick
  <2> QED
    BY <1>7, <2>1, <2>2, <2>3 DEF Tick
<1>8. CASE UNCHANGED vars
  BY <1>8 DEF vars
<1> QED
  BY <1>1, <1>2, <1>3, <1>4, <1>5, <1>6, <1>7, <1>8 DEF Next

(* The start-up keeps its order: nothing else creates a timer, registers a *)
(* handler or moves main.                                                  *)
LEMMA StartUpStep ==
    ASSUME DemoInv, [Next]_vars
    PROVE  StartUpOrder'
<1> USE DEF DemoInv, DemoTypeOK, StartUpOrder, mainVars, bootVars, timerVars,
            demoVars
<1>1. CASE MainStep
  <2>1. CASE InitHardware \/ Lab2Init \/ RegisterA \/ RegisterB
    BY <2>1 DEF InitHardware, Lab2Init, RegisterA, RegisterB, MainGoto,
                MainStates
  <2>2. CASE Lab0Early \/ Lab0InitLast
    BY <2>2 DEF Lab0Early, Lab0InitLast, Lab0Init, MainGoto
  <2>3. CASE CreateLab1Sem \/ PostLab1Sem
    BY <2>3 DEF CreateLab1Sem, PostLab1Sem, MainGoto
  <2>4. CASE Lab1Init \/ MainTakeSem \/ MainGiveSem
    BY <2>4 DEF Lab1Init, MainTakeSem, MainGiveSem, MainGoto
  <2> QED
    BY <1>1, <2>1, <2>2, <2>3, <2>4 DEF MainStep
<1>2. CASE LoopStep
  BY <1>2 DEF LoopStep, HandlerStarts, LoopReset, LoopResetAfter, Lab0Event,
              LoopTakeSem, LoopGiveSem, LoopGoto
<1>3. CASE DaemonStep
  BY <1>3 DEF DaemonStep, SleepTimerCallback, DaemonTakeSem, DaemonCleanUp,
              EnableWakeup, PowerDown
<1>4. CASE ConnectionStep \/ \E c \in Publishers : Lab1Action(c)
  BY <1>4 DEF ConnectionStep, Lab1Action
<1>5. CASE Press \/ ButtonBHold \/ Tick
  BY <1>5 DEF Press, ButtonBHold, Tick
<1>6. CASE UNCHANGED vars
  BY <1>6 DEF vars
<1> QED
  BY <1>1, <1>2, <1>3, <1>4, <1>5, <1>6 DEF Next

(* Outside of the calls, the layer moves its thread, which never goes back *)
(* to where it does not exist, and calls no client.                        *)
LEMMA LayerByItself ==
    ASSUME ConnectionStep
    PROVE  /\ UNCHANGED <<call, demoVars>>
           /\ thread = "absent" <=> thread' = "absent"
  BY DEF ConnectionStep, NetworkUp, ThreadStep, CheckIdentifier, Initialize,
         EstablishMqttConnection, SetShadowCallbacks, PostReady, PostDelta,
         WaitCleanUp, DestroyCleanUp, DestroyDelta, Disconnect,
         CleanUpLibraries, ConnectionDrops, Lab2NetworkDisconnected,
         RequestCleanup, Goto, threadVars, resourceVars

(* A call of lab1_action moves nothing but its own place in the layer, and *)
(* semaphores of the layer.                                                *)
LEMMA ActionFrame ==
    ASSUME ConnTypeOK, NEW c \in Publishers, Lab1Action(c)
    PROVE  /\ UNCHANGED <<main, handlers, loop, daemon, lab1Sem, queued,
                          presses, timerVars, bootVars, thread>>
           /\ call[c] = "out" => call' = call
           /\ \A d \in Publishers \ {c} : call'[d] = call[d]
           /\ sem'["cleanUpReady"] = sem["cleanUpReady"]
  BY DemoClients
     DEF ConnTypeOK, Lab1Action, mainVars, connVars, threadVars, ReadyTake,
         ReadyPost, PublishCheck, Publish, At, Take, Post, Semaphores

(* Who is inside the layer changes only with lab1Sem in hand.              *)
LEMMA LayerInUseStep ==
    ASSUME DemoInv, [Next]_vars
    PROVE  LayerInUse'
<1> USE DEF DemoInv, DemoTypeOK, LayerInUse, mainVars, bootVars, timerVars,
            demoVars, connVars
<1>1. CASE MainStep
  <2>1. CASE InitHardware \/ RegisterA \/ RegisterB
    BY <2>1 DEF InitHardware, RegisterA, RegisterB, MainGoto, MainStates,
                StartUpOrder
  <2>2. CASE Lab0Early \/ Lab0InitLast
    BY <2>2 DEF Lab0Early, Lab0InitLast, Lab0Init, MainGoto, StartUpOrder
  <2>3. CASE CreateLab1Sem \/ PostLab1Sem
    BY <2>3 DEF CreateLab1Sem, PostLab1Sem, MainGoto, StartUpOrder
  <2>4. CASE Lab1Init \/ Lab2Init
    BY <2>4 DEF Lab1Init, Lab2Init, ConnectionInit, Goto, MainGoto,
                StartUpOrder
  <2>5. CASE MainTakeSem
    BY <2>5, DemoClients
       DEF MainTakeSem, MainGoto, CallReadyWait, At, threadVars, ConnTypeOK,
           StartUpOrder
  <2>6. CASE MainGiveSem
    BY <2>6 DEF MainGiveSem, MainGoto, StartUpOrder
  <2> QED
    BY <1>1, <2>1, <2>2, <2>3, <2>4, <2>5, <2>6 DEF MainStep
<1>2. CASE LoopStep
  <2>1. CASE HandlerStarts \/ LoopReset \/ LoopResetAfter \/ LoopGiveSem
    BY <2>1 DEF HandlerStarts, LoopReset, LoopResetAfter, LoopGiveSem,
                Lab0Event, LoopGoto, StartUpOrder
  <2>2. CASE LoopTakeSem
    BY <2>2, DemoClients
       DEF LoopTakeSem, CallReadyWait, At, threadVars, ConnTypeOK, StartUpOrder
  <2> QED
    BY <1>2, <2>1, <2>2 DEF LoopStep
<1>3. CASE DaemonStep
  BY <1>3 DEF DaemonStep, SleepTimerCallback, DaemonTakeSem, DaemonCleanUp,
              EnableWakeup, PowerDown, RequestCleanup, threadVars
<1>4. CASE ConnectionStep
  BY <1>4, LayerByItself
<1>5. ASSUME NEW c \in Publishers, Lab1Action(c), device = "on"
      PROVE  LayerInUse'
  BY <1>5, ActionFrame, DemoClients
<1>6. CASE Press \/ ButtonBHold \/ Tick
  BY <1>6 DEF Press, ButtonBHold, Tick
<1>7. CASE UNCHANGED vars
  BY <1>7 DEF vars
<1> QED
  BY <1>1, <1>2, <1>3, <1>4, <1>5, <1>6, <1>7 DEF Next

(* No timer that does not exist runs, and what is left of the current one  *)
(* shrinks with the time without an event.                                 *)
LEMMA TimersStep ==
    ASSUME DemoInv, [Next]_vars
    PROVE  TimersInv'
<1> USE SleepTicksAssumption
        DEF DemoInv, DemoTypeOK, TimersInv, mainVars, bootVars, timerVars,
            demoVars
<1>1. CASE MainStep
  <2>1. CASE Lab0Early \/ Lab0InitLast
    <3>1. xSleepTimer \in {0, 1} /\ daemon' = daemon
      BY <2>1 DEF Lab0Early, Lab0InitLast, MainGoto, StartUpOrder
    <3>2. /\ xSleepTimer' = xSleepTimer + 1
          /\ left' = [left EXCEPT ![xSleepTimer'] = SleepTicks]
          /\ idleFor' = 0
      BY <2>1 DEF Lab0Early, Lab0InitLast, Lab0Init
    <3>3. left'[xSleepTimer'] = SleepTicks
      BY <3>1, <3>2 DEF Timers
    <3>4. \A t \in Timers : t > xSleepTimer' => left'[t] = 0
      BY <3>1, <3>2 DEF Timers
    <3> QED
      BY <3>1, <3>2, <3>3, <3>4
  <2>2. CASE ~(Lab0Early \/ Lab0InitLast)
    BY <1>1, <2>2
       DEF MainStep, InitHardware, Lab2Init, RegisterA, RegisterB,
           CreateLab1Sem, PostLab1Sem, Lab1Init, MainTakeSem, MainGiveSem
  <2> QED
    BY <2>1, <2>2
<1>2. CASE LoopStep
  <2>1. CASE LoopReset \/ LoopResetAfter
    <3>1. UNCHANGED <<daemon, xSleepTimer, due>>
      BY <2>1 DEF LoopReset, LoopResetAfter, Lab0Event
    <3>2. CASE xSleepTimer = 0
      BY <2>1, <3>2 DEF LoopReset, LoopResetAfter, Lab0Event
    <3>3. CASE xSleepTimer # 0
      <4>1. /\ left' = [left EXCEPT ![xSleepTimer] = SleepTicks]
            /\ idleFor' = 0
        BY <2>1, <3>3 DEF LoopReset, LoopResetAfter, Lab0Event
      <4>2. left'[xSleepTimer] = SleepTicks
        BY <3>3, <4>1
      <4>3. \A t \in Timers : t > xSleepTimer => left'[t] = 0
        BY <3>3, <4>1 DEF Timers
      <4> QED
        BY <3>1, <3>3, <4>1, <4>2, <4>3
    <3> QED
      BY <3>2, <3>3
  <2>2. CASE HandlerStarts \/ LoopTakeSem \/ LoopGiveSem
    BY <2>2 DEF HandlerStarts, LoopTakeSem, LoopGiveSem
  <2> QED
    BY <1>2, <2>1, <2>2 DEF LoopStep
<1>3. CASE DaemonStep
  BY <1>3 DEF DaemonStep, SleepTimerCallback, DaemonTakeSem, DaemonCleanUp,
              EnableWakeup, PowerDown, DaemonGoto
<1>4. CASE ConnectionStep \/ \E c \in Publishers : Lab1Action(c)
  BY <1>4 DEF ConnectionStep, Lab1Action
<1>5. CASE Press \/ ButtonBHold
  BY <1>5 DEF Press, ButtonBHold
<1>6. CASE Tick
  <2>1. UNCHANGED <<daemon, xSleepTimer>>
    BY <1>6 DEF Tick
  <2>2. \A t \in Timers : left'[t] = IF left[t] = 0 THEN 0 ELSE left[t] - 1
    BY <1>6 DEF Tick
  <2>3. \A t \in Timers : t > xSleepTimer' => left'[t] = 0
    BY <2>1, <2>2
  <2>4. xSleepTimer = 0 => due' = 0
    <3> SUFFICES ASSUME xSleepTimer = 0 PROVE due' = 0
      OBVIOUS
    <3>1. {t \in Timers : left[t] = 1} = {}
      BY DEF Timers
    <3>2. Cardinality({t \in Timers : left[t] = 1}) = 0
      BY <3>1, FS_EmptySet
    <3> QED
      BY <1>6, <3>2 DEF Tick
  <2>5. ASSUME xSleepTimer # 0, left'[xSleepTimer] > 0
        PROVE  left'[xSleepTimer] + idleFor' = SleepTicks
    <3>1. xSleepTimer \in Timers /\ left[xSleepTimer] \in 0..SleepTicks
      BY <2>5
    <3>2. left[xSleepTimer] > 0 /\ left'[xSleepTimer] = left[xSleepTimer] - 1
      BY <2>2, <2>5, <3>1
    <3>3. left[xSleepTimer] + idleFor = SleepTicks
      BY <2>5, <3>2
    <3>4. idleFor' = idleFor + 1
      BY <1>6, <3>1, <3>2, <3>3 DEF Tick
    <3> QED
      BY <3>1, <3>2, <3>3, <3>4
  <2> QED
    BY <2>1, <2>3, <2>4, <2>5
<1>7. CASE UNCHANGED vars
  BY <1>7 DEF vars
<1> QED
  BY <1>1, <1>2, <1>3, <1>4, <1>5, <1>6, <1>7 DEF Next

(* The thread of the layer goes down only when it was asked to, and nobody *)
(* but the sleep callback asks it to in the button build.                  *)
LEMMA LayerKeepsGoing ==
    ASSUME ConnTypeOK, ConnectionStep, build = "LAB1", GoingDown'
    PROVE  GoingDown
<1> USE DEF GoingDown, ConnTypeOK, Semaphores, Settled, Goto, resourceVars
<1>1. daemon' = daemon
  BY LayerByItself DEF demoVars
<1>2. CASE NetworkUp \/ ConnectionDrops
  BY <1>1, <1>2 DEF NetworkUp, ConnectionDrops
<1>3. CASE ThreadStep
  <2>1. CASE \/ CheckIdentifier \/ Initialize \/ EstablishMqttConnection
             \/ SetShadowCallbacks
    BY <1>1, <2>1 DEF CheckIdentifier, Initialize, EstablishMqttConnection,
                      SetShadowCallbacks
  <2>2. CASE PostReady \/ PostDelta
    BY <1>1, <2>2 DEF PostReady, PostDelta, Post
  <2>3. CASE WaitCleanUp
    BY <2>3 DEF WaitCleanUp, CanTake
  <2>4. CASE \/ DestroyCleanUp \/ DestroyDelta \/ Disconnect
             \/ CleanUpLibraries
    BY <2>4 DEF DestroyCleanUp, DestroyDelta, Disconnect, CleanUpLibraries
  <2> QED
    BY <1>3, <2>1, <2>2, <2>3, <2>4 DEF ThreadStep
<1> QED
  BY <1>2, <1>3 DEF ConnectionStep, Lab2NetworkDisconnected

(* The token of lab1Sem changes hands and is taken for good at most once.  *)
LEMMA ActionTokenStep ==
    ASSUME DemoInv, [Next]_vars
    PROVE  ActionToken'
<1> SUFFICES ASSUME build' = "LAB1"
             PROVE  ActionToken'
  BY DEF ActionToken
<1> USE DEF DemoInv, DemoTypeOK, mainVars, bootVars, timerVars, demoVars,
            connVars
<1>1. build = "LAB1"
  BY DEF Next, MainStep, InitHardware, Lab0Early, Lab2Init, RegisterA,
         RegisterB, CreateLab1Sem, PostLab1Sem, Lab1Init, MainTakeSem,
         MainGiveSem, Lab0InitLast, LoopStep, HandlerStarts, LoopReset,
         LoopTakeSem, LoopGiveSem, LoopResetAfter, DaemonStep,
         SleepTimerCallback, DaemonTakeSem, DaemonCleanUp, EnableWakeup,
         PowerDown, ConnectionStep, Lab1Action, Press, ButtonBHold, Tick, vars
<1> USE <1>1 DEF ActionToken
<1>2. ASSUME UNCHANGED <<sem, thread, daemon>> PROVE GoingDown' = GoingDown
  BY <1>2 DEF GoingDown
<1>3. CASE MainStep /\ device = "on"
  <2>1. CASE Lab1Init
    <3>1. daemon' = "idle"
      BY <2>1 DEF Lab1Init, MainGoto, StartUpOrder, TimersInv
    <3>2. /\ sem'["cleanUpReady"] \in {"empty", "none"}
          /\ thread' \in {"network", "failed"}
      BY <2>1 DEF Lab1Init, ConnectionInit, Semaphores, Goto
    <3>3. ~GoingDown'
      BY <3>1, <3>2 DEF GoingDown, Settled
    <3> QED
      BY <2>1, <3>3 DEF Lab1Init, MainGoto, StartUpOrder, LayerInUse
  <2>2. CASE ~Lab1Init
    <3>1. UNCHANGED <<sem, thread, daemon>>
      BY <1>3, <2>2
         DEF MainStep, InitHardware, Lab0Early, Lab2Init, RegisterA, RegisterB,
             CreateLab1Sem, PostLab1Sem, MainTakeSem, MainGiveSem,
             Lab0InitLast, CallReadyWait, threadVars, MainGoto, StartUpOrder
    <3>2. main # "done" /\ ~GoingDown' /\ loop' = loop
      BY <1>2, <1>3, <3>1
         DEF MainStep, InitHardware, Lab0Early, Lab2Init, RegisterA, RegisterB,
             CreateLab1Sem, PostLab1Sem, Lab1Init, MainTakeSem, MainGiveSem,
             Lab0InitLast, MainGoto
    <3>3. loop # "giveSem"
      BY <1>3, <3>2 DEF LayerInUse, StartUpOrder
    <3> QED
      BY <1>3, <2>2, <3>2, <3>3
         DEF MainStep, InitHardware, Lab0Early, Lab2Init, RegisterA, RegisterB,
             CreateLab1Sem, PostLab1Sem, MainTakeSem, MainGiveSem,
             Lab0InitLast, MainGoto, TakeLab1, GiveLab1
  <2> QED
    BY <2>1, <2>2
<1>4. CASE LoopStep /\ device = "on"
  <2>1. UNCHANGED <<sem, thread, daemon, main>>
    BY <1>4 DEF LoopStep, HandlerStarts, LoopReset, LoopTakeSem, LoopGiveSem,
                LoopResetAfter, CallReadyWait, threadVars
  <2>2. loop \in {"takeSem", "giveSem"} => main = "done"
    BY <1>4 DEF LayerInUse, StartUpOrder
  <2> QED
    BY <1>2, <1>4, <2>1, <2>2
       DEF LoopStep, HandlerStarts, LoopReset, LoopTakeSem, LoopGiveSem,
           LoopResetAfter, Lab0Event, LoopGoto, TakeLab1, GiveLab1
<1>5. CASE DaemonStep
  <2>1. UNCHANGED <<loop, main>>
    BY <1>5 DEF DaemonStep, SleepTimerCallback, DaemonTakeSem, DaemonCleanUp,
                EnableWakeup, PowerDown
  <2>2. CASE SleepTimerCallback
    BY <2>1, <2>2 DEF SleepTimerCallback, DaemonGoto, GoingDown
  <2>3. CASE DaemonTakeSem
    <3>1. main = "done"
      BY <2>3 DEF DaemonTakeSem, TimersInv, StartUpOrder
    <3>2. CASE lab1Sem = "none"
      BY <2>1, <2>3, <3>2 DEF DaemonTakeSem, GoingDown
    <3>3. CASE lab1Sem # "none"
      BY <2>1, <2>3, <3>1, <3>3 DEF DaemonTakeSem, TakeLab1
    <3> QED
      BY <3>2, <3>3
  <2>4. CASE DaemonCleanUp \/ EnableWakeup \/ PowerDown
    <3>1. GoingDown /\ lab1Sem' = lab1Sem
      BY <2>4 DEF DaemonCleanUp, EnableWakeup, PowerDown, DaemonGoto,
                  GoingDown
    <3> QED
      BY <2>1, <3>1
  <2> QED
    BY <1>5, <2>2, <2>3, <2>4 DEF DaemonStep
<1>6. CASE ConnectionStep
  BY <1>6, LayerByItself, LayerKeepsGoing
<1>7. ASSUME NEW c \in Publishers, Lab1Action(c) PROVE ActionToken'
  BY <1>7, ActionFrame DEF GoingDown
<1>8. CASE Press \/ ButtonBHold \/ Tick
  BY <1>2, <1>8 DEF Press, ButtonBHold, Tick
<1>9. CASE UNCHANGED vars
  BY <1>2, <1>9 DEF vars
<1> QED
  BY <1>3, <1>4, <1>5, <1>6, <1>7, <1>8, <1>9 DEF Next

(* The invariant holds in every behaviour of the program.                  *)
LEMMA DemoInvariant == Spec => []DemoInv
<1>1. ASSUME DemoInv, [Next]_vars PROVE DemoInv'
  <2>1. ConnTypeOK'
    BY <1>1, DemoUsesLayer, ConnTypeStep DEF DemoInv
  <2> QED
    BY <1>1, <2>1, DemoTypeStep, StartUpStep, LayerInUseStep, TimersStep,
       ActionTokenStep DEF DemoInv
<1> QED
  BY DemoInitial, <1>1, PTL DEF Spec

(* The demo program is a client of the connection layer: whatever main,    *)
(* the event loop and the timer daemon do, in every build, the layer sees  *)
(* a behaviour it was specified for, so its guarantees hold in the program.*)
THEOREM DemoImplementsConnSpec == Spec => ConnSpec
<1>1. Init => ConnInit
  BY DEF Init
<1> QED
  BY DemoInvariant, DemoUsesLayer, <1>1, PTL DEF Spec, ConnSpec

(* In the program the connection attempt has one token for all who wait    *)
(* for it, nobody publishes before it is over, and what m5stickc_lab_run   *)
(* acquired is given back in order.                                        *)
THEOREM DemoKeepsLayer ==
    Spec => /\ []Turnstile
            /\ []ReadyMeansSettled
            /\ []ConnectionWithinLibraries
            /\ []TornDownAtEnd
            /\ ImplementsLifecycle
  BY DemoImplementsConnSpec, TurnstileHolds, ReadyIsSettled,
     ConnectionHasLibraries, EndsTornDown, LayerImplementsLifecycle

(* No task is inside lab1_action from the moment the sleep callback of the *)
(* button build has the semaphore.                                         *)
THEOREM SleepStopsActions == Spec => []NoActionGoingDown
<1>1. DemoInv => NoActionGoingDown
  BY DemoClients DEF DemoInv, ActionToken, LayerInUse, NoActionGoingDown
<1> QED
  BY DemoInvariant, <1>1, PTL

(* In the LAB0 build no event is handled before there is a timer to reset. *)
THEOREM EventsFindTheirTimer == Spec => []ResetFindsTimer
<1>1. DemoInv => ResetFindsTimer
  BY DEF DemoInv, StartUpOrder, ResetFindsTimer
<1> QED
  BY DemoInvariant, <1>1, PTL

(* The current sleep timer fires only after a whole period without an      *)
(* event, for every length of the period.                                  *)
THEOREM TimerHonoursResets == Spec => CurrentTimerHonoursReset
<1>1. ASSUME DemoInv, [Next]_vars,
             xSleepTimer # 0, left[xSleepTimer] = 1, left'[xSleepTimer] = 0
      PROVE  idleFor' = SleepTicks
  <2> USE <1>1, SleepTicksAssumption
          DEF DemoInv, DemoTypeOK, mainVars, bootVars, timerVars, demoVars
  <2>1. CASE Tick
    <3>1. left[xSleepTimer] + idleFor = SleepTicks
      BY DEF TimersInv
    <3> QED
      BY <2>1, <3>1 DEF Tick
  <2>2. CASE Lab0Early \/ Lab0InitLast
    <3>1. left'[xSleepTimer] = 1
      BY <2>2 DEF Lab0Early, Lab0InitLast, Lab0Init, Timers
    <3> QED
      BY <3>1
  <2>3. CASE LoopReset \/ LoopResetAfter
    <3>1. left'[xSleepTimer] = SleepTicks
      BY <2>3 DEF LoopReset, LoopResetAfter, Lab0Event, Timers
    <3> QED
      BY <3>1
  <2>4. CASE UNCHANGED left
    BY <2>4
  <2> QED
    BY <2>1, <2>2, <2>3, <2>4
       DEF Next, MainStep, InitHardware, Lab2Init, RegisterA, RegisterB,
           CreateLab1Sem, PostLab1Sem, Lab1Init, MainTakeSem, MainGiveSem,
           LoopStep, HandlerStarts, LoopTakeSem, LoopGiveSem, DaemonStep,
           SleepTimerCallback, DaemonTakeSem, DaemonCleanUp, EnableWakeup,
           PowerDown, ConnectionStep, Lab1Action, Press, ButtonBHold, vars
<1>2. DemoInv /\ [Next]_vars
        => [(xSleepTimer # 0 /\ left[xSleepTimer] = 1 /\ left'[xSleepTimer] = 0)
              => idleFor' = SleepTicks]_vars
  BY <1>1
<1> QED
  BY DemoInvariant, <1>2, PTL DEF Spec, CurrentTimerHonoursReset

-----------------------------------------------------------------------------
(* The texts                                                               *)

\* The identifier has the length of a MAC address once there is one.
FitsInv ==
    /\ id \in {0, 2 * MacBytes}
    /\ texts = [name \in Names |-> texts[name]]
    /\ NothingElseIsCutOff

\* A text that fits takes the place of one that did.
LEMMA PutFits ==
  ASSUME FitsInv, NEW name \in Names, NEW length \in Nat, NEW size \in Nat,
         length < size, Put(name, Text(length, size)), id' = id, reported' = reported
  PROVE  FitsInv'
  BY DEF FitsInv, NothingElseIsCutOff, CutOff, LongReport, Put, Text

\* The texts with the identifier in them.
LEMMA Lengths ==
  ASSUME id \in {0, 12}
  PROVE  /\ Filled(TopicFormat) \in Nat /\ Filled(TopicFormat) < TopicBuffer
         /\ Filled(SingleFormat) \in Nat /\ Filled(SingleFormat) < PayloadBuffer
         /\ Filled(HoldFormat) \in Nat /\ Filled(HoldFormat) < PayloadBuffer
         /\ Filled(WillFormat) \in Nat /\ Filled(WillFormat) < WillBuffer
         /\ {TopicBuffer, PayloadBuffer, WillBuffer} \subseteq Nat
  BY DEF Filled, TopicFormat, TopicBuffer, SingleFormat, HoldFormat,
         PayloadBuffer, WillFormat, WillBuffer

\* How many digits a number of 8 bits has.
LEMMA DigitsAre ==
  ASSUME NEW n \in 0..255
  PROVE  /\ Digits(n) \in 1..3 /\ Padded(n) \in 2..3
         /\ n <= 9 => Digits(n) = 1
         /\ n <= 99 => Digits(n) <= 2 /\ Padded(n) = 2
<1>1. n < 10 \/ n \in 10..99 \/ n \in 100..255
  OBVIOUS
<1>2. CASE n < 10
  BY <1>2 DEF Digits, Padded
<1>3. CASE n \in 10..99
  BY <1>3 DEF Digits, Padded
<1>4. CASE n \in 100..255
  BY <1>4 DEF Digits, Padded
<1> QED
  BY <1>1, <1>2, <1>3, <1>4

\* The level on the display never has three digits.
LEMMA LevelCapped ==
  ASSUME NEW v \in Voltages, NEW supply \in Supplies, Draw(v, supply)
  PROVE  level' \in 0..99
<1>1. PICK b \in Nat : b = (v * 11) \div 10
  BY LabTextsAssumption
<1>2. PICK q \in Int : q = Quotient(b - 3000, 12)
  BY <1>1 DEF Quotient
<1>3. Percent(v) = q % 65536
  BY <1>1, <1>2 DEF Percent, UInt16
<1>4. q % 65536 \in Nat
  OBVIOUS
<1> QED
  BY <1>3, <1>4 DEF Draw

\* What is reported has 8 bits.
LEMMA ReportedAre ==
  ASSUME NEW degrees \in Temperatures
  PROVE  degrees \in 0..255 /\ Powers \subseteq 0..255
  BY LabTextsAssumption

LEMMA TextsKeep ==
  ASSUME FitsInv, TextsNext
  PROVE  FitsInv'
<1> USE DEF Names
<1>0. id \in {0, 12}
  BY DEF FitsInv, MacBytes
<1>1. CASE DemoRun
  BY <1>1 DEF DemoRun, FitsInv, NothingElseIsCutOff, CutOff, LongReport, Put,
              Text, MacBytes
<1>2. CASE DrawBatteryLevel
  <2>1. PICK v \in Voltages, supply \in Supplies : Draw(v, supply)
    BY <1>2 DEF DrawBatteryLevel
  <2>2. PICK n \in 0..99 : n = level'
    BY <2>1, LevelCapped
  <2>3. BatteryLength(n) = 8
    BY DigitsAre DEF BatteryLength
  <2>4. Put("battery", Text(8, 11)) /\ id' = id /\ reported' = reported
    BY <1>2, <2>1, <2>2, <2>3 DEF DrawBatteryLevel, Draw
  <2> QED
    BY <2>4, PutFits
<1>3. ASSUME NEW format \in {SingleFormat, HoldFormat}, PublishMessage(format)
      PROVE  FitsInv'
  <2>1. /\ Filled(format) \in Nat /\ Filled(format) < PayloadBuffer
        /\ Filled(TopicFormat) \in Nat /\ Filled(TopicFormat) < TopicBuffer
        /\ {TopicBuffer, PayloadBuffer} \subseteq Nat
    BY <1>0, Lengths
  <2>2. /\ texts' = [texts EXCEPT
                       !["topic"] = [length |-> Filled(TopicFormat), size |-> TopicBuffer],
                       !["payload"] = [length |-> Filled(format), size |-> PayloadBuffer]]
        /\ id' = id /\ reported' = reported
    BY <1>3 DEF PublishMessage, Text
  <2>3. LongReport' = LongReport
    BY <2>2 DEF LongReport
  <2>4. ASSUME NEW name \in Names, CutOff(texts[name])'
        PROVE  name = "report" /\ LongReport
    <3>1. name \notin {"topic", "payload"}
      BY <2>1, <2>2, <2>4 DEF FitsInv, CutOff
    <3>2. texts'[name] = texts[name]
      BY <2>2, <3>1 DEF FitsInv
    <3> QED
      BY <2>4, <3>2 DEF FitsInv, NothingElseIsCutOff, CutOff
  <2> QED
    BY <2>2, <2>3, <2>4 DEF FitsInv, NothingElseIsCutOff
<1>4. CASE OperationComplete
  BY <1>4 DEF OperationComplete, FitsInv, NothingElseIsCutOff, LongReport
<1>5. CASE Will
  <2>1. Put("will", Text(Filled(WillFormat), WillBuffer)) /\ id' = id /\ reported' = reported
    BY <1>5 DEF Will
  <2> QED
    BY <1>0, <2>1, Lengths, PutFits
<1>6. CASE ClientIdentifier
  <2>1. PICK digits \in {1, 10} : Put("client", Text(8 + digits, 24))
    BY <1>6 DEF ClientIdentifier
  <2>2. id' = id /\ reported' = reported
    BY <1>6 DEF ClientIdentifier
  <2>3. 8 + digits \in Nat /\ 8 + digits < 24 /\ 24 \in Nat
    OBVIOUS
  <2> QED
    BY <2>1, <2>2, <2>3, PutFits
<1>7. ASSUME NEW degrees \in Temperatures, NEW power \in Powers,
             ReportShadow(power, degrees)
      PROVE  FitsInv'
  <2>1. degrees \in 0..255 /\ power \in 0..255
    BY ReportedAre
  <2>2. PICK d \in 1..3, p \in 2..3 :
          /\ d = Digits(power) /\ p = Padded(degrees)
          /\ power <= 9 => d = 1
          /\ power <= 99 => d <= 2
          /\ degrees <= 99 => p = 2
    BY <2>1, DigitsAre
  <2>3. /\ ReportLength(power, degrees) = 73 + d + p /\ ReportBuffer = 78
    BY <2>2 DEF ReportLength, ReportFormat, ReportBuffer, ReportSize
  <2>4. reported' = [power |-> power, temperature |-> degrees]
    BY <1>7 DEF ReportShadow
  <2>5. 73 + d + p >= 78 => LongReport'
    BY <2>1, <2>2, <2>4 DEF LongReport
  <2>6. texts' = [texts EXCEPT !["report"] = [length |-> 73 + d + p, size |-> 78]]
    BY <1>7, <2>3 DEF ReportShadow, Put, Text
  <2>7. UNCHANGED id
    BY <1>7 DEF ReportShadow
  <2>8. ASSUME NEW name \in Names, CutOff(texts[name])'
        PROVE  name = "report" /\ LongReport'
    <3>1. name # "report" => texts'[name] = texts[name] /\ ~CutOff(texts[name])
      BY <2>6 DEF FitsInv, NothingElseIsCutOff
    <3>2. name = "report"
      BY <2>8, <3>1 DEF CutOff
    <3>3. texts'["report"] = [length |-> 73 + d + p, size |-> 78]
      BY <2>6 DEF FitsInv
    <3> QED
      BY <2>5, <2>8, <3>2, <3>3 DEF CutOff
  <2> QED
    BY <2>6, <2>7, <2>8 DEF FitsInv, NothingElseIsCutOff
<1>8. ASSUME NEW degrees \in Temperatures, AirConText(degrees)
      PROVE  FitsInv'
  <2>1. Padded(degrees) \in 2..3
    BY ReportedAre, DigitsAre
  <2>2. PICK n \in Nat : n = 4 + Padded(degrees) /\ n < 11
    BY <2>1
  <2>3. /\ Put("airCon", Text(n, 11))
        /\ id' = id /\ reported' = reported
    BY <1>8, <2>2 DEF AirConText
  <2> QED
    BY <2>2, <2>3, PutFits
<1> QED
  BY <1>1, <1>2, <1>3, <1>4, <1>5, <1>6, <1>7, <1>8 DEF TextsNext

\* The texts fit for every voltage, power and temperature, but for the report
\* of a power that takes too many digits (the calls of snprintf in the labs
\* and the connection layer).
THEOREM TextsFit == DeviceSpec => []NothingElseIsCutOff
<1>1. DeviceInit => FitsInv
  BY DEF DeviceInit, TextsInit, FitsInv, NothingElseIsCutOff, CutOff, Empty, Text
<1>2. FitsInv /\ [DeviceNext]_deviceVars => FitsInv'
  <2> SUFFICES ASSUME FitsInv, [DeviceNext]_deviceVars PROVE FitsInv'
    OBVIOUS
  <2>1. TextsNext \/ UNCHANGED textVars
    BY DEF DeviceNext, MainRuns, InputRuns, NetworkRuns, DebugRuns, TextsRun,
           AirConRuns, deviceVars
  <2>2. CASE UNCHANGED textVars
    BY <2>2 DEF textVars, FitsInv, NothingElseIsCutOff, LongReport
  <2> QED
    BY <2>1, <2>2, TextsKeep
<1>3. FitsInv => NothingElseIsCutOff
  BY DEF FitsInv
<1> QED
  BY <1>1, <1>2, <1>3, PTL DEF DeviceSpec

-----------------------------------------------------------------------------
(* The input                                                               *)

(* A set of numbers that holds 0 and with every number below n the next    *)
(* one holds n: the least number it lacks would have a predecessor.        *)
LEMMA CountUp ==
    ASSUME NEW n \in Nat, NEW S, 0 \in S,
           \A i \in 1..n : i - 1 \in S => i \in S
    PROVE  n \in S
<1> SUFFICES ASSUME n \notin S PROVE FALSE
  OBVIOUS
<1> DEFINE missing == {i \in 0..n : i \notin S}
<1>1. missing \subseteq Nat /\ missing # {}
  OBVIOUS
<1>2. PICK i \in missing : \A j \in missing : <<j, i>> \notin OpToRel(<, Nat)
  BY <1>1, WFMin, NatLessThanWellFounded
<1>3. \A j \in missing : ~(j < i)
  BY <1>1, <1>2 DEF OpToRel
<1> QED
  BY <1>3

Events == [type : {"UART_DATA", "UART_BUFFER_FULL"}, size : Nat]

(* What is known of the events of a queue.                                 *)
LEMMA EventSizes ==
    ASSUME NEW q \in Seq(Events)
    PROVE  /\ Len(q) \in Nat
           /\ \A i \in 1..Len(q) : q[i] \in Events /\ q[i].size \in Nat
<1>1. Len(q) \in Nat /\ \A i \in 1..Len(q) : q[i] \in Events
  BY ElementOfSeq, LenProperties
<1> QED
  BY <1>1 DEF Events

(* The equation of Announced, and what f adds up: the sizes of the events  *)
(* of q one by one.                                                        *)
Solves(f, q, start, n) ==
    f = [i \in 0..n |-> IF i = 0 THEN start ELSE f[i - 1] + q[i].size]

Adds(f, q, start) ==
    /\ f \in [0..Len(q) -> Nat]
    /\ f[0] = start
    /\ \A i \in 1..Len(q) : f[i] = f[i - 1] + q[i].size

LEMMA SolutionExists ==
    ASSUME NEW q \in Seq(Events), NEW start \in Nat
    PROVE  \E f : Solves(f, q, start, Len(q))
<1> DEFINE S == {n \in 0..Len(q) : \E f : Solves(f, q, start, n)}
<1>1. 0 \in S
  <2>1. Solves([i \in 0..0 |-> start], q, start, 0)
    BY DEF Solves
  <2> QED
    BY <2>1, EventSizes
<1>2. ASSUME NEW n \in 1..Len(q), n - 1 \in S PROVE n \in S
  <2>1. PICK f : Solves(f, q, start, n - 1)
    BY <1>2
  <2> DEFINE g == [i \in 0..n |-> IF i = n THEN f[n - 1] + q[n].size ELSE f[i]]
  <2>2. \A i \in 0..(n - 1) :
          f[i] = IF i = 0 THEN start ELSE f[i - 1] + q[i].size
    BY <2>1 DEF Solves
  <2>3. \A i \in 0..n :
          g[i] = IF i = 0 THEN start ELSE g[i - 1] + q[i].size
    BY <2>2
  <2>4. Solves(g, q, start, n)
    BY <2>3 DEF Solves
  <2> QED
    BY <2>4
<1>3. Len(q) \in S
  <2> HIDE DEF S
  <2> QED
    BY <1>1, <1>2, CountUp, EventSizes
<1> QED
  BY <1>3

LEMMA SolutionAdds ==
    ASSUME NEW q \in Seq(Events), NEW start \in Nat,
           NEW f, Solves(f, q, start, Len(q))
    PROVE  Adds(f, q, start)
<1> DEFINE n == Len(q)
           S == {k \in 0..n : \A i \in 0..k : f[i] \in Nat}
<1>0. n \in Nat
  BY EventSizes
<1>1. \A i \in 0..n : f[i] = IF i = 0 THEN start ELSE f[i - 1] + q[i].size
  BY DEF Solves
<1>2. 0 \in S
  BY <1>0, <1>1
<1>3. ASSUME NEW k \in 1..n, k - 1 \in S PROVE k \in S
  <2>1. q[k].size \in Nat
    BY EventSizes
  <2>2. f[k] = f[k - 1] + q[k].size
    BY <1>1
  <2>3. \A i \in 0..(k - 1) : f[i] \in Nat
    BY <1>3
  <2>4. f[k - 1] \in Nat
    BY <2>3
  <2>5. \A i \in 0..k : f[i] \in Nat
    BY <2>1, <2>2, <2>3, <2>4
  <2> QED
    BY <2>5
<1>4. n \in S
  <2> HIDE DEF S, n
  <2> QED
    BY <1>0, <1>2, <1>3, CountUp
<1>5. f \in [0..n -> Nat]
  BY <1>0, <1>4 DEF Solves
<1> QED
  BY <1>0, <1>1, <1>5 DEF Adds

(* What Announced computes.                                                *)
LEMMA AnnouncedIsSum ==
    ASSUME NEW q \in Seq(Events), NEW start \in Nat
    PROVE  \E f : Adds(f, q, start) /\ Announced(q, start) = f[Len(q)]
<1>1. \E f : Solves(f, q, start, Len(q))
  BY SolutionExists
<1>2. \E f : Solves(f, q, start, Len(q)) /\ Announced(q, start) = f[Len(q)]
  BY <1>1 DEF Solves, Announced
<1> QED
  BY <1>2, SolutionAdds

(* Two sums of the same numbers differ by what they start with.            *)
LEMMA SameSteps ==
    ASSUME NEW n \in Nat, NEW a \in [0..n -> Nat], NEW b \in [0..n -> Nat],
           NEW s \in [1..n -> Nat],
           \A i \in 1..n : a[i] = a[i - 1] + s[i] /\ b[i] = b[i - 1] + s[i]
    PROVE  a[n] = b[n] + a[0] - b[0]
<1> DEFINE S == {i \in 0..n : a[i] = b[i] + a[0] - b[0]}
<1>1. 0 \in S
  <2>1. a[0] \in Nat /\ b[0] \in Nat
    OBVIOUS
  <2> QED
    BY <2>1
<1>2. ASSUME NEW i \in 1..n, i - 1 \in S PROVE i \in S
  <2>1. /\ a[i - 1] \in Nat /\ b[i - 1] \in Nat /\ s[i] \in Nat
        /\ a[0] \in Nat /\ b[0] \in Nat
    OBVIOUS
  <2>2. a[i] = a[i - 1] + s[i] /\ b[i] = b[i - 1] + s[i]
    OBVIOUS
  <2>3. a[i - 1] = b[i - 1] + a[0] - b[0]
    BY <1>2
  <2>4. a[i] = b[i] + a[0] - b[0]
    BY <2>1, <2>2, <2>3
  <2> QED
    BY <2>4
<1>3. n \in S
  <2> HIDE DEF S
  <2> QED
    BY <1>1, <1>2, CountUp
<1> QED
  BY <1>3

LEMMA AnnouncedStart ==
    ASSUME NEW q \in Seq(Events), NEW start \in Nat
    PROVE  /\ Announced(q, 0) \in Nat
           /\ Announced(q, start) = Announced(q, 0) + start
<1>1. PICK f : Adds(f, q, start) /\ Announced(q, start) = f[Len(q)]
  BY AnnouncedIsSum
<1>2. PICK g : Adds(g, q, 0) /\ Announced(q, 0) = g[Len(q)]
  BY AnnouncedIsSum
<1> DEFINE s == [i \in 1..Len(q) |-> q[i].size]
<1>3. Len(q) \in Nat /\ s \in [1..Len(q) -> Nat]
  BY EventSizes
<1>4. \A i \in 1..Len(q) : f[i] = f[i - 1] + s[i] /\ g[i] = g[i - 1] + s[i]
  BY <1>1, <1>2 DEF Adds
<1>5. f[Len(q)] = g[Len(q)] + f[0] - g[0]
  <2> HIDE DEF s
  <2> QED
    BY <1>1, <1>2, <1>3, <1>4, SameSteps DEF Adds
<1>6. g[Len(q)] \in Nat /\ f[0] = start /\ g[0] = 0
  BY <1>1, <1>2, <1>3 DEF Adds
<1> QED
  BY <1>1, <1>2, <1>5, <1>6

(* One event more.                                                         *)
LEMMA AnnouncedAppend ==
    ASSUME NEW q \in Seq(Events), NEW start \in Nat, NEW e \in Events
    PROVE  Announced(Append(q, e), start) = Announced(q, start) + e.size
<1> DEFINE p == Append(q, e)
<1>0. /\ p \in Seq(Events) /\ Len(p) = Len(q) + 1 /\ Len(q) \in Nat
      /\ p[Len(p)] = e /\ \A i \in 1..Len(q) : p[i] = q[i]
  BY AppendProperties, LenProperties
<1> HIDE DEF p
<1>1. PICK f : Adds(f, p, start) /\ Announced(p, start) = f[Len(p)]
  BY <1>0, AnnouncedIsSum
<1>2. PICK g : Adds(g, q, start) /\ Announced(q, start) = g[Len(q)]
  BY AnnouncedIsSum
<1> DEFINE s == [i \in 1..Len(q) |-> q[i].size]
           h == [i \in 0..Len(q) |-> f[i]]
<1>3. s \in [1..Len(q) -> Nat]
  BY EventSizes
<1>4. h \in [0..Len(q) -> Nat] /\ g \in [0..Len(q) -> Nat]
  BY <1>0, <1>1, <1>2 DEF Adds
<1>5. \A i \in 1..Len(q) : h[i] = h[i - 1] + s[i] /\ g[i] = g[i - 1] + s[i]
  BY <1>0, <1>1, <1>2 DEF Adds
<1>6. h[0] = start /\ g[0] = start
  BY <1>0, <1>1, <1>2 DEF Adds
<1>7. h[Len(q)] = g[Len(q)] + h[0] - g[0]
  <2> HIDE DEF s, h
  <2> QED
    BY <1>0, <1>3, <1>4, <1>5, SameSteps
<1>8. g[Len(q)] \in Nat /\ h[Len(q)] = f[Len(q)]
  BY <1>0, <1>4
<1>9. f[Len(p)] = f[Len(q)] + e.size
  BY <1>0, <1>1 DEF Adds
<1> QED
  BY <1>1, <1>2, <1>6, <1>7, <1>8, <1>9 DEF p

(* One event less.                                                         *)
LEMMA AnnouncedTail ==
    ASSUME NEW q \in Seq(Events), q # <<>>
    PROVE  Announced(q, 0) = Announced(Tail(q), 0) + Head(q).size
<1> DEFINE t == Tail(q)
<1>0. /\ t \in Seq(Events) /\ Len(q) = Len(t) + 1 /\ Len(t) \in Nat
      /\ Head(q) = q[1] /\ \A i \in 1..Len(t) : t[i] = q[i + 1]
  BY HeadTailProperties, LenProperties
<1> HIDE DEF t
<1>1. PICK f : Adds(f, q, 0) /\ Announced(q, 0) = f[Len(q)]
  BY AnnouncedIsSum
<1>2. PICK g : Adds(g, t, 0) /\ Announced(t, 0) = g[Len(t)]
  BY <1>0, AnnouncedIsSum
<1> DEFINE s == [i \in 1..Len(t) |-> t[i].size]
           h == [i \in 0..Len(t) |-> f[i + 1]]
<1>3. s \in [1..Len(t) -> Nat]
  BY <1>0, EventSizes
<1>4. h \in [0..Len(t) -> Nat] /\ g \in [0..Len(t) -> Nat]
  BY <1>0, <1>1, <1>2 DEF Adds
<1>5. \A i \in 1..Len(t) : h[i] = h[i - 1] + s[i] /\ g[i] = g[i - 1] + s[i]
  <2> TAKE i \in 1..Len(t)
  <2>1. i + 1 \in 1..Len(q) /\ (i - 1) + 1 = i /\ (i + 1) - 1 = i
    BY <1>0
  <2>2. h[i] = f[i + 1] /\ h[i - 1] = f[i] /\ s[i] = t[i].size
    BY <1>0, <2>1
  <2>3. f[i + 1] = f[i] + q[i + 1].size /\ g[i] = g[i - 1] + t[i].size
    BY <1>1, <1>2, <2>1 DEF Adds
  <2> QED
    BY <1>0, <2>2, <2>3
<1>6. h[0] = q[1].size /\ g[0] = 0 /\ q[1].size \in Nat
  <2>1. 1 \in 1..Len(q)
    BY <1>0
  <2>2. q[1].size \in Nat
    BY <2>1, EventSizes
  <2>3. f[1] = 0 + q[1].size
    BY <1>1, <2>1 DEF Adds
  <2> QED
    BY <1>0, <1>2, <2>2, <2>3 DEF Adds
<1>7. h[Len(t)] = g[Len(t)] + h[0] - g[0]
  <2> HIDE DEF s, h
  <2> QED
    BY <1>0, <1>3, <1>4, <1>5, SameSteps
<1>8. g[Len(t)] \in Nat /\ h[Len(t)] = f[Len(q)]
  BY <1>0, <1>4
<1> QED
  BY <1>0, <1>1, <1>2, <1>6, <1>7, <1>8 DEF t

(* The driver and getUserMessage keep the bytes they announced.            *)
InputInv ==
    /\ rx \in Nat
    /\ queue \in Seq(Events)
    /\ reading \in Nat
    /\ ReadNeverBlocks

(* An event that does not fit the queue leaves its bytes for a later read. *)
LEMMA PostAnnounces ==
    ASSUME InputInv, NEW e \in Events, PostEvent(e)
    PROVE  /\ queue' \in Seq(Events)
           /\ \/ Announced(queue', reading) = Promised
              \/ Announced(queue', reading) = Promised + e.size
<1>1. CASE queue' = queue
  BY <1>1 DEF InputInv, Promised
<1>2. CASE queue' = Append(queue, e)
  BY <1>2, AnnouncedAppend, AppendProperties DEF InputInv, Promised
<1> QED
  BY <1>1, <1>2 DEF PostEvent

LEMMA InputStep ==
    ASSUME InputInv, InputNext
    PROVE  InputInv'
<1>0. Promised \in Nat /\ Promised <= rx
  BY AnnouncedStart DEF InputInv, Promised, ReadNeverBlocks
<1>1. CASE BytesArrive
  <2>1. PICK n \in ArrivalSizes :
          IF rx + n <= RxBuffer
          THEN rx' = rx + n /\ PostEvent([type |-> "UART_DATA", size |-> n])
          ELSE PostEvent([type |-> "UART_BUFFER_FULL", size |-> 0]) /\ UNCHANGED rx
    BY <1>1 DEF BytesArrive
  <2>2. n \in Nat
    BY UserInputAssumption
  <2>3. reading' = reading
    BY <1>1 DEF BytesArrive
  <2>4. CASE rx + n <= RxBuffer
    <3>1. [type |-> "UART_DATA", size |-> n] \in Events
      BY <2>2 DEF Events
    <3>2. /\ queue' \in Seq(Events)
          /\ \/ Announced(queue', reading) = Promised
             \/ Announced(queue', reading) = Promised + n
      BY <2>1, <2>4, <3>1, PostAnnounces
    <3> QED
      BY <1>0, <2>1, <2>2, <2>3, <2>4, <3>2
         DEF InputInv, ReadNeverBlocks, Promised
  <2>5. CASE ~(rx + n <= RxBuffer)
    <3>1. [type |-> "UART_BUFFER_FULL", size |-> 0] \in Events
      BY DEF Events
    <3>2. /\ queue' \in Seq(Events)
          /\ \/ Announced(queue', reading) = Promised
             \/ Announced(queue', reading) = Promised + 0
      BY <2>1, <2>5, <3>1, PostAnnounces
    <3> QED
      BY <1>0, <2>1, <2>3, <2>5, <3>2 DEF InputInv, ReadNeverBlocks, Promised
  <2> QED
    BY <2>4, <2>5
<1>2. CASE GetUserMessage
  <2>1. /\ queue \in Seq(Events) /\ queue # <<>> /\ reading = 0
        /\ queue' = Tail(queue) /\ rx' = rx /\ reading' \in {Head(queue).size, 0}
    BY <1>2 DEF InputInv, GetUserMessage
  <2>2. Head(queue) \in Events /\ queue' \in Seq(Events)
    BY <2>1, HeadTailProperties
  <2>3. Head(queue).size \in Nat
    BY <2>2 DEF Events
  <2>4. Promised = Announced(queue', 0) + Head(queue).size
    BY <2>1, AnnouncedTail DEF Promised
  <2>5. /\ Announced(queue', 0) \in Nat
        /\ Announced(queue', reading') = Announced(queue', 0) + reading'
    BY <2>1, <2>2, <2>3, AnnouncedStart
  <2>6. Announced(queue', reading') <= rx
    BY <1>0, <2>1, <2>3, <2>4, <2>5 DEF InputInv
  <2> QED
    BY <2>1, <2>2, <2>3, <2>6 DEF InputInv, ReadNeverBlocks, Promised
<1>3. CASE UartReadBytes
  <2>1. /\ queue' = queue /\ rx' = rx - reading /\ reading' = 0
        /\ rx \in Nat /\ reading \in Nat /\ rx >= reading
        /\ queue \in Seq(Events)
    BY <1>3 DEF InputInv, UartReadBytes
  <2>2. /\ Announced(queue, 0) \in Nat
        /\ Promised = Announced(queue, 0) + reading
    BY <2>1, AnnouncedStart DEF Promised
  <2>3. Announced(queue', reading') <= rx'
    BY <1>0, <2>1, <2>2
  <2> QED
    BY <2>1, <2>3 DEF InputInv, ReadNeverBlocks, Promised
<1> QED
  BY <1>1, <1>2, <1>3 DEF InputNext

(* getUserMessage never waits for bytes that do not come, for all sizes of *)
(* the buffer and the queue and of what arrives, whatever the other parts  *)
(* of the device do.                                                       *)
THEOREM ReadsReturn == DeviceSpec => []ReadNeverBlocks
<1>1. DeviceInit => InputInv
  <2> SUFFICES ASSUME DeviceInit PROVE InputInv
    OBVIOUS
  <2>1. rx = 0 /\ queue = <<>> /\ reading = 0
    BY DEF DeviceInit, InputInit
  <2>2. queue \in Seq(Events) /\ Len(queue) = 0
    BY <2>1, EmptySeq
  <2>3. PICK f : Adds(f, queue, 0) /\ Announced(queue, 0) = f[Len(queue)]
    <3>1. queue \in Seq(Events)
      BY <2>2
    <3> QED
      BY <3>1, AnnouncedIsSum
  <2>4. Announced(queue, 0) = 0
    BY <2>2, <2>3 DEF Adds
  <2> QED
    BY <2>1, <2>2, <2>4 DEF InputInv, ReadNeverBlocks, Promised
<1>2. InputInv /\ [DeviceNext]_deviceVars => InputInv'
  <2> SUFFICES ASSUME InputInv, [DeviceNext]_deviceVars PROVE InputInv'
    OBVIOUS
  <2>1. InputNext \/ UNCHANGED inputVars
    BY DEF DeviceNext, MainRuns, InputRuns, NetworkRuns, DebugRuns, TextsRun,
           AirConRuns, deviceVars
  <2>2. CASE UNCHANGED inputVars
    BY <2>2 DEF inputVars, InputInv, ReadNeverBlocks, Promised
  <2> QED
    BY <2>1, <2>2, InputStep
<1>3. InputInv => ReadNeverBlocks
  BY DEF InputInv
<1> QED
  BY <1>1, <1>2, <1>3, PTL DEF DeviceSpec
-----------------------------------------------------------------------------
(* The air conditioner                                                     *)

(* A remainder of less than twice the modulus.                             *)
LEMMA WrapsOnce ==
    ASSUME NEW m \in Nat \ {0}, NEW x \in 0..(2 * m - 1)
    PROVE  (x % m) = IF x < m THEN x ELSE x - m
<1> DEFINE q == x \div m
           r == x % m
<1>1. q \in Int /\ r \in 0..(m - 1)
  OBVIOUS
<1>2. r = x - m * q
  OBVIOUS
<1>3. x = m * q + r /\ m * q \in Int
  BY <1>1, <1>2
<1> HIDE DEF q, r
<1>4. ~(q <= -1)
  <2>1. ASSUME q <= -1 PROVE FALSE
    <3>1. PICK k \in Nat : q = -1 - k
      BY <1>1, <2>1
    <3>2. m * q = -m - m * k /\ m * k \in Nat
      BY <3>1
    <3> QED
      BY <1>1, <1>3, <3>2
  <2> QED
    BY <2>1
<1>5. ~(q >= 2)
  <2>1. ASSUME q >= 2 PROVE FALSE
    <3>1. PICK k \in Nat : q = 2 + k
      BY <1>1, <2>1
    <3>2. m * q = 2 * m + m * k /\ m * k \in Nat
      BY <3>1
    <3> QED
      BY <1>1, <1>3, <3>2
  <2> QED
    BY <2>1
<1>6. q = 0 \/ q = 1
  BY <1>1, <1>4, <1>5
<1>7. CASE q = 0
  <2>1. x = r
    BY <1>1, <1>3, <1>7
  <2> QED
    BY <1>1, <2>1 DEF r
<1>8. CASE q = 1
  <2>1. x = m + r
    BY <1>1, <1>3, <1>8
  <2> QED
    BY <1>1, <2>1 DEF r
<1> QED
  BY <1>6, <1>7, <1>8

(* The periods a unit that is on needs at most to its target: below it one *)
(* period is enough, but from 0 the 8 bits wrap first.                     *)
ToTarget(t, d) ==
    IF t > d THEN t - d ELSE IF t = d THEN 0 ELSE IF t = 0 THEN Modulus ELSE 1

(* The periods a unit that is off needs at most to the limit: above it one *)
(* period is enough, but from the largest number the 8 bits wrap first.    *)
ToLimit(t) ==
    IF t < WarmLimit THEN WarmLimit - t
    ELSE IF t = WarmLimit THEN 0
    ELSE IF t = Modulus - 1 THEN Modulus ELSE 1

(* A period with the power on brings the room closer to a target other     *)
(* than 0, and leaves it there.                                            *)
LEMMA CooledApproaches ==
    ASSUME NEW t \in UInt8, NEW d \in UInt8 \ {0}
    PROVE  /\ Cooled(t, d) \in UInt8
           /\ IF t = d THEN Cooled(t, d) = d
              ELSE ToTarget(Cooled(t, d), d) < ToTarget(t, d)
<1> PICK m \in Nat \ {0} : m = Modulus /\ m > 2
  BY AirConAssumption
<1>1. t \in 0..(m - 1) /\ d \in 1..(m - 1)
  BY DEF UInt8
<1>2. PICK x \in 0..(2 * m - 1) : x = t + m - 1
  BY <1>1
<1>3. (x % m) = IF x < m THEN x ELSE x - m
  BY WrapsOnce
<1> DEFINE lower == IF t = 0 THEN m - 1 ELSE t - 1
<1>4. (x % m) = lower
  BY <1>1, <1>2, <1>3
<1>5. Cooled(t, d) = IF lower < d THEN d ELSE lower
  BY <1>2, <1>4 DEF Cooled
<1> QED
  BY <1>1, <1>5 DEF UInt8, ToTarget

(* The same with the power off and the limit.                              *)
LEMMA WarmedApproaches ==
    ASSUME NEW t \in UInt8
    PROVE  /\ Warmed(t) \in UInt8
           /\ IF t = WarmLimit THEN Warmed(t) = t
              ELSE ToLimit(Warmed(t)) < ToLimit(t)
<1> PICK m \in Nat \ {0} : m = Modulus /\ m > 2
  BY AirConAssumption
<1>1. t \in 0..(m - 1) /\ WarmLimit \in 1..(m - 2)
  BY AirConAssumption DEF UInt8
<1>2. PICK x \in 0..(2 * m - 1) : x = t + 1
  BY <1>1
<1>3. (x % m) = IF x < m THEN x ELSE x - m
  BY WrapsOnce
<1> DEFINE higher == IF t = m - 1 THEN 0 ELSE t + 1
<1>4. (x % m) = higher
  BY <1>1, <1>2, <1>3
<1>5. Warmed(t) = IF higher > WarmLimit THEN WarmLimit ELSE higher
  BY <1>2, <1>4 DEF Warmed
<1> QED
  BY <1>1, <1>5 DEF UInt8, ToLimit

RoomInv == temperature \in UInt8 /\ desired \in UInt8

(* Every period that the timer counts.                                     *)
RoomPeriod ==
    /\ powerOn = 1 /\ desired # 0 =>
         IF temperature = desired THEN temperature' = desired
         ELSE ToTarget(temperature', desired) < ToTarget(temperature, desired)
    /\ powerOn # 1 =>
         IF temperature = WarmLimit THEN temperature' = WarmLimit
         ELSE ToLimit(temperature') < ToLimit(temperature)

(* A delta brings a target of 8 bits or none.                              *)
LEMMA DeltaKeepsRoom ==
    ASSUME RoomInv, AirConDelta
    PROVE  RoomInv'
<1>1. PICK power \in Found(DeltaPowers), target \in Found(DeltaTemperatures) :
        ShadowDelta(power, target)
  BY DEF AirConDelta
<1>2. CASE target = {}
  BY <1>1, <1>2 DEF ShadowDelta, RoomInv
<1>3. CASE target # {}
  <2>1. PICK v \in DeltaTemperatures : target = {v}
    BY <1>3 DEF Found
  <2>2. desired' = v
    BY <1>1, <2>1 DEF ShadowDelta
  <2>3. v \in UInt8
    BY AirConAssumption
  <2> QED
    BY <1>1, <2>2, <2>3 DEF ShadowDelta, RoomInv
<1> QED
  BY <1>2, <1>3

(* A period keeps the temperature in its 8 bits and brings it closer.      *)
LEMMA TimerMovesRoom ==
    ASSUME RoomInv, AirConTimer
    PROVE  RoomInv' /\ RoomPeriod
<1> USE DEF RoomInv
<1>1. /\ desired' = desired
      /\ temperature' = IF powerOn = 1 THEN Cooled(temperature, desired)
                        ELSE Warmed(temperature)
  BY DEF AirConTimer
<1>2. temperature' \in UInt8
  <2>1. CASE powerOn = 1 /\ desired # 0
    BY <1>1, <2>1, CooledApproaches
  <2>2. CASE powerOn = 1 /\ desired = 0
    <3>1. PICK m \in Nat \ {0} : m = Modulus
      BY AirConAssumption
    <3>2. temperature \in 0..(m - 1)
      BY <3>1 DEF UInt8
    <3>3. ((temperature + m - 1) % m) \in 0..(m - 1)
      BY <3>2
    <3> QED
      BY <1>1, <2>2, <3>1, <3>3 DEF Cooled, UInt8
  <2>3. CASE powerOn # 1
    BY <1>1, <2>3, WarmedApproaches
  <2> QED
    BY <2>1, <2>2, <2>3
<1>3. RoomPeriod
  BY <1>1, CooledApproaches, WarmedApproaches DEF RoomPeriod
<1> QED
  BY <1>1, <1>2, <1>3

(* Every period of prvAirConTimerCallback brings the room closer to where  *)
(* it should be, or leaves it there, from whatever 8 bits it has and for   *)
(* any width, limit and targets other than 0: what RoomSettles needs       *)
(* besides a timer that keeps firing.                                      *)
THEOREM RoomApproaches ==
    DeviceSpec => [][part = "airCon" /\ AirConTimer => RoomPeriod]_deviceVars
<1>1. DeviceInit => RoomInv
  <2>1. 0 \in UInt8
    BY AirConAssumption DEF UInt8
  <2> QED
    BY <2>1, AirConAssumption DEF DeviceInit, AirConInit, RoomInv
<1>2. RoomInv /\ [DeviceNext]_deviceVars => RoomInv'
  <2> SUFFICES ASSUME RoomInv, [DeviceNext]_deviceVars PROVE RoomInv'
    OBVIOUS
  <2>1. AirConNext \/ UNCHANGED airConVars
    BY DEF DeviceNext, MainRuns, InputRuns, NetworkRuns, DebugRuns, TextsRun,
           AirConRuns, deviceVars
  <2>2. CASE UNCHANGED airConVars
    BY <2>2 DEF airConVars, RoomInv
  <2> QED
    BY <2>1, <2>2, DeltaKeepsRoom, TimerMovesRoom DEF AirConNext
<1>3. RoomInv /\ [DeviceNext]_deviceVars
        => [part = "airCon" /\ AirConTimer => RoomPeriod]_deviceVars
  BY TimerMovesRoom
<1> QED
  BY <1>1, <1>2, <1>3, PTL DEF DeviceSpec
-----------------------------------------------------------------------------
(* The smartconfig acknowledger                                            *)

\* A task exists from its call on, and the counter is past the maximum only
\* when the task is on its way out.
CountInv ==
  /\ \A t \in Tasks : t > calls <=> pc[t] = "none"
  /\ \A t \in Tasks : sent[t] = packet_count[t] - 1
  /\ \A t \in Tasks : 1 <= packet_count[t] /\ packet_count[t] <= MaxCount + 1
  /\ \A t \in Tasks : packet_count[t] > MaxCount => pc[t] \in {"end", "gone"}
  /\ \A t \in link_over : packet_count[t] = MaxCount + 1

\* A task about to send has not sent since the flag was cleared.
LateInv ==
  /\ \A t \in Tasks : s_sc_ack_send \/ pc[t] = "send" => late[t] = 0
  /\ OneAckAfterStop

\* A task that goes round the outer loop with a socket was sent there by a
\* call that has not cost a socket yet.
LeakInv ==
  /\ \A t \in Tasks : overlapped[t] <= calls
  /\ \A t \in Tasks : pc[t] \in {"none", "start"} => ~has_socket[t]
  /\ \A t \in Tasks :
       /\ has_socket[t]
       /\ \/ pc[t] \in {"address", "socket"}
          \/ pc[t] = "outer" /\ s_sc_ack_send
       => LeakedSockets(t) < overlapped[t]
  /\ LeaksOnlyByRestart

AckInv == TypeOK /\ CountInv /\ LateInv /\ LeakInv

(* Tasks are numbered by the calls.                                        *)
LEMMA AckTasksAreInt == \A t \in Tasks : t \in Int
  BY BoundsAreNat DEF Tasks

(* Every call and every step of a task keeps the inductive invariant.      *)
LEMMA AckInductive == AckInv /\ [AckNext]_ackVars => AckInv'
<1> SUFFICES ASSUME AckInv, [AckNext]_ackVars PROVE AckInv'
  OBVIOUS
<1> USE AckTasksAreInt, BoundsAreNat DEF AckInv, interface, AckGoto
<1>1. CASE UNCHANGED ackVars
  BY <1>1 DEF ackVars, TypeOK, CountInv, LateInv, OneAckAfterStop, LeakInv,
              LeaksOnlyByRestart, LeakedSockets, Running
<1>2. CASE sc_ack_send
  <2> DEFINE new == calls + 1
  <2>1. PICK next \in {"start", "gone"} : pc' = [pc EXCEPT ![new] = next]
    BY <1>2 DEF sc_ack_send
  <2>2. /\ calls' = new /\ new \in Tasks /\ calls \in 0..MaxSends
        /\ new \in 0..MaxSends
        /\ s_sc_ack_send' = TRUE
        /\ UNCHANGED <<packet_count, has_socket, link_over, opened, sent>>
        /\ late' = [t \in Tasks |-> 0]
    BY <1>2 DEF sc_ack_send, TypeOK, Tasks
  <2>3. /\ \A t \in Tasks : pc'[t] = IF t = new THEN next ELSE pc[t]
        /\ pc[new] = "none"
    BY <2>1, <2>2 DEF TypeOK, CountInv
  <2>4. \A t \in Tasks :
          /\ overlapped'[t] = IF Running(t) THEN overlapped[t] + 1
                              ELSE overlapped[t]
          /\ overlapped[t] \in Nat /\ overlapped[t] <= calls
    BY <1>2 DEF sc_ack_send, TypeOK, LeakInv
  <2>5. \A t \in Tasks : overlapped'[t] \in Nat /\ overlapped'[t] <= new
    BY <2>2, <2>4
  <2>6. overlapped' \in [Tasks -> Nat]
    <3>1. overlapped' = [t \in Tasks |-> overlapped'[t]]
      BY <1>2 DEF sc_ack_send
    <3> QED
      BY <2>2, <2>5, <3>1
  <2>7. TypeOK'
    <3>1. late' \in [Tasks -> Nat]
      BY <2>2
    <3>2. pc' \in [Tasks -> {"none", "start", "outer", "address", "socket",
                            "inner", "send", "end", "gone"}]
      BY <2>1 DEF TypeOK
    <3> HIDE DEF new
    <3> QED
      BY <2>2, <2>6, <3>1, <3>2 DEF TypeOK
  <2>8. CountInv'
    <3>1. \A t \in Tasks : packet_count[t] > MaxCount => t # new
      BY <2>3 DEF CountInv
    <3>2. \A t \in Tasks : t > new <=> (t > calls /\ t # new)
      BY <2>2
    <3> QED
      BY <2>2, <2>3, <3>1, <3>2 DEF CountInv
  <2>9. LateInv'
    BY <2>2 DEF LateInv, OneAckAfterStop
  <2>10. LeakInv'
    <3>1. \A t \in Tasks : LeakedSockets(t)' = LeakedSockets(t)
      BY <2>2, <2>3 DEF LeakedSockets, Running, LeakInv
    <3>2. \A t \in Tasks : LeakedSockets(t) \in Int
      BY DEF LeakedSockets, TypeOK
    <3>3. \A t \in Tasks : 0 <= LeakedSockets(t)'
                          /\ LeakedSockets(t)' <= overlapped'[t]
      BY <2>4, <3>1, <3>2 DEF LeakInv, LeaksOnlyByRestart
    <3>4. \A t \in Tasks :
            /\ has_socket'[t]
            /\ \/ pc'[t] \in {"address", "socket"}
               \/ pc'[t] = "outer" /\ s_sc_ack_send'
            => LeakedSockets(t)' < overlapped'[t]
      BY <2>2, <2>3, <2>4, <3>1, <3>2
         DEF LeakInv, LeaksOnlyByRestart, Running
    <3>5. \A t \in Tasks : pc'[t] \in {"none", "start"} => ~has_socket'[t]
      BY <2>2, <2>3 DEF LeakInv
    <3>6. \A t \in Tasks : overlapped'[t] <= calls'
      BY <2>2, <2>5
    <3> QED
      BY <3>3, <3>4, <3>5, <3>6 DEF LeakInv, LeaksOnlyByRestart
  <2> QED
    BY <2>7, <2>8, <2>9, <2>10
<1>3. CASE sc_ack_send_stop
  <2>1. TypeOK'
    BY <1>3 DEF sc_ack_send_stop, TypeOK
  <2>2. CountInv'
    BY <1>3 DEF sc_ack_send_stop, TypeOK, CountInv
  <2>3. LateInv'
    BY <1>3 DEF sc_ack_send_stop, TypeOK, LateInv, OneAckAfterStop
  <2>4. LeakInv'
    BY <1>3 DEF sc_ack_send_stop, TypeOK, LeakInv, LeaksOnlyByRestart,
             LeakedSockets, Running
  <2> QED
    BY <2>1, <2>2, <2>3, <2>4
<1>4. ASSUME NEW t \in Tasks, Start(t) PROVE AckInv'
  <2>1. TypeOK'
    BY <1>4 DEF Start, TypeOK
  <2>2. CountInv'
    BY <1>4 DEF Start, TypeOK, CountInv
  <2>3. LateInv'
    BY <1>4 DEF Start, TypeOK, LateInv, OneAckAfterStop
  <2>4. LeakInv'
    BY <1>4 DEF Start, TypeOK, LeakInv, LeaksOnlyByRestart,
             LeakedSockets, Running
  <2> QED
    BY <2>1, <2>2, <2>3, <2>4
<1>5. ASSUME NEW t \in Tasks, OuterTest(t) PROVE AckInv'
  <2>1. TypeOK'
    BY <1>5 DEF OuterTest, TypeOK
  <2>2. CountInv'
    BY <1>5 DEF OuterTest, TypeOK, CountInv
  <2>3. LateInv'
    BY <1>5 DEF OuterTest, TypeOK, LateInv, OneAckAfterStop
  <2>4. LeakInv'
    BY <1>5 DEF OuterTest, TypeOK, LeakInv, LeaksOnlyByRestart,
             LeakedSockets, Running
  <2> QED
    BY <2>1, <2>2, <2>3, <2>4
<1>6. ASSUME NEW t \in Tasks, GetAddress(t) PROVE AckInv'
  <2>1. TypeOK'
    BY <1>6 DEF GetAddress, TypeOK
  <2>2. CountInv'
    BY <1>6 DEF GetAddress, TypeOK, CountInv
  <2>3. LateInv'
    BY <1>6 DEF GetAddress, TypeOK, LateInv, OneAckAfterStop
  <2>4. LeakInv'
    BY <1>6 DEF GetAddress, TypeOK, LeakInv, LeaksOnlyByRestart,
             LeakedSockets, Running
  <2> QED
    BY <2>1, <2>2, <2>3, <2>4
<1>7. ASSUME NEW t \in Tasks, CreateSocket(t) PROVE AckInv'
  <2>1. PICK valid \in BOOLEAN :
          /\ AckGoto(t, "socket", IF valid THEN "inner" ELSE "end")
          /\ has_socket' = [has_socket EXCEPT ![t] = valid]
          /\ opened' = [opened EXCEPT ![t] = IF valid THEN @ + 1 ELSE @]
    BY <1>7 DEF CreateSocket
  <2>2. /\ UNCHANGED <<interface, packet_count, link_over, sent, late>>
        /\ pc[t] = "socket"
        /\ pc' = [pc EXCEPT ![t] = IF valid THEN "inner" ELSE "end"]
    BY <1>7, <2>1 DEF CreateSocket
  <2>3. TypeOK'
    BY <2>1, <2>2 DEF TypeOK
  <2>4. CountInv'
    BY <2>2 DEF TypeOK, CountInv
  <2>5. LateInv'
    BY <2>2 DEF TypeOK, LateInv, OneAckAfterStop
  <2>6. LeakInv'
    <3>1. /\ LeakedSockets(t)' = opened[t]
          /\ LeakedSockets(t) = IF has_socket[t] THEN opened[t] - 1
                                ELSE opened[t]
          /\ opened[t] \in Nat /\ overlapped[t] \in Nat
      BY <2>1, <2>2 DEF TypeOK, LeakedSockets, Running
    <3>2. opened[t] <= overlapped[t]
      BY <2>2, <3>1 DEF LeakInv, LeaksOnlyByRestart
    <3>3. \A u \in Tasks \ {t} : LeakedSockets(u)' = LeakedSockets(u)
      BY <2>1, <2>2 DEF TypeOK, LeakedSockets, Running
    <3> QED
      BY <2>1, <2>2, <3>1, <3>2, <3>3 DEF TypeOK, LeakInv, LeaksOnlyByRestart
  <2> QED
    BY <2>3, <2>4, <2>5, <2>6
<1>8. ASSUME NEW t \in Tasks, InnerTest(t) PROVE AckInv'
  <2>1. TypeOK'
    BY <1>8 DEF InnerTest, TypeOK
  <2>2. CountInv'
    BY <1>8 DEF InnerTest, TypeOK, CountInv
  <2>3. LateInv'
    BY <1>8 DEF InnerTest, TypeOK, LateInv, OneAckAfterStop
  <2>4. LeakInv'
    BY <1>8 DEF InnerTest, TypeOK, LeakInv, LeaksOnlyByRestart,
             LeakedSockets, Running
  <2> QED
    BY <2>1, <2>2, <2>3, <2>4
<1>9. ASSUME NEW t \in Tasks, SendAck(t) PROVE AckInv'
  <2>1. /\ pc[t] = "send"
        /\ packet_count[t] \in Nat /\ 1 <= packet_count[t]
        /\ packet_count[t] <= MaxCount
        /\ sent[t] = packet_count[t] - 1
        /\ late[t] = 0
    BY <1>9 DEF SendAck, TypeOK, CountInv, LateInv
  <2>2. /\ UNCHANGED <<interface, has_socket, opened>>
        /\ packet_count' = [packet_count EXCEPT ![t] = @ + 1]
        /\ sent' = [sent EXCEPT ![t] = @ + 1]
        /\ late' = [late EXCEPT ![t] = IF s_sc_ack_send THEN @ ELSE @ + 1]
    BY <1>9 DEF SendAck
  <2>3. \/ /\ packet_count[t] < MaxCount /\ link_over' = link_over
           /\ pc' = [pc EXCEPT ![t] = "inner"]
        \/ /\ packet_count[t] = MaxCount /\ link_over' = link_over \union {t}
           /\ pc' = [pc EXCEPT ![t] = "end"]
    BY <1>9, <2>1 DEF SendAck
  <2>4. PICK next \in {"inner", "end"} : pc' = [pc EXCEPT ![t] = next]
    BY <2>3
  <2>5. TypeOK'
    <3>1. packet_count' \in [Tasks -> Nat]
      BY <2>1, <2>2 DEF TypeOK
    <3>2. sent' \in [Tasks -> Nat] /\ late' \in [Tasks -> Nat]
      BY <2>1, <2>2 DEF TypeOK
    <3>3. link_over' \subseteq Tasks
      BY <2>3 DEF TypeOK
    <3> QED
      BY <2>2, <2>4, <3>1, <3>2, <3>3 DEF TypeOK
  <2>6. CountInv'
    <3>1. /\ \A u \in Tasks : packet_count'[u] = IF u = t
                                 THEN packet_count[t] + 1 ELSE packet_count[u]
          /\ \A u \in Tasks : sent'[u] = IF u = t THEN sent[t] + 1 ELSE sent[u]
          /\ \A u \in Tasks : pc'[u] = IF u = t THEN next ELSE pc[u]
      BY <2>2, <2>4 DEF TypeOK
    <3>2. \A u \in Tasks : u > calls' <=> pc'[u] = "none"
      BY <2>1, <2>2, <3>1 DEF CountInv
    <3>3. \A u \in Tasks : sent'[u] = packet_count'[u] - 1
      BY <2>1, <3>1 DEF CountInv
    <3>6. \A u \in Tasks :
            1 <= packet_count'[u] /\ packet_count'[u] <= MaxCount + 1
      BY <2>1, <3>1 DEF CountInv
    <3>4. \A u \in Tasks :
            packet_count'[u] > MaxCount => pc'[u] \in {"end", "gone"}
      <4>1. packet_count'[t] > MaxCount => pc'[t] = "end"
        BY <2>1, <2>3, <3>1 DEF TypeOK
      <4> QED
        BY <3>1, <4>1 DEF CountInv
    <3>5. \A u \in link_over' : packet_count'[u] = MaxCount + 1
      <4>1. t \notin link_over
        BY <2>1 DEF CountInv
      <4> QED
        BY <2>3, <3>1, <4>1 DEF CountInv, TypeOK
    <3> QED
      BY <3>2, <3>3, <3>4, <3>5, <3>6 DEF CountInv
  <2>7. LateInv'
    BY <2>1, <2>2, <2>4 DEF TypeOK, LateInv, OneAckAfterStop
  <2>8. LeakInv'
    BY <2>1, <2>2, <2>4 DEF TypeOK, LeakInv, LeaksOnlyByRestart, LeakedSockets,
                            Running
  <2> QED
    BY <2>5, <2>6, <2>7, <2>8
<1>10. ASSUME NEW t \in Tasks, SendFails(t) PROVE AckInv'
  <2>1. TypeOK'
    BY <1>10 DEF SendFails, TypeOK
  <2>2. CountInv'
    BY <1>10 DEF SendFails, TypeOK, CountInv
  <2>3. LateInv'
    BY <1>10 DEF SendFails, TypeOK, LateInv, OneAckAfterStop
  <2>4. LeakInv'
    BY <1>10 DEF SendFails, TypeOK, LeakInv, LeaksOnlyByRestart,
             LeakedSockets, Running
  <2> QED
    BY <2>1, <2>2, <2>3, <2>4
<1>11. ASSUME NEW t \in Tasks, End(t) PROVE AckInv'
  <2>1. /\ pc[t] = "end" /\ pc' = [pc EXCEPT ![t] = "gone"]
        /\ opened' = [opened EXCEPT ![t] = IF has_socket[t] THEN @ - 1 ELSE @]
        /\ UNCHANGED <<interface, packet_count, has_socket, link_over, sent,
                       late>>
    BY <1>11 DEF End
  <2>2. /\ LeakedSockets(t) = IF has_socket[t] THEN opened[t] - 1 ELSE opened[t]
        /\ 0 <= LeakedSockets(t) /\ LeakedSockets(t) <= overlapped[t]
        /\ opened[t] \in Nat
    BY <2>1 DEF TypeOK, LeakInv, LeaksOnlyByRestart,
             LeakedSockets, Running
  <2>3. TypeOK'
    BY <2>1, <2>2 DEF TypeOK
  <2>4. CountInv'
    BY <2>1 DEF TypeOK, CountInv
  <2>5. LateInv'
    BY <2>1 DEF TypeOK, LateInv, OneAckAfterStop
  <2>6. LeakInv'
    <3>1. \A u \in Tasks : LeakedSockets(u)' = LeakedSockets(u)
      BY <2>1, <2>2 DEF TypeOK, LeakedSockets, Running
    <3> QED
      BY <2>1, <3>1 DEF TypeOK, LeakInv, LeaksOnlyByRestart
  <2> QED
    BY <2>3, <2>4, <2>5, <2>6
<1> QED
  BY <1>1, <1>2, <1>3, <1>4, <1>5, <1>6, <1>7, <1>8, <1>9, <1>10, <1>11
     DEF AckNext, sc_ack_send_task

(* The inductive invariant holds in every reachable state.                 *)
LEMMA AckInvariance == AckSpec => []AckInv
<1>1. AckInit => TypeOK
  <2>1. 0 \in 0..MaxSends /\ 0 \in Nat /\ 1 \in Nat
    BY BoundsAreNat
  <2> QED
    BY <2>1, Zenon DEF AckInit, TypeOK
<1>2. AckInit => CountInv /\ LateInv
  BY BoundsAreNat DEF AckInit, CountInv, LateInv, OneAckAfterStop, Tasks
<1>3. AckInit => LeakInv
  BY DEF AckInit, LeakInv, LeaksOnlyByRestart,
             LeakedSockets, Running
<1> QED
  BY <1>1, <1>2, <1>3, AckInductive, PTL DEF AckSpec, AckInv

(* Every variable keeps the values the code can give it.                   *)
THEOREM AckTypeCorrect == AckSpec => []TypeOK
<1>1. AckInv => TypeOK
  BY DEF AckInv
<1> QED
  BY <1>1, AckInvariance, PTL

(* The link is reported over after exactly MaxCount ACKs of the task.      *)
THEOREM LinkOverIsEarned == AckSpec => []LinkOverAfterAllAcks
<1>1. AckInv => LinkOverAfterAllAcks
  BY BoundsAreNat DEF AckInv, TypeOK, CountInv, LinkOverAfterAllAcks
<1> QED
  BY <1>1, AckInvariance, PTL

(* However the calls and the tasks interleave, a task sends at most one    *)
(* ACK between a stop and the next call.                                   *)
THEOREM StopIsPrompt == AckSpec => []OneAckAfterStop
<1>1. AckInv => OneAckAfterStop
  BY DEF AckInv, LateInv
<1> QED
  BY <1>1, AckInvariance, PTL

(* A task loses at most one socket for each call made while it runs, and   *)
(* none without such a call.                                               *)
THEOREM OnlyRestartsLeak == AckSpec => []LeaksOnlyByRestart
<1>1. AckInv => LeaksOnlyByRestart
  BY DEF AckInv, LeakInv
<1> QED
  BY <1>1, AckInvariance, PTL

(* The steps a task has left at most once the flag is cleared.             *)
StepsToEnd(label) ==
  CASE label = "address"            -> 5
    [] label \in {"socket", "send"} -> 4
    [] label \in {"start", "inner"} -> 3
    [] label = "outer"              -> 2
    [] label = "end"                -> 1
    [] OTHER                        -> 0

(* From a stop to the next call every step of a task brings it closer to   *)
(* its end and nobody else sends it back: after five steps it is gone,     *)
(* wherever the stop found it, for any number of calls and ACKs.  What     *)
(* StopEndsEveryTask needs besides is that the tasks run.                  *)
THEOREM StoppedTasksEnd ==
  AckSpec =>
    [][~s_sc_ack_send /\ ~s_sc_ack_send' =>
         \A t \in Tasks :
           /\ StepsToEnd(pc'[t]) <= StepsToEnd(pc[t])
           /\ sc_ack_send_task(t) => StepsToEnd(pc'[t]) < StepsToEnd(pc[t])
      ]_ackVars
<1> DEFINE Closer(t) ==
             /\ StepsToEnd(pc'[t]) <= StepsToEnd(pc[t])
             /\ sc_ack_send_task(t) => StepsToEnd(pc'[t]) < StepsToEnd(pc[t])
<1>1. ASSUME NEW label PROVE StepsToEnd(label) \in 0..5
  BY DEF StepsToEnd
<1>2. ASSUME TypeOK, ~s_sc_ack_send, NEW t \in Tasks, sc_ack_send_task(t)
      PROVE  /\ StepsToEnd(pc'[t]) < StepsToEnd(pc[t])
             /\ \A u \in Tasks \ {t} : pc'[u] = pc[u]
  BY <1>2 DEF TypeOK, StepsToEnd, AckGoto, sc_ack_send_task, Start, OuterTest,
              GetAddress, CreateSocket, InnerTest, SendAck, SendFails, End
<1>3. ASSUME TypeOK, ~s_sc_ack_send, ~s_sc_ack_send', AckNext,
             NEW t \in Tasks
      PROVE  Closer(t)
  <2>1. CASE sc_ack_send_task(t)
    <3>1. StepsToEnd(pc'[t]) < StepsToEnd(pc[t])
      BY <1>2, <1>3, <2>1
    <3>2. /\ StepsToEnd(pc'[t]) \in 0..5
          /\ StepsToEnd(pc[t]) \in 0..5
      BY <1>1
    <3> QED
      BY <3>1, <3>2
  <2>2. CASE ~sc_ack_send_task(t)
    <3>1. pc'[t] = pc[t]
      <4>1. CASE sc_ack_send
        BY <1>3, <4>1 DEF sc_ack_send
      <4>2. CASE sc_ack_send_stop
        BY <4>2 DEF sc_ack_send_stop
      <4>3. CASE \E u \in Tasks : sc_ack_send_task(u)
        BY <1>2, <1>3, <2>2, <4>3
      <4> QED
        BY <1>3, <4>1, <4>2, <4>3 DEF AckNext
    <3>2. StepsToEnd(pc[t]) \in 0..5
      BY <1>1
    <3> QED
      BY <2>2, <3>1, <3>2
  <2> QED
    BY <2>1, <2>2
<1>4. TypeOK /\ [AckNext]_ackVars =>
        [~s_sc_ack_send /\ ~s_sc_ack_send' => \A t \in Tasks : Closer(t)]_ackVars
  <2> HIDE DEF Closer
  <2> QED
    BY <1>3
<1> QED
  BY <1>4, AckTypeCorrect, PTL DEF AckSpec
=============================================================================
