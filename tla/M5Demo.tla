------------------------------- MODULE M5Demo -------------------------------
(***************************************************************************)
(* The program of m5stickc_demo.c from boot to deep sleep, in the three    *)
(* builds its #ifdefs select (build), with the sleep timer of lab 0, the   *)
(* button action of lab 1 and the connection layer they share.  Three      *)
(* tasks meet here:                                                        *)
(*                                                                         *)
(*   main    runs m5stickc_demo_init once                                  *)
(*   loop    the event loop task, runs m5button_event_handler per event    *)
(*   daemon  the timer task, runs prvSleepTimerCallback                    *)
(*                                                                         *)
(* Deep sleep, a restart and a panic all lose the RAM: the next boot is a  *)
(* behaviour of its own, from Init, with woken telling what woke the chip. *)
(* Time is a number of ticks; SleepTicks of them make the 15 seconds of    *)
(* the sleep timer.                                                        *)
(***************************************************************************)
EXTENDS LabConnection, FiniteSets

CONSTANTS
    Builds,       \* the builds to look at: "LAB0", "LAB1", "LAB2"
    SleepTicks,   \* xSleepTimerFrequency_ms, in ticks
    MaxPresses    \* bound: events of button A in one boot

ASSUME BuildsAssumption == Builds \subseteq {"LAB0", "LAB1", "LAB2"}
ASSUME SleepTicksAssumption == SleepTicks \in Nat \ {0}
ASSUME MaxPressesAssumption == MaxPresses \in Nat
ASSUME TasksAssumption == Publishers = {"main", "loop"} /\ Updaters = {}

VARIABLES
    main,          \* where m5stickc_demo_init is
    loop,          \* where the button handler is
    daemon,        \* where the sleep timer callback is
    lab1Sem,       \* m5stickc_lab1_semaphore
    handlers,      \* buttons whose handler is registered
    queued,        \* events of button A the loop has yet to handle
    presses,       \* events of button A so far
    xSleepTimer,   \* the handle: 0 is NULL, n the n-th timer created
    left,          \* ticks until each timer fires, 0 when it is stopped
    due,           \* timer callbacks the daemon has yet to run
    idleFor,       \* ticks since the last event, up to SleepTicks
    build,         \* the lab the program was compiled for
    woken,         \* the wake up cause is EXT0
    device         \* on, asleep, restarted or panicked

mainVars == <<main, handlers>>
bootVars == <<build, woken>>
timerVars == <<xSleepTimer, left, due, idleFor>>
demoVars == <<mainVars, loop, daemon, lab1Sem, queued, presses, timerVars,
              bootVars, device>>
vars == <<connVars, demoVars>>

Timers == 1..2

Init ==
    /\ ConnInit
    /\ main = "boot"
    /\ loop = "idle"
    /\ daemon = "idle"
    /\ lab1Sem = "none"
    /\ handlers = {}
    /\ queued = 0
    /\ presses = 0
    /\ xSleepTimer = 0
    /\ left = [t \in Timers |-> 0]
    /\ due = 0
    /\ idleFor = 0
    /\ build \in Builds
    /\ woken \in BOOLEAN
    /\ device = "on"

-----------------------------------------------------------------------------
MainGoto(from, to) == main = from /\ main' = to

LoopGoto(from, to) == loop = from /\ loop' = to

DaemonGoto(from, to) == daemon = from /\ daemon' = to

(* m5stickc_lab0_init: a new timer, started; the handle of an older one is *)
(* overwritten.                                                            *)
Lab0Init ==
    /\ xSleepTimer' = xSleepTimer + 1
    /\ left' = [left EXCEPT ![xSleepTimer + 1] = SleepTicks]
    /\ idleFor' = 0
    /\ UNCHANGED due

(* mutant: the reset command is lost.                                      *)
Lab0ResetLost ==
    IF xSleepTimer = 0
      THEN device' = "panic" /\ UNCHANGED timerVars
      ELSE idleFor' = 0 /\ UNCHANGED <<xSleepTimer, left, due, device>>

(* m5stickc_lab0_event: xTimerReset through the handle.  The new period    *)
(* counts from the call, even if the daemon is busy and processes the      *)
(* command later.  FreeRTOS asserts that the handle is not NULL.           *)
Lab0Event ==
    IF xSleepTimer = 0
      THEN device' = "panic" /\ UNCHANGED timerVars
      ELSE /\ idleFor' = 0
           /\ left' = [left EXCEPT ![xSleepTimer] = SleepTicks]
           /\ UNCHANGED <<xSleepTimer, due, device>>

TakeLab1 == lab1Sem = "full" /\ lab1Sem' = "empty"

GiveLab1 == lab1Sem' = IF lab1Sem = "empty" THEN "full" ELSE lab1Sem

-----------------------------------------------------------------------------
(* m5stickc_demo_init                                                      *)

(* mutant: lab 0 starts its timer only at the end of the start-up.         *)
InitWithoutEarlyTimer ==
    /\ \E ok \in BOOLEAN :
         MainGoto("boot", CASE ~ok -> "failed"
                            [] ok /\ build = "LAB2" -> "lab2Init"
                            [] ok /\ build # "LAB2" -> "registerA")
    /\ UNCHANGED <<connVars, handlers, loop, daemon, lab1Sem, queued, presses,
                   timerVars, bootVars, device>>

(* m5_init and the display, with their early returns.                      *)
InitHardware ==
    /\ \E ok \in BOOLEAN :
         MainGoto("boot", CASE ~ok -> "failed"
                            [] ok /\ build = "LAB0" -> "lab0Early"
                            [] ok /\ build = "LAB1" -> "registerA"
                            [] ok /\ build = "LAB2" -> "lab2Init")
    /\ UNCHANGED <<connVars, handlers, loop, daemon, lab1Sem, queued, presses,
                   timerVars, bootVars, device>>

Lab0Early ==
    /\ MainGoto("lab0Early", "registerA")
    /\ Lab0Init
    /\ UNCHANGED <<connVars, handlers, loop, daemon, lab1Sem, queued, presses,
                   bootVars, device>>

Lab2Init ==
    /\ MainGoto("lab2Init", "registerA")
    /\ ConnectionInit(ShadowCallbacks)
    /\ UNCHANGED <<handlers, loop, daemon, lab1Sem, queued, presses, timerVars,
                   bootVars, device>>

RegisterA ==
    /\ \/ MainGoto("registerA", "registerB") /\ handlers' = {"A"}
       \/ MainGoto("registerA", "failed") /\ UNCHANGED handlers
    /\ UNCHANGED <<connVars, loop, daemon, lab1Sem, queued, presses, timerVars,
                   bootVars, device>>

RegisterB ==
    /\ \/ /\ MainGoto("registerB",
                      IF build = "LAB0" THEN "lab0Init" ELSE "createSem")
          /\ handlers' = {"A", "B"}
       \/ MainGoto("registerB", "failed") /\ UNCHANGED handlers
    /\ UNCHANGED <<connVars, loop, daemon, lab1Sem, queued, presses, timerVars,
                   bootVars, device>>

(* Without the semaphore lab 1 is initialised all the same.                *)
CreateLab1Sem ==
    /\ \/ MainGoto("createSem", "postSem") /\ lab1Sem' = "empty"
       \/ /\ MainGoto("createSem",
                      IF build = "LAB1" THEN "lab1Init" ELSE "done")
          /\ UNCHANGED lab1Sem
    /\ UNCHANGED <<connVars, handlers, loop, daemon, queued, presses,
                   timerVars, bootVars, device>>

PostLab1Sem ==
    /\ MainGoto("postSem", IF build = "LAB1" THEN "lab1Init" ELSE "done")
    /\ GiveLab1
    /\ UNCHANGED <<connVars, handlers, loop, daemon, queued, presses,
                   timerVars, bootVars, device>>

(* m5stickc_lab1_init drops the result of m5stickc_lab_connection_init.    *)
Lab1Init ==
    /\ MainGoto("lab1Init",
                IF lab1Sem = "none" THEN "lab0Init" ELSE "takeSem")
    /\ ConnectionInit({})
    /\ UNCHANGED <<handlers, loop, daemon, lab1Sem, queued, presses, timerVars,
                   bootVars, device>>

(* The press that woke the device is published before anything else.       *)
MainTakeSem ==
    /\ MainGoto("takeSem", "giveSem")
    /\ TakeLab1
    /\ IF woken THEN CallReadyWait("main") ELSE UNCHANGED connVars
    /\ UNCHANGED <<handlers, loop, daemon, queued, presses, timerVars,
                   bootVars, device>>

(* mutant: the start-up keeps the semaphore.                               *)
MainKeepsSem ==
    /\ MainGoto("giveSem", "lab0Init")
    /\ call["main"] = "out"
    /\ UNCHANGED <<connVars, handlers, loop, daemon, lab1Sem, queued, presses,
                   timerVars, bootVars, device>>

MainGiveSem ==
    /\ MainGoto("giveSem", "lab0Init")
    /\ call["main"] = "out"
    /\ GiveLab1
    /\ UNCHANGED <<connVars, handlers, loop, daemon, queued, presses,
                   timerVars, bootVars, device>>

Lab0InitLast ==
    /\ MainGoto("lab0Init", "done")
    /\ Lab0Init
    /\ UNCHANGED <<connVars, handlers, loop, daemon, lab1Sem, queued, presses,
                   bootVars, device>>

-----------------------------------------------------------------------------
(* m5stickc_lab1_action, from its wait for readiness on.  A semaphore of   *)
(* the connection that was never created panics the kernel.                *)
Lab1Action(c) ==
    /\ IF call[c] = "readyWait" /\ ~Created("connectionReady")
         THEN device' = "panic" /\ UNCHANGED connVars
         ELSE /\ ReadyTake(c) \/ ReadyPost(c) \/ PublishCheck(c) \/ Publish(c)
              /\ UNCHANGED device
    /\ UNCHANGED <<mainVars, loop, daemon, lab1Sem, queued, presses,
                   timerVars, bootVars>>

-----------------------------------------------------------------------------
(* The event loop: m5button_event_handler                                  *)

Press ==
    /\ "A" \in handlers
    /\ presses < MaxPresses
    /\ presses' = presses + 1
    /\ queued' = queued + 1
    /\ UNCHANGED <<connVars, mainVars, loop, daemon, lab1Sem, timerVars,
                   bootVars, device>>

HandlerStarts ==
    /\ queued > 0
    /\ queued' = queued - 1
    /\ LoopGoto("idle", CASE build = "LAB0" -> "resetAfter"
                          [] build = "LAB1" -> "reset"
                          [] build = "LAB2" -> "takeSem")
    /\ UNCHANGED <<connVars, mainVars, daemon, lab1Sem, presses, timerVars,
                   bootVars, device>>

LoopReset ==
    /\ LoopGoto("reset", "takeSem")
    /\ Lab0Event
    /\ UNCHANGED <<connVars, mainVars, daemon, lab1Sem, queued, presses,
                   bootVars>>

LoopTakeSem ==
    /\ loop = "takeSem"
    /\ IF lab1Sem = "none"
         THEN device' = "panic" /\ UNCHANGED <<connVars, loop, lab1Sem>>
         ELSE /\ TakeLab1
              /\ loop' = "giveSem"
              /\ CallReadyWait("loop")
              /\ UNCHANGED device
    /\ UNCHANGED <<mainVars, daemon, queued, presses, timerVars, bootVars>>

(* mutant: the handler returns with the semaphore.                         *)
LoopKeepsSem ==
    /\ LoopGoto("giveSem", IF build = "LAB1" THEN "resetAfter" ELSE "idle")
    /\ call["loop"] = "out"
    /\ UNCHANGED <<connVars, mainVars, daemon, lab1Sem, queued, presses,
                   timerVars, bootVars, device>>

LoopGiveSem ==
    /\ LoopGoto("giveSem", IF build = "LAB1" THEN "resetAfter" ELSE "idle")
    /\ call["loop"] = "out"
    /\ GiveLab1
    /\ UNCHANGED <<connVars, mainVars, daemon, queued, presses, timerVars,
                   bootVars, device>>

LoopResetAfter ==
    /\ LoopGoto("resetAfter", "idle")
    /\ Lab0Event
    /\ UNCHANGED <<connVars, mainVars, daemon, lab1Sem, queued, presses,
                   bootVars>>

ButtonBHold ==
    /\ "B" \in handlers
    /\ loop = "idle"
    /\ device' = "restarted"
    /\ UNCHANGED <<connVars, mainVars, loop, daemon, lab1Sem, queued, presses,
                   timerVars, bootVars>>

-----------------------------------------------------------------------------
(* Time and the timer daemon                                               *)

(* The daemon starts a callback that is due before the next tick.          *)
Tick ==
    /\ ~(daemon = "idle" /\ due > 0)
    /\ left' = [t \in Timers |-> IF left[t] = 0 THEN 0 ELSE left[t] - 1]
    /\ due' = due + Cardinality({t \in Timers : left[t] = 1})
    /\ idleFor' = IF idleFor = SleepTicks THEN SleepTicks ELSE idleFor + 1
    /\ UNCHANGED <<connVars, mainVars, loop, daemon, lab1Sem, queued, presses,
                   xSleepTimer, bootVars, device>>

(* prvSleepTimerCallback                                                   *)
SleepTimerCallback ==
    /\ due > 0
    /\ due' = due - 1
    /\ DaemonGoto("idle", IF build = "LAB1" THEN "takeSem" ELSE "enableWakeup")
    /\ UNCHANGED <<connVars, mainVars, loop, lab1Sem, queued, presses,
                   xSleepTimer, left, idleFor, bootVars, device>>

(* The semaphore is never given back.                                      *)
DaemonTakeSem ==
    /\ daemon = "takeSem"
    /\ IF lab1Sem = "none"
         THEN device' = "panic" /\ UNCHANGED <<daemon, lab1Sem>>
         ELSE TakeLab1 /\ daemon' = "cleanUp" /\ UNCHANGED device
    /\ UNCHANGED <<connVars, mainVars, loop, queued, presses, timerVars,
                   bootVars>>

(* mutant: the semaphore is given back as every other task does.           *)
DaemonGivesBack ==
    /\ DaemonGoto("cleanUp", "enableWakeup")
    /\ IF Created("cleanUpReady")
         THEN RequestCleanup /\ UNCHANGED device
         ELSE device' = "panic" /\ UNCHANGED connVars
    /\ GiveLab1
    /\ UNCHANGED <<mainVars, loop, queued, presses, timerVars, bootVars>>

(* prvDeepSleep asks for the clean up and does not wait for it.            *)
DaemonCleanUp ==
    /\ DaemonGoto("cleanUp", "enableWakeup")
    /\ IF Created("cleanUpReady")
         THEN RequestCleanup /\ UNCHANGED device
         ELSE device' = "panic" /\ UNCHANGED connVars
    /\ UNCHANGED <<mainVars, loop, lab1Sem, queued, presses, timerVars,
                   bootVars>>

EnableWakeup ==
    /\ \/ DaemonGoto("enableWakeup", "powerDown")
       \/ DaemonGoto("enableWakeup", "idle")
    /\ UNCHANGED <<connVars, mainVars, loop, lab1Sem, queued, presses,
                   timerVars, bootVars, device>>

PowerDown ==
    /\ \/ daemon = "powerDown" /\ device' = "asleep" /\ UNCHANGED daemon
       \/ DaemonGoto("powerDown", "idle") /\ UNCHANGED device
    /\ UNCHANGED <<connVars, mainVars, loop, lab1Sem, queued, presses,
                   timerVars, bootVars>>

-----------------------------------------------------------------------------
MainStep ==
    \/ InitHardware \/ Lab0Early \/ Lab2Init \/ RegisterA \/ RegisterB
    \/ CreateLab1Sem \/ PostLab1Sem \/ Lab1Init \/ MainTakeSem \/ MainGiveSem
    \/ Lab0InitLast

LoopStep ==
    \/ HandlerStarts \/ LoopReset \/ LoopTakeSem \/ LoopGiveSem
    \/ LoopResetAfter

DaemonStep ==
    \/ SleepTimerCallback \/ DaemonTakeSem \/ DaemonCleanUp \/ EnableWakeup
    \/ PowerDown

(* vLab2NetworkDisconnectedCallback: the network manager calls it, for the *)
(* thread that is waiting for the network or has found it.                 *)
Lab2NetworkDisconnected ==
    /\ build = "LAB2"
    /\ thread \notin {"absent", "failed"}
    /\ RequestCleanup

ConnectionStep ==
    /\ \/ NetworkUp
       \/ ThreadStep
       \/ ConnectionDrops
       \/ Lab2NetworkDisconnected
    /\ UNCHANGED demoVars

Next ==
    /\ device = "on"
    /\ \/ MainStep \/ LoopStep \/ DaemonStep \/ ConnectionStep
       \/ \E c \in Publishers : Lab1Action(c)
       \/ Press \/ ButtonBHold \/ Tick

Spec == Init /\ [][Next]_vars

(* Every task runs when it can and time passes; a task that waits for a    *)
(* semaphore gets it when it is posted again and again (FreeRTOS serves    *)
(* the waiting tasks in order).  The network need never come up, and       *)
(* nobody has to press a button.                                           *)
Fairness ==
    /\ WF_vars(device = "on" /\ MainStep)
    /\ SF_vars(device = "on" /\ MainTakeSem)
    /\ WF_vars(device = "on" /\ LoopStep)
    /\ SF_vars(device = "on" /\ LoopTakeSem)
    /\ WF_vars(device = "on" /\ DaemonStep)
    /\ SF_vars(device = "on" /\ DaemonTakeSem)
    /\ WF_vars(device = "on" /\ Tick)
    /\ WF_vars(device = "on" /\ ThreadStep /\ UNCHANGED demoVars)
    /\ \A c \in Publishers : WF_vars(device = "on" /\ Lab1Action(c))

FairSpec == Spec /\ Fairness

-----------------------------------------------------------------------------
(* What the program guarantees                                             *)

(* From the moment the sleep callback of lab 1 has the semaphore, through  *)
(* the clean up it asks for and a sleep that fails, no task is inside      *)
(* lab1_action any more; so none publishes on a connection that is gone.   *)
GoingDown ==
    \/ daemon \in {"cleanUp", "enableWakeup", "powerDown"}
    \/ sem["cleanUpReady"] \in {"full", "destroyed"}
    \/ thread \in Settled \ {"postDelta", "waitCleanUp"}

NoActionGoingDown ==
    build = "LAB1" /\ GoingDown => \A c \in Publishers : call[c] = "out"

(* An event that resets the sleep timer finds one (lab0_event). The LAB0   *)
(* build starts its timer before it registers a handler for this; LAB1     *)
(* starts it last, and an early press panics.                              *)
ResetFindsTimer ==
    build = "LAB0" /\ loop \in {"reset", "resetAfter"} => xSleepTimer # 0

(* In every build, the timer behind the handle fires only when no event    *)
(* has reset it for its whole period, however late the daemon handles the  *)
(* resets.  (In LAB0 the first of the two timers m5stickc_demo_init        *)
(* creates is no longer behind the handle: no event resets it.)            *)
CurrentTimerHonoursReset ==
    [][(xSleepTimer # 0 /\ left[xSleepTimer] = 1 /\ left'[xSleepTimer] = 0)
          => idleFor' = SleepTicks]_vars

(* A press that is handled once the connection attempt is over ends with   *)
(* the handler idle again, unless the device stops or the sleep callback   *)
(* took the semaphore first.                                               *)
PressHandled ==
    (thread \in Settled /\ loop # "idle") ~>
        (loop = "idle" \/ device # "on" \/ GoingDown)

(* A lab 1 action holds m5stickc_lab1_semaphore and waits to be told that  *)
(* the connection is ready, which nobody will tell it: the thread waits    *)
(* for the network, or could not be created.                               *)
WaitsForConnection ==
    /\ build = "LAB1"
    /\ thread \in {"network", "failed"}
    /\ \E c \in Publishers : call[c] = "readyWait"

(* A device of lab 0 or lab 1 goes down or tries to, from its boot on: the *)
(* sleep callback gets as far as the power management, although it has to  *)
(* wait for a task that is inside lab1_action.  Two things keep it up, and *)
(* nothing else: a start-up that failed before it had a sleep timer, and   *)
(* an action that waits for a connection for ever.  The latter is what a   *)
(* press does while there is no network: it stays in the wait for          *)
(* readiness with the semaphore, and the callback (m5stickc_demo.c:362)    *)
(* never gets it; when the press is the one that woke the device, the      *)
(* start-up itself stays there and the timer is never created.             *)
TriesToSleep ==
    (main = "boot" /\ build # "LAB2") ~>
        \/ device # "on"
        \/ daemon \in {"enableWakeup", "powerDown"}
        \/ main = "failed" /\ xSleepTimer = 0
        \/ []WaitsForConnection
=============================================================================
