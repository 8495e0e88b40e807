------------------------------- MODULE AppMain -------------------------------
(***************************************************************************)
(* The start of the program (main.c), from power on to the demos: the      *)
(* flash partition that keeps settings, the start-up calls that abort when *)
(* one fails, and the Bluetooth stack in the builds BLE_ENABLED and        *)
(* CONFIG_NIMBLE_ENABLED select.  An abort restarts the chip               *)
(* (CONFIG_ESP32_PANIC_PRINT_REBOOT), which loses the RAM and keeps the    *)
(* flash.                                                                  *)
(***************************************************************************)
EXTENDS Naturals, Sequences

CONSTANTS
    BleBuilds,   \* the builds to look at: "none", "bluedroid", "nimble"
    MaxFaults    \* bound: calls that fail, flashes that fill up, power cuts

ASSUME AppMainAssumption ==
    BleBuilds \subseteq {"none", "bluedroid", "nimble"} /\ MaxFaults \in Nat

VARIABLES
    nvs,      \* the flash partition: "ready", "noFreePages", "newVersion"
    ble,      \* the build
    app,      \* where app_main is
    radio,    \* the Bluetooth calls that returned ESP_OK in this boot
    faults    \* faults so far

appVars == <<nvs, ble, app, radio, faults>>

AppStates ==
    {"nvsInit", "nvsErase", "nvsInitAgain", "inputs", "tasks", "system",
     "keys", "bluetooth", "demos", "returned", "spinning", "aborted"}

AppInit ==
    /\ nvs \in {"ready", "noFreePages", "newVersion"}
    /\ ble \in BleBuilds
    /\ app = "nvsInit"
    /\ radio = <<>>
    /\ faults = 0

Fault == faults < MaxFaults /\ faults' = faults + 1

AppGoto(from, to) == app = from /\ app' = to

(* ESP_ERROR_CHECK of a call that fails.                                   *)
Aborts(from) == AppGoto(from, "aborted") /\ Fault /\ UNCHANGED <<nvs, ble, radio>>

-----------------------------------------------------------------------------
(* prvMiscInitialization                                                   *)

NvsReady(from) ==
    /\ AppGoto(from, IF ble = "none" THEN "tasks" ELSE "inputs")
    /\ nvs = "ready"
    /\ UNCHANGED <<nvs, ble, radio, faults>>

(* mutant: only a partition without free pages is erased.                  *)
NvsInitForgetsVersion ==
    \/ NvsReady("nvsInit")
    \/ /\ AppGoto("nvsInit", IF nvs = "newVersion" THEN "aborted" ELSE "nvsErase")
       /\ nvs # "ready"
       /\ UNCHANGED <<nvs, ble, radio, faults>>
    \/ Aborts("nvsInit")

NvsInit ==
    \/ NvsReady("nvsInit")
    \/ /\ AppGoto("nvsInit", "nvsErase")
       /\ nvs # "ready"
       /\ UNCHANGED <<nvs, ble, radio, faults>>
    \/ Aborts("nvsInit")

NvsErase ==
    \/ /\ AppGoto("nvsErase", "nvsInitAgain")
       /\ nvs' = "ready"
       /\ UNCHANGED <<ble, radio, faults>>
    \/ Aborts("nvsErase")

NvsInitAgain == NvsReady("nvsInitAgain") \/ Aborts("nvsInitAgain")

(* NumericComparisonInit and spp_uart_init, which checks nothing.          *)
InputsInit ==
    /\ AppGoto("inputs", "tasks")
    /\ UNCHANGED <<nvs, ble, radio, faults>>

(* The logging task and vApplicationIPInit.                                *)
TasksInit ==
    /\ AppGoto("tasks", "system")
    /\ UNCHANGED <<nvs, ble, radio, faults>>

-----------------------------------------------------------------------------
(* app_main after that                                                     *)

(* Without the libraries of SYSTEM_Init there is no demo.                  *)
SystemInit ==
    /\ \/ AppGoto("system", "keys") /\ UNCHANGED faults
       \/ AppGoto("system", "returned") /\ Fault
    /\ UNCHANGED <<nvs, ble, radio>>

(* vDevModeKeyProvisioning reports nothing that app_main would look at.    *)
ProvisionKeys ==
    /\ AppGoto("keys", "bluetooth")
    /\ UNCHANGED <<nvs, ble, radio, faults>>

(* The calls of prvBLEStackInit, or what app_main calls instead.           *)
BluedroidCalls ==
    <<"releaseClassic", "controllerInit", "controllerEnable", "bluedroidInit",
      "bluedroidEnable">>
NimbleCalls == <<"nimbleInit">>
ReleaseCalls == <<"releaseClassic", "releaseBle">>

BluetoothCalls ==
    CASE ble = "bluedroid" -> BluedroidCalls
      [] ble = "nimble" -> NimbleCalls
      [] ble = "none" -> ReleaseCalls

(* A call that fails makes the later ones not happen; app_main spins.  A   *)
(* release of memory is checked with ESP_ERROR_CHECK instead.              *)
BluetoothCall ==
    /\ app = "bluetooth"
    /\ Len(radio) < Len(BluetoothCalls)
    /\ LET call == BluetoothCalls[Len(radio) + 1]
       IN  \/ radio' = Append(radio, call) /\ UNCHANGED <<app, faults>>
           \/ /\ Fault
              /\ app' = IF call \in {"releaseClassic", "releaseBle"}
                        THEN "aborted" ELSE "spinning"
              /\ UNCHANGED radio
    /\ UNCHANGED <<nvs, ble>>

BluetoothDone ==
    /\ Len(radio) = Len(BluetoothCalls)
    /\ AppGoto("bluetooth", "demos")
    /\ UNCHANGED <<nvs, ble, radio, faults>>

RunDemos ==
    /\ AppGoto("demos", "returned")
    /\ UNCHANGED <<nvs, ble, radio, faults>>

-----------------------------------------------------------------------------
(* The chip (external)                                                     *)

Restarted == app' = "nvsInit" /\ radio' = <<>>

PanicReboot ==
    /\ app = "aborted"
    /\ Restarted
    /\ UNCHANGED <<nvs, ble, faults>>

PowerCut ==
    /\ Fault
    /\ Restarted
    /\ UNCHANGED <<nvs, ble>>

(* What runs writes settings, until no page is left.                       *)
FlashFills ==
    /\ app = "returned" /\ nvs = "ready"
    /\ Fault
    /\ nvs' = "noFreePages"
    /\ UNCHANGED <<ble, app, radio>>

AppStep ==
    \/ NvsInit \/ NvsErase \/ NvsInitAgain \/ InputsInit \/ TasksInit
    \/ SystemInit \/ ProvisionKeys \/ BluetoothCall \/ BluetoothDone \/ RunDemos
    \/ PanicReboot

AppNext == AppStep \/ PowerCut \/ FlashFills

(* Where app_main comes to rest: returned to the scheduler, or spinning    *)
(* after a Bluetooth call that failed.                                     *)
AppSettled == app \in {"returned", "spinning"}
==============================================================================
