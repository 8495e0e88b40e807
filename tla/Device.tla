------------------------------- MODULE Device -------------------------------
(***************************************************************************)
(* The parts of the device that share no variable with each other: the     *)
(* start of the program, the input for pairing, the TCP/IP adapter, the    *)
(* debug log of mbedTLS, the texts of the labs and the air conditioner.    *)
(* As no step of one can disturb another, a behaviour lets one part run,   *)
(* chosen at the start, and the others stay as they were initialised (the  *)
(* start of the program with one flash and one build).                     *)
(***************************************************************************)
EXTENDS AppMain, UserInput, TcpipAdapter, MbedtlsDebug, LabTexts, AirCon

VARIABLE part

Parts == {"main", "input", "network", "debug", "texts", "airCon"}

DeviceInit ==
    /\ AppInit /\ InputInit /\ NetInit /\ DebugInit /\ TextsInit /\ AirConInit
    /\ part \in Parts
    /\ part # "main" => nvs = "ready" /\ ble = "none"

MainRuns ==
    /\ part = "main" /\ AppNext
    /\ UNCHANGED <<part, inputVars, netVars, debugVars, textVars, airConVars>>

InputRuns ==
    /\ part = "input" /\ InputNext
    /\ UNCHANGED <<part, appVars, netVars, debugVars, textVars, airConVars>>

NetworkRuns ==
    /\ part = "network" /\ NetNext
    /\ UNCHANGED <<part, appVars, inputVars, debugVars, textVars, airConVars>>

DebugRuns ==
    /\ part = "debug" /\ DebugNext
    /\ UNCHANGED <<part, appVars, inputVars, netVars, textVars, airConVars>>

TextsRun ==
    /\ part = "texts" /\ TextsNext
    /\ UNCHANGED <<part, appVars, inputVars, netVars, debugVars, airConVars>>

AirConRuns ==
    /\ part = "airCon" /\ AirConNext
    /\ UNCHANGED <<part, appVars, inputVars, netVars, debugVars, textVars>>

DeviceNext ==
    MainRuns \/ InputRuns \/ NetworkRuns \/ DebugRuns \/ TextsRun \/ AirConRuns

deviceVars ==
    <<part, appVars, inputVars, netVars, debugVars, textVars, airConVars>>

(* A task that can go on does; the auto-reload timer keeps firing.         *)
DeviceSpec ==
    /\ DeviceInit /\ [][DeviceNext]_deviceVars
    /\ WF_appVars(part = "main" /\ AppStep)
    /\ WF_airConVars(part = "airCon" /\ AirConTimer)

-----------------------------------------------------------------------------
(* No content of the flash, and no finite number of calls that fail and    *)
(* cuts of the power, keeps the device in an endless loop of aborts and    *)
(* restarts: app_main returns, or spins after a Bluetooth failure          *)
(* (prvMiscInitialization and app_main of main.c).                         *)
BootSettles == part = "main" => <>[]AppSettled

(* Left alone, the room comes to rest where it should: at the limit when   *)
(* the unit stays off, at the target when it stays on, from whatever 8     *)
(* bits it was left with (prvAirConTimerCallback of                        *)
(* m5stickc_lab2_shadow.c).                                                *)
RoomSettles == part = "airCon" => WarmsToLimit /\ HoldsTarget
=============================================================================
