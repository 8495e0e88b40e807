------------------------------- MODULE AirCon -------------------------------
(***************************************************************************)
(* The air conditioner that lab 2 simulates (m5stickc_lab2_shadow.c): the  *)
(* power and the two temperatures, the timer that moves the room           *)
(* temperature, and the Shadow deltas that set the power and the target.   *)
(* Temperatures are uint8_t and wrap.                                      *)
(***************************************************************************)
EXTENDS Naturals

CONSTANTS
    Modulus,              \* 256: temperatures are uint8_t
    InitialTemperature,   \* 35
    WarmLimit,            \* 40, where the room stops warming up
    DeltaPowers,          \* bound: values of "powerOn" in a delta
    DeltaTemperatures     \* bound: values of "temperature" in a delta

UInt8 == 0..(Modulus - 1)

ASSUME AirConAssumption ==
    /\ Modulus \in Nat /\ Modulus > 2
    /\ InitialTemperature \in UInt8
    /\ WarmLimit \in 1..(Modulus - 2)
    /\ InitialTemperature <= WarmLimit
    /\ DeltaPowers \subseteq UInt8
    /\ DeltaTemperatures \subseteq UInt8

VARIABLES
    powerOn,       \* shadowStateReported.powerOn
    temperature,   \* shadowStateReported.temperature
    desired        \* shadowStateDesired.temperature

airConVars == <<powerOn, temperature, desired>>

AirConInit ==
    /\ powerOn = 0
    /\ temperature = InitialTemperature
    /\ desired = 0

(* mutant: no clamp.                                                       *)
CooledFreely(t, target) == (t + Modulus - 1) % Modulus

(* One period with the power on: down by one, but not below the target.    *)
Cooled(t, target) ==
    LET lower == (t + Modulus - 1) % Modulus
    IN  IF lower < target THEN target ELSE lower

(* One period with the power off: up by one to the limit.                  *)
Warmed(t) ==
    LET higher == (t + 1) % Modulus
    IN  IF higher > WarmLimit THEN WarmLimit ELSE higher

(* prvAirConTimerCallback up to its report                                 *)
AirConTimer ==
    /\ temperature' = IF powerOn = 1 THEN Cooled(temperature, desired)
                                     ELSE Warmed(temperature)
    /\ UNCHANGED <<powerOn, desired>>

(* A key of a delta document is there with one value, or not at all.       *)
Found(values) == {{}} \cup {{v} : v \in values}

(* _shadowDeltaCallback up to its report; power and target hold the value  *)
(* of the key when it was found.  The desired power is only logged.        *)
ShadowDelta(power, target) ==
    /\ powerOn' = IF power = {} THEN powerOn ELSE CHOOSE v \in power : TRUE
    /\ desired' = IF target = {} THEN desired ELSE CHOOSE v \in target : TRUE
    /\ UNCHANGED temperature

AirConDelta ==
    \E power \in Found(DeltaPowers), target \in Found(DeltaTemperatures) :
        ShadowDelta(power, target)

AirConNext == AirConTimer \/ AirConDelta

-----------------------------------------------------------------------------
(* A unit that stays off warms the room up to the limit and stays there,   *)
(* whatever its 8 bits held when it was switched off.                      *)
WarmsToLimit ==
    <>[](powerOn # 1) => <>[](temperature = WarmLimit)

(* A unit that stays on with a target other than 0 reaches it and holds it *)
(* even from a temperature that wrapped; a target of 0 it would leave.     *)
HoldsTarget ==
    \A d \in DeltaTemperatures \ {0} :
        <>[](powerOn = 1 /\ desired = d) => <>[](temperature = d)
=============================================================================
