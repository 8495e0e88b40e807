------------------------------- MODULE LabTexts -------------------------------
(***************************************************************************)
(* The texts the labs write with snprintf into buffers of fixed size: the  *)
(* identifier made of the MAC address and the battery level on the display *)
(* (m5stickc_demo.c), the topic and the payload of lab 1                   *)
(* (m5stickc_lab1_aws_iot_button.c), the room temperature and the Shadow   *)
(* report of lab 2 (m5stickc_lab2_shadow.c), the last will and the client  *)
(* identifier (m5stickc_lab_connection.c).  A text is its length; a format *)
(* with one %s has two characters that the argument replaces.  When the    *)
(* texts are written, and by which task, is in M5Demo, Lab2Shadow and      *)
(* LabConnection.                                                          *)
(***************************************************************************)
EXTENDS Integers

CONSTANTS
    Voltages,     \* bound: readings of the battery, in steps of 1.1 mV
    Supplies,     \* bound: readings of the supply, in steps of 1.4 mV
    Powers,       \* bound: values of powerOn that are reported, 8 bits
    Temperatures, \* bound: temperatures that are reported, 8 bits
    MaxPublishes  \* bound: messages of lab 1

ASSUME LabTextsAssumption ==
    /\ Voltages \subseteq 0..4095 /\ Supplies \subseteq 0..4095
    /\ Powers \subseteq 0..255 /\ Temperatures \subseteq 0..255
    /\ MaxPublishes \in Nat

VARIABLES
    started,     \* where m5stickc_demo_run is
    id,          \* strM5StickCID
    texts,       \* the length and the buffer size of each text written
    vbat,        \* the last reading of the battery, -1 before the first
    level,       \* the percentage on the display
    charging,    \* the display says CHG
    reported,    \* the power and the temperature in the last report
    inFlight,    \* messages of lab 1 whose callback is outstanding
    publishes    \* messages of lab 1 so far

screenVars == <<vbat, level, charging>>
textVars == <<started, id, texts, screenVars, reported, inFlight, publishes>>

Names == {"id", "battery", "topic", "payload", "will", "client", "airCon", "report"}

(* What snprintf would have written, and where.                            *)
Text(length, size) == [length |-> length, size |-> size]
Empty == Text(0, 1)

Put(name, text) == texts' = [texts EXCEPT ![name] = text]

(* The digits of a number of at most 16 bits.                              *)
Digits(n) ==
    IF n < 10 THEN 1 ELSE IF n < 100 THEN 2 ELSE
    IF n < 1000 THEN 3 ELSE IF n < 10000 THEN 4 ELSE 5

(* %02u and %2d: as many, but two at least.                                *)
Padded(n) == IF n < 10 THEN 2 ELSE Digits(n)

TextsInit ==
    /\ started = "no"
    /\ id = 0
    /\ texts = [name \in Names |-> Empty]
    /\ vbat = -1
    /\ level = 0
    /\ charging = FALSE
    /\ reported = [power |-> 0, temperature |-> 35]
    /\ inFlight = 0
    /\ publishes = 0

-----------------------------------------------------------------------------
(* m5stickc_demo_run: two hexadecimal digits for each of the six bytes.    *)

MacBytes == 6

DemoRun ==
    /\ started = "no"
    /\ \/ started' = "yes" /\ id' = 2 * MacBytes
          /\ Put("id", Text(2 * MacBytes, 2 * MacBytes + 1))
       \/ started' = "failed" /\ UNCHANGED <<id, texts>>
    /\ UNCHANGED <<screenVars, reported, inFlight, publishes>>

-----------------------------------------------------------------------------
(* draw_battery_level, at the start and from the auto-reload timer         *)

UInt16(n) == n % 65536

(* C divides towards zero.                                                 *)
Quotient(n, d) == IF n < 0 THEN -((-n) \div d) ELSE n \div d

Percent(reading) ==
    LET b == (reading * 11) \div 10
    IN  UInt16(Quotient(b - 3000, 12))

(* Five characters, the level with two digits or more, and a percent sign. *)
BatteryLength(n) == 5 + Padded(n) + 1

(* mutant: a level that wrapped is drawn as it is                          *)
DrawUncapped(v, supply) ==
    /\ vbat' = v
    /\ charging' = ((supply * 14) \div 10 >= 4500)
    /\ level' = Percent(v)
    /\ Put("battery", Text(BatteryLength(level'), 11))

Draw(v, supply) ==
    /\ vbat' = v
    /\ charging' = ((supply * 14) \div 10 >= 4500)
    /\ level' = IF Percent(v) >= 100 THEN 99 ELSE Percent(v)
    /\ Put("battery", Text(BatteryLength(level'), 11))

(* A reading that fails leaves the display as it is.                       *)
DrawBatteryLevel ==
    /\ started = "yes"
    /\ \E v \in Voltages, supply \in Supplies : Draw(v, supply)
    /\ UNCHANGED <<started, id, reported, inFlight, publishes>>

-----------------------------------------------------------------------------
(* Lab 1                                                                   *)

TopicFormat == 11     \* m5stickc/%s
SingleFormat == 44    \* PUBLISH_PAYLOAD_FORMAT_SINGLE
HoldFormat == 42      \* PUBLISH_PAYLOAD_FORMAT_HOLD

Filled(format) == format - 2 + id

TopicBuffer == TopicFormat + 1 + 12
PayloadBuffer == SingleFormat + 1 + 12

(* m5stickc_lab1_action from its buffers to _publishMessage, which the     *)
(* connection layer may refuse.                                            *)
PublishMessage(format) ==
    /\ started = "yes" /\ publishes < MaxPublishes
    /\ texts' = [texts EXCEPT !["topic"] = Text(Filled(TopicFormat), TopicBuffer),
                              !["payload"] = Text(Filled(format), PayloadBuffer)]
    /\ publishes' = publishes + 1
    /\ inFlight' \in {inFlight, inFlight + 1}
    /\ UNCHANGED <<started, id, screenVars, reported>>

(* _operationCompleteCallback, whatever the result is.                     *)
OperationComplete ==
    /\ inFlight > 0
    /\ inFlight' = inFlight - 1
    /\ UNCHANGED <<started, id, texts, screenVars, reported, publishes>>

-----------------------------------------------------------------------------
(* The connection layer                                                    *)

WillFormat == 15      \* m5stickc/%s/lwt
WillBuffer == WillFormat + 12

Will ==
    /\ started = "yes"
    /\ Put("will", Text(Filled(WillFormat), WillBuffer))
    /\ UNCHANGED <<started, id, screenVars, reported, inFlight, publishes>>

(* The prefix and a time in milliseconds, 32 bits wide.                    *)
ClientIdentifier ==
    /\ started = "yes"
    /\ \E digits \in {1, 10} : Put("client", Text(8 + digits, 24))
    /\ UNCHANGED <<started, id, screenVars, reported, inFlight, publishes>>

-----------------------------------------------------------------------------
(* Lab 2                                                                   *)

ReportFormat == 79                   \* SHADOW_REPORTED_JSON
ReportSize == ReportFormat + 1 - 3   \* EXPECTED_REPORTED_JSON_SIZE
ReportBuffer == ReportSize + 1

(* %01d of the power, %2d of the temperature and %06lu of the client token *)
(* stand for 4 + 3 + 5 characters of the format; the token has six digits. *)
ReportLength(power, degrees) ==
    ReportFormat - (4 + 3 + 5) + Digits(power) + Padded(degrees) + 6

(* _reportShadow up to the update.  What a delta has set may be any 8 bits.*)
ReportShadow(power, degrees) ==
    /\ reported' = [power |-> power, temperature |-> degrees]
    /\ Put("report", Text(ReportLength(power, degrees), ReportBuffer))
    /\ UNCHANGED <<started, id, screenVars, inFlight, publishes>>

(* prvAirConTimerCallback: " ON " or "OFF " and the temperature.           *)
AirConText(degrees) ==
    /\ Put("airCon", Text(4 + Padded(degrees), 11))
    /\ UNCHANGED <<started, id, screenVars, reported, inFlight, publishes>>

TextsNext ==
    \/ DemoRun
    \/ DrawBatteryLevel
    \/ \E format \in {SingleFormat, HoldFormat} : PublishMessage(format)
    \/ OperationComplete
    \/ Will \/ ClientIdentifier
    \/ /\ started = "yes"
       /\ \E degrees \in Temperatures :
            \/ \E power \in Powers : ReportShadow(power, degrees)
            \/ AirConText(degrees)

-----------------------------------------------------------------------------

CutOff(text) == text.length >= text.size

(* The report has room for a power of one digit and a temperature of       *)
(* three.                                                                  *)
LongReport ==
    \/ reported.power > 99
    \/ reported.power > 9 /\ reported.temperature > 99

(* The one text that is ever cut off is the report of lab 2, and only when *)
(* a delta has set a power of two digits next to a temperature of three,   *)
(* or a power of three (_reportShadow of m5stickc_lab2_shadow.c).  Every   *)
(* other text, and the zero at its end, fits its buffer: the battery text  *)
(* for every voltage (draw_battery_level caps a level that has wrapped),   *)
(* topic, payload, last will and client identifier for the identifiers     *)
(* this program makes.                                                     *)
NothingElseIsCutOff ==
    \A name \in Names : CutOff(texts[name]) => name = "report" /\ LongReport
===============================================================================
