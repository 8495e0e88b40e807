---------------------------- MODULE MbedtlsDebug ----------------------------
(***************************************************************************)
(* The debug log of mbedTLS (espressif_code/mbedtls/port/mbedtls_debug.c). *)
(* The callback belongs to one SSL configuration; the threshold of mbedTLS *)
(* and the level of the log tag belong to all of them.                     *)
(***************************************************************************)
EXTENDS Integers

CONSTANTS
    Configs,         \* mbedtls_ssl_config objects
    LogLocalLevel    \* CONFIG_LOG_DEFAULT_LEVEL: what is compiled in

VARIABLES
    threshold,   \* of mbedtls_debug_set_threshold
    tagLevel,    \* of esp_log_level_set for the tag
    callback,    \* the configurations whose f_dbg is mbedtls_esp_debug
    printed      \* the log level of the last message, 0 when it was dropped

debugVars == <<threshold, tagLevel, callback, printed>>

None == 0
Error == 1

DebugInit ==
    /\ threshold = 0
    /\ tagLevel = LogLocalLevel
    /\ callback = {}
    /\ printed = None

(* mbedTLS levels 1 to 4 are the log levels WARN (2) to VERBOSE (5).       *)
LogLevel(t) == IF t \in 1..4 THEN t + 1 ELSE None

EnableDebugLog(conf, t) ==
    /\ threshold' = t
    /\ callback' = callback \cup {conf}
    /\ tagLevel' = LogLevel(t)
    /\ UNCHANGED printed

DisableDebugLog(conf) ==
    /\ callback' = callback \ {conf}
    /\ UNCHANGED <<threshold, tagLevel, printed>>

(* mbedtls_esp_debug: a level out of 1 to 4 is an error of its own.        *)
EspDebug(level) ==
    LET log == IF level \in 1..4 THEN level + 1 ELSE Error
    IN  IF log <= tagLevel /\ log <= LogLocalLevel THEN log ELSE None

(* mbedTLS (external) calls back for messages up to its threshold.         *)
DebugMessage(conf, level) ==
    /\ conf \in callback /\ level <= threshold
    /\ printed' = EspDebug(level)
    /\ UNCHANGED <<threshold, tagLevel, callback>>

DebugNext ==
    \E conf \in Configs :
        \/ \E t \in 0..4 : EnableDebugLog(conf, t)
        \/ DisableDebugLog(conf)
        \/ \E level \in 1..4 : DebugMessage(conf, level)
==============================================================================
