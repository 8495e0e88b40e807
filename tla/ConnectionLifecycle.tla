------------------------- MODULE ConnectionLifecycle -------------------------
(***************************************************************************)
(* What the connection layer promises to the labs, without threads,        *)
(* semaphores or library calls.  There is one attempt to connect.  While   *)
(* it runs it may acquire resources (library state, a connection); nobody  *)
(* gets past the wait for readiness before the attempt is over, whether it *)
(* succeeded or not; and once the layer has ended it holds nothing.        *)
(***************************************************************************)

CONSTANT Clients

VARIABLES
    phase,      \* attempting, then settled, then ended
    resources,  \* what the layer holds: nothing, libraries, or a connection
    inside      \* clients that got past the wait for readiness

lifecycleVars == <<phase, resources, inside>>

LifecycleTypeOK ==
    /\ phase \in {"attempting", "settled", "ended"}
    /\ resources \in {"nothing", "libraries", "connection"}
    /\ inside \subseteq Clients

LifecycleInit ==
    /\ phase = "attempting"
    /\ resources = "nothing"
    /\ inside = {}

Acquire ==
    /\ phase = "attempting"
    /\ \/ resources = "nothing" /\ resources' = "libraries"
       \/ resources = "libraries" /\ resources' = "connection"
    /\ UNCHANGED <<phase, inside>>

Settle ==
    /\ phase = "attempting"
    /\ phase' = "settled"
    /\ UNCHANGED <<resources, inside>>

(* Resources go in the order opposite to the one they came in, and the     *)
(* layer ends with the last of them.                                       *)
Release ==
    /\ phase = "settled"
    /\ resources = "connection"
    /\ resources' = "libraries"
    /\ UNCHANGED <<phase, inside>>

End ==
    /\ phase = "settled"
    /\ resources # "connection"
    /\ resources' = "nothing"
    /\ phase' = "ended"
    /\ UNCHANGED inside

Enter(c) ==
    /\ phase # "attempting"
    /\ inside' = inside \cup {c}
    /\ UNCHANGED <<phase, resources>>

Leave(c) ==
    /\ inside' = inside \ {c}
    /\ UNCHANGED <<phase, resources>>

LifecycleNext ==
    \/ Acquire \/ Settle \/ Release \/ End
    \/ \E c \in Clients : Enter(c) \/ Leave(c)

LifecycleSpec == LifecycleInit /\ [][LifecycleNext]_lifecycleVars
=============================================================================
