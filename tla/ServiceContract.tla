-------------------------- MODULE ServiceContract --------------------------
(***************************************************************************)
(* What the service of the daemon package promises to a caller that makes  *)
(* one call at a time, as StartService and Stop of hcore do under their    *)
(* lock: parts of the proxy are on only while the service starts, runs or  *)
(* stops, it is up only with its parts on, and it is idle only with all of *)
(* them off.                                                               *)
(***************************************************************************)
VARIABLES
    phase,      \* "idle", "starting", "up", "stopping" or "failed"
    on          \* whether any part of the proxy is open

contractVars == <<phase, on>>

Init == phase = "idle" /\ on = FALSE

\* A start from idle, or the second half of a reload.
BeginStart ==
    /\ phase \in {"idle", "stopping"}
    /\ ~on
    /\ phase' = "starting"
    /\ UNCHANGED on

\* Parts open, or all close because one of them failed.
SwitchParts ==
    /\ phase = "starting"
    /\ on' \in BOOLEAN
    /\ UNCHANGED phase

Up ==
    /\ phase = "starting" /\ on
    /\ phase' = "up"
    /\ UNCHANGED on

\* A stop may also find nothing to stop.
BeginStop ==
    /\ phase \in {"up", "idle"}
    /\ phase' = "stopping"
    /\ UNCHANGED on

SwitchOff ==
    /\ phase = "stopping"
    /\ on' = FALSE
    /\ phase' \in {"stopping", "idle", "failed"}

\* A start or a stop fails: for good, or so that a start may be tried again.
Fail ==
    /\ phase \in {"idle", "starting", "stopping"}
    /\ ~on
    /\ phase' \in {"failed", "idle"}
    /\ UNCHANGED on

Next == BeginStart \/ SwitchParts \/ Up \/ BeginStop \/ SwitchOff \/ Fail

Spec == Init /\ [][Next]_contractVars

=============================================================================
