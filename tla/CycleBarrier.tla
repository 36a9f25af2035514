---------------------------- MODULE CycleBarrier ----------------------------
(***************************************************************************)
(* What runCycle of outbound_monitoring.go promises, without queues,       *)
(* workers, flags or retries: a cycle asks outbounds for a test, stage     *)
(* after stage, one URL per stage.  A stage is concluded only when nobody  *)
(* is left to answer; the next URL is tried only when nobody succeeded.    *)
(***************************************************************************)
EXTENDS Integers

CONSTANTS Tag,   \* the outbounds
          Links  \* number of test URLs

VARIABLES
    running,      \* a stage is open
    outstanding,  \* outbounds asked and not yet answered
    succeeded,    \* some answer of this stage was a success
    attempt,      \* number of the stage within its cycle
    link,         \* index of the URL in use
    closed        \* the monitor has been closed

vars == <<running, outstanding, succeeded, attempt, link, closed>>

BarrierTypeOK ==
    /\ running \in BOOLEAN
    /\ outstanding \in SUBSET Tag
    /\ succeeded \in BOOLEAN
    /\ attempt \in 1..Links
    /\ link \in 0..(Links - 1)
    /\ closed \in BOOLEAN

Init ==
    /\ running = FALSE
    /\ outstanding = {}
    /\ succeeded = FALSE
    /\ attempt = 1
    /\ link = 0
    /\ closed = FALSE

Start ==
    /\ ~running
    /\ running' = TRUE
    /\ UNCHANGED <<outstanding, succeeded, attempt, link, closed>>

Ask(o) ==
    /\ running
    /\ o \notin outstanding
    /\ outstanding' = outstanding \cup {o}
    /\ UNCHANGED <<running, succeeded, attempt, link, closed>>

Answer(o, ok) ==
    /\ running
    /\ o \in outstanding
    /\ outstanding' = outstanding \ {o}
    /\ succeeded' = (succeeded \/ ok)
    /\ UNCHANGED <<running, attempt, link, closed>>

TryNextLink ==
    /\ running
    /\ outstanding = {}
    /\ ~succeeded
    /\ attempt < Links
    /\ attempt' = attempt + 1
    /\ link' = (link + 1) % Links
    /\ UNCHANGED <<running, outstanding, succeeded, closed>>

Conclude ==
    /\ running
    /\ outstanding = {}
    /\ succeeded \/ attempt = Links
    /\ running' = FALSE
    /\ succeeded' = FALSE
    /\ attempt' = 1
    /\ UNCHANGED <<outstanding, link, closed>>

\* After Close nothing is promised but the types.
Close ==
    /\ ~closed
    /\ closed' = TRUE
    /\ UNCHANGED <<running, outstanding, succeeded, attempt, link>>

Wind ==
    /\ closed
    /\ BarrierTypeOK'
    /\ UNCHANGED closed

Next ==
    \/ Start \/ TryNextLink \/ Conclude \/ Close \/ Wind
    \/ \E o \in Tag : Ask(o) \/ \E ok \in BOOLEAN : Answer(o, ok)

Spec == Init /\ [][Next]_vars
=============================================================================
