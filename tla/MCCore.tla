------------------------------- MODULE MCCore -------------------------------
(***************************************************************************)
(* The lifecycle of the core and the service of the daemon package, side   *)
(* by side: "part" says which of them moves in a behaviour, and the other  *)
(* stays as it was at first.  The service moves in two ways, called by     *)
(* several threads, or by one as hcore calls it under its lock; the core   *)
(* moves with and without panics.                                          *)
(***************************************************************************)
EXTENDS Naturals

CONSTANTS Threads, Nobody, MaxServices, NumParts, MaxBoxes

VARIABLES
    part,
    coreState, started, lock, services, service, place, again,
    status, access, instance, made, box, pc, mine, failed

Core == INSTANCE CoreLifecycle
            WITH Callers <- Threads, Panics <- FALSE, made <- services, pc <- place
Panicking == INSTANCE CoreLifecycle
            WITH Callers <- Threads, Panics <- TRUE, made <- services, pc <- place
Service == INSTANCE StartedService WITH Callers <- Threads, ErrorCalls <- TRUE
UnderLock == INSTANCE StartedService WITH Callers <- Threads, ErrorCalls <- FALSE

ASSUME PartsAssumption ==
    /\ Threads # {}
    /\ Core!CoreAssumption /\ Panicking!CoreAssumption
    /\ Service!ServiceAssumption /\ UnderLock!ServiceAssumption

coreVars == <<coreState, started, lock, services, service, place, again>>
serviceVars == <<status, access, instance, made, box, pc, mine, failed>>
vars == <<part, coreVars, serviceVars>>

Init ==
    /\ part \in {"core", "panicking", "service", "under lock"}
    /\ Core!Init /\ Service!Init

\* The thread that holds static.lock, always the same.
Holder == CHOOSE c \in Threads : TRUE

Next ==
    /\ UNCHANGED part
    /\ \/ /\ \/ part = "core" /\ Core!Next
             \/ part = "panicking" /\ Panicking!Next
          /\ UNCHANGED serviceVars
       \/ /\ \/ part = "service" /\ Service!Next
             \/ part = "under lock" /\ (UnderLock!Call(Holder) \/ UnderLock!Step(Holder))
          /\ UNCHANGED coreVars

CoreMoves == part \in {"core", "panicking"}
ServiceMoves == part \in {"service", "under lock"}

\* The fairness of the part that moves.
Fairness ==
    \A c \in Threads :
        /\ WF_coreVars(CoreMoves /\ Core!Step(c))
        /\ SF_coreVars(CoreMoves /\ Core!Acquire(c))
        /\ WF_serviceVars(ServiceMoves /\ Service!Step(c))

FairSpec == Init /\ [][Next]_vars /\ Fairness

-----------------------------------------------------------------------------
\* A STARTING or STOPPING of the service has a call behind it that will move it
\* on, however reloads, closes and starts overtake one another
\* (startOrReloadService gives the mutex up twice), and no two calls take the
\* service down at a time.
TransientHasOwner == Service!TransientHasOwner /\ Service!OneStopper

\* Without panics, whoever finds static.lock free finds a status that tells the
\* truth and, if nobody has closed it yet, a proxy that Stop can reach, after any
\* failed starts and stops; and so it is with the service and the open parts of its box when hcore calls it.
FreeMeansSettled ==
    /\ part # "panicking" => Core!FreeMeansSettled /\ Core!UpIsKnown
    /\ part = "under lock" => UnderLock!OpenCanBeClosed

\* A restart that is refused, because another start came between its two
\* critical sections, finds the core up all the same.
RestartEndsUp == [][part = "core" => Core!RefusedRestartIsUp]_vars

Contract == INSTANCE ServiceContract WITH
    phase <- CASE part = "core" -> Core!Phase
               [] part = "under lock" -> Service!Phase
               [] OTHER -> "idle",
    on <- CASE part = "core" -> Core!On
            [] part = "under lock" -> Service!On
            [] OTHER -> FALSE

\* The service gives a caller at a time what ServiceContract says, and the core
\* gives as much to all its callers: no part of the proxy is on while the
\* published status says that it is stopped.
ImplementsContract == Contract!Spec

\* Every call of the core and of the service returns, those that fail, that
\* panic, or that wait for a mutex included, and the status of the service does
\* not stay in between.
CallsReturn ==
    /\ \A c \in Threads : ~Core!At(c, "idle") ~> Core!At(c, "idle")
    /\ Service!CallsReturn
    /\ Service!Settles
=============================================================================
