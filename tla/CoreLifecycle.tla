---------------------------- MODULE CoreLifecycle ----------------------------
(***************************************************************************)
(* The lifecycle of the core (hcore): StartService, Stop and Restart over  *)
(* static.lock, static.CoreState and static.StartedService.  A service     *)
(* that NewService returned is "up"; its inside is module StartedService,  *)
(* used by one caller at a time.  The error paths all end in errorWrapper, *)
(* which publishes STOPPED, closes and forgets the service, and publishes  *)
(* STOPPED again.  A panic ends there too, but without the lock: the       *)
(* deferred handler was registered before the deferred unlock.             *)
(***************************************************************************)
EXTENDS Naturals

CONSTANTS
    Callers,        \* threads of the gRPC server and of the FFI
    Nobody,         \* the owner of the free lock
    MaxServices,    \* bound: services made in a behaviour
    Panics          \* whether StartService may panic

\* What the constants stand for.
CoreAssumption ==
    /\ Nobody \notin Callers
    /\ MaxServices \in Nat
    /\ Panics \in BOOLEAN

VARIABLES
    coreState,      \* static.CoreState
    started,        \* static.StartedService, 0 for nil
    lock,           \* holder of static.lock
    made, service,  \* services made so far, and what became of each
    pc, again       \* per call: place, and whether it is a restart

vars == <<coreState, started, lock, made, service, pc, again>>

Services == 1..MaxServices
States == {"STOPPED", "STARTING", "STARTED", "STOPPING"}
Places == {"idle", "stop", "stopping", "stopped", "start", "building", "assign",
           "publish", "alert", "close", "forget", "final"}

TypeOK ==
    /\ coreState \in States
    /\ started \in 0..MaxServices
    /\ lock \in Callers \cup {Nobody}
    /\ made \in 0..MaxServices
    /\ service \in [Services -> {"none", "up", "down", "left"}]
    /\ pc \in [Callers -> Places]
    /\ again \in [Callers -> BOOLEAN]

Init ==
    /\ coreState = "STOPPED" /\ started = 0 /\ lock = Nobody /\ made = 0
    /\ service = [s \in Services |-> "none"]
    /\ pc = [c \in Callers |-> "idle"]
    /\ again = [c \in Callers |-> FALSE]

At(c, p) == pc[c] = p
Goto(c, p) == pc' = [pc EXCEPT ![c] = p]
Locked(c) == lock = Nobody /\ lock' = c
Unlock(c) == lock' = IF lock = c THEN Nobody ELSE lock
Return(c) == Goto(c, "idle") /\ again' = [again EXCEPT ![c] = FALSE]

\* CloseService: every part of the service is asked to close.  An error leaves
\* those that could not, or not in time, and nobody can ask them again: a service
\* that has been closed only returns the error.
CloseOutcomes(s) == IF service[s] = "up" THEN {"ok", "error"} ELSE {"error"}
CloseUp(s, outcome) ==
    service' = IF service[s] = "up"
               THEN [service EXCEPT ![s] = IF outcome = "ok" THEN "down" ELSE "left"]
               ELSE service

----------------------------------------------------------------------------
Call(c) ==
    /\ At(c, "idle")
    /\ \/ Goto(c, "start") /\ UNCHANGED again
       \/ Goto(c, "stop") /\ again' \in {again, [again EXCEPT ![c] = TRUE]}
    /\ UNCHANGED <<coreState, started, lock, made, service>>

----------------------------------------------------------------------------
(* StartService                                                             *)

MayStart == coreState = "STOPPED"

\* Mutation: the status is looked at before the lock is taken.
StartRefusedUnlocked(c) ==
    /\ At(c, "start")
    /\ ~MayStart
    /\ Return(c)
    /\ UNCHANGED <<coreState, started, lock, made, service>>

StartRefused(c) ==
    /\ At(c, "start") /\ lock = Nobody
    /\ ~MayStart
    /\ Return(c)
    /\ UNCHANGED <<coreState, started, lock, made, service>>

StartAccepted(c) ==
    /\ At(c, "start") /\ Locked(c)
    /\ MayStart
    /\ coreState' = "STARTING"
    /\ Goto(c, "building")
    /\ UNCHANGED <<started, made, service, again>>

\* The request, the configuration, an extension or NewService fails; a
\* service that did not start has closed what it had opened.
BuildFails(c) ==
    /\ At(c, "building")
    /\ Goto(c, "alert")
    /\ UNCHANGED <<coreState, started, lock, made, service, again>>

NewService(c) ==
    /\ At(c, "building")
    /\ made < MaxServices
    /\ made' = made + 1
    /\ service' = [service EXCEPT ![made'] = "up"]
    /\ Goto(c, "assign")
    /\ UNCHANGED <<coreState, started, lock, again>>

AssignService(c) ==
    /\ At(c, "assign")
    /\ started' = made
    /\ Goto(c, "publish")
    /\ UNCHANGED <<coreState, lock, made, service, again>>

PublishStarted(c) ==
    /\ At(c, "publish")
    /\ coreState' = "STARTED"
    /\ Unlock(c)
    /\ Return(c)
    /\ UNCHANGED <<started, made, service>>

\* The lock is released first, then the handler runs.
PanicInStart(c) ==
    /\ Panics
    /\ At(c, "building")
    /\ Unlock(c)
    /\ Goto(c, "alert")
    /\ UNCHANGED <<coreState, started, made, service, again>>

----------------------------------------------------------------------------
(* Stop                                                                     *)

\* What a call does when its Stop returned no error.
AfterStop(c) == Goto(c, IF again[c] THEN "start" ELSE "idle") /\ UNCHANGED again

StopLocked(c) ==
    /\ At(c, "stop") /\ Locked(c)
    /\ coreState' = "STOPPING"
    /\ Goto(c, "stopping")
    /\ UNCHANGED <<started, made, service, again>>

StopNothing(c) ==
    /\ At(c, "stopping")
    /\ started = 0
    /\ coreState' = "STOPPED"
    /\ Unlock(c)
    /\ AfterStop(c)
    /\ UNCHANGED <<started, made, service>>

\* Mutation: a failed close returns at once and leaves the status.
AfterFailedCloseReturns(c) == Unlock(c) /\ Return(c)

AfterFailedClose(c) == Goto(c, "alert") /\ UNCHANGED <<lock, again>>

\* The service is forgotten also when it returned an error.
StopService(c) ==
    /\ At(c, "stopping")
    /\ started # 0
    /\ \E outcome \in CloseOutcomes(started) :
         /\ CloseUp(started, outcome)
         /\ IF outcome = "ok"
            THEN Goto(c, "stopped") /\ UNCHANGED <<started, lock, again>>
            ELSE started' = 0 /\ AfterFailedClose(c)
    /\ UNCHANGED <<coreState, made>>

StopDone(c) ==
    /\ At(c, "stopped")
    /\ started' = 0
    /\ coreState' = "STOPPED"
    /\ Unlock(c)
    /\ AfterStop(c)
    /\ UNCHANGED <<made, service>>

----------------------------------------------------------------------------
(* errorWrapper, with the lock on an error and without it after a panic     *)

Alert(c) ==
    /\ At(c, "alert")
    /\ coreState' = "STOPPED"
    /\ Goto(c, "close")
    /\ UNCHANGED <<started, lock, made, service, again>>

AlertClose(c) ==
    /\ At(c, "close")
    /\ IF started = 0
       THEN Goto(c, "final") /\ UNCHANGED service
       ELSE Goto(c, "forget") /\ \E outcome \in CloseOutcomes(started) : CloseUp(started, outcome)
    /\ UNCHANGED <<coreState, started, lock, made, again>>

AlertForget(c) ==
    /\ At(c, "forget")
    /\ started' = 0
    /\ Goto(c, "final")
    /\ UNCHANGED <<coreState, lock, made, service, again>>

AlertUnlock(c) == Unlock(c)

AlertFinal(c) ==
    /\ At(c, "final")
    /\ coreState' = "STOPPED"
    /\ AlertUnlock(c)
    /\ Return(c)
    /\ UNCHANGED <<started, made, service>>

----------------------------------------------------------------------------
Acquire(c) == StartRefused(c) \/ StartAccepted(c) \/ StopLocked(c)

Step(c) ==
    \/ BuildFails(c) \/ NewService(c) \/ AssignService(c) \/ PublishStarted(c)
    \/ StopNothing(c) \/ StopService(c) \/ StopDone(c)
    \/ Alert(c) \/ AlertClose(c) \/ AlertForget(c) \/ AlertFinal(c)

Next == \E c \in Callers : Call(c) \/ Acquire(c) \/ Step(c) \/ PanicInStart(c)

\* A running call goes on; a sync.Mutex hands itself to the waiter that has
\* waited longest once that has lasted a millisecond, so no waiter starves.
Fairness == \A c \in Callers : WF_vars(Step(c)) /\ SF_vars(Acquire(c))

Spec == Init /\ [][Next]_vars
FairSpec == Spec /\ Fairness

----------------------------------------------------------------------------
\* The services nobody has closed: what a failed close has left of one counts no
\* more, since the core forgets it.
Up == {s \in Services : service[s] = "up"}

\* Every proxy that nobody has closed is the one static.StartedService holds, or
\* the call that has just made it holds the lock and is about to store it there:
\* none keeps running where no Stop can reach it, and never are there two.
UpIsKnown ==
    \/ Up = {}
    \/ Up = {started}
    \/ Up = {made} /\ \E c \in Callers : lock = c /\ At(c, "assign")

\* Whoever finds the lock free finds a status that tells the truth of what nobody
\* has closed, after any mix of failed starts, failed stops and restarts.
FreeMeansSettled ==
    lock = Nobody =>
        \/ coreState = "STOPPED" /\ started = 0 /\ Up = {}
        \/ coreState = "STARTED" /\ Up = {started}

\* The phase and the proxy that ServiceContract speaks of.
Phase ==
    CASE coreState = "STOPPED" -> "idle"
      [] coreState = "STARTING" -> "starting"
      [] coreState = "STARTED" -> "up"
      [] OTHER -> "stopping"
On == Up # {}

\* A restart is two critical sections.  When it is refused because another
\* start came in between, the core is up all the same, if with the other
\* request.
RefusedRestartIsUp ==
    \A c \in Callers :
        (At(c, "start") /\ again[c] /\ pc'[c] = "idle")
            => coreState = "STARTED" /\ Up = {started}

\* Every call returns, those that fail and those that panic included.
CallsReturn == \A c \in Callers : ~At(c, "idle") ~> At(c, "idle")

\* start.go answers "instance already started" unless the core is stopped, so
\* that no service is made beside one that is up.  A panic breaks it.
StartsOnlyWhenNothingRuns ==
    \A c \in Callers : (At(c, "building") /\ pc'[c] = "assign") => Up = {}

=============================================================================
