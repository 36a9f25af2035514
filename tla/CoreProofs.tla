----------------------------- MODULE CoreProofs -----------------------------
(***************************************************************************)
(* What MCCore checks of the core and of its service, for any number of    *)
(* threads, services, boxes and parts: the theorems about the core, and    *)
(* those of StartedServiceProofs put beside them as MCCore does.           *)
(***************************************************************************)
EXTENDS MCCore, TLAPS

SP == INSTANCE StartedServiceProofs WITH Callers <- Threads, ErrorCalls <- TRUE
UP == INSTANCE StartedServiceProofs WITH Callers <- Threads, ErrorCalls <- FALSE

-----------------------------------------------------------------------------
(***************************************************************************)
(* The lifecycle of the core: what the variables hold, what whoever finds  *)
(* the lock free finds, and that the core keeps the promise of             *)
(* ServiceContract.  All but the first suppose that StartService does not  *)
(* panic, as the lock means nothing afterwards.                            *)
(***************************************************************************)
CoreContract == INSTANCE ServiceContract WITH phase <- Core!Phase, on <- Core!On

\* The places where a call holds the lock, for as long as nothing panics.
Critical == Core!Places \ {"idle", "start", "stop"}

\* The lock is with the one call in a critical section.
LockInv ==
    \A c \in Threads : place[c] \in Critical <=> lock = c

Off == started = 0 /\ Core!Up = {}

\* What a call in each place of its critical section may count on; "forget" is
\* for a service that is still stored when a call fails, and none is.
SectionInv ==
    \A c \in Threads :
        /\ Core!At(c, "building") => coreState = "STARTING" /\ Off
        /\ Core!At(c, "assign") => coreState = "STARTING" /\ started = 0 /\ Core!Up = {services}
        /\ Core!At(c, "publish") => coreState = "STARTING" /\ Core!Up = {started}
        /\ Core!At(c, "stopping") => coreState = "STOPPING" /\ (Off \/ Core!Up = {started})
        /\ Core!At(c, "stopped") => coreState = "STOPPING" /\ Core!Up = {}
        /\ Core!At(c, "alert") => coreState \in {"STARTING", "STOPPING"} /\ Off
        /\ place[c] \in {"close", "final"} => coreState = "STOPPED" /\ Off
        /\ ~Core!At(c, "forget")

CoreInv == Core!TypeOK /\ LockInv /\ Core!FreeMeansSettled /\ SectionInv

LEMMA PanickingTypeInit == ASSUME Panicking!CoreAssumption PROVE Panicking!Init => Panicking!TypeOK
BY DEF Panicking!CoreAssumption, Panicking!Init, Panicking!TypeOK, Panicking!Services,
       Panicking!States, Panicking!Places

\* Every step keeps the types, panics included.
LEMMA PanickingTypeStep ==
    ASSUME Panicking!CoreAssumption, Panicking!TypeOK, [Panicking!Next]_(Panicking!vars)
    PROVE  Panicking!TypeOK'
<1> USE DEF Panicking!CoreAssumption, Panicking!TypeOK, Panicking!Services, Panicking!States,
            Panicking!Places, Panicking!At, Panicking!Goto, Panicking!Locked, Panicking!Unlock,
            Panicking!Return
<1>1. CASE UNCHANGED Panicking!vars
  BY <1>1 DEF Panicking!vars
<1>2. ASSUME NEW c \in Threads, Panicking!Call(c) PROVE Panicking!TypeOK'
  BY <1>2 DEF Panicking!Call
<1>3. ASSUME NEW c \in Threads, Panicking!Acquire(c) PROVE Panicking!TypeOK'
  BY <1>3 DEF Panicking!Acquire, Panicking!StartRefused, Panicking!StartAccepted,
              Panicking!StopLocked
<1>4. ASSUME NEW c \in Threads, Panicking!Step(c) PROVE Panicking!TypeOK'
  <2>1. CASE Panicking!BuildFails(c) BY <2>1 DEF Panicking!BuildFails
  <2>2. CASE Panicking!NewService(c) BY <2>2 DEF Panicking!NewService
  <2>3. CASE Panicking!AssignService(c) BY <2>3 DEF Panicking!AssignService
  <2>4. CASE Panicking!PublishStarted(c) BY <2>4 DEF Panicking!PublishStarted
  <2>5. CASE Panicking!StopNothing(c) BY <2>5 DEF Panicking!StopNothing, Panicking!AfterStop
  <2>6. CASE Panicking!StopService(c)
    BY <2>6 DEF Panicking!StopService, Panicking!CloseUp, Panicking!CloseOutcomes,
              Panicking!AfterFailedClose
  <2>7. CASE Panicking!StopDone(c) BY <2>7 DEF Panicking!StopDone, Panicking!AfterStop
  <2>8. CASE Panicking!Alert(c) BY <2>8 DEF Panicking!Alert
  <2>9. CASE Panicking!AlertClose(c)
    BY <2>9 DEF Panicking!AlertClose, Panicking!CloseUp, Panicking!CloseOutcomes
  <2>10. CASE Panicking!AlertForget(c) BY <2>10 DEF Panicking!AlertForget
  <2>11. CASE Panicking!AlertFinal(c) BY <2>11 DEF Panicking!AlertFinal, Panicking!AlertUnlock
  <2>12. QED
    BY <1>4, <2>1, <2>2, <2>3, <2>4, <2>5, <2>6, <2>7, <2>8, <2>9, <2>10, <2>11
    DEF Panicking!Step
<1>5. ASSUME NEW c \in Threads, Panicking!PanicInStart(c) PROVE Panicking!TypeOK'
  BY <1>5 DEF Panicking!PanicInStart
<1>6. QED
  BY <1>1, <1>2, <1>3, <1>4, <1>5 DEF Panicking!Next

\* The variables of hcore hold what their Go types and the program allow, with
\* panics and so without them, which only takes steps away.
THEOREM CoreTypes == ASSUME Panicking!CoreAssumption PROVE Panicking!Spec => []Panicking!TypeOK
<1>1. Panicking!Init => Panicking!TypeOK
  BY PanickingTypeInit
<1>2. Panicking!TypeOK /\ [Panicking!Next]_(Panicking!vars) => Panicking!TypeOK'
  BY PanickingTypeStep
<1>3. QED
  BY <1>1, <1>2, PTL DEF Panicking!Spec

\* Without panics the core does nothing that it would not do with them.
LEMMA CoreIsPanicking == [Core!Next]_(Core!vars) => [Panicking!Next]_(Panicking!vars)
<1> USE DEF Core!At, Panicking!At, Core!Goto, Panicking!Goto, Core!Return, Panicking!Return,
            Core!Unlock, Panicking!Unlock, Core!Locked, Panicking!Locked, Core!MayStart,
            Panicking!MayStart, Core!CloseUp, Panicking!CloseUp, Core!AfterStop,
            Panicking!AfterStop
<1>1. UNCHANGED Core!vars => UNCHANGED Panicking!vars
  BY DEF Core!vars, Panicking!vars
<1>2. ASSUME NEW c \in Threads PROVE Core!Call(c) => Panicking!Call(c)
  BY DEF Core!Call, Panicking!Call
<1>3. ASSUME NEW c \in Threads PROVE Core!Acquire(c) => Panicking!Acquire(c)
  BY DEF Core!Acquire, Panicking!Acquire, Core!StartRefused, Panicking!StartRefused,
         Core!StartAccepted, Panicking!StartAccepted, Core!StopLocked, Panicking!StopLocked
<1>4. ASSUME NEW c \in Threads PROVE Core!Step(c) => Panicking!Step(c)
  <2>1. Core!BuildFails(c) => Panicking!BuildFails(c)
    BY DEF Core!BuildFails, Panicking!BuildFails
  <2>2. Core!NewService(c) => Panicking!NewService(c)
    BY DEF Core!NewService, Panicking!NewService
  <2>3. Core!AssignService(c) => Panicking!AssignService(c)
    BY DEF Core!AssignService, Panicking!AssignService
  <2>4. Core!PublishStarted(c) => Panicking!PublishStarted(c)
    BY DEF Core!PublishStarted, Panicking!PublishStarted
  <2>5. Core!StopNothing(c) => Panicking!StopNothing(c)
    BY DEF Core!StopNothing, Panicking!StopNothing
  <2>6. Core!StopService(c) => Panicking!StopService(c)
    BY DEF Core!StopService, Panicking!StopService, Core!CloseOutcomes,
           Panicking!CloseOutcomes, Core!AfterFailedClose, Panicking!AfterFailedClose
  <2>7. Core!StopDone(c) => Panicking!StopDone(c)
    BY DEF Core!StopDone, Panicking!StopDone
  <2>8. Core!Alert(c) => Panicking!Alert(c)
    BY DEF Core!Alert, Panicking!Alert
  <2>9. Core!AlertClose(c) => Panicking!AlertClose(c)
    BY DEF Core!AlertClose, Panicking!AlertClose, Core!CloseOutcomes, Panicking!CloseOutcomes
  <2>10. Core!AlertForget(c) => Panicking!AlertForget(c)
    BY DEF Core!AlertForget, Panicking!AlertForget
  <2>11. Core!AlertFinal(c) => Panicking!AlertFinal(c)
    BY DEF Core!AlertFinal, Panicking!AlertFinal, Core!AlertUnlock, Panicking!AlertUnlock
  <2> QED
    BY <2>1, <2>2, <2>3, <2>4, <2>5, <2>6, <2>7, <2>8, <2>9, <2>10, <2>11
    DEF Core!Step, Panicking!Step
<1>5. ASSUME NEW c \in Threads PROVE ~Core!PanicInStart(c)
  BY DEF Core!PanicInStart
<1> QED
  BY <1>1, <1>2, <1>3, <1>4, <1>5 DEF Core!Next, Panicking!Next

LEMMA CoreTypesSame ==
    /\ Core!TypeOK <=> Panicking!TypeOK
    /\ Core!CoreAssumption <=> Panicking!CoreAssumption
    /\ Core!Init <=> Panicking!Init
BY DEF Core!TypeOK, Panicking!TypeOK, Core!CoreAssumption, Panicking!CoreAssumption, Core!Init,
       Panicking!Init, Core!Services, Panicking!Services, Core!States, Panicking!States,
       Core!Places, Panicking!Places

LEMMA CoreTypeInit == ASSUME Core!CoreAssumption PROVE Core!Init => Core!TypeOK
BY PanickingTypeInit, CoreTypesSame

LEMMA CoreTypeStep ==
    ASSUME Core!CoreAssumption, Core!TypeOK, [Core!Next]_(Core!vars)
    PROVE  Core!TypeOK'
<1>1. Panicking!TypeOK'
  BY PanickingTypeStep, CoreTypesSame, CoreIsPanicking
<1> QED
  BY <1>1 DEF Core!TypeOK, Panicking!TypeOK, Core!Services, Panicking!Services, Core!States,
              Panicking!States, Core!Places, Panicking!Places

\* How the set of services that are up changes.
LEMMA UpAfterNew ==
    ASSUME Core!CoreAssumption, Core!TypeOK, Core!Up = {}, services < MaxServices,
           service' = [service EXCEPT ![services + 1] = "up"]
    PROVE  Core!Up' = {services + 1}
BY DEF Core!CoreAssumption, Core!TypeOK, Core!Up, Core!Services

LEMMA UpAfterClose ==
    ASSUME Core!CoreAssumption, Core!TypeOK, NEW s \in Core!Services, Core!Up \subseteq {s},
           NEW outcome, Core!CloseUp(s, outcome)
    PROVE  Core!Up' = {}
BY DEF Core!CoreAssumption, Core!TypeOK, Core!Up, Core!CloseUp

LEMMA UpKept == ASSUME UNCHANGED service PROVE Core!Up' = Core!Up
BY DEF Core!Up

\* A call in its critical section is the only one there.
LEMMA Alone ==
    ASSUME LockInv, NEW c \in Threads, place[c] \in Critical,
           NEW d \in Threads, d # c
    PROVE  place[d] \notin Critical
BY DEF LockInv

LEMMA CoreInit == ASSUME Core!CoreAssumption PROVE Core!Init => CoreInv
BY CoreTypeInit DEF Core!CoreAssumption, Core!Init, CoreInv, LockInv, Core!FreeMeansSettled,
                    SectionInv, Core!At, Off, Core!Up, Critical, Core!Places, Core!Services

\* Steps outside a critical section, into one and out of one without it.
LEMMA OutsideStep ==
    ASSUME Core!CoreAssumption, CoreInv, NEW c \in Threads, Core!Call(c) \/ Core!StartRefused(c)
    PROVE  LockInv' /\ Core!FreeMeansSettled' /\ SectionInv'
<1>1. Core!Up' = Core!Up
  BY UpKept DEF Core!Call, Core!StartRefused
<1>2. QED
  BY <1>1 DEF Core!CoreAssumption, CoreInv, Core!TypeOK, LockInv, Core!FreeMeansSettled,
              SectionInv, Core!Call, Core!StartRefused, Core!At, Core!Goto, Core!Return,
              Critical, Core!Places, Off

LEMMA EnterStep ==
    ASSUME Core!CoreAssumption, CoreInv, NEW c \in Threads, Core!StartAccepted(c) \/ Core!StopLocked(c)
    PROVE  LockInv' /\ Core!FreeMeansSettled' /\ SectionInv'
<1>1. Core!Up' = Core!Up
  BY UpKept DEF Core!StartAccepted, Core!StopLocked
<1>2. QED
  BY <1>1 DEF Core!CoreAssumption, CoreInv, Core!TypeOK, LockInv, Core!FreeMeansSettled,
              SectionInv, Core!StartAccepted, Core!StopLocked, Core!MayStart, Core!At,
              Core!Goto, Core!Locked, Critical, Core!Places, Off, Core!Services

\* The steps of a call in its critical section.
LEMMA SectionStep ==
    ASSUME Core!CoreAssumption, CoreInv, NEW c \in Threads, Core!Step(c)
    PROVE  LockInv' /\ Core!FreeMeansSettled' /\ SectionInv'
<1> USE DEF Core!CoreAssumption, CoreInv, Core!TypeOK, LockInv, Core!FreeMeansSettled,
            SectionInv, Core!At, Core!Goto, Core!Unlock, Core!Return, Critical, Core!Places,
            Off, Core!Services
<1>1. CASE Core!BuildFails(c)
  BY <1>1, UpKept DEF Core!BuildFails
<1>2. CASE Core!NewService(c)
  BY <1>2, UpAfterNew DEF Core!NewService
<1>3. CASE Core!AssignService(c)
  BY <1>3, UpKept DEF Core!AssignService
<1>4. CASE Core!PublishStarted(c)
  BY <1>4, UpKept DEF Core!PublishStarted
<1>5. CASE Core!StopNothing(c)
  <2>1. Core!Up' = {} /\ started' = 0
    BY <1>5, UpKept DEF Core!StopNothing, Core!Up
  <2>2. QED BY <1>5, <2>1 DEF Core!StopNothing, Core!AfterStop
<1>6. CASE Core!StopService(c)
  <2>1. started \in Core!Services /\ Core!Up \subseteq {started}
    BY <1>6 DEF Core!StopService
  <2>2. Core!Up' = {}
    BY <1>6, <2>1, UpAfterClose DEF Core!StopService
  <2>3. QED BY <1>6, <2>2 DEF Core!StopService, Core!AfterFailedClose
<1>7. CASE Core!StopDone(c)
  BY <1>7, UpKept DEF Core!StopDone, Core!AfterStop
<1>8. CASE Core!Alert(c)
  BY <1>8, UpKept DEF Core!Alert
<1>9. CASE Core!AlertClose(c)
  BY <1>9, UpKept DEF Core!AlertClose
<1>10. CASE Core!AlertForget(c)
  BY <1>10 DEF Core!AlertForget
<1>11. CASE Core!AlertFinal(c)
  BY <1>11, UpKept DEF Core!AlertFinal, Core!AlertUnlock
<1>12. QED
  BY <1>1, <1>2, <1>3, <1>4, <1>5, <1>6, <1>7, <1>8, <1>9, <1>10, <1>11 DEF Core!Step

LEMMA CoreStep ==
    ASSUME Core!CoreAssumption, CoreInv, [Core!Next]_(Core!vars)
    PROVE  CoreInv'
<1>1. Core!TypeOK'
  BY CoreTypeStep DEF CoreInv
<1>2. CASE UNCHANGED Core!vars
  BY <1>1, <1>2 DEF Core!vars, CoreInv, LockInv, Core!FreeMeansSettled, SectionInv, Core!At,
                    Off, Core!Up
<1>3. ASSUME NEW c \in Threads, Core!Call(c) \/ Core!Acquire(c) \/ Core!Step(c)
      PROVE  CoreInv'
  BY <1>1, <1>3, OutsideStep, EnterStep, SectionStep DEF Core!Acquire, CoreInv
<1>4. QED
  BY <1>2, <1>3 DEF Core!Next, Core!PanicInStart

LEMMA CoreInvariant == ASSUME Core!CoreAssumption PROVE Core!Spec => []CoreInv
<1>1. Core!Init => CoreInv
  BY CoreInit
<1>2. CoreInv /\ [Core!Next]_(Core!vars) => CoreInv'
  BY CoreStep
<1>3. QED
  BY <1>1, <1>2, PTL DEF Core!Spec

----------------------------------------------------------------------------
\* After any mix of starts, stops and restarts that fail or succeed, a call that
\* takes static.lock finds a status that says whether the stored service is up.
THEOREM FreeLockMeansSettled ==
    ASSUME Core!CoreAssumption
    PROVE  Core!Spec => []Core!FreeMeansSettled
<1>1. CoreInv => Core!FreeMeansSettled
  BY DEF CoreInv
<1>2. QED
  BY <1>1, CoreInvariant, PTL

LEMMA CoreKnows == ASSUME Core!CoreAssumption, CoreInv PROVE Core!UpIsKnown
<1>1. CASE lock = Nobody
  BY <1>1 DEF CoreInv, Core!FreeMeansSettled, Core!UpIsKnown
<1>2. CASE lock \in Threads
  <2>1. place[lock] \in Critical
    BY <1>2 DEF CoreInv, LockInv
  <2>2. QED
    BY <1>2, <2>1 DEF CoreInv, SectionInv, Core!UpIsKnown, Core!At, Off, Critical, Core!Places
<1>3. QED
  BY <1>1, <1>2 DEF CoreInv, Core!TypeOK

\* There is never a second proxy, nor one that static.StartedService has lost
\* before anybody closed it.
THEOREM ServicesStayKnown ==
    ASSUME Core!CoreAssumption
    PROVE  Core!Spec => []Core!UpIsKnown
<1>1. CoreInv => Core!UpIsKnown
  BY CoreKnows
<1>2. QED
  BY <1>1, CoreInvariant, PTL

\* A start, the second half of a restart included, goes idle again without a
\* service only where it finds the status other than STOPPED.
LEMMA RefusedStep ==
    ASSUME Core!CoreAssumption, CoreInv, Core!Next
    PROVE  Core!RefusedRestartIsUp
<1> SUFFICES ASSUME NEW c \in Threads, Core!At(c, "start"), place'[c] = "idle"
             PROVE  coreState = "STARTED" /\ Core!Up = {started}
  BY DEF Core!RefusedRestartIsUp
<1>1. place \in [Threads -> Core!Places]
  BY DEF CoreInv, Core!TypeOK
<1>2. PICK d \in Threads : Core!Call(d) \/ Core!Acquire(d) \/ Core!Step(d)
  BY DEF Core!Next, Core!PanicInStart
<1>3. d = c
  BY <1>1, <1>2 DEF Core!Call, Core!Acquire, Core!StartRefused, Core!StartAccepted,
                    Core!StopLocked, Core!Step, Core!BuildFails, Core!NewService,
                    Core!AssignService, Core!PublishStarted, Core!StopNothing,
                    Core!StopService, Core!StopDone, Core!Alert, Core!AlertClose,
                    Core!AlertForget, Core!AlertFinal, Core!AfterStop, Core!AfterFailedClose,
                    Core!Goto, Core!Return, Core!At
<1>4. Core!StartRefused(c) \/ Core!StartAccepted(c)
  BY <1>2, <1>3 DEF Core!Call, Core!Acquire, Core!StopLocked, Core!Step, Core!BuildFails,
                    Core!NewService, Core!AssignService, Core!PublishStarted, Core!StopNothing,
                    Core!StopService, Core!StopDone, Core!Alert, Core!AlertClose,
                    Core!AlertForget, Core!AlertFinal, Core!At
<1>5. Core!StartRefused(c)
  BY <1>1, <1>4 DEF Core!StartAccepted, Core!Goto
<1> QED
  BY <1>5 DEF Core!StartRefused, Core!MayStart, CoreInv, Core!FreeMeansSettled

\* A step of the core is one of the contract, or none: no proxy is up behind a
\* status that says STOPPED, and STARTED is published only for one that is up.
LEMMA CoreContractStep ==
    ASSUME Core!CoreAssumption, CoreInv, CoreInv', [Core!Next]_(Core!vars)
    PROVE  [CoreContract!Next]_(CoreContract!contractVars)
<1> USE DEF CoreContract!Next, CoreContract!contractVars
<1>1. CASE UNCHANGED Core!vars
  BY <1>1 DEF Core!vars, Core!Phase, Core!On, Core!Up
<1>2. ASSUME NEW c \in Threads, Core!Call(c) \/ Core!StartRefused(c)
      PROVE  UNCHANGED <<Core!Phase, Core!On>>
  BY <1>2 DEF Core!Call, Core!StartRefused, Core!Phase, Core!On, Core!Up
<1>3. ASSUME NEW c \in Threads, Core!StartAccepted(c) PROVE CoreContract!BeginStart
  <2>1. Core!Up' = Core!Up /\ Core!Up = {}
    BY <1>3, UpKept DEF Core!StartAccepted, CoreInv, Core!FreeMeansSettled, Core!Locked,
                        Core!MayStart
  <2>2. QED
    BY <1>3, <2>1 DEF Core!StartAccepted, Core!MayStart, CoreContract!BeginStart, Core!Phase,
                      Core!On
<1>4. ASSUME NEW c \in Threads, Core!StopLocked(c) PROVE CoreContract!BeginStop
  <2>1. Core!Up' = Core!Up
    BY <1>4, UpKept DEF Core!StopLocked
  <2>2. QED
    BY <1>4, <2>1 DEF Core!StopLocked, Core!Locked, CoreInv, Core!FreeMeansSettled,
                      CoreContract!BeginStop, Core!Phase, Core!On
<1>5. ASSUME NEW c \in Threads, Core!BuildFails(c) \/ Core!AssignService(c)
      PROVE  UNCHANGED <<Core!Phase, Core!On>>
  BY <1>5 DEF Core!BuildFails, Core!AssignService, Core!Phase, Core!On, Core!Up
<1>6. ASSUME NEW c \in Threads, Core!NewService(c) PROVE CoreContract!SwitchParts
  BY <1>6 DEF Core!NewService, CoreInv, SectionInv, Core!At, CoreContract!SwitchParts,
              Core!Phase, Core!On
<1>7. ASSUME NEW c \in Threads, Core!PublishStarted(c) PROVE CoreContract!Up
  <2>1. Core!Up' = Core!Up /\ Core!Up # {} /\ coreState = "STARTING"
    BY <1>7, UpKept DEF Core!PublishStarted, CoreInv, SectionInv, Core!At
  <2>2. QED
    BY <1>7, <2>1 DEF Core!PublishStarted, CoreContract!Up, Core!Phase, Core!On
<1>8. ASSUME NEW c \in Threads, Core!StopNothing(c) \/ Core!StopService(c) \/ Core!StopDone(c)
      PROVE  CoreContract!SwitchOff
  <2>1. coreState = "STOPPING"
    BY <1>8 DEF Core!StopNothing, Core!StopService, Core!StopDone, CoreInv, SectionInv, Core!At
  <2>2. Core!Up' = {}
    <3>1. CASE Core!StopNothing(c)
      BY <3>1, UpKept DEF Core!StopNothing, CoreInv, SectionInv, Core!At, Off, Core!Up,
                          Core!Services
    <3>2. CASE Core!StopService(c)
      <4>1. started \in Core!Services /\ Core!Up \subseteq {started}
        BY <3>2 DEF Core!StopService, CoreInv, SectionInv, Core!At, Off, Core!TypeOK,
                    Core!Services, Core!CoreAssumption
      <4>2. QED BY <3>2, <4>1, UpAfterClose DEF Core!StopService, CoreInv
    <3>3. CASE Core!StopDone(c)
      BY <3>3, UpKept DEF Core!StopDone, CoreInv, SectionInv, Core!At
    <3>4. QED BY <1>8, <3>1, <3>2, <3>3
  <2>3. coreState' \in {"STOPPING", "STOPPED"}
    BY <1>8, <2>1 DEF Core!StopNothing, Core!StopService, Core!StopDone
  <2>4. QED
    BY <2>1, <2>2, <2>3 DEF CoreContract!SwitchOff, Core!Phase, Core!On
<1>9. ASSUME NEW c \in Threads, Core!Alert(c) PROVE CoreContract!Fail
  <2>1. Core!Up' = Core!Up /\ Core!Up = {} /\ coreState \in {"STARTING", "STOPPING"}
    BY <1>9, UpKept DEF Core!Alert, CoreInv, SectionInv, Core!At, Off
  <2>2. QED
    BY <1>9, <2>1 DEF Core!Alert, CoreContract!Fail, Core!Phase, Core!On
<1>10. ASSUME NEW c \in Threads, Core!AlertClose(c) \/ Core!AlertForget(c) \/ Core!AlertFinal(c)
       PROVE  UNCHANGED <<Core!Phase, Core!On>>
  <2>1. Core!Up' = Core!Up
    BY <1>10, UpKept DEF Core!AlertClose, Core!AlertForget, Core!AlertFinal, CoreInv,
                         SectionInv, Core!At, Off
  <2>2. coreState' = coreState
    BY <1>10 DEF Core!AlertClose, Core!AlertForget, Core!AlertFinal, CoreInv, SectionInv,
                 Core!At
  <2>3. QED BY <2>1, <2>2 DEF Core!Phase, Core!On
<1>11. ASSUME NEW c \in Threads, Core!Step(c)
       PROVE  [CoreContract!Next]_(CoreContract!contractVars)
  BY <1>5, <1>6, <1>7, <1>8, <1>9, <1>10, <1>11 DEF Core!Step
<1>12. QED
  BY <1>1, <1>2, <1>3, <1>4, <1>11 DEF Core!Next, Core!Acquire, Core!PanicInStart

\* The core implements the contract for any number of callers.
THEOREM CoreImplementsContract ==
    ASSUME Core!CoreAssumption
    PROVE  Core!Spec => CoreContract!Spec
<1>1. Core!Init => CoreContract!Init
  BY DEF Core!Init, CoreContract!Init, Core!Phase, Core!On, Core!Up
<1>2. CoreInv /\ CoreInv' /\ [Core!Next]_(Core!vars) => [CoreContract!Next]_(CoreContract!contractVars)
  BY CoreContractStep
<1>3. QED
  BY <1>1, <1>2, CoreInvariant, PTL DEF Core!Spec, CoreContract!Spec

-----------------------------------------------------------------------------
(***************************************************************************)
(* The instances that are checked are the ones the theorems are about.     *)
(***************************************************************************)
LEMMA CoreAssumed ==
    /\ Core!CoreAssumption
    /\ SP!ServiceAssumption /\ UP!ServiceAssumption
    /\ Holder \in Threads
BY PartsAssumption
DEF PartsAssumption, Core!CoreAssumption, Service!ServiceAssumption, SP!ServiceAssumption,
    UP!ServiceAssumption, Holder

LEMMA ServiceInitSame == Service!Init => SP!Init /\ UP!Init
BY DEF Service!Init, SP!Init, UP!Init, Service!Boxes, SP!Boxes, UP!Boxes, Service!NewBox,
       SP!NewBox, UP!NewBox

\* What a thread does as one of several callers.
LEMMA ServiceNextSame ==
    ASSUME NEW c \in Threads
    PROVE  /\ Service!Call(c) => SP!Call(c)
           /\ Service!Step(c) => SP!Step(c)
<1> USE DEF Service!Goto, SP!Goto, Service!Free, SP!Free, Service!Startable, SP!Startable,
            Service!Create, SP!Create, Service!GiveUp, SP!GiveUp, Service!ClosedBox,
            SP!ClosedBox, Service!HasPart, SP!HasPart, Service!Parts, SP!Parts
<1>1. Service!Call(c) => SP!Call(c)
  BY DEF Service!Call, SP!Call, Service!StartFresh, SP!StartFresh, Service!Reload, SP!Reload,
         Service!CloseService, SP!CloseService, Service!SetError, SP!SetError
<1>2. Service!CloseOld(c) \/ Service!Relock(c) => SP!CloseOld(c) \/ SP!Relock(c)
  BY DEF Service!CloseOld, SP!CloseOld, Service!Relock, SP!Relock
<1>3. Service!StartPart(c) => SP!StartPart(c)
  BY DEF Service!StartPart, SP!StartPart
<1>4. Service!StartFails(c) \/ Service!StartDone(c) => SP!StartFails(c) \/ SP!StartDone(c)
  BY DEF Service!StartFails, SP!StartFails, Service!StartDone, SP!StartDone
<1>5. Service!FinishStart(c) => SP!FinishStart(c)
  BY DEF Service!FinishStart, SP!FinishStart, Service!StatusAfterStart, SP!StatusAfterStart
<1>6. Service!EndClose(c) => SP!EndClose(c)
  BY DEF Service!EndClose, SP!EndClose, Service!AfterClose, SP!AfterClose,
         Service!CloseOutcomes, SP!CloseOutcomes
<1> QED
  BY <1>1, <1>2, <1>3, <1>4, <1>5, <1>6 DEF Service!Step, SP!Step

\* Called by one, it does nothing that it would not do called by several.
LEMMA UnderLockIsService ==
    ASSUME NEW c \in Threads
    PROVE  /\ UnderLock!Call(c) => SP!Call(c)
           /\ UnderLock!Step(c) => SP!Step(c)
<1> USE DEF UnderLock!Goto, SP!Goto, UnderLock!Free, SP!Free, UnderLock!Startable,
            SP!Startable, UnderLock!Create, SP!Create, UnderLock!GiveUp, SP!GiveUp,
            UnderLock!ClosedBox, SP!ClosedBox, UnderLock!HasPart, SP!HasPart, UnderLock!Parts,
            SP!Parts
<1>1. UnderLock!Call(c) => SP!Call(c)
  BY DEF UnderLock!Call, SP!Call, UnderLock!StartFresh, SP!StartFresh, UnderLock!Reload,
         SP!Reload, UnderLock!CloseService, SP!CloseService, UnderLock!SetError, SP!SetError
<1>2. UnderLock!CloseOld(c) \/ UnderLock!Relock(c) => SP!CloseOld(c) \/ SP!Relock(c)
  BY DEF UnderLock!CloseOld, SP!CloseOld, UnderLock!Relock, SP!Relock
<1>3. UnderLock!StartPart(c) => SP!StartPart(c)
  BY DEF UnderLock!StartPart, SP!StartPart
<1>4. UnderLock!StartFails(c) \/ UnderLock!StartDone(c) => SP!StartFails(c) \/ SP!StartDone(c)
  BY DEF UnderLock!StartFails, SP!StartFails, UnderLock!StartDone, SP!StartDone
<1>5. UnderLock!FinishStart(c) => SP!FinishStart(c)
  BY DEF UnderLock!FinishStart, SP!FinishStart, UnderLock!StatusAfterStart, SP!StatusAfterStart
<1>6. UnderLock!EndClose(c) => SP!EndClose(c)
  BY DEF UnderLock!EndClose, SP!EndClose, UnderLock!AfterClose, SP!AfterClose,
         UnderLock!CloseOutcomes, SP!CloseOutcomes
<1> QED
  BY <1>1, <1>2, <1>3, <1>4, <1>5, <1>6 DEF UnderLock!Step, SP!Step

\* What it does as the only one.
LEMMA UnderLockSame ==
    ASSUME NEW c \in Threads
    PROVE  /\ UnderLock!Call(c) => UP!Call(c)
           /\ UnderLock!Step(c) => UP!Step(c)
<1> USE DEF UnderLock!Goto, UP!Goto, UnderLock!Free, UP!Free, UnderLock!Startable,
            UP!Startable, UnderLock!Create, UP!Create, UnderLock!GiveUp, UP!GiveUp,
            UnderLock!ClosedBox, UP!ClosedBox, UnderLock!HasPart, UP!HasPart, UnderLock!Parts,
            UP!Parts
<1>1. UnderLock!Call(c) => UP!Call(c)
  BY DEF UnderLock!Call, UP!Call, UnderLock!StartFresh, UP!StartFresh, UnderLock!Reload,
         UP!Reload, UnderLock!CloseService, UP!CloseService, UnderLock!SetError, UP!SetError
<1>2. UnderLock!CloseOld(c) \/ UnderLock!Relock(c) => UP!CloseOld(c) \/ UP!Relock(c)
  BY DEF UnderLock!CloseOld, UP!CloseOld, UnderLock!Relock, UP!Relock
<1>3. UnderLock!StartPart(c) => UP!StartPart(c)
  BY DEF UnderLock!StartPart, UP!StartPart
<1>4. UnderLock!StartFails(c) \/ UnderLock!StartDone(c) => UP!StartFails(c) \/ UP!StartDone(c)
  BY DEF UnderLock!StartFails, UP!StartFails, UnderLock!StartDone, UP!StartDone
<1>5. UnderLock!FinishStart(c) => UP!FinishStart(c)
  BY DEF UnderLock!FinishStart, UP!FinishStart, UnderLock!StatusAfterStart, UP!StatusAfterStart
<1>6. UnderLock!EndClose(c) => UP!EndClose(c)
  BY DEF UnderLock!EndClose, UP!EndClose, UnderLock!AfterClose, UP!AfterClose,
         UnderLock!CloseOutcomes, UP!CloseOutcomes
<1> QED
  BY <1>1, <1>2, <1>3, <1>4, <1>5, <1>6 DEF UnderLock!Step, UP!Step

LEMMA TransientSame ==
    SP!OwnerInv => Service!TransientHasOwner /\ Service!OneStopper
<1> SUFFICES ASSUME SP!OwnerInv PROVE Service!TransientHasOwner /\ Service!OneStopper
  OBVIOUS
<1>1. SP!TransientHasOwner /\ SP!OneStopper
  BY SP!StoppersApart DEF SP!OwnerInv
<1> QED
  BY <1>1 DEF SP!TransientHasOwner, Service!TransientHasOwner, SP!OneStopper,
              Service!OneStopper, SP!Starting, Service!Starting, SP!Stopping, Service!Stopping

LEMMA OpenSame == UP!OpenCanBeClosed => UnderLock!OpenCanBeClosed
BY DEF UP!OpenCanBeClosed, UnderLock!OpenCanBeClosed, UP!Open, UnderLock!Open, UP!Boxes,
       UnderLock!Boxes

-----------------------------------------------------------------------------
(***************************************************************************)
(* The invariant of all parts: one moves and the others stay at first.     *)
(***************************************************************************)
CoreProofsInv ==
    /\ part # "panicking" => CoreInv
    /\ SP!TypeInv /\ SP!OwnerInv
    /\ part = "under lock" => UP!SoleInv(Holder)

LEMMA AllInit == Init => CoreProofsInv
<1> SUFFICES ASSUME Init PROVE CoreProofsInv
  OBVIOUS
<1>1. CoreInv
  BY CoreAssumed, CoreInit DEF Init
<1>2. SP!TypeInv /\ SP!OwnerInv
  BY CoreAssumed, ServiceInitSame, SP!ServiceInit, SP!OwnerInit DEF Init
<1>3. UP!SoleInv(Holder)
  BY CoreAssumed, ServiceInitSame, UP!SoleInit DEF Init
<1> QED
  BY <1>1, <1>2, <1>3 DEF CoreProofsInv

\* A step of each module, whichever part it belongs to.
LEMMA StepOfCore ==
    ASSUME [Next]_vars, part # "panicking"
    PROVE  part' = part /\ [Core!Next]_(Core!vars)
BY DEF Next, vars, coreVars, Core!vars

LEMMA StepOfService ==
    ASSUME [Next]_vars
    PROVE  [SP!Next]_(SP!vars)
<1>1. UNCHANGED serviceVars => UNCHANGED SP!vars
  BY DEF serviceVars, SP!vars
<1>2. CASE Service!Next
  <2>1. PICK c \in Threads : Service!Call(c) \/ Service!Step(c)
    BY <1>2 DEF Service!Next
  <2> QED
    BY <2>1, ServiceNextSame DEF SP!Next
<1>3. CASE UnderLock!Call(Holder) \/ UnderLock!Step(Holder)
  BY <1>3, CoreAssumed, UnderLockIsService DEF SP!Next
<1> QED
  BY <1>1, <1>2, <1>3 DEF Next, vars

LEMMA StepUnderLock ==
    ASSUME [Next]_vars, part = "under lock"
    PROVE  UP!Call(Holder) \/ UP!Step(Holder) \/ UNCHANGED UP!vars
<1>1. UNCHANGED serviceVars => UNCHANGED UP!vars
  BY DEF serviceVars, UP!vars
<1>2. UnderLock!Call(Holder) \/ UnderLock!Step(Holder) => UP!Call(Holder) \/ UP!Step(Holder)
  BY CoreAssumed, UnderLockSame
<1> QED
  BY <1>1, <1>2 DEF Next, vars

LEMMA AllNext == CoreProofsInv /\ [Next]_vars => CoreProofsInv'
<1> SUFFICES ASSUME CoreProofsInv, [Next]_vars PROVE CoreProofsInv'
  OBVIOUS
<1>1. part' = part
  BY DEF Next, vars
<1>2. part # "panicking" => CoreInv'
  BY CoreAssumed, StepOfCore, CoreStep DEF CoreProofsInv
<1>3. SP!TypeInv' /\ SP!OwnerInv'
  BY CoreAssumed, StepOfService, SP!ServiceTypeStep, SP!OwnerStep DEF CoreProofsInv
<1>4. part = "under lock" => UP!SoleInv(Holder)'
  BY CoreAssumed, StepUnderLock, UP!SoleNext DEF CoreProofsInv
<1> QED
  BY <1>1, <1>2, <1>3, <1>4 DEF CoreProofsInv

THEOREM AllPartsHold == FairSpec => []CoreProofsInv
<1> QED
  BY AllInit, AllNext, PTL DEF FairSpec

\* A STARTING or STOPPING of the service has a call behind it that will move it on,
\* and no two calls take the service down at a time (startOrReloadService,
\* CloseService, SetError).
THEOREM TransientsOwned == FairSpec => []TransientHasOwner
<1>1. CoreProofsInv => TransientHasOwner
  BY TransientSame DEF CoreProofsInv, TransientHasOwner
<1> QED
  BY <1>1, AllPartsHold, PTL

\* Whoever finds static.lock free finds a status that tells the truth and, if no
\* close has been tried, a proxy that Stop can reach, and so hcore finds the service it calls (StartService,
\* Stop, Restart, errorWrapper without a panic).
THEOREM FreeIsSettled == FairSpec => []FreeMeansSettled
<1>1. ASSUME CoreProofsInv PROVE FreeMeansSettled
  <2>1. part # "panicking" => Core!FreeMeansSettled /\ Core!UpIsKnown
    BY <1>1, CoreAssumed, CoreKnows DEF CoreProofsInv, CoreInv
  <2>2. part = "under lock" => UP!OpenCanBeClosed
    BY <1>1, CoreAssumed, UP!SoleSettled DEF CoreProofsInv
  <2> QED
    BY <2>1, <2>2, OpenSame DEF FreeMeansSettled
<1> QED
  BY <1>1, AllPartsHold, PTL

\* A restart that is refused, because another start came between its two critical
\* sections, finds the core up all the same (Restart, StartService).
THEOREM RestartsEndUp == FairSpec => RestartEndsUp
<1>1. CoreProofsInv /\ [Next]_vars => [part = "core" => Core!RefusedRestartIsUp]_vars
  <2> SUFFICES ASSUME CoreProofsInv, [Next]_vars, part = "core", ~UNCHANGED vars
               PROVE  Core!RefusedRestartIsUp
    OBVIOUS
  <2>1. Core!Next
    BY DEF Next
  <2> QED
    BY <2>1, CoreAssumed, RefusedStep DEF CoreProofsInv
<1> QED
  BY <1>1, AllPartsHold, PTL DEF FairSpec, RestartEndsUp

-----------------------------------------------------------------------------
(***************************************************************************)
(* The contract.                                                           *)
(***************************************************************************)
LEMMA ContractOfCore ==
    ASSUME part = "core", UNCHANGED part, [CoreContract!Next]_(CoreContract!contractVars)
    PROVE  [Contract!Next]_(Contract!contractVars)
<1> USE DEF Core!Phase, Core!On, Core!Up
<1>1. CoreContract!BeginStart \/ CoreContract!BeginStop => Contract!BeginStart \/ Contract!BeginStop
  BY DEF CoreContract!BeginStart, Contract!BeginStart, CoreContract!BeginStop,
         Contract!BeginStop
<1>2. CoreContract!SwitchParts \/ CoreContract!SwitchOff => Contract!SwitchParts \/ Contract!SwitchOff
  BY DEF CoreContract!SwitchParts, Contract!SwitchParts, CoreContract!SwitchOff,
         Contract!SwitchOff
<1>3. CoreContract!Up \/ CoreContract!Fail => Contract!Up \/ Contract!Fail
  BY DEF CoreContract!Up, Contract!Up, CoreContract!Fail, Contract!Fail
<1>4. UNCHANGED CoreContract!contractVars => UNCHANGED Contract!contractVars
  BY DEF CoreContract!contractVars, Contract!contractVars
<1> QED
  BY <1>1, <1>2, <1>3, <1>4 DEF CoreContract!Next, Contract!Next

LEMMA ContractOfService ==
    ASSUME part = "under lock", UNCHANGED part, [UP!Contract!Next]_(UP!Contract!contractVars)
    PROVE  [Contract!Next]_(Contract!contractVars)
<1> USE DEF Service!Phase, UP!Phase, UP!On, Service!On, Service!Open, UP!Open, Service!Boxes,
            UP!Boxes
<1>1. UP!Contract!BeginStart \/ UP!Contract!BeginStop => Contract!BeginStart \/ Contract!BeginStop
  BY DEF UP!Contract!BeginStart, Contract!BeginStart, UP!Contract!BeginStop, Contract!BeginStop
<1>2. UP!Contract!SwitchParts \/ UP!Contract!SwitchOff => Contract!SwitchParts \/ Contract!SwitchOff
  BY DEF UP!Contract!SwitchParts, Contract!SwitchParts, UP!Contract!SwitchOff,
         Contract!SwitchOff
<1>3. UP!Contract!Up \/ UP!Contract!Fail => Contract!Up \/ Contract!Fail
  BY DEF UP!Contract!Up, Contract!Up, UP!Contract!Fail, Contract!Fail
<1>4. UNCHANGED UP!Contract!contractVars => UNCHANGED Contract!contractVars
  BY DEF UP!Contract!contractVars, Contract!contractVars
<1> QED
  BY <1>1, <1>2, <1>3, <1>4 DEF UP!Contract!Next, Contract!Next

LEMMA AllContractStep ==
    ASSUME CoreProofsInv, CoreProofsInv', [Next]_vars
    PROVE  [Contract!Next]_(Contract!contractVars)
<1>1. part' = part
  BY DEF Next, vars
<1>2. CASE part = "core"
  BY <1>1, <1>2, CoreAssumed, StepOfCore, CoreContractStep, ContractOfCore DEF CoreProofsInv
<1>3. CASE part = "under lock"
  BY <1>1, <1>3, CoreAssumed, StepUnderLock, UP!SoleContractStep, ContractOfService
  DEF CoreProofsInv
<1>4. CASE part \notin {"core", "under lock"}
  BY <1>1, <1>4 DEF Contract!contractVars
<1> QED
  BY <1>2, <1>3, <1>4

\* The service gives one caller at a time what ServiceContract says, and the core
\* gives as much to all its callers: no part of the proxy is on while the published
\* status says that it is stopped.
THEOREM PartsImplementContract == FairSpec => ImplementsContract
<1>1. Init => Contract!Init
  <2> SUFFICES ASSUME Init PROVE Contract!Init
    OBVIOUS
  <2>1. Core!Phase = "idle" /\ Core!Up = {}
    BY DEF Init, Core!Init, Core!Phase, Core!Up
  <2>2. Service!Phase = "idle" /\ Service!Open = {}
    BY DEF Init, Service!Init, Service!Phase, Service!Open, Service!NewBox
  <2> QED
    BY <2>1, <2>2 DEF Contract!Init, Core!On, Service!On
<1>2. CoreProofsInv /\ CoreProofsInv' /\ [Next]_vars => [Contract!Next]_(Contract!contractVars)
  BY AllContractStep
<1> QED
  BY <1>1, <1>2, AllPartsHold, PTL DEF FairSpec, ImplementsContract, Contract!Spec
=============================================================================
