--------------------------- MODULE StartedService ---------------------------
(***************************************************************************)
(* StartedService of the daemon package: the service status, its access    *)
(* mutex, and the box (the proxy instance) it starts, reloads and closes.  *)
(* startOrReloadService gives the mutex up twice, while it closes the box  *)
(* it replaces and while the new one starts; CloseService keeps it.        *)
(* A box is a row of parts (managers and inner services) that Start opens  *)
(* one after the other.  Close asks those that are open to close and lets  *)
(* nobody close the box again; "open" are the parts that nobody has asked  *)
(* to close, so what a failed close leaves on is outside the model.        *)
(***************************************************************************)
EXTENDS Naturals

CONSTANTS
    Callers,        \* threads that call the service
    Nobody,         \* the owner of a free mutex
    NumParts,       \* parts of a box
    MaxBoxes,       \* bound: boxes made in a behaviour
    ErrorCalls      \* whether SetError is called

\* What the constants stand for.
ServiceAssumption ==
    /\ Nobody \notin Callers
    /\ NumParts \in Nat \ {0}
    /\ MaxBoxes \in Nat
    /\ ErrorCalls \in BOOLEAN

VARIABLES
    status,         \* serviceStatus
    access,         \* holder of serviceAccess between two steps
    instance,       \* s.instance, 0 for nil
    made,           \* boxes made so far
    box,            \* the boxes
    pc, mine, failed  \* per call: place, box it works on, error of Start

vars == <<status, access, instance, made, box, pc, mine, failed>>

Parts == 1..NumParts
Boxes == 1..MaxBoxes
Statuses == {"IDLE", "STARTING", "STARTED", "STOPPING", "FATAL"}
Places == {"idle", "closeOld", "relock", "starting", "finish", "closing"}

TypeOK ==
    /\ status \in Statuses
    /\ access \in Callers \cup {Nobody}
    /\ instance \in 0..MaxBoxes
    /\ made \in 0..MaxBoxes
    /\ box \in [Boxes -> [next : 1..NumParts + 1, open : SUBSET Parts, done : BOOLEAN]]
    /\ pc \in [Callers -> Places]
    /\ mine \in [Callers -> 0..MaxBoxes]
    /\ failed \in [Callers -> BOOLEAN]

NewBox == [next |-> 1, open |-> {}, done |-> FALSE]

Init ==
    /\ status = "IDLE" /\ access = Nobody /\ instance = 0 /\ made = 0
    /\ box = [b \in Boxes |-> NewBox]
    /\ pc = [c \in Callers |-> "idle"]
    /\ mine = [c \in Callers |-> 0]
    /\ failed = [c \in Callers |-> FALSE]

Free == access = Nobody
Goto(c, p) == pc' = [pc EXCEPT ![c] = p]

----------------------------------------------------------------------------
(* The box.                                                                 *)

ClosedBox(b) == [b EXCEPT !.open = {}, !.done = TRUE]

\* Whether Box.Close may return an error: always when the box was closed
\* before, else when a part fails or takes longer than its ten seconds.
CloseOutcomes(b) == IF b.done THEN {TRUE} ELSE BOOLEAN

\* Box.Start closes the box when a part cannot be started; closing one that
\* is closed already changes nothing, also what was opened since.
GiveUp(b) == IF b.done THEN b ELSE ClosedBox(b)

----------------------------------------------------------------------------
(* startOrReloadService                                                     *)

\* newInstance under the mutex, then the mutex is free while the box starts.
Create(c) ==
    \/ /\ status' = "FATAL"
       /\ Goto(c, "idle")
       /\ UNCHANGED <<instance, made, mine, failed>>
    \/ /\ made < MaxBoxes
       /\ status' = "STARTING"
       /\ made' = made + 1
       /\ instance' = made'
       /\ mine' = [mine EXCEPT ![c] = made']
       /\ failed' = [failed EXCEPT ![c] = FALSE]
       /\ Goto(c, "starting")

\* Mutation: a reload is accepted while another call stops the service.
StartableWhileStopping == {"IDLE", "STARTED", "STARTING", "STOPPING"}

Startable == {"IDLE", "STARTED", "STARTING"}

StartFresh(c) ==
    /\ pc[c] = "idle" /\ Free
    /\ status \in Startable
    /\ instance = 0
    /\ made < MaxBoxes
    /\ Create(c)
    /\ UNCHANGED <<access, box>>

Reload(c) ==
    /\ pc[c] = "idle" /\ Free
    /\ status \in Startable
    /\ instance # 0
    /\ made < MaxBoxes
    /\ status' = "STOPPING"
    /\ mine' = [mine EXCEPT ![c] = instance]
    /\ Goto(c, "closeOld")
    /\ UNCHANGED <<access, instance, made, box, failed>>

\* The error of closing the old box is ignored.
CloseOld(c) ==
    /\ pc[c] = "closeOld"
    /\ box' = [box EXCEPT ![mine[c]] = GiveUp(@)]
    /\ Goto(c, "relock")
    /\ UNCHANGED <<status, access, instance, made, mine, failed>>

Relock(c) ==
    /\ pc[c] = "relock" /\ Free
    /\ Create(c)
    /\ UNCHANGED <<access, box>>

HasPart(b) == b.next \in Parts

\* A part opens, also one of a box that was closed meanwhile: the start works
\* on its own copy of the list; or it has been dropped and nothing opens.
StartPart(c) ==
    LET b == box[mine[c]]
        Past(open) == [b EXCEPT !.next = b.next + 1, !.open = open] IN
    /\ pc[c] = "starting"
    /\ HasPart(b)
    /\ \/ box' = [box EXCEPT ![mine[c]] = Past(b.open \cup {b.next})]
       \/ b.done /\ box' = [box EXCEPT ![mine[c]] = Past(b.open)]
    /\ UNCHANGED <<status, access, instance, made, pc, mine, failed>>

StartFails(c) ==
    /\ pc[c] = "starting"
    /\ HasPart(box[mine[c]])
    /\ box' = [box EXCEPT ![mine[c]] = GiveUp(@)]
    /\ failed' = [failed EXCEPT ![c] = TRUE]
    /\ Goto(c, "finish")
    /\ UNCHANGED <<status, access, instance, made, mine>>

StartDone(c) ==
    /\ pc[c] = "starting"
    /\ box[mine[c]].next = NumParts + 1
    /\ Goto(c, "finish")
    /\ UNCHANGED <<status, access, instance, made, box, mine, failed>>

\* Mutation: the error of the start is not looked at.
StatusAfterStartBlind(c) == IF status # "STARTING" THEN status ELSE "STARTED"

\* A status other than STARTING belongs to somebody else by now; the call
\* then returns nil whatever became of its own box.
StatusAfterStart(c) ==
    IF status # "STARTING" THEN status
    ELSE IF failed[c] THEN "FATAL" ELSE "STARTED"

FinishStart(c) ==
    /\ pc[c] = "finish" /\ Free
    /\ status' = StatusAfterStart(c)
    /\ Goto(c, "idle")
    /\ UNCHANGED <<access, instance, made, box, mine, failed>>

----------------------------------------------------------------------------
(* CloseService and SetError                                                *)

CloseService(c) ==
    /\ pc[c] = "idle" /\ Free
    /\ status \in {"STARTING", "STARTED"}
    /\ status' = "STOPPING"
    /\ access' = c
    /\ Goto(c, "closing")
    /\ UNCHANGED <<instance, made, box, mine, failed>>

\* Mutation: the error path keeps the mutex.
AfterCloseLocked(c, err) == access' = IF err THEN c ELSE Nobody

AfterClose(c, err) == access' = Nobody

EndClose(c) ==
    /\ pc[c] = "closing"
    /\ IF instance = 0
       THEN /\ status' = "IDLE"
            /\ AfterClose(c, FALSE)
            /\ UNCHANGED <<instance, box>>
       ELSE \E err \in CloseOutcomes(box[instance]) :
              /\ status' = IF err THEN "FATAL" ELSE "IDLE"
              /\ instance' = IF err THEN instance ELSE 0
              /\ box' = [box EXCEPT ![instance] = GiveUp(@)]
              /\ AfterClose(c, err)
    /\ Goto(c, "idle")
    /\ UNCHANGED <<made, mine, failed>>

SetError(c) ==
    /\ ErrorCalls
    /\ pc[c] = "idle" /\ Free
    /\ status' = "FATAL"
    /\ UNCHANGED <<access, instance, made, box, pc, mine, failed>>

----------------------------------------------------------------------------
Step(c) ==
    \/ CloseOld(c) \/ Relock(c)
    \/ StartPart(c) \/ StartFails(c) \/ StartDone(c) \/ FinishStart(c)
    \/ EndClose(c)

Call(c) == StartFresh(c) \/ Reload(c) \/ CloseService(c) \/ SetError(c)

Next == \E c \in Callers : Call(c) \/ Step(c)

\* A call that was made goes on; nobody has to call.
Fairness == \A c \in Callers : WF_vars(Step(c))

Spec == Init /\ [][Next]_vars
FairSpec == Spec /\ Fairness

----------------------------------------------------------------------------
(* Several callers.                                                         *)

Stopping == {c \in Callers : pc[c] \in {"closeOld", "relock", "closing"}}
Starting == {c \in Callers : pc[c] \in {"starting", "finish"}}

\* A status in between always has a call behind it that will move it on, even
\* when reloads, closes and starts overtake one another: lines 176-251 never
\* leave the service at STARTING or STOPPING with nobody at work.
TransientHasOwner ==
    /\ status = "STARTING" => Starting # {}
    /\ status = "STOPPING" => Stopping # {}

\* The mutex is free while an old box is closed, so only the status keeps a
\* second call out: no two calls are taking the service down at a time.
OneStopper == \A c, d \in Stopping : c = d

\* The service does not stay in between: every start, reload and close comes
\* to an end for those who watch the status.
Settles ==
    status \in {"STARTING", "STOPPING"} ~> status \in {"IDLE", "STARTED", "FATAL"}

\* Every call returns: none waits for ever for the mutex.
CallsReturn == \A c \in Callers : pc[c] # "idle" ~> pc[c] = "idle"

----------------------------------------------------------------------------
(* One caller, as in hcore, where static.lock makes the calls one by one.   *)

Open == {b \in Boxes : box[b].open # {}}

\* Whenever no call is in progress and a part is open, it belongs to the one
\* box s.instance holds, and the status admits the CloseService that closes it.
OpenCanBeClosed ==
    (\A c \in Callers : pc[c] = "idle") =>
        /\ Open \subseteq {instance}
        /\ Open # {} => status = "STARTED"

\* The phase and the proxy that ServiceContract speaks of.
Phase ==
    CASE status = "IDLE" -> "idle"
      [] status = "STARTING" -> "starting"
      [] status = "STARTED" -> "up"
      [] status = "STOPPING" -> "stopping"
      [] OTHER -> "failed"
On == Open # {}

=============================================================================
