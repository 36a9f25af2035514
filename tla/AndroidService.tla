--------------------------- MODULE AndroidService ---------------------------
(***************************************************************************)
(* The Android service that hosts the background core: BoxService with its *)
(* ServiceBinder, and the start request of MainActivity.  The main thread  *)
(* runs its tasks in order (main); startService and stopService each       *)
(* continue in a coroutine beside it, and hop to the main thread for some  *)
(* steps.  LiveData.postValue keeps one value (posted, and appPosted in    *)
(* MainActivity) until its task runs.  All of this is in one process       *)
(* (AndroidManifest.xml).                                                  *)
(***************************************************************************)
EXTENDS Naturals, SequencesExt

CONSTANTS
    Starts,         \* the coroutines of startService
    Stops,          \* the coroutines of stopService
    MaxAsks,        \* bound on the starts and stops somebody asks for
    StopsCross,     \* a stop may come while a start is under way
    CoreMayFail     \* Mobile.start may throw after the service has started

\* What the constants stand for.
EventAssumption ==
    /\ MaxAsks \in Nat
    /\ StopsCross \in BOOLEAN /\ CoreMayFail \in BOOLEAN
    /\ Starts \cap Stops = {}

VARIABLES
    main,       \* the tasks waiting for the main thread
    value,      \* status.value
    posted,     \* what status.postValue has left for the main thread
    receiver,   \* receiverRegistered
    pc,         \* where each coroutine is
    server,     \* the core listens on the background port
    monitor,    \* DefaultNetworkMonitor listens
    request,    \* MainActivity.pendingStart is active
    appStatus,  \* MainActivity.serviceStatus
    appPosted,  \* what serviceStatus.postValue has left for the main thread
    answer,     \* what the last startServiceAndWait returned
    asks        \* asked so far

vars == <<main, value, posted, receiver, pc, server, monitor, request, appStatus, appPosted,
          answer, asks>>

Status == {"Stopped", "Starting", "Started", "Stopping"}
NoPost == "NoPost"
Jobs == Starts \cup Stops

Task(what, of) == [what |-> what, of |-> of]

Init ==
    /\ main = << >> /\ value = "Stopped" /\ posted = NoPost /\ receiver = FALSE
    /\ pc = [j \in Jobs |-> "unused"]
    /\ server = FALSE /\ monitor = FALSE
    /\ request = FALSE /\ answer = "none" /\ asks = 0
    /\ appStatus = "Stopped" /\ appPosted = NoPost

Running(j) == pc[j] \notin {"unused", "done"}
AtRest == main = << >> /\ \A j \in Jobs : ~Running(j)

Goto(j, p) == pc' = [pc EXCEPT ![j] = p]

\* What a coroutine, the app or the system puts at the end of the queue.
Enqueue(tasks) == main' = main \o tasks

\* The rest of the queue after the task that runs, and what it adds.
Dequeue(tasks) == main' = Tail(main) \o tasks

\* The observer of the binder tells every change of the status.
SetValue(v, before) ==
    /\ value' = v
    /\ Dequeue(before \o <<Task("tell", v)>>)

-----------------------------------------------------------------------------
(* The app, the tile and the system. *)

Ask == asks < MaxAsks /\ asks' = asks + 1

\* Between the halves of its last block a stop keeps the main thread.
Held == \E t \in Stops : pc[t] = "closed"

\* The app has waited for the background port to be closed (setupBackground).  A
\* message of Flutter may overtake the tasks that wait for the main thread.
AskStart ==
    /\ Ask /\ ~server
    /\ \E i \in (IF Held THEN 2 ELSE 1)..(Len(main) + 1) :
         main' = InsertAt(main, i, Task("start", "app"))
    /\ answer' = "none"
    /\ UNCHANGED <<value, posted, receiver, pc, server, monitor, request, appStatus, appPosted>>

\* The tile starts the service when it knows it as stopped.
TileStart ==
    /\ Ask /\ ~Held /\ value = "Stopped"
    /\ Enqueue(<<Task("command", "tile")>>)
    /\ UNCHANGED <<value, posted, receiver, pc, server, monitor, request, appStatus, appPosted, answer>>

MayStop == StopsCross \/ AtRest

\* The stop of the app ends its pending request and sends SERVICE_CLOSE.
AskStop ==
    /\ Ask /\ MayStop /\ ~Held
    /\ request' = FALSE
    /\ answer' = IF request THEN "failed" ELSE answer
    /\ Enqueue(IF receiver THEN <<Task("stop", "app")>> ELSE << >>)
    /\ UNCHANGED <<value, posted, receiver, pc, server, monitor, appStatus, appPosted>>

\* The system revokes the VPN of a core that runs.
Revoke ==
    /\ Ask /\ MayStop /\ server
    /\ Enqueue(<<Task("stop", "system")>>)
    /\ UNCHANGED <<value, posted, receiver, pc, server, monitor, request, appStatus, appPosted, answer>>

-----------------------------------------------------------------------------
(* Tasks of the main thread. *)

Runs(what) == main # << >> /\ Head(main).what = what

\* startServiceAndWait: one request, which later callers join.
StartAsked ==
    /\ Runs("start")
    /\ \/ appStatus = "Started" /\ answer' = "ready" /\ Dequeue(<< >>) /\ UNCHANGED request
       \/ appStatus # "Started" /\ request /\ Dequeue(<< >>) /\ UNCHANGED <<request, answer>>
       \/ /\ appStatus # "Started" /\ ~request
          /\ request' = TRUE
          /\ \E ends \in {"command", "refused"} : Dequeue(<<Task(ends, "app")>>)
          /\ UNCHANGED answer
    /\ UNCHANGED <<value, posted, receiver, pc, server, monitor, appStatus, appPosted, asks>>

\* The user denies a permission: onServiceAlert ends the request.
Refused ==
    /\ Runs("refused")
    /\ Dequeue(<< >>)
    /\ request' = FALSE
    /\ answer' = IF request THEN "failed" ELSE answer
    /\ UNCHANGED <<value, posted, receiver, pc, server, monitor, appStatus, appPosted, asks>>

\* Mutation: the receiver of SERVICE_CLOSE is not registered.
ReceiverForgotten == receiver
ReceiverAfterStart == TRUE

\* onStartCommand: only a stopped service starts.
OnStartCommand ==
    /\ Runs("command")
    /\ IF value # "Stopped"
       THEN Dequeue(<< >>) /\ UNCHANGED <<value, receiver, pc>>
       ELSE /\ \E s \in Starts : pc[s] = "unused" /\ Goto(s, "begin")
            /\ SetValue("Starting", << >>)
            /\ receiver' = ReceiverAfterStart
    /\ UNCHANGED <<posted, server, monitor, request, appStatus, appPosted, answer, asks>>

StopService ==
    /\ Runs("stop")
    /\ IF value = "Stopped"
       THEN Dequeue(<< >>) /\ UNCHANGED <<value, receiver, pc>>
       ELSE /\ \E s \in Stops : pc[s] = "unused" /\ Goto(s, "release")
            /\ SetValue("Stopping", << >>)
            /\ receiver' = FALSE
    /\ UNCHANGED <<posted, server, monitor, request, appStatus, appPosted, answer, asks>>

PostedAfter == NoPost

\* The task of postValue.
Deliver ==
    /\ Runs("posted")
    /\ SetValue(posted, << >>)
    /\ posted' = PostedAfter
    /\ UNCHANGED <<receiver, pc, server, monitor, request, appStatus, appPosted, answer, asks>>

\* A block of a coroutine that shows the notification.
Show ==
    /\ Runs("show")
    /\ Dequeue(<< >>)
    /\ Goto(Head(main).of, "monitor")
    /\ UNCHANGED <<value, posted, receiver, server, monitor, request, appStatus, appPosted, answer, asks>>

\* stopAndAlert.
AlertStatus == "Stopped"
Alert ==
    /\ Runs("alert")
    /\ SetValue(AlertStatus, <<Task("tell", "Alert")>>)
    /\ receiver' = FALSE
    /\ Goto(Head(main).of, "done")
    /\ UNCHANGED <<posted, server, monitor, request, appStatus, appPosted, answer, asks>>

\* The last block of stopService: Mobile.close gives up the port, then the
\* status is set and stopSelf called.
ServerAfterClose == FALSE
Close ==
    /\ Runs("close") /\ pc[Head(main).of] = "closing"
    /\ server' = ServerAfterClose
    /\ Goto(Head(main).of, "closed")
    /\ UNCHANGED <<main, value, posted, receiver, monitor, request, appStatus, appPosted, answer, asks>>

Closed ==
    /\ Runs("close") /\ pc[Head(main).of] = "closed"
    /\ SetValue("Stopped", << >>)
    /\ Goto(Head(main).of, "done")
    /\ UNCHANGED <<posted, receiver, server, monitor, request, appStatus, appPosted, answer, asks>>

\* Mutation: an alert does not end the request.
AnswersStarted(v) == v = "Started"

\* A broadcast of the binder reaches MainActivity.
Answers(v) == v \in {"Started", "Alert"}

\* Mutation: an alert is taken for a start.
ReadyAnyhow(v) == Answers(v)
Ready(v) == v = "Started"
Tell ==
    /\ Runs("tell")
    /\ LET v == Head(main).of IN
         /\ appPosted' = IF v \in Status THEN v ELSE appPosted
         /\ Dequeue(IF v \in Status /\ appPosted = NoPost THEN <<Task("apply", "app")>> ELSE << >>)
         /\ request' = (request /\ ~Answers(v))
         /\ answer' = CASE ~request \/ ~Answers(v) -> answer
                        [] Ready(v)                -> "ready"
                        [] OTHER                   -> "failed"
    /\ UNCHANGED <<value, posted, receiver, pc, server, monitor, appStatus, asks>>

\* The task of postValue in MainActivity.
Apply ==
    /\ Runs("apply")
    /\ Dequeue(<< >>)
    /\ appStatus' = appPosted
    /\ appPosted' = NoPost
    /\ UNCHANGED <<value, posted, receiver, pc, server, monitor, request, answer, asks>>

Main ==
    \/ StartAsked \/ Refused \/ OnStartCommand \/ StopService \/ Deliver
    \/ Show \/ Alert \/ Close \/ Closed \/ Tell \/ Apply

-----------------------------------------------------------------------------
(* The coroutine of a start. *)

\* postValue adds a task only when no value is waiting.
PostThen(v, tasks) ==
    /\ posted' = v
    /\ Enqueue((IF posted = NoPost THEN <<Task("posted", v)>> ELSE << >>) \o tasks)

Begin(s) ==
    /\ pc[s] = "begin"
    /\ PostThen("Starting", <<Task("show", s)>>)
    /\ Goto(s, "showing")
    /\ UNCHANGED <<value, receiver, server, monitor, request, appStatus, appPosted, answer, asks>>

GiveUp(s) ==
    /\ Goto(s, "alerting")
    /\ Enqueue(<<Task("alert", s)>>)

\* No profile is known.
NoConfig(s) ==
    /\ pc[s] = "monitor"
    /\ GiveUp(s)
    /\ UNCHANGED <<value, posted, receiver, server, monitor, request, appStatus, appPosted, answer, asks>>

StartMonitor(s) ==
    /\ pc[s] = "monitor"
    /\ monitor' = TRUE
    /\ Goto(s, "setup")
    /\ UNCHANGED <<main, value, posted, receiver, server, request, appStatus, appPosted, answer, asks>>

\* Mobile.setup: a server that is known is kept.
Setup(s) ==
    /\ pc[s] = "setup"
    /\ server' = TRUE
    /\ Goto(s, "report")
    /\ UNCHANGED <<main, value, posted, receiver, monitor, request, appStatus, appPosted, answer, asks>>

\* The port is in use.
SetupThrows(s) ==
    /\ pc[s] = "setup" /\ ~server
    /\ GiveUp(s)
    /\ UNCHANGED <<value, posted, receiver, server, monitor, request, appStatus, appPosted, answer, asks>>

Reported == "Started"
Report(s) ==
    /\ pc[s] = "report"
    /\ PostThen(Reported, << >>)
    /\ Goto(s, "core")
    /\ UNCHANGED <<value, receiver, server, monitor, request, appStatus, appPosted, answer, asks>>

\* Mobile.start if asked for, and the notification.
CoreStarted(s) ==
    /\ pc[s] = "core"
    /\ Goto(s, "done")
    /\ UNCHANGED <<main, value, posted, receiver, server, monitor, request, appStatus, appPosted, answer, asks>>

CoreThrows(s) ==
    /\ pc[s] = "core" /\ CoreMayFail
    /\ GiveUp(s)
    /\ UNCHANGED <<value, posted, receiver, server, monitor, request, appStatus, appPosted, answer, asks>>

StartStep(s) ==
    \/ Begin(s) \/ NoConfig(s) \/ StartMonitor(s) \/ Setup(s) \/ SetupThrows(s)
    \/ Report(s) \/ CoreStarted(s) \/ CoreThrows(s)

\* The coroutine of a stop: the monitor, then a block on the main thread.
Release(s) ==
    /\ pc[s] = "release"
    /\ monitor' = FALSE
    /\ Enqueue(<<Task("close", s)>>)
    /\ Goto(s, "closing")
    /\ UNCHANGED <<value, posted, receiver, server, request, appStatus, appPosted, answer, asks>>

Next ==
    \/ AskStart \/ TileStart \/ AskStop \/ Revoke
    \/ Main
    \/ \E s \in Starts : StartStep(s)
    \/ \E s \in Stops : Release(s)

Spec == Init /\ [][Next]_vars

\* The main thread and the coroutines go on.
FairSpec ==
    /\ Spec
    /\ WF_vars(Main)
    /\ \A s \in Starts : WF_vars(StartStep(s))
    /\ \A s \in Stops : WF_vars(Release(s))

-----------------------------------------------------------------------------
TypeOK ==
    /\ \A i \in 1..Len(main) : main[i].of \in Jobs \cup Status \cup {"Alert", "app", "tile", "system"}
    /\ value \in Status /\ appStatus \in Status /\ appPosted \in Status \cup {NoPost}
    /\ posted \in {NoPost, "Starting", "Started"}
    /\ pc \in [Jobs -> {"unused", "begin", "showing", "monitor", "setup", "report", "core",
                        "alerting", "release", "closing", "closed", "done"}]
    /\ {receiver, server, monitor, request} \subseteq BOOLEAN
    /\ answer \in {"none", "ready", "failed"}
    \* A value waits exactly while its task does.
    /\ posted = NoPost <=> \A i \in 1..Len(main) : main[i].what # "posted"
    /\ appPosted = NoPost <=> \A i \in 1..Len(main) : main[i].what # "apply"

\* When everything has settled, a service that says it has started hosts a
\* core, its monitor runs, and SERVICE_CLOSE reaches it.
ReadyWhenStarted ==
    AtRest /\ value = "Started" => server /\ monitor /\ receiver

\* When everything has settled, a stopped service hosts no core: the next
\* start of the app waits for its port to be closed.
ClosedWhenStopped ==
    AtRest /\ value = "Stopped" => ~server

\* When everything has settled, the service is either started or stopped.
NothingHalfway == AtRest => value \in {"Started", "Stopped"}

\* startServiceAndWait is told that the service is ready only when the core can
\* be reached: the app sends it the configuration next.
ReadyHasCore == request /\ ~request' /\ answer' = "ready" => server
AnswerIsReady == [][ReadyHasCore]_vars

\* Nobody answers a request that was made after the Started of a service without
\* a core had been told and before it was applied.
Unheard == AtRest /\ value = "Started"
=============================================================================
