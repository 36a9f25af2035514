-------------------------- MODULE OutboundMonitor --------------------------
(***************************************************************************)
(* The URL-test engine of hiddify-sing-box                                 *)
(* (common/monitoring/outbound_monitoring.go).                             *)
(*                                                                         *)
(* Tests of outbounds are requested by users, dialers and outbounds that   *)
(* become ready (TestNow, InvalidateTest) and by a periodic cycle that     *)
(* forks one test per outbound and joins on their outcomes.  Requests go   *)
(* through two bounded channels to a pool of workers; per-outbound flags   *)
(* (queued, priorityQueued, enqueuedCycle) suppress duplicates.  A task of *)
(* an outbound that is not ready yet leaves the pool for three seconds and *)
(* is enqueued again.                                                      *)
(*                                                                         *)
(* A step of a goroutine is one action; a critical section of a state's    *)
(* mutex is never split.  Wall-clock time, delays and IP information are   *)
(* abstracted to nondeterministic choices.                                 *)
(***************************************************************************)
EXTENDS Integers, Sequences, FiniteSets, Relation

CONSTANTS
    Tag,              \* the registered outbounds and endpoints, groups included
    Group,            \* the tags that name groups
    Members,          \* Members[g]: the outbounds of group g
    Dependents,       \* Dependents[o]: the outbounds that dial through o
    Lazy,             \* outbounds whose IsReady starts FALSE
    Flaky,            \* lazy outbounds that may stop being ready again (ssh)
    Caller,           \* user-facing threads calling TestNow or InvalidateTest
    Worker,           \* the worker goroutines
    PriorityCap,      \* capacity of priorityQueue (1000 in the code)
    NormalCap,        \* capacity of normalQueue (10000 in the code)
    Links,            \* number of test URLs
    RetryLimit,       \* tasks of this cycle number or above skip the ready check
    Task,             \* pool of task objects (a bound on live tasks)
    NoTask,           \* the held value of a worker without a task
    MaxCycles,        \* bound on the number of cycles
    MaxCalls,         \* bound on the number of calls of Caller threads
    CallKinds,        \* which calls Caller threads make
    Changes,          \* whether a result may change the stored history
    MayClose          \* whether Close may be called

ASSUME MonitorAssumption ==
    /\ IsFiniteSet(Tag) /\ Tag # {}
    /\ Group \subseteq Tag
    /\ Members \in [Group -> SUBSET Tag]
    /\ Dependents \in [Tag -> SUBSET Tag]
    /\ Lazy \subseteq Tag \ Group
    /\ Flaky \subseteq Lazy
    /\ Caller \cap Tag = {}
    /\ IsFiniteSet(Worker) /\ Worker # {}
    /\ PriorityCap \in Nat \ {0}
    /\ NormalCap \in Nat \ {0}
    /\ Links \in Nat \ {0}
    /\ RetryLimit \in Nat
    /\ NoTask \notin Task
    /\ MaxCycles \in Nat
    /\ MaxCalls \in Nat
    /\ CallKinds \subseteq {"TestNow", "InvalidateTest"}
    /\ Changes \subseteq BOOLEAN
    /\ MayClose \in BOOLEAN

VARIABLES
    ready,            \* [Tag -> BOOLEAN]: what IsReady returns
    invalid,          \* outboundState.invalid
    queued,           \* outboundState.queued
    priorityQueued,   \* outboundState.priorityQueued
    testing,          \* outboundState.testing
    enqueuedCycle,    \* outboundState.enqueuedCycle
    task,             \* [Task -> testTask]: the task objects
    place,            \* [Task -> Places]: who refers to the object
    priorityQueue, normalQueue,
    worker,           \* program counter of each worker goroutine
    held,             \* the task each worker (or its test goroutine) executes
    probe,            \* program counter of the worker's test goroutine
    success,          \* [Worker -> BOOLEAN]: outcome.err = nil of that test
    usedLink,         \* [Worker -> 0..Links-1]: index of the URL it probed
    todo,             \* requests each calling thread still has to enqueue
    calls,            \* calls made so far by Caller threads
    cycle,            \* program counter of the runCycle goroutine
    cycleSeq,         \* OutboundMonitoring.cycleSeq
    toVisit,          \* outbounds the cycle's current loop has not reached yet
    tags,             \* the targets collected by the cycle
    stage,            \* number of the current runStage call, 0 before the first
    attempt,          \* idx of runCycle's loop over the URLs, from 1
    expected,         \* runStage's count of outcomes still to receive
    resultCh,         \* the current stage's result channel
    passed,           \* some outcome received in this stage has err = nil
    currentLinkIndex,
    cacheDirty,
    closed,           \* the monitor's context is done
    unsaved,          \* history: outbounds with a result no snapshot holds
    overtaken,        \* history: normal tasks taken while a priority task waits
    lost              \* history: tasks enqueueTask let go since the last result
                      \* of their outbound, or still owed to the running stage

stateVars == <<invalid, queued, priorityQueued, testing, enqueuedCycle>>
flagVars  == <<queued, priorityQueued, enqueuedCycle>>
queueVars == <<task, place, priorityQueue, normalQueue, lost>>
poolVars  == <<worker, held, probe, success, usedLink, overtaken>>
callVars  == <<todo, calls>>
cycleVars == <<cycle, cycleSeq, toVisit, tags, stage, attempt, expected,
               passed, currentLinkIndex>>
saveVars  == <<cacheDirty, unsaved>>

vars == <<ready, invalid, queued, priorityQueued, testing, enqueuedCycle,
          task, place, priorityQueue, normalQueue, lost, worker, held, probe,
          success, usedLink, overtaken, todo, calls, cycle, cycleSeq, toVisit,
          tags, stage, attempt, expected, resultCh, passed, currentLinkIndex,
          cacheDirty, unsaved, closed>>

-----------------------------------------------------------------------------
Leaf   == Tag \ Group
Thread == Caller \cup Lazy
Link   == 0 .. (Links - 1)

\* A testTask; stage names the resultCh it carries, 0 for a nil channel.
TaskRecord == [tag : Tag, cycle : Nat, priority : BOOLEAN, stage : Nat]
Request    == [tag : Tag, priority : BOOLEAN, parent : BOOLEAN]
Outcome    == [tag : Tag, ok : BOOLEAN, link : Link]

\* Where a task object is: nowhere, in a channel, with a worker that has not
\* applied its result, with one that has, with one that has also sent its
\* outcome, or with a sleeping retry goroutine.
Places    == {"free", "queue", "worker", "applied", "answered", "retry"}
\* "leaving" is the top of the loop of a worker that has given a test up.
WorkerPcs == {"top", "select", "check", "await", "leaving", "exited"}
ProbePcs  == {"none", "run", "apply", "reply", "done"}
CyclePcs  == {"idle", "begin", "collect", "enqueue", "wait", "save"}

NewTask(o, c, pri, s) == [tag |-> o, cycle |-> c, priority |-> pri, stage |-> s]

\* The contents of an object no goroutine refers to.
Blank == NewTask(CHOOSE o \in Tag : TRUE, 0, FALSE, 0)

Init ==
    /\ ready = [o \in Tag |-> o \notin Lazy]
    /\ invalid = [o \in Tag |-> TRUE]
    /\ queued = [o \in Tag |-> FALSE]
    /\ priorityQueued = [o \in Tag |-> FALSE]
    /\ testing = [o \in Tag |-> FALSE]
    /\ enqueuedCycle = [o \in Tag |-> 0]
    /\ task = [t \in Task |-> Blank]
    /\ place = [t \in Task |-> "free"]
    /\ priorityQueue = <<>>
    /\ normalQueue = <<>>
    /\ worker = [w \in Worker |-> "top"]
    /\ held = [w \in Worker |-> NoTask]
    /\ probe = [w \in Worker |-> "none"]
    /\ success = [w \in Worker |-> FALSE]
    /\ usedLink = [w \in Worker |-> 0]
    /\ todo = [c \in Thread |-> {}]
    /\ calls = 0
    /\ cycle = "idle"
    /\ cycleSeq = 0
    /\ toVisit = {}
    /\ tags = {}
    /\ stage = 0
    /\ attempt = 1
    /\ expected = 0
    /\ resultCh = <<>>
    /\ passed = FALSE
    /\ currentLinkIndex = 0
    /\ cacheDirty = FALSE
    /\ closed = FALSE
    /\ unsaved = {}
    /\ overtaken = 0
    /\ lost = {}

-----------------------------------------------------------------------------
(***************************************************************************)
(* enqueueTask: under the outbound's mutex the duplicate check, the flags  *)
(* and a send that does not block.  A full channel loses the task but the  *)
(* flags stay set.                                                         *)
(***************************************************************************)
Accepts(r) ==
    /\ ~closed
    /\ IF r.priority THEN ~priorityQueued[r.tag]
                     ELSE enqueuedCycle[r.tag] # r.cycle

HasRoom(r) ==
    IF r.priority THEN Len(priorityQueue) < PriorityCap
                  ELSE Len(normalQueue) < NormalCap

\* What enqueueTask returns.
Enqueues(r) == Accepts(r) /\ HasRoom(r)

SetFlags(r) ==
    \/ /\ r.priority
       /\ priorityQueued' = [priorityQueued EXCEPT ![r.tag] = TRUE]
       /\ UNCHANGED <<queued, enqueuedCycle>>
    \/ /\ ~r.priority
       /\ enqueuedCycle' = [enqueuedCycle EXCEPT ![r.tag] = r.cycle]
       /\ queued' = [queued EXCEPT ![r.tag] = TRUE]
       /\ UNCHANGED priorityQueued

Send(t, r) ==
    /\ task' = [task EXCEPT ![t] = r]
    /\ place' = [place EXCEPT ![t] = "queue"]
    /\ \/ /\ r.priority
          /\ priorityQueue' = Append(priorityQueue, t)
          /\ UNCHANGED normalQueue
       \/ /\ ~r.priority
          /\ normalQueue' = Append(normalQueue, t)
          /\ UNCHANGED priorityQueue
    /\ UNCHANGED lost

Release(t) ==
    /\ place' = [place EXCEPT ![t] = "free"]
    /\ task' = [task EXCEPT ![t] = Blank]

\* The object becomes garbage; a retried one still owed its stage an outcome.
LetGo(t, r) ==
    /\ Release(t)
    /\ lost' = lost \cup
         {[tag |-> r.tag, priority |-> r.priority,
           stage |-> IF place[t] = "retry" THEN r.stage ELSE 0]}
    /\ UNCHANGED <<priorityQueue, normalQueue>>

EnqueueTask(t, r) ==
    \/ Enqueues(r) /\ SetFlags(r) /\ Send(t, r)
    \/ Accepts(r) /\ ~HasRoom(r) /\ SetFlags(r) /\ LetGo(t, r)
    \/ /\ ~Accepts(r)
       /\ UNCHANGED flagVars
       /\ \/ place[t] = "retry" /\ LetGo(t, r)
          \/ place[t] = "free" /\ UNCHANGED queueVars

Free == {t \in Task : place[t] = "free"}

\* A caller builds a task; which object it gets does not matter.
EnqueueNew(r) == Free # {} /\ EnqueueTask(CHOOSE t \in Free : TRUE, r)

-----------------------------------------------------------------------------
(***************************************************************************)
(* TestNow and InvalidateTest, called by any thread.  A request is one     *)
(* enqueueTask call the thread still has to make.                          *)
(***************************************************************************)
MemberClosure ==
    ReflexiveTransitiveClosure(
        [x, y \in Tag |-> x \in Group /\ y \in Members[x]], Tag)

DependentClosure ==
    TransitiveClosure([x, y \in Tag |-> y \in Dependents[x]], Tag)

\* testParents: every non-group outbound that dials through x, with priority.
ParentRequests(x) ==
    {[tag |-> p, priority |-> TRUE, parent |-> TRUE] :
        p \in {q \in Leaf : q # x /\ DependentClosure[<<x, q>>]}}

\* testNow: a leaf with priority, a group by its leaves without.
OwnRequests(x) ==
    {[tag |-> m, priority |-> x \notin Group, parent |-> FALSE] :
        m \in {q \in Leaf : MemberClosure[<<x, q>>]}}

TestRequests(x) == ParentRequests(x) \cup OwnRequests(x)

TestNow(c, x) ==
    /\ "TestNow" \in CallKinds
    /\ calls < MaxCalls
    /\ todo[c] = {}
    /\ todo' = [todo EXCEPT ![c] = TestRequests(x)]
    /\ calls' = calls + 1
    /\ UNCHANGED <<ready, stateVars, queueVars, poolVars, cycleVars, resultCh,
                   saveVars, closed>>

InvalidateTest(c, x) ==
    /\ "InvalidateTest" \in CallKinds
    /\ calls < MaxCalls
    /\ todo[c] = {}
    /\ invalid' = [invalid EXCEPT ![x] = TRUE]
    /\ todo' = [todo EXCEPT ![c] =
                  {[tag |-> x, priority |-> TRUE, parent |-> FALSE]}]
    /\ calls' = calls + 1
    /\ UNCHANGED <<ready, flagVars, testing, queueVars, poolVars, cycleVars,
                   resultCh, saveVars, closed>>

\* One enqueueTask call: parents first; the cycle number is read here.
CallEnqueue(c, r) ==
    /\ r \in todo[c]
    /\ r.parent \/ \A q \in todo[c] : ~q.parent
    /\ EnqueueNew(NewTask(r.tag, cycleSeq, r.priority, 0))
    /\ todo' = [todo EXCEPT ![c] = @ \ {r}]
    /\ UNCHANGED <<ready, invalid, testing, poolVars, calls, cycleVars,
                   resultCh, saveVars, closed>>

\* A lazy outbound connects.  WireGuard, AmneziaWG, psiphon and dnstt then
\* call TestNow on themselves; an ssh client that redials does not.
BecomeReady(o) ==
    /\ ~ready[o]
    /\ todo[o] = {}
    /\ ready' = [ready EXCEPT ![o] = TRUE]
    /\ todo' = IF o \in Flaky THEN todo
               ELSE [todo EXCEPT ![o] = TestRequests(o)]
    /\ UNCHANGED <<stateVars, queueVars, poolVars, calls, cycleVars, resultCh,
                   saveVars, closed>>

LoseReady(o) ==
    /\ ready[o]
    /\ ready' = [ready EXCEPT ![o] = FALSE]
    /\ UNCHANGED <<stateVars, queueVars, poolVars, callVars, cycleVars,
                   resultCh, saveVars, closed>>

-----------------------------------------------------------------------------
(***************************************************************************)
(* workerLoop and the start of executeTask.  The loop first polls          *)
(* priorityQueue, and only when that is empty selects over both queues.    *)
(* The worker that receives a task looks at the context and sets testing.  *)
(***************************************************************************)
Held(w) == task[held[w]]

SetTesting(w, b) == testing' = [testing EXCEPT ![Held(w).tag] = b]

Receives(w, t) ==
    \/ /\ ~closed
       /\ held' = [held EXCEPT ![w] = t]
       /\ place' = [place EXCEPT ![t] = "worker"]
       /\ worker' = [worker EXCEPT ![w] = "check"]
       /\ testing' = [testing EXCEPT ![task[t].tag] = TRUE]
       /\ UNCHANGED task
    \/ /\ closed
       /\ Release(t)
       /\ worker' = [worker EXCEPT ![w] = IF @ = "leaving" THEN @ ELSE "top"]
       /\ UNCHANGED <<held, testing>>

TakePriority(w) ==
    /\ worker[w] \in {"top", "select", "leaving"}
    /\ priorityQueue # <<>>
    /\ Receives(w, Head(priorityQueue))
    /\ priorityQueue' = Tail(priorityQueue)
    /\ overtaken' = 0
    /\ UNCHANGED <<ready, invalid, flagVars, normalQueue, lost, probe, success,
                   usedLink, callVars, cycleVars, resultCh, saveVars, closed>>

\* Mutation: no poll of the priority queue before the select.
EnterSelectUnpolled(w) ==
    /\ worker[w] = "top"
    /\ ~closed
    /\ worker' = [worker EXCEPT ![w] = "select"]
    /\ UNCHANGED <<ready, stateVars, queueVars, held, probe, success, usedLink,
                   overtaken, callVars, cycleVars, resultCh, saveVars, closed>>

EnterSelect(w) ==
    /\ worker[w] = "top"
    /\ ~closed
    /\ priorityQueue = <<>>
    /\ worker' = [worker EXCEPT ![w] = "select"]
    /\ UNCHANGED <<ready, stateVars, queueVars, held, probe, success, usedLink,
                   overtaken, callVars, cycleVars, resultCh, saveVars, closed>>

TakeNormal(w) ==
    /\ worker[w] = "select"
    /\ normalQueue # <<>>
    /\ Receives(w, Head(normalQueue))
    /\ normalQueue' = Tail(normalQueue)
    /\ overtaken' = IF priorityQueue = <<>> THEN 0 ELSE overtaken + 1
    /\ UNCHANGED <<ready, invalid, flagVars, priorityQueue, lost, probe, success,
                   usedLink, callVars, cycleVars, resultCh, saveVars, closed>>

\* Mutation: the inner select does not watch the context.
WorkerExitAtTop(w) ==
    /\ closed
    /\ worker[w] \in {"top", "leaving"}
    /\ worker' = [worker EXCEPT ![w] = "exited"]
    /\ UNCHANGED <<ready, stateVars, queueVars, held, probe, success, usedLink,
                   overtaken, callVars, cycleVars, resultCh, saveVars, closed>>

WorkerExit(w) ==
    /\ closed
    /\ worker[w] \in {"top", "select", "leaving"}
    /\ worker' = [worker EXCEPT ![w] = "exited"]
    /\ UNCHANGED <<ready, stateVars, queueVars, held, probe, success, usedLink,
                   overtaken, callVars, cycleVars, resultCh, saveVars, closed>>

(***************************************************************************)
(* The rest of executeTask and the goroutines it starts.                   *)
(***************************************************************************)
\* Not ready: hand the task to a goroutine that sleeps, and return.
Postpone(w) ==
    /\ worker[w] = "check"
    /\ Held(w).cycle < RetryLimit
    /\ ~ready[Held(w).tag]
    /\ worker' = [worker EXCEPT ![w] = "top"]
    /\ place' = [place EXCEPT ![held[w]] = "retry"]
    /\ held' = [held EXCEPT ![w] = NoTask]
    /\ SetTesting(w, FALSE)
    /\ UNCHANGED <<ready, invalid, flagVars, task, priorityQueue, normalQueue,
                   lost, probe, success, usedLink, overtaken, callVars,
                   cycleVars, resultCh, saveVars, closed>>

\* The sleeping goroutine: the next cycle number, and enqueueTask again.
Retry(t) ==
    /\ place[t] = "retry"
    /\ \/ ~closed /\ EnqueueTask(t, [task[t] EXCEPT !.cycle = @ + 1])
       \/ /\ closed
          /\ Release(t)
          /\ UNCHANGED <<flagVars, priorityQueue, normalQueue, lost>>
    /\ UNCHANGED <<ready, invalid, testing, poolVars, callVars, cycleVars,
                   resultCh, saveVars, closed>>

StartProbe(w) ==
    /\ worker[w] = "check"
    /\ Held(w).cycle >= RetryLimit \/ ready[Held(w).tag]
    /\ worker' = [worker EXCEPT ![w] = "await"]
    /\ probe' = [probe EXCEPT ![w] = "run"]
    /\ usedLink' = [usedLink EXCEPT ![w] = currentLinkIndex]
    /\ UNCHANGED <<ready, stateVars, queueVars, held, success, overtaken,
                   callVars, cycleVars, resultCh, saveVars, closed>>

\* tester returns (its URL timeout bounds it); applyResult looks at the
\* context before it takes the mutex.
ProbeReturns(w, ok) ==
    /\ probe[w] = "run"
    /\ success' = [success EXCEPT ![w] = ok]
    /\ probe' = [probe EXCEPT ![w] = IF closed THEN "reply" ELSE "apply"]
    /\ UNCHANGED <<ready, stateVars, queueVars, worker, held, usedLink,
                   overtaken, callVars, cycleVars, resultCh, saveVars, closed>>

\* runStage is running.
InStage == cycle \in {"enqueue", "wait"}

\* Mutation: a result leaves the priority flag set.
ClearNormalFlags(o) ==
    /\ queued' = [queued EXCEPT ![o] = FALSE]
    /\ enqueuedCycle' = [enqueuedCycle EXCEPT ![o] = 0]
    /\ UNCHANGED priorityQueued

\* A result of o, of whatever task, clears all three flags.
ClearFlags(o) ==
    /\ queued' = [queued EXCEPT ![o] = FALSE]
    /\ priorityQueued' = [priorityQueued EXCEPT ![o] = FALSE]
    /\ enqueuedCycle' = [enqueuedCycle EXCEPT ![o] = 0]

\* Mutation: a result channel of capacity one.
SingleSlot == 1

\* The capacity runStage gives its result channel.
ResultCap == Cardinality(tags)

\* changed: the delay differs or IP information was added.
ApplyResult(w, changed) ==
    LET o == Held(w).tag IN
    /\ probe[w] = "apply"
    /\ ClearFlags(o)
    /\ invalid' = [invalid EXCEPT ![o] = ~success[w]]
    /\ cacheDirty' = (cacheDirty \/ changed)
    /\ unsaved' = IF changed THEN unsaved \cup {o} ELSE unsaved
    /\ probe' = [probe EXCEPT ![w] = "reply"]
    /\ place' = [place EXCEPT ![held[w]] = "applied"]
    /\ lost' = {l \in lost : l.tag # o \/ (InStage /\ l.stage = stage)}
    /\ UNCHANGED <<ready, testing, task, priorityQueue, normalQueue, worker, held, success, usedLink,
                   overtaken, callVars, cycleVars, resultCh, closed>>

\* The outcome goes to the stage's buffered channel, if the task carries one;
\* the send gives up when the buffer is full, and may when the context is done.
Reply(w) ==
    LET r == Held(w)
        toStage == r.stage = stage /\ stage # 0 IN
    /\ probe[w] = "reply"
    /\ \/ /\ toStage
          /\ Len(resultCh) < ResultCap
          /\ resultCh' = Append(resultCh, [tag |-> r.tag, ok |-> success[w],
                                           link |-> usedLink[w]])
       \/ /\ ~toStage \/ Len(resultCh) >= ResultCap \/ closed
          /\ UNCHANGED resultCh
    /\ probe' = [probe EXCEPT ![w] = "done"]
    /\ place' = [place EXCEPT ![held[w]] = "answered"]
    /\ UNCHANGED <<ready, stateVars, task, priorityQueue, normalQueue, lost,
                   worker, held, success, usedLink, overtaken, callVars,
                   cycleVars, saveVars, closed>>

\* done is closed: the deferred function clears testing.
FinishTask(w) ==
    /\ worker[w] = "await"
    /\ probe[w] = "done"
    /\ worker' = [worker EXCEPT ![w] = "top"]
    /\ probe' = [probe EXCEPT ![w] = "none"]
    /\ Release(held[w])
    /\ held' = [held EXCEPT ![w] = NoTask]
    /\ SetTesting(w, FALSE)
    /\ success' = [success EXCEPT ![w] = FALSE]
    /\ usedLink' = [usedLink EXCEPT ![w] = 0]
    /\ UNCHANGED <<ready, invalid, flagVars, priorityQueue, normalQueue,
                   lost, overtaken, callVars, cycleVars,
                   resultCh, saveVars, closed>>

\* The context is done first: the worker leaves its test goroutine behind and
\* goes back to the top of its loop.
AbandonTask(w) ==
    /\ worker[w] = "await"
    /\ closed
    /\ worker' = [worker EXCEPT ![w] = "leaving"]
    /\ SetTesting(w, FALSE)
    /\ UNCHANGED <<ready, invalid, flagVars, queueVars, held, probe, success,
                   usedLink, overtaken, callVars, cycleVars, resultCh,
                   saveVars, closed>>

-----------------------------------------------------------------------------
(***************************************************************************)
(* The cycle goroutine: startCycleOnce, runCycle, runStage, saveHistory.   *)
(***************************************************************************)
\* The compare-and-swap of cycleRunning, by the timer or an interface update.
StartCycleOnce ==
    /\ cycle = "idle"
    /\ cycleSeq < MaxCycles
    /\ cycle' = "begin"
    /\ UNCHANGED <<ready, stateVars, queueVars, poolVars, callVars, cycleSeq,
                   toVisit, tags, stage, attempt, expected, resultCh, passed,
                   currentLinkIndex, saveVars, closed>>

BeginCycle ==
    /\ cycle = "begin"
    /\ cycle' = "collect"
    /\ cycleSeq' = cycleSeq + 1
    /\ toVisit' = Leaf
    /\ tags' = {}
    /\ UNCHANGED <<ready, stateVars, queueVars, poolVars, callVars, stage,
                   attempt, expected, resultCh, passed, currentLinkIndex,
                   saveVars, closed>>

\* collectCycleTargets reads each outbound under its own mutex; a valid result
\* is taken too when it is older than the interval.
Collect(o) ==
    /\ cycle = "collect"
    /\ o \in toVisit
    /\ toVisit' = toVisit \ {o}
    /\ \/ /\ ~(testing[o] \/ queued[o] \/ priorityQueued[o])
          /\ tags' = tags \cup {o}
       \/ /\ testing[o] \/ queued[o] \/ priorityQueued[o] \/ ~invalid[o]
          /\ UNCHANGED tags
    /\ UNCHANGED <<ready, stateVars, queueVars, poolVars, callVars, cycle,
                   cycleSeq, stage, attempt, expected, resultCh, passed,
                   currentLinkIndex, saveVars, closed>>

\* A new result channel; the loop over tags starts.
OpenStage ==
    /\ cycle' = "enqueue"
    /\ toVisit' = tags
    /\ stage' = stage + 1
    /\ expected' = 0
    /\ resultCh' = <<>>
    /\ passed' = FALSE

EndCollect ==
    /\ cycle = "collect"
    /\ toVisit = {}
    /\ \/ /\ tags = {}
          /\ cycle' = "idle"
          /\ UNCHANGED <<toVisit, stage, expected, resultCh, passed, attempt>>
       \/ /\ tags # {}
          /\ OpenStage
          /\ attempt' = 1
    /\ UNCHANGED <<ready, stateVars, queueVars, poolVars, callVars, cycleSeq,
                   tags, currentLinkIndex, saveVars, closed>>

\* Mutation: runStage ignores what enqueueTask returns.
CountAll(r) == expected + 1

CountAsked(r) == IF Enqueues(r) THEN expected + 1 ELSE expected

EnqueueStage(o) ==
    LET r == NewTask(o, cycleSeq, FALSE, stage) IN
    /\ cycle = "enqueue"
    /\ o \in toVisit
    /\ EnqueueNew(r)
    /\ expected' = CountAsked(r)
    /\ toVisit' = toVisit \ {o}
    /\ cycle' = IF toVisit = {o} THEN "wait" ELSE cycle
    /\ UNCHANGED <<ready, invalid, testing, poolVars, callVars, cycleSeq, tags,
                   stage, attempt, resultCh, passed, currentLinkIndex,
                   saveVars, closed>>

\* Mutation: only the last outcome decides.
CountLast(r) == passed' = r.ok /\ UNCHANGED currentLinkIndex

\* runCycle's success > 0, as the outcomes arrive.
CountOutcome(r) == passed' = (passed \/ r.ok) /\ UNCHANGED currentLinkIndex

Receive ==
    /\ cycle = "wait"
    /\ expected > 0
    /\ resultCh # <<>>
    /\ resultCh' = Tail(resultCh)
    /\ expected' = expected - 1
    /\ CountOutcome(Head(resultCh))
    /\ UNCHANGED <<ready, stateVars, queueVars, poolVars, callVars, cycle,
                   cycleSeq, toVisit, tags, stage, attempt, saveVars, closed>>

\* The context is done: runStage returns what it has.
AbandonStage ==
    /\ cycle = "wait"
    /\ expected > 0
    /\ closed
    /\ expected' = 0
    /\ UNCHANGED <<ready, stateVars, queueVars, poolVars, callVars, cycle,
                   cycleSeq, toVisit, tags, stage, attempt, resultCh, passed,
                   currentLinkIndex, saveVars, closed>>

\* Mutation: the index does not wrap around.
NextLinkUnwrapped == currentLinkIndex + 1

NextLink == (currentLinkIndex + 1) % Links

\* A stage without success moves on to the next URL, unless it was the last.
NextStage ==
    /\ cycle = "wait"
    /\ expected = 0
    /\ ~passed
    /\ attempt < Links
    /\ currentLinkIndex' = NextLink
    /\ attempt' = attempt + 1
    /\ OpenStage
    /\ UNCHANGED <<ready, stateVars, queueVars, poolVars, callVars, cycleSeq,
                   tags, saveVars, closed>>

\* runCycle returns; its deferred function swaps cacheDirty and takes a
\* snapshot of the history if it was set.
EndCycle ==
    /\ cycle = "wait"
    /\ expected = 0
    /\ passed \/ attempt = Links
    /\ cacheDirty' = FALSE
    /\ tags' = {}
    /\ passed' = FALSE
    /\ attempt' = 1
    /\ \/ /\ cacheDirty
          /\ cycle' = "save"
          /\ toVisit' = Tag
       \/ /\ ~cacheDirty
          /\ cycle' = "idle"
          /\ UNCHANGED toVisit
    /\ UNCHANGED <<ready, stateVars, queueVars, poolVars, callVars, cycleSeq,
                   stage, expected, resultCh, currentLinkIndex, unsaved,
                   closed>>

\* Mutation: the flag is cleared once more when the copy is complete.
CleanAfterCopy(o) == cacheDirty /\ toVisit # {o}

\* Copying does not touch the flag.
DirtyAfterCopy(o) == cacheDirty

\* saveHistory copies each history under its own mutex.
SaveOne(o) ==
    /\ cycle = "save"
    /\ o \in toVisit
    /\ unsaved' = unsaved \ {o}
    /\ toVisit' = toVisit \ {o}
    /\ cycle' = IF toVisit = {o} THEN "idle" ELSE cycle
    /\ cacheDirty' = DirtyAfterCopy(o)
    /\ UNCHANGED <<ready, stateVars, queueVars, poolVars, callVars, cycleSeq,
                   tags, stage, attempt, expected, resultCh, passed,
                   currentLinkIndex, closed>>

\* Close cancels the context and waits for the workers.
Close ==
    /\ MayClose
    /\ ~closed
    /\ closed' = TRUE
    /\ UNCHANGED <<ready, stateVars, queueVars, poolVars, callVars, cycleVars,
                   resultCh, saveVars>>

-----------------------------------------------------------------------------
CallStep ==
    \/ \E c \in Caller, x \in Tag : TestNow(c, x) \/ InvalidateTest(c, x)
    \/ \E c \in Thread : \E r \in todo[c] : CallEnqueue(c, r)

ReadyStep ==
    \/ \E o \in Lazy : BecomeReady(o)
    \/ \E o \in Flaky : LoseReady(o)

WorkerStep(w) ==
    \/ TakePriority(w) \/ EnterSelect(w) \/ TakeNormal(w) \/ WorkerExit(w)
    \/ Postpone(w) \/ StartProbe(w)
    \/ FinishTask(w) \/ AbandonTask(w)

ProbeStep(w) ==
    \/ \E ok \in BOOLEAN : ProbeReturns(w, ok)
    \/ \E changed \in Changes : ApplyResult(w, changed)
    \/ Reply(w)

CycleStep ==
    \/ BeginCycle \/ EndCollect \/ Receive \/ AbandonStage \/ NextStage
    \/ EndCycle
    \/ \E o \in Tag : Collect(o) \/ EnqueueStage(o) \/ SaveOne(o)

Next ==
    \/ CallStep
    \/ ReadyStep
    \/ \E w \in Worker : WorkerStep(w) \/ ProbeStep(w)
    \/ \E t \in Task : Retry(t)
    \/ StartCycleOnce
    \/ CycleStep
    \/ Close

Spec == Init /\ [][Next]_vars

(***************************************************************************)
(* The Go scheduler runs every goroutine that can run: workers, tests      *)
(* (bounded by urlTestTimeout), the cycle, sleeping retries, and a call    *)
(* that has begun.  Calls, ticks, readiness and Close are the              *)
(* environment's and need not happen.                                      *)
(***************************************************************************)
Fairness ==
    /\ \A w \in Worker : WF_vars(WorkerStep(w)) /\ WF_vars(ProbeStep(w))
    /\ WF_vars(CycleStep)
    /\ \A t \in Task : WF_vars(Retry(t))
    /\ \A c \in Thread : WF_vars(\E r \in todo[c] : CallEnqueue(c, r))

FairSpec == Spec /\ Fairness

-----------------------------------------------------------------------------
(***************************************************************************)
(* Properties.                                                             *)
(***************************************************************************)
FlagTypes ==
    /\ ready \in [Tag -> BOOLEAN]
    /\ invalid \in [Tag -> BOOLEAN]
    /\ queued \in [Tag -> BOOLEAN]
    /\ priorityQueued \in [Tag -> BOOLEAN]
    /\ testing \in [Tag -> BOOLEAN]
    /\ enqueuedCycle \in [Tag -> Nat]
    /\ closed \in BOOLEAN

QueueTypes ==
    /\ task \in [Task -> TaskRecord]
    /\ place \in [Task -> Places]
    /\ priorityQueue \in Seq(Task)
    /\ normalQueue \in Seq(Task)
    /\ lost \in SUBSET [tag : Tag, priority : BOOLEAN, stage : Nat]

PoolTypes ==
    /\ worker \in [Worker -> WorkerPcs]
    /\ held \in [Worker -> Task \cup {NoTask}]
    /\ probe \in [Worker -> ProbePcs]
    /\ success \in [Worker -> BOOLEAN]
    /\ usedLink \in [Worker -> Link]
    /\ overtaken \in Nat

CallTypes ==
    /\ todo \in [Thread -> SUBSET Request]
    /\ calls \in Nat

CycleTypes ==
    /\ cycle \in CyclePcs
    /\ cycleSeq \in Nat
    /\ toVisit \in SUBSET Tag
    /\ tags \in SUBSET Tag
    /\ stage \in Nat
    /\ attempt \in 1..Links
    /\ expected \in Nat
    /\ passed \in BOOLEAN
    /\ currentLinkIndex \in Link

ResultTypes ==
    /\ resultCh \in Seq(Outcome)
    /\ cacheDirty \in BOOLEAN
    /\ unsaved \in SUBSET Tag

\* Every variable has its type.
TypeOK == FlagTypes /\ QueueTypes /\ PoolTypes /\ CallTypes /\ CycleTypes
              /\ ResultTypes

\* Tasks whose result has not been applied.
Pending == {t \in Task : place[t] \in {"queue", "retry", "worker"}}

\* Tasks whose outcome has not been sent.
Unanswered == Pending \cup {t \in Task : place[t] = "applied"}

\* The outbounds the running stage still owes an outcome: one of its tasks is
\* under way, or was let go by a retry.
Outstanding ==
    {task[t].tag : t \in {u \in Unanswered : task[u].stage = stage}}
    \cup {l.tag : l \in {k \in lost : k.stage = stage}}

\* runStage counts exactly the outcomes that are in its channel or still to
\* come: it neither stops waiting early nor waits for an outcome that has
\* arrived, whatever retries, priority tests and duplicates go on.
StageAccounting ==
    InStage /\ ~closed =>
        expected = Len(resultCh) + Cardinality(Outstanding)

\* The default branch of executeTask's send never drops the outcome of the
\* running stage: its channel always has room for the senders still to come.
RoomForOutcome ==
    \A w \in Worker :
        probe[w] = "reply" /\ ~closed /\ InStage /\ Held(w).stage = stage
            => Len(resultCh) < ResultCap

\* collectCycleTargets skips a flagged outbound because a test of it is on its
\* way.  That is so unless enqueueTask let one of its tasks go, by a full
\* channel or by a retry it refused.
SkippedMeansPending ==
    ~closed => \A o \in Tag :
        /\ priorityQueued[o] =>
              \/ \E t \in Pending : task[t].tag = o /\ task[t].priority
              \/ \E l \in lost : l.tag = o /\ l.priority
        /\ queued[o] =>
              \/ \E t \in Pending : task[t].tag = o /\ ~task[t].priority
              \/ \E l \in lost : l.tag = o /\ ~l.priority

\* Every outcome a stage counts was measured with the URL of that stage,
\* although runCycle moves currentLinkIndex on while workers run.
StageUrl ==
    InStage /\ ~closed =>
        /\ \A i \in DOMAIN resultCh : resultCh[i].link = currentLinkIndex
        /\ \A w \in Worker :
              probe[w] \in {"run", "apply", "reply"} /\ Held(w).stage = stage
                  => usedLink[w] = currentLinkIndex

\* workerLoop's two selects: while a priority task waits, each worker starts at
\* most one more normal task.
BoundedOvertaking == overtaken <= Cardinality(Worker)

\* A result that no snapshot of the history holds leaves cacheDirty set or is
\* still ahead of the running saveHistory: swapping the flag before the copy
\* loses no update.
NoForgottenResult ==
    ~cacheDirty => unsaved \subseteq (IF cycle = "save" THEN toVisit ELSE {})

\* The cycle is a barrier: with lost outcomes counted as outstanding for ever,
\* it concludes a stage or moves to the next URL only when every outbound it
\* asked has answered, and it forgets no success on the way.
Barrier == INSTANCE CycleBarrier WITH
    running     <- InStage,
    outstanding <- IF InStage THEN Outstanding ELSE {},
    succeeded   <- passed \/ \E i \in DOMAIN resultCh : resultCh[i].ok,
    link        <- currentLinkIndex

ImplementsBarrier == Barrier!Spec

\* A cycle that starts ends, so that the next tick can start another.
CycleTerminates == cycle = "begin" ~> cycle = "idle"

\* A flagged outbound does not stay flagged: it becomes eligible for the next
\* cycle or test again, unless the monitor is closed.
FlagsClear ==
    \A o \in Tag : (priorityQueued[o] \/ queued[o])
                      ~> (closed \/ ~(priorityQueued[o] \/ queued[o]))

\* FairSpec, and every lazy outbound becomes ready in the end.
FairReadySpec == FairSpec /\ \A o \in Lazy : WF_vars(BecomeReady(o))

UnderTest(o) == \E w \in Worker : probe[w] \in {"run", "apply"} /\ Held(w).tag = o

\* The comment on InvalidateTest: it "marks the cached test result as invalid so
\* it will be retested".  After it (or while an earlier priority request stands)
\* the outbound is tested again.
InvalidatedIsRetested ==
    \A o \in Leaf : invalid[o] /\ priorityQueued[o] ~> UnderTest(o) \/ closed

\* Close returns: every worker leaves its loop, even in the middle of a test.
CloseReturns == closed ~> \A w \in Worker : worker[w] = "exited"
=============================================================================
