----------------------- MODULE OutboundMonitorProofs -----------------------
(***************************************************************************)
(* Types and safety of OutboundMonitor for every value of its constants:   *)
(* any number of outbounds, groups, workers and URLs, any channel          *)
(* capacities, any pool of tasks.  The types come first, one lemma per     *)
(* action; then the bound on overtaking, the dirty flag of the history,    *)
(* the meaning of the flags that suppress tests, the fork and join of a    *)
(* stage, each from an inductive strengthening of it, and the refinement   *)
(* of CycleBarrier.                                                        *)
(***************************************************************************)
EXTENDS OutboundMonitor, SequenceTheorems, FiniteSetTheorems, TLAPS

-----------------------------------------------------------------------------
(***************************************************************************)
(* Type correctness.                                                       *)
(***************************************************************************)
\* A worker between channel receive and return, and a test goroutine even when
\* its worker has left it, refer to a task; a worker starts no second test, and
\* leaves none behind before Close.
HoldsTask ==
    \A w \in Worker :
        /\ worker[w] = "leaving" => closed
        /\ worker[w] \in {"top", "select", "check"} => probe[w] = "none"
        /\ worker[w] \in {"check", "await"} \/ probe[w] # "none"
              => held[w] \in Task

TypeInv == TypeOK /\ HoldsTask

\* Blank is a task record.
LEMMA BlankType == Blank \in TaskRecord
BY MonitorAssumption DEF Blank, NewTask, TaskRecord

\* There is a first URL and a first attempt.
LEMMA LinkFacts == Links \in Nat /\ Links >= 1 /\ 0 \in Link /\ 1 \in 1..Links
<1>1. Links \in Nat \ {0}
  BY MonitorAssumption
<1> QED
  BY <1>1 DEF Link

\* The initial state is well typed.
LEMMA InitTypeInv == Init => TypeInv
<1> SUFFICES ASSUME Init PROVE TypeInv
  OBVIOUS
<1>1. FlagTypes
  BY DEF Init, FlagTypes
<1>2. QueueTypes
  BY BlankType DEF Init, QueueTypes, Places
<1>3. PoolTypes
  BY LinkFacts DEF Init, PoolTypes, WorkerPcs, ProbePcs
<1>4. CallTypes
  BY DEF Init, CallTypes
<1>5. CycleTypes
  BY LinkFacts DEF Init, CycleTypes, CyclePcs
<1>6. ResultTypes
  BY EmptySeq DEF Init, ResultTypes
<1>7. HoldsTask
  BY DEF Init, HoldsTask
<1> QED
  BY <1>1, <1>2, <1>3, <1>4, <1>5, <1>6, <1>7 DEF TypeInv, TypeOK

\* enqueueTask, whichever way it returns, keeps the flags and queues well typed.
LEMMA EnqueueTaskType ==
    ASSUME FlagTypes, QueueTypes,
           NEW t \in Task, NEW r \in TaskRecord, EnqueueTask(t, r),
           UNCHANGED <<ready, invalid, testing, closed>>
    PROVE  FlagTypes' /\ QueueTypes'
<1>1. SetFlags(r) => FlagTypes'
  BY DEF SetFlags, FlagTypes, TaskRecord
<1>2. UNCHANGED flagVars => FlagTypes'
  BY DEF flagVars, FlagTypes
<1>3. Send(t, r) => QueueTypes'
  <2> SUFFICES ASSUME Send(t, r) PROVE QueueTypes'
    OBVIOUS
  <2>1. task' \in [Task -> TaskRecord] /\ place' \in [Task -> Places]
    BY DEF Send, QueueTypes, Places
  <2>2. Append(priorityQueue, t) \in Seq(Task) /\ Append(normalQueue, t) \in Seq(Task)
    BY AppendProperties DEF QueueTypes
  <2>3. priorityQueue' \in Seq(Task) /\ normalQueue' \in Seq(Task)
    BY <2>2 DEF Send, QueueTypes
  <2> QED
    BY <2>1, <2>3 DEF Send, QueueTypes
<1>4. LetGo(t, r) => QueueTypes'
  BY BlankType DEF LetGo, Release, QueueTypes, TaskRecord, Places
<1>5. UNCHANGED queueVars => QueueTypes'
  BY DEF queueVars, QueueTypes
<1> QED
  BY <1>1, <1>2, <1>3, <1>4, <1>5 DEF EnqueueTask

\* A worker that executes a task may set testing of the task's outbound.
LEMMA SetTestingType ==
    ASSUME FlagTypes, NEW w \in Worker, NEW b \in BOOLEAN, SetTesting(w, b)
    PROVE  testing' \in [Tag -> BOOLEAN]
BY DEF SetTesting, FlagTypes

\* An object that is let go is a blank one in no place.
LEMMA ReleaseType ==
    ASSUME QueueTypes, NEW t, Release(t)
    PROVE  task' \in [Task -> TaskRecord] /\ place' \in [Task -> Places]
BY BlankType DEF Release, QueueTypes, Places

\* The requests of a call concern registered outbounds.
LEMMA TestRequestsType == \A x \in Tag : TestRequests(x) \subseteq Request
<1> SUFFICES ASSUME NEW x \in Tag PROVE TestRequests(x) \subseteq Request
  OBVIOUS
<1>1. ParentRequests(x) \subseteq Request
  <2> SUFFICES ASSUME NEW r \in ParentRequests(x) PROVE r \in Request
    OBVIOUS
  <2>1. PICK p \in Leaf : r = [tag |-> p, priority |-> TRUE, parent |-> TRUE]
    BY DEF ParentRequests
  <2> QED
    BY <2>1 DEF Request, Leaf
<1>2. (x \notin Group) \in BOOLEAN
  OBVIOUS
<1>3. OwnRequests(x) \subseteq Request
  <2> SUFFICES ASSUME NEW r \in OwnRequests(x) PROVE r \in Request
    OBVIOUS
  <2>1. PICK p \in Leaf :
            r = [tag |-> p, priority |-> x \notin Group, parent |-> FALSE]
    BY DEF OwnRequests
  <2> QED
    BY <1>2, <2>1 DEF Request, Leaf
<1> QED
  BY <1>1, <1>3 DEF TestRequests

\* A worker that receives a task holds it.
LEMMA ReceivesType ==
    ASSUME TypeInv, NEW w \in Worker, NEW t \in Task, Receives(w, t),
           worker[w] \in {"top", "select", "leaving"}, UNCHANGED <<probe, closed>>
    PROVE  /\ testing' \in [Tag -> BOOLEAN]
           /\ task' \in [Task -> TaskRecord] /\ place' \in [Task -> Places]
           /\ held' \in [Worker -> Task \cup {NoTask}]
           /\ worker' \in [Worker -> WorkerPcs]
           /\ HoldsTask'
<1> USE DEF TypeInv, TypeOK
<1>1. CASE /\ closed /\ Release(t) /\ UNCHANGED <<held, testing>>
           /\ worker' = [worker EXCEPT ![w] = IF @ = "leaving" THEN @ ELSE "top"]
  <2>1. task' \in [Task -> TaskRecord] /\ place' \in [Task -> Places]
    BY <1>1, ReleaseType
  <2> QED
    BY <1>1, <2>1 DEF FlagTypes, PoolTypes, WorkerPcs, HoldsTask
<1>2. CASE /\ ~closed
           /\ held' = [held EXCEPT ![w] = t]
           /\ place' = [place EXCEPT ![t] = "worker"]
           /\ worker' = [worker EXCEPT ![w] = "check"]
           /\ testing' = [testing EXCEPT ![task[t].tag] = TRUE]
           /\ UNCHANGED task
  BY <1>2 DEF FlagTypes, QueueTypes, PoolTypes, Places, WorkerPcs, HoldsTask
<1> QED
  BY <1>1, <1>2 DEF Receives

\* The index of the next URL is one.
LEMMA NextLinkType ==
    ASSUME currentLinkIndex \in Link
    PROVE  NextLink \in Link
<1>1. currentLinkIndex + 1 \in Nat /\ Links \in Nat /\ Links > 0
  BY LinkFacts DEF Link
<1>2. (currentLinkIndex + 1) % Links \in 0..(Links - 1)
  BY <1>1
<1> QED
  BY <1>2 DEF NextLink, Link

-----------------------------------------------------------------------------
\* Calls.

\* TestNow keeps the state well typed.
LEMMA TestNowType ==
    ASSUME TypeInv, NEW c \in Caller, NEW x \in Tag, TestNow(c, x)
    PROVE  TypeInv'
<1> USE DEF TypeInv, TypeOK, TestNow
<1>1. FlagTypes'
  BY DEF FlagTypes, stateVars, flagVars
<1>2. QueueTypes'
  BY DEF QueueTypes, queueVars, Places
<1>3. PoolTypes'
  BY DEF PoolTypes, poolVars, WorkerPcs, ProbePcs
<1>4. CallTypes'
  BY TestRequestsType DEF CallTypes, callVars, Thread
<1>5. CycleTypes'
  BY DEF CycleTypes, cycleVars, CyclePcs
<1>6. ResultTypes'
  BY DEF ResultTypes, saveVars
<1>7. HoldsTask'
  BY DEF HoldsTask, poolVars, PoolTypes
<1> QED
  BY <1>1, <1>2, <1>3, <1>4, <1>5, <1>6, <1>7

\* InvalidateTest keeps the state well typed.
LEMMA InvalidateTestType ==
    ASSUME TypeInv, NEW c \in Caller, NEW x \in Tag, InvalidateTest(c, x)
    PROVE  TypeInv'
<1> USE DEF TypeInv, TypeOK, InvalidateTest
<1>1. FlagTypes'
  BY DEF FlagTypes, stateVars, flagVars
<1>2. QueueTypes'
  BY DEF QueueTypes, queueVars, Places
<1>3. PoolTypes'
  BY DEF PoolTypes, poolVars, WorkerPcs, ProbePcs
<1>4. CallTypes'
  BY DEF CallTypes, callVars, Thread, Request
<1>5. CycleTypes'
  BY DEF CycleTypes, cycleVars, CyclePcs
<1>6. ResultTypes'
  BY DEF ResultTypes, saveVars
<1>7. HoldsTask'
  BY DEF HoldsTask, poolVars, PoolTypes
<1> QED
  BY <1>1, <1>2, <1>3, <1>4, <1>5, <1>6, <1>7

\* BecomeReady keeps the state well typed.
LEMMA BecomeReadyType ==
    ASSUME TypeInv, NEW o \in Lazy, BecomeReady(o)
    PROVE  TypeInv'
<1> USE DEF TypeInv, TypeOK, BecomeReady
<1>1. FlagTypes'
  BY DEF FlagTypes, stateVars, flagVars
<1>2. QueueTypes'
  BY DEF QueueTypes, queueVars, Places
<1>3. PoolTypes'
  BY DEF PoolTypes, poolVars, WorkerPcs, ProbePcs
<1>4. CallTypes'
  BY MonitorAssumption, TestRequestsType DEF CallTypes, callVars, Thread
<1>5. CycleTypes'
  BY DEF CycleTypes, cycleVars, CyclePcs
<1>6. ResultTypes'
  BY DEF ResultTypes, saveVars
<1>7. HoldsTask'
  BY DEF HoldsTask, poolVars, PoolTypes
<1> QED
  BY <1>1, <1>2, <1>3, <1>4, <1>5, <1>6, <1>7

\* LoseReady keeps the state well typed.
LEMMA LoseReadyType ==
    ASSUME TypeInv, NEW o \in Flaky, LoseReady(o)
    PROVE  TypeInv'
BY DEF LoseReady, TypeInv, TypeOK, HoldsTask, FlagTypes, QueueTypes, PoolTypes,
   CallTypes, CycleTypes, ResultTypes, stateVars, flagVars, queueVars,
   poolVars, callVars, cycleVars, saveVars, Places, WorkerPcs, ProbePcs, CyclePcs

\* A new task goes through enqueueTask with a free object.
LEMMA EnqueueNewType ==
    ASSUME FlagTypes, QueueTypes, NEW r \in TaskRecord, EnqueueNew(r),
           UNCHANGED <<ready, invalid, testing, closed>>
    PROVE  FlagTypes' /\ QueueTypes'
<1> DEFINE t == CHOOSE u \in Free : TRUE
<1>1. t \in Task /\ EnqueueTask(t, r)
  BY DEF EnqueueNew, Free
<1> QED
  BY <1>1, EnqueueTaskType

\* CallEnqueue keeps the state well typed.
LEMMA CallEnqueueType ==
    ASSUME TypeInv, NEW c \in Thread, NEW r \in Request, CallEnqueue(c, r)
    PROVE  TypeInv'
<1> USE DEF TypeInv, TypeOK, CallEnqueue
<1>a. NewTask(r.tag, cycleSeq, r.priority, 0) \in TaskRecord
  BY DEF CallTypes, CycleTypes, Request, NewTask, TaskRecord
<1>1. FlagTypes'
  BY <1>a, EnqueueNewType
<1>2. QueueTypes'
  BY <1>a, EnqueueNewType
<1>3. PoolTypes'
  BY DEF PoolTypes, poolVars, WorkerPcs, ProbePcs
<1>4. CallTypes'
  BY DEF CallTypes, callVars
<1>5. CycleTypes'
  BY DEF CycleTypes, cycleVars, CyclePcs
<1>6. ResultTypes'
  BY DEF ResultTypes, saveVars
<1>7. HoldsTask'
  BY DEF HoldsTask, poolVars, PoolTypes
<1> QED
  BY <1>1, <1>2, <1>3, <1>4, <1>5, <1>6, <1>7

\* Retry keeps the state well typed.
LEMMA RetryType ==
    ASSUME TypeInv, NEW t \in Task, Retry(t)
    PROVE  TypeInv'
<1> USE DEF TypeInv, TypeOK, Retry
<1>a. [task[t] EXCEPT !.cycle = @ + 1] \in TaskRecord
  <2>1. task[t] \in TaskRecord
    BY DEF QueueTypes
  <2> QED
    BY <2>1 DEF TaskRecord
<1>b. EnqueueTask(t, [task[t] EXCEPT !.cycle = @ + 1]) => FlagTypes' /\ QueueTypes'
  BY <1>a, EnqueueTaskType
<1>c. Release(t) /\ UNCHANGED <<flagVars, priorityQueue, normalQueue, lost>>
        => FlagTypes' /\ QueueTypes'
  BY ReleaseType DEF FlagTypes, QueueTypes, flagVars
<1>1. FlagTypes'
  BY <1>b, <1>c
<1>2. QueueTypes'
  BY <1>b, <1>c
<1>3. PoolTypes'
  BY DEF PoolTypes, poolVars, WorkerPcs, ProbePcs
<1>4. CallTypes'
  BY DEF CallTypes, callVars
<1>5. CycleTypes'
  BY DEF CycleTypes, cycleVars, CyclePcs
<1>6. ResultTypes'
  BY DEF ResultTypes, saveVars
<1>7. HoldsTask'
  BY DEF HoldsTask, poolVars, PoolTypes
<1> QED
  BY <1>1, <1>2, <1>3, <1>4, <1>5, <1>6, <1>7

-----------------------------------------------------------------------------
\* Workers.

\* TakePriority keeps the state well typed.
LEMMA TakePriorityType ==
    ASSUME TypeInv, NEW w \in Worker, TakePriority(w)
    PROVE  TypeInv'
<1> USE DEF TypeInv, TypeOK, TakePriority
<1>a. Head(priorityQueue) \in Task /\ Tail(priorityQueue) \in Seq(Task)
  BY HeadTailProperties DEF QueueTypes
<1>b. /\ testing' \in [Tag -> BOOLEAN]
      /\ task' \in [Task -> TaskRecord] /\ place' \in [Task -> Places]
      /\ held' \in [Worker -> Task \cup {NoTask}]
      /\ worker' \in [Worker -> WorkerPcs]
      /\ HoldsTask'
  BY <1>a, ReceivesType
<1>1. FlagTypes'
  BY <1>b DEF FlagTypes, flagVars
<1>2. QueueTypes'
  BY <1>a, <1>b DEF QueueTypes
<1>3. PoolTypes'
  BY <1>b DEF PoolTypes
<1>4. CallTypes'
  BY DEF CallTypes, callVars
<1>5. CycleTypes'
  BY DEF CycleTypes, cycleVars, CyclePcs
<1>6. ResultTypes'
  BY DEF ResultTypes, saveVars
<1>7. HoldsTask'
  BY <1>b
<1> QED
  BY <1>1, <1>2, <1>3, <1>4, <1>5, <1>6, <1>7

\* EnterSelect keeps the state well typed.
LEMMA EnterSelectType ==
    ASSUME TypeInv, NEW w \in Worker, EnterSelect(w)
    PROVE  TypeInv'
BY DEF EnterSelect, TypeInv, TypeOK, HoldsTask, FlagTypes, QueueTypes, PoolTypes,
   CallTypes, CycleTypes, ResultTypes, stateVars, flagVars, queueVars,
   poolVars, callVars, cycleVars, saveVars, Places, WorkerPcs, ProbePcs, CyclePcs

\* TakeNormal keeps the state well typed.
LEMMA TakeNormalType ==
    ASSUME TypeInv, NEW w \in Worker, TakeNormal(w)
    PROVE  TypeInv'
<1> USE DEF TypeInv, TypeOK, TakeNormal
<1>a. Head(normalQueue) \in Task /\ Tail(normalQueue) \in Seq(Task)
  BY HeadTailProperties DEF QueueTypes
<1>b. /\ testing' \in [Tag -> BOOLEAN]
      /\ task' \in [Task -> TaskRecord] /\ place' \in [Task -> Places]
      /\ held' \in [Worker -> Task \cup {NoTask}]
      /\ worker' \in [Worker -> WorkerPcs]
      /\ HoldsTask'
  BY <1>a, ReceivesType
<1>1. FlagTypes'
  BY <1>b DEF FlagTypes, flagVars
<1>2. QueueTypes'
  BY <1>a, <1>b DEF QueueTypes
<1>3. PoolTypes'
  BY <1>b DEF PoolTypes
<1>4. CallTypes'
  BY DEF CallTypes, callVars
<1>5. CycleTypes'
  BY DEF CycleTypes, cycleVars, CyclePcs
<1>6. ResultTypes'
  BY DEF ResultTypes, saveVars
<1>7. HoldsTask'
  BY <1>b
<1> QED
  BY <1>1, <1>2, <1>3, <1>4, <1>5, <1>6, <1>7

\* WorkerExit keeps the state well typed.
LEMMA WorkerExitType ==
    ASSUME TypeInv, NEW w \in Worker, WorkerExit(w)
    PROVE  TypeInv'
BY DEF WorkerExit, TypeInv, TypeOK, HoldsTask, FlagTypes, QueueTypes, PoolTypes,
   CallTypes, CycleTypes, ResultTypes, stateVars, flagVars, queueVars,
   poolVars, callVars, cycleVars, saveVars, Places, WorkerPcs, ProbePcs, CyclePcs

\* Postpone keeps the state well typed.
LEMMA PostponeType ==
    ASSUME TypeInv, NEW w \in Worker, Postpone(w)
    PROVE  TypeInv'
<1> USE DEF TypeInv, TypeOK, Postpone
<1>1. FlagTypes'
  BY SetTestingType DEF FlagTypes, flagVars
<1>2. QueueTypes'
  BY DEF QueueTypes, queueVars, Places
<1>3. PoolTypes'
  BY DEF PoolTypes, poolVars, WorkerPcs, ProbePcs
<1>4. CallTypes'
  BY DEF CallTypes, callVars
<1>5. CycleTypes'
  BY DEF CycleTypes, cycleVars, CyclePcs
<1>6. ResultTypes'
  BY DEF ResultTypes, saveVars
<1>7. HoldsTask'
  BY DEF HoldsTask, poolVars, PoolTypes
<1> QED
  BY <1>1, <1>2, <1>3, <1>4, <1>5, <1>6, <1>7

\* StartProbe keeps the state well typed.
LEMMA StartProbeType ==
    ASSUME TypeInv, NEW w \in Worker, StartProbe(w)
    PROVE  TypeInv'
BY DEF StartProbe, TypeInv, TypeOK, HoldsTask, FlagTypes, QueueTypes, PoolTypes,
   CallTypes, CycleTypes, ResultTypes, stateVars, flagVars, queueVars,
   poolVars, callVars, cycleVars, saveVars, Places, WorkerPcs, ProbePcs, CyclePcs

\* ProbeReturns keeps the state well typed.
LEMMA ProbeReturnsType ==
    ASSUME TypeInv, NEW w \in Worker, NEW ok \in BOOLEAN, ProbeReturns(w, ok)
    PROVE  TypeInv'
BY DEF ProbeReturns, TypeInv, TypeOK, HoldsTask, FlagTypes, QueueTypes, PoolTypes,
   CallTypes, CycleTypes, ResultTypes, stateVars, flagVars, queueVars,
   poolVars, callVars, cycleVars, saveVars, Places, WorkerPcs, ProbePcs, CyclePcs

\* ApplyResult keeps the state well typed.
LEMMA ApplyResultType ==
    ASSUME TypeInv, NEW w \in Worker, NEW changed \in BOOLEAN, ApplyResult(w, changed)
    PROVE  TypeInv'
<1> USE DEF TypeInv, TypeOK, ApplyResult
<1>a. held[w] \in Task /\ Held(w) \in TaskRecord
  BY DEF HoldsTask, QueueTypes, Held
<1>1. FlagTypes'
  BY <1>a DEF FlagTypes, PoolTypes, ClearFlags, TaskRecord
<1>2. QueueTypes'
  BY DEF QueueTypes, queueVars, Places
<1>3. PoolTypes'
  BY DEF PoolTypes, poolVars, WorkerPcs, ProbePcs
<1>4. CallTypes'
  BY DEF CallTypes, callVars
<1>5. CycleTypes'
  BY DEF CycleTypes, cycleVars, CyclePcs
<1>6. ResultTypes'
  BY <1>a DEF ResultTypes, TaskRecord
<1>7. HoldsTask'
  BY DEF HoldsTask, poolVars, PoolTypes
<1> QED
  BY <1>1, <1>2, <1>3, <1>4, <1>5, <1>6, <1>7

\* Reply keeps the state well typed.
LEMMA ReplyType ==
    ASSUME TypeInv, NEW w \in Worker, Reply(w)
    PROVE  TypeInv'
<1> USE DEF TypeInv, TypeOK, Reply
<1>a. held[w] \in Task /\ Held(w) \in TaskRecord
  BY DEF HoldsTask, QueueTypes, Held
<1>b. [tag |-> Held(w).tag, ok |-> success[w], link |-> usedLink[w]] \in Outcome
  BY <1>a DEF PoolTypes, Outcome, TaskRecord
<1>c. Append(resultCh, [tag |-> Held(w).tag, ok |-> success[w], link |-> usedLink[w]])
         \in Seq(Outcome)
  BY <1>b, AppendProperties DEF ResultTypes
<1>1. FlagTypes'
  BY DEF FlagTypes, stateVars, flagVars
<1>2. QueueTypes'
  BY DEF QueueTypes, queueVars, Places
<1>3. PoolTypes'
  BY DEF PoolTypes, poolVars, WorkerPcs, ProbePcs
<1>4. CallTypes'
  BY DEF CallTypes, callVars
<1>5. CycleTypes'
  BY DEF CycleTypes, cycleVars, CyclePcs
<1>6. ResultTypes'
  BY <1>c DEF ResultTypes, saveVars
<1>7. HoldsTask'
  BY DEF HoldsTask, poolVars, PoolTypes
<1> QED
  BY <1>1, <1>2, <1>3, <1>4, <1>5, <1>6, <1>7

\* FinishTask keeps the state well typed.
LEMMA FinishTaskType ==
    ASSUME TypeInv, NEW w \in Worker, FinishTask(w)
    PROVE  TypeInv'
<1> USE DEF TypeInv, TypeOK, FinishTask
<1>1. FlagTypes'
  BY SetTestingType DEF FlagTypes, flagVars
<1>2. QueueTypes'
  BY ReleaseType DEF QueueTypes
<1>3. PoolTypes'
  BY LinkFacts DEF PoolTypes, WorkerPcs, ProbePcs
<1>4. CallTypes'
  BY DEF CallTypes, callVars
<1>5. CycleTypes'
  BY DEF CycleTypes, cycleVars, CyclePcs
<1>6. ResultTypes'
  BY DEF ResultTypes, saveVars
<1>7. HoldsTask'
  BY DEF HoldsTask, poolVars, PoolTypes
<1> QED
  BY <1>1, <1>2, <1>3, <1>4, <1>5, <1>6, <1>7

\* AbandonTask keeps the state well typed.
LEMMA AbandonTaskType ==
    ASSUME TypeInv, NEW w \in Worker, AbandonTask(w)
    PROVE  TypeInv'
<1> USE DEF TypeInv, TypeOK, AbandonTask
<1>1. FlagTypes'
  BY SetTestingType DEF FlagTypes, flagVars
<1>2. QueueTypes'
  BY DEF QueueTypes, queueVars, Places
<1>3. PoolTypes'
  BY DEF PoolTypes, poolVars, WorkerPcs, ProbePcs
<1>4. CallTypes'
  BY DEF CallTypes, callVars
<1>5. CycleTypes'
  BY DEF CycleTypes, cycleVars, CyclePcs
<1>6. ResultTypes'
  BY DEF ResultTypes, saveVars
<1>7. HoldsTask'
  BY DEF HoldsTask, poolVars, PoolTypes
<1> QED
  BY <1>1, <1>2, <1>3, <1>4, <1>5, <1>6, <1>7

-----------------------------------------------------------------------------
\* The cycle goroutine.

\* StartCycleOnce keeps the state well typed.
LEMMA StartCycleOnceType ==
    ASSUME TypeInv, StartCycleOnce
    PROVE  TypeInv'
BY DEF StartCycleOnce, TypeInv, TypeOK, HoldsTask, FlagTypes, QueueTypes, PoolTypes,
   CallTypes, CycleTypes, ResultTypes, stateVars, flagVars, queueVars,
   poolVars, callVars, cycleVars, saveVars, Places, WorkerPcs, ProbePcs, CyclePcs

\* BeginCycle keeps the state well typed.
LEMMA BeginCycleType ==
    ASSUME TypeInv, BeginCycle
    PROVE  TypeInv'
<1> USE DEF TypeInv, TypeOK, BeginCycle
<1>1. FlagTypes'
  BY DEF FlagTypes, stateVars, flagVars
<1>2. QueueTypes'
  BY DEF QueueTypes, queueVars, Places
<1>3. PoolTypes'
  BY DEF PoolTypes, poolVars, WorkerPcs, ProbePcs
<1>4. CallTypes'
  BY DEF CallTypes, callVars
<1>5. CycleTypes'
  BY DEF CycleTypes, CyclePcs, Leaf
<1>6. ResultTypes'
  BY DEF ResultTypes, saveVars
<1>7. HoldsTask'
  BY DEF HoldsTask, poolVars, PoolTypes
<1> QED
  BY <1>1, <1>2, <1>3, <1>4, <1>5, <1>6, <1>7

\* Collect keeps the state well typed.
LEMMA CollectType ==
    ASSUME TypeInv, NEW o \in Tag, Collect(o)
    PROVE  TypeInv'
BY DEF Collect, TypeInv, TypeOK, HoldsTask, FlagTypes, QueueTypes, PoolTypes,
   CallTypes, CycleTypes, ResultTypes, stateVars, flagVars, queueVars,
   poolVars, callVars, cycleVars, saveVars, Places, WorkerPcs, ProbePcs, CyclePcs

\* EndCollect keeps the state well typed.
LEMMA EndCollectType ==
    ASSUME TypeInv, EndCollect
    PROVE  TypeInv'
<1> USE DEF TypeInv, TypeOK, EndCollect
<1>1. FlagTypes'
  BY DEF FlagTypes, stateVars, flagVars
<1>2. QueueTypes'
  BY DEF QueueTypes, queueVars, Places
<1>3. PoolTypes'
  BY DEF PoolTypes, poolVars, WorkerPcs, ProbePcs
<1>4. CallTypes'
  BY DEF CallTypes, callVars
<1>5. CycleTypes'
  <2>1. CASE tags = {} /\ cycle' = "idle"
                /\ UNCHANGED <<toVisit, stage, expected, passed, attempt>>
    BY <2>1 DEF CycleTypes, CyclePcs
  <2>2. CASE OpenStage /\ attempt' = 1
    <3>1. attempt' \in 1..Links
      BY <2>2, LinkFacts
    <3>2. /\ cycle' = "enqueue" /\ toVisit' = tags /\ stage' = stage + 1
          /\ expected' = 0 /\ passed' = FALSE
      BY <2>2 DEF OpenStage
    <3>3. UNCHANGED <<cycleSeq, tags, currentLinkIndex>>
      OBVIOUS
    <3> HIDE DEF EndCollect
    <3>4. stage' \in Nat /\ expected' \in Nat
      BY <3>2 DEF CycleTypes
    <3> QED
      BY <3>1, <3>2, <3>3, <3>4 DEF CycleTypes, CyclePcs
  <2> QED
    BY <2>1, <2>2
<1>6. ResultTypes'
  BY EmptySeq DEF ResultTypes, OpenStage, saveVars
<1>7. HoldsTask'
  BY DEF HoldsTask, poolVars, PoolTypes
<1> QED
  BY <1>1, <1>2, <1>3, <1>4, <1>5, <1>6, <1>7

\* EnqueueStage keeps the state well typed.
LEMMA EnqueueStageType ==
    ASSUME TypeInv, NEW o \in Tag, EnqueueStage(o)
    PROVE  TypeInv'
<1> USE DEF TypeInv, TypeOK, EnqueueStage
<1>a. NewTask(o, cycleSeq, FALSE, stage) \in TaskRecord
  BY DEF CycleTypes, NewTask, TaskRecord
<1>1. FlagTypes'
  BY <1>a, EnqueueNewType
<1>2. QueueTypes'
  BY <1>a, EnqueueNewType
<1>3. PoolTypes'
  BY DEF PoolTypes, poolVars, WorkerPcs, ProbePcs
<1>4. CallTypes'
  BY DEF CallTypes, callVars
<1>5. CycleTypes'
  <2>1. expected' = expected + 1 \/ expected' = expected
    BY DEF CountAsked
  <2>2. cycle' \in CyclePcs
    BY DEF CycleTypes, CyclePcs
  <2>3. UNCHANGED <<cycleSeq, tags, stage, attempt, passed, currentLinkIndex>>
    OBVIOUS
  <2>4. toVisit' = toVisit \ {o}
    OBVIOUS
  <2> HIDE DEF EnqueueStage
  <2>5. expected' \in Nat
    BY <2>1 DEF CycleTypes
  <2> QED
    BY <2>2, <2>3, <2>4, <2>5 DEF CycleTypes
<1>6. ResultTypes'
  BY DEF ResultTypes, saveVars
<1>7. HoldsTask'
  BY DEF HoldsTask, poolVars, PoolTypes
<1> QED
  BY <1>1, <1>2, <1>3, <1>4, <1>5, <1>6, <1>7

\* Receive keeps the state well typed.
LEMMA ReceiveType ==
    ASSUME TypeInv, Receive
    PROVE  TypeInv'
<1> USE DEF TypeInv, TypeOK, Receive
<1>1. FlagTypes'
  BY DEF FlagTypes, stateVars, flagVars
<1>2. QueueTypes'
  BY DEF QueueTypes, queueVars, Places
<1>3. PoolTypes'
  BY DEF PoolTypes, poolVars, WorkerPcs, ProbePcs
<1>4. CallTypes'
  BY DEF CallTypes, callVars
<1>5. CycleTypes'
  <2>1. Head(resultCh) \in Outcome
    BY HeadTailProperties DEF ResultTypes
  <2> QED
    BY <2>1 DEF CycleTypes, CountOutcome, Outcome
<1>6. ResultTypes'
  BY HeadTailProperties DEF ResultTypes, saveVars
<1>7. HoldsTask'
  BY DEF HoldsTask, poolVars, PoolTypes
<1> QED
  BY <1>1, <1>2, <1>3, <1>4, <1>5, <1>6, <1>7

\* AbandonStage keeps the state well typed.
LEMMA AbandonStageType ==
    ASSUME TypeInv, AbandonStage
    PROVE  TypeInv'
BY DEF AbandonStage, TypeInv, TypeOK, HoldsTask, FlagTypes, QueueTypes, PoolTypes,
   CallTypes, CycleTypes, ResultTypes, stateVars, flagVars, queueVars,
   poolVars, callVars, cycleVars, saveVars, Places, WorkerPcs, ProbePcs, CyclePcs

\* NextStage keeps the state well typed.
LEMMA NextStageType ==
    ASSUME TypeInv, NextStage
    PROVE  TypeInv'
<1> USE DEF TypeInv, TypeOK, NextStage
<1>1. FlagTypes'
  BY DEF FlagTypes, stateVars, flagVars
<1>2. QueueTypes'
  BY DEF QueueTypes, queueVars, Places
<1>3. PoolTypes'
  BY DEF PoolTypes, poolVars, WorkerPcs, ProbePcs
<1>4. CallTypes'
  BY DEF CallTypes, callVars
<1>5. CycleTypes'
  <2>1. attempt' \in 1..Links /\ currentLinkIndex' \in Link
    BY NextLinkType, LinkFacts DEF CycleTypes
  <2>2. /\ cycle' = "enqueue" /\ toVisit' = tags /\ stage' = stage + 1
        /\ expected' = 0 /\ passed' = FALSE
    BY DEF OpenStage
  <2>3. UNCHANGED <<cycleSeq, tags>>
    OBVIOUS
  <2> HIDE DEF NextStage
  <2>4. stage' \in Nat /\ expected' \in Nat
    BY <2>2 DEF CycleTypes
  <2> QED
    BY <2>1, <2>2, <2>3, <2>4 DEF CycleTypes, CyclePcs
<1>6. ResultTypes'
  BY EmptySeq DEF ResultTypes, OpenStage, saveVars
<1>7. HoldsTask'
  BY DEF HoldsTask, poolVars, PoolTypes
<1> QED
  BY <1>1, <1>2, <1>3, <1>4, <1>5, <1>6, <1>7

\* EndCycle keeps the state well typed.
LEMMA EndCycleType ==
    ASSUME TypeInv, EndCycle
    PROVE  TypeInv'
<1> USE DEF TypeInv, TypeOK, EndCycle
<1>1. FlagTypes'
  BY DEF FlagTypes, stateVars, flagVars
<1>2. QueueTypes'
  BY DEF QueueTypes, queueVars, Places
<1>3. PoolTypes'
  BY DEF PoolTypes, poolVars, WorkerPcs, ProbePcs
<1>4. CallTypes'
  BY DEF CallTypes, callVars
<1>5. CycleTypes'
  BY LinkFacts DEF CycleTypes, CyclePcs
<1>6. ResultTypes'
  BY DEF ResultTypes, saveVars
<1>7. HoldsTask'
  BY DEF HoldsTask, poolVars, PoolTypes
<1> QED
  BY <1>1, <1>2, <1>3, <1>4, <1>5, <1>6, <1>7

\* SaveOne keeps the state well typed.
LEMMA SaveOneType ==
    ASSUME TypeInv, NEW o \in Tag, SaveOne(o)
    PROVE  TypeInv'
<1> USE DEF TypeInv, TypeOK, SaveOne
<1>1. FlagTypes'
  BY DEF FlagTypes, stateVars, flagVars
<1>2. QueueTypes'
  BY DEF QueueTypes, queueVars, Places
<1>3. PoolTypes'
  BY DEF PoolTypes, poolVars, WorkerPcs, ProbePcs
<1>4. CallTypes'
  BY DEF CallTypes, callVars
<1>5. CycleTypes'
  BY DEF CycleTypes, cycleVars, CyclePcs
<1>6. ResultTypes'
  BY DEF ResultTypes, DirtyAfterCopy
<1>7. HoldsTask'
  BY DEF HoldsTask, poolVars, PoolTypes
<1> QED
  BY <1>1, <1>2, <1>3, <1>4, <1>5, <1>6, <1>7

\* Close keeps the state well typed.
LEMMA CloseType ==
    ASSUME TypeInv, Close
    PROVE  TypeInv'
BY DEF Close, TypeInv, TypeOK, HoldsTask, FlagTypes, QueueTypes, PoolTypes,
   CallTypes, CycleTypes, ResultTypes, stateVars, flagVars, queueVars,
   poolVars, callVars, cycleVars, saveVars, Places, WorkerPcs, ProbePcs, CyclePcs

\* A step that changes nothing.
LEMMA StutterType == TypeInv /\ UNCHANGED vars => TypeInv'
BY DEF TypeInv, TypeOK, HoldsTask, FlagTypes, QueueTypes, PoolTypes, CallTypes,
   CycleTypes, ResultTypes, vars

\* Every step keeps the state well typed.
LEMMA NextTypeInv == TypeInv /\ [Next]_vars => TypeInv'
<1> SUFFICES ASSUME TypeInv, [Next]_vars PROVE TypeInv'
  OBVIOUS
<1>1. CASE CallStep
  <2>1. ASSUME NEW c \in Caller, NEW x \in Tag, TestNow(c, x) \/ InvalidateTest(c, x)
        PROVE  TypeInv'
    BY <2>1, TestNowType, InvalidateTestType
  <2>2. ASSUME NEW c \in Thread, NEW r \in todo[c], CallEnqueue(c, r)
        PROVE  TypeInv'
    <3>1. r \in Request
      BY DEF TypeInv, TypeOK, CallTypes
    <3> QED
      BY <2>2, <3>1, CallEnqueueType
  <2> QED
    BY <1>1, <2>1, <2>2 DEF CallStep
<1>2. CASE ReadyStep
  BY <1>2, BecomeReadyType, LoseReadyType DEF ReadyStep
<1>3. ASSUME NEW w \in Worker, WorkerStep(w)
      PROVE  TypeInv'
  BY <1>3, TakePriorityType, EnterSelectType, TakeNormalType, WorkerExitType,
     PostponeType, StartProbeType, FinishTaskType, AbandonTaskType DEF WorkerStep
<1>4. ASSUME NEW w \in Worker, ProbeStep(w)
      PROVE  TypeInv'
  <2>1. Changes \subseteq BOOLEAN
    BY MonitorAssumption
  <2> QED
    BY <1>4, <2>1, ProbeReturnsType, ApplyResultType, ReplyType DEF ProbeStep
<1>5. ASSUME NEW t \in Task, Retry(t)
      PROVE  TypeInv'
  BY <1>5, RetryType
<1>6. CASE StartCycleOnce \/ Close
  BY <1>6, StartCycleOnceType, CloseType
<1>7. CASE CycleStep
  BY <1>7, BeginCycleType, CollectType, EndCollectType, EnqueueStageType,
     ReceiveType, AbandonStageType, NextStageType, EndCycleType, SaveOneType
  DEF CycleStep
<1>8. CASE UNCHANGED vars
  BY <1>8, StutterType
<1> QED
  BY <1>1, <1>2, <1>3, <1>4, <1>5, <1>6, <1>7, <1>8 DEF Next

\* Every reachable state is well typed, and no goroutine dereferences a task it
\* does not hold.
THEOREM TypeCorrect == Spec => []TypeInv
BY InitTypeInv, NextTypeInv, PTL DEF Spec

\* The type invariant the runs check.
THEOREM TypeSafety == Spec => []TypeOK
<1>1. TypeInv => TypeOK
  BY DEF TypeInv
<1> QED
  BY <1>1, TypeCorrect, PTL

-----------------------------------------------------------------------------
(***************************************************************************)
(* Overtaking: every normal task taken while a priority task waits uses up *)
(* a worker that was already in the inner select.                          *)
(***************************************************************************)
Selecting == {w \in Worker : worker[w] = "select"}

OvertakingInv ==
    /\ overtaken + Cardinality(Selecting) <= Cardinality(Worker)
    /\ priorityQueue = <<>> => overtaken = 0

\* The workers in the inner select are finitely many.
LEMMA SelectingFinite ==
    /\ IsFiniteSet(Selecting) /\ Cardinality(Selecting) \in Nat
    /\ Cardinality(Selecting) <= Cardinality(Worker) /\ Cardinality(Worker) \in Nat
<1>1. IsFiniteSet(Worker)
  BY MonitorAssumption
<1>2. Selecting \in SUBSET Worker
  BY DEF Selecting
<1> QED
  BY <1>1, <1>2, FS_Subset, FS_CardinalityType

\* A step in which no worker enters the select, nothing is overtaken and the
\* priority queue is not emptied keeps the bound.
LEMMA OvertakingKept ==
    ASSUME TypeInv, OvertakingInv, Selecting' \subseteq Selecting,
           UNCHANGED overtaken, priorityQueue' = <<>> => priorityQueue = <<>>
    PROVE  OvertakingInv'
<1>1. Cardinality(Selecting') <= Cardinality(Selecting) /\ Cardinality(Selecting') \in Nat
  BY SelectingFinite, FS_Subset, FS_CardinalityType
<1>2. overtaken \in Nat
  BY DEF TypeInv, TypeOK, PoolTypes
<1>3. overtaken' + Cardinality(Selecting') <= Cardinality(Worker)
  BY <1>1, <1>2, SelectingFinite DEF OvertakingInv
<1> QED
  BY <1>3 DEF OvertakingInv

\* An enqueueTask call leaves the priority queue as it is or appends to it.
LEMMA EnqueueKeepsPriority ==
    ASSUME QueueTypes, NEW t \in Task, NEW r, EnqueueTask(t, r)
    PROVE  priorityQueue' = <<>> => priorityQueue = <<>>
<1>1. Send(t, r) => (priorityQueue' = <<>> => priorityQueue = <<>>)
  BY AppendProperties DEF Send, QueueTypes
<1> QED
  BY <1>1 DEF EnqueueTask, LetGo, queueVars

\* The same of a new task.
LEMMA EnqueueNewKeepsPriority ==
    ASSUME QueueTypes, NEW r, EnqueueNew(r)
    PROVE  priorityQueue' = <<>> => priorityQueue = <<>>
<1>1. (CHOOSE u \in Free : TRUE) \in Task
  BY DEF EnqueueNew, Free
<1> QED
  BY <1>1, EnqueueKeepsPriority DEF EnqueueNew

\* Receiving a task takes the worker out of the select.
LEMMA ReceivesLeavesSelect ==
    ASSUME TypeInv, NEW w \in Worker, NEW t, Receives(w, t)
    PROVE  Selecting' = Selecting \ {w}
BY DEF Receives, Selecting, TypeInv, TypeOK, PoolTypes

\* The bound is inductive: workers.
LEMMA WorkerOvertaking ==
    ASSUME TypeInv, OvertakingInv, NEW w \in Worker, WorkerStep(w)
    PROVE  OvertakingInv'
<1> USE DEF TypeInv, TypeOK, PoolTypes, QueueTypes
<1>1. CASE TakePriority(w)
  <2>1. overtaken' = 0
    BY <1>1 DEF TakePriority
  <2>2. Selecting' = Selecting \ {w}
    BY <1>1, ReceivesLeavesSelect DEF TakePriority
  <2>3. Cardinality(Selecting') <= Cardinality(Worker) /\ Cardinality(Selecting') \in Nat
    BY <2>2, SelectingFinite, FS_Subset, FS_CardinalityType
  <2> QED
    BY <2>1, <2>3 DEF OvertakingInv
<1>2. CASE EnterSelect(w)
  <2>1. overtaken' = 0 /\ priorityQueue' = priorityQueue
    BY <1>2 DEF EnterSelect, OvertakingInv, queueVars
  <2>2. Selecting' \subseteq Worker
    BY DEF Selecting
  <2>3. Cardinality(Selecting') <= Cardinality(Worker) /\ Cardinality(Selecting') \in Nat
    BY <2>2, MonitorAssumption, FS_Subset, FS_CardinalityType
  <2> QED
    BY <2>1, <2>3 DEF OvertakingInv
<1>3. CASE TakeNormal(w)
  <2>1. w \in Selecting /\ Selecting' = Selecting \ {w}
    BY <1>3, ReceivesLeavesSelect DEF TakeNormal, Selecting
  <2>2. Cardinality(Selecting') = Cardinality(Selecting) - 1
    BY <2>1, SelectingFinite, FS_RemoveElement
  <2>3. /\ overtaken' = 0 \/ overtaken' = overtaken + 1
        /\ priorityQueue' = priorityQueue
        /\ priorityQueue = <<>> => overtaken' = 0
    BY <1>3 DEF TakeNormal
  <2>4. overtaken \in Nat
    OBVIOUS
  <2> QED
    BY <2>2, <2>3, <2>4, SelectingFinite DEF OvertakingInv
<1>4. CASE WorkerExit(w)
  BY <1>4, OvertakingKept DEF WorkerExit, Selecting, queueVars
<1>5. CASE Postpone(w)
  BY <1>5, OvertakingKept DEF Postpone, Selecting
<1>6. CASE StartProbe(w)
  BY <1>6, OvertakingKept DEF StartProbe, Selecting, queueVars
<1>7. CASE FinishTask(w)
  BY <1>7, OvertakingKept DEF FinishTask, Selecting
<1>8. CASE AbandonTask(w)
  BY <1>8, OvertakingKept DEF AbandonTask, Selecting, queueVars
<1> QED
  BY <1>1, <1>2, <1>3, <1>4, <1>5, <1>6, <1>7, <1>8 DEF WorkerStep

\* A step that leaves workers, queues and the count alone.
LEMMA OvertakingUnmoved ==
    ASSUME TypeInv, OvertakingInv, UNCHANGED <<worker, overtaken, priorityQueue>>
    PROVE  OvertakingInv'
BY OvertakingKept DEF Selecting

\* The bound is inductive: all steps.
LEMMA NextOvertaking == TypeInv /\ OvertakingInv /\ [Next]_vars => OvertakingInv'
<1> SUFFICES ASSUME TypeInv, OvertakingInv, [Next]_vars PROVE OvertakingInv'
  OBVIOUS
<1> USE DEF poolVars, queueVars
<1>1. ASSUME UNCHANGED poolVars, priorityQueue' = <<>> => priorityQueue = <<>>
      PROVE  OvertakingInv'
  BY <1>1, OvertakingKept DEF Selecting
<1>2. QueueTypes
  BY DEF TypeInv, TypeOK
<1>3. CASE CallStep
  <2>1. ASSUME NEW c \in Caller, NEW x \in Tag, TestNow(c, x) \/ InvalidateTest(c, x)
        PROVE  OvertakingInv'
    BY <2>1, OvertakingUnmoved DEF TestNow, InvalidateTest
  <2>2. ASSUME NEW c \in Thread, NEW r \in todo[c], CallEnqueue(c, r)
        PROVE  OvertakingInv'
    BY <1>1, <1>2, <2>2, EnqueueNewKeepsPriority DEF CallEnqueue
  <2> QED
    BY <1>3, <2>1, <2>2 DEF CallStep
<1>4. CASE ReadyStep
  BY <1>4, OvertakingUnmoved DEF ReadyStep, BecomeReady, LoseReady
<1>5. ASSUME NEW w \in Worker, WorkerStep(w)
      PROVE  OvertakingInv'
  BY <1>5, WorkerOvertaking
<1>6. ASSUME NEW w \in Worker, ProbeStep(w)
      PROVE  OvertakingInv'
  BY <1>6, OvertakingUnmoved DEF ProbeStep, ProbeReturns, ApplyResult, Reply
<1>7. ASSUME NEW t \in Task, Retry(t)
      PROVE  OvertakingInv'
  BY <1>1, <1>2, <1>7, EnqueueKeepsPriority DEF Retry
<1>8. CASE StartCycleOnce \/ Close
  BY <1>8, OvertakingUnmoved DEF StartCycleOnce, Close
<1>9. CASE CycleStep
  <2>1. CASE \E o \in Tag : EnqueueStage(o)
    BY <1>1, <1>2, <2>1, EnqueueNewKeepsPriority DEF EnqueueStage
  <2>2. CASE \/ BeginCycle \/ EndCollect \/ Receive \/ AbandonStage \/ NextStage
             \/ EndCycle \/ \E o \in Tag : Collect(o) \/ SaveOne(o)
    BY <2>2, OvertakingUnmoved DEF BeginCycle, EndCollect, Receive, AbandonStage,
       NextStage, EndCycle, Collect, SaveOne
  <2> QED
    BY <1>9, <2>1, <2>2 DEF CycleStep
<1>10. CASE UNCHANGED vars
  BY <1>10, OvertakingUnmoved DEF vars
<1> QED
  BY <1>3, <1>4, <1>5, <1>6, <1>7, <1>8, <1>9, <1>10 DEF Next

\* While a priority task waits, at most as many normal tasks are started as there
\* are workers: the outer poll of workerLoop bounds what the inner select may do.
THEOREM OvertakingBounded == Spec => []BoundedOvertaking
<1>1. Init => OvertakingInv
  <2> SUFFICES ASSUME Init PROVE OvertakingInv
    OBVIOUS
  <2>1. overtaken = 0 /\ Selecting = {}
    BY DEF Init, Selecting
  <2> QED
    BY <2>1, SelectingFinite, FS_EmptySet DEF OvertakingInv
<1>2. TypeInv /\ OvertakingInv => BoundedOvertaking
  <2> SUFFICES ASSUME TypeInv, OvertakingInv PROVE BoundedOvertaking
    OBVIOUS
  <2>1. overtaken \in Nat
    BY DEF TypeInv, TypeOK, PoolTypes
  <2> QED
    BY <2>1, SelectingFinite DEF OvertakingInv, BoundedOvertaking
<1>3. Spec => []OvertakingInv
  BY <1>1, NextOvertaking, TypeCorrect, PTL DEF Spec
<1> QED
  BY <1>2, <1>3, TypeCorrect, PTL

-----------------------------------------------------------------------------
(***************************************************************************)
(* The dirty flag.  NoForgottenResult is inductive by itself.              *)
(***************************************************************************)
\* A step that leaves flag, results and the running copy alone.
LEMMA ForgottenUnmoved ==
    ASSUME NoForgottenResult, UNCHANGED <<cacheDirty, unsaved, cycle, toVisit>>
    PROVE  NoForgottenResult'
BY DEF NoForgottenResult

\* The cycle goroutine: the flag is swapped before the copy begins.
LEMMA CycleForgotten ==
    ASSUME TypeInv, NoForgottenResult, CycleStep
    PROVE  NoForgottenResult'
<1> USE DEF NoForgottenResult, saveVars
<1>1. CASE BeginCycle
  BY <1>1 DEF BeginCycle
<1>2. CASE EndCollect
  BY <1>2 DEF EndCollect, OpenStage
<1>3. CASE Receive
  BY <1>3, ForgottenUnmoved DEF Receive
<1>4. CASE AbandonStage
  BY <1>4, ForgottenUnmoved DEF AbandonStage
<1>5. CASE NextStage
  BY <1>5 DEF NextStage, OpenStage
<1>6. CASE EndCycle
  <2>1. unsaved \subseteq Tag
    BY DEF TypeInv, TypeOK, ResultTypes
  <2> QED
    BY <1>6, <2>1 DEF EndCycle
<1>7. ASSUME NEW o \in Tag, Collect(o)
      PROVE  NoForgottenResult'
  BY <1>7 DEF Collect
<1>8. ASSUME NEW o \in Tag, EnqueueStage(o)
      PROVE  NoForgottenResult'
  BY <1>8 DEF EnqueueStage
<1>9. ASSUME NEW o \in Tag, SaveOne(o)
      PROVE  NoForgottenResult'
  <2>1. CASE toVisit = {o}
    BY <1>9, <2>1 DEF SaveOne, DirtyAfterCopy
  <2>2. CASE toVisit # {o}
    BY <1>9, <2>2 DEF SaveOne, DirtyAfterCopy
  <2> QED
    BY <2>1, <2>2
<1> QED
  BY <1>1, <1>2, <1>3, <1>4, <1>5, <1>6, <1>7, <1>8, <1>9 DEF CycleStep

\* No step forgets a result.
LEMMA NextForgotten == TypeInv /\ NoForgottenResult /\ [Next]_vars => NoForgottenResult'
<1> SUFFICES ASSUME TypeInv, NoForgottenResult, [Next]_vars PROVE NoForgottenResult'
  OBVIOUS
<1> USE DEF saveVars, cycleVars
<1>1. CASE CallStep
  BY <1>1, ForgottenUnmoved DEF CallStep, TestNow, InvalidateTest, CallEnqueue
<1>2. CASE ReadyStep
  BY <1>2, ForgottenUnmoved DEF ReadyStep, BecomeReady, LoseReady
<1>3. ASSUME NEW w \in Worker, WorkerStep(w)
      PROVE  NoForgottenResult'
  BY <1>3, ForgottenUnmoved DEF WorkerStep, TakePriority, EnterSelect, TakeNormal,
     WorkerExit, Postpone, StartProbe, FinishTask, AbandonTask
<1>4. ASSUME NEW w \in Worker, ProbeStep(w)
      PROVE  NoForgottenResult'
  <2>1. CASE \E ok \in BOOLEAN : ProbeReturns(w, ok)
    BY <2>1, ForgottenUnmoved DEF ProbeReturns
  <2>2. CASE Reply(w)
    BY <2>2, ForgottenUnmoved DEF Reply
  <2>3. ASSUME NEW changed \in Changes, ApplyResult(w, changed)
        PROVE  NoForgottenResult'
    BY <2>3 DEF ApplyResult, NoForgottenResult
  <2> QED
    BY <1>4, <2>1, <2>2, <2>3 DEF ProbeStep
<1>5. ASSUME NEW t \in Task, Retry(t)
      PROVE  NoForgottenResult'
  BY <1>5, ForgottenUnmoved DEF Retry
<1>6. CASE StartCycleOnce
  BY <1>6 DEF StartCycleOnce, NoForgottenResult
<1>7. CASE Close
  BY <1>7, ForgottenUnmoved DEF Close
<1>8. CASE CycleStep
  BY <1>8, CycleForgotten
<1>9. CASE UNCHANGED vars
  BY <1>9, ForgottenUnmoved DEF vars
<1> QED
  BY <1>1, <1>2, <1>3, <1>4, <1>5, <1>6, <1>7, <1>8, <1>9 DEF Next

\* However many outbounds report while saveHistory copies, every result is in the
\* snapshot being taken or keeps the cache dirty for the next cycle.
THEOREM HistoryNotForgotten == Spec => []NoForgottenResult
<1>1. Init => NoForgottenResult
  BY DEF Init, NoForgottenResult
<1> QED
  BY <1>1, NextForgotten, TypeCorrect, PTL DEF Spec

-----------------------------------------------------------------------------
(***************************************************************************)
(* The references to task objects while the monitor is open: an object in  *)
(* a channel is in one channel only, once, and a worker's object is in no  *)
(* channel and with no other worker.                                       *)
(***************************************************************************)
QueuedOnce ==
    /\ \A i \in 1..Len(priorityQueue) :
          /\ place[priorityQueue[i]] = "queue"
          /\ task[priorityQueue[i]].priority
          /\ \A j \in 1..Len(priorityQueue) :
                priorityQueue[i] = priorityQueue[j] => i = j
    /\ \A i \in 1..Len(normalQueue) :
          /\ place[normalQueue[i]] = "queue"
          /\ ~task[normalQueue[i]].priority
          /\ \A j \in 1..Len(normalQueue) :
                normalQueue[i] = normalQueue[j] => i = j

Executes(w) == worker[w] = "check" \/ probe[w] # "none"

HeldOnce ==
    \A w \in Worker :
        /\ worker[w] # "exited"
        /\ worker[w] = "check" \/ probe[w] \in {"run", "apply"}
              => place[held[w]] = "worker"
        /\ probe[w] = "reply" => place[held[w]] = "applied"
        /\ probe[w] = "done" => place[held[w]] = "answered"
        /\ \A v \in Worker :
              Executes(v) /\ Executes(w) /\ held[v] = held[w] => v = w

OneReference == ~closed => QueuedOnce /\ HeldOnce

\* A step that leaves the references alone.
LEMMA ReferencesUnmoved ==
    ASSUME OneReference,
           UNCHANGED <<task, place, priorityQueue, normalQueue, worker, held, probe>>,
           closed => closed'
    PROVE  OneReference'
BY DEF OneReference, QueuedOnce, HeldOnce, Executes

\* The objects the workers hold, and those in the channels, stand apart from an
\* object in no channel and with no worker.
LEMMA LooseTask ==
    ASSUME TypeInv, OneReference, ~closed, NEW t \in Task,
           place[t] \in {"free", "retry"}
    PROVE  /\ \A i \in 1..Len(priorityQueue) : priorityQueue[i] # t
           /\ \A i \in 1..Len(normalQueue) : normalQueue[i] # t
           /\ \A w \in Worker : Executes(w) => held[w] # t /\ held[w] \in Task
<1>1. QueuedOnce /\ HeldOnce /\ HoldsTask
  BY DEF OneReference, TypeInv
<1>2. \A i \in 1..Len(priorityQueue) : priorityQueue[i] # t
  BY <1>1 DEF QueuedOnce
<1>3. \A i \in 1..Len(normalQueue) : normalQueue[i] # t
  BY <1>1 DEF QueuedOnce
<1>4. ASSUME NEW w \in Worker, Executes(w)
      PROVE  held[w] # t /\ held[w] \in Task
  <2>1. probe[w] \in ProbePcs
    BY DEF TypeInv, TypeOK, PoolTypes
  <2> QED
    BY <1>1, <1>4, <2>1 DEF HeldOnce, HoldsTask, Executes, ProbePcs
<1> QED
  BY <1>2, <1>3, <1>4

\* Appending a loose task to its channel keeps every reference single.
LEMMA AppendOnce ==
    ASSUME NEW q \in Seq(Task), NEW t \in Task,
           \A i \in 1..Len(q) : q[i] # t,
           \A i, j \in 1..Len(q) : q[i] = q[j] => i = j
    PROVE  \A i \in 1..Len(Append(q, t)) :
              /\ Append(q, t)[i] = t \/ \E k \in 1..Len(q) : Append(q, t)[i] = q[k]
              /\ \A j \in 1..Len(Append(q, t)) :
                    Append(q, t)[i] = Append(q, t)[j] => i = j
<1>1. /\ Len(q) \in Nat /\ Len(Append(q, t)) = Len(q) + 1
      /\ \A i \in 1..Len(q) : Append(q, t)[i] = q[i]
      /\ Append(q, t)[Len(q) + 1] = t
  BY AppendProperties, LenProperties
<1>2. \A i \in 1..Len(Append(q, t)) : i \in 1..Len(q) \/ i = Len(q) + 1
  BY <1>1
<1> QED
  BY <1>1, <1>2

\* Taking the head of a channel leaves the other references, none of them to it.
LEMMA TailOnce ==
    ASSUME NEW q \in Seq(Task), q # <<>>,
           \A i, j \in 1..Len(q) : q[i] = q[j] => i = j
    PROVE  /\ \A i \in 1..Len(Tail(q)) : \E k \in 1..Len(q) : Tail(q)[i] = q[k]
           /\ \A i \in 1..Len(Tail(q)) : Tail(q)[i] # Head(q)
           /\ \A i, j \in 1..Len(Tail(q)) : Tail(q)[i] = Tail(q)[j] => i = j
<1>1. /\ Len(q) \in Nat \ {0} /\ Len(Tail(q)) = Len(q) - 1
      /\ \A i \in 1..Len(Tail(q)) : Tail(q)[i] = q[i + 1]
  BY HeadTailProperties, EmptySeq
<1>2. Head(q) = q[1]
  OBVIOUS
<1>3. \A i \in 1..Len(Tail(q)) : i + 1 \in 1..Len(q) /\ i + 1 # 1
  BY <1>1
<1> QED
  BY <1>1, <1>2, <1>3

\* enqueueTask, called with a loose task, keeps the references single.
LEMMA EnqueueReferences ==
    ASSUME TypeInv, OneReference, NEW t \in Task, NEW r \in TaskRecord,
           place[t] \in {"free", "retry"}, EnqueueTask(t, r),
           UNCHANGED <<worker, held, probe, closed>>
    PROVE  OneReference'
<1> SUFFICES ASSUME ~closed PROVE QueuedOnce' /\ HeldOnce'
  BY DEF OneReference
<1>1. QueuedOnce /\ HeldOnce /\ QueueTypes
  BY DEF OneReference, TypeInv, TypeOK
<1>2. /\ \A i \in 1..Len(priorityQueue) : priorityQueue[i] # t
      /\ \A i \in 1..Len(normalQueue) : normalQueue[i] # t
      /\ \A w \in Worker : Executes(w) => held[w] # t /\ held[w] \in Task
  BY LooseTask
<1>3. CASE Send(t, r)
  <2>1. /\ task' = [task EXCEPT ![t] = r] /\ place' = [place EXCEPT ![t] = "queue"]
        /\ r.priority \in BOOLEAN
    BY <1>3 DEF Send, TaskRecord
  <2>2. HeldOnce'
    BY <1>1, <1>2, <2>1 DEF HeldOnce, Executes, QueueTypes
  <2>3. CASE r.priority /\ priorityQueue' = Append(priorityQueue, t) /\ UNCHANGED normalQueue
    <3>1. \A i \in 1..Len(priorityQueue') :
              /\ priorityQueue'[i] = t
                   \/ \E k \in 1..Len(priorityQueue) : priorityQueue'[i] = priorityQueue[k]
              /\ \A j \in 1..Len(priorityQueue') :
                    priorityQueue'[i] = priorityQueue'[j] => i = j
      <4>1. /\ priorityQueue \in Seq(Task)
            /\ \A i, j \in 1..Len(priorityQueue) : priorityQueue[i] = priorityQueue[j] => i = j
        BY <1>1 DEF QueuedOnce, QueueTypes
      <4> QED
        BY <1>2, <2>3, <4>1, AppendOnce
    <3>2. \A k \in 1..Len(priorityQueue) : priorityQueue[k] \in Task
      BY <1>1, ElementOfSeq DEF QueueTypes
    <3>3. \A k \in 1..Len(normalQueue) : normalQueue[k] \in Task
      BY <1>1, ElementOfSeq DEF QueueTypes
    <3>4. place'[t] = "queue" /\ task'[t].priority
      BY <1>1, <2>1, <2>3 DEF QueueTypes
    <3>5. ASSUME NEW k \in 1..Len(priorityQueue)
          PROVE  place'[priorityQueue[k]] = "queue" /\ task'[priorityQueue[k]].priority
      BY <1>1, <1>2, <2>1, <3>2 DEF QueuedOnce, QueueTypes
    <3>6. \A i \in 1..Len(priorityQueue') :
              place'[priorityQueue'[i]] = "queue" /\ task'[priorityQueue'[i]].priority
      BY <3>1, <3>4, <3>5
    <3>7. \A i \in 1..Len(normalQueue') :
              /\ place'[normalQueue'[i]] = "queue" /\ ~task'[normalQueue'[i]].priority
              /\ \A j \in 1..Len(normalQueue') :
                    normalQueue'[i] = normalQueue'[j] => i = j
      BY <1>1, <1>2, <2>1, <2>3, <3>3 DEF QueuedOnce, QueueTypes
    <3> QED
      BY <2>2, <3>1, <3>6, <3>7 DEF QueuedOnce
  <2>4. CASE ~r.priority /\ normalQueue' = Append(normalQueue, t) /\ UNCHANGED priorityQueue
    <3>1. \A i \in 1..Len(normalQueue') :
              /\ normalQueue'[i] = t
                   \/ \E k \in 1..Len(normalQueue) : normalQueue'[i] = normalQueue[k]
              /\ \A j \in 1..Len(normalQueue') :
                    normalQueue'[i] = normalQueue'[j] => i = j
      <4>1. /\ normalQueue \in Seq(Task)
            /\ \A i, j \in 1..Len(normalQueue) : normalQueue[i] = normalQueue[j] => i = j
        BY <1>1 DEF QueuedOnce, QueueTypes
      <4> QED
        BY <1>2, <2>4, <4>1, AppendOnce
    <3>2. \A k \in 1..Len(priorityQueue) : priorityQueue[k] \in Task
      BY <1>1, ElementOfSeq DEF QueueTypes
    <3>3. \A k \in 1..Len(normalQueue) : normalQueue[k] \in Task
      BY <1>1, ElementOfSeq DEF QueueTypes
    <3>4. \A i \in 1..Len(normalQueue') :
              place'[normalQueue'[i]] = "queue" /\ ~task'[normalQueue'[i]].priority
      BY <1>1, <2>1, <2>4, <3>1, <3>3 DEF QueuedOnce, QueueTypes
    <3>5. \A i \in 1..Len(priorityQueue') :
              /\ place'[priorityQueue'[i]] = "queue" /\ task'[priorityQueue'[i]].priority
              /\ \A j \in 1..Len(priorityQueue') :
                    priorityQueue'[i] = priorityQueue'[j] => i = j
      BY <1>1, <1>2, <2>1, <2>4, <3>2 DEF QueuedOnce, QueueTypes
    <3> QED
      BY <2>2, <3>1, <3>4, <3>5 DEF QueuedOnce
  <2> QED
    BY <1>3, <2>3, <2>4 DEF Send
<1>4. CASE LetGo(t, r)
  <2>1. /\ place' = [place EXCEPT ![t] = "free"] /\ task' = [task EXCEPT ![t] = Blank]
        /\ UNCHANGED <<priorityQueue, normalQueue>>
    BY <1>4 DEF LetGo, Release
  <2>2. HeldOnce'
    BY <1>1, <1>2, <2>1 DEF HeldOnce, Executes, QueueTypes
  <2>3. /\ \A k \in 1..Len(priorityQueue) : priorityQueue[k] \in Task
        /\ \A k \in 1..Len(normalQueue) : normalQueue[k] \in Task
    BY <1>1, ElementOfSeq DEF QueueTypes
  <2> QED
    BY <1>1, <1>2, <2>1, <2>2, <2>3 DEF QueuedOnce, QueueTypes
<1>5. CASE UNCHANGED queueVars
  BY <1>1, <1>5 DEF QueuedOnce, HeldOnce, Executes, queueVars
<1> QED
  BY <1>3, <1>4, <1>5 DEF EnqueueTask

\* A worker that receives the head of a channel takes the reference over.
LEMMA ReceivesReferences ==
    ASSUME TypeInv, OneReference, ~closed, NEW w \in Worker, NEW t \in Task,
           worker[w] \in {"top", "select", "leaving"}, place[t] = "queue", Receives(w, t),
           UNCHANGED probe
    PROVE  HeldOnce'
<1>1. HeldOnce /\ HoldsTask /\ QueueTypes /\ PoolTypes
  BY DEF OneReference, TypeInv, TypeOK
<1>2. /\ held' = [held EXCEPT ![w] = t]
      /\ place' = [place EXCEPT ![t] = "worker"]
      /\ worker' = [worker EXCEPT ![w] = "check"]
  BY DEF Receives
<1>3. probe[w] = "none" /\ \A v \in Worker : probe[v] \in ProbePcs
  BY <1>1 DEF HoldsTask, PoolTypes
<1>4. \A v \in Worker : Executes(v) => held[v] # t /\ held[v] \in Task
  BY <1>1, <1>3 DEF HeldOnce, HoldsTask, Executes, ProbePcs
<1>5. \A v \in Worker \ {w} :
          worker'[v] = worker[v] /\ held'[v] = held[v] /\ (Executes(v)' <=> Executes(v))
  BY <1>1, <1>2 DEF PoolTypes, Executes
<1>6. worker'[w] = "check" /\ held'[w] = t /\ probe'[w] = "none"
  BY <1>1, <1>2, <1>3 DEF PoolTypes
<1>7. place'[t] = "worker" /\ \A u \in Task \ {t} : place'[u] = place[u]
  BY <1>1, <1>2 DEF QueueTypes
<1>8. ASSUME NEW v \in Worker
      PROVE  /\ worker'[v] # "exited"
             /\ worker'[v] = "check" \/ probe'[v] \in {"run", "apply"}
                   => place'[held'[v]] = "worker"
             /\ probe'[v] = "reply" => place'[held'[v]] = "applied"
             /\ probe'[v] = "done" => place'[held'[v]] = "answered"
  <2>1. CASE v = w
    BY <1>6, <1>7, <2>1
  <2>2. CASE v # w
    BY <1>1, <1>4, <1>5, <1>7, <2>2 DEF HeldOnce, Executes
  <2> QED
    BY <2>1, <2>2
<1>9. ASSUME NEW u \in Worker, NEW v \in Worker,
             Executes(u)', Executes(v)', held'[u] = held'[v]
      PROVE  u = v
  BY <1>1, <1>4, <1>5, <1>6, <1>9 DEF HeldOnce
<1> QED
  BY <1>8, <1>9 DEF HeldOnce

\* The object of a worker that executes is in no channel and with nobody else, so
\* the worker may move it, or drop it when it stops.
LEMMA WorkerMovesOwn ==
    ASSUME TypeInv, OneReference, ~closed, NEW w \in Worker, Executes(w),
           worker' \in [Worker -> WorkerPcs],
           \A v \in Worker \ {w} : /\ worker'[v] = worker[v] /\ held'[v] = held[v]
                                   /\ probe'[v] = probe[v],
           place' \in [Task -> Places], place'[held[w]] # "queue",
           \A u \in Task \ {held[w]} : place'[u] = place[u] /\ task'[u] = task[u],
           UNCHANGED <<priorityQueue, normalQueue>>,
           worker'[w] # "exited",
           ~Executes(w)' \/
              /\ held'[w] = held[w]
              /\ worker'[w] = "check" \/ probe'[w] \in {"run", "apply"}
                    => place'[held[w]] = "worker"
              /\ probe'[w] = "reply" => place'[held[w]] = "applied"
              /\ probe'[w] = "done" => place'[held[w]] = "answered"
    PROVE  QueuedOnce' /\ HeldOnce'
<1>1. QueuedOnce /\ HeldOnce /\ HoldsTask /\ QueueTypes /\ PoolTypes
  BY DEF OneReference, TypeInv, TypeOK
<1>2. \A v \in Worker : Executes(v) => held[v] \in Task /\ place[held[v]] # "queue"
  BY <1>1 DEF HeldOnce, HoldsTask, Executes, PoolTypes, ProbePcs
<1>3. /\ \A i \in 1..Len(priorityQueue) :
            priorityQueue[i] \in Task \ {held[w]}
      /\ \A i \in 1..Len(normalQueue) : normalQueue[i] \in Task \ {held[w]}
  BY <1>1, <1>2, ElementOfSeq DEF QueuedOnce, QueueTypes
<1>4. QueuedOnce'
  BY <1>1, <1>3 DEF QueuedOnce
<1>5. \A v \in Worker \ {w} : /\ Executes(v)' <=> Executes(v)
                              /\ Executes(v) => held[v] \in Task \ {held[w]}
  BY <1>1, <1>2 DEF HeldOnce, Executes
<1>6. ASSUME NEW v \in Worker
      PROVE  /\ worker'[v] # "exited"
             /\ worker'[v] = "check" \/ probe'[v] \in {"run", "apply"}
                   => place'[held'[v]] = "worker"
             /\ probe'[v] = "reply" => place'[held'[v]] = "applied"
             /\ probe'[v] = "done" => place'[held'[v]] = "answered"
  <2>1. CASE v = w
    BY <2>1 DEF Executes
  <2>2. CASE v # w
    BY <1>1, <1>5, <2>2 DEF HeldOnce, Executes
  <2> QED
    BY <2>1, <2>2
<1>7. ASSUME NEW u \in Worker, NEW v \in Worker,
             Executes(u)', Executes(v)', held'[u] = held'[v]
      PROVE  u = v
  BY <1>1, <1>5, <1>7 DEF HeldOnce
<1> QED
  BY <1>4, <1>6, <1>7 DEF HeldOnce

\* What remains in the two channels when a worker has taken the head of one.
LEMMA TakeReferences ==
    ASSUME TypeInv, OneReference, ~closed, NEW w \in Worker,
           TakePriority(w) \/ TakeNormal(w)
    PROVE  QueuedOnce' /\ HeldOnce'
<1>1. QueuedOnce /\ QueueTypes
  BY DEF OneReference, TypeInv, TypeOK
<1>2. /\ \A i \in 1..Len(priorityQueue) : priorityQueue[i] \in Task
      /\ \A i \in 1..Len(normalQueue) : normalQueue[i] \in Task
      /\ \A i, j \in 1..Len(priorityQueue) : priorityQueue[i] = priorityQueue[j] => i = j
      /\ \A i, j \in 1..Len(normalQueue) : normalQueue[i] = normalQueue[j] => i = j
  BY <1>1, ElementOfSeq DEF QueuedOnce, QueueTypes
<1>3. CASE TakePriority(w)
  <2> DEFINE t == Head(priorityQueue)
  <2>1. /\ worker[w] \in {"top", "select", "leaving"} /\ Receives(w, t) /\ priorityQueue # <<>>
        /\ priorityQueue' = Tail(priorityQueue)
        /\ UNCHANGED <<normalQueue, probe>>
    BY <1>3 DEF TakePriority
  <2>2. /\ \A i \in 1..Len(priorityQueue') :
              \E k \in 1..Len(priorityQueue) : priorityQueue'[i] = priorityQueue[k]
        /\ \A i \in 1..Len(priorityQueue') : priorityQueue'[i] # t
        /\ \A i, j \in 1..Len(priorityQueue') :
              priorityQueue'[i] = priorityQueue'[j] => i = j
    <3>1. priorityQueue \in Seq(Task)
      BY <1>1 DEF QueueTypes
    <3>2. \A k, j \in 1..Len(priorityQueue) : priorityQueue[k] = priorityQueue[j] => k = j
      BY <1>2
    <3> QED
      BY <2>1, <3>1, <3>2, TailOnce
  <2>3. t = priorityQueue[1] /\ 1 \in 1..Len(priorityQueue)
    BY <1>1, <2>1, EmptySeq DEF QueueTypes
  <2>4. t \in Task /\ place[t] = "queue" /\ task[t].priority
    BY <1>1, <1>2, <2>3 DEF QueuedOnce
  <2>5. HeldOnce'
    BY <2>1, <2>4, ReceivesReferences
  <2>6. place' = [place EXCEPT ![t] = "worker"] /\ UNCHANGED task
    BY <2>1 DEF Receives
  <2>7. \A i \in 1..Len(normalQueue) : normalQueue[i] # t
    BY <1>1, <2>4 DEF QueuedOnce
  <2>8. QueuedOnce'
    BY <1>1, <1>2, <2>1, <2>2, <2>6, <2>7 DEF QueuedOnce, QueueTypes
  <2> QED
    BY <2>5, <2>8
<1>4. CASE TakeNormal(w)
  <2> DEFINE t == Head(normalQueue)
  <2>1. /\ worker[w] \in {"top", "select"} /\ Receives(w, t) /\ normalQueue # <<>>
        /\ normalQueue' = Tail(normalQueue)
        /\ UNCHANGED <<priorityQueue, probe>>
    BY <1>4 DEF TakeNormal
  <2>2. /\ \A i \in 1..Len(normalQueue') :
              \E k \in 1..Len(normalQueue) : normalQueue'[i] = normalQueue[k]
        /\ \A i \in 1..Len(normalQueue') : normalQueue'[i] # t
        /\ \A i, j \in 1..Len(normalQueue') : normalQueue'[i] = normalQueue'[j] => i = j
    <3>1. normalQueue \in Seq(Task)
      BY <1>1 DEF QueueTypes
    <3>2. \A k, j \in 1..Len(normalQueue) : normalQueue[k] = normalQueue[j] => k = j
      BY <1>2
    <3> QED
      BY <2>1, <3>1, <3>2, TailOnce
  <2>3. t = normalQueue[1] /\ 1 \in 1..Len(normalQueue)
    BY <1>1, <2>1, EmptySeq DEF QueueTypes
  <2>4. t \in Task /\ place[t] = "queue" /\ ~task[t].priority
    BY <1>1, <1>2, <2>3 DEF QueuedOnce
  <2>5. HeldOnce'
    BY <2>1, <2>4, ReceivesReferences
  <2>6. place' = [place EXCEPT ![t] = "worker"] /\ UNCHANGED task
    BY <2>1 DEF Receives
  <2>7. \A i \in 1..Len(priorityQueue) : priorityQueue[i] # t
    BY <1>1, <2>4 DEF QueuedOnce
  <2>8. QueuedOnce'
    BY <1>1, <1>2, <2>1, <2>2, <2>6, <2>7 DEF QueuedOnce, QueueTypes
  <2> QED
    BY <2>5, <2>8
<1> QED
  BY <1>3, <1>4

\* A worker that moves between the points of its loop holds nothing.
LEMMA LoopReferences ==
    ASSUME OneReference, ~closed, NEW w \in Worker, EnterSelect(w)
    PROVE  QueuedOnce' /\ HeldOnce'
<1>1. /\ worker[w] = "top" /\ worker' = [worker EXCEPT ![w] = "select"]
      /\ UNCHANGED <<task, place, priorityQueue, normalQueue, held, probe>>
  BY DEF EnterSelect, queueVars
<1> QED
  BY <1>1 DEF OneReference, QueuedOnce, HeldOnce, Executes

\* Workers and their test goroutines keep the references single.
LEMMA WorkerReferences ==
    ASSUME TypeInv, OneReference, NEW w \in Worker, WorkerStep(w) \/ ProbeStep(w)
    PROVE  OneReference'
<1> SUFFICES ASSUME ~closed PROVE QueuedOnce' /\ HeldOnce'
  <2>1. closed' = closed
    BY DEF WorkerStep, TakePriority, EnterSelect, TakeNormal, WorkerExit, Postpone,
       StartProbe, FinishTask, AbandonTask, ProbeStep, ProbeReturns, ApplyResult, Reply
  <2> QED
    BY <2>1 DEF OneReference
<1>1. HeldOnce /\ HoldsTask /\ QueueTypes' /\ PoolTypes' /\ QueueTypes /\ PoolTypes
  <2>1. TypeInv'
    <3>1. Changes \subseteq BOOLEAN
      BY MonitorAssumption
    <3> QED
      BY <3>1, TakePriorityType, EnterSelectType, TakeNormalType, WorkerExitType,
         PostponeType, StartProbeType, FinishTaskType, AbandonTaskType,
         ProbeReturnsType, ApplyResultType, ReplyType DEF WorkerStep, ProbeStep
  <2> QED
    BY <2>1 DEF OneReference, TypeInv, TypeOK
<1>2. CASE TakePriority(w) \/ TakeNormal(w)
  BY <1>2, TakeReferences
<1>3. CASE EnterSelect(w)
  BY <1>3, LoopReferences
<1>4. CASE WorkerExit(w) \/ AbandonTask(w)
  BY <1>4 DEF WorkerExit, AbandonTask
<1>5. CASE Postpone(w)
  <2>1. Executes(w) /\ held[w] \in Task /\ probe[w] = "none" /\ ~Executes(w)'
    BY <1>1, <1>5 DEF Postpone, Executes, HoldsTask, PoolTypes
  <2> QED
    BY <1>1, <1>5, <2>1, WorkerMovesOwn DEF Postpone, PoolTypes, QueueTypes
<1>6. CASE StartProbe(w)
  <2>1. Executes(w) /\ held[w] \in Task /\ place[held[w]] = "worker"
    BY <1>1, <1>6 DEF StartProbe, Executes, HoldsTask, HeldOnce
  <2> QED
    BY <1>1, <1>6, <2>1, WorkerMovesOwn DEF StartProbe, PoolTypes, QueueTypes, queueVars
<1>7. CASE FinishTask(w)
  <2>1. Executes(w) /\ held[w] \in Task /\ ~Executes(w)'
    BY <1>1, <1>7 DEF FinishTask, Executes, HoldsTask, PoolTypes
  <2> QED
    BY <1>1, <1>7, <2>1, WorkerMovesOwn DEF FinishTask, Release, PoolTypes, QueueTypes
<1>8. ASSUME NEW ok \in BOOLEAN, ProbeReturns(w, ok)
      PROVE  QueuedOnce' /\ HeldOnce'
  <2>1. /\ Executes(w) /\ held[w] \in Task /\ place[held[w]] = "worker"
        /\ probe'[w] = "apply" /\ worker[w] # "check"
    BY <1>1, <1>8 DEF ProbeReturns, Executes, HoldsTask, HeldOnce, PoolTypes
  <2> QED
    BY <1>1, <1>8, <2>1, WorkerMovesOwn DEF ProbeReturns, PoolTypes, QueueTypes,
       queueVars, HeldOnce
<1>9. ASSUME NEW changed \in Changes, ApplyResult(w, changed)
      PROVE  QueuedOnce' /\ HeldOnce'
  <2>1. /\ Executes(w) /\ held[w] \in Task /\ worker[w] # "check"
        /\ probe'[w] = "reply" /\ place'[held[w]] = "applied"
    BY <1>1, <1>9 DEF ApplyResult, Executes, HoldsTask, PoolTypes, QueueTypes
  <2> QED
    BY <1>1, <1>9, <2>1, WorkerMovesOwn DEF ApplyResult, PoolTypes, QueueTypes, HeldOnce
<1>10. CASE Reply(w)
  <2>1. /\ Executes(w) /\ held[w] \in Task /\ worker[w] # "check"
        /\ probe'[w] = "done" /\ place'[held[w]] = "answered"
    BY <1>1, <1>10 DEF Reply, Executes, HoldsTask, PoolTypes, QueueTypes
  <2> QED
    BY <1>1, <1>10, <2>1, WorkerMovesOwn DEF Reply, PoolTypes, QueueTypes, HeldOnce
<1> QED
  BY <1>2, <1>3, <1>4, <1>5, <1>6, <1>7, <1>8, <1>9, <1>10 DEF WorkerStep, ProbeStep

\* A free object that a new task takes is loose.
LEMMA EnqueueNewReferences ==
    ASSUME TypeInv, OneReference, NEW r \in TaskRecord, EnqueueNew(r),
           UNCHANGED <<worker, held, probe, closed>>
    PROVE  OneReference'
<1> DEFINE t == CHOOSE u \in Free : TRUE
<1>1. t \in Task /\ place[t] = "free" /\ EnqueueTask(t, r)
  BY DEF EnqueueNew, Free
<1> QED
  BY <1>1, EnqueueReferences

\* No step makes a second reference to a task object.
LEMMA NextReferences == TypeInv /\ OneReference /\ [Next]_vars => OneReference'
<1> SUFFICES ASSUME TypeInv, OneReference, [Next]_vars PROVE OneReference'
  OBVIOUS
<1> USE DEF queueVars, poolVars
<1>1. CASE CallStep
  <2>1. ASSUME NEW c \in Caller, NEW x \in Tag, TestNow(c, x) \/ InvalidateTest(c, x)
        PROVE  OneReference'
    BY <2>1, ReferencesUnmoved DEF TestNow, InvalidateTest
  <2>2. ASSUME NEW c \in Thread, NEW r \in todo[c], CallEnqueue(c, r)
        PROVE  OneReference'
    <3>1. NewTask(r.tag, cycleSeq, r.priority, 0) \in TaskRecord
      BY DEF TypeInv, TypeOK, CallTypes, CycleTypes, Request, NewTask, TaskRecord
    <3>2. /\ EnqueueNew(NewTask(r.tag, cycleSeq, r.priority, 0))
          /\ UNCHANGED <<worker, held, probe, closed>>
      BY <2>2 DEF CallEnqueue
    <3> QED
      BY <3>1, <3>2, EnqueueNewReferences
  <2> QED
    BY <1>1, <2>1, <2>2 DEF CallStep
<1>2. CASE ReadyStep
  BY <1>2, ReferencesUnmoved DEF ReadyStep, BecomeReady, LoseReady
<1>3. ASSUME NEW w \in Worker, WorkerStep(w) \/ ProbeStep(w)
      PROVE  OneReference'
  BY <1>3, WorkerReferences
<1>4. ASSUME NEW t \in Task, Retry(t)
      PROVE  OneReference'
  <2>1. CASE closed
    BY <1>4, <2>1 DEF Retry, OneReference
  <2>2. CASE ~closed
    <3>1. task[t] \in TaskRecord
      BY DEF TypeInv, TypeOK, QueueTypes
    <3>2. [task[t] EXCEPT !.cycle = @ + 1] \in TaskRecord
      BY <3>1 DEF TaskRecord
    <3> QED
      BY <1>4, <2>2, <3>2, EnqueueReferences DEF Retry
  <2> QED
    BY <2>1, <2>2
<1>5. CASE StartCycleOnce \/ Close
  BY <1>5, ReferencesUnmoved DEF StartCycleOnce, Close, OneReference
<1>6. CASE CycleStep
  <2>1. ASSUME NEW o \in Tag, EnqueueStage(o)
        PROVE  OneReference'
    <3>1. NewTask(o, cycleSeq, FALSE, stage) \in TaskRecord
      BY DEF TypeInv, TypeOK, CycleTypes, NewTask, TaskRecord
    <3>2. /\ EnqueueNew(NewTask(o, cycleSeq, FALSE, stage))
          /\ UNCHANGED <<worker, held, probe, closed>>
      BY <2>1 DEF EnqueueStage
    <3> QED
      BY <3>1, <3>2, EnqueueNewReferences
  <2>2. CASE \/ BeginCycle \/ EndCollect \/ Receive \/ AbandonStage \/ NextStage
             \/ EndCycle \/ \E o \in Tag : Collect(o) \/ SaveOne(o)
    BY <2>2, ReferencesUnmoved DEF BeginCycle, EndCollect, Receive, AbandonStage,
       NextStage, EndCycle, Collect, SaveOne
  <2> QED
    BY <1>6, <2>1, <2>2 DEF CycleStep
<1>7. CASE UNCHANGED vars
  BY <1>7, ReferencesUnmoved DEF vars
<1> QED
  BY <1>1, <1>2, <1>3, <1>4, <1>5, <1>6, <1>7 DEF Next

\* No task is executed twice: while the monitor is open a task object is in one
\* channel, or with one worker, or with one retry goroutine.
THEOREM SingleReference == Spec => []OneReference
<1>1. Init => OneReference
  BY DEF Init, OneReference, QueuedOnce, HeldOnce, Executes
<1> QED
  BY <1>1, NextReferences, TypeCorrect, PTL DEF Spec

-----------------------------------------------------------------------------
(***************************************************************************)
(* The flags.  A flag is covered when a task of its kind is under way or   *)
(* was let go.                                                             *)
(***************************************************************************)
Covered(o, p) ==
    \/ \E t \in Pending : task[t].tag = o /\ task[t].priority = p
    \/ \E l \in lost : l.tag = o /\ l.priority = p

FlagsCovered ==
    ~closed => \A o \in Tag : /\ priorityQueued[o] => Covered(o, TRUE)
                              /\ queued[o] => Covered(o, FALSE)

\* A step that takes no task out of Pending, and sets no flag.
LEMMA CoveredKept ==
    ASSUME TypeInv, FlagsCovered, ~closed,
           UNCHANGED <<queued, priorityQueued>>,
           \A t \in Pending : /\ t \in Pending'
                              /\ task'[t].tag = task[t].tag
                              /\ task'[t].priority = task[t].priority,
           lost \subseteq lost'
    PROVE  FlagsCovered'
BY DEF FlagsCovered, Covered

\* enqueueTask sets a flag only together with a task that covers it.
LEMMA EnqueueCovered ==
    ASSUME TypeInv, FlagsCovered, ~closed, NEW t \in Task, NEW r \in TaskRecord,
           EnqueueTask(t, r),
           \/ place[t] = "free"
           \/ place[t] = "retry" /\ r.tag = task[t].tag /\ r.priority = task[t].priority
    PROVE  FlagsCovered'
<1>1. QueueTypes /\ FlagTypes
  BY DEF TypeInv, TypeOK
<1>2. r.tag \in Tag /\ r.priority \in BOOLEAN
  BY DEF TaskRecord
<1>3. \A u \in Pending : u \in Task /\ (u # t \/ place[t] = "retry")
  BY DEF Pending
<1>4. ASSUME Send(t, r)
      PROVE  /\ \A o \in Tag, p \in BOOLEAN : Covered(o, p) => Covered(o, p)'
             /\ Covered(r.tag, r.priority)'
  <2>1. t \in Pending' /\ task'[t] = r /\ lost' = lost
    BY <1>1, <1>4 DEF Send, Pending, QueueTypes
  <2>2. \A u \in Pending \ {t} : u \in Pending' /\ task'[u] = task[u]
    BY <1>1, <1>4 DEF Send, Pending, QueueTypes
  <2>3. Covered(r.tag, r.priority)'
    BY <2>1 DEF Covered
  <2>4. ASSUME NEW o \in Tag, NEW p \in BOOLEAN, Covered(o, p)
        PROVE  Covered(o, p)'
    <3>1. CASE \E l \in lost : l.tag = o /\ l.priority = p
      BY <2>1, <3>1 DEF Covered
    <3>2. ASSUME NEW u \in Pending, task[u].tag = o, task[u].priority = p
          PROVE  Covered(o, p)'
      <4>1. CASE u # t
        BY <2>2, <3>2, <4>1 DEF Covered
      <4>2. CASE u = t
        BY <1>3, <2>1, <3>2, <4>2 DEF Covered
      <4> QED
        BY <4>1, <4>2
    <3> QED
      BY <2>4, <3>1, <3>2 DEF Covered
  <2> QED
    BY <2>3, <2>4
<1>5. ASSUME LetGo(t, r)
      PROVE  /\ \A o \in Tag, p \in BOOLEAN : Covered(o, p) => Covered(o, p)'
             /\ Covered(r.tag, r.priority)'
  <2> DEFINE l == [tag |-> r.tag, priority |-> r.priority,
                   stage |-> IF place[t] = "retry" THEN r.stage ELSE 0]
  <2>1. l \in lost' /\ lost \subseteq lost'
    BY <1>5 DEF LetGo
  <2>2. l.tag = r.tag /\ l.priority = r.priority
    OBVIOUS
  <2>3. Covered(r.tag, r.priority)'
    BY <2>1, <2>2 DEF Covered
  <2>4. \A u \in Pending \ {t} : u \in Pending' /\ task'[u] = task[u]
    BY <1>1, <1>5 DEF LetGo, Release, Pending, QueueTypes
  <2>5. ASSUME NEW o \in Tag, NEW p \in BOOLEAN, Covered(o, p)
        PROVE  Covered(o, p)'
    <3>1. CASE \E k \in lost : k.tag = o /\ k.priority = p
      BY <2>1, <3>1 DEF Covered
    <3>2. ASSUME NEW u \in Pending, task[u].tag = o, task[u].priority = p
          PROVE  Covered(o, p)'
      <4>1. CASE u # t
        BY <2>4, <3>2, <4>1 DEF Covered
      <4>2. CASE u = t
        BY <1>3, <2>3, <3>2, <4>2
      <4> QED
        BY <4>1, <4>2
    <3> QED
      BY <2>5, <3>1, <3>2 DEF Covered
  <2> QED
    BY <2>3, <2>5
<1>6. ASSUME SetFlags(r)
      PROVE  \A o \in Tag : /\ priorityQueued'[o] =>
                                 priorityQueued[o] \/ (o = r.tag /\ r.priority = TRUE)
                            /\ queued'[o] => queued[o] \/ (o = r.tag /\ r.priority = FALSE)
  BY <1>1, <1>2, <1>6 DEF SetFlags, FlagTypes
<1>7. CASE SetFlags(r) /\ (Send(t, r) \/ LetGo(t, r))
  BY <1>4, <1>5, <1>6, <1>7 DEF FlagsCovered
<1>8. CASE UNCHANGED flagVars /\ LetGo(t, r)
  BY <1>5, <1>8 DEF FlagsCovered, flagVars
<1>9. CASE UNCHANGED flagVars /\ UNCHANGED queueVars
  BY <1>9 DEF FlagsCovered, Covered, Pending, flagVars, queueVars
<1> QED
  BY <1>7, <1>8, <1>9 DEF EnqueueTask

\* A new task.
LEMMA EnqueueNewCovered ==
    ASSUME TypeInv, FlagsCovered, ~closed, NEW r \in TaskRecord, EnqueueNew(r)
    PROVE  FlagsCovered'
<1> DEFINE t == CHOOSE u \in Free : TRUE
<1>1. t \in Task /\ place[t] = "free" /\ EnqueueTask(t, r)
  BY DEF EnqueueNew, Free
<1> QED
  BY <1>1, EnqueueCovered

\* Workers and tests: a result takes its task out of Pending and clears the flags
\* of its outbound; nothing else takes a task out of it.
LEMMA WorkerCovered ==
    ASSUME TypeInv, OneReference, FlagsCovered, ~closed, NEW w \in Worker,
           WorkerStep(w) \/ ProbeStep(w)
    PROVE  FlagsCovered'
<1>1. QueueTypes /\ FlagTypes /\ PoolTypes /\ HoldsTask /\ QueuedOnce /\ HeldOnce
  BY DEF TypeInv, TypeOK, OneReference
<1> USE DEF Pending
<1>2. ASSUME NEW t \in Task, Receives(w, t), place[t] = "queue",
             UNCHANGED <<flagVars, lost>>
      PROVE  FlagsCovered'
  BY <1>1, <1>2, CoveredKept DEF Receives, QueueTypes, flagVars
<1>3. CASE TakePriority(w)
  <2>1. /\ Head(priorityQueue) \in Task /\ place[Head(priorityQueue)] = "queue"
    <3>1. Head(priorityQueue) = priorityQueue[1] /\ 1 \in 1..Len(priorityQueue)
      BY <1>1, <1>3, EmptySeq DEF TakePriority, QueueTypes
    <3> QED
      BY <1>1, <3>1, ElementOfSeq DEF QueuedOnce, QueueTypes
  <2> QED
    BY <1>2, <1>3, <2>1 DEF TakePriority
<1>4. CASE TakeNormal(w)
  <2>1. /\ Head(normalQueue) \in Task /\ place[Head(normalQueue)] = "queue"
    <3>1. Head(normalQueue) = normalQueue[1] /\ 1 \in 1..Len(normalQueue)
      BY <1>1, <1>4, EmptySeq DEF TakeNormal, QueueTypes
    <3> QED
      BY <1>1, <3>1, ElementOfSeq DEF QueuedOnce, QueueTypes
  <2> QED
    BY <1>2, <1>4, <2>1 DEF TakeNormal
<1>5. CASE EnterSelect(w) \/ WorkerExit(w) \/ StartProbe(w) \/ AbandonTask(w)
  BY <1>5, CoveredKept DEF EnterSelect, WorkerExit, StartProbe, AbandonTask,
     stateVars, flagVars, queueVars
<1>6. CASE Postpone(w)
  BY <1>1, <1>6, CoveredKept DEF Postpone, QueueTypes, flagVars
<1>7. CASE FinishTask(w)
  <2>1. held[w] \notin Pending /\ lost' = lost
    BY <1>1, <1>7 DEF FinishTask, HeldOnce
  <2> QED
    BY <1>1, <1>7, <2>1, CoveredKept DEF FinishTask, Release, QueueTypes, flagVars
<1>8. ASSUME NEW ok \in BOOLEAN, ProbeReturns(w, ok)
      PROVE  FlagsCovered'
  BY <1>8, CoveredKept DEF ProbeReturns, stateVars, flagVars, queueVars
<1>9. ASSUME NEW changed \in Changes, ApplyResult(w, changed)
      PROVE  FlagsCovered'
  <2> DEFINE o == task[held[w]].tag
  <2>1. /\ held[w] \in Task /\ o \in Tag
        /\ priorityQueued' = [priorityQueued EXCEPT ![o] = FALSE]
        /\ queued' = [queued EXCEPT ![o] = FALSE]
        /\ place' = [place EXCEPT ![held[w]] = "applied"] /\ task' = task
        /\ \A l \in lost : l.tag # o => l \in lost'
    BY <1>1, <1>9 DEF ApplyResult, ClearFlags, Held, HoldsTask, QueueTypes, TaskRecord
  <2>2. ~priorityQueued'[o] /\ ~queued'[o]
    BY <1>1, <2>1 DEF FlagTypes
  <2>3. ASSUME NEW q \in Tag \ {o}, NEW p \in BOOLEAN, Covered(q, p)
        PROVE  Covered(q, p)'
    <3>1. CASE \E l \in lost : l.tag = q /\ l.priority = p
      BY <2>1, <3>1 DEF Covered
    <3>2. ASSUME NEW u \in Pending, task[u].tag = q, task[u].priority = p
          PROVE  Covered(q, p)'
      <4>1. u # held[w] /\ u \in Pending'
        BY <1>1, <2>1, <3>2 DEF QueueTypes
      <4> QED
        BY <2>1, <3>2, <4>1 DEF Covered
    <3> QED
      BY <2>3, <3>1, <3>2 DEF Covered
  <2>4. \A q \in Tag \ {o} : priorityQueued'[q] = priorityQueued[q] /\ queued'[q] = queued[q]
    BY <1>1, <2>1 DEF FlagTypes
  <2> QED
    BY <2>2, <2>3, <2>4 DEF FlagsCovered
<1>10. CASE Reply(w)
  <2>1. held[w] \notin Pending /\ lost' = lost
    BY <1>1, <1>10 DEF Reply, HeldOnce
  <2> QED
    BY <1>1, <1>10, <2>1, CoveredKept DEF Reply, QueueTypes, stateVars, flagVars
<1> QED
  BY <1>3, <1>4, <1>5, <1>6, <1>7, <1>8, <1>9, <1>10 DEF WorkerStep, ProbeStep

\* No step leaves a flag uncovered.
LEMMA NextCovered ==
    TypeInv /\ OneReference /\ FlagsCovered /\ [Next]_vars => FlagsCovered'
<1> SUFFICES ASSUME TypeInv, OneReference, FlagsCovered, [Next]_vars, ~closed
             PROVE  FlagsCovered'
  <2>1. closed /\ [Next]_vars => closed'
    BY DEF Next, vars, CallStep, TestNow, InvalidateTest, CallEnqueue, ReadyStep,
       BecomeReady, LoseReady, WorkerStep, TakePriority, EnterSelect, TakeNormal,
       WorkerExit, Postpone, StartProbe, FinishTask, AbandonTask, ProbeStep,
       ProbeReturns, ApplyResult, Reply, Retry, StartCycleOnce, CycleStep,
       BeginCycle, EndCollect, Receive, AbandonStage, NextStage, EndCycle, Collect,
       EnqueueStage, SaveOne, Close
  <2> QED
    BY <2>1 DEF FlagsCovered
<1> USE DEF stateVars, flagVars, queueVars
<1>1. ASSUME UNCHANGED <<queued, priorityQueued, task, place, lost>>
      PROVE  FlagsCovered'
  BY <1>1, CoveredKept DEF Pending
<1>2. CASE CallStep
  <2>1. ASSUME NEW c \in Caller, NEW x \in Tag, TestNow(c, x) \/ InvalidateTest(c, x)
        PROVE  FlagsCovered'
    BY <1>1, <2>1 DEF TestNow, InvalidateTest
  <2>2. ASSUME NEW c \in Thread, NEW r \in todo[c], CallEnqueue(c, r)
        PROVE  FlagsCovered'
    <3>1. NewTask(r.tag, cycleSeq, r.priority, 0) \in TaskRecord
      BY DEF TypeInv, TypeOK, CallTypes, CycleTypes, Request, NewTask, TaskRecord
    <3>2. EnqueueNew(NewTask(r.tag, cycleSeq, r.priority, 0))
      BY <2>2 DEF CallEnqueue
    <3> QED
      BY <3>1, <3>2, EnqueueNewCovered
  <2> QED
    BY <1>2, <2>1, <2>2 DEF CallStep
<1>3. CASE ReadyStep
  BY <1>1, <1>3 DEF ReadyStep, BecomeReady, LoseReady
<1>4. ASSUME NEW w \in Worker, WorkerStep(w) \/ ProbeStep(w)
      PROVE  FlagsCovered'
  BY <1>4, WorkerCovered
<1>5. ASSUME NEW t \in Task, Retry(t)
      PROVE  FlagsCovered'
  <2> DEFINE r == [task[t] EXCEPT !.cycle = @ + 1]
  <2>1. task[t] \in TaskRecord
    BY DEF TypeInv, TypeOK, QueueTypes
  <2>2. r \in TaskRecord /\ r.tag = task[t].tag /\ r.priority = task[t].priority
    BY <2>1 DEF TaskRecord
  <2>3. place[t] = "retry" /\ EnqueueTask(t, r)
    BY <1>5 DEF Retry
  <2> HIDE DEF r
  <2> QED
    BY <2>2, <2>3, EnqueueCovered
<1>6. CASE StartCycleOnce \/ Close
  BY <1>1, <1>6 DEF StartCycleOnce, Close
<1>7. CASE CycleStep
  <2>1. ASSUME NEW o \in Tag, EnqueueStage(o)
        PROVE  FlagsCovered'
    <3>1. NewTask(o, cycleSeq, FALSE, stage) \in TaskRecord
      BY DEF TypeInv, TypeOK, CycleTypes, NewTask, TaskRecord
    <3>2. EnqueueNew(NewTask(o, cycleSeq, FALSE, stage))
      BY <2>1 DEF EnqueueStage
    <3> QED
      BY <3>1, <3>2, EnqueueNewCovered
  <2>2. CASE \/ BeginCycle \/ EndCollect \/ Receive \/ AbandonStage \/ NextStage
             \/ EndCycle \/ \E o \in Tag : Collect(o) \/ SaveOne(o)
    BY <1>1, <2>2 DEF BeginCycle, EndCollect, Receive, AbandonStage, NextStage,
       EndCycle, Collect, SaveOne
  <2> QED
    BY <1>7, <2>1, <2>2 DEF CycleStep
<1>8. CASE UNCHANGED vars
  BY <1>1, <1>8 DEF vars
<1> QED
  BY <1>2, <1>3, <1>4, <1>5, <1>6, <1>7, <1>8 DEF Next

\* The cycle skips an outbound only while a test of it is under way or one was let
\* go by a full channel or a refused retry: no other interleaving of workers,
\* callers, retries and results leaves a flag behind.
THEOREM SkippedOutboundsPending == Spec => []SkippedMeansPending
<1>1. Init => FlagsCovered
  BY DEF Init, FlagsCovered
<1>2. TypeInv /\ FlagsCovered => SkippedMeansPending
  BY DEF FlagsCovered, Covered, SkippedMeansPending, TypeInv, TypeOK, QueueTypes, Pending
<1>3. Spec => []FlagsCovered
  BY <1>1, NextCovered, TypeCorrect, SingleReference, PTL DEF Spec
<1> QED
  BY <1>2, <1>3, TypeCorrect, PTL

-----------------------------------------------------------------------------
(***************************************************************************)
(* The fork and join of a stage while the monitor is open: an outbound is  *)
(* asked once in a stage, so each answer takes one outbound off the set of *)
(* those that are outstanding, and the result channel has room for it.     *)
(***************************************************************************)
OwedTasks == {t \in Unanswered : task[t].stage = stage}
OwedLost  == {l \in lost : l.stage = stage}

\* No task is of a stage to come.
StagesPast ==
    /\ \A t \in Task : task[t].stage <= stage
    /\ \A l \in lost : l.stage <= stage

\* An outbound owes the stage one answer at most.
AsksOnce ==
    /\ \A t, u \in OwedTasks : task[t].tag = task[u].tag => t = u
    /\ \A t \in OwedTasks : \A l \in OwedLost : task[t].tag # l.tag

\* The loop over tags asks each outbound that it has not reached, and the result
\* channel has a place for every outbound.
AsksAhead ==
    /\ cycle = "enqueue" =>
          /\ toVisit \subseteq tags
          /\ toVisit \cap Outstanding = {}
          /\ expected + Cardinality(toVisit) <= Cardinality(tags)
    /\ cycle = "wait" => expected <= Cardinality(tags)

StageInv ==
    ~closed =>
        /\ StagesPast
        /\ stage # 0 => AsksOnce
        /\ InStage => stage # 0
        /\ AsksAhead
        /\ StageAccounting

\* A step after which the stage is owed the same answers, and no more are owed if
\* it has ended.
KeepsOwed ==
    /\ InStage => Outstanding' = Outstanding
    /\ stage # 0 => Outstanding' \subseteq Outstanding

\* A step that gives the stage the answer of a worker.
AnswersOwed(w) ==
    /\ InStage /\ Held(w).tag \in Outstanding
    /\ Outstanding' = Outstanding \ {Held(w).tag}
    /\ \E x \in Outcome : x.ok = success[w] /\ resultCh' = Append(resultCh, x)

\* The answers a stage waits for are of registered outbounds, so there are
\* finitely many.
LEMMA OutstandingFacts ==
    ASSUME TypeInv
    PROVE  /\ Outstanding = {task[t].tag : t \in OwedTasks} \cup {l.tag : l \in OwedLost}
           /\ Outstanding \subseteq Tag
           /\ IsFiniteSet(Outstanding) /\ Cardinality(Outstanding) \in Nat
           /\ OwedTasks \subseteq Task
<1>1. Outstanding = {task[t].tag : t \in OwedTasks} \cup {l.tag : l \in OwedLost}
  BY DEF Outstanding, OwedTasks, OwedLost
<1>2. OwedTasks \subseteq Task
  BY DEF OwedTasks, Unanswered, Pending
<1>3. Outstanding \subseteq Tag
  <2>1. \A t \in OwedTasks : task[t].tag \in Tag
    BY <1>2 DEF TypeInv, TypeOK, QueueTypes, TaskRecord
  <2>2. \A l \in OwedLost : l.tag \in Tag
    BY DEF TypeInv, TypeOK, QueueTypes, OwedLost
  <2> QED
    BY <1>1, <2>1, <2>2
<1>4. IsFiniteSet(Outstanding) /\ Cardinality(Outstanding) \in Nat
  BY <1>3, FS_Subset, FS_CardinalityType, MonitorAssumption
<1> QED
  BY <1>1, <1>2, <1>3, <1>4

\* A step that leaves the stage, its counters and its tasks alone.
LEMMA OwedKept ==
    ASSUME TypeInv, TypeInv', StageInv, ~closed, StagesPast',
           UNCHANGED <<stage, cycle, toVisit, tags, expected, resultCh>>,
           stage # 0 => /\ OwedTasks' = OwedTasks /\ OwedLost' = OwedLost
                        /\ \A t \in OwedTasks : task'[t].tag = task[t].tag
    PROVE  StageInv' /\ KeepsOwed
<1> SUFFICES ASSUME stage # 0 PROVE StageInv' /\ KeepsOwed
  BY DEF StageInv, InStage, AsksAhead, StageAccounting, KeepsOwed
<1>1. AsksOnce'
  BY DEF StageInv, AsksOnce
<1>2. Outstanding' = Outstanding
  <2>1. /\ Outstanding = {task[t].tag : t \in OwedTasks} \cup {l.tag : l \in OwedLost}
        /\ Outstanding' = {task'[t].tag : t \in OwedTasks'} \cup {l.tag : l \in OwedLost'}
    BY DEF Outstanding, OwedTasks, OwedLost
  <2>2. {task'[t].tag : t \in OwedTasks} = {task[t].tag : t \in OwedTasks}
    OBVIOUS
  <2> QED
    BY <2>1, <2>2
<1>3. AsksAhead' /\ StageAccounting'
  BY <1>2 DEF StageInv, AsksAhead, StageAccounting, InStage
<1> QED
  BY <1>1, <1>2, <1>3 DEF StageInv, InStage, KeepsOwed

\* A step that moves no task out of its places, nor changes one.
LEMMA OwedUnmoved ==
    ASSUME TypeInv, TypeInv', StageInv, ~closed,
           UNCHANGED <<stage, cycle, toVisit, tags, expected, resultCh, task, lost>>,
           Unanswered' = Unanswered
    PROVE  StageInv' /\ KeepsOwed
<1>1. StagesPast' /\ OwedTasks' = OwedTasks /\ OwedLost' = OwedLost
  BY DEF StageInv, StagesPast, OwedTasks, OwedLost
<1> QED
  BY <1>1, OwedKept

\* The contents of a free object are of no stage.
LEMMA BlankStage == Blank.stage = 0
BY DEF Blank, NewTask

\* enqueueTask with a task of a call: no stage is concerned.
LEMMA CallOwed ==
    ASSUME TypeInv, TypeInv', StageInv, ~closed,
           NEW r \in TaskRecord, r.stage = 0, EnqueueNew(r),
           UNCHANGED <<stage, cycle, toVisit, tags, expected, resultCh>>
    PROVE  StageInv' /\ KeepsOwed
<1>1. PICK t \in Task : place[t] = "free" /\ EnqueueTask(t, r)
  BY DEF EnqueueNew, Free
<1>2. stage \in Nat /\ task \in [Task -> TaskRecord] /\ place \in [Task -> Places]
  BY DEF TypeInv, TypeOK, CycleTypes, QueueTypes
<1>3. t \notin Unanswered
  BY <1>1 DEF Unanswered, Pending
<1>4. StagesPast
  BY DEF StageInv
<1>5. CASE Send(t, r)
  <2>1. /\ task' = [task EXCEPT ![t] = r] /\ place' = [place EXCEPT ![t] = "queue"]
        /\ lost' = lost
    BY <1>5 DEF Send
  <2>2. StagesPast'
    BY <1>2, <1>4, <2>1 DEF StagesPast
  <2>3. stage # 0 => OwedTasks' = OwedTasks
    BY <1>2, <1>3, <2>1 DEF OwedTasks, Unanswered, Pending
  <2>4. OwedLost' = OwedLost /\ \A u \in OwedTasks : task'[u].tag = task[u].tag
    BY <1>2, <1>3, <2>1 DEF OwedLost, OwedTasks
  <2> QED
    BY <2>2, <2>3, <2>4, OwedKept
<1>6. CASE LetGo(t, r)
  <2>1. /\ task' = [task EXCEPT ![t] = Blank] /\ place' = [place EXCEPT ![t] = "free"]
        /\ lost' = lost \cup {[tag |-> r.tag, priority |-> r.priority, stage |-> 0]}
    BY <1>1, <1>6 DEF LetGo, Release
  <2>2. StagesPast'
    BY <1>2, <1>4, <2>1, BlankStage DEF StagesPast
  <2>3. stage # 0 => OwedTasks' = OwedTasks
    BY <1>2, <1>3, <2>1, BlankStage DEF OwedTasks, Unanswered, Pending
  <2>4. stage # 0 => OwedLost' = OwedLost
    BY <2>1 DEF OwedLost
  <2>5. \A u \in OwedTasks : task'[u].tag = task[u].tag
    BY <1>2, <1>3, <2>1 DEF OwedTasks
  <2> QED
    BY <2>2, <2>3, <2>4, <2>5, OwedKept
<1>7. CASE UNCHANGED queueVars
  BY <1>7, OwedUnmoved DEF queueVars, Unanswered, Pending
<1> QED
  BY <1>1, <1>5, <1>6, <1>7 DEF EnqueueTask

\* A retry sends the task again, or leaves what it owes in lost.
LEMMA RetryOwed ==
    ASSUME TypeInv, TypeInv', StageInv, ~closed, NEW t \in Task, Retry(t)
    PROVE  StageInv' /\ KeepsOwed
<1> DEFINE r == [task[t] EXCEPT !.cycle = @ + 1]
<1>1. place[t] = "retry" /\ EnqueueTask(t, r)
  BY DEF Retry
<1>2. stage \in Nat /\ task \in [Task -> TaskRecord] /\ place \in [Task -> Places]
  BY DEF TypeInv, TypeOK, CycleTypes, QueueTypes
<1>3. r.tag = task[t].tag /\ r.stage = task[t].stage /\ r.priority = task[t].priority
  BY <1>2 DEF TaskRecord
<1>4. t \in Unanswered /\ StagesPast
  BY <1>1 DEF Unanswered, Pending, StageInv
<1>5. UNCHANGED <<stage, cycle, toVisit, tags, expected, resultCh, closed>>
  BY DEF Retry, cycleVars
<1> HIDE DEF r
<1>6. CASE Send(t, r)
  <2>1. /\ task' = [task EXCEPT ![t] = r] /\ place' = [place EXCEPT ![t] = "queue"]
        /\ lost' = lost
    BY <1>6 DEF Send
  <2>2. StagesPast'
    BY <1>2, <1>3, <1>4, <1>5, <2>1 DEF StagesPast
  <2>3. OwedTasks' = OwedTasks
    BY <1>2, <1>3, <1>4, <1>5, <2>1 DEF OwedTasks, Unanswered, Pending
  <2>4. OwedLost' = OwedLost /\ \A u \in OwedTasks : task'[u].tag = task[u].tag
    BY <1>2, <1>3, <1>5, <2>1 DEF OwedLost, OwedTasks
  <2> QED
    BY <1>5, <2>2, <2>3, <2>4, OwedKept
<1>7. CASE LetGo(t, r)
  <2> DEFINE owed == [tag |-> task[t].tag, priority |-> task[t].priority,
                      stage |-> task[t].stage]
  <2>1. /\ task' = [task EXCEPT ![t] = Blank] /\ place' = [place EXCEPT ![t] = "free"]
        /\ lost' = lost \cup {owed}
    BY <1>1, <1>3, <1>7 DEF LetGo, Release
  <2>2. StagesPast'
    BY <1>2, <1>4, <1>5, <2>1, BlankStage DEF StagesPast
  <2>3. CASE task[t].stage # stage
    <3>1. stage # 0 => OwedTasks' = OwedTasks
      BY <1>2, <1>5, <2>1, <2>3, BlankStage DEF OwedTasks, Unanswered, Pending
    <3>2. OwedLost' = OwedLost
      BY <1>5, <2>1, <2>3 DEF OwedLost
    <3>3. \A u \in OwedTasks : task'[u].tag = task[u].tag
      BY <1>2, <2>1, <2>3 DEF OwedTasks
    <3> QED
      BY <1>5, <2>2, <3>1, <3>2, <3>3, OwedKept
  <2>4. CASE task[t].stage = stage /\ stage # 0
    <3>1. OwedTasks' = OwedTasks \ {t} /\ t \in OwedTasks
      BY <1>2, <1>4, <1>5, <2>1, <2>4, BlankStage DEF OwedTasks, Unanswered, Pending
    <3>2. OwedLost' = OwedLost \cup {owed} /\ owed.tag = task[t].tag
      BY <1>5, <2>1, <2>4 DEF OwedLost
    <3>3. \A u \in OwedTasks' : task'[u] = task[u]
      BY <1>2, <2>1, <3>1 DEF OwedTasks, Unanswered, Pending
    <3> HIDE DEF owed
    <3>4. AsksOnce'
      BY <2>4, <3>1, <3>2, <3>3 DEF StageInv, AsksOnce
    <3>5. Outstanding' = Outstanding
      <4>1. /\ Outstanding = {task[u].tag : u \in OwedTasks} \cup {l.tag : l \in OwedLost}
            /\ Outstanding' = {task'[u].tag : u \in OwedTasks'} \cup {l.tag : l \in OwedLost'}
        BY DEF Outstanding, OwedTasks, OwedLost
      <4>2. {task'[u].tag : u \in OwedTasks'} = {task[u].tag : u \in OwedTasks \ {t}}
        BY <3>1, <3>3
      <4>3. {l.tag : l \in OwedLost'} = {l.tag : l \in OwedLost} \cup {task[t].tag}
        BY <3>2
      <4>4. {task[u].tag : u \in OwedTasks \ {t}} \cup {task[t].tag}
              = {task[u].tag : u \in OwedTasks}
        BY <3>1
      <4> QED
        BY <4>1, <4>2, <4>3, <4>4
    <3> QED
      BY <1>5, <2>2, <3>4, <3>5
      DEF StageInv, AsksAhead, StageAccounting, InStage, KeepsOwed
  <2>5. CASE stage = 0
    BY <1>5, <2>2, <2>5 DEF StageInv, AsksAhead, InStage, StageAccounting, KeepsOwed
  <2> QED
    BY <2>3, <2>4, <2>5
<1>8. CASE UNCHANGED queueVars
  BY <1>5, <1>8, OwedUnmoved DEF queueVars, Unanswered, Pending
<1> QED
  BY <1>1, <1>6, <1>7, <1>8 DEF EnqueueTask

\* runStage asks one more outbound: expected and the set grow together, unless
\* enqueueTask answers no.
LEMMA AskOwed ==
    ASSUME TypeInv, TypeInv', StageInv, ~closed, NEW o \in Tag, EnqueueStage(o)
    PROVE  /\ StageInv'
           /\ o \notin Outstanding
           /\ Outstanding' \in {Outstanding, Outstanding \cup {o}}
<1> DEFINE r == NewTask(o, cycleSeq, FALSE, stage)
<1>1. /\ cycle = "enqueue" /\ o \in toVisit /\ EnqueueNew(r)
      /\ expected' = CountAsked(r) /\ toVisit' = toVisit \ {o}
      /\ cycle' \in {"enqueue", "wait"}
      /\ cycle' = "wait" => toVisit = {o}
      /\ UNCHANGED <<tags, stage, resultCh, closed>>
  BY DEF EnqueueStage
<1>2. r \in TaskRecord /\ r.tag = o /\ r.stage = stage /\ ~r.priority
  BY DEF NewTask, TaskRecord, TypeInv, TypeOK, CycleTypes
<1> HIDE DEF r
<1>3. /\ StagesPast /\ stage # 0 /\ AsksOnce
      /\ expected = Len(resultCh) + Cardinality(Outstanding)
      /\ toVisit \subseteq tags /\ toVisit \cap Outstanding = {}
      /\ expected + Cardinality(toVisit) <= Cardinality(tags)
  BY <1>1 DEF StageInv, InStage, AsksAhead, StageAccounting
<1>4. /\ stage \in Nat /\ expected \in Nat /\ task \in [Task -> TaskRecord]
      /\ place \in [Task -> Places] /\ resultCh \in Seq(Outcome)
      /\ tags \subseteq Tag /\ toVisit \subseteq Tag
  BY DEF TypeInv, TypeOK, CycleTypes, QueueTypes, ResultTypes
<1>5. /\ IsFiniteSet(toVisit) /\ Cardinality(toVisit) \in Nat /\ Cardinality(tags) \in Nat
      /\ Cardinality(toVisit') = Cardinality(toVisit) - 1
  BY <1>1, <1>4, FS_Subset, FS_CardinalityType, FS_RemoveElement, MonitorAssumption
<1>6. PICK t \in Task : place[t] = "free" /\ EnqueueTask(t, r)
  BY <1>1 DEF EnqueueNew, Free
<1>7. t \notin Unanswered
  BY <1>6 DEF Unanswered, Pending
<1>8. CASE Enqueues(r) /\ Send(t, r)
  <2>1. /\ task' = [task EXCEPT ![t] = r] /\ place' = [place EXCEPT ![t] = "queue"]
        /\ lost' = lost /\ expected' = expected + 1
    BY <1>1, <1>8 DEF Send, CountAsked
  <2>2. OwedTasks' = OwedTasks \cup {t} /\ OwedLost' = OwedLost /\ t \notin OwedTasks
    BY <1>1, <1>2, <1>4, <1>7, <2>1 DEF OwedTasks, OwedLost, Unanswered, Pending
  <2>3. task'[t].tag = o /\ \A u \in OwedTasks : task'[u] = task[u]
    BY <1>2, <1>4, <2>1, <2>2 DEF OwedTasks, Unanswered, Pending
  <2>4. Outstanding' = Outstanding \cup {o}
    <3>1. /\ Outstanding = {task[u].tag : u \in OwedTasks} \cup {l.tag : l \in OwedLost}
          /\ Outstanding' = {task'[u].tag : u \in OwedTasks'} \cup {l.tag : l \in OwedLost'}
      BY DEF Outstanding, OwedTasks, OwedLost
    <3>2. {task'[u].tag : u \in OwedTasks'} = {task[u].tag : u \in OwedTasks} \cup {o}
      BY <2>2, <2>3
    <3> QED
      BY <2>2, <3>1, <3>2
  <2>5. o \notin Outstanding
    BY <1>1, <1>3
  <2>6. StagesPast'
    BY <1>1, <1>2, <1>3, <1>4, <2>1 DEF StagesPast
  <2>7. AsksOnce'
    <3>1. \A u \in OwedTasks : task[u].tag # o
      BY <2>5, OutstandingFacts
    <3>2. \A l \in OwedLost : l.tag # o
      BY <2>5, OutstandingFacts
    <3> QED
      BY <1>3, <2>2, <2>3, <3>1, <3>2 DEF AsksOnce
  <2>8. /\ Cardinality(Outstanding') = Cardinality(Outstanding) + 1
        /\ Cardinality(Outstanding) \in Nat
    BY <2>4, <2>5, OutstandingFacts, FS_AddElement
  <2>9. StageAccounting'
    BY <1>1, <1>3, <1>4, <2>1, <2>8, LenProperties DEF StageAccounting
  <2>10. AsksAhead'
    <3>1. toVisit' \subseteq tags /\ toVisit' \cap Outstanding' = {}
      BY <1>1, <1>3, <2>4
    <3>2. expected' + Cardinality(toVisit') <= Cardinality(tags)
      BY <1>3, <1>4, <1>5, <2>1
    <3>3. expected' <= Cardinality(tags)
      BY <1>4, <1>5, <3>2, <2>1, <1>1, FS_RemoveElement, FS_CardinalityType
    <3> QED
      BY <1>1, <3>1, <3>2, <3>3 DEF AsksAhead
  <2> QED
    BY <1>1, <1>3, <2>4, <2>5, <2>6, <2>7, <2>9, <2>10 DEF StageInv, InStage
<1>9. ASSUME ~Enqueues(r), StagesPast', OwedTasks' = OwedTasks, OwedLost' = OwedLost,
             \A u \in OwedTasks : task'[u] = task[u]
      PROVE  StageInv' /\ Outstanding' = Outstanding
  <2>1. expected' = expected
    BY <1>1, <1>9 DEF CountAsked
  <2>2. Outstanding' = Outstanding
    <3>1. /\ Outstanding = {task[u].tag : u \in OwedTasks} \cup {l.tag : l \in OwedLost}
          /\ Outstanding' = {task'[u].tag : u \in OwedTasks'} \cup {l.tag : l \in OwedLost'}
      BY DEF Outstanding, OwedTasks, OwedLost
    <3>2. {task'[u].tag : u \in OwedTasks} = {task[u].tag : u \in OwedTasks}
      BY <1>9
    <3> QED
      BY <1>9, <3>1, <3>2
  <2>3. AsksOnce'
    BY <1>3, <1>9 DEF AsksOnce
  <2>4. StageAccounting'
    BY <1>1, <1>3, <2>1, <2>2 DEF StageAccounting
  <2>5. AsksAhead'
    <3>1. toVisit' \subseteq tags /\ toVisit' \cap Outstanding' = {}
      BY <1>1, <1>3, <2>2
    <3>2. expected + Cardinality(toVisit') <= Cardinality(tags) /\ expected <= Cardinality(tags)
      BY <1>3, <1>4, <1>5
    <3> QED
      BY <1>1, <2>1, <3>1, <3>2 DEF AsksAhead
  <2> QED
    BY <1>1, <1>3, <1>9, <2>2, <2>3, <2>4, <2>5 DEF StageInv, InStage
<1>10. CASE ~Enqueues(r) /\ LetGo(t, r)
  <2>1. /\ task' = [task EXCEPT ![t] = Blank] /\ place' = [place EXCEPT ![t] = "free"]
        /\ lost' = lost \cup {[tag |-> r.tag, priority |-> r.priority, stage |-> 0]}
    BY <1>6, <1>10 DEF LetGo, Release
  <2>2. StagesPast'
    BY <1>1, <1>3, <1>4, <2>1, BlankStage DEF StagesPast
  <2>3. OwedTasks' = OwedTasks /\ OwedLost' = OwedLost
    BY <1>1, <1>3, <1>4, <1>7, <2>1, BlankStage DEF OwedTasks, OwedLost, Unanswered, Pending
  <2>4. \A u \in OwedTasks : task'[u] = task[u]
    BY <1>4, <1>7, <2>1 DEF OwedTasks
  <2> QED
    BY <1>1, <1>3, <1>9, <1>10, <2>2, <2>3, <2>4
<1>11. CASE ~Enqueues(r) /\ UNCHANGED queueVars
  <2>1. UNCHANGED <<task, place, lost, stage>>
    BY <1>1, <1>11 DEF queueVars
  <2>2. StagesPast' /\ OwedTasks' = OwedTasks /\ OwedLost' = OwedLost
    BY <1>3, <2>1 DEF StagesPast, OwedTasks, OwedLost, Unanswered, Pending
  <2> QED
    BY <1>1, <1>3, <1>9, <1>11, <2>1, <2>2
<1> QED
  BY <1>1, <1>3, <1>6, <1>8, <1>10, <1>11 DEF EnqueueTask, Enqueues

\* A test goroutine that has applied its result still owes its outcome.
LEMMA HeldUnanswered ==
    ASSUME TypeInv, OneReference, ~closed, NEW w \in Worker, probe[w] \in {"apply", "reply"}
    PROVE  /\ held[w] \in Task /\ held[w] \in Unanswered
           /\ probe[w] = "apply" => place[held[w]] = "worker"
           /\ probe[w] = "reply" => place[held[w]] = "applied"
BY DEF TypeInv, HoldsTask, OneReference, HeldOnce, Unanswered, Pending

\* The outcome of a task of the running stage finds room in the result channel.
LEMMA RoomHolds ==
    ASSUME TypeInv, OneReference, StageInv
    PROVE  RoomForOutcome
<1> SUFFICES ASSUME NEW w \in Worker, probe[w] = "reply", ~closed, InStage,
                    Held(w).stage = stage
             PROVE  Len(resultCh) < Cardinality(tags)
  BY DEF RoomForOutcome, ResultCap
<1>1. held[w] \in OwedTasks
  BY HeldUnanswered DEF OwedTasks, Held
<1>2. Outstanding # {} /\ IsFiniteSet(Outstanding) /\ Cardinality(Outstanding) \in Nat
  BY <1>1, OutstandingFacts
<1>3. Cardinality(Outstanding) > 0
  BY <1>2, FS_EmptySet
<1>4. expected = Len(resultCh) + Cardinality(Outstanding)
  BY DEF StageInv, StageAccounting
<1>5. /\ resultCh \in Seq(Outcome) /\ expected \in Nat
      /\ Cardinality(tags) \in Nat /\ Cardinality(toVisit) \in Nat
  BY FS_Subset, FS_CardinalityType, MonitorAssumption
  DEF TypeInv, TypeOK, CycleTypes, ResultTypes
<1>6. expected <= Cardinality(tags)
  BY <1>5 DEF StageInv, AsksAhead, InStage
<1> QED
  BY <1>2, <1>3, <1>4, <1>5, <1>6, LenProperties

\* The outcome of a task takes its outbound off the set.
LEMMA ReplyOwed ==
    ASSUME TypeInv, TypeInv', OneReference, StageInv, ~closed, NEW w \in Worker, Reply(w)
    PROVE  /\ StageInv'
           /\ \/ KeepsOwed /\ (InStage => UNCHANGED resultCh)
              \/ AnswersOwed(w)
<1> DEFINE t == held[w]
<1>1. /\ probe[w] = "reply" /\ place' = [place EXCEPT ![t] = "answered"]
      /\ UNCHANGED <<task, lost, stage, cycle, toVisit, tags, expected, closed>>
  BY DEF Reply, cycleVars
<1>2. t \in Task /\ t \in Unanswered
  BY <1>1, HeldUnanswered
<1>3. /\ stage \in Nat /\ expected \in Nat /\ task \in [Task -> TaskRecord]
      /\ place \in [Task -> Places] /\ resultCh \in Seq(Outcome)
  BY DEF TypeInv, TypeOK, CycleTypes, QueueTypes, ResultTypes
<1>4. Unanswered' = Unanswered \ {t}
  BY <1>1, <1>2, <1>3 DEF Unanswered, Pending
<1>5. OwedTasks' = OwedTasks \ {t} /\ OwedLost' = OwedLost
  BY <1>1, <1>4 DEF OwedTasks, OwedLost
<1>6. StagesPast' /\ (stage # 0 => AsksOnce')
  BY <1>1, <1>5 DEF StageInv, StagesPast, AsksOnce
<1>7. CASE ~InStage
  <2>1. Outstanding' \subseteq Outstanding
    <3>1. /\ Outstanding = {task[u].tag : u \in OwedTasks} \cup {l.tag : l \in OwedLost}
          /\ Outstanding' = {task[u].tag : u \in OwedTasks'} \cup {l.tag : l \in OwedLost'}
      BY <1>1 DEF Outstanding, OwedTasks, OwedLost
    <3> QED
      BY <1>5, <3>1
  <2> QED
    BY <1>1, <1>6, <1>7, <2>1 DEF StageInv, InStage, AsksAhead, StageAccounting, KeepsOwed
<1>8. CASE InStage /\ task[t].stage # stage
  <2>1. OwedTasks' = OwedTasks /\ resultCh' = resultCh
    BY <1>5, <1>8 DEF OwedTasks, Reply, Held
  <2> QED
    BY <1>1, <1>5, <1>6, <2>1, OwedKept
<1>9. CASE InStage /\ task[t].stage = stage
  <2>1. stage # 0 /\ AsksOnce /\ t \in OwedTasks
    BY <1>2, <1>9 DEF StageInv, OwedTasks
  <2>2. Len(resultCh) < ResultCap
    BY <1>1, <1>9, RoomHolds DEF RoomForOutcome, Held
  <2>3. \E x \in Outcome : x.ok = success[w] /\ resultCh' = Append(resultCh, x)
    <3>1. Len(resultCh) \in Nat /\ ResultCap \in Nat
      BY <1>3, LenProperties, FS_Subset, FS_CardinalityType, MonitorAssumption
      DEF ResultCap, TypeInv, TypeOK, CycleTypes
    <3>2. ~(Len(resultCh) >= ResultCap)
      BY <2>2, <3>1
    <3>3. \E x \in {[tag |-> Held(w).tag, ok |-> success[w], link |-> usedLink[w]]} :
            resultCh' = Append(resultCh, x)
      BY <1>9, <2>1, <3>2 DEF Reply, Held
    <3>4. [tag |-> Held(w).tag, ok |-> success[w], link |-> usedLink[w]] \in Outcome
      BY <1>2, <1>3 DEF TypeInv, TypeOK, PoolTypes, Held, TaskRecord, Outcome
    <3> QED
      BY <3>3, <3>4
  <2>4. Len(resultCh') = Len(resultCh) + 1 /\ Len(resultCh) \in Nat
    BY <1>3, <2>3, LenProperties
  <2>5. Outstanding' = Outstanding \ {task[t].tag} /\ task[t].tag \in Outstanding
    <3>1. /\ Outstanding = {task[u].tag : u \in OwedTasks} \cup {l.tag : l \in OwedLost}
          /\ Outstanding' = {task[u].tag : u \in OwedTasks'} \cup {l.tag : l \in OwedLost'}
      BY <1>1 DEF Outstanding, OwedTasks, OwedLost
    <3>2. {task[u].tag : u \in OwedTasks'} = {task[u].tag : u \in OwedTasks} \ {task[t].tag}
      BY <1>5, <2>1 DEF AsksOnce
    <3>3. task[t].tag \notin {l.tag : l \in OwedLost}
      BY <2>1 DEF AsksOnce
    <3> QED
      BY <1>5, <2>1, <3>1, <3>2, <3>3
  <2>6. /\ Cardinality(Outstanding') = Cardinality(Outstanding) - 1
        /\ Cardinality(Outstanding) \in Nat
    BY <2>5, OutstandingFacts, FS_RemoveElement
  <2>7. StageAccounting'
    BY <1>1, <1>3, <2>4, <2>6 DEF StageInv, StageAccounting, InStage
  <2>8. AsksAhead'
    BY <1>1, <2>5 DEF StageInv, AsksAhead
  <2> QED
    BY <1>1, <1>6, <1>9, <2>1, <2>3, <2>5, <2>7, <2>8
    DEF StageInv, InStage, AnswersOwed, Held
<1> QED
  BY <1>7, <1>8, <1>9

\* A result received is one no more expected.
LEMMA ReceiveOwed ==
    ASSUME TypeInv, TypeInv', StageInv, ~closed, Receive
    PROVE  StageInv' /\ KeepsOwed
<1>1. /\ cycle = "wait" /\ expected > 0 /\ resultCh # <<>> /\ resultCh' = Tail(resultCh)
      /\ expected' = expected - 1
      /\ UNCHANGED <<task, place, lost, stage, cycle, toVisit, tags, closed>>
  BY DEF Receive, queueVars
<1>2. resultCh \in Seq(Outcome) /\ expected \in Nat
  BY DEF TypeInv, TypeOK, CycleTypes, ResultTypes
<1>3. Len(resultCh') = Len(resultCh) - 1 /\ Len(resultCh) \in Nat
  BY <1>1, <1>2, HeadTailProperties, LenProperties
<1>4. Outstanding' = Outstanding /\ OwedTasks' = OwedTasks /\ OwedLost' = OwedLost
  BY <1>1 DEF Outstanding, OwedTasks, OwedLost, Unanswered, Pending
<1>5. Cardinality(Outstanding) \in Nat /\ Cardinality(tags) \in Nat
  BY OutstandingFacts, FS_Subset, FS_CardinalityType, MonitorAssumption
  DEF TypeInv, TypeOK, CycleTypes
<1>6. expected = Len(resultCh) + Cardinality(Outstanding) /\ expected <= Cardinality(tags)
  BY <1>1 DEF StageInv, InStage, AsksAhead, StageAccounting
<1>7. StageAccounting' /\ AsksAhead'
  <2>1. expected' = Len(resultCh') + Cardinality(Outstanding') /\ expected' <= Cardinality(tags)
    BY <1>1, <1>2, <1>3, <1>4, <1>5, <1>6
  <2> QED
    BY <1>1, <2>1 DEF StageAccounting, AsksAhead
<1> QED
  BY <1>1, <1>4, <1>7 DEF StageInv, StagesPast, AsksOnce, InStage, KeepsOwed

\* A new stage is owed nothing yet.
LEMMA OpenOwed ==
    ASSUME TypeInv, TypeInv', StageInv, ~closed, OpenStage,
           UNCHANGED <<task, place, lost, tags>>
    PROVE  StageInv' /\ Outstanding' = {}
<1>1. /\ stage' = stage + 1 /\ expected' = 0 /\ resultCh' = <<>>
      /\ toVisit' = tags /\ cycle' = "enqueue"
  BY DEF OpenStage
<1>2. stage \in Nat /\ task \in [Task -> TaskRecord]
  BY DEF TypeInv, TypeOK, CycleTypes, QueueTypes
<1>3. \A l \in lost : l.stage \in Nat
  BY DEF TypeInv, TypeOK, QueueTypes
<1>4. \A u \in Task : task[u].stage \in Nat
  BY <1>2 DEF TaskRecord
<1>5. StagesPast
  BY DEF StageInv
<1>6. StagesPast'
  BY <1>1, <1>2, <1>3, <1>4, <1>5 DEF StagesPast
<1>7. OwedTasks' = {} /\ OwedLost' = {}
  BY <1>1, <1>2, <1>3, <1>4, <1>5 DEF StagesPast, OwedTasks, OwedLost, Unanswered, Pending
<1>8. Outstanding' = {}
  BY <1>7 DEF Outstanding, OwedTasks, OwedLost
<1>9. Cardinality(tags) \in Nat /\ Cardinality({}) = 0
  BY FS_Subset, FS_CardinalityType, FS_EmptySet, MonitorAssumption
  DEF TypeInv, TypeOK, CycleTypes
<1>10. StageAccounting' /\ AsksAhead'
  BY <1>1, <1>8, <1>9 DEF StageAccounting, AsksAhead
<1> QED
  BY <1>1, <1>2, <1>6, <1>7, <1>8, <1>10 DEF StageInv, AsksOnce, InStage

\* The steps of a worker and of its test goroutine leave what a stage is owed,
\* but for the reply.
LEMMA WorkerOwed ==
    ASSUME TypeInv, TypeInv', OneReference, StageInv, ~closed,
           NEW w \in Worker, WorkerStep(w) \/ ProbeStep(w)
    PROVE  StageInv' /\ (~Reply(w) => KeepsOwed)
<1> USE DEF queueVars, cycleVars
<1>1. task \in [Task -> TaskRecord] /\ place \in [Task -> Places]
  BY DEF TypeInv, TypeOK, QueueTypes
<1>2. ASSUME NEW t \in Task, place[t] = "queue", Receives(w, t),
             UNCHANGED <<lost, stage, cycle, toVisit, tags, expected, resultCh>>
      PROVE  StageInv' /\ (~Reply(w) => KeepsOwed)
  <2>1. UNCHANGED task /\ Unanswered' = Unanswered
    BY <1>1, <1>2 DEF Receives, Unanswered, Pending
  <2> QED
    BY <1>2, <2>1, OwedUnmoved
<1>3. QueuedOnce /\ priorityQueue \in Seq(Task) /\ normalQueue \in Seq(Task)
  BY DEF OneReference, TypeInv, TypeOK, QueueTypes
<1>4. CASE TakePriority(w)
  <2>1. /\ Head(priorityQueue) \in Task /\ place[Head(priorityQueue)] = "queue"
    BY <1>3, <1>4, EmptySeq, HeadTailProperties DEF TakePriority, QueuedOnce
  <2> QED
    BY <1>2, <1>4, <2>1 DEF TakePriority
<1>5. CASE TakeNormal(w)
  <2>1. /\ Head(normalQueue) \in Task /\ place[Head(normalQueue)] = "queue"
    BY <1>3, <1>5, EmptySeq, HeadTailProperties DEF TakeNormal, QueuedOnce
  <2> QED
    BY <1>2, <1>5, <2>1 DEF TakeNormal
<1>6. CASE EnterSelect(w) \/ WorkerExit(w) \/ StartProbe(w) \/ AbandonTask(w)
             \/ \E ok \in BOOLEAN : ProbeReturns(w, ok)
  <2>1. UNCHANGED <<task, place, lost, stage, cycle, toVisit, tags, expected, resultCh>>
    BY <1>6 DEF EnterSelect, WorkerExit, StartProbe, AbandonTask, ProbeReturns
  <2> QED
    BY <2>1, OwedUnmoved DEF Unanswered, Pending
<1>7. CASE Postpone(w)
  <2>1. held[w] \in Task /\ place[held[w]] = "worker"
    BY <1>7 DEF Postpone, TypeInv, HoldsTask, OneReference, HeldOnce
  <2>2. Unanswered' = Unanswered
    BY <1>1, <1>7, <2>1 DEF Postpone, Unanswered, Pending
  <2> QED
    BY <1>7, <2>2, OwedUnmoved DEF Postpone
<1>8. ASSUME NEW changed \in Changes, ApplyResult(w, changed)
      PROVE  StageInv' /\ (~Reply(w) => KeepsOwed)
  <2>1. held[w] \in Task /\ place[held[w]] = "worker"
    BY <1>8, HeldUnanswered DEF ApplyResult
  <2>2. /\ task' = task /\ place' = [place EXCEPT ![held[w]] = "applied"]
        /\ lost' = {l \in lost : l.tag # Held(w).tag \/ (InStage /\ l.stage = stage)}
        /\ UNCHANGED <<stage, cycle, toVisit, tags, expected, resultCh>>
    BY <1>8 DEF ApplyResult
  <2>3. Unanswered' = Unanswered
    BY <1>1, <2>1, <2>2 DEF Unanswered, Pending
  <2>4. StagesPast' /\ OwedTasks' = OwedTasks
    BY <2>2, <2>3 DEF StageInv, StagesPast, OwedTasks
  <2>5. CASE InStage
    BY <2>2, <2>4, <2>5, OwedKept DEF OwedLost
  <2>6. CASE ~InStage
    <3>1. OwedLost' \subseteq OwedLost
      BY <2>2 DEF OwedLost
    <3>2. stage # 0 => AsksOnce'
      BY <2>2, <2>4, <3>1 DEF StageInv, AsksOnce
    <3>3. Outstanding' \subseteq Outstanding
      <4>1. /\ Outstanding = {task[u].tag : u \in OwedTasks} \cup {l.tag : l \in OwedLost}
            /\ Outstanding' = {task[u].tag : u \in OwedTasks'} \cup {l.tag : l \in OwedLost'}
        BY <2>2 DEF Outstanding, OwedTasks, OwedLost
      <4> QED
        BY <2>4, <3>1, <4>1
    <3> QED
      BY <2>2, <2>4, <2>6, <3>2, <3>3
      DEF StageInv, InStage, AsksAhead, StageAccounting, KeepsOwed
  <2> QED
    BY <2>5, <2>6
<1>9. CASE Reply(w)
  BY <1>9, ReplyOwed
<1>10. CASE FinishTask(w)
  <2>1. held[w] \in Task /\ place[held[w]] = "answered"
    BY <1>10 DEF FinishTask, TypeInv, HoldsTask, OneReference, HeldOnce
  <2>2. /\ place' = [place EXCEPT ![held[w]] = "free"]
        /\ task' = [task EXCEPT ![held[w]] = Blank]
        /\ UNCHANGED <<lost, stage, cycle, toVisit, tags, expected, resultCh>>
    BY <1>10 DEF FinishTask, Release
  <2>3. held[w] \notin Unanswered /\ Unanswered' = Unanswered
    BY <1>1, <2>1, <2>2 DEF Unanswered, Pending
  <2>4. \A t \in Unanswered : task'[t] = task[t]
    BY <1>1, <2>2, <2>3 DEF Unanswered, Pending
  <2>5. OwedTasks' = OwedTasks /\ OwedLost' = OwedLost
    BY <2>2, <2>3, <2>4 DEF OwedTasks, OwedLost
  <2>6. StagesPast'
    <3>1. stage \in Nat
      BY DEF TypeInv, TypeOK, CycleTypes
    <3> QED
      BY <1>1, <2>2, <3>1, BlankStage DEF StageInv, StagesPast
  <2> QED
    BY <2>2, <2>4, <2>5, <2>6, OwedKept DEF OwedTasks
<1> QED
  BY <1>4, <1>5, <1>6, <1>7, <1>8, <1>9, <1>10 DEF WorkerStep, ProbeStep

\* The steps of the cycle.
LEMMA CycleOwed ==
    ASSUME TypeInv, TypeInv', StageInv, ~closed, CycleStep
    PROVE  StageInv'
<1> USE DEF queueVars, cycleVars
<1>1. ASSUME UNCHANGED <<task, place, lost, stage>>, ~InStage'
      PROVE  StageInv'
  <2>1. StagesPast' /\ OwedTasks' = OwedTasks /\ OwedLost' = OwedLost
    BY <1>1 DEF StageInv, StagesPast, OwedTasks, OwedLost, Unanswered, Pending
  <2> QED
    BY <1>1, <2>1 DEF StageInv, AsksOnce, InStage, AsksAhead, StageAccounting
<1>2. CASE BeginCycle \/ EndCycle \/ (\E o \in Tag : Collect(o) \/ SaveOne(o))
  BY <1>1, <1>2 DEF BeginCycle, EndCycle, Collect, SaveOne, InStage
<1>3. CASE EndCollect
  <2>1. CASE tags = {}
    BY <1>1, <1>3, <2>1 DEF EndCollect, InStage
  <2>2. CASE tags # {}
    BY <1>3, <2>2, OpenOwed DEF EndCollect
  <2> QED
    BY <2>1, <2>2
<1>4. CASE NextStage
  BY <1>4, OpenOwed DEF NextStage
<1>5. CASE Receive
  BY <1>5, ReceiveOwed
<1>6. CASE AbandonStage
  BY <1>6 DEF AbandonStage
<1>7. ASSUME NEW o \in Tag, EnqueueStage(o) PROVE StageInv'
  BY <1>7, AskOwed
<1> QED
  BY <1>2, <1>3, <1>4, <1>5, <1>6, <1>7 DEF CycleStep

\* Every step keeps the account of the stage.
LEMMA NextStageInv ==
    TypeInv /\ TypeInv' /\ OneReference /\ StageInv /\ [Next]_vars => StageInv'
<1> SUFFICES ASSUME TypeInv, TypeInv', OneReference, StageInv, [Next]_vars
             PROVE  StageInv'
  OBVIOUS
<1>1. CASE closed
  <2>1. closed'
    BY <1>1 DEF Next, CallStep, ReadyStep, WorkerStep, ProbeStep, CycleStep, TestNow,
       InvalidateTest, CallEnqueue, BecomeReady, LoseReady, TakePriority, EnterSelect,
       TakeNormal, WorkerExit, Postpone, StartProbe, FinishTask, AbandonTask,
       ProbeReturns, ApplyResult, Reply, Retry, StartCycleOnce, BeginCycle, Collect,
       EndCollect, EnqueueStage, Receive, AbandonStage, NextStage, EndCycle, SaveOne,
       Close, vars
  <2> QED
    BY <2>1 DEF StageInv
<1> SUFFICES ASSUME ~closed PROVE StageInv'
  BY <1>1
<1> USE DEF queueVars, cycleVars
<1>2. ASSUME UNCHANGED <<task, place, lost, stage, cycle, toVisit, tags, expected, resultCh>>
      PROVE  StageInv'
  BY <1>2, OwedUnmoved DEF Unanswered, Pending
<1>3. CASE CallStep
  <2>1. ASSUME NEW c \in Caller, NEW x \in Tag, TestNow(c, x) \/ InvalidateTest(c, x)
        PROVE  StageInv'
    BY <1>2, <2>1 DEF TestNow, InvalidateTest
  <2>2. ASSUME NEW c \in Thread, NEW q \in todo[c], CallEnqueue(c, q)
        PROVE  StageInv'
    <3> DEFINE r == NewTask(q.tag, cycleSeq, q.priority, 0)
    <3>1. q \in Request
      BY DEF TypeInv, TypeOK, CallTypes
    <3>2. r \in TaskRecord /\ r.stage = 0
      BY <3>1 DEF NewTask, TaskRecord, Request, TypeInv, TypeOK, CycleTypes
    <3>3. EnqueueNew(r) /\ UNCHANGED <<stage, cycle, toVisit, tags, expected, resultCh>>
      BY <2>2 DEF CallEnqueue
    <3> HIDE DEF r
    <3> QED
      BY <3>2, <3>3, CallOwed
  <2> QED
    BY <1>3, <2>1, <2>2 DEF CallStep
<1>4. CASE ReadyStep
  BY <1>2, <1>4 DEF ReadyStep, BecomeReady, LoseReady
<1>5. ASSUME NEW w \in Worker, WorkerStep(w) \/ ProbeStep(w) PROVE StageInv'
  BY <1>5, WorkerOwed
<1>6. ASSUME NEW t \in Task, Retry(t) PROVE StageInv'
  BY <1>6, RetryOwed
<1>7. CASE StartCycleOnce
  <2>1. UNCHANGED <<task, place, lost, stage>> /\ ~InStage'
    BY <1>7 DEF StartCycleOnce, InStage
  <2>2. StagesPast' /\ OwedTasks' = OwedTasks /\ OwedLost' = OwedLost
    BY <2>1 DEF StageInv, StagesPast, OwedTasks, OwedLost, Unanswered, Pending
  <2> QED
    BY <2>1, <2>2 DEF StageInv, AsksOnce, InStage, AsksAhead, StageAccounting
<1>8. CASE CycleStep
  BY <1>8, CycleOwed
<1>9. CASE Close
  BY <1>9 DEF Close, StageInv
<1>10. CASE UNCHANGED vars
  BY <1>2, <1>10 DEF vars
<1> QED
  BY <1>3, <1>4, <1>5, <1>6, <1>7, <1>8, <1>9, <1>10 DEF Next

LEMMA InitStageInv == Init => StageInv
<1> SUFFICES ASSUME Init PROVE StageInv
  OBVIOUS
<1>1. \A t \in Task : task[t].stage = 0
  BY BlankStage DEF Init
<1> QED
  BY <1>1 DEF Init, StageInv, StagesPast, AsksAhead, InStage, StageAccounting

\* The account of the stage, with the references it rests on.
LEMMA StageInvariant == Spec => [](TypeInv /\ OneReference /\ StageInv)
BY InitStageInv, NextStageInv, TypeCorrect, SingleReference, PTL DEF Spec

\* While the monitor is open, runStage waits for exactly the outcomes that are in
\* its channel or still to come, whatever retries, full channels, priority tests
\* and duplicates do meanwhile: it neither stops early nor waits for nobody.
THEOREM StageCounts == Spec => []StageAccounting
<1>1. StageInv => StageAccounting
  BY DEF StageInv, StageAccounting
<1> QED
  BY <1>1, StageInvariant, PTL

\* The outcome of a task of the running stage is never dropped by the default
\* branch of executeTask's send.
THEOREM OutcomesHaveRoom == Spec => []RoomForOutcome
<1>1. TypeInv /\ OneReference /\ StageInv => RoomForOutcome
  BY RoomHolds
<1> QED
  BY <1>1, StageInvariant, PTL

-----------------------------------------------------------------------------
(***************************************************************************)
(* The cycle is a barrier.  Each step of the monitor is a step of          *)
(* CycleBarrier or leaves what that specification sees alone: a request is *)
(* an Ask, the reply of a worker an Answer, and the account of the stage   *)
(* says that runCycle goes on only when nobody is outstanding.             *)
(***************************************************************************)
Successful == passed \/ \E i \in DOMAIN resultCh : resultCh[i].ok

\* Between two stages nothing of the last one is left.
BarrierInv ==
    ~closed /\ ~InStage =>
        /\ ~passed /\ attempt = 1 /\ resultCh = <<>>
        /\ stage # 0 => Outstanding = {}

BarrierStep == BarrierInv' /\ [Barrier!Next]_(Barrier!vars)

\* A step that leaves the cycle alone.
LEMMA BarrierStutters ==
    ASSUME BarrierInv, ~closed, KeepsOwed, InStage' = InStage,
           UNCHANGED <<stage, passed, attempt, resultCh, currentLinkIndex, closed>>
    PROVE  BarrierStep
<1>1. BarrierInv'
  BY DEF BarrierInv, KeepsOwed
<1>2. Successful' = Successful
  BY DEF Successful
<1>3. UNCHANGED Barrier!vars
  BY <1>2 DEF Barrier!vars, KeepsOwed, Successful
<1> QED
  BY <1>1, <1>3 DEF BarrierStep

\* A step that moves no task and lets none go owes the stage the same.
LEMMA UnmovedOwed ==
    ASSUME UNCHANGED <<task, place, lost, stage>>
    PROVE  KeepsOwed /\ Outstanding' = Outstanding
BY DEF KeepsOwed, Outstanding, Unanswered, Pending

\* A sequence with one more element has a success if it had one or that is one.
LEMMA SuccessAppended ==
    ASSUME NEW s \in Seq(Outcome), NEW x \in Outcome
    PROVE  (\E i \in DOMAIN Append(s, x) : Append(s, x)[i].ok)
              <=> (\E i \in DOMAIN s : s[i].ok) \/ x.ok
<1>1. /\ Len(s) \in Nat /\ DOMAIN s = 1..Len(s)
      /\ DOMAIN Append(s, x) = 1..(Len(s) + 1)
      /\ \A i \in 1..Len(s) : Append(s, x)[i] = s[i]
      /\ Append(s, x)[Len(s) + 1] = x
  BY LenProperties, AppendProperties
<1> QED
  BY <1>1

\* A sequence has a success if its head is one or its tail has one.
LEMMA SuccessReceived ==
    ASSUME NEW s \in Seq(Outcome), s # <<>>
    PROVE  (\E i \in DOMAIN s : s[i].ok)
              <=> Head(s).ok \/ (\E i \in DOMAIN Tail(s) : Tail(s)[i].ok)
<1>1. /\ Len(s) \in Nat /\ DOMAIN s = 1..Len(s) /\ Len(s) >= 1
      /\ Tail(s) \in Seq(Outcome) /\ Len(Tail(s)) = Len(s) - 1
      /\ \A i \in 1..Len(Tail(s)) : Tail(s)[i] = s[i + 1]
      /\ Head(s) = s[1]
  BY LenProperties, EmptySeq, HeadTailProperties
<1>2. DOMAIN Tail(s) = 1..(Len(s) - 1)
  BY <1>1, LenProperties
<1>3. ASSUME NEW i \in DOMAIN s, s[i].ok
      PROVE  Head(s).ok \/ (\E j \in DOMAIN Tail(s) : Tail(s)[j].ok)
  <2>1. CASE i = 1
    BY <1>1, <1>3, <2>1
  <2>2. CASE i # 1
    <3>1. i - 1 \in 1..(Len(s) - 1) /\ (i - 1) + 1 = i
      BY <1>1, <2>2
    <3>2. Tail(s)[i - 1].ok
      BY <1>1, <1>3, <3>1
    <3> QED
      BY <1>2, <3>1, <3>2
  <2> QED
    BY <2>1, <2>2
<1>4. ASSUME NEW j \in DOMAIN Tail(s), Tail(s)[j].ok
      PROVE  \E i \in DOMAIN s : s[i].ok
  <2>1. j + 1 \in DOMAIN s /\ s[j + 1].ok
    BY <1>1, <1>2, <1>4
  <2> QED
    BY <2>1
<1>5. ASSUME Head(s).ok
      PROVE  \E i \in DOMAIN s : s[i].ok
  BY <1>1, <1>5
<1> QED
  BY <1>3, <1>4, <1>5

\* The reply of a worker is the answer of its outbound; between two stages no
\* outcome is sent.
LEMMA ReplyBarrier ==
    ASSUME TypeInv, TypeInv', OneReference, StageInv, BarrierInv, ~closed,
           NEW w \in Worker, Reply(w)
    PROVE  BarrierStep
<1>1. UNCHANGED <<cycle, stage, passed, attempt, currentLinkIndex, closed>>
  BY DEF Reply, cycleVars
<1>2. InStage' = InStage
  BY <1>1 DEF InStage
<1>3. CASE InStage /\ AnswersOwed(w)
  <2> DEFINE o == Held(w).tag
  <2>1. /\ o \in Outstanding /\ Outstanding' = Outstanding \ {o}
        /\ \E x \in Outcome : x.ok = success[w] /\ resultCh' = Append(resultCh, x)
    BY <1>3 DEF AnswersOwed
  <2>2. resultCh \in Seq(Outcome) /\ success[w] \in BOOLEAN /\ o \in Tag
    BY <2>1, OutstandingFacts DEF TypeInv, TypeOK, ResultTypes, PoolTypes
  <2>3. Successful' <=> Successful \/ success[w]
    BY <1>1, <2>1, <2>2, SuccessAppended DEF Successful
  <2>4. PICK p \in Tag, ok \in BOOLEAN : p = o /\ ok = success[w]
    BY <2>2
  <2>5. Barrier!Answer(p, ok)
    BY <1>1, <1>2, <1>3, <2>1, <2>3, <2>4 DEF Barrier!Answer, Successful
  <2>6. Barrier!Next
    BY <2>5 DEF Barrier!Next
  <2>7. BarrierInv'
    BY <1>2, <1>3 DEF BarrierInv
  <2> QED
    BY <2>6, <2>7 DEF BarrierStep
<1>4. CASE KeepsOwed /\ (InStage => UNCHANGED resultCh)
  <2>1. CASE InStage
    BY <1>1, <1>2, <1>4, <2>1, BarrierStutters
  <2>2. CASE ~InStage
    <3>1. stage # 0 => held[w] \notin OwedTasks
      BY <2>2, OutstandingFacts DEF BarrierInv
    <3>2. ~(Held(w).stage = stage /\ stage # 0)
      BY <3>1, HeldUnanswered DEF OwedTasks, Held, Reply
    <3>3. UNCHANGED resultCh
      BY <3>2 DEF Reply
    <3> QED
      BY <1>1, <1>2, <1>4, <3>3, BarrierStutters
  <2> QED
    BY <2>1, <2>2
<1> QED
  BY <1>3, <1>4, ReplyOwed DEF AnswersOwed

\* When a stage waits for no more outcomes, its channel is empty and nobody is
\* outstanding.
LEMMA NobodyOutstanding ==
    ASSUME TypeInv, StageInv, ~closed, InStage, expected = 0
    PROVE  resultCh = <<>> /\ Outstanding = {}
<1>1. 0 = Len(resultCh) + Cardinality(Outstanding)
  BY DEF StageInv, StageAccounting
<1>2. resultCh \in Seq(Outcome) /\ Len(resultCh) \in Nat
  BY LenProperties DEF TypeInv, TypeOK, ResultTypes
<1>3. Len(resultCh) = 0 /\ Cardinality(Outstanding) = 0
  BY <1>1, <1>2, OutstandingFacts
<1> QED
  BY <1>2, <1>3, OutstandingFacts, EmptySeq, FS_EmptySet

\* The steps of the cycle.
LEMMA CycleBarrierStep ==
    ASSUME TypeInv, TypeInv', StageInv, BarrierInv, ~closed, CycleStep
    PROVE  BarrierStep
<1> USE DEF queueVars, cycleVars
<1>1. CASE BeginCycle \/ (\E o \in Tag : Collect(o) \/ SaveOne(o))
  <2>1. /\ UNCHANGED <<task, place, lost, stage, passed, attempt, resultCh,
                       currentLinkIndex, closed>>
        /\ InStage' = InStage
    BY <1>1 DEF BeginCycle, Collect, SaveOne, InStage
  <2> QED
    BY <2>1, UnmovedOwed, BarrierStutters
<1>2. CASE EndCollect /\ tags = {}
  <2>1. /\ UNCHANGED <<task, place, lost, stage, passed, attempt, resultCh,
                       currentLinkIndex, closed>>
        /\ InStage' = InStage
    BY <1>2 DEF EndCollect, InStage
  <2> QED
    BY <2>1, UnmovedOwed, BarrierStutters
<1>3. CASE EndCollect /\ tags # {}
  <2>1. /\ ~InStage /\ InStage' /\ OpenStage /\ attempt' = 1 /\ ~passed' /\ resultCh' = <<>>
        /\ UNCHANGED <<task, place, lost, tags, currentLinkIndex, closed>>
    BY <1>3 DEF EndCollect, OpenStage, InStage
  <2>2. ~passed /\ attempt = 1 /\ resultCh = <<>>
    BY <2>1 DEF BarrierInv
  <2>3. ~Successful /\ ~Successful'
    BY <2>1, <2>2 DEF Successful
  <2>4. Outstanding' = {}
    BY <2>1, OpenOwed
  <2>5. Barrier!Start
    BY <2>1, <2>2, <2>3, <2>4 DEF Barrier!Start, Successful
  <2> QED
    BY <2>1, <2>5 DEF BarrierStep, BarrierInv, Barrier!Next
<1>4. ASSUME NEW o \in Tag, EnqueueStage(o) PROVE BarrierStep
  <2>1. /\ UNCHANGED <<stage, passed, attempt, resultCh, currentLinkIndex, closed>>
        /\ InStage /\ InStage'
    BY <1>4 DEF EnqueueStage, InStage
  <2>2. CASE Outstanding' = Outstanding
    BY <2>1, <2>2, BarrierStutters DEF KeepsOwed
  <2>3. CASE Outstanding' = Outstanding \cup {o}
    <3>1. Successful' = Successful
      BY <2>1 DEF Successful
    <3>2. Barrier!Ask(o)
      BY <1>4, <2>1, <2>3, <3>1, AskOwed DEF Barrier!Ask, Successful
    <3> QED
      BY <2>1, <3>2 DEF BarrierStep, BarrierInv, Barrier!Next
  <2> QED
    BY <1>4, <2>2, <2>3, AskOwed
<1>5. CASE Receive
  <2>1. /\ UNCHANGED <<stage, attempt, currentLinkIndex, closed>> /\ InStage /\ InStage'
        /\ resultCh # <<>> /\ resultCh' = Tail(resultCh)
        /\ passed' = (passed \/ Head(resultCh).ok)
    BY <1>5 DEF Receive, InStage, CountOutcome
  <2>2. resultCh \in Seq(Outcome)
    BY DEF TypeInv, TypeOK, ResultTypes
  <2>3. Successful' <=> Successful
    BY <2>1, <2>2, SuccessReceived DEF Successful
  <2>4. Outstanding' = Outstanding
    BY <1>5, <2>1, ReceiveOwed DEF KeepsOwed
  <2>5. UNCHANGED Barrier!vars
    BY <2>1, <2>3, <2>4 DEF Barrier!vars, Successful
  <2> QED
    BY <2>1, <2>5 DEF BarrierStep, BarrierInv
<1>6. CASE AbandonStage
  BY <1>6 DEF AbandonStage
<1>7. CASE NextStage
  <2>1. /\ InStage /\ InStage' /\ OpenStage /\ expected = 0 /\ ~passed /\ ~passed'
        /\ resultCh' = <<>> /\ attempt < Links /\ attempt' = attempt + 1
        /\ currentLinkIndex' = (currentLinkIndex + 1) % Links
        /\ UNCHANGED <<task, place, lost, tags, closed>>
    BY <1>7 DEF NextStage, OpenStage, InStage, NextLink
  <2>2. resultCh = <<>> /\ Outstanding = {}
    BY <2>1, NobodyOutstanding
  <2>3. ~Successful /\ ~Successful'
    BY <2>1, <2>2 DEF Successful
  <2>4. Outstanding' = {}
    BY <2>1, OpenOwed
  <2>5. Barrier!TryNextLink
    BY <2>1, <2>2, <2>3, <2>4 DEF Barrier!TryNextLink, Successful
  <2> QED
    BY <2>1, <2>5 DEF BarrierStep, BarrierInv, Barrier!Next
<1>8. CASE EndCycle
  <2>1. /\ InStage /\ ~InStage' /\ expected = 0 /\ (passed \/ attempt = Links)
        /\ ~passed' /\ attempt' = 1
        /\ UNCHANGED <<task, place, lost, stage, resultCh, currentLinkIndex, closed>>
    BY <1>8 DEF EndCycle, InStage
  <2>2. resultCh = <<>> /\ Outstanding = {} /\ Outstanding' = {}
    BY <2>1, NobodyOutstanding, UnmovedOwed
  <2>3. ~Successful' /\ (Successful \/ attempt = Links)
    BY <2>1, <2>2 DEF Successful
  <2>4. Barrier!Conclude
    BY <2>1, <2>2, <2>3 DEF Barrier!Conclude, Successful
  <2> QED
    BY <2>1, <2>2, <2>4 DEF BarrierStep, BarrierInv, Barrier!Next
<1> QED
  BY <1>1, <1>2, <1>3, <1>4, <1>5, <1>6, <1>7, <1>8 DEF CycleStep

\* While the monitor is open, every step is one of the barrier.
LEMMA OpenBarrierStep ==
    ASSUME TypeInv, TypeInv', OneReference, StageInv, BarrierInv, ~closed, [Next]_vars
    PROVE  BarrierStep
<1> USE DEF queueVars, cycleVars, poolVars
<1> DEFINE Still == UNCHANGED <<stage, cycle, toVisit, tags, expected, passed,
                                attempt, resultCh, currentLinkIndex, closed>>
<1>1. ASSUME KeepsOwed, Still PROVE BarrierStep
  BY <1>1, BarrierStutters DEF InStage
<1>2. ASSUME UNCHANGED <<task, place, lost>>, Still PROVE BarrierStep
  BY <1>1, <1>2, UnmovedOwed
<1>3. CASE CallStep
  <2>1. ASSUME NEW c \in Caller, NEW x \in Tag, TestNow(c, x) \/ InvalidateTest(c, x)
        PROVE  BarrierStep
    BY <1>2, <2>1 DEF TestNow, InvalidateTest
  <2>2. ASSUME NEW c \in Thread, NEW q \in todo[c], CallEnqueue(c, q)
        PROVE  BarrierStep
    <3> DEFINE r == NewTask(q.tag, cycleSeq, q.priority, 0)
    <3>1. q \in Request
      BY DEF TypeInv, TypeOK, CallTypes
    <3>2. r \in TaskRecord /\ r.stage = 0
      BY <3>1 DEF NewTask, TaskRecord, Request, TypeInv, TypeOK, CycleTypes
    <3>3. EnqueueNew(r) /\ Still
      BY <2>2 DEF CallEnqueue
    <3> HIDE DEF r
    <3> QED
      BY <1>1, <3>2, <3>3, CallOwed
  <2> QED
    BY <1>3, <2>1, <2>2 DEF CallStep
<1>4. CASE ReadyStep
  BY <1>2, <1>4 DEF ReadyStep, BecomeReady, LoseReady
<1>5. ASSUME NEW w \in Worker, WorkerStep(w) \/ ProbeStep(w) PROVE BarrierStep
  <2>1. CASE Reply(w)
    BY <2>1, ReplyBarrier
  <2>2. CASE ~Reply(w)
    <3>1. Still
      BY <1>5, <2>2 DEF WorkerStep, ProbeStep, TakePriority, EnterSelect, TakeNormal,
         WorkerExit, Postpone, StartProbe, FinishTask, AbandonTask, ProbeReturns, ApplyResult
    <3> QED
      BY <1>1, <1>5, <2>2, <3>1, WorkerOwed
  <2> QED
    BY <2>1, <2>2
<1>6. ASSUME NEW t \in Task, Retry(t) PROVE BarrierStep
  <2>1. Still
    BY <1>6 DEF Retry
  <2> QED
    BY <1>1, <1>6, <2>1, RetryOwed
<1>7. CASE StartCycleOnce
  <2>1. /\ UNCHANGED <<task, place, lost, stage, passed, attempt, resultCh,
                       currentLinkIndex, closed>>
        /\ InStage' = InStage
    BY <1>7 DEF StartCycleOnce, InStage
  <2> QED
    BY <2>1, UnmovedOwed, BarrierStutters
<1>8. CASE CycleStep
  BY <1>8, CycleBarrierStep
<1>9. CASE Close
  <2>1. /\ UNCHANGED <<task, place, lost, stage, cycle, passed, attempt, resultCh,
                       currentLinkIndex>>
        /\ closed' = TRUE
    BY <1>9 DEF Close
  <2>2. Outstanding' = Outstanding /\ InStage' = InStage /\ Successful' = Successful
    BY <2>1, UnmovedOwed DEF InStage, Successful
  <2>3. Barrier!Close
    BY <2>1, <2>2 DEF Barrier!Close, Successful
  <2> QED
    BY <2>1, <2>3 DEF BarrierStep, BarrierInv, Barrier!Next
<1>10. CASE UNCHANGED vars
  BY <1>2, <1>10 DEF vars
<1> QED
  BY <1>3, <1>4, <1>5, <1>6, <1>7, <1>8, <1>9, <1>10 DEF Next

\* The outbounds a stage waits for are registered.
LEMMA OutstandingTags == TypeInv => Outstanding \subseteq Tag
BY OutstandingFacts

\* After Close only the types are promised, and they hold.
LEMMA ClosedBarrierStep ==
    ASSUME TypeInv', closed, [Next]_vars
    PROVE  BarrierStep
<1>1. closed' = closed
  BY DEF Next, CallStep, ReadyStep, WorkerStep, ProbeStep, CycleStep, TestNow,
     InvalidateTest, CallEnqueue, BecomeReady, LoseReady, TakePriority, EnterSelect,
     TakeNormal, WorkerExit, Postpone, StartProbe, FinishTask, AbandonTask,
     ProbeReturns, ApplyResult, Reply, Retry, StartCycleOnce, BeginCycle, Collect,
     EndCollect, EnqueueStage, Receive, AbandonStage, NextStage, EndCycle, SaveOne,
     Close, vars
<1>2. Outstanding' \subseteq Tag
  <2>1. (Outstanding \subseteq Tag)'
    BY OutstandingTags, PTL
  <2> QED
    BY <2>1
<1>3. /\ InStage' \in BOOLEAN /\ attempt' \in 1..Links /\ currentLinkIndex' \in 0..(Links - 1)
      /\ closed' \in BOOLEAN
  BY DEF InStage, TypeInv, TypeOK, CycleTypes, FlagTypes, Link
<1>4. Barrier!Wind
  BY <1>1, <1>2, <1>3 DEF Barrier!Wind, Barrier!BarrierTypeOK
<1> QED
  BY <1>1, <1>4 DEF BarrierStep, BarrierInv, Barrier!Next

\* The monitor implements CycleBarrier: whatever queues, retries, duplicates and
\* refused requests do, runCycle concludes a stage or tries the next URL only when
\* every outbound it asked has answered, and it forgets no success.
THEOREM BarrierImplemented == Spec => ImplementsBarrier
<1>1. Init => BarrierInv /\ Barrier!Init
  <2> SUFFICES ASSUME Init PROVE BarrierInv /\ Barrier!Init
    OBVIOUS
  <2>1. ~passed /\ resultCh = <<>> /\ ~InStage /\ stage = 0 /\ attempt = 1
        /\ currentLinkIndex = 0 /\ closed = FALSE
    BY DEF Init, InStage
  <2>2. ~Successful
    BY <2>1 DEF Successful
  <2> QED
    BY <2>1, <2>2 DEF BarrierInv, Barrier!Init, Successful
<1>2. TypeInv /\ TypeInv' /\ OneReference /\ StageInv /\ BarrierInv /\ [Next]_vars
          => BarrierInv' /\ [Barrier!Next]_(Barrier!vars)
  BY OpenBarrierStep, ClosedBarrierStep DEF BarrierStep
<1> QED
  BY <1>1, <1>2, StageInvariant, PTL DEF Spec, ImplementsBarrier, Barrier!Spec

=============================================================================
