---------------------------- MODULE MonitorTimer ----------------------------
(***************************************************************************)
(* The idle timer of the outbound monitor (outbound_monitoring.go: Touch,  *)
(* startTimerWorkers, stopTimerWorkers, scheduleLoop, Close).              *)
(*                                                                         *)
(* Every routed connection touches the monitor.  The first touch starts a  *)
(* ticker and the loop that reads it; the loop stops both when nobody has  *)
(* touched the monitor for the idle timeout.  Touch holds m.access, but    *)
(* neither the loop nor Close does: they read and write mainTicker and     *)
(* pauseCallback without it, and only workersRunning is atomic.  So every  *)
(* read and write of these fields is a step of its own here.               *)
(*                                                                         *)
(* Ticker number g, the loop and the pause callback that its start makes   *)
(* share the number g; 0 is nil.                                           *)
(***************************************************************************)
EXTENDS Integers, FiniteSets

CONSTANTS
    Toucher,     \* threads that route connections
    NoToucher,   \* the holder of m.access when it is free
    MaxTickers   \* bound on the number of tickers created

ASSUME TimerAssumption ==
    /\ NoToucher \notin Toucher
    /\ MaxTickers \in Nat

Ticker == 1..MaxTickers

Closer == 0   \* the thread of Close, among those that call stopTimerWorkers

VARIABLES
    workersRunning,  \* the atomic flag
    mainTicker,      \* m.mainTicker
    pauseCallback,   \* m.pauseCallback
    recent,          \* lastActive is younger than the idle timeout
    created,         \* number of tickers created so far
    ticking,         \* tickers that are not stopped
    callbacks,       \* callbacks of the pause manager, each with the ticker it holds
    access,          \* holder of m.access
    touch,           \* program counter of each Toucher
    pc,              \* program counter of each loop and of Close
    mine,            \* the ticker each loop reads
    schedulerWG,     \* counter of the wait group
    ctxDone,         \* the monitor's context is cancelled
    panicked,        \* a nil pointer was dereferenced: the process is gone
    overlapped       \* history: a start began before a stop had ended

fieldVars == <<workersRunning, mainTicker, pauseCallback, recent>>
worldVars == <<created, ticking, callbacks>>
threadVars == <<access, touch>>
vars == <<fieldVars, worldVars, threadVars, pc, mine, schedulerWG, ctxDone,
          panicked, overlapped>>

StopPcs == {"cas", "stop", "clear", "save", "unregister"}

FieldTypes ==
    /\ workersRunning \in BOOLEAN
    /\ mainTicker \in Ticker \cup {0}
    /\ pauseCallback \in Ticker \cup {0}
    /\ recent \in BOOLEAN
    /\ created \in 0..MaxTickers
    /\ ticking \in SUBSET Ticker
    /\ callbacks \in SUBSET (Ticker \X (Ticker \cup {0}))
    /\ access \in Toucher \cup {NoToucher}
    /\ touch \in [Toucher -> {"idle", "store", "cas", "make", "register", "spawn"}]
    /\ pc \in [Ticker \cup {Closer} ->
                 StopPcs \cup {"none", "begin", "select", "ticked", "cancel",
                               "wait", "done"}]
    /\ mine \in [Ticker -> Ticker \cup {0}]
    /\ ctxDone \in BOOLEAN
    /\ panicked \in BOOLEAN
    /\ overlapped \in BOOLEAN

TimerTypeOK == FieldTypes /\ schedulerWG \in 0..MaxTickers

Init ==
    /\ workersRunning = FALSE
    /\ mainTicker = 0
    /\ pauseCallback = 0
    /\ recent = FALSE
    /\ created = 0
    /\ ticking = {}
    /\ callbacks = {}
    /\ access = NoToucher
    /\ touch = [t \in Toucher |-> "idle"]
    /\ pc = [p \in Ticker \cup {Closer} |-> "none"]
    /\ mine = [g \in Ticker |-> 0]
    /\ schedulerWG = 0
    /\ ctxDone = FALSE
    /\ panicked = FALSE
    /\ overlapped = FALSE

Goto(p, where) == pc' = [pc EXCEPT ![p] = where]

Panic ==
    /\ panicked' = TRUE
    /\ UNCHANGED <<fieldVars, worldVars, threadVars, pc, mine, schedulerWG,
                   ctxDone, overlapped>>

-----------------------------------------------------------------------------
(* Touch. *)

TouchGoto(t, where) == touch' = [touch EXCEPT ![t] = where]

\* Touch takes the lock and looks at mainTicker.  The bound MaxTickers stops
\* touches that would create one more.
TouchLooks(t) ==
    /\ touch[t] = "idle"
    /\ access = NoToucher
    /\ mainTicker = 0 => created < MaxTickers
    /\ access' = t
    /\ TouchGoto(t, IF mainTicker = 0 THEN "cas" ELSE "store")
    /\ UNCHANGED <<fieldVars, worldVars, pc, mine, schedulerWG, ctxDone,
                   panicked, overlapped>>

TouchStores(t) ==
    /\ touch[t] = "store"
    /\ recent' = TRUE
    /\ access' = NoToucher
    /\ TouchGoto(t, "idle")
    /\ UNCHANGED <<workersRunning, mainTicker, pauseCallback, worldVars, pc,
                   mine, schedulerWG, ctxDone, panicked, overlapped>>

Stopping(p) == pc[p] \in StopPcs \ {"cas"}

\* Mutation: the goroutine starts before the ticker is there.
StartBeforeTicker(t) ==
    /\ touch[t] = "cas"
    /\ ~workersRunning
    /\ workersRunning' = TRUE
    /\ TouchGoto(t, "make")
    /\ Goto(created + 1, "begin")
    /\ UNCHANGED <<mainTicker, pauseCallback, recent, worldVars, access, mine,
                   schedulerWG, ctxDone, panicked, overlapped>>

StartTimerWorkers(t) ==
    /\ touch[t] = "cas"
    /\ IF workersRunning
       THEN /\ access' = NoToucher
            /\ TouchGoto(t, "idle")
            /\ UNCHANGED <<workersRunning, overlapped>>
       ELSE /\ workersRunning' = TRUE
            /\ TouchGoto(t, "make")
            /\ overlapped' = (overlapped \/ \E p \in Ticker : Stopping(p))
            /\ UNCHANGED access
    /\ UNCHANGED <<mainTicker, pauseCallback, recent, worldVars, pc, mine,
                   schedulerWG, ctxDone, panicked>>

MakeTicker(t) ==
    /\ touch[t] = "make"
    /\ created' = created + 1
    /\ ticking' = ticking \cup {created'}
    /\ mainTicker' = created'
    /\ TouchGoto(t, "register")
    /\ UNCHANGED <<workersRunning, pauseCallback, recent, callbacks, access, pc,
                   mine, schedulerWG, ctxDone, panicked, overlapped>>

\* mainTicker is read again here: Close may have cleared it.
RegisterTicker(t) ==
    /\ touch[t] = "register"
    /\ pauseCallback' = created
    /\ callbacks' = callbacks \cup {<<created, mainTicker>>}
    /\ TouchGoto(t, "spawn")
    /\ UNCHANGED <<workersRunning, mainTicker, recent, created, ticking, access,
                   pc, mine, schedulerWG, ctxDone, panicked, overlapped>>

SpawnLoop(t) ==
    /\ touch[t] = "spawn"
    /\ schedulerWG' = schedulerWG + 1
    /\ Goto(created, "begin")
    /\ access' = NoToucher
    /\ TouchGoto(t, "idle")
    /\ UNCHANGED <<fieldVars, worldVars, mine, ctxDone, panicked, overlapped>>

\* The idle timeout passes without another touch.
TimePasses ==
    /\ recent
    /\ recent' = FALSE
    /\ UNCHANGED <<workersRunning, mainTicker, pauseCallback, worldVars,
                   threadVars, pc, mine, schedulerWG, ctxDone, panicked,
                   overlapped>>

-----------------------------------------------------------------------------
(* scheduleLoop.  The cycle it starts is the subject of OutboundMonitor. *)

\* The loop keeps the ticker it finds.
LoopBegins(g) ==
    /\ pc[g] = "begin"
    /\ mainTicker # 0
    /\ mine' = [mine EXCEPT ![g] = mainTicker]
    /\ Goto(g, "select")
    /\ UNCHANGED <<fieldVars, worldVars, threadVars, schedulerWG, ctxDone,
                   panicked, overlapped>>

\* Reading the channel of a nil ticker panics.
LoopPanics(g) == pc[g] = "begin" /\ mainTicker = 0 /\ Panic

LoopCancelled(g) ==
    /\ pc[g] = "select"
    /\ ctxDone
    /\ schedulerWG' = schedulerWG - 1
    /\ Goto(g, "done")
    /\ UNCHANGED <<fieldVars, worldVars, threadVars, mine, ctxDone, panicked,
                   overlapped>>

Tick(g) ==
    /\ pc[g] = "select"
    /\ mine[g] \in ticking
    /\ Goto(g, "ticked")
    /\ UNCHANGED <<fieldVars, worldVars, threadVars, mine, schedulerWG, ctxDone,
                   panicked, overlapped>>

\* Mutation: the idle loop returns without stopping the timer.
LoopReturnsWhenIdle(g) ==
    /\ pc[g] = "ticked"
    /\ IF recent
       THEN Goto(g, "select") /\ UNCHANGED schedulerWG
       ELSE Goto(g, "done") /\ schedulerWG' = schedulerWG - 1
    /\ UNCHANGED <<fieldVars, worldVars, threadVars, mine, ctxDone, panicked,
                   overlapped>>

\* Mutation: the idle loop stays in the wait group.
LoopStaysInGroup(g) ==
    /\ pc[g] = "ticked"
    /\ Goto(g, IF recent THEN "select" ELSE "cas")
    /\ UNCHANGED <<fieldVars, worldVars, threadVars, mine, schedulerWG, ctxDone,
                   panicked, overlapped>>

\* lastActive against idleTimeout.  The loop leaves the wait group before it
\* stops the timer.
LoopChecksIdle(g) ==
    /\ pc[g] = "ticked"
    /\ IF recent
       THEN Goto(g, "select") /\ UNCHANGED schedulerWG
       ELSE Goto(g, "cas") /\ schedulerWG' = schedulerWG - 1
    /\ UNCHANGED <<fieldVars, worldVars, threadVars, mine, ctxDone, panicked,
                   overlapped>>

-----------------------------------------------------------------------------
(* stopTimerWorkers, called by an idle loop or by Close. *)

AfterStop(p) == IF p = Closer THEN "cancel" ELSE "done"

\* Mutation: the flag is tested but not cleared.
StopTests(p) ==
    /\ pc[p] = "cas"
    /\ Goto(p, IF workersRunning THEN "stop" ELSE AfterStop(p))
    /\ UNCHANGED <<fieldVars, worldVars, threadVars, mine, schedulerWG, ctxDone,
                   panicked, overlapped>>

StopCas(p) ==
    /\ pc[p] = "cas"
    /\ workersRunning' = FALSE
    /\ Goto(p, IF workersRunning THEN "stop" ELSE AfterStop(p))
    /\ UNCHANGED <<mainTicker, pauseCallback, recent, worldVars, threadVars,
                   mine, schedulerWG, ctxDone, panicked, overlapped>>

\* Mutation: the ticker is dropped, not stopped.
ForgetTicker(p) ==
    /\ pc[p] = "stop"
    /\ mainTicker # 0
    /\ Goto(p, "clear")
    /\ UNCHANGED <<fieldVars, worldVars, threadVars, mine, schedulerWG, ctxDone,
                   panicked, overlapped>>

StopTicker(p) ==
    /\ pc[p] = "stop"
    /\ mainTicker # 0
    /\ ticking' = ticking \ {mainTicker}
    /\ Goto(p, "clear")
    /\ UNCHANGED <<fieldVars, created, callbacks, threadVars, mine, schedulerWG,
                   ctxDone, panicked, overlapped>>

\* The flag is set before the ticker is made: Stop of a nil ticker panics.
StopPanics(p) == pc[p] = "stop" /\ mainTicker = 0 /\ Panic

ClearTicker(p) ==
    /\ pc[p] = "clear"
    /\ mainTicker' = 0
    /\ Goto(p, "save")
    /\ UNCHANGED <<workersRunning, pauseCallback, recent, worldVars, threadVars,
                   mine, schedulerWG, ctxDone, panicked, overlapped>>

\* saveHistory, if the cache is dirty: it takes its time.
Save(p) ==
    /\ pc[p] = "save"
    /\ Goto(p, "unregister")
    /\ UNCHANGED <<fieldVars, worldVars, threadVars, mine, schedulerWG, ctxDone,
                   panicked, overlapped>>

\* pauseCallback is read here, not when the stop began.
UnregisterCallback(p) ==
    /\ pc[p] = "unregister"
    /\ callbacks' = {c \in callbacks : c[1] # pauseCallback}
    /\ Goto(p, AfterStop(p))
    /\ UNCHANGED <<fieldVars, created, ticking, threadVars, mine, schedulerWG,
                   ctxDone, panicked, overlapped>>

\* A callback that was never stored is a nil element of the pause manager's
\* list, which may panic.
UnregisterPanics(p) == pc[p] = "unregister" /\ pauseCallback = 0 /\ Panic

-----------------------------------------------------------------------------
(* Close, once. *)

CloseBegins ==
    /\ pc[Closer] = "none"
    /\ Goto(Closer, "cas")
    /\ UNCHANGED <<fieldVars, worldVars, threadVars, mine, schedulerWG, ctxDone,
                   panicked, overlapped>>

Cancel ==
    /\ pc[Closer] = "cancel"
    /\ ctxDone' = TRUE
    /\ Goto(Closer, "wait")
    /\ UNCHANGED <<fieldVars, worldVars, threadVars, mine, schedulerWG, panicked,
                   overlapped>>

CloseReturns ==
    /\ pc[Closer] = "wait"
    /\ schedulerWG = 0
    /\ Goto(Closer, "done")
    /\ UNCHANGED <<fieldVars, worldVars, threadVars, mine, schedulerWG, ctxDone,
                   panicked, overlapped>>

-----------------------------------------------------------------------------

TouchStep(t) ==
    \/ TouchLooks(t) \/ TouchStores(t) \/ StartTimerWorkers(t)
    \/ MakeTicker(t) \/ RegisterTicker(t) \/ SpawnLoop(t)

LoopStep(g) ==
    \/ LoopBegins(g) \/ LoopPanics(g) \/ LoopCancelled(g) \/ Tick(g)
    \/ LoopChecksIdle(g)

StopStep(p) ==
    \/ StopCas(p) \/ StopTicker(p) \/ StopPanics(p) \/ ClearTicker(p) \/ Save(p)
    \/ UnregisterCallback(p) \/ UnregisterPanics(p)

CloseStep == CloseBegins \/ Cancel \/ CloseReturns

\* A panic ends the process.
Next ==
    /\ ~panicked
    /\ \/ \E t \in Toucher : TouchStep(t)
       \/ TimePasses
       \/ \E g \in Ticker : LoopStep(g)
       \/ \E p \in Ticker \cup {Closer} : StopStep(p)
       \/ CloseStep

Spec == Init /\ [][Next]_vars

\* Goroutines that can run do, and a ticker ticks.  That a connection touches
\* the monitor, that time passes and that Close is called is not assumed.
Fairness ==
    /\ \A t \in Toucher : WF_vars(~panicked /\ touch[t] # "idle" /\ TouchStep(t))
    /\ \A g \in Ticker : WF_vars(~panicked /\ LoopStep(g))
    /\ \A g \in Ticker : SF_vars(~panicked /\ LoopCancelled(g))
    /\ \A p \in Ticker \cup {Closer} : WF_vars(~panicked /\ StopStep(p))
    /\ WF_vars(~panicked /\ (Cancel \/ CloseReturns))

FairSpec == Spec /\ Fairness

-----------------------------------------------------------------------------
(* Properties. *)

Closing == pc[Closer] # "none"

Live(g) == pc[g] \in {"begin", "select", "ticked"}

\* Two tickers never run at once, so outbounds are not tested twice per
\* interval, although a stop is not under the lock of a start.
OneTicker == Cardinality(ticking) <= 1

\* While mainTicker is set no touch starts a timer; then some loop must be there
\* to read that ticker, or on its way in or out.  Otherwise every later touch
\* would be ignored and the outbounds never tested again.
TickerHasLoop ==
    mainTicker # 0 /\ ~Closing =>
        \/ \E t \in Toucher : touch[t] \in {"register", "spawn"}
        \/ pc[mainTicker] \in {"begin", "select", "ticked", "cas", "stop", "clear"}

\* The unlocked fields are nil when stopTimerWorkers or scheduleLoop uses them
\* only if Close runs against a touch: never in the loop's own stop.
PanicOnlyWhileClosing == panicked => Closing

\* When no start and no stop is under way, exactly the callback of the running
\* ticker is registered with the pause manager, and holds that ticker, unless a
\* touch has started a timer before a stop had unregistered its callback: that
\* stop then reads the new pauseCallback.
CallbackMatchesTicker ==
    (~Closing /\ ~overlapped
     /\ (\A t \in Toucher : touch[t] \in {"idle", "store", "cas"})
     /\ (\A g \in Ticker : ~Stopping(g)))
    => callbacks = (IF mainTicker = 0 THEN {} ELSE {<<mainTicker, mainTicker>>})

\* No stop leaves anything of an earlier timer behind: neither a second ticker
\* nor a pause callback whose ticker is gone (stopTimerWorkers).
NoTimerLeaks == OneTicker /\ CallbackMatchesTicker

\* A touch that finds no ticker gets a loop going.
TouchStarts ==
    \A t \in Toucher : touch[t] = "cas" ~>
        (panicked \/ Closing \/ \E g \in Ticker : pc[g] = "select" /\ mine[g] \in ticking)

\* A monitor that nobody has touched for the idle timeout stops its ticker.
IdleStops == (mainTicker # 0 /\ ~recent) ~> (mainTicker = 0 \/ recent \/ Closing)

\* Close returns, and no loop stays behind, even one a late touch has started.
TimerCloses ==
    /\ Closing ~> (panicked \/ pc[Closer] = "done")
    /\ \A g \in Ticker : (Live(g) /\ Closing) ~> (panicked \/ ~Live(g))
=============================================================================
