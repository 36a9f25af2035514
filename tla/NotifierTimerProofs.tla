------------------------- MODULE NotifierTimerProofs -------------------------
(***************************************************************************)
(* Proofs about MonitorTimer, for any number of touching threads and of    *)
(* tickers: two tickers never run at once, a stop takes its own callback   *)
(* along, a set mainTicker always has a loop, the wait group counts the    *)
(* loops, and a nil field is used only against Close.  And proofs about    *)
(* GroupNotifier, the instance Notifier, for any outbounds, subscribers    *)
(* and capacities: no result is lost on its way to a subscriber, and       *)
(* nothing is sent to a closed channel.                                    *)
(***************************************************************************)
EXTENDS MCNotifierTimer, TLAPS, FiniteSetTheorems

Thread == Ticker \cup {Closer}

Owns(p) == pc[p] \in {"stop", "clear"}

\* m.access: a thread inside Touch holds it.
LockInv ==
    /\ \A t \in Toucher : touch[t] # "idle" => access = t
    /\ \A t \in Toucher : touch[t] \in {"cas", "make"} =>
           mainTicker = 0 /\ created < MaxTickers

\* workersRunning is a token: it is in the flag, or with the one thread that has
\* cleared it and not yet cleared mainTicker.  While the token exists nobody
\* starts a timer.
TokenInv ==
    /\ \A p, q \in Thread : Owns(p) /\ Owns(q) => p = q
    /\ workersRunning => \A p \in Thread : ~Owns(p)
    /\ workersRunning \/ (\E p \in Thread : Owns(p)) =>
           mainTicker # 0 \/ \E t \in Toucher : touch[t] = "make"
    /\ \A p \in Thread : pc[p] = "clear" => mainTicker # 0 /\ ticking = {}
    /\ ticking \subseteq {mainTicker}

Working(g) == pc[g] \in {"begin", "select", "ticked", "cas"}

\* Until Close begins, a loop that has not given mainTicker up works on its own
\* ticker, and the flag is set until it clears it.
LoopInv ==
    ~Closing =>
        /\ ~ctxDone
        /\ \A g \in Ticker : Working(g) => workersRunning
        /\ \A g \in Ticker : Working(g) \/ Owns(g) => mainTicker = g
        /\ \A t \in Toucher :
             /\ touch[t] \in {"make", "register", "spawn"} => workersRunning
             /\ touch[t] \in {"register", "spawn"} => mainTicker = created
             /\ touch[t] \in {"register", "spawn"} =>
                    \A g \in Ticker : ~Working(g) /\ ~Owns(g)
        /\ TickerHasLoop

CallbackInv ==
    /\ \A t \in Toucher : touch[t] \in {"register", "spawn"} => created # 0
    /\ \A t \in Toucher : touch[t] = "spawn" => pauseCallback # 0
    /\ \A g \in Ticker : pc[g] # "none" => pauseCallback # 0

TimerInv ==
    /\ FieldTypes
    /\ LockInv
    /\ TokenInv
    /\ LoopInv
    /\ CallbackInv
    /\ PanicOnlyWhileClosing

-----------------------------------------------------------------------------

\* A panic changes nothing else, and the theorem allows it once Close has begun.
LEMMA PanicKeeps ==
    ASSUME TimerInv, Panic, Closing
    PROVE  TimerInv'
BY DEF Panic, fieldVars, worldVars, threadVars, TimerInv, FieldTypes, LockInv,
   TokenInv, LoopInv, CallbackInv, PanicOnlyWhileClosing, Owns, Working,
   Closing, TickerHasLoop, StopPcs, Ticker, Closer, Thread

\* Touch takes the lock.
LEMMA TouchLooksKeeps ==
    ASSUME NEW t \in Toucher, TimerInv, TouchLooks(t)
    PROVE  TimerInv'
BY TimerAssumption DEF TouchLooks, TouchGoto, fieldVars, worldVars, threadVars,
   TimerInv, FieldTypes, LockInv, TokenInv, LoopInv, CallbackInv,
   PanicOnlyWhileClosing, Owns, Working, Closing, TickerHasLoop, StopPcs,
   Ticker, Closer, Thread

\* Touch of a running timer.
LEMMA TouchStoresKeeps ==
    ASSUME NEW t \in Toucher, TimerInv, TouchStores(t)
    PROVE  TimerInv'
BY TimerAssumption DEF TouchStores, TouchGoto, fieldVars, worldVars, threadVars,
   TimerInv, FieldTypes, LockInv, TokenInv, LoopInv, CallbackInv,
   PanicOnlyWhileClosing, Owns, Working, Closing, TickerHasLoop, StopPcs,
   Ticker, Closer, Thread

\* The token is free: nobody owns it while a touch that found mainTicker nil holds
\* the lock.
LEMMA StartTimerWorkersKeeps ==
    ASSUME NEW t \in Toucher, TimerInv, StartTimerWorkers(t)
    PROVE  TimerInv'
<1> USE TimerAssumption
<1>1. FieldTypes'
    BY DEF StartTimerWorkers, TouchGoto, Stopping, fieldVars, worldVars,
       threadVars, TimerInv, FieldTypes, Ticker, Closer, Thread, StopPcs,
       LockInv, CallbackInv
<1>2. LockInv'
    BY DEF StartTimerWorkers, TouchGoto, Stopping, fieldVars, worldVars,
       threadVars, TimerInv, FieldTypes, Ticker, Closer, Thread, LockInv
<1>3. TokenInv'
    BY DEF StartTimerWorkers, TouchGoto, Stopping, fieldVars, worldVars,
       threadVars, TimerInv, FieldTypes, Ticker, Closer, Thread, LockInv,
       TokenInv, Owns, StopPcs
<1>4. LoopInv'
    BY DEF StartTimerWorkers, TouchGoto, Stopping, fieldVars, worldVars,
       threadVars, TimerInv, FieldTypes, Ticker, Closer, Thread, LockInv,
       LoopInv, CallbackInv, Owns, Working, Closing, TickerHasLoop, StopPcs
<1>5. CallbackInv'
    BY DEF StartTimerWorkers, TouchGoto, Stopping, fieldVars, worldVars,
       threadVars, TimerInv, FieldTypes, Ticker, Closer, Thread, CallbackInv,
       StopPcs
<1>6. PanicOnlyWhileClosing'
    BY DEF StartTimerWorkers, TouchGoto, Stopping, fieldVars, worldVars,
       threadVars, TimerInv, FieldTypes, Ticker, Closer, Thread,
       PanicOnlyWhileClosing, Closing, LoopInv, CallbackInv, Owns, Working
<1> QED BY <1>1, <1>2, <1>3, <1>4, <1>5, <1>6 DEF TimerInv

\* The token holder makes mainTicker; no ticker was running.
LEMMA MakeTickerKeeps ==
    ASSUME NEW t \in Toucher, TimerInv, MakeTicker(t)
    PROVE  TimerInv'
<1> USE TimerAssumption
<1>1. FieldTypes'
    BY DEF MakeTicker, TouchGoto, fieldVars, worldVars, threadVars, TimerInv,
       FieldTypes, Ticker, Closer, Thread, StopPcs, LockInv, CallbackInv
<1>2. LockInv'
    BY DEF MakeTicker, TouchGoto, fieldVars, worldVars, threadVars, TimerInv,
       FieldTypes, Ticker, Closer, Thread, LockInv
<1>3. TokenInv'
    BY DEF MakeTicker, TouchGoto, fieldVars, worldVars, threadVars, TimerInv,
       FieldTypes, Ticker, Closer, Thread, LockInv, TokenInv, Owns, StopPcs
<1>4. LoopInv'
    BY DEF MakeTicker, TouchGoto, fieldVars, worldVars, threadVars, TimerInv,
       FieldTypes, Ticker, Closer, Thread, LockInv, LoopInv, CallbackInv, Owns,
       Working, Closing, TickerHasLoop, StopPcs
<1>5. CallbackInv'
    BY DEF MakeTicker, TouchGoto, fieldVars, worldVars, threadVars, TimerInv,
       FieldTypes, Ticker, Closer, Thread, CallbackInv, StopPcs
<1>6. PanicOnlyWhileClosing'
    BY DEF MakeTicker, TouchGoto, fieldVars, worldVars, threadVars, TimerInv,
       FieldTypes, Ticker, Closer, Thread, PanicOnlyWhileClosing, Closing,
       LoopInv, CallbackInv, Owns, Working
<1> QED BY <1>1, <1>2, <1>3, <1>4, <1>5, <1>6 DEF TimerInv

\* The callback of the new ticker.
LEMMA RegisterTickerKeeps ==
    ASSUME NEW t \in Toucher, TimerInv, RegisterTicker(t)
    PROVE  TimerInv'
BY TimerAssumption DEF RegisterTicker, TouchGoto, fieldVars, worldVars,
   threadVars, TimerInv, FieldTypes, LockInv, TokenInv, LoopInv, CallbackInv,
   PanicOnlyWhileClosing, Owns, Working, Closing, TickerHasLoop, StopPcs,
   Ticker, Closer, Thread

\* The loop takes over what the touch has promised.
LEMMA SpawnLoopKeeps ==
    ASSUME NEW t \in Toucher, TimerInv, SpawnLoop(t)
    PROVE  TimerInv'
<1> USE TimerAssumption
<1>1. FieldTypes'
    BY DEF SpawnLoop, TouchGoto, Goto, fieldVars, worldVars, threadVars,
       TimerInv, FieldTypes, Ticker, Closer, Thread, StopPcs, LockInv,
       CallbackInv
<1>2. LockInv'
    BY DEF SpawnLoop, TouchGoto, Goto, fieldVars, worldVars, threadVars,
       TimerInv, FieldTypes, Ticker, Closer, Thread, LockInv
<1>3. TokenInv'
    BY DEF SpawnLoop, TouchGoto, Goto, fieldVars, worldVars, threadVars,
       TimerInv, FieldTypes, Ticker, Closer, Thread, LockInv, TokenInv, Owns,
       StopPcs
<1>4. LoopInv'
    BY DEF SpawnLoop, TouchGoto, Goto, fieldVars, worldVars, threadVars,
       TimerInv, FieldTypes, Ticker, Closer, Thread, LockInv, LoopInv,
       CallbackInv, Owns, Working, Closing, TickerHasLoop, StopPcs
<1>5. CallbackInv'
    BY DEF SpawnLoop, TouchGoto, Goto, fieldVars, worldVars, threadVars,
       TimerInv, FieldTypes, Ticker, Closer, Thread, CallbackInv, StopPcs
<1>6. PanicOnlyWhileClosing'
    BY DEF SpawnLoop, TouchGoto, Goto, fieldVars, worldVars, threadVars,
       TimerInv, FieldTypes, Ticker, Closer, Thread, PanicOnlyWhileClosing,
       Closing, LoopInv, CallbackInv, Owns, Working
<1> QED BY <1>1, <1>2, <1>3, <1>4, <1>5, <1>6 DEF TimerInv

\* Only lastActive ages.
LEMMA TimePassesKeeps ==
    ASSUME TimerInv, TimePasses
    PROVE  TimerInv'
BY TimerAssumption DEF TimePasses, fieldVars, worldVars, threadVars, TimerInv,
   FieldTypes, LockInv, TokenInv, LoopInv, CallbackInv, PanicOnlyWhileClosing,
   Owns, Working, Closing, TickerHasLoop, StopPcs, Ticker, Closer, Thread

\* The loop finds its ticker.
LEMMA LoopBeginsKeeps ==
    ASSUME NEW g \in Ticker, TimerInv, LoopBegins(g)
    PROVE  TimerInv'
BY TimerAssumption DEF LoopBegins, Goto, fieldVars, worldVars, threadVars,
   TimerInv, FieldTypes, LockInv, TokenInv, LoopInv, CallbackInv,
   PanicOnlyWhileClosing, Owns, Working, Closing, TickerHasLoop, StopPcs,
   Ticker, Closer, Thread

\* Before Close a loop that begins finds its own ticker.
LEMMA LoopPanicsKeeps ==
    ASSUME NEW g \in Ticker, TimerInv, LoopPanics(g)
    PROVE  TimerInv'
<1>1. Closing
    BY DEF LoopPanics, TimerInv, LoopInv, CallbackInv, Owns, Working, Closing,
       Thread, Closer, Ticker
<1> QED BY <1>1, PanicKeeps DEF LoopPanics

\* The context is cancelled by Close only.
LEMMA LoopCancelledKeeps ==
    ASSUME NEW g \in Ticker, TimerInv, LoopCancelled(g)
    PROVE  TimerInv'
BY TimerAssumption DEF LoopCancelled, Goto, fieldVars, worldVars, threadVars,
   TimerInv, FieldTypes, LockInv, TokenInv, LoopInv, CallbackInv,
   PanicOnlyWhileClosing, Owns, Working, Closing, TickerHasLoop, StopPcs,
   Ticker, Closer, Thread

\* A tick.
LEMMA TickKeeps ==
    ASSUME NEW g \in Ticker, TimerInv, Tick(g)
    PROVE  TimerInv'
BY TimerAssumption DEF Tick, Goto, fieldVars, worldVars, threadVars, TimerInv,
   FieldTypes, LockInv, TokenInv, LoopInv, CallbackInv, PanicOnlyWhileClosing,
   Owns, Working, Closing, TickerHasLoop, StopPcs, Ticker, Closer, Thread

\* The loop works on until it clears the flag.
LEMMA LoopChecksIdleKeeps ==
    ASSUME NEW g \in Ticker, TimerInv, LoopChecksIdle(g)
    PROVE  TimerInv'
<1> USE TimerAssumption
<1>1. FieldTypes'
    BY DEF LoopChecksIdle, Goto, fieldVars, worldVars, threadVars, TimerInv,
       FieldTypes, Ticker, Closer, Thread, StopPcs, LockInv, CallbackInv
<1>2. LockInv'
    BY DEF LoopChecksIdle, Goto, fieldVars, worldVars, threadVars, TimerInv,
       FieldTypes, Ticker, Closer, Thread, LockInv
<1>3. TokenInv'
    BY DEF LoopChecksIdle, Goto, fieldVars, worldVars, threadVars, TimerInv,
       FieldTypes, Ticker, Closer, Thread, LockInv, TokenInv, Owns, StopPcs
<1>4. LoopInv'
    BY DEF LoopChecksIdle, Goto, fieldVars, worldVars, threadVars, TimerInv,
       FieldTypes, Ticker, Closer, Thread, LockInv, LoopInv, CallbackInv, Owns,
       Working, Closing, TickerHasLoop, StopPcs
<1>5. CallbackInv'
    BY DEF LoopChecksIdle, Goto, fieldVars, worldVars, threadVars, TimerInv,
       FieldTypes, Ticker, Closer, Thread, CallbackInv, StopPcs
<1>6. PanicOnlyWhileClosing'
    BY DEF LoopChecksIdle, Goto, fieldVars, worldVars, threadVars, TimerInv,
       FieldTypes, Ticker, Closer, Thread, PanicOnlyWhileClosing, Closing,
       LoopInv, CallbackInv, Owns, Working
<1> QED BY <1>1, <1>2, <1>3, <1>4, <1>5, <1>6 DEF TimerInv

\* Whoever clears the flag holds the token.
LEMMA StopCasKeeps ==
    ASSUME NEW p \in Thread, TimerInv, StopCas(p)
    PROVE  TimerInv'
<1> USE TimerAssumption
<1>1. FieldTypes'
    BY DEF StopCas, Goto, AfterStop, fieldVars, worldVars, threadVars, TimerInv,
       FieldTypes, Ticker, Closer, Thread, StopPcs, LockInv, CallbackInv
<1>2. LockInv'
    BY DEF StopCas, Goto, AfterStop, fieldVars, worldVars, threadVars, TimerInv,
       FieldTypes, Ticker, Closer, Thread, LockInv
<1>3. TokenInv'
    BY DEF StopCas, Goto, AfterStop, fieldVars, worldVars, threadVars, TimerInv,
       FieldTypes, Ticker, Closer, Thread, LockInv, TokenInv, Owns, StopPcs
<1>4. LoopInv'
    BY DEF StopCas, Goto, AfterStop, fieldVars, worldVars, threadVars, TimerInv,
       FieldTypes, Ticker, Closer, Thread, LockInv, LoopInv, CallbackInv, Owns,
       Working, Closing, TickerHasLoop, StopPcs
<1>5. CallbackInv'
    BY DEF StopCas, Goto, AfterStop, fieldVars, worldVars, threadVars, TimerInv,
       FieldTypes, Ticker, Closer, Thread, CallbackInv, StopPcs
<1>6. PanicOnlyWhileClosing'
    BY DEF StopCas, Goto, AfterStop, fieldVars, worldVars, threadVars, TimerInv,
       FieldTypes, Ticker, Closer, Thread, PanicOnlyWhileClosing, Closing,
       LoopInv, CallbackInv, Owns, Working
<1> QED BY <1>1, <1>2, <1>3, <1>4, <1>5, <1>6 DEF TimerInv

\* The one owner stops the one ticker.
LEMMA StopTickerKeeps ==
    ASSUME NEW p \in Thread, TimerInv, StopTicker(p)
    PROVE  TimerInv'
BY TimerAssumption DEF StopTicker, Goto, fieldVars, worldVars, threadVars,
   TimerInv, FieldTypes, LockInv, TokenInv, LoopInv, CallbackInv,
   PanicOnlyWhileClosing, Owns, Working, Closing, TickerHasLoop, StopPcs,
   Ticker, Closer, Thread

\* Before Close the ticker of a loop that stops is not nil.
LEMMA StopPanicsKeeps ==
    ASSUME NEW p \in Thread, TimerInv, StopPanics(p)
    PROVE  TimerInv'
<1>1. Closing
    BY DEF StopPanics, TimerInv, LoopInv, CallbackInv, Owns, Working, Closing,
       Thread, Closer, Ticker
<1> QED BY <1>1, PanicKeeps DEF StopPanics

\* The token ends with mainTicker.
LEMMA ClearTickerKeeps ==
    ASSUME NEW p \in Thread, TimerInv, ClearTicker(p)
    PROVE  TimerInv'
<1> USE TimerAssumption
<1>1. FieldTypes'
    BY DEF ClearTicker, Goto, fieldVars, worldVars, threadVars, TimerInv,
       FieldTypes, Ticker, Closer, Thread, StopPcs, LockInv, CallbackInv
<1>2. LockInv'
    BY DEF ClearTicker, Goto, fieldVars, worldVars, threadVars, TimerInv,
       FieldTypes, Ticker, Closer, Thread, LockInv
<1>3. TokenInv'
    BY DEF ClearTicker, Goto, fieldVars, worldVars, threadVars, TimerInv,
       FieldTypes, Ticker, Closer, Thread, LockInv, TokenInv, Owns, StopPcs
<1>4. LoopInv'
    BY DEF ClearTicker, Goto, fieldVars, worldVars, threadVars, TimerInv,
       FieldTypes, Ticker, Closer, Thread, LockInv, LoopInv, CallbackInv, Owns,
       Working, Closing, TickerHasLoop, StopPcs
<1>5. CallbackInv'
    BY DEF ClearTicker, Goto, fieldVars, worldVars, threadVars, TimerInv,
       FieldTypes, Ticker, Closer, Thread, CallbackInv, StopPcs
<1>6. PanicOnlyWhileClosing'
    BY DEF ClearTicker, Goto, fieldVars, worldVars, threadVars, TimerInv,
       FieldTypes, Ticker, Closer, Thread, PanicOnlyWhileClosing, Closing,
       LoopInv, CallbackInv, Owns, Working
<1> QED BY <1>1, <1>2, <1>3, <1>4, <1>5, <1>6 DEF TimerInv

\* Nothing of the timer.
LEMMA SaveKeeps ==
    ASSUME NEW p \in Thread, TimerInv, Save(p)
    PROVE  TimerInv'
BY TimerAssumption DEF Save, Goto, fieldVars, worldVars, threadVars, TimerInv,
   FieldTypes, LockInv, TokenInv, LoopInv, CallbackInv, PanicOnlyWhileClosing,
   Owns, Working, Closing, TickerHasLoop, StopPcs, Ticker, Closer, Thread

\* Some callback goes.
LEMMA UnregisterCallbackKeeps ==
    ASSUME NEW p \in Thread, TimerInv, UnregisterCallback(p)
    PROVE  TimerInv'
BY TimerAssumption DEF UnregisterCallback, Goto, AfterStop, fieldVars,
   worldVars, threadVars, TimerInv, FieldTypes, LockInv, TokenInv, LoopInv,
   CallbackInv, PanicOnlyWhileClosing, Owns, Working, Closing, TickerHasLoop,
   StopPcs, Ticker, Closer, Thread

\* Before Close the callback of a loop has been stored before the loop began.
LEMMA UnregisterPanicsKeeps ==
    ASSUME NEW p \in Thread, TimerInv, UnregisterPanics(p)
    PROVE  TimerInv'
<1>1. Closing
    BY DEF UnregisterPanics, TimerInv, LoopInv, CallbackInv, Owns, Working,
       Closing, Thread, Closer, Ticker
<1> QED BY <1>1, PanicKeeps DEF UnregisterPanics

\* From here on panics are possible.
LEMMA CloseBeginsKeeps ==
    ASSUME TimerInv, CloseBegins
    PROVE  TimerInv'
BY TimerAssumption DEF CloseBegins, Goto, fieldVars, worldVars, threadVars,
   TimerInv, FieldTypes, LockInv, TokenInv, LoopInv, CallbackInv,
   PanicOnlyWhileClosing, Owns, Working, Closing, TickerHasLoop, StopPcs,
   Ticker, Closer, Thread

\* Close has begun.
LEMMA CancelKeeps ==
    ASSUME TimerInv, Cancel
    PROVE  TimerInv'
BY TimerAssumption DEF Cancel, Goto, fieldVars, worldVars, threadVars, TimerInv,
   FieldTypes, LockInv, TokenInv, LoopInv, CallbackInv, PanicOnlyWhileClosing,
   Owns, Working, Closing, TickerHasLoop, StopPcs, Ticker, Closer, Thread

\* Close ends.
LEMMA CloseReturnsKeeps ==
    ASSUME TimerInv, CloseReturns
    PROVE  TimerInv'
BY TimerAssumption DEF CloseReturns, Goto, fieldVars, worldVars, threadVars,
   TimerInv, FieldTypes, LockInv, TokenInv, LoopInv, CallbackInv,
   PanicOnlyWhileClosing, Owns, Working, Closing, TickerHasLoop, StopPcs,
   Ticker, Closer, Thread

-----------------------------------------------------------------------------

\* Nothing has happened yet.
LEMMA InitTimer == Init => TimerInv
<1> SUFFICES ASSUME Init PROVE TimerInv
    OBVIOUS
<1>1. FieldTypes
  <2>1. 0 \in 0..MaxTickers
    BY TimerAssumption
  <2>2. /\ pc \in [Ticker \cup {Closer} -> {"none"}]
        /\ mine \in [Ticker -> {0}]
        /\ touch \in [Toucher -> {"idle"}]
    BY DEF Init
  <2>3. /\ pc \in [Ticker \cup {Closer} ->
                   StopPcs \cup {"none", "begin", "select", "ticked", "cancel",
                                 "wait", "done"}]
        /\ mine \in [Ticker -> Ticker \cup {0}]
        /\ touch \in [Toucher -> {"idle", "store", "cas", "make", "register",
                                  "spawn"}]
    BY <2>2
  <2> QED BY <2>1, <2>3 DEF Init, FieldTypes
<1>2. (\A p \in Thread : pc[p] = "none") /\ (\A t \in Toucher : touch[t] = "idle")
    BY DEF Init, Thread
<1>3. LockInv /\ TokenInv /\ CallbackInv
    BY <1>2 DEF Init, LockInv, TokenInv, CallbackInv, Owns, Thread
<1>4. LoopInv /\ PanicOnlyWhileClosing
    BY <1>2 DEF Init, LoopInv, PanicOnlyWhileClosing, TickerHasLoop, Owns,
       Working, Thread
<1> QED BY <1>1, <1>3, <1>4 DEF TimerInv

\* A step that changes nothing.
LEMMA StutterTimer ==
    ASSUME TimerInv, UNCHANGED vars
    PROVE  TimerInv'
BY DEF vars, fieldVars, worldVars, threadVars, TimerInv, FieldTypes, LockInv,
   TokenInv, LoopInv, CallbackInv, PanicOnlyWhileClosing, Owns, Working,
   Closing, TickerHasLoop

\* Every step.
LEMMA NextTimer == TimerInv /\ [Next]_vars => TimerInv'
<1> SUFFICES ASSUME TimerInv, [Next]_vars
             PROVE  TimerInv'
    OBVIOUS
<1>1. ASSUME NEW t \in Toucher, TouchStep(t)
      PROVE  TimerInv'
    BY <1>1, TouchLooksKeeps, TouchStoresKeeps, StartTimerWorkersKeeps,
       MakeTickerKeeps, RegisterTickerKeeps, SpawnLoopKeeps DEF TouchStep
<1>2. ASSUME NEW g \in Ticker, LoopStep(g)
      PROVE  TimerInv'
    BY <1>2, LoopBeginsKeeps, LoopPanicsKeeps, LoopCancelledKeeps, TickKeeps,
       LoopChecksIdleKeeps DEF LoopStep
<1>3. ASSUME NEW p \in Thread, StopStep(p)
      PROVE  TimerInv'
    BY <1>3, StopCasKeeps, StopTickerKeeps, StopPanicsKeeps, ClearTickerKeeps,
       SaveKeeps, UnregisterCallbackKeeps, UnregisterPanicsKeeps DEF StopStep
<1>4. CASE CloseStep
    BY <1>4, CloseBeginsKeeps, CancelKeeps, CloseReturnsKeeps DEF CloseStep
<1> QED
    BY <1>1, <1>2, <1>3, <1>4, TimePassesKeeps, StutterTimer DEF Next, Thread

\* The strengthening of the theorems below is an invariant.
THEOREM TimerInvariant == Spec => []TimerInv
BY InitTimer, NextTimer, PTL DEF Spec

-----------------------------------------------------------------------------
(* The pause callback. *)

Leaving(g) == pc[g] \in {"save", "unregister"}

\* Until Close begins, and as long as no start has overlapped a stop, the pause
\* callback follows its ticker: it is registered after the ticker is made, stays
\* while a loop works or stops, and is the one thing that a stop leaves for last.
RegisterInv ==
    ~Closing /\ ~overlapped =>
        /\ \A t \in Toucher :
             /\ touch[t] \in {"make", "register"} => callbacks = {}
             /\ touch[t] = "spawn" => pauseCallback = created /\ callbacks = {<<created, created>>}
        /\ \A g \in Ticker : Working(g) \/ Owns(g) =>
               pauseCallback = mainTicker /\ callbacks = {<<mainTicker, mainTicker>>}
        /\ \A g \in Ticker : Leaving(g) =>
             /\ mainTicker = 0 /\ callbacks = {<<pauseCallback, pauseCallback>>}
             /\ \A h \in Ticker : Leaving(h) => h = g
             /\ \A t \in Toucher : touch[t] \notin {"make", "register", "spawn"}
        /\ mainTicker = 0 /\ (\A g \in Ticker : ~Leaving(g)) => callbacks = {}

\* Touch takes the lock.
LEMMA TouchLooksRegisters ==
    ASSUME NEW t \in Toucher, TimerInv, RegisterInv, TouchLooks(t)
    PROVE  RegisterInv'
BY TimerAssumption DEF TouchLooks, TouchGoto, fieldVars, worldVars, threadVars,
   TimerInv, FieldTypes, LockInv, TokenInv, LoopInv, RegisterInv, Leaving,
   Owns, Working, Closing, StopPcs, Ticker, Closer, Thread

\* Touch of a running timer.
LEMMA TouchStoresRegisters ==
    ASSUME NEW t \in Toucher, TimerInv, RegisterInv, TouchStores(t)
    PROVE  RegisterInv'
BY TimerAssumption DEF TouchStores, TouchGoto, fieldVars, worldVars,
   threadVars, TimerInv, FieldTypes, LockInv, TokenInv, LoopInv, RegisterInv,
   Leaving, Owns, Working, Closing, StopPcs, Ticker, Closer, Thread

\* A start while a stop has not ended is the overlap; otherwise the last
\* callback is gone.
LEMMA StartTimerWorkersRegisters ==
    ASSUME NEW t \in Toucher, TimerInv, RegisterInv, StartTimerWorkers(t)
    PROVE  RegisterInv'
BY TimerAssumption DEF StartTimerWorkers, TouchGoto, Stopping, fieldVars,
   worldVars, threadVars, TimerInv, FieldTypes, LockInv, TokenInv, LoopInv,
   RegisterInv, Leaving, Owns, Working, Closing, StopPcs, Ticker, Closer,
   Thread

\* Its callback comes with the next step.
LEMMA MakeTickerRegisters ==
    ASSUME NEW t \in Toucher, TimerInv, RegisterInv, MakeTicker(t)
    PROVE  RegisterInv'
BY TimerAssumption DEF MakeTicker, TouchGoto, fieldVars, worldVars, threadVars,
   TimerInv, FieldTypes, LockInv, TokenInv, LoopInv, RegisterInv, Leaving,
   Owns, Working, Closing, StopPcs, Ticker, Closer, Thread

\* The callback joins none.
LEMMA RegisterTickerRegisters ==
    ASSUME NEW t \in Toucher, TimerInv, RegisterInv, RegisterTicker(t)
    PROVE  RegisterInv'
BY TimerAssumption DEF RegisterTicker, TouchGoto, fieldVars, worldVars,
   threadVars, TimerInv, FieldTypes, LockInv, TokenInv, LoopInv, RegisterInv,
   Leaving, Owns, Working, Closing, StopPcs, Ticker, Closer, Thread

\* The loop takes the callback over.
LEMMA SpawnLoopRegisters ==
    ASSUME NEW t \in Toucher, TimerInv, RegisterInv, SpawnLoop(t)
    PROVE  RegisterInv'
BY TimerAssumption DEF SpawnLoop, TouchGoto, Goto, fieldVars, worldVars,
   threadVars, TimerInv, FieldTypes, LockInv, TokenInv, LoopInv, RegisterInv,
   Leaving, Owns, Working, Closing, StopPcs, Ticker, Closer, Thread

\* Only lastActive ages.
LEMMA TimePassesRegisters ==
    ASSUME TimerInv, RegisterInv, TimePasses
    PROVE  RegisterInv'
BY TimerAssumption DEF TimePasses, fieldVars, worldVars, threadVars, TimerInv,
   FieldTypes, LockInv, TokenInv, LoopInv, RegisterInv, Leaving, Owns, Working,
   Closing, StopPcs, Ticker, Closer, Thread

\* The loop keeps its ticker.
LEMMA LoopBeginsRegisters ==
    ASSUME NEW g \in Ticker, TimerInv, RegisterInv, LoopBegins(g)
    PROVE  RegisterInv'
BY TimerAssumption DEF LoopBegins, Goto, fieldVars, worldVars, threadVars,
   TimerInv, FieldTypes, LockInv, TokenInv, LoopInv, RegisterInv, Leaving,
   Owns, Working, Closing, StopPcs, Ticker, Closer, Thread

\* Nothing changes but the process.
LEMMA LoopPanicsRegisters ==
    ASSUME NEW g \in Ticker, TimerInv, RegisterInv, LoopPanics(g)
    PROVE  RegisterInv'
BY TimerAssumption DEF LoopPanics, Panic, fieldVars, worldVars, threadVars,
   TimerInv, FieldTypes, LockInv, TokenInv, LoopInv, RegisterInv, Leaving,
   Owns, Working, Closing, StopPcs, Ticker, Closer, Thread

\* The context is cancelled by Close only.
LEMMA LoopCancelledRegisters ==
    ASSUME NEW g \in Ticker, TimerInv, RegisterInv, LoopCancelled(g)
    PROVE  RegisterInv'
BY TimerAssumption DEF LoopCancelled, Goto, fieldVars, worldVars, threadVars,
   TimerInv, FieldTypes, LockInv, TokenInv, LoopInv, RegisterInv, Leaving,
   Owns, Working, Closing, StopPcs, Ticker, Closer, Thread

\* A tick.
LEMMA TickRegisters ==
    ASSUME NEW g \in Ticker, TimerInv, RegisterInv, Tick(g)
    PROVE  RegisterInv'
BY TimerAssumption DEF Tick, Goto, fieldVars, worldVars, threadVars, TimerInv,
   FieldTypes, LockInv, TokenInv, LoopInv, RegisterInv, Leaving, Owns, Working,
   Closing, StopPcs, Ticker, Closer, Thread

\* The loop works on until it clears the flag.
LEMMA LoopChecksIdleRegisters ==
    ASSUME NEW g \in Ticker, TimerInv, RegisterInv, LoopChecksIdle(g)
    PROVE  RegisterInv'
BY TimerAssumption DEF LoopChecksIdle, Goto, fieldVars, worldVars, threadVars,
   TimerInv, FieldTypes, LockInv, TokenInv, LoopInv, RegisterInv, Leaving,
   Owns, Working, Closing, StopPcs, Ticker, Closer, Thread

\* A loop finds the flag set; Close is not considered.
LEMMA StopCasRegisters ==
    ASSUME NEW p \in Thread, TimerInv, RegisterInv, StopCas(p)
    PROVE  RegisterInv'
BY TimerAssumption DEF StopCas, Goto, AfterStop, fieldVars, worldVars,
   threadVars, TimerInv, FieldTypes, LockInv, TokenInv, LoopInv, RegisterInv,
   Leaving, Owns, Working, Closing, StopPcs, Ticker, Closer, Thread

\* The callback outlives the ticker.
LEMMA StopTickerRegisters ==
    ASSUME NEW p \in Thread, TimerInv, RegisterInv, StopTicker(p)
    PROVE  RegisterInv'
BY TimerAssumption DEF StopTicker, Goto, fieldVars, worldVars, threadVars,
   TimerInv, FieldTypes, LockInv, TokenInv, LoopInv, RegisterInv, Leaving,
   Owns, Working, Closing, StopPcs, Ticker, Closer, Thread

\* Nothing changes but the process.
LEMMA StopPanicsRegisters ==
    ASSUME NEW p \in Thread, TimerInv, RegisterInv, StopPanics(p)
    PROVE  RegisterInv'
BY TimerAssumption DEF StopPanics, Panic, fieldVars, worldVars, threadVars,
   TimerInv, FieldTypes, LockInv, TokenInv, LoopInv, RegisterInv, Leaving,
   Owns, Working, Closing, StopPcs, Ticker, Closer, Thread

\* Only the callback is left.
LEMMA ClearTickerRegisters ==
    ASSUME NEW p \in Thread, TimerInv, RegisterInv, ClearTicker(p)
    PROVE  RegisterInv'
BY TimerAssumption DEF ClearTicker, Goto, fieldVars, worldVars, threadVars,
   TimerInv, FieldTypes, LockInv, TokenInv, LoopInv, RegisterInv, Leaving,
   Owns, Working, Closing, StopPcs, Ticker, Closer, Thread

\* Nothing of the timer.
LEMMA SaveRegisters ==
    ASSUME NEW p \in Thread, TimerInv, RegisterInv, Save(p)
    PROVE  RegisterInv'
BY TimerAssumption DEF Save, Goto, fieldVars, worldVars, threadVars, TimerInv,
   FieldTypes, LockInv, TokenInv, LoopInv, RegisterInv, Leaving, Owns, Working,
   Closing, StopPcs, Ticker, Closer, Thread

\* Its own callback goes, the only one.
LEMMA UnregisterCallbackRegisters ==
    ASSUME NEW p \in Thread, TimerInv, RegisterInv, UnregisterCallback(p)
    PROVE  RegisterInv'
BY TimerAssumption DEF UnregisterCallback, Goto, AfterStop, fieldVars,
   worldVars, threadVars, TimerInv, FieldTypes, LockInv, TokenInv, LoopInv,
   RegisterInv, Leaving, Owns, Working, Closing, StopPcs, Ticker, Closer,
   Thread

\* Nothing changes but the process.
LEMMA UnregisterPanicsRegisters ==
    ASSUME NEW p \in Thread, TimerInv, RegisterInv, UnregisterPanics(p)
    PROVE  RegisterInv'
BY TimerAssumption DEF UnregisterPanics, Panic, fieldVars, worldVars,
   threadVars, TimerInv, FieldTypes, LockInv, TokenInv, LoopInv, RegisterInv,
   Leaving, Owns, Working, Closing, StopPcs, Ticker, Closer, Thread

\* From here on nothing is claimed.
LEMMA CloseBeginsRegisters ==
    ASSUME TimerInv, RegisterInv, CloseBegins
    PROVE  RegisterInv'
BY TimerAssumption DEF CloseBegins, Goto, fieldVars, worldVars, threadVars,
   TimerInv, FieldTypes, LockInv, TokenInv, LoopInv, RegisterInv, Leaving,
   Owns, Working, Closing, StopPcs, Ticker, Closer, Thread

\* Close has begun.
LEMMA CancelRegisters ==
    ASSUME TimerInv, RegisterInv, Cancel
    PROVE  RegisterInv'
BY TimerAssumption DEF Cancel, Goto, fieldVars, worldVars, threadVars,
   TimerInv, FieldTypes, LockInv, TokenInv, LoopInv, RegisterInv, Leaving,
   Owns, Working, Closing, StopPcs, Ticker, Closer, Thread

\* Close ends.
LEMMA CloseReturnsRegisters ==
    ASSUME TimerInv, RegisterInv, CloseReturns
    PROVE  RegisterInv'
BY TimerAssumption DEF CloseReturns, Goto, fieldVars, worldVars, threadVars,
   TimerInv, FieldTypes, LockInv, TokenInv, LoopInv, RegisterInv, Leaving,
   Owns, Working, Closing, StopPcs, Ticker, Closer, Thread

\* Nothing is registered at first.
LEMMA InitRegisters == Init => RegisterInv
BY DEF Init, RegisterInv, Closing, Working, Owns, Leaving, Thread

\* A step that changes nothing.
LEMMA StutterRegisters ==
    ASSUME RegisterInv, UNCHANGED vars
    PROVE  RegisterInv'
BY DEF vars, fieldVars, worldVars, threadVars, RegisterInv, Leaving, Owns,
   Working, Closing

\* Every step.
LEMMA NextRegisters == TimerInv /\ RegisterInv /\ [Next]_vars => RegisterInv'
<1> SUFFICES ASSUME TimerInv, RegisterInv, [Next]_vars
             PROVE  RegisterInv'
    OBVIOUS
<1>1. ASSUME NEW t \in Toucher, TouchStep(t)
      PROVE  RegisterInv'
    BY <1>1, TouchLooksRegisters, TouchStoresRegisters,
       StartTimerWorkersRegisters, MakeTickerRegisters, RegisterTickerRegisters,
       SpawnLoopRegisters DEF TouchStep
<1>2. ASSUME NEW g \in Ticker, LoopStep(g)
      PROVE  RegisterInv'
    BY <1>2, LoopBeginsRegisters, LoopPanicsRegisters, LoopCancelledRegisters,
       TickRegisters, LoopChecksIdleRegisters DEF LoopStep
<1>3. ASSUME NEW p \in Thread, StopStep(p)
      PROVE  RegisterInv'
    BY <1>3, StopCasRegisters, StopTickerRegisters, StopPanicsRegisters,
       ClearTickerRegisters, SaveRegisters, UnregisterCallbackRegisters,
       UnregisterPanicsRegisters DEF StopStep
<1>4. CASE CloseStep
    BY <1>4, CloseBeginsRegisters, CancelRegisters, CloseReturnsRegisters
       DEF CloseStep
<1> QED
    BY <1>1, <1>2, <1>3, <1>4, TimePassesRegisters, StutterRegisters
       DEF Next, Thread

\* A loop that runs has its callback registered, and nothing else has: with the
\* loop that TickerHasLoop promises, that is CallbackMatchesTicker.
LEMMA RegisterMatches == TimerInv /\ RegisterInv => CallbackMatchesTicker
<1> SUFFICES ASSUME TimerInv, RegisterInv, ~Closing, ~overlapped,
                    \A t \in Toucher : touch[t] \in {"idle", "store", "cas"},
                    \A g \in Ticker : ~Stopping(g)
             PROVE  callbacks = (IF mainTicker = 0 THEN {} ELSE {<<mainTicker, mainTicker>>})
    BY DEF CallbackMatchesTicker
<1>1. \A g \in Ticker : ~Leaving(g)
    BY DEF Stopping, StopPcs, Leaving
<1>2. CASE mainTicker = 0
    BY <1>1, <1>2 DEF RegisterInv
<1>3. CASE mainTicker # 0
  <2>1. mainTicker \in Ticker /\ Working(mainTicker)
    BY <1>3 DEF TimerInv, FieldTypes, LoopInv, TickerHasLoop, Working, Stopping,
       StopPcs
  <2> QED BY <1>3, <2>1 DEF RegisterInv
<1> QED BY <1>2, <1>3

\* Both strengthenings together.
THEOREM RegisterInvariant == Spec => [](TimerInv /\ RegisterInv)
<1>1. Init => TimerInv /\ RegisterInv
    BY InitTimer, InitRegisters
<1>2. TimerInv /\ RegisterInv /\ [Next]_vars => (TimerInv /\ RegisterInv)'
    BY NextTimer, NextRegisters
<1> QED BY <1>1, <1>2, PTL DEF Spec

-----------------------------------------------------------------------------
(* The wait group. *)

\* The wait group counts the loops; a ticker that is not made has none.
WaitInv ==
    /\ \A g \in Ticker : g > created => pc[g] = "none"
    /\ \A t \in Toucher : touch[t] \in {"register", "spawn"} => pc[created] = "none"
    /\ schedulerWG = Cardinality({g \in Ticker : Live(g)})

\* The tickers are finitely many.
LEMMA TickersFinite == IsFiniteSet(Ticker) /\ Cardinality(Ticker) = MaxTickers
BY TimerAssumption, FS_Interval DEF Ticker

\* A step that moves no loop into the group or out of it.
LEMMA SameLoopsWait ==
    ASSUME WaitInv, UNCHANGED schedulerWG,
           \A g \in Ticker : Live(g)' <=> Live(g)
    PROVE  (schedulerWG = Cardinality({g \in Ticker : Live(g)}))'
<1>1. {g \in Ticker : Live(g)}' = {g \in Ticker : Live(g)}
    OBVIOUS
<1> QED BY <1>1 DEF WaitInv

\* A loop that leaves the group.
LEMMA LeavingLoopWaits ==
    ASSUME NEW g \in Ticker, WaitInv, Live(g), ~Live(g)',
           schedulerWG' = schedulerWG - 1,
           \A h \in Ticker \ {g} : Live(h)' <=> Live(h)
    PROVE  (schedulerWG = Cardinality({h \in Ticker : Live(h)}))'
<1> DEFINE loops == {h \in Ticker : Live(h)}
<1>1. IsFiniteSet(loops) /\ g \in loops
    BY TickersFinite, FS_Subset
<1>2. loops' = loops \ {g}
    OBVIOUS
<1> QED BY <1>1, <1>2, FS_RemoveElement DEF WaitInv

\* A loop that joins the group.
LEMMA JoiningLoopWaits ==
    ASSUME NEW g \in Ticker, WaitInv, ~Live(g), Live(g)',
           schedulerWG' = schedulerWG + 1,
           \A h \in Ticker \ {g} : Live(h)' <=> Live(h)
    PROVE  (schedulerWG = Cardinality({h \in Ticker : Live(h)}))'
<1> DEFINE loops == {h \in Ticker : Live(h)}
<1>1. IsFiniteSet(loops) /\ g \notin loops
    BY TickersFinite, FS_Subset
<1>2. loops' = loops \cup {g}
    OBVIOUS
<1> QED BY <1>1, <1>2, FS_AddElement DEF WaitInv

\* The steps of Touch: one of them spawns a loop, of a ticker that had none.
LEMMA TouchWaits ==
    ASSUME NEW t \in Toucher, TimerInv, WaitInv, TouchStep(t)
    PROVE  WaitInv'
<1> USE TimerAssumption DEF TimerInv, FieldTypes, Ticker
<1>1. CASE SpawnLoop(t)
  <2>1. created \in Ticker /\ pc[created] = "none"
    BY <1>1 DEF SpawnLoop, CallbackInv, WaitInv
  <2>2. PICK g \in Ticker : g = created
    BY <2>1
  <2>3. pc' = [pc EXCEPT ![g] = "begin"] /\ created' = created
    BY <1>1, <2>2 DEF SpawnLoop, Goto, worldVars
  <2>4. /\ \A h \in Ticker : h > created => pc'[h] = "none"
        /\ \A u \in Toucher : touch'[u] \notin {"register", "spawn"}
    BY <1>1, <2>2, <2>3 DEF SpawnLoop, TouchGoto, LockInv, WaitInv
  <2>5. ~Live(g) /\ Live(g)' /\ \A h \in Ticker \ {g} : Live(h)' <=> Live(h)
    BY <2>1, <2>2, <2>3 DEF Live
  <2>6. schedulerWG' = schedulerWG + 1
    BY <1>1 DEF SpawnLoop
  <2>7. (schedulerWG = Cardinality({h \in Ticker : Live(h)}))'
    BY <2>2, <2>5, <2>6, JoiningLoopWaits
  <2> QED BY <2>3, <2>4, <2>7 DEF WaitInv
<1>2. CASE MakeTicker(t)
  <2>1. created' = created + 1 /\ created' \in Ticker /\ pc' = pc
    BY <1>2 DEF MakeTicker, LockInv
  <2>2. /\ \A g \in Ticker : g > created' => pc'[g] = "none"
        /\ pc'[created'] = "none"
    BY <2>1 DEF WaitInv
  <2>3. (schedulerWG = Cardinality({g \in Ticker : Live(g)}))'
    BY <1>2, SameLoopsWait DEF MakeTicker, Live
  <2> QED BY <2>2, <2>3 DEF WaitInv
<1>3. CASE TouchLooks(t) \/ TouchStores(t) \/ StartTimerWorkers(t) \/ RegisterTicker(t)
  <2>1. UNCHANGED <<pc, created, schedulerWG>>
    BY <1>3 DEF TouchLooks, TouchStores, StartTimerWorkers, RegisterTicker,
       worldVars
  <2>2. \A u \in Toucher : touch'[u] \in {"register", "spawn"}
                           => touch[u] \in {"register", "spawn"}
    BY <1>3 DEF TouchLooks, TouchStores, StartTimerWorkers, RegisterTicker,
       TouchGoto
  <2>3. (schedulerWG = Cardinality({g \in Ticker : Live(g)}))'
    BY <2>1, SameLoopsWait DEF Live
  <2> QED BY <2>1, <2>2, <2>3 DEF WaitInv
<1> QED BY <1>1, <1>2, <1>3 DEF TouchStep

\* A step of a loop, of a stop or of Close: it may leave the group, never join it.
LEMMA GotoWaits ==
    ASSUME NEW p \in Thread, NEW where, TimerInv, WaitInv, Goto(p, where),
           pc[p] # "none" \/ p = Closer, UNCHANGED <<created, touch>>,
           IF p = Closer \/ (Live(p) <=> where \in {"begin", "select", "ticked"})
           THEN schedulerWG' = schedulerWG
           ELSE Live(p) /\ schedulerWG' = schedulerWG - 1
    PROVE  WaitInv'
<1> USE DEF TimerInv, FieldTypes, Thread, Ticker, Closer
<1>1. pc' = [pc EXCEPT ![p] = where]
    BY DEF Goto
<1>2. /\ \A g \in Ticker : g > created' => pc'[g] = "none"
      /\ \A t \in Toucher : touch'[t] \in {"register", "spawn"}
                             => pc'[created'] = "none"
    BY <1>1 DEF WaitInv, CallbackInv
<1>3. \A h \in Ticker \ {p} : Live(h)' <=> Live(h)
    BY <1>1 DEF Live
<1>4. CASE p = Closer
    BY <1>2, <1>3, <1>4, SameLoopsWait DEF WaitInv
<1>5. CASE p # Closer /\ (Live(p) <=> where \in {"begin", "select", "ticked"})
  <2>1. Live(p)' <=> Live(p)
    BY <1>1, <1>5 DEF Live
  <2> QED BY <1>2, <1>3, <1>5, <2>1, SameLoopsWait DEF WaitInv
<1>6. CASE p # Closer /\ ~(Live(p) <=> where \in {"begin", "select", "ticked"})
  <2>1. Live(p) /\ ~Live(p)' /\ schedulerWG' = schedulerWG - 1
    BY <1>1, <1>6 DEF Live
  <2> QED BY <1>2, <1>3, <1>6, <2>1, LeavingLoopWaits DEF WaitInv
<1> QED BY <1>4, <1>5, <1>6

\* A step that moves neither thread nor ticker.
LEMMA StillWaits ==
    ASSUME WaitInv, UNCHANGED <<pc, created, touch, schedulerWG>>
    PROVE  WaitInv'
BY SameLoopsWait DEF WaitInv, Live

\* Every step.
LEMMA NextWaits == TimerInv /\ WaitInv /\ [Next]_vars => WaitInv'
<1> SUFFICES ASSUME TimerInv, WaitInv, [Next]_vars
             PROVE  WaitInv'
    OBVIOUS
<1> USE DEF worldVars, threadVars, Thread
<1>1. CASE \E t \in Toucher : TouchStep(t)
    BY <1>1, TouchWaits
<1>2. CASE \E g \in Ticker : LoopStep(g)
  <2>1. PICK g \in Ticker : LoopStep(g)
    BY <1>2
  <2>2. g # Closer
    BY DEF Ticker, Closer
  <2>3. CASE LoopBegins(g)
    BY <2>2, <2>3, GotoWaits DEF LoopBegins, Live
  <2>4. CASE LoopCancelled(g)
    BY <2>2, <2>4, GotoWaits DEF LoopCancelled, Live
  <2>5. CASE Tick(g)
    BY <2>2, <2>5, GotoWaits DEF Tick, Live
  <2>6. CASE LoopChecksIdle(g)
    BY <2>2, <2>6, GotoWaits DEF LoopChecksIdle, Live
  <2>7. CASE LoopPanics(g)
    BY <2>7, StillWaits DEF LoopPanics, Panic
  <2> QED BY <2>1, <2>3, <2>4, <2>5, <2>6, <2>7 DEF LoopStep
<1>3. CASE \E p \in Thread : StopStep(p)
  <2>1. PICK p \in Thread : StopStep(p)
    BY <1>3
  <2>2. CASE StopCas(p)
    BY <2>2, GotoWaits DEF StopCas, AfterStop, Live
  <2>3. CASE StopTicker(p)
    BY <2>3, GotoWaits DEF StopTicker, Live
  <2>4. CASE ClearTicker(p)
    BY <2>4, GotoWaits DEF ClearTicker, Live
  <2>5. CASE Save(p)
    BY <2>5, GotoWaits DEF Save, Live
  <2>6. CASE UnregisterCallback(p)
    BY <2>6, GotoWaits DEF UnregisterCallback, AfterStop, Live
  <2>7. CASE StopPanics(p) \/ UnregisterPanics(p)
    BY <2>7, StillWaits DEF StopPanics, UnregisterPanics, Panic
  <2> QED BY <2>1, <2>2, <2>3, <2>4, <2>5, <2>6, <2>7 DEF StopStep
<1>4. CASE CloseStep
  <2>1. CASE CloseBegins
    BY <2>1, GotoWaits DEF CloseBegins
  <2>2. CASE Cancel
    BY <2>2, GotoWaits DEF Cancel
  <2>3. CASE CloseReturns
    BY <2>3, GotoWaits DEF CloseReturns
  <2> QED BY <1>4, <2>1, <2>2, <2>3 DEF CloseStep
<1>5. CASE TimePasses \/ UNCHANGED vars
    BY <1>5, StillWaits DEF TimePasses, vars
<1> QED BY <1>1, <1>2, <1>3, <1>4, <1>5 DEF Next

\* The wait group holds the loops that run, neither fewer, so that Done never
\* makes it negative, nor more, so that Close does not wait for one that is gone.
THEOREM GroupCountsLoops ==
    Spec => [](schedulerWG = Cardinality({g \in Ticker : Live(g)}))
<1>1. Init => WaitInv
  <2> SUFFICES ASSUME Init PROVE WaitInv
    OBVIOUS
  <2>1. {g \in Ticker : Live(g)} = {}
    BY DEF Init, Live, Ticker
  <2> QED BY <2>1, FS_EmptySet DEF Init, WaitInv, Ticker
<1>2. WaitInv => schedulerWG = Cardinality({g \in Ticker : Live(g)})
    BY DEF WaitInv
<1>3. Init => TimerInv /\ WaitInv
    BY <1>1, InitTimer
<1>4. TimerInv /\ WaitInv /\ [Next]_vars => (TimerInv /\ WaitInv)'
    BY NextTimer, NextWaits
<1> QED BY <1>2, <1>3, <1>4, PTL DEF Spec

-----------------------------------------------------------------------------
\* At most one ticker runs, whatever touches, idle loops and Close do together.
THEOREM OneTickerRuns == Spec => []OneTicker
<1>1. TimerInv => OneTicker
  <2> SUFFICES ASSUME TimerInv PROVE Cardinality(ticking) <= 1
      BY DEF OneTicker
  <2>1. ticking \subseteq {mainTicker}
      BY DEF TimerInv, TokenInv
  <2>2. IsFiniteSet({mainTicker}) /\ Cardinality({mainTicker}) = 1
      BY FS_Singleton
  <2> QED BY <2>1, <2>2, FS_Subset
<1> QED BY <1>1, TimerInvariant, PTL

\* No stop leaves a ticker or a pause callback of an earlier timer behind.
THEOREM TimersDoNotLeak == Spec => []NoTimerLeaks
<1>1. TimerInv /\ RegisterInv => CallbackMatchesTicker
    BY RegisterMatches
<1> QED BY <1>1, OneTickerRuns, RegisterInvariant, PTL DEF NoTimerLeaks

\* Before Close a set mainTicker has its loop, so no touch is ignored for ever.
THEOREM TickerKeepsLoop == Spec => []TickerHasLoop
<1>1. TimerInv => TickerHasLoop
    BY DEF TimerInv, LoopInv, TickerHasLoop
<1> QED BY <1>1, TimerInvariant, PTL

\* Before Close no nil ticker and no nil callback is used.
THEOREM NoPanicBeforeClose == Spec => []PanicOnlyWhileClosing
<1>1. TimerInv => PanicOnlyWhileClosing
    BY DEF TimerInv
<1> QED BY <1>1, TimerInvariant, PTL

-----------------------------------------------------------------------------
(* The notifier of a group. *)

LEMMA Capacities ==
    /\ Balancer \cap Stream = {}
    /\ NotifyCap \in Nat \ {0}
    /\ SubscriberCap \in Nat \ {0}
BY NotifierConstants DEF NotifierConstants, Notifier!NotifierAssumption

SubscriberPcs ==
    [Notifier!Subscriber -> {"out", "select", "reading", "leaving", "done"}]

\* What the contexts, the lock and the program counters have to do with each
\* other.
LockDiscipline ==
    /\ loop # "publish" => toPublish = {}
    /\ loop \in {"emit", "publish"} => timerOn

Contexts ==
    /\ busClosed => busDone
    /\ monitorDone => busDone

Subscriptions ==
    \A s \in Notifier!Subscriber :
        /\ place[s] \in {"out", "done"} => unseen[s] = {} /\ channel[s] # "open"
        /\ Notifier!Registered(s) /\ ~busDone => s \in subs

\* The strengthening of UnseenMeansPending and ChannelsOpen.
DeliveryInv ==
    /\ Notifier!NotifierTypeOK
    /\ LockDiscipline
    /\ Contexts
    /\ Notifier!ChannelsOpen
    /\ Subscriptions
    /\ Notifier!UnseenMeansPending

-----------------------------------------------------------------------------
(* One lemma per action. *)

\* A result sets unseen and a signal together; a full channel already holds one.
LEMMA ApplyResultDelivers ==
    ASSUME NEW o \in Outbound, DeliveryInv, Notifier!ApplyResult(o)
    PROVE  DeliveryInv'
<1>1. Notifier!NotifierTypeOK'
    BY Capacities DEF Notifier!ApplyResult, Notifier!Offer, DeliveryInv,
       Notifier!NotifierTypeOK, Notifier!Subscriber, Notifier!loopVars,
       Notifier!busVars, Notifier!subscriberVars, Notifier!contextVars
<1>2. (LockDiscipline /\ Contexts /\ Notifier!ChannelsOpen /\ Subscriptions)'
    BY DEF Notifier!ApplyResult, Notifier!Offer, DeliveryInv,
       Notifier!NotifierTypeOK, LockDiscipline, Contexts, Notifier!ChannelsOpen,
       Subscriptions, Notifier!Registered, Notifier!loopVars, Notifier!busVars,
       Notifier!subscriberVars, Notifier!contextVars
<1>3. Notifier!UnseenMeansPending'
    BY Capacities DEF Notifier!ApplyResult, Notifier!Offer, DeliveryInv,
       Notifier!NotifierTypeOK, Notifier!UnseenMeansPending, Notifier!Pending,
       Notifier!Registered, LockDiscipline, Contexts, Subscriptions,
       Notifier!loopVars, Notifier!busVars, Notifier!subscriberVars,
       Notifier!contextVars
<1> QED BY <1>1, <1>2, <1>3 DEF DeliveryInv

\* Nothing but the caller changes.
LEMMA CallSignalChangeDelivers ==
    ASSUME NEW c \in Signaller, DeliveryInv, Notifier!CallSignalChange(c)
    PROVE  DeliveryInv'
BY Capacities DEF Notifier!CallSignalChange, DeliveryInv,
   Notifier!NotifierTypeOK, Notifier!Subscriber, LockDiscipline, Contexts,
   Notifier!ChannelsOpen, Subscriptions, Notifier!UnseenMeansPending,
   Notifier!Pending, Notifier!Registered, Notifier!loopVars, Notifier!busVars,
   Notifier!subscriberVars, Notifier!contextVars

\* A signal is added.
LEMMA SendSignalDelivers ==
    ASSUME NEW c \in Signaller, DeliveryInv, Notifier!SendSignal(c)
    PROVE  DeliveryInv'
BY Capacities DEF Notifier!SendSignal, DeliveryInv,
   Notifier!NotifierTypeOK, Notifier!Subscriber, LockDiscipline, Contexts,
   Notifier!ChannelsOpen, Subscriptions, Notifier!UnseenMeansPending,
   Notifier!Pending, Notifier!Registered, Notifier!loopVars, Notifier!busVars,
   Notifier!subscriberVars, Notifier!contextVars

\* The signal becomes a running timer.
LEMMA ReceiveSignalDelivers ==
    ASSUME DeliveryInv, Notifier!ReceiveSignal
    PROVE  DeliveryInv'
BY Capacities DEF Notifier!ReceiveSignal, DeliveryInv,
   Notifier!NotifierTypeOK, Notifier!Subscriber, LockDiscipline, Contexts,
   Notifier!ChannelsOpen, Subscriptions, Notifier!UnseenMeansPending,
   Notifier!Pending, Notifier!Registered, Notifier!loopVars, Notifier!busVars,
   Notifier!subscriberVars, Notifier!contextVars

\* The timer stays set until Publish has run.
LEMMA TimerFiresDelivers ==
    ASSUME DeliveryInv, Notifier!TimerFires
    PROVE  DeliveryInv'
BY Capacities DEF Notifier!TimerFires, DeliveryInv,
   Notifier!NotifierTypeOK, Notifier!Subscriber, LockDiscipline, Contexts,
   Notifier!ChannelsOpen, Subscriptions, Notifier!UnseenMeansPending,
   Notifier!Pending, Notifier!Registered, Notifier!loopVars, Notifier!busVars,
   Notifier!subscriberVars, Notifier!contextVars

\* The running timer is what was pending; Publish now owes every registered
\* subscriber, and a registered subscriber is one of subs.
LEMMA BeginPublishDelivers ==
    ASSUME DeliveryInv, Notifier!BeginPublish
    PROVE  DeliveryInv'
<1>1. Notifier!NotifierTypeOK'
    BY Capacities DEF Notifier!BeginPublish, DeliveryInv,
       Notifier!NotifierTypeOK, Notifier!Subscriber, Notifier!loopVars,
       Notifier!busVars, Notifier!subscriberVars, Notifier!contextVars
<1>2. (LockDiscipline /\ Contexts /\ Notifier!ChannelsOpen /\ Subscriptions)'
    BY DEF Notifier!BeginPublish, DeliveryInv, Notifier!NotifierTypeOK,
       LockDiscipline, Contexts, Notifier!ChannelsOpen, Subscriptions,
       Notifier!Registered, Notifier!loopVars, Notifier!busVars,
       Notifier!subscriberVars, Notifier!contextVars
<1>3. Notifier!UnseenMeansPending'
    BY Capacities DEF Notifier!BeginPublish, DeliveryInv,
       Notifier!NotifierTypeOK, Notifier!UnseenMeansPending, Notifier!Pending,
       Notifier!Registered, LockDiscipline, Contexts, Subscriptions,
       Notifier!loopVars, Notifier!busVars, Notifier!subscriberVars,
       Notifier!contextVars
<1> QED BY <1>1, <1>2, <1>3 DEF DeliveryInv

\* A dropped event leaves the channel of the subscriber full, which is pending
\* as well.
LEMMA PublishToDelivers ==
    ASSUME NEW s \in Notifier!Subscriber, DeliveryInv, Notifier!PublishTo(s)
    PROVE  DeliveryInv'
<1>1. Notifier!NotifierTypeOK'
    BY Capacities DEF Notifier!PublishTo, Notifier!Offer, DeliveryInv,
       Notifier!NotifierTypeOK, Notifier!Subscriber, Notifier!loopVars,
       Notifier!busVars, Notifier!subscriberVars, Notifier!contextVars
<1>2. (LockDiscipline /\ Contexts /\ Notifier!ChannelsOpen /\ Subscriptions)'
    BY DEF Notifier!PublishTo, Notifier!Offer, DeliveryInv,
       Notifier!NotifierTypeOK, LockDiscipline, Contexts, Notifier!ChannelsOpen,
       Subscriptions, Notifier!Registered, Notifier!loopVars, Notifier!busVars,
       Notifier!subscriberVars, Notifier!contextVars
<1>3. Notifier!UnseenMeansPending'
    BY Capacities DEF Notifier!PublishTo, Notifier!Offer, DeliveryInv,
       Notifier!NotifierTypeOK, Notifier!UnseenMeansPending, Notifier!Pending,
       Notifier!Registered, LockDiscipline, Contexts, Subscriptions,
       Notifier!loopVars, Notifier!busVars, Notifier!subscriberVars,
       Notifier!contextVars
<1> QED BY <1>1, <1>2, <1>3 DEF DeliveryInv

\* Publish gives up only after the Broadcaster is done.
LEMMA AbandonPublishDelivers ==
    ASSUME DeliveryInv, Notifier!AbandonPublish
    PROVE  DeliveryInv'
BY Capacities DEF Notifier!AbandonPublish, DeliveryInv,
   Notifier!NotifierTypeOK, Notifier!Subscriber, LockDiscipline, Contexts,
   Notifier!ChannelsOpen, Subscriptions, Notifier!UnseenMeansPending,
   Notifier!Pending, Notifier!Registered, Notifier!loopVars, Notifier!busVars,
   Notifier!subscriberVars, Notifier!contextVars

\* Nobody is owed an event any more, so what was pending is pending elsewhere.
LEMMA EndPublishDelivers ==
    ASSUME DeliveryInv, Notifier!EndPublish
    PROVE  DeliveryInv'
<1>1. Notifier!NotifierTypeOK'
    BY Capacities DEF Notifier!EndPublish, DeliveryInv,
       Notifier!NotifierTypeOK, Notifier!Subscriber, Notifier!loopVars,
       Notifier!busVars, Notifier!subscriberVars, Notifier!contextVars
<1>2. (LockDiscipline /\ Contexts /\ Notifier!ChannelsOpen /\ Subscriptions)'
    BY DEF Notifier!EndPublish, DeliveryInv, Notifier!NotifierTypeOK,
       LockDiscipline, Contexts, Notifier!ChannelsOpen, Subscriptions,
       Notifier!Registered, Notifier!loopVars, Notifier!busVars,
       Notifier!subscriberVars, Notifier!contextVars
<1>3. Notifier!UnseenMeansPending'
    BY Capacities DEF Notifier!EndPublish, DeliveryInv,
       Notifier!NotifierTypeOK, Notifier!UnseenMeansPending, Notifier!Pending,
       Notifier!Registered, LockDiscipline, Contexts, Subscriptions,
       Notifier!loopVars, Notifier!busVars, Notifier!subscriberVars,
       Notifier!contextVars
<1> QED BY <1>1, <1>2, <1>3 DEF DeliveryInv

\* The loop returns only after the Broadcaster is done.
LEMMA LoopReturnsDelivers ==
    ASSUME DeliveryInv, Notifier!LoopReturns
    PROVE  DeliveryInv'
BY Capacities DEF Notifier!LoopReturns, DeliveryInv,
   Notifier!NotifierTypeOK, Notifier!Subscriber, LockDiscipline, Contexts,
   Notifier!ChannelsOpen, Subscriptions, Notifier!UnseenMeansPending,
   Notifier!Pending, Notifier!Registered, Notifier!loopVars, Notifier!busVars,
   Notifier!subscriberVars, Notifier!contextVars

\* A new subscriber has nothing unseen; its channel joins subs unless the
\* Broadcaster is done.
LEMMA SubscribeDelivers ==
    ASSUME NEW s \in Notifier!Subscriber, DeliveryInv, Notifier!Subscribe(s)
    PROVE  DeliveryInv'
<1>1. Notifier!NotifierTypeOK'
    BY Capacities DEF Notifier!Subscribe, Notifier!Unlocked, DeliveryInv,
       Notifier!NotifierTypeOK, Notifier!Subscriber, Notifier!loopVars,
       Notifier!busVars, Notifier!subscriberVars, Notifier!contextVars
<1>2. (LockDiscipline /\ Contexts /\ Notifier!ChannelsOpen /\ Subscriptions)'
    BY DEF Notifier!Subscribe, Notifier!Unlocked, DeliveryInv,
       Notifier!NotifierTypeOK, LockDiscipline, Contexts, Notifier!ChannelsOpen,
       Subscriptions, Notifier!Registered, Notifier!loopVars, Notifier!busVars,
       Notifier!subscriberVars, Notifier!contextVars
<1>3. Notifier!UnseenMeansPending'
    BY Capacities DEF Notifier!Subscribe, Notifier!Unlocked, DeliveryInv,
       Notifier!NotifierTypeOK, Notifier!UnseenMeansPending, Notifier!Pending,
       Notifier!Registered, LockDiscipline, Contexts, Subscriptions,
       Notifier!loopVars, Notifier!busVars, Notifier!subscriberVars,
       Notifier!contextVars
<1> QED BY <1>1, <1>2, <1>3 DEF DeliveryInv

\* The event becomes a reading of every outbound or a running timer.
LEMMA ReceiveEventDelivers ==
    ASSUME NEW s \in Notifier!Subscriber, DeliveryInv, Notifier!ReceiveEvent(s)
    PROVE  DeliveryInv'
<1>1. Notifier!NotifierTypeOK'
  <2>1. buffer' \in [Notifier!Subscriber -> 0..SubscriberCap]
    BY Capacities DEF Notifier!ReceiveEvent, DeliveryInv,
       Notifier!NotifierTypeOK
  <2>2. /\ place' \in SubscriberPcs
        /\ debounce' \in [Notifier!Subscriber -> BOOLEAN]
        /\ toRead' \in [Notifier!Subscriber -> SUBSET Outbound]
    <3>1. \/ /\ place' = [place EXCEPT ![s] = "reading"]
             /\ toRead' = [toRead EXCEPT ![s] = Outbound]
             /\ debounce' = debounce
          \/ /\ debounce' = [debounce EXCEPT ![s] = TRUE]
             /\ place' = place
             /\ toRead' = toRead
      BY DEF Notifier!ReceiveEvent
    <3>2. place' \in SubscriberPcs
      BY <3>1 DEF DeliveryInv, Notifier!NotifierTypeOK, SubscriberPcs
    <3>3. debounce' \in [Notifier!Subscriber -> BOOLEAN]
      BY <3>1 DEF DeliveryInv, Notifier!NotifierTypeOK
    <3>4. toRead' \in [Notifier!Subscriber -> SUBSET Outbound]
      BY <3>1 DEF DeliveryInv, Notifier!NotifierTypeOK
    <3> QED BY <3>2, <3>3, <3>4
  <2> QED
    BY <2>1, <2>2 DEF SubscriberPcs, Notifier!ReceiveEvent, DeliveryInv,
       Notifier!NotifierTypeOK, Notifier!loopVars, Notifier!busVars,
       Notifier!contextVars
<1>2. (LockDiscipline /\ Contexts /\ Notifier!ChannelsOpen /\ Subscriptions)'
    BY DEF Notifier!ReceiveEvent, DeliveryInv, Notifier!NotifierTypeOK,
       LockDiscipline, Contexts, Notifier!ChannelsOpen, Subscriptions,
       Notifier!Registered, Notifier!loopVars, Notifier!busVars,
       Notifier!subscriberVars, Notifier!contextVars
<1>3. Notifier!UnseenMeansPending'
    BY Capacities DEF Notifier!ReceiveEvent, DeliveryInv,
       Notifier!NotifierTypeOK, Notifier!UnseenMeansPending, Notifier!Pending,
       Notifier!Registered, LockDiscipline, Contexts, Subscriptions,
       Notifier!loopVars, Notifier!busVars, Notifier!subscriberVars,
       Notifier!contextVars
<1> QED BY <1>1, <1>2, <1>3 DEF DeliveryInv

\* The timer of the stream becomes a reading of every outbound.
LEMMA StreamTimerFiresDelivers ==
    ASSUME NEW s \in Notifier!Subscriber, DeliveryInv, Notifier!StreamTimerFires(s)
    PROVE  DeliveryInv'
BY Capacities DEF Notifier!StreamTimerFires, DeliveryInv,
   Notifier!NotifierTypeOK, Notifier!Subscriber, LockDiscipline, Contexts,
   Notifier!ChannelsOpen, Subscriptions, Notifier!UnseenMeansPending,
   Notifier!Pending, Notifier!Registered, Notifier!loopVars, Notifier!busVars,
   Notifier!subscriberVars, Notifier!contextVars

\* What is read is not unseen any more.
LEMMA ReadHistoryDelivers ==
    ASSUME NEW s \in Notifier!Subscriber, NEW o \in Outbound, DeliveryInv,
           Notifier!ReadHistory(s, o)
    PROVE  DeliveryInv'
<1>1. Notifier!NotifierTypeOK'
    BY Capacities DEF Notifier!ReadHistory, DeliveryInv,
       Notifier!NotifierTypeOK, Notifier!Subscriber, Notifier!loopVars,
       Notifier!busVars, Notifier!subscriberVars, Notifier!contextVars
<1>2. (LockDiscipline /\ Contexts /\ Notifier!ChannelsOpen /\ Subscriptions)'
    BY DEF Notifier!ReadHistory, DeliveryInv, Notifier!NotifierTypeOK,
       LockDiscipline, Contexts, Notifier!ChannelsOpen, Subscriptions,
       Notifier!Registered, Notifier!loopVars, Notifier!busVars,
       Notifier!subscriberVars, Notifier!contextVars
<1>3. Notifier!UnseenMeansPending'
    BY Capacities DEF Notifier!ReadHistory, DeliveryInv,
       Notifier!NotifierTypeOK, Notifier!UnseenMeansPending, Notifier!Pending,
       Notifier!Registered, LockDiscipline, Contexts, Subscriptions,
       Notifier!loopVars, Notifier!busVars, Notifier!subscriberVars,
       Notifier!contextVars
<1> QED BY <1>1, <1>2, <1>3 DEF DeliveryInv

\* The reading has reached every outbound.
LEMMA UseDelivers ==
    ASSUME NEW s \in Notifier!Subscriber, DeliveryInv, Notifier!Use(s)
    PROVE  DeliveryInv'
<1>1. Notifier!NotifierTypeOK'
    BY Capacities DEF Notifier!Use, DeliveryInv, Notifier!NotifierTypeOK,
       Notifier!Subscriber, Notifier!loopVars, Notifier!busVars,
       Notifier!subscriberVars, Notifier!contextVars
<1>2. (LockDiscipline /\ Contexts /\ Notifier!ChannelsOpen /\ Subscriptions)'
    BY DEF Notifier!Use, DeliveryInv, Notifier!NotifierTypeOK, LockDiscipline,
       Contexts, Notifier!ChannelsOpen, Subscriptions, Notifier!Registered,
       Notifier!loopVars, Notifier!busVars, Notifier!subscriberVars,
       Notifier!contextVars
<1>3. Notifier!UnseenMeansPending'
    BY Capacities DEF Notifier!Use, DeliveryInv, Notifier!NotifierTypeOK,
       Notifier!UnseenMeansPending, Notifier!Pending, Notifier!Registered,
       LockDiscipline, Contexts, Subscriptions, Notifier!loopVars,
       Notifier!busVars, Notifier!subscriberVars, Notifier!contextVars
<1> QED BY <1>1, <1>2, <1>3 DEF DeliveryInv

\* Who leaves is not registered any more.
LEMMA LeaveDelivers ==
    ASSUME NEW s \in Notifier!Subscriber, DeliveryInv, Notifier!Leave(s)
    PROVE  DeliveryInv'
BY Capacities DEF Notifier!Leave, Notifier!StopsFor, DeliveryInv,
   Notifier!NotifierTypeOK, Notifier!Subscriber, LockDiscipline, Contexts,
   Notifier!ChannelsOpen, Subscriptions, Notifier!UnseenMeansPending,
   Notifier!Pending, Notifier!Registered, Notifier!loopVars, Notifier!busVars,
   Notifier!subscriberVars, Notifier!contextVars

\* Publish is not running, so it owes nobody and no send can meet the close.
LEMMA UnsubscribeDelivers ==
    ASSUME NEW s \in Notifier!Subscriber, DeliveryInv, Notifier!Unsubscribe(s)
    PROVE  DeliveryInv'
<1>1. Notifier!NotifierTypeOK'
    BY Capacities DEF Notifier!Unsubscribe, Notifier!Unlocked,
       DeliveryInv, Notifier!NotifierTypeOK, Notifier!Subscriber,
       Notifier!loopVars, Notifier!busVars, Notifier!subscriberVars,
       Notifier!contextVars
<1>2. (LockDiscipline /\ Contexts /\ Notifier!ChannelsOpen /\ Subscriptions)'
    BY DEF Notifier!Unsubscribe, Notifier!Unlocked, DeliveryInv,
       Notifier!NotifierTypeOK, LockDiscipline, Contexts, Notifier!ChannelsOpen,
       Subscriptions, Notifier!Registered, Notifier!loopVars, Notifier!busVars,
       Notifier!subscriberVars, Notifier!contextVars
<1>3. Notifier!UnseenMeansPending'
    BY Capacities DEF Notifier!Unsubscribe, Notifier!Unlocked,
       DeliveryInv, Notifier!NotifierTypeOK, Notifier!UnseenMeansPending,
       Notifier!Pending, Notifier!Registered, LockDiscipline, Contexts,
       Subscriptions, Notifier!loopVars, Notifier!busVars,
       Notifier!subscriberVars, Notifier!contextVars
<1> QED BY <1>1, <1>2, <1>3 DEF DeliveryInv

\* From here on nothing is promised but the order of the contexts.
LEMMA CloseBroadcasterDelivers ==
    ASSUME DeliveryInv, Notifier!CloseBroadcaster
    PROVE  DeliveryInv'
BY Capacities DEF Notifier!CloseBroadcaster, DeliveryInv,
   Notifier!NotifierTypeOK, Notifier!Subscriber, LockDiscipline, Contexts,
   Notifier!ChannelsOpen, Subscriptions, Notifier!UnseenMeansPending,
   Notifier!Pending, Notifier!Registered, Notifier!loopVars, Notifier!busVars,
   Notifier!subscriberVars, Notifier!contextVars

\* The same.
LEMMA CancelMonitorDelivers ==
    ASSUME DeliveryInv, Notifier!CancelMonitor
    PROVE  DeliveryInv'
BY Capacities DEF Notifier!CancelMonitor, DeliveryInv,
   Notifier!NotifierTypeOK, Notifier!Subscriber, LockDiscipline, Contexts,
   Notifier!ChannelsOpen, Subscriptions, Notifier!UnseenMeansPending,
   Notifier!Pending, Notifier!Registered, Notifier!loopVars, Notifier!busVars,
   Notifier!subscriberVars, Notifier!contextVars

\* The same.
LEMMA CancelBoxDelivers ==
    ASSUME DeliveryInv, Notifier!CancelBox
    PROVE  DeliveryInv'
BY Capacities DEF Notifier!CancelBox, DeliveryInv,
   Notifier!NotifierTypeOK, Notifier!Subscriber, LockDiscipline, Contexts,
   Notifier!ChannelsOpen, Subscriptions, Notifier!UnseenMeansPending,
   Notifier!Pending, Notifier!Registered, Notifier!loopVars, Notifier!busVars,
   Notifier!subscriberVars, Notifier!contextVars

\* The same for all channels at once.
LEMMA CloseAllDelivers ==
    ASSUME DeliveryInv, Notifier!CloseAll
    PROVE  DeliveryInv'
<1>1. Notifier!NotifierTypeOK'
    BY Capacities DEF Notifier!CloseAll, Notifier!Unlocked, DeliveryInv,
       Notifier!NotifierTypeOK, Notifier!Subscriber, Notifier!loopVars,
       Notifier!busVars, Notifier!subscriberVars, Notifier!contextVars
<1>2. (LockDiscipline /\ Contexts /\ Notifier!ChannelsOpen /\ Subscriptions)'
    BY DEF Notifier!CloseAll, Notifier!Unlocked, DeliveryInv,
       Notifier!NotifierTypeOK, LockDiscipline, Contexts, Notifier!ChannelsOpen,
       Subscriptions, Notifier!Registered, Notifier!loopVars, Notifier!busVars,
       Notifier!subscriberVars, Notifier!contextVars
<1>3. Notifier!UnseenMeansPending'
    BY Capacities DEF Notifier!CloseAll, Notifier!Unlocked, DeliveryInv,
       Notifier!NotifierTypeOK, Notifier!UnseenMeansPending, Notifier!Pending,
       Notifier!Registered, LockDiscipline, Contexts, Subscriptions,
       Notifier!loopVars, Notifier!busVars, Notifier!subscriberVars,
       Notifier!contextVars
<1> QED BY <1>1, <1>2, <1>3 DEF DeliveryInv

-----------------------------------------------------------------------------

\* Nobody has subscribed, nothing is unseen.
LEMMA InitDelivers == Notifier!Init => DeliveryInv
<1> SUFFICES ASSUME Notifier!Init PROVE DeliveryInv
    OBVIOUS
<1>1. Notifier!NotifierTypeOK
  <2>1. 0 \in 0..NotifyCap /\ 0 \in 0..SubscriberCap
    BY Capacities
  <2>2. /\ channel \in [Notifier!Subscriber -> {"none", "open", "closed"}]
        /\ place \in SubscriberPcs
        /\ signaller \in [Signaller -> {"idle", "sending"}]
        /\ debounce \in [Notifier!Subscriber -> BOOLEAN]
    BY DEF Notifier!Init, SubscriberPcs
  <2>3. /\ buffer \in [Notifier!Subscriber -> 0..SubscriberCap]
        /\ toRead \in [Notifier!Subscriber -> SUBSET Outbound]
        /\ unseen \in [Notifier!Subscriber -> SUBSET Outbound]
    BY <2>1 DEF Notifier!Init
  <2> QED
    BY <2>1, <2>2, <2>3
       DEF Notifier!Init, Notifier!NotifierTypeOK, SubscriberPcs
<1>2. LockDiscipline /\ Contexts
    BY DEF Notifier!Init, LockDiscipline, Contexts
<1>3. Notifier!ChannelsOpen
    BY DEF Notifier!Init, Notifier!ChannelsOpen
<1>4. \A s \in Notifier!Subscriber :
          place[s] = "out" /\ unseen[s] = {} /\ channel[s] = "none"
    BY DEF Notifier!Init
<1>5. Subscriptions /\ Notifier!UnseenMeansPending
    BY <1>4 DEF Subscriptions, Notifier!UnseenMeansPending, Notifier!Registered
<1> QED BY <1>1, <1>2, <1>3, <1>5 DEF DeliveryInv

\* A step that changes nothing.
LEMMA StutterDelivers ==
    ASSUME DeliveryInv, UNCHANGED Notifier!vars
    PROVE  DeliveryInv'
<1>1. /\ UNCHANGED <<notify, loop, timerOn, toPublish, subs, busClosed, channel>>
      /\ UNCHANGED <<buffer, place, debounce, toRead, signaller>>
      /\ UNCHANGED <<busDone, monitorDone, boxDone, unseen>>
    BY DEF Notifier!vars, Notifier!loopVars, Notifier!busVars,
       Notifier!subscriberVars, Notifier!contextVars
<1>2. Notifier!NotifierTypeOK' /\ Notifier!UnseenMeansPending'
    BY <1>1 DEF DeliveryInv, Notifier!NotifierTypeOK,
       Notifier!UnseenMeansPending, Notifier!Pending, Notifier!Registered
<1>3. (LockDiscipline /\ Contexts /\ Notifier!ChannelsOpen /\ Subscriptions)'
    BY <1>1 DEF DeliveryInv, LockDiscipline, Contexts, Notifier!ChannelsOpen,
       Subscriptions, Notifier!Registered
<1> QED BY <1>2, <1>3 DEF DeliveryInv

\* Every step.
LEMMA NextDelivers == DeliveryInv /\ [Notifier!Next]_Notifier!vars => DeliveryInv'
<1> SUFFICES ASSUME DeliveryInv, [Notifier!Next]_Notifier!vars
             PROVE  DeliveryInv'
    OBVIOUS
<1>1. CASE Notifier!SourceStep
    BY <1>1, ApplyResultDelivers, CallSignalChangeDelivers, SendSignalDelivers
       DEF Notifier!SourceStep
<1>2. CASE Notifier!LoopStep
    BY <1>2, ReceiveSignalDelivers, TimerFiresDelivers, BeginPublishDelivers,
       PublishToDelivers, AbandonPublishDelivers, EndPublishDelivers,
       LoopReturnsDelivers DEF Notifier!LoopStep
<1>3. CASE \E s \in Notifier!Subscriber : Notifier!SubscriberStep(s)
    BY <1>3, SubscribeDelivers, ReceiveEventDelivers, StreamTimerFiresDelivers,
       ReadHistoryDelivers, UseDelivers, LeaveDelivers, UnsubscribeDelivers
       DEF Notifier!SubscriberStep
<1>4. CASE Notifier!EndStep
    BY <1>4, CloseBroadcasterDelivers, CancelMonitorDelivers, CancelBoxDelivers,
       CloseAllDelivers DEF Notifier!EndStep
<1>5. CASE UNCHANGED Notifier!vars
    BY <1>5, StutterDelivers
<1> QED BY <1>1, <1>2, <1>3, <1>4, <1>5 DEF Notifier!Next

\* The strengthening of the theorems below is an invariant.
THEOREM DeliveryInvariant == Notifier!Spec => []DeliveryInv
BY InitDelivers, NextDelivers, PTL DEF Notifier!Spec

\* Every reachable state of the notifier is well typed; in particular no channel
\* ever holds more than its capacity.
THEOREM NotifierTypes == Notifier!Spec => []Notifier!NotifierTypeOK
<1>1. DeliveryInv => Notifier!NotifierTypeOK
    BY DEF DeliveryInv
<1> QED BY <1>1, DeliveryInvariant, PTL

\* A result that a subscriber has not read is on its way to it, whatever
\* groupNotifierLoop, Publish and the subscribers' own timers drop.
THEOREM ResultsNotLost == Notifier!Spec => []UnseenMeansPending
<1>1. DeliveryInv => UnseenMeansPending
    BY DEF DeliveryInv, UnseenMeansPending
<1> QED BY <1>1, DeliveryInvariant, PTL

\* Broadcaster.Publish sends to open channels only, and Unsubscribe and closeAll
\* close a channel once between them.
THEOREM ChannelsStayOpen == Notifier!Spec => []ChannelsOpen
<1>1. DeliveryInv => ChannelsOpen
    BY DEF DeliveryInv, ChannelsOpen
<1> QED BY <1>1, DeliveryInvariant, PTL
==============================================================================
