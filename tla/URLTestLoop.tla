----------------------------- MODULE URLTestLoop -----------------------------
(***************************************************************************)
(* The loop of a URLTest group: PostStart, Touch and Close under the lock  *)
(* "access", and loopCheck, which reads the ticker and lastActive without  *)
(* it and takes it only to stop.  Ages count units of time up to just      *)
(* beyond the idle timeout.                                                *)
(***************************************************************************)
EXTENDS Naturals

CONSTANTS
    Interval, IdleTimeout,
    MaxLoops,       \* bound: tickers made in a behaviour
    MaxTouches,     \* bound: calls of Touch
    LateTouches     \* whether a connection may touch a closed group

\* What the constants stand for.
LoopAssumption ==
    /\ Interval \in Nat \ {0} /\ IdleTimeout \in Nat /\ Interval <= IdleTimeout
    /\ MaxLoops \in Nat /\ MaxTouches \in Nat /\ LateTouches \in BOOLEAN

VARIABLES
    started, closed,    \* URLTestGroup.started; Close was called
    closing,            \* the channel URLTestGroup.close is closed
    ticker,             \* URLTestGroup.ticker, 0 for nil
    running, registered,\* tickers that tick, and those with a pause callback
    tick,               \* tickers whose channel holds a tick
    loop,               \* loop i was started with ticker i
    active,             \* age of lastActive
    touched, touches    \* age of the last Touch, and their number

vars == <<started, closed, closing, ticker, running, registered, tick, loop,
          active, touched, touches>>

Loops == 1..MaxLoops
Beyond == IdleTimeout + 1

TypeOK ==
    /\ {started, closed, closing} \subseteq BOOLEAN
    /\ ticker \in 0..MaxLoops
    /\ running \subseteq Loops /\ registered \subseteq Loops /\ tick \subseteq Loops
    /\ loop \in [Loops -> {"none", "begin", "wait", "check", "idle", "done"}]
    /\ active \in 0..Beyond /\ touched \in 0..Beyond
    /\ touches \in 0..MaxTouches

Init ==
    /\ started = FALSE /\ closed = FALSE /\ closing = FALSE
    /\ ticker = 0 /\ running = {} /\ registered = {} /\ tick = {}
    /\ loop = [i \in Loops |-> "none"]
    /\ active = Beyond /\ touched = Beyond /\ touches = 0

Goto(i, place) == loop' = [loop EXCEPT ![i] = place]

----------------------------------------------------------------------------
PostStart ==
    /\ ~started
    /\ started' = TRUE /\ active' = 0
    /\ UNCHANGED <<closed, closing, ticker, running, registered, tick, loop, touched, touches>>

MayTouch ==
    /\ started /\ touches < MaxTouches /\ (closed => LateTouches)
    /\ touches' = touches + 1
    /\ touched' = 0

\* Mutation: a touch leaves lastActive alone.
ActiveAfterTouchKept == active

ActiveAfterTouch == 0

TouchRunning ==
    /\ MayTouch
    /\ ticker # 0
    /\ active' = ActiveAfterTouch
    /\ UNCHANGED <<started, closed, closing, ticker, running, registered, tick, loop>>

\* The touch that makes a ticker does not store lastActive.
TouchIdle ==
    /\ MayTouch
    /\ ticker = 0
    /\ \E i \in Loops :
           /\ \A j \in Loops : loop[j] = "none" <=> j >= i
           /\ ticker' = i
           /\ running' = running \cup {i}
           /\ registered' = registered \cup {i}
           /\ Goto(i, "begin")
    /\ UNCHANGED <<started, closed, closing, tick, active>>

\* Close calls nothing when no ticker is set; the field keeps the stopped one.
Close ==
    /\ ~closed /\ closed' = TRUE
    /\ closing' = (ticker # 0)
    /\ running' = running \ {ticker}
    /\ registered' = registered \ {ticker}
    /\ UNCHANGED <<started, ticker, tick, loop, active, touched, touches>>

----------------------------------------------------------------------------
(* loopCheck                                                                *)

LoopBegin(i) ==
    /\ loop[i] = "begin"
    /\ IF active > Interval
       THEN active' = 0 /\ Goto(i, "check")
       ELSE UNCHANGED active /\ Goto(i, "wait")
    /\ UNCHANGED <<started, closed, closing, ticker, running, registered, tick, touched, touches>>

\* Mutation: a check counts as activity.
ActiveAfterCheckNow == 0

\* A check leaves lastActive alone: the members it dials do not touch the group.
ActiveAfterCheck == active

\* CheckOutbounds, module URLTestGroup: it takes its time and ends.
CheckDone(i) ==
    /\ loop[i] = "check"
    /\ Goto(i, "wait")
    /\ active' = ActiveAfterCheck
    /\ UNCHANGED <<started, closed, closing, ticker, running, registered, tick, touched, touches>>

LoopClosed(i) ==
    /\ loop[i] = "wait" /\ closing
    /\ Goto(i, "done")
    /\ UNCHANGED <<started, closed, closing, ticker, running, registered, tick, active, touched, touches>>

LoopTick(i) ==
    /\ loop[i] = "wait" /\ ticker \in tick
    /\ tick' = tick \ {ticker}
    /\ Goto(i, IF active > IdleTimeout THEN "idle" ELSE "check")
    /\ UNCHANGED <<started, closed, closing, ticker, running, registered, active, touched, touches>>

\* Mutation: the ticker is left in the field.
TickerAfterStopKept == ticker

TickerAfterStop == 0

CallbacksAfterStop == registered \ {ticker}

LoopStop(i) ==
    /\ loop[i] = "idle"
    /\ running' = running \ {ticker}
    /\ registered' = CallbacksAfterStop
    /\ ticker' = TickerAfterStop
    /\ Goto(i, "done")
    /\ UNCHANGED <<started, closed, closing, tick, active, touched, touches>>

----------------------------------------------------------------------------
(* Time                                                                     *)

Fire(i) ==
    /\ i \in running \ tick
    /\ tick' = tick \cup {i}
    /\ UNCHANGED <<started, closed, closing, ticker, running, registered, loop, active, touched, touches>>

Older(age) == IF age = Beyond THEN age ELSE age + 1

Pass ==
    /\ active' = Older(active) /\ touched' = Older(touched)
    /\ UNCHANGED <<started, closed, closing, ticker, running, registered, tick, loop, touches>>

LoopStep(i) == LoopBegin(i) \/ CheckDone(i) \/ LoopClosed(i) \/ LoopTick(i) \/ LoopStop(i)

Next ==
    \/ PostStart \/ TouchRunning \/ TouchIdle \/ Close \/ Pass
    \/ \E i \in Loops : LoopStep(i) \/ Fire(i)

Spec == Init /\ [][Next]_vars

\* Time passes, a ticker that runs fires (the device does not stay paused),
\* and a goroutine that can go on does.
FairSpec ==
    /\ Spec /\ WF_vars(Pass)
    /\ \A i \in Loops : WF_vars(LoopStep(i)) /\ WF_vars(Fire(i))

----------------------------------------------------------------------------
Live == {i \in Loops : loop[i] \notin {"none", "done"}}

\* Until the group is closed, a ticker, its loop and its pause callback come
\* and go together, so the loop never reads a nil ticker (g.ticker.C) nor
\* another loop's, and two loops never share one.
LoopOwnsTicker ==
    /\ \A i \in Live : ticker = i
    /\ ticker # 0 /\ ~closed => ticker \in Live /\ running = {ticker} /\ registered = {ticker}
    /\ ticker = 0 => running = {} /\ registered = {}

\* The loop decides to stop only when nothing has touched the group for the
\* idle timeout less one interval: the touch that makes the ticker does not
\* store lastActive, which may be an interval old.
StopsOnlyIdle ==
    [][\A i \in Loops : loop[i] = "wait" /\ loop'[i] = "idle" => touched + Interval > IdleTimeout]_vars

\* When nothing touches the group any more, everything ends: the loop, the
\* ticker and the callback, whether Close finds a ticker or not.
EndsAtRest == <>[](Live = {} /\ running = {} /\ registered = {})
==============================================================================
