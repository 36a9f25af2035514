--------------------------- MODULE GroupNotifier ---------------------------
(***************************************************************************)
(* How a new test result reaches those who use it: the notifier of one     *)
(* outbound group (outbound_monitoring.go, groupNotifierLoop), the         *)
(* Broadcaster of its events (brodcaster.go) and the two kinds of          *)
(* subscribers, the balancer of the group (balancer.go, worker) and the    *)
(* streams that show all outbounds to the app (proxy_info.go,              *)
(* AllProxiesInfoStream).                                                  *)
(*                                                                         *)
(* Every hop may drop: the notify channel holds one signal, the debounce   *)
(* timer swallows signals while it runs, the Broadcaster drops the event   *)
(* of a subscriber whose channel is full, a stream debounces once more.    *)
(* An event carries no data that a subscriber uses: each reads the         *)
(* histories of the group again, one outbound at a time, while results go  *)
(* on arriving.  unseen records the results a subscriber has not read.     *)
(***************************************************************************)
EXTENDS Integers, FiniteSets

CONSTANTS
    Outbound,       \* the outbounds of the group
    Balancer,       \* subscribers that run Balancer.worker
    Stream,         \* subscribers that run AllProxiesInfoStream
    Signaller,      \* threads that call SignalChange (a selector's ping)
    NotifyCap,      \* capacity of notifyCh (1 in the code)
    SubscriberCap   \* capacity of a subscriber's channel (1 in the code)

Subscriber == Balancer \cup Stream

\* What the constants stand for.
NotifierAssumption ==
    /\ Balancer \cap Stream = {}
    /\ NotifyCap \in Nat \ {0}
    /\ SubscriberCap \in Nat \ {0}

VARIABLES
    notify,       \* number of signals in grp.notifyCh
    loop,         \* program counter of groupNotifierLoop
    timerOn,      \* its debounce timer is not nil
    toPublish,    \* subscribers Publish has not reached yet
    subs,         \* the keys of Broadcaster.subs
    busClosed,    \* closeAll has run: subs is nil
    channel,      \* [Subscriber -> {"none", "open", "closed"}]
    buffer,       \* [Subscriber -> number of events in its channel]
    pc,           \* program counter of each subscriber
    debounce,     \* [Subscriber -> BOOLEAN]: a stream's own timer is not nil
    toRead,       \* outbounds OutboundsHistory has still to read, per subscriber
    signaller,    \* [Signaller -> {"idle", "sending"}]
    busDone,      \* the Broadcaster's context is cancelled
    monitorDone,  \* the monitor's context is cancelled
    boxDone,      \* the context of the box, parent of both, is cancelled
    unseen        \* history: results a subscriber has not read since it subscribed

loopVars == <<loop, timerOn, toPublish>>
busVars == <<subs, busClosed, channel>>
subscriberVars == <<pc, debounce, toRead>>
contextVars == <<busDone, monitorDone, boxDone>>
vars == <<notify, loopVars, busVars, buffer, subscriberVars, signaller,
          contextVars, unseen>>

NotifierTypeOK ==
    /\ notify \in 0..NotifyCap
    /\ loop \in {"select", "emit", "publish", "done"}
    /\ timerOn \in BOOLEAN
    /\ toPublish \in SUBSET Subscriber
    /\ subs \in SUBSET Subscriber
    /\ busClosed \in BOOLEAN
    /\ channel \in [Subscriber -> {"none", "open", "closed"}]
    /\ buffer \in [Subscriber -> 0..SubscriberCap]
    /\ pc \in [Subscriber -> {"out", "select", "reading", "leaving", "done"}]
    /\ debounce \in [Subscriber -> BOOLEAN]
    /\ toRead \in [Subscriber -> SUBSET Outbound]
    /\ signaller \in [Signaller -> {"idle", "sending"}]
    /\ busDone \in BOOLEAN /\ monitorDone \in BOOLEAN /\ boxDone \in BOOLEAN
    /\ unseen \in [Subscriber -> SUBSET Outbound]

Init ==
    /\ notify = 0
    /\ loop = "select"
    /\ timerOn = FALSE
    /\ toPublish = {}
    /\ subs = {}
    /\ busClosed = FALSE
    /\ channel = [s \in Subscriber |-> "none"]
    /\ buffer = [s \in Subscriber |-> 0]
    /\ pc = [s \in Subscriber |-> "out"]
    /\ debounce = [s \in Subscriber |-> FALSE]
    /\ toRead = [s \in Subscriber |-> {}]
    /\ signaller = [c \in Signaller |-> "idle"]
    /\ busDone = FALSE
    /\ monitorDone = FALSE
    /\ boxDone = FALSE
    /\ unseen = [s \in Subscriber |-> {}]

Registered(s) == pc[s] \in {"select", "reading"}

\* A channel after a send with a default branch.
Offer(count, capacity) == IF count < capacity THEN count + 1 ELSE count

\* Mutation: Unsubscribe and closeAll do not wait for Publish.
UnlockedAlways == TRUE

\* No Publish holds the read lock, so the write lock can be taken.
Unlocked == loop # "publish"

-----------------------------------------------------------------------------
(* The sources of signals. *)

\* applyResult stores the result of o and signals the group, both under the
\* mutex of o; a full notify channel drops the signal.
ApplyResult(o) ==
    /\ ~monitorDone
    /\ notify' = Offer(notify, NotifyCap)
    /\ unseen' = [s \in Subscriber |->
                     IF Registered(s) THEN unseen[s] \cup {o} ELSE unseen[s]]
    /\ UNCHANGED <<loopVars, busVars, buffer, subscriberVars, signaller,
                   contextVars>>

CallSignalChange(c) ==
    /\ signaller[c] = "idle"
    /\ signaller' = [signaller EXCEPT ![c] = "sending"]
    /\ UNCHANGED <<notify, loopVars, busVars, buffer, subscriberVars,
                   contextVars, unseen>>

\* The send of SignalChange has no default branch: it blocks while the
\* channel is full.
SendSignal(c) ==
    /\ signaller[c] = "sending"
    /\ notify < NotifyCap
    /\ notify' = notify + 1
    /\ signaller' = [signaller EXCEPT ![c] = "idle"]
    /\ UNCHANGED <<loopVars, busVars, buffer, subscriberVars, contextVars,
                   unseen>>

-----------------------------------------------------------------------------
(* groupNotifierLoop and Publish. *)

ReceiveSignal ==
    /\ loop = "select"
    /\ notify > 0
    /\ notify' = notify - 1
    /\ timerOn' = TRUE
    /\ UNCHANGED <<loop, toPublish, busVars, buffer, subscriberVars, signaller,
                   contextVars, unseen>>

\* The debounce window is over; the tags of the event are collected.
TimerFires ==
    /\ loop = "select"
    /\ timerOn
    /\ loop' = "emit"
    /\ UNCHANGED <<notify, timerOn, toPublish, busVars, buffer, subscriberVars,
                   signaller, contextVars, unseen>>

BeginPublish ==
    /\ loop = "emit"
    /\ loop' = "publish"
    /\ toPublish' = subs
    /\ UNCHANGED <<notify, timerOn, busVars, buffer, subscriberVars, signaller,
                   contextVars, unseen>>

\* The send to one subscriber: the default branch, taken while the context is
\* not cancelled, drops the event when the channel is full.
PublishTo(s) ==
    /\ loop = "publish"
    /\ s \in toPublish
    /\ buffer[s] < SubscriberCap \/ ~busDone
    /\ toPublish' = toPublish \ {s}
    /\ buffer' = [buffer EXCEPT ![s] = Offer(@, SubscriberCap)]
    /\ UNCHANGED <<notify, loop, timerOn, busVars, subscriberVars, signaller,
                   contextVars, unseen>>

\* The branch that returns when the Broadcaster's context is cancelled.
AbandonPublish ==
    /\ loop = "publish"
    /\ busDone
    /\ toPublish # {}
    /\ toPublish' = {}
    /\ UNCHANGED <<notify, loop, timerOn, busVars, buffer, subscriberVars,
                   signaller, contextVars, unseen>>

\* Mutation: the loop drains the notify channel after publishing.
EndPublishDrains ==
    /\ loop = "publish"
    /\ toPublish = {}
    /\ loop' = "select"
    /\ timerOn' = FALSE
    /\ notify' = 0
    /\ UNCHANGED <<toPublish, busVars, buffer, subscriberVars, signaller,
                   contextVars, unseen>>

EndPublish ==
    /\ loop = "publish"
    /\ toPublish = {}
    /\ loop' = "select"
    /\ timerOn' = FALSE
    /\ UNCHANGED <<notify, toPublish, busVars, buffer, subscriberVars,
                   signaller, contextVars, unseen>>

LoopReturns ==
    /\ loop = "select"
    /\ monitorDone
    /\ loop' = "done"
    /\ timerOn' = FALSE
    /\ UNCHANGED <<notify, toPublish, busVars, buffer, subscriberVars,
                   signaller, contextVars, unseen>>

-----------------------------------------------------------------------------
(* The subscribers. *)

\* SubscribeGroup: a new channel, closed at once if the Broadcaster is done.
Subscribe(s) ==
    /\ pc[s] = "out"
    /\ Unlocked
    /\ ~boxDone
    /\ pc' = [pc EXCEPT ![s] = "select"]
    /\ channel' = [channel EXCEPT ![s] = IF busDone THEN "closed" ELSE "open"]
    /\ subs' = IF busDone THEN subs ELSE subs \cup {s}
    /\ buffer' = [buffer EXCEPT ![s] = 0]
    /\ UNCHANGED <<notify, loopVars, busClosed, debounce, toRead, signaller,
                   contextVars, unseen>>

\* An event arrives: the balancer reads the histories, a stream starts its
\* own timer unless it runs already.
ReceiveEvent(s) ==
    /\ pc[s] = "select"
    /\ buffer[s] > 0
    /\ buffer' = [buffer EXCEPT ![s] = @ - 1]
    /\ \/ /\ s \in Balancer
          /\ pc' = [pc EXCEPT ![s] = "reading"]
          /\ toRead' = [toRead EXCEPT ![s] = Outbound]
          /\ UNCHANGED debounce
       \/ /\ s \in Stream
          /\ debounce' = [debounce EXCEPT ![s] = TRUE]
          /\ UNCHANGED <<pc, toRead>>
    /\ UNCHANGED <<notify, loopVars, busVars, signaller, contextVars, unseen>>

StreamTimerFires(s) ==
    /\ pc[s] = "select"
    /\ debounce[s]
    /\ pc' = [pc EXCEPT ![s] = "reading"]
    /\ toRead' = [toRead EXCEPT ![s] = Outbound]
    /\ UNCHANGED <<notify, loopVars, busVars, buffer, debounce, signaller,
                   contextVars, unseen>>

\* OutboundsHistory copies the history of o under the mutex of o.
ReadHistory(s, o) ==
    /\ pc[s] = "reading"
    /\ o \in toRead[s]
    /\ toRead' = [toRead EXCEPT ![s] = @ \ {o}]
    /\ unseen' = [unseen EXCEPT ![s] = @ \ {o}]
    /\ UNCHANGED <<notify, loopVars, busVars, buffer, pc, debounce, signaller,
                   contextVars>>

\* UpdateOutboundsInfo, or the send to the app and the reset of the timer.
Use(s) ==
    /\ pc[s] = "reading"
    /\ toRead[s] = {}
    /\ pc' = [pc EXCEPT ![s] = "select"]
    /\ debounce' = [debounce EXCEPT ![s] = FALSE]
    /\ UNCHANGED <<notify, loopVars, busVars, buffer, toRead, signaller,
                   contextVars, unseen>>

\* A subscriber stops: its channel is closed and drained, the box is done, or
\* the app ends the stream.  Balancer.close is never made, so the balancer
\* has no third reason.
StopsFor(s) ==
    \/ channel[s] = "closed" /\ buffer[s] = 0
    \/ boxDone

Leave(s) ==
    /\ pc[s] = "select"
    /\ StopsFor(s) \/ s \in Stream
    /\ pc' = [pc EXCEPT ![s] = "leaving"]
    /\ debounce' = [debounce EXCEPT ![s] = FALSE]
    /\ UNCHANGED <<notify, loopVars, busVars, buffer, toRead, signaller,
                   contextVars, unseen>>

\* The deferred UnsubscribeGroup.  A new stream of the app may follow.
Unsubscribe(s) ==
    /\ pc[s] = "leaving"
    /\ Unlocked
    /\ pc' = [pc EXCEPT ![s] = IF s \in Stream THEN "out" ELSE "done"]
    /\ subs' = subs \ {s}
    /\ channel' = [channel EXCEPT ![s] = "closed"]
    /\ unseen' = [unseen EXCEPT ![s] = {}]
    /\ UNCHANGED <<notify, loopVars, busClosed, buffer, debounce, toRead,
                   signaller, contextVars>>

-----------------------------------------------------------------------------
(* The end. *)

\* Close first closes the Broadcaster's context, then the monitor's.
CloseBroadcaster ==
    /\ ~busDone
    /\ busDone' = TRUE
    /\ UNCHANGED <<notify, loopVars, busVars, buffer, subscriberVars,
                   signaller, monitorDone, boxDone, unseen>>

CancelMonitor ==
    /\ busDone
    /\ ~monitorDone
    /\ monitorDone' = TRUE
    /\ UNCHANGED <<notify, loopVars, busVars, buffer, subscriberVars,
                   signaller, busDone, boxDone, unseen>>

\* The context of the box is cancelled, and with it those derived from it.
CancelBox ==
    /\ ~boxDone
    /\ boxDone' = TRUE
    /\ monitorDone' = TRUE
    /\ busDone' = TRUE
    /\ UNCHANGED <<notify, loopVars, busVars, buffer, subscriberVars,
                   signaller, unseen>>

\* Mutation: closeAll forgets the channels without closing them.
CloseAllForgets ==
    /\ busDone
    /\ ~busClosed
    /\ Unlocked
    /\ subs' = {}
    /\ busClosed' = TRUE
    /\ UNCHANGED <<notify, loopVars, channel, buffer, subscriberVars,
                   signaller, contextVars, unseen>>

\* watchContext calls closeAll.
CloseAll ==
    /\ busDone
    /\ ~busClosed
    /\ Unlocked
    /\ channel' = [s \in Subscriber |-> IF s \in subs THEN "closed" ELSE channel[s]]
    /\ subs' = {}
    /\ busClosed' = TRUE
    /\ UNCHANGED <<notify, loopVars, buffer, subscriberVars, signaller,
                   contextVars, unseen>>

-----------------------------------------------------------------------------

SourceStep ==
    \/ \E o \in Outbound : ApplyResult(o)
    \/ \E c \in Signaller : CallSignalChange(c) \/ SendSignal(c)

LoopStep ==
    \/ ReceiveSignal \/ TimerFires \/ BeginPublish
    \/ \E s \in Subscriber : PublishTo(s)
    \/ AbandonPublish \/ EndPublish \/ LoopReturns

SubscriberStep(s) ==
    \/ Subscribe(s) \/ ReceiveEvent(s) \/ StreamTimerFires(s)
    \/ \E o \in Outbound : ReadHistory(s, o)
    \/ Use(s) \/ Leave(s) \/ Unsubscribe(s)

EndStep == CloseBroadcaster \/ CancelMonitor \/ CancelBox \/ CloseAll

Next == SourceStep \/ LoopStep \/ (\E s \in Subscriber : SubscriberStep(s)) \/ EndStep

Spec == Init /\ [][Next]_vars

\* Goroutines run.  A select takes a ready branch at random, so a branch that
\* is ready again and again is taken (strong fairness); a blocked sender is
\* served before a later offer.  Results, calls, new streams, the end of a
\* stream by the app and the first step of Close carry no fairness.
Fairness ==
    /\ WF_vars(ReceiveSignal) /\ WF_vars(TimerFires) /\ WF_vars(BeginPublish)
    /\ WF_vars(EndPublish)
    /\ WF_vars(AbandonPublish \/ \E s \in Subscriber : PublishTo(s))
    /\ SF_vars(LoopReturns)
    /\ \A c \in Signaller : SF_vars(SendSignal(c))
    /\ \A s \in Subscriber :
         /\ SF_vars(ReceiveEvent(s)) /\ WF_vars(StreamTimerFires(s))
         /\ WF_vars(\E o \in Outbound : ReadHistory(s, o)) /\ WF_vars(Use(s))
         /\ SF_vars(StopsFor(s) /\ Leave(s))
         /\ SF_vars(Unsubscribe(s))
    /\ WF_vars(CancelMonitor) /\ SF_vars(CloseAll)

FairSpec == Spec /\ Fairness

-----------------------------------------------------------------------------
(* Properties. *)

\* A later reading of o by s is under way: a signal is waiting, the timer runs,
\* Publish has yet to reach s, an event waits for s, a stream's timer runs, or s
\* is reading and has not come to o.
Pending(s, o) ==
    \/ notify > 0
    \/ loop # "publish" /\ timerOn
    \/ s \in toPublish
    \/ buffer[s] > 0
    \/ pc[s] = "select" /\ debounce[s]
    \/ pc[s] = "reading" /\ o \in toRead[s]

\* A result is never lost on its way: however many signals and events the
\* bounded channels and the two timers drop, a subscriber that has not read the
\* last result of an outbound has a reading of it under way, until the
\* Broadcaster is closed.
UnseenMeansPending ==
    ~busDone => \A s \in Subscriber : Registered(s) =>
        \A o \in unseen[s] : Pending(s, o)

\* Publish never sends to a closed channel and no channel is closed twice: the
\* open channels are those Broadcaster.subs knows, and none is left after
\* closeAll.
ChannelsOpen ==
    /\ toPublish \subseteq subs
    /\ subs = {s \in Subscriber : channel[s] = "open"}
    /\ busClosed => subs = {}

\* Every subscriber that stays reads every result in the end.
EventuallySeen ==
    \A s \in Subscriber : \A o \in Outbound :
        o \in unseen[s] ~> (o \notin unseen[s] \/ busDone \/ ~Registered(s))

\* SignalChange returns, unless the monitor is closed under it: its send has no
\* default branch and no cancellation.
SignalReturns ==
    \A c \in Signaller : signaller[c] = "sending" ~> (signaller[c] = "idle" \/ monitorDone)

\* After Close the notifier returns, which Close waits for, and every subscriber
\* that was there leaves.
SubscribersEnd ==
    /\ monitorDone ~> loop = "done"
    /\ \A s \in Subscriber : (busDone /\ Registered(s)) ~> ~Registered(s)
=============================================================================
