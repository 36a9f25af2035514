--------------------------- MODULE MCNotifierTimer ---------------------------
(***************************************************************************)
(* The idle timer of the monitor and the notifier of a group, side by      *)
(* side: "part" says which of them moves in a behaviour.  The other stays  *)
(* as it was at first, where none of its fair actions is enabled.          *)
(***************************************************************************)
EXTENDS MonitorTimer

CONSTANTS Outbound, Balancer, Stream, Signaller, NotifyCap, SubscriberCap

VARIABLES
    part,
    notify, loop, timerOn, toPublish, subs, busClosed, channel, buffer, place,
    debounce, toRead, signaller, busDone, monitorDone, boxDone, unseen

Notifier == INSTANCE GroupNotifier WITH pc <- place

ASSUME NotifierConstants == Notifier!NotifierAssumption

notifierVars == <<notify, loop, timerOn, toPublish, subs, busClosed, channel, buffer,
                  place, debounce, toRead, signaller, busDone, monitorDone, boxDone, unseen>>

SideInit == part \in {"timer", "notifier"} /\ Init /\ Notifier!Init

SideNext ==
    /\ UNCHANGED part
    /\ \/ part = "timer" /\ Next /\ UNCHANGED notifierVars
       \/ part = "notifier" /\ Notifier!Next /\ UNCHANGED vars

SideSpec ==
    /\ SideInit /\ [][SideNext]_<<part, vars, notifierVars>>
    /\ Fairness /\ Notifier!Fairness

-----------------------------------------------------------------------------
\* A result that a subscriber has not read is on its way to it, through a signal,
\* a timer, Publish or its channel, until Close (groupNotifierLoop, Publish).
UnseenMeansPending == Notifier!UnseenMeansPending

\* Publish sends to open channels only (Publish, Unsubscribe, closeAll).
ChannelsOpen == Notifier!ChannelsOpen

\* Every subscriber of a group that stays reads every result in the end, though
\* every hop on the way may drop a signal; and nobody waits for ever on the
\* notifier, neither those that signal, whose send has no default branch, nor
\* those that close.
NothingStuck == Notifier!EventuallySeen /\ Notifier!SignalReturns /\ Notifier!SubscribersEnd

\* A touch gets a loop going, a monitor that nobody touches for the idle timeout
\* stops its ticker, and one that is closed leaves no loop behind, even one a
\* late touch has started.
TimerFollowsTouches == TouchStarts /\ IdleStops /\ TimerCloses
==============================================================================
