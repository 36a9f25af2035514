---------------------------- MODULE SelectorGroup ----------------------------
(***************************************************************************)
(* A selector outbound group: threads pick an outbound with                *)
(* SelectOutbound, connections are made through the selection and          *)
(* registered with the interrupt group, the selection is kept in the cache *)
(* file, and the process may die at any moment.  Neither the selection,    *)
(* nor the cache file, nor the registration is under a common lock.        *)
(***************************************************************************)
EXTENDS Naturals

CONSTANTS
    Outbounds,          \* the members of the group
    Default,            \* the default member, or the first one
    Foreign,            \* a tag that is not a member
    Pingable,           \* members whose RealTag is a plain outbound
    Pickers,            \* threads that call SelectOutbound
    Conns,              \* connections, each made once
    External,           \* connections of an inbound
    InterruptExternal,  \* interrupt_exist_connections
    StoreMayFail,       \* whether the cache file may refuse a write
    MaxPicks, MaxKills  \* bounds: calls and deaths in a behaviour

\* What the constants stand for.
SelectorAssumption ==
    /\ Default \in Outbounds /\ Foreign \notin Outbounds
    /\ Pingable \subseteq Outbounds /\ External \subseteq Conns
    /\ InterruptExternal \in BOOLEAN /\ StoreMayFail \in BOOLEAN
    /\ MaxPicks \in Nat /\ MaxKills \in Nat

VARIABLES
    selected,   \* Selector.selected
    cache,      \* the tag in the cache file; Foreign: none, or no longer a member
    tested,     \* members a test was asked for since the selection last moved
    booted,     \* whether PostStart has run
    pc, want,   \* per picker: place, and the tag it was called with
    pinged,     \* per picker: the selection pingSelected has loaded
    conn, via,  \* per connection: place, and the outbound it goes through
    picks, kills

vars == <<selected, cache, tested, booted, pc, want, pinged, conn, via, picks, kills>>

Tags == Outbounds \cup {Foreign}

TypeOK ==
    /\ selected \in Outbounds /\ cache \in Tags /\ tested \subseteq Pingable
    /\ booted \in BOOLEAN
    /\ pc \in [Pickers -> {"idle", "store", "interrupt", "ping", "test"}]
    /\ want \in [Pickers -> Tags] /\ pinged \in [Pickers -> Tags]
    /\ conn \in [Conns -> {"new", "dialing", "open", "closed"}]
    /\ via \in [Conns -> Tags]
    /\ picks \in 0..MaxPicks /\ kills \in 0..MaxKills

\* Start: the stored member when the group has it, else the default.
StartFrom(tag) == IF tag \in Outbounds THEN tag ELSE Default

Init ==
    /\ cache \in Tags /\ selected = StartFrom(cache)
    /\ tested = {} /\ booted = FALSE
    /\ pc = [p \in Pickers |-> "idle"]
    /\ want = [p \in Pickers |-> Foreign] /\ pinged = [p \in Pickers |-> Foreign]
    /\ conn = [c \in Conns |-> "new"]
    /\ via = [c \in Conns |-> Foreign]
    /\ picks = 0 /\ kills = 0

Goto(p, place) == pc' = [pc EXCEPT ![p] = place]
Becomes(c, place) == conn' = [conn EXCEPT ![c] = place]

----------------------------------------------------------------------------
(* SelectOutbound                                                           *)

\* TestNow: a selected group without a current member (Now is "") is not tested.
Tested(tag) == tested \cup ({tag} \cap Pingable)

\* Nobody picks before PostStart has run, so its pingSelected is one step.
PostStart ==
    /\ ~booted
    /\ booted' = TRUE
    /\ tested' = Tested(selected)
    /\ UNCHANGED <<selected, cache, pc, want, pinged, conn, via, picks, kills>>

Pick(p, tag) ==
    /\ booted /\ pc[p] = "idle" /\ picks < MaxPicks
    /\ picks' = picks + 1
    /\ want' = [want EXCEPT ![p] = tag]
    /\ IF tag \notin Outbounds \/ tag = selected
       THEN Goto(p, "ping") /\ UNCHANGED <<selected, tested>>
       ELSE Goto(p, "store") /\ selected' = tag /\ tested' = {}
    /\ UNCHANGED <<cache, booted, pinged, conn, via, kills>>

Stored(p) == want[p]

StoreSelected(p) ==
    /\ pc[p] = "store"
    /\ Goto(p, "interrupt")
    /\ \/ cache' = Stored(p)
       \/ StoreMayFail /\ UNCHANGED cache
    /\ UNCHANGED <<selected, tested, booted, want, pinged, conn, via, picks, kills>>

Cut(c) == conn[c] = "open" /\ (c \notin External \/ InterruptExternal)

\* Mutation: only the early returns ask for a test.
AfterInterruptReturns == "idle"

AfterInterrupt == "ping"

Interrupt(p) ==
    /\ pc[p] = "interrupt"
    /\ Goto(p, AfterInterrupt)
    /\ conn' = [c \in Conns |-> IF Cut(c) THEN "closed" ELSE conn[c]]
    /\ UNCHANGED <<selected, cache, tested, booted, want, pinged, via, picks, kills>>

\* pingSelected, deferred: it loads the selection, whatever it has become, and
\* asks for the test afterwards.
PingSelected(p) ==
    /\ pc[p] = "ping"
    /\ Goto(p, "test")
    /\ pinged' = [pinged EXCEPT ![p] = selected]
    /\ UNCHANGED <<selected, cache, tested, booted, want, conn, via, picks, kills>>

TestNow(p) ==
    /\ pc[p] = "test"
    /\ Goto(p, "idle")
    /\ tested' = Tested(pinged[p])
    /\ want' = [want EXCEPT ![p] = Foreign]
    /\ pinged' = [pinged EXCEPT ![p] = Foreign]
    /\ UNCHANGED <<selected, cache, booted, conn, via, picks, kills>>

----------------------------------------------------------------------------
(* Connections                                                              *)

LoadSelected(c) ==
    /\ conn[c] = "new"
    /\ Becomes(c, "dialing")
    /\ via' = [via EXCEPT ![c] = selected]
    /\ UNCHANGED <<selected, cache, tested, booted, pc, want, pinged, picks, kills>>

Settle(c, from, to) ==
    /\ conn[c] = from
    /\ Becomes(c, to)
    /\ UNCHANGED <<selected, cache, tested, booted, pc, want, pinged, via, picks, kills>>

DialFails(c) == Settle(c, "dialing", "closed")
NewConn(c) == Settle(c, "dialing", "open")
CloseConn(c) == Settle(c, "open", "closed")

----------------------------------------------------------------------------
\* The process dies and comes back; the cache file is all that is left.
Kill ==
    /\ kills < MaxKills
    /\ kills' = kills + 1
    /\ selected' = StartFrom(cache)
    /\ tested' = {} /\ booted' = FALSE
    /\ pc' = [p \in Pickers |-> "idle"]
    /\ want' = [p \in Pickers |-> Foreign] /\ pinged' = [p \in Pickers |-> Foreign]
    /\ conn' = [c \in Conns |-> IF conn[c] = "new" THEN "new" ELSE "closed"]
    /\ UNCHANGED <<cache, via, picks>>

PickerStep(p) == StoreSelected(p) \/ Interrupt(p) \/ PingSelected(p) \/ TestNow(p)

Next ==
    \/ PostStart \/ Kill
    \/ \E p \in Pickers : (\E tag \in Tags : Pick(p, tag)) \/ PickerStep(p)
    \/ \E c \in Conns : LoadSelected(c) \/ DialFails(c) \/ NewConn(c) \/ CloseConn(c)

Spec == Init /\ [][Next]_vars

\* A call runs to its end; nothing makes a peer dial, or close.
FairSpec == Spec /\ \A p \in Pickers : WF_vars(PickerStep(p))

----------------------------------------------------------------------------
Quiet == booted /\ \A p \in Pickers : pc[p] = "idle"

\* When no pick is running, a restart comes back to the selection in force
\* (StoreSelected in SelectOutbound, LoadSelected in Start).  With two picks
\* at once the stores may come in the other order than the swaps.
RestartKeepsSelection == Quiet => StartFrom(cache) = selected

\* When no pick is running, a test of the selection in force has been asked for
\* since it came into force, whatever picks crossed (the deferred pingSelected).
\* It need not be the last one asked for: a pick that loaded the selection before
\* the swap of another may ask for its test after that one has.
SelectedIsTested == Quiet /\ selected \in Pingable => selected \in tested

\* When picks come one at a time nothing but the selection in force is tested.
OnlySelectedTested == Quiet => tested \subseteq {selected}

\* A connection that was registered while its outbound was selected is
\* closed after the selection has moved away (Interrupt in SelectOutbound).
SwitchCuts ==
    \A c \in Conns, o \in Outbounds :
        [](conn[c] = "open" /\ (c \notin External \/ InterruptExternal) /\ via[c] = o /\ selected = o
            => [](selected # o => <>(conn[c] = "closed")))

\* "Interrupt existing connections when the selected outbound has changed.":
\* once the pick is over no connection through another outbound is open.  A
\* connection that was being dialed, or handed over, is registered too late.
NoConnectionOverOldSelection ==
    \A c \in Conns : Quiet /\ conn[c] = "open" /\ InterruptExternal => via[c] = selected
==============================================================================
