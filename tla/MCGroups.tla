------------------------------ MODULE MCGroups ------------------------------
(***************************************************************************)
(* A selector, the checks of a URLTest group and its loop, side by side:   *)
(* "part" says which of them moves in a behaviour, and the others stay as  *)
(* they were at first.  The selector moves in two ways: with one pick at a *)
(* time and deaths of the process, or with picks that cross and a cache    *)
(* file that may refuse them.                                              *)
(***************************************************************************)
EXTENDS Naturals

CONSTANTS
    Leaves, Default, Foreign, Pingable, Pickers, SelectorConns,
    MaxPicks, MaxKills, MaxCrossed,
    N, Tcp, Udp, Delays, Modulus, Tolerance, MaxChecks,
    Checkers, Boot, Conns, UdpConns,
    Interval, IdleTimeout, MaxLoops, MaxTouches

VARIABLES
    part,
    current, cache, tested, booted, picking, want, pinged, link, through, picks, kills,
    history, selected, checking, pc, todo, scan, updated, conn, via, checks,
    started, closed, closing, ticker, running, registered, tick, loop, active,
    touched, touches

Picked == INSTANCE SelectorGroup WITH
    Outbounds <- Leaves,
    External <- {}, InterruptExternal <- FALSE, StoreMayFail <- FALSE,
    Conns <- SelectorConns,
    selected <- current, pc <- picking, conn <- link, via <- through
Crossed == INSTANCE SelectorGroup WITH
    Outbounds <- Leaves,
    External <- {}, InterruptExternal <- FALSE, StoreMayFail <- TRUE,
    MaxPicks <- MaxCrossed, MaxKills <- 0, Conns <- SelectorConns,
    selected <- current, pc <- picking, conn <- link, via <- through
Checked == INSTANCE URLTestGroup
Looped == INSTANCE URLTestLoop WITH LateTouches <- FALSE

ASSUME SelectorsAssumption ==
    Picked!SelectorAssumption /\ Crossed!SelectorAssumption /\ Pickers # {}
ASSUME URLTestsAssumption == Checked!URLTestAssumption /\ Looped!LoopAssumption

selectorVars == <<current, cache, tested, booted, picking, want, pinged, link, through, picks, kills>>
checkVars == <<history, selected, checking, pc, todo, scan, updated, conn, via, checks>>
loopVars == <<started, closed, closing, ticker, running, registered, tick, loop,
              active, touched, touches>>
vars == <<part, selectorVars, checkVars, loopVars>>

Init ==
    /\ part \in {"picked", "crossed", "checked", "looped"}
    /\ Picked!Init /\ (part \in {"checked", "looped"} => cache = Foreign)
    /\ Checked!Init
    /\ Looped!Init

\* Whoever picks when the picks come one after the other.
Picker == CHOOSE p \in Pickers : TRUE

SelectorMoves ==
    \/ /\ part = "picked"
       /\ \/ Picked!PostStart \/ Picked!Kill
          \/ \E tag \in Picked!Tags : Picked!Pick(Picker, tag)
          \/ Picked!PickerStep(Picker)
    \/ part = "crossed" /\ Crossed!Next

Next ==
    /\ UNCHANGED part
    /\ \/ SelectorMoves /\ UNCHANGED <<checkVars, loopVars>>
       \/ part = "checked" /\ Checked!Next /\ UNCHANGED <<selectorVars, loopVars>>
       \/ part = "looped" /\ Looped!Next /\ UNCHANGED <<selectorVars, checkVars>>

\* The fairness of the part that moves.
Fairness ==
    /\ \A p \in Pickers : WF_selectorVars(part = "crossed" /\ Crossed!PickerStep(p))
    /\ \A k \in Checkers : WF_checkVars(part = "checked" /\ Checked!CheckerStep(k))
    /\ WF_loopVars(part = "looped" /\ Looped!Pass)
    /\ \A i \in Looped!Loops : /\ WF_loopVars(part = "looped" /\ Looped!LoopStep(i))
                               /\ WF_loopVars(part = "looped" /\ Looped!Fire(i))

FairSpec == Init /\ [][Next]_vars /\ Fairness

-----------------------------------------------------------------------------
\* With one pick at a time, a restart at any moment after a pick comes back to
\* the selection in force (StoreSelected in SelectOutbound, LoadSelected in
\* Start), and nothing else has been tested since it came into force; and when
\* picks cross, it has been tested since all the same (the deferred pingSelected).
PickTakesHold ==
    /\ part = "picked" => Picked!RestartKeepsSelection /\ Picked!OnlySelectedTested
    /\ Picked!SelectedIsTested

\* A check that selects while no outbound has failed selects within the tolerance
\* of the best, and replaces an outbound only for one better by more than it, and
\* no other check runs beside it (Select, checking.Swap).
SelectedNearBest == Checked!SelectedNearBest /\ Checked!OneChecker

\* Until the URLTest group is closed, a ticker, its loop and its pause callback
\* come and go together: no loop reads a nil ticker or another loop's.
LoopOwnsTicker == Looped!LoopOwnsTicker

\* Every network that some outbound supports gets a selection and keeps one,
\* though every test and every dial may fail (PostStart's check).
EventuallySelected ==
    <>[](part = "checked" =>
           \A net \in Checked!Nets : Checked!Supported(net) # {} => selected[net] # 0)

\* A connection that was registered while its outbound was selected is closed
\* after the selection has moved away: by a pick, whatever picks cross and whether
\* or not the cache file takes the selection (Interrupt in SelectOutbound), and by a
\* check, of whichever network it moves the selection and whatever dials fail beside
\* it (updated, Interrupt in performUpdateCheck).
SwitchCuts == Crossed!SwitchCuts /\ Checked!SwitchCuts

\* The loop of the URLTest group decides to stop only when nothing has touched the
\* group for the idle timeout less one interval (Touch, lastActive, loopCheck).
StopsOnlyIdle == Looped!StopsOnlyIdle

\* When nothing touches the URLTest group any more its loop, its ticker and its
\* callback are gone, whether Close found a ticker or not; and every check ends
\* and gives its flag back.
EndsAtRest == Looped!EndsAtRest /\ Checked!CheckEnds
=============================================================================
