---------------------------- MODULE BalancerGroup ----------------------------
(***************************************************************************)
(* A balancer group whose strategy is lowest-delay or round-robin: results *)
(* change the histories and signal the worker, which reads them, updates   *)
(* the strategy under its lock and interrupts the connections when the     *)
(* strategy says that it changed; connections select, dial and register.   *)
(***************************************************************************)
EXTENDS BalancerDelays

CONSTANTS
    Strategy,       \* "lowest-delay" or "round-robin"
    Conns, UdpConns,\* connections, and those over UDP
    MaxResults,     \* bound: results of tests
    MaxServed       \* bound: selections counted between two updates

\* What the constants stand for.
GroupAssumption ==
    /\ Strategy \in {"lowest-delay", "round-robin"}
    /\ UdpConns \subseteq Conns /\ MaxResults \in Nat /\ MaxServed \in Nat

VARIABLES
    history,        \* the monitor's history of each outbound
    event,          \* the observer's channel holds an event
    worker, seen,   \* place of the worker, and the histories it read last
    used,           \* the histories of the strategy's last update
    chosen,         \* lowest-delay: selectedOutbound
    last, idx,      \* round-robin: maxAcceptableIndex and idx
    served,         \* round-robin: selections of each since the last update
    conn, via,      \* per connection: place, and its outbound
    results

vars == <<history, event, worker, seen, used, chosen, last, idx, served, conn, via, results>>

NetOf(c) == IF c \in UdpConns THEN "udp" ELSE "tcp"
Size(net) == Cardinality(Members(net))

TypeOK ==
    /\ {history, seen, used} \subseteq [Outbounds -> Histories]
    /\ event \in BOOLEAN /\ worker \in {"wait", "update", "cut"}
    /\ \A net \in Nets :
           /\ chosen[net] \in Members(net)
           /\ last[net] \in 0..(Size(net) - 1) /\ idx[net] \in 0..(Size(net) - 1)
           /\ served[net] \in [Members(net) -> 0..MaxServed]
    /\ conn \in [Conns -> {"new", "dialing", "open", "closed"}]
    /\ \A c \in Conns : via[c] \in Members(NetOf(c)) \cup {0}
    /\ results \in 0..MaxResults

NoService == [net \in Nets |-> [o \in Members(net) |-> 0]]
Unmeasured == [delay |-> 0, cached |-> FALSE]

\* Round-robin starts in the order of the group, which is that of equal delays.
Init ==
    /\ history \in [Outbounds -> {h \in Histories : h.cached /\ h.delay # 0} \cup {Unmeasured}]
    /\ seen = [o \in Outbounds |-> Unmeasured] /\ used = seen
    /\ event = FALSE /\ worker = "wait"
    /\ chosen = [net \in Nets |-> At(seen, net, 0)]
    /\ last = [net \in Nets |-> Size(net) - 1]
    /\ idx = [net \in Nets |-> 0]
    /\ served = NoService
    /\ conn = [c \in Conns |-> "new"] /\ via = [c \in Conns |-> 0]
    /\ results = 0

----------------------------------------------------------------------------
\* A result (applyResult); that its event arrives is shown of GroupNotifier.
Result(o) ==
    /\ results < MaxResults
    /\ results' = results + 1
    /\ \E d \in Delays \cup {0, Timeout} :
           history' = [history EXCEPT ![o] = [delay |-> d, cached |-> FALSE]]
    /\ event' = TRUE
    /\ UNCHANGED <<worker, seen, used, chosen, last, idx, served, conn, via>>

\* worker: one event, then OutboundsHistory.
Receive ==
    /\ worker = "wait" /\ event
    /\ event' = FALSE
    /\ seen' = history
    /\ worker' = "update"
    /\ UNCHANGED <<history, used, chosen, last, idx, served, conn, via, results>>

LowestNow == [net \in Nets |-> Lowest(seen, net)]
LastNow == [net \in Nets |-> LastAcceptable(seen, net)]

Changed == IF Strategy = "lowest-delay" THEN chosen # LowestNow ELSE last # LastNow

\* UpdateOutboundsInfo of the strategy.
Update ==
    /\ worker = "update"
    /\ IF Strategy = "lowest-delay"
       THEN chosen' = LowestNow /\ UNCHANGED last
       ELSE last' = LastNow /\ UNCHANGED chosen
    /\ used' = seen
    /\ served' = NoService
    /\ worker' = IF Changed THEN "cut" ELSE "wait"
    /\ UNCHANGED <<history, event, seen, idx, conn, via, results>>

Interrupt ==
    /\ worker = "cut"
    /\ conn' = [c \in Conns |-> IF conn[c] = "open" THEN "closed" ELSE conn[c]]
    /\ worker' = "wait"
    /\ UNCHANGED <<history, event, seen, used, chosen, last, idx, served, via, results>>

----------------------------------------------------------------------------
(* Select of the strategy                                                   *)

Length(net) == last[net] + 1
NextIdx(net) == (idx[net] + 1) % Length(net)

Picked(net) == IF Strategy = "lowest-delay" THEN chosen[net] ELSE At(used, net, NextIdx(net))

Select(net) ==
    \/ Strategy = "lowest-delay" /\ UNCHANGED <<idx, served>>
    \/ /\ Strategy = "round-robin"
       /\ idx' = [idx EXCEPT ![net] = NextIdx(net)]
       /\ served[net][Picked(net)] < MaxServed
       /\ served' = [served EXCEPT ![net][Picked(net)] = @ + 1]

Dial(c) ==
    /\ conn[c] = "new" /\ Select(NetOf(c))
    /\ conn' = [conn EXCEPT ![c] = "dialing"]
    /\ via' = [via EXCEPT ![c] = Picked(NetOf(c))]
    /\ UNCHANGED <<history, event, worker, seen, used, chosen, last, results>>

\* A direct route selects, and registers nothing.
DirectRoute(net) ==
    /\ Select(net)
    /\ UNCHANGED <<history, event, worker, seen, used, chosen, last, conn, via, results>>

Settle(c, from, to) ==
    /\ conn[c] = from
    /\ conn' = [conn EXCEPT ![c] = to]
    /\ UNCHANGED <<history, event, worker, seen, used, chosen, last, idx, served, via, results>>

NewConn(c) == Settle(c, "dialing", "open")

\* The failure asks for a test (InvalidateTest), whose result comes later.
DialFails(c) == Settle(c, "dialing", "closed")
CloseConn(c) == Settle(c, "open", "closed")

----------------------------------------------------------------------------
WorkerStep == Receive \/ Update \/ Interrupt

Next ==
    \/ WorkerStep
    \/ \E o \in Outbounds : Result(o)
    \/ \E net \in Nets : DirectRoute(net)
    \/ \E c \in Conns : Dial(c) \/ NewConn(c) \/ DialFails(c) \/ CloseConn(c)

Spec == Init /\ [][Next]_vars
FairSpec == Spec /\ WF_vars(WorkerStep)

----------------------------------------------------------------------------
Measured(his, net) == {o \in Members(net) : DelayOf(his[o]) < Timeout}

\* When the worker has nothing to do, lowest-delay selects for each network
\* a member with the least delay there is: no result is overlooked between
\* an event and an update (worker, UpdateOutboundsInfo).
ChosenIsLowest ==
    worker = "wait" /\ ~event /\ used # [o \in Outbounds |-> Unmeasured]
        => \A net \in Nets : \A o \in Members(net) :
               DelayOf(history[chosen[net]]) <= DelayOf(history[o])

\* Between two updates round-robin serves every acceptable member alike, up
\* to one connection, and no other (Select over maxAcceptableIndex).
FairShare ==
    DelaysFit => \A net \in Nets :
        LET best == MinDelay(used, net)
            fine == {o \in Measured(used, net) :
                        DelayOf(used[o]) <= (IF best < Floor THEN Floor ELSE best) * Ratio}
        IN  fine # {} =>
                /\ \A o, p \in fine : served[net][o] <= served[net][p] + 1
                /\ \A o \in Members(net) \ fine : served[net][o] = 0

\* A connection registered over the outbound lowest-delay selects is closed
\* after the selection has moved on (Interrupt in worker).
SwitchCuts ==
    \A c \in Conns, o \in Outbounds :
        [](conn[c] = "open" /\ via[c] = o /\ chosen[NetOf(c)] = o
            => [](chosen[NetOf(c)] # o => <>(conn[c] = "closed")))
==============================================================================
