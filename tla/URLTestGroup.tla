---------------------------- MODULE URLTestGroup -----------------------------
(***************************************************************************)
(* A URLTest group: checks test the outbounds, store what they find and    *)
(* move the selection of each network; connections are made through the    *)
(* selection and report failures to the same history.  The flag "checking" *)
(* keeps checks apart; the selection and the history are read without any  *)
(* common lock.  Delays are uint16: their sums are taken modulo Modulus.   *)
(***************************************************************************)
EXTENDS Naturals, FiniteSetsExt

CONSTANTS
    N,                  \* number of outbounds, in the order of the group
    Tcp, Udp,           \* outbounds that support each network
    Delays,             \* what a test that succeeds may measure
    Modulus, Tolerance,
    Checkers, Boot,     \* threads that check; the one PostStart starts
    Conns, UdpConns,    \* connections, and those over UDP
    MaxChecks           \* bound: calls of urlTest after the first

Outbounds == 1..N
Nets == {"tcp", "udp"}
Failed == Modulus - 1   \* what DeleteURLTestHistory stores

\* What the constants stand for.
URLTestAssumption ==
    /\ N \in Nat /\ Tcp \subseteq Outbounds /\ Udp \subseteq Outbounds
    /\ Modulus \in Nat \ {0} /\ Tolerance \in Nat /\ MaxChecks \in Nat
    /\ Delays \subseteq 1..(Failed - 1)
    /\ \A d \in Delays : d + Tolerance < Modulus
    /\ Boot \in Checkers /\ UdpConns \subseteq Conns

VARIABLES
    history,    \* the last delay of each outbound, 0 for none
    selected,   \* the selected outbound of each network, 0 for nil
    checking,   \* URLTestGroup.checking
    pc, todo,   \* per checker: place, and tests not yet done
    scan,       \* per checker: the loop of Select
    updated,    \* per checker: whether a selection was replaced
    conn, via,  \* per connection: place, and its outbound
    checks

vars == <<history, selected, checking, pc, todo, scan, updated, conn, via, checks>>

Supported(net) == IF net = "tcp" THEN Tcp ELSE Udp
NetOf(c) == IF c \in UdpConns THEN "udp" ELSE "tcp"

Scans == [net : Nets, at : 1..(N + 1), best : 0..N, delay : 0..Failed]

TypeOK ==
    /\ history \in [Outbounds -> 0..Failed]
    /\ \A net \in Nets : selected[net] \in Supported(net) \cup {0}
    /\ checking \in BOOLEAN
    /\ pc \in [Checkers -> {"idle", "called", "testing", "scanning", "interrupt"}]
    /\ todo \in [Checkers -> SUBSET Outbounds]
    /\ scan \in [Checkers -> Scans]
    /\ updated \in [Checkers -> BOOLEAN]
    /\ conn \in [Conns -> {"new", "dialing", "open", "closed"}]
    /\ \A c \in Conns : via[c] \in Supported(NetOf(c)) \cup {0}
    /\ checks \in 0..MaxChecks

\* Select starts from the selected outbound if it has a history.
FirstScan(net) ==
    LET known == selected[net] # 0 /\ history[selected[net]] # 0
    IN  [net |-> net, at |-> 1,
         best |-> IF known THEN selected[net] ELSE 0,
         delay |-> IF known THEN history[selected[net]] ELSE 0]

Init ==
    /\ history = [o \in Outbounds |-> 0]
    /\ selected = [net \in Nets |-> 0]
    /\ checking = FALSE
    /\ pc = [k \in Checkers |-> IF k = Boot THEN "called" ELSE "idle"]
    /\ todo = [k \in Checkers |-> {}]
    /\ scan = [k \in Checkers |-> [net |-> "tcp", at |-> 1, best |-> 0, delay |-> 0]]
    /\ updated = [k \in Checkers |-> FALSE]
    /\ conn = [c \in Conns |-> "new"] /\ via = [c \in Conns |-> 0]
    /\ checks = 0

Goto(k, place) == pc' = [pc EXCEPT ![k] = place]

----------------------------------------------------------------------------
(* Select                                                                   *)

\* Mutation: the tolerance is forgotten.
BetterAtAll(old, new) == old = 0 \/ old > new

Better(old, new) == old = 0 \/ old > (new + Tolerance) % Modulus

Fallback(net) == IF Supported(net) = {} THEN 0 ELSE Min(Supported(net))

\* Mutation: the first selection also wants a history of its own.
ReplacesKnown(net, best, out) == selected[net] # 0 /\ best # 0 /\ out # selected[net]

\* performUpdateCheck: nothing is replaced by a fallback.
Replaces(net, best, out) ==
    /\ out # 0
    /\ selected[net] = 0 \/ (best # 0 /\ out # selected[net])

----------------------------------------------------------------------------
(* urlTest                                                                  *)

Call(k) ==
    /\ pc[k] = "idle" /\ checks < MaxChecks
    /\ checks' = checks + 1
    /\ Goto(k, "called")
    /\ UNCHANGED <<history, selected, checking, todo, scan, updated, conn, via>>

FirstChecker == ~checking

Refused(k) ==
    /\ pc[k] = "called" /\ ~FirstChecker
    /\ Goto(k, "idle")
    /\ UNCHANGED <<history, selected, checking, todo, scan, updated, conn, via, checks>>

\* An outbound with a fresh history is skipped unless the check is forced.
BeginTests(k) ==
    /\ pc[k] = "called" /\ FirstChecker
    /\ checking' = TRUE
    /\ \E skipped \in SUBSET {o \in Outbounds : history[o] # 0} :
           todo' = [todo EXCEPT ![k] = Outbounds \ skipped]
    /\ Goto(k, "testing")
    /\ UNCHANGED <<history, selected, scan, updated, conn, via, checks>>

TestDone(k, o) ==
    /\ pc[k] = "testing" /\ o \in todo[k]
    /\ todo' = [todo EXCEPT ![k] = @ \ {o}]
    /\ \E d \in Delays \cup {Failed} : history' = [history EXCEPT ![o] = d]
    /\ UNCHANGED <<selected, checking, pc, scan, updated, conn, via, checks>>

BeginUpdate(k) ==
    /\ pc[k] = "testing" /\ todo[k] = {}
    /\ Goto(k, "scanning")
    /\ scan' = [scan EXCEPT ![k] = FirstScan("tcp")]
    /\ updated' = [updated EXCEPT ![k] = FALSE]
    /\ UNCHANGED <<history, selected, checking, todo, conn, via, checks>>

\* One turn of the loop of Select: dials may fail between two turns.
ScanOne(k) ==
    LET s == scan[k]
        better == /\ s.at \in Supported(s.net) /\ history[s.at] # 0
                  /\ Better(s.delay, history[s.at])
    IN  /\ pc[k] = "scanning" /\ s.at <= N
        /\ scan' = [scan EXCEPT ![k] =
               [s EXCEPT !.at = @ + 1,
                         !.best = IF better THEN s.at ELSE @,
                         !.delay = IF better THEN history[s.at] ELSE @]]
        /\ UNCHANGED <<history, selected, checking, pc, todo, updated, conn, via, checks>>

\* Mutation: the network looked at last decides.
UpdatedByLast(k, replaced) == replaced

Updated(k, replaced) == updated[k] \/ replaced

Assign(k) ==
    LET s == scan[k]
        out == IF s.best # 0 THEN s.best ELSE Fallback(s.net)
        replaces == Replaces(s.net, s.best, out)
        replaced == [selected EXCEPT ![s.net] = out]
    IN  /\ pc[k] = "scanning" /\ s.at = N + 1
        /\ selected' = IF replaces THEN replaced ELSE selected
        /\ updated' = [updated EXCEPT ![k] = Updated(k, replaces /\ selected[s.net] # 0)]
        /\ IF s.net = "tcp"
           THEN scan' = [scan EXCEPT ![k] = FirstScan("udp")] /\ UNCHANGED pc
           ELSE Goto(k, "interrupt") /\ UNCHANGED scan
        /\ UNCHANGED <<history, checking, todo, conn, via, checks>>

CheckingAfter(k) == FALSE

Cut(k, c) == updated[k] /\ conn[c] = "open"

Interrupt(k) ==
    /\ pc[k] = "interrupt"
    /\ conn' = [c \in Conns |-> IF Cut(k, c) THEN "closed" ELSE conn[c]]
    /\ checking' = CheckingAfter(k)
    /\ Goto(k, "idle")
    /\ UNCHANGED <<history, selected, todo, scan, updated, via, checks>>

----------------------------------------------------------------------------
(* DialContext, ListenPacket                                                *)

\* What Select returns on the histories as they are, for a group that has
\* not selected yet.
Choice(net) ==
    LET best[i \in 0..N] ==
            IF i = 0 THEN 0
            ELSE IF /\ i \in Supported(net) /\ history[i] # 0
                    /\ Better(IF best[i - 1] = 0 THEN 0 ELSE history[best[i - 1]], history[i])
                 THEN i ELSE best[i - 1]
    IN  IF best[N] # 0 THEN best[N] ELSE Fallback(net)

Dial(c) ==
    LET net == NetOf(c)
        out == IF selected[net] # 0 THEN selected[net] ELSE Choice(net)
    IN  /\ conn[c] = "new"
        /\ conn' = [conn EXCEPT ![c] = IF out = 0 THEN "closed" ELSE "dialing"]
        /\ via' = [via EXCEPT ![c] = out]
        /\ UNCHANGED <<history, selected, checking, pc, todo, scan, updated, checks>>

DialFails(c) ==
    /\ conn[c] = "dialing"
    /\ conn' = [conn EXCEPT ![c] = "closed"]
    /\ history' = [history EXCEPT ![via[c]] = Failed]
    /\ UNCHANGED <<selected, checking, pc, todo, scan, updated, via, checks>>

Settle(c, from, to) ==
    /\ conn[c] = from
    /\ conn' = [conn EXCEPT ![c] = to]
    /\ UNCHANGED <<history, selected, checking, pc, todo, scan, updated, via, checks>>

NewConn(c) == Settle(c, "dialing", "open")
CloseConn(c) == Settle(c, "open", "closed")

----------------------------------------------------------------------------
CheckerStep(k) ==
    \/ Refused(k) \/ BeginTests(k) \/ (\E o \in Outbounds : TestDone(k, o))
    \/ BeginUpdate(k) \/ ScanOne(k) \/ Assign(k) \/ Interrupt(k)

Next ==
    \/ \E k \in Checkers : Call(k) \/ CheckerStep(k)
    \/ \E c \in Conns : Dial(c) \/ DialFails(c) \/ NewConn(c) \/ CloseConn(c)

Spec == Init /\ [][Next]_vars

\* A test ends by its timeout at the latest, so a check always goes on.
FairSpec == Spec /\ \A k \in Checkers : WF_vars(CheckerStep(k))

----------------------------------------------------------------------------
\* The checks exclude each other by the flag alone (checking.Swap).
OneChecker ==
    \A j, k \in Checkers : pc[j] \notin {"idle", "called"} /\ pc[k] \notin {"idle", "called"} => j = k

\* A selection made while no supported outbound has failed is within the
\* tolerance of every other, and replaces an outbound with a history only
\* for one that is better by more than the tolerance (Select).
SelectedNearBest ==
    \A k \in Checkers :
        LET s == scan[k]
            old == selected[s.net]
        IN  pc[k] = "scanning" /\ s.at = N + 1
                /\ (\A o \in Supported(s.net) : history[o] # Failed)
            => /\ \A o \in Supported(s.net) : history[o] # 0 => s.delay <= history[o] + Tolerance
               /\ s.best # 0 /\ old \notin {0, s.best} /\ history[old] # 0
                      => history[s.best] + Tolerance < history[old]

\* A working outbound is not passed over for one whose last test or dial
\* failed, when nothing fails while Select looks ("unavailable").
WorkingBeatsFailed ==
    \A k \in Checkers :
        LET s == scan[k]
        IN  pc[k] = "scanning" /\ s.at = N + 1 /\ s.best # 0 /\ s.delay = Failed
            => \A o \in Supported(s.net) : history[o] \in {0, Failed}

\* Every check ends and gives the flag back.
CheckEnds == checking ~> ~checking

\* Every network that some outbound supports gets a selection and keeps one
\* (PostStart's check), though every test and every dial may fail.
EventuallySelected == <>[](\A net \in Nets : Supported(net) # {} => selected[net] # 0)

\* A connection that was registered over the selected outbound is closed
\* when the selection has moved to another one (Interrupt).
SwitchCuts ==
    \A c \in Conns, o \in Outbounds :
        [](conn[c] = "open" /\ via[c] = o /\ selected[NetOf(c)] = o
            => [](selected[NetOf(c)] # o => <>(conn[c] = "closed")))
==============================================================================
