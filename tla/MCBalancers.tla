----------------------------- MODULE MCBalancers -----------------------------
(***************************************************************************)
(* A balancer group under each of its four strategies, of which "part"     *)
(* names the one in force.  The monitor's histories, the worker and the    *)
(* connections are the same for all; what the other strategies keep for    *)
(* themselves stays as it was at first.                                    *)
(***************************************************************************)
EXTENDS Naturals, FiniteSets

CONSTANTS
    N, Tcp, Udp, Modulus, Penalty, Floor, Ratio,
    MeasuredDelays,     \* what a test may measure under lowest-delay, round-robin
    HashedDelays,       \* and under the other two
    HashRetry, StickyRetry,
    Conns, UdpConns,    \* under sticky sessions
    SoleConn,           \* under the others, over tcp
    MaxResults,         \* bound: results under lowest-delay, consistent-hashing
    FewResults,         \* and under the other two
    MaxServed

VARIABLES
    part,
    history, event, worker, seen, used, conn, via, results,
    chosen, last, idx, served,
    ready, before, hash, lru, since

Lowest == INSTANCE BalancerGroup WITH
    Strategy <- "lowest-delay", Delays <- MeasuredDelays,
    Conns <- SoleConn, UdpConns <- {}
Robin == INSTANCE BalancerGroup WITH
    Strategy <- "round-robin", Delays <- MeasuredDelays, MaxResults <- FewResults,
    Conns <- SoleConn, UdpConns <- {}
Consistent == INSTANCE BalancerHashing WITH
    Strategy <- "consistent-hashing", Delays <- HashedDelays, MaxRetry <- HashRetry,
    Conns <- SoleConn, UdpConns <- {}
Sticky == INSTANCE BalancerHashing WITH
    Strategy <- "sticky-sessions", Delays <- HashedDelays, MaxRetry <- StickyRetry,
    MaxResults <- FewResults

\* What the constants stand for.
BalancersAssumption ==
    /\ Lowest!DelaysAssumption /\ Consistent!DelaysAssumption
    /\ Lowest!GroupAssumption /\ Robin!GroupAssumption
    /\ Consistent!HashingAssumption /\ Sticky!HashingAssumption

ASSUME BalancerConstants == BalancersAssumption

sharedVars == <<history, event, worker, seen, used, conn, via, results>>
groupVars == <<chosen, last, idx, served>>
hashingVars == <<ready, before, hash, lru, since>>
vars == <<part, sharedVars, groupVars, hashingVars>>

NoGroup == chosen = [net \in Lowest!Nets |-> 1] /\ last = <<>> /\ idx = <<>> /\ served = <<>>
NoHashing == ready = FALSE /\ before = <<>> /\ hash = <<>> /\ lru = 0 /\ since = {}

Init ==
    \/ part = "lowest" /\ Lowest!Init /\ NoHashing
    \/ part = "robin" /\ Robin!Init /\ NoHashing
    \/ part = "consistent" /\ Consistent!Init /\ NoGroup
    \/ part = "sticky" /\ Sticky!Init /\ NoGroup

Next ==
    /\ UNCHANGED part
    /\ \/ part = "lowest" /\ Lowest!Next /\ UNCHANGED hashingVars
       \/ part = "robin" /\ Robin!Next /\ UNCHANGED hashingVars
       \/ part = "consistent" /\ Consistent!Next /\ UNCHANGED groupVars
       \/ part = "sticky" /\ Sticky!Next /\ UNCHANGED groupVars

Spec == Init /\ [][Next]_vars

-----------------------------------------------------------------------------
\* What Select promises under each strategy: lowest-delay overlooks no result
\* once its worker is done, round-robin serves the acceptable members alike and
\* no other, consistent hashing selects no timed-out outbound while there is
\* another, and sticky sessions stay with an outbound between two updates.
SelectsAsPromised ==
    /\ part = "lowest" => Lowest!ChosenIsLowest
    /\ part = "robin" => Robin!FairShare
    /\ part = "consistent" => Consistent!FindsAvailable
    /\ part = "sticky" => Sticky!StaysStuck

\* An update that brings no outbound back moves a key only when the outbound it
\* is hashed to has died (ConsistentHashing.Select).
MovesOnlyWhenNeeded == [][part = "consistent" => Consistent!MovesKeyOnlyFromDead]_vars
==============================================================================
