---------------------------- MODULE BalancerDelays ----------------------------
(***************************************************************************)
(* What the strategies of a balancer read out of the histories: delays     *)
(* are uint16, a history from the cache counts with a penalty, and an      *)
(* outbound without a measured delay counts as timed out.                  *)
(***************************************************************************)
EXTENDS Naturals, FiniteSets, FiniteSetsExt

CONSTANTS
    N,              \* number of outbounds, in the order of the group
    Tcp, Udp,       \* outbounds that support each network
    Delays,         \* what a test may measure
    Modulus,        \* 2^16
    Penalty,        \* 20000, added to a delay below it
    Floor,          \* 100, the least delay that is compared with
    Ratio           \* delay_acceptable_ratio

Outbounds == 1..N
Nets == {"tcp", "udp"}
Timeout == Modulus - 1

\* A delay of 0: not tested yet, or a test cut short by its deadline.
Histories == [delay : Delays \cup {0, Timeout}, cached : BOOLEAN]

\* What the constants stand for.
DelaysAssumption ==
    /\ N \in Nat \ {0} /\ Tcp \subseteq Outbounds /\ Udp \subseteq Outbounds
    /\ Modulus \in Nat \ {0} /\ Penalty \in Nat /\ Floor \in Nat /\ Ratio \in Nat \ {0}
    /\ 2 * Penalty <= Timeout
    /\ Delays \subseteq 1..(Timeout - 1)

\* convertOutbounds: a network nothing supports gets every outbound.
Members(net) ==
    LET those == IF net = "tcp" THEN Tcp ELSE Udp
    IN  IF those = {} THEN Outbounds ELSE those

\* getModifiedDelay
DelayOf(h) ==
    LET known == IF h.delay = 0 THEN Timeout ELSE h.delay
    IN  IF h.cached /\ known < Penalty THEN known + Penalty ELSE known

\* The order of sortOutboundsByDelay, which is stable.
Before(his, a, b) ==
    \/ DelayOf(his[a]) < DelayOf(his[b])
    \/ DelayOf(his[a]) = DelayOf(his[b]) /\ a < b

\* The place of a member after sortOutboundsByDelay, and the member there.
Rank(his, net, o) == Cardinality({p \in Members(net) : Before(his, p, o)})
At(his, net, i) == CHOOSE o \in Members(net) : Rank(his, net, o) = i

MinDelay(his, net) == Min({DelayOf(his[o]) : o \in Members(net)})

\* getMinDelay: the last of the members with the least delay.
Lowest(his, net) ==
    CHOOSE o \in Members(net) :
        \A p \in Members(net) :
            \/ DelayOf(his[o]) < DelayOf(his[p])
            \/ DelayOf(his[o]) = DelayOf(his[p]) /\ p <= o

\* uint16(max(100, delay) * ratio): what does not fit loses its high bits.
Acceptable(delay) == ((IF delay < Floor THEN Floor ELSE delay) * Ratio) % Modulus

\* No measured delay is so long that the acceptable one does not fit; and with
\* the configured ratio what is left of the timeout is less than the timeout.
DelaysFit ==
    /\ Floor * Ratio < Timeout /\ Acceptable(Timeout) < Timeout
    /\ \A h \in Histories : DelayOf(h) < Timeout => DelayOf(h) * Ratio < Timeout

\* getAcceptableIndex
LastAcceptable(his, net) ==
    LET fits == {o \in Members(net) : DelayOf(his[o]) <= Acceptable(MinDelay(his, net))}
    IN  IF fits = {} THEN 0 ELSE Cardinality(fits) - 1
==============================================================================
