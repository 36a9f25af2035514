-------------------------- MODULE BalancersProofs --------------------------
(***************************************************************************)
(* What MCBalancers checks of the four strategies of a balancer, for any   *)
(* number of members, any delays, any connections and any number of        *)
(* attempts to dial.                                                       *)
(***************************************************************************)
EXTENDS MCBalancers, WellFoundedInduction, FunctionTheorems, FiniteSetTheorems, TLAPS

-----------------------------------------------------------------------------
(***************************************************************************)
(* Places in an order: the members of a group by delay and then by number, *)
(* for any delays.                                                         *)
(***************************************************************************)
Precedes(d, a, b) == d[a] < d[b] \/ (d[a] = d[b] /\ a < b)

Below(S, d, o) == {p \in S : Precedes(d, p, o)}

\* Numbers have a least one.
LEMMA LeastOfNaturals ==
    ASSUME NEW T, T \subseteq Nat, T # {}
    PROVE  \E m \in T : \A x \in T : m <= x
<1>1. PICK m \in T : \A x \in T : ~(<<x, m>> \in OpToRel(<, Nat))
  BY NatLessThanWellFounded, WFMin
<1>2. \A x \in T : ~(x < m)
  BY <1>1 DEF OpToRel
<1> QED
  BY <1>2

\* Of the members with the least delay one is the last.
LEMMA LastOfLeast ==
    ASSUME NEW n \in Nat, NEW S, S \subseteq 1..n, S # {}, NEW d \in [S -> Nat]
    PROVE  \E o \in S : \A p \in S : d[o] < d[p] \/ (d[o] = d[p] /\ p <= o)
<1>1. PICK m \in S : \A p \in S : d[m] <= d[p]
  <2> DEFINE T == {d[o] : o \in S}
  <2>1. T \subseteq Nat /\ T # {}
    OBVIOUS
  <2>2. PICK x \in T : \A y \in T : x <= y
    BY <2>1, LeastOfNaturals
  <2> QED
    BY <2>2
<1> DEFINE ties == {o \in S : d[o] = d[m]}
<1>2. PICK o \in ties : \A p \in ties : p <= o
  <2> DEFINE T == {n - q : q \in ties}
  <2>1. T \subseteq Nat /\ T # {}
    BY <1>1
  <2>2. PICK x \in T : \A y \in T : x <= y
    BY <2>1, LeastOfNaturals
  <2>3. PICK q \in ties : x = n - q
    BY <2>2
  <2>4. \A p \in ties : n - q <= n - p
    BY <2>2, <2>3
  <2>5. \A p \in ties : p \in Int
    OBVIOUS
  <2>6. \A p \in ties : p <= q
    BY <2>4, <2>5
  <2> QED
    BY <2>6
<1>3. o \in S /\ d[o] = d[m] /\ \A p \in S : d[p] = d[o] => p <= o
  BY <1>2
<1>4. \A p \in S : d[o] <= d[p] /\ d[p] \in Nat /\ d[o] \in Nat
  BY <1>1, <1>3
<1> QED
  BY <1>3, <1>4

\* The order is strict and total.
LEMMA PrecedesOrders ==
    ASSUME NEW n \in Nat, NEW S, S \subseteq 1..n, NEW d \in [S -> Nat]
    PROVE  /\ \A a \in S : ~Precedes(d, a, a)
           /\ \A a, b \in S : a # b => Precedes(d, a, b) \/ Precedes(d, b, a)
           /\ \A a, b, c \in S : Precedes(d, a, b) /\ Precedes(d, b, c) => Precedes(d, a, c)
<1>1. \A o \in S : o \in Int /\ d[o] \in Int
  OBVIOUS
<1> QED
  BY <1>1 DEF Precedes

LEMMA MembersFinite ==
    ASSUME NEW n \in Nat, NEW S, S \subseteq 1..n
    PROVE  /\ IsFiniteSet(S) /\ Cardinality(S) \in Nat /\ Cardinality(S) <= n
           /\ S # {} => Cardinality(S) > 0
<1>1. IsFiniteSet(1..n) /\ Cardinality(1..n) = n
  BY FS_Interval
<1>2. IsFiniteSet(S) /\ Cardinality(S) <= n
  BY <1>1, FS_Subset
<1> QED
  BY <1>2, FS_CardinalityType, FS_EmptySet

\* A member that precedes another has fewer before it; so each has a place of
\* its own, and every place is taken.
LEMMA PlacesDiffer ==
    ASSUME NEW n \in Nat, NEW S, S \subseteq 1..n, NEW d \in [S -> Nat]
    PROVE  /\ \A a \in S : Cardinality(Below(S, d, a)) \in 0..(Cardinality(S) - 1)
           /\ \A a, b \in S : Precedes(d, a, b) =>
                  Cardinality(Below(S, d, a)) < Cardinality(Below(S, d, b))
           /\ \A a, b \in S : Cardinality(Below(S, d, a)) = Cardinality(Below(S, d, b)) => a = b
<1>1. IsFiniteSet(S) /\ Cardinality(S) \in Nat
  BY MembersFinite
<1>2. ASSUME NEW A, NEW B, A \subseteq B, B \subseteq S, NEW b \in B, b \notin A
      PROVE  Cardinality(A) \in Nat /\ Cardinality(B) \in Nat /\ Cardinality(A) < Cardinality(B)
  <2>1. IsFiniteSet(B)
    BY <1>1, <1>2, FS_Subset
  <2>2. IsFiniteSet(A) /\ Cardinality(A) <= Cardinality(B) /\ Cardinality(A) # Cardinality(B)
    BY <1>2, <2>1, FS_Subset
  <2> QED
    BY <2>1, <2>2, FS_CardinalityType
<1>3. \A a \in S : Cardinality(Below(S, d, a)) \in 0..(Cardinality(S) - 1)
  <2> SUFFICES ASSUME NEW a \in S
               PROVE  Cardinality(Below(S, d, a)) \in 0..(Cardinality(S) - 1)
    OBVIOUS
  <2>1. Below(S, d, a) \subseteq S /\ a \notin Below(S, d, a)
    BY PrecedesOrders DEF Below
  <2> QED
    BY <1>1, <1>2, <2>1
<1>4. ASSUME NEW a \in S, NEW b \in S, Precedes(d, a, b)
      PROVE  Cardinality(Below(S, d, a)) < Cardinality(Below(S, d, b))
  <2>1. /\ Below(S, d, a) \subseteq Below(S, d, b) /\ Below(S, d, b) \subseteq S
        /\ a \in Below(S, d, b) /\ a \notin Below(S, d, a)
    BY <1>4, PrecedesOrders DEF Below
  <2> QED
    BY <1>2, <2>1
<1>5. \A a, b \in S : Cardinality(Below(S, d, a)) = Cardinality(Below(S, d, b)) => a = b
  <2> SUFFICES ASSUME NEW a \in S, NEW b \in S, a # b
               PROVE  Cardinality(Below(S, d, a)) # Cardinality(Below(S, d, b))
    OBVIOUS
  <2>1. Precedes(d, a, b) \/ Precedes(d, b, a)
    BY PrecedesOrders
  <2> QED
    BY <1>3, <1>4, <2>1
<1> QED
  BY <1>3, <1>4, <1>5

LEMMA PlacesTaken ==
    ASSUME NEW n \in Nat, NEW S, S \subseteq 1..n, NEW d \in [S -> Nat],
           NEW i \in 0..(Cardinality(S) - 1)
    PROVE  \E o \in S : Cardinality(Below(S, d, o)) = i
<1> DEFINE place == [o \in S |-> Cardinality(Below(S, d, o))]
           T == 0..(Cardinality(S) - 1)
<1>1. IsFiniteSet(S) /\ Cardinality(S) \in Nat
  BY MembersFinite
<1>2. IsFiniteSet(T) /\ Cardinality(T) = Cardinality(S)
  BY <1>1, FS_Interval
<1>3. place \in [S -> T] /\ \A a, b \in S : place[a] = place[b] => a = b
  BY PlacesDiffer
<1>4. place \in Injection(S, T)
  BY <1>3, Fun_IsInj
<1>5. place \in Surjection(S, T)
  BY <1>2, <1>4, FS_Injection
<1>6. \A t \in T : \E o \in S : place[o] = t
  <2> HIDE DEF place, T
  <2> QED
    BY <1>5, Fun_SurjectionProperties
<1> QED
  BY <1>6

\* Members that precede all others take the first places.
LEMMA FirstPlaces ==
    ASSUME NEW n \in Nat, NEW S, S \subseteq 1..n, NEW d \in [S -> Nat],
           NEW F, F \subseteq S,
           \A p \in F, o \in S : Precedes(d, o, p) => o \in F,
           NEW o \in S
    PROVE  o \in F <=> Cardinality(Below(S, d, o)) < Cardinality(F)
<1>1. IsFiniteSet(S) /\ IsFiniteSet(F) /\ Cardinality(F) \in Nat
  BY MembersFinite, FS_Subset, FS_CardinalityType
<1>2. Below(S, d, o) \subseteq S /\ o \notin Below(S, d, o)
  BY PrecedesOrders DEF Below
<1>3. IsFiniteSet(Below(S, d, o)) /\ Cardinality(Below(S, d, o)) \in Nat
  BY <1>1, <1>2, FS_Subset, FS_CardinalityType
<1>4. CASE o \in F
  <2>1. Below(S, d, o) \subseteq F
    BY <1>4 DEF Below
  <2>2. Cardinality(Below(S, d, o)) <= Cardinality(F) /\ Cardinality(Below(S, d, o)) # Cardinality(F)
    BY <1>1, <1>2, <1>4, <2>1, FS_Subset
  <2> QED
    BY <1>1, <1>3, <1>4, <2>2
<1>5. CASE o \notin F
  <2>1. F \subseteq Below(S, d, o)
    BY <1>5, PrecedesOrders DEF Below
  <2>2. Cardinality(F) <= Cardinality(Below(S, d, o))
    BY <1>3, <2>1, FS_Subset
  <2> QED
    BY <1>1, <1>3, <1>5, <2>2
<1> QED
  BY <1>4, <1>5

-----------------------------------------------------------------------------
(***************************************************************************)
(* What the strategies share.                                              *)
(***************************************************************************)
Delay(h) == Lowest!DelayOf(h)
Limit(x) == Lowest!Acceptable(x)
MembersOf(net) == Lowest!Members(net)
Timed == Modulus - 1

\* The strategies read a history alike.
LEMMA OneReading ==
    /\ \A h : Robin!DelayOf(h) = Delay(h) /\ Consistent!DelayOf(h) = Delay(h)
    /\ \A x : Robin!Acceptable(x) = Limit(x) /\ Consistent!Acceptable(x) = Limit(x)
    /\ \A net : /\ Robin!Members(net) = MembersOf(net)
                /\ Consistent!Members(net) = MembersOf(net)
                /\ Sticky!Members(net) = MembersOf(net)
    /\ Lowest!Timeout = Timed /\ Robin!Timeout = Timed /\ Consistent!Timeout = Timed
BY DEF Delay, Limit, MembersOf, Timed,
       Lowest!DelayOf, Robin!DelayOf, Consistent!DelayOf,
       Lowest!Acceptable, Robin!Acceptable, Consistent!Acceptable,
       Lowest!Members, Robin!Members, Consistent!Members, Sticky!Members,
       Lowest!Outbounds, Robin!Outbounds, Consistent!Outbounds, Sticky!Outbounds,
       Lowest!Timeout, Robin!Timeout, Consistent!Timeout

LEMMA OneCardinality ==
    \A S : /\ Robin!Cardinality(S) = Cardinality(S)
           /\ Consistent!Cardinality(S) = Cardinality(S)
           /\ Sticky!Cardinality(S) = Cardinality(S)
BY DEF Robin!Cardinality, Consistent!Cardinality, Sticky!Cardinality, Cardinality

LEMMA BalancerNumbers ==
    ASSUME BalancersAssumption
    PROVE  /\ N \in Nat \ {0} /\ Tcp \subseteq 1..N /\ Udp \subseteq 1..N
           /\ Modulus \in Nat \ {0} /\ Penalty \in Nat /\ Floor \in Nat /\ Ratio \in Nat \ {0}
           /\ 2 * Penalty <= Timed
           /\ MeasuredDelays \subseteq 1..(Timed - 1) /\ HashedDelays \subseteq 1..(Timed - 1)
BY OneReading
DEF BalancersAssumption, Lowest!DelaysAssumption, Consistent!DelaysAssumption,
    Lowest!Outbounds, Consistent!Outbounds, Timed

\* Every network has members, in the order of the group.
LEMMA SomeMembers ==
    ASSUME BalancersAssumption, NEW net
    PROVE  /\ MembersOf(net) \subseteq 1..N /\ MembersOf(net) # {}
           /\ \A o \in MembersOf(net) : o \in Nat \ {0}
BY BalancerNumbers DEF MembersOf, Lowest!Members, Lowest!Outbounds

\* What the histories hold, under lowest-delay and round-robin, and under the
\* other two.
Measured == [delay : MeasuredDelays \cup {0, Timed}, cached : BOOLEAN]
Hashed == [delay : HashedDelays \cup {0, Timed}, cached : BOOLEAN]

LEMMA HistoriesKnown ==
    /\ Lowest!Histories = Measured /\ Robin!Histories = Measured
    /\ Consistent!Histories = Hashed /\ Sticky!Histories = Hashed
BY DEF Measured, Hashed, Timed, Lowest!Histories, Robin!Histories,
       Consistent!Histories, Sticky!Histories, Lowest!Timeout, Robin!Timeout,
       Consistent!Timeout, Sticky!Timeout

\* A history is read as a delay up to the timeout, and never as less than what
\* it holds: the penalty does not lift a delay over the timeout.
LEMMA DelayRange ==
    ASSUME BalancersAssumption, NEW h \in Measured \cup Hashed
    PROVE  /\ Delay(h) \in 0..Timed /\ h.delay \in 0..Timed
           /\ h.delay <= Delay(h)
           /\ Delay(h) = Timed => h.delay \in {0, Timed}
<1>1. h.delay \in 0..Timed /\ h.cached \in BOOLEAN
  BY BalancerNumbers DEF Measured, Hashed, Timed
<1> QED
  BY <1>1, BalancerNumbers, OneReading DEF Delay, Lowest!DelayOf, Timed

-----------------------------------------------------------------------------
(***************************************************************************)
(* Lowest-delay: a result is in the histories, in an event, on its way     *)
(* through the worker, or in the selection.                                *)
(***************************************************************************)
HistoryTypes == {history, seen, used} \subseteq [1..N -> Measured]

NothingMeasured == [o \in 1..N |-> Lowest!Unmeasured]

LowestInv ==
    /\ HistoryTypes
    /\ worker # "update" => used = seen
    /\ ~event /\ seen # NothingMeasured => seen = history
    /\ used # NothingMeasured => chosen = [net \in Lowest!Nets |-> Lowest!Lowest(used, net)]

LEMMA UnmeasuredKnown == Lowest!Unmeasured \in Measured
BY DEF Measured, Lowest!Unmeasured

\* getMinDelay returns a member, and none has less delay.
LEMMA LowestIsLeast ==
    ASSUME BalancersAssumption, NEW his \in [1..N -> Measured], NEW net
    PROVE  /\ Lowest!Lowest(his, net) \in MembersOf(net)
           /\ \A p \in MembersOf(net) : Delay(his[Lowest!Lowest(his, net)]) <= Delay(his[p])
<1> DEFINE d == [o \in MembersOf(net) |-> Delay(his[o])]
           IsLast(o) == \A p \in MembersOf(net) :
                            \/ Delay(his[o]) < Delay(his[p])
                            \/ Delay(his[o]) = Delay(his[p]) /\ p <= o
<1>1. d \in [MembersOf(net) -> Nat]
  BY SomeMembers, DelayRange, BalancerNumbers
<1>2. \E o \in MembersOf(net) : IsLast(o)
  <2>1. \E o \in MembersOf(net) : \A p \in MembersOf(net) : d[o] < d[p] \/ (d[o] = d[p] /\ p <= o)
    <3> HIDE DEF d
    <3> QED
      BY <1>1, SomeMembers, BalancerNumbers, LastOfLeast
  <2> QED
    BY <2>1
<1>3. Lowest!Lowest(his, net) = CHOOSE o \in MembersOf(net) : IsLast(o)
  BY DEF Lowest!Lowest, Delay, MembersOf
<1>4. Lowest!Lowest(his, net) \in MembersOf(net) /\ IsLast(Lowest!Lowest(his, net))
  <2> HIDE DEF IsLast
  <2> QED
    BY <1>2, <1>3
<1>5. \A o \in MembersOf(net) : Delay(his[o]) \in Nat
  BY <1>1
<1> QED
  BY <1>4, <1>5

LEMMA LowestInit ==
    ASSUME BalancersAssumption, Lowest!Init
    PROVE  LowestInv
<1>1. history \in [1..N -> Measured]
  BY UnmeasuredKnown, HistoriesKnown DEF Lowest!Init, Lowest!Outbounds
<1> QED
  BY <1>1, UnmeasuredKnown
  DEF Lowest!Init, Lowest!Outbounds, LowestInv, HistoryTypes, NothingMeasured

\* What a test brings is a history.
LEMMA ResultKnown ==
    ASSUME BalancersAssumption, history \in [1..N -> Measured], NEW o,
           NEW d \in MeasuredDelays \cup {0, Timed}
    PROVE  [history EXCEPT ![o] = [delay |-> d, cached |-> FALSE]] \in [1..N -> Measured]
BY DEF Measured

LEMMA LowestNext ==
    ASSUME BalancersAssumption, LowestInv, [Lowest!Next]_(Lowest!vars)
    PROVE  LowestInv'
<1>1. ASSUME NEW o, Lowest!Result(o)
      PROVE  LowestInv'
  <2>1. PICK d \in MeasuredDelays \cup {0, Timed} :
           history' = [history EXCEPT ![o] = [delay |-> d, cached |-> FALSE]]
    BY <1>1, OneReading DEF Lowest!Result
  <2>2. history' \in [1..N -> Measured]
    BY <2>1, ResultKnown DEF LowestInv, HistoryTypes
  <2> QED
    BY <1>1, <2>2 DEF Lowest!Result, LowestInv, HistoryTypes
<1>2. CASE Lowest!Receive
  BY <1>2 DEF Lowest!Receive, LowestInv, HistoryTypes
<1>3. CASE Lowest!Update
  <2>1. chosen' = [net \in Lowest!Nets |-> Lowest!Lowest(seen, net)] /\ used' = seen
    BY <1>3 DEF Lowest!Update, Lowest!LowestNow
  <2>2. worker' # "update" /\ UNCHANGED <<history, event, seen>>
    BY <1>3 DEF Lowest!Update
  <2> QED
    BY <2>1, <2>2 DEF LowestInv, HistoryTypes
<1>4. CASE UNCHANGED <<history, event, seen, used, chosen, worker>>
  BY <1>4 DEF LowestInv, HistoryTypes
<1>5. CASE Lowest!Interrupt
  BY <1>5 DEF Lowest!Interrupt, LowestInv, HistoryTypes
<1>6. ASSUME NEW c, Lowest!Dial(c) \/ Lowest!NewConn(c) \/ Lowest!DialFails(c)
                    \/ Lowest!CloseConn(c)
      PROVE  UNCHANGED <<history, event, seen, used, chosen, worker>>
  BY <1>6 DEF Lowest!Dial, Lowest!NewConn, Lowest!DialFails, Lowest!CloseConn,
       Lowest!Settle
<1>7. ASSUME NEW net, Lowest!DirectRoute(net)
      PROVE  UNCHANGED <<history, event, seen, used, chosen, worker>>
  BY <1>7 DEF Lowest!DirectRoute
<1>8. CASE UNCHANGED Lowest!vars
  BY <1>4, <1>8 DEF Lowest!vars
<1> QED
  BY <1>1, <1>2, <1>3, <1>4, <1>5, <1>6, <1>7, <1>8 DEF Lowest!Next, Lowest!WorkerStep

LEMMA LowestPromised ==
    ASSUME BalancersAssumption, LowestInv
    PROVE  Lowest!ChosenIsLowest
<1> SUFFICES ASSUME worker = "wait", ~event, used # NothingMeasured,
                    NEW net \in Lowest!Nets, NEW o \in MembersOf(net)
             PROVE  Delay(history[chosen[net]]) <= Delay(history[o])
  BY DEF Lowest!ChosenIsLowest, Lowest!Outbounds, NothingMeasured, Delay, MembersOf
<1>1. used = history /\ chosen[net] = Lowest!Lowest(used, net)
  BY DEF LowestInv
<1> QED
  BY <1>1, LowestIsLeast DEF LowestInv, HistoryTypes

-----------------------------------------------------------------------------
(***************************************************************************)
(* Round-robin: the selections since the last update go round the places   *)
(* up to the last acceptable one.                                          *)
(***************************************************************************)
Place(his, net, o) == Robin!Rank(his, net, o)

DelaysOf(his, net) == [o \in MembersOf(net) |-> Delay(his[o])]

LEMMA PlaceIsBelow ==
    ASSUME BalancersAssumption, NEW his \in [1..N -> Measured], NEW net
    PROVE  /\ DelaysOf(his, net) \in [MembersOf(net) -> Nat]
           /\ \A o \in MembersOf(net) :
                  Place(his, net, o) = Cardinality(Below(MembersOf(net), DelaysOf(his, net), o))
<1>1. \A o \in MembersOf(net) : Delay(his[o]) \in Nat
  BY SomeMembers, DelayRange, BalancerNumbers
<1>2. ASSUME NEW o \in MembersOf(net)
      PROVE  Place(his, net, o) = Cardinality(Below(MembersOf(net), DelaysOf(his, net), o))
  <2>1. Robin!Members(net) = MembersOf(net)
    BY OneReading
  <2>2. {p \in MembersOf(net) : Robin!Before(his, p, o)}
            = Below(MembersOf(net), DelaysOf(his, net), o)
    BY OneReading DEF Robin!Before, Below, Precedes, DelaysOf
  <2> QED
    BY <2>1, <2>2, OneCardinality DEF Place, Robin!Rank
<1> QED
  BY <1>1, <1>2 DEF DelaysOf

\* sortOutboundsByDelay gives each member a place of its own.
LEMMA RobinPlaces ==
    ASSUME BalancersAssumption, NEW his \in [1..N -> Measured], NEW net
    PROVE  /\ Cardinality(MembersOf(net)) \in Nat \ {0}
           /\ \A o \in MembersOf(net) :
                  Place(his, net, o) \in 0..(Cardinality(MembersOf(net)) - 1)
           /\ \A o, p \in MembersOf(net) : Place(his, net, o) = Place(his, net, p) => o = p
           /\ \A i \in 0..(Cardinality(MembersOf(net)) - 1) :
                  /\ Robin!At(his, net, i) \in MembersOf(net)
                  /\ Place(his, net, Robin!At(his, net, i)) = i
<1>1. Cardinality(MembersOf(net)) \in Nat \ {0}
  BY SomeMembers, BalancerNumbers, MembersFinite
<1> DEFINE d == DelaysOf(his, net)
<1>5. d \in [MembersOf(net) -> Nat]
  BY PlaceIsBelow
<1> HIDE DEF d
<1>2. \A o \in MembersOf(net) :
          Place(his, net, o) \in 0..(Cardinality(MembersOf(net)) - 1)
  <2>1. \A o \in MembersOf(net) : Cardinality(Below(MembersOf(net), d, o))
                                      \in 0..(Cardinality(MembersOf(net)) - 1)
    BY <1>5, SomeMembers, BalancerNumbers, PlacesDiffer
  <2> QED
    BY <2>1, PlaceIsBelow DEF d
<1>3. \A o, p \in MembersOf(net) : Place(his, net, o) = Place(his, net, p) => o = p
  <2>1. \A o, p \in MembersOf(net) : Cardinality(Below(MembersOf(net), d, o))
                = Cardinality(Below(MembersOf(net), d, p)) => o = p
    BY <1>5, SomeMembers, BalancerNumbers, PlacesDiffer
  <2> QED
    BY <2>1, PlaceIsBelow DEF d
<1>4. ASSUME NEW i \in 0..(Cardinality(MembersOf(net)) - 1)
      PROVE  /\ Robin!At(his, net, i) \in MembersOf(net)
             /\ Place(his, net, Robin!At(his, net, i)) = i
  <2>1. \E o \in MembersOf(net) : Place(his, net, o) = i
    <3>1. \E o \in MembersOf(net) : Cardinality(Below(MembersOf(net), d, o)) = i
      BY <1>5, SomeMembers, BalancerNumbers, PlacesTaken
    <3> QED
      BY <3>1, PlaceIsBelow DEF d
  <2>2. Robin!At(his, net, i) = CHOOSE o \in MembersOf(net) : Place(his, net, o) = i
    BY OneReading DEF Robin!At, Place
  <2> QED
    BY <2>1, <2>2
<1> QED
  BY <1>1, <1>2, <1>3, <1>4

\* The places from one to another, going round.
Between(from, to, k) ==
    IF from <= to THEN from <= k /\ k <= to ELSE from <= k \/ k <= to

\* Nothing is served yet, or every place has been served alike but for one more
\* from where the round began to idx.
FairlyServed(net) ==
    LET place(o) == Place(used, net, o)
        count(o) == served[net][o]
    IN  /\ \A o \in MembersOf(net) : place(o) > last[net] => count(o) = 0
        /\ \/ \A o \in MembersOf(net) : count(o) = 0
           \/ /\ idx[net] <= last[net]
              /\ \E rounds \in Nat, from \in 0..last[net] :
                     \A o \in MembersOf(net) : place(o) <= last[net] =>
                         count(o) = rounds + IF Between(from, idx[net], place(o)) THEN 1 ELSE 0

RobinInv ==
    /\ HistoryTypes
    /\ last \in [Robin!Nets -> Nat] /\ idx \in [Robin!Nets -> Nat]
    /\ DOMAIN served = Robin!Nets
    /\ \A net \in Robin!Nets :
           /\ last[net] < Cardinality(MembersOf(net))
           /\ served[net] \in [MembersOf(net) -> Nat]
           /\ FairlyServed(net)
           /\ used # NothingMeasured => last[net] = Robin!LastAcceptable(used, net)

\* The next place is the one after idx, or the first.
LEMMA NextPlace ==
    ASSUME NEW l \in Nat, NEW i \in Nat
    PROVE  /\ (i + 1) % (l + 1) \in 0..l
           /\ i < l => (i + 1) % (l + 1) = i + 1
           /\ i = l => (i + 1) % (l + 1) = 0
OBVIOUS

LEMMA AcceptableRange ==
    ASSUME BalancersAssumption, NEW his \in [1..N -> Measured], NEW net
    PROVE  Robin!LastAcceptable(his, net) \in 0..(Cardinality(MembersOf(net)) - 1)
<1> DEFINE fits == {o \in MembersOf(net) :
                       Delay(his[o]) <= Limit(Robin!MinDelay(his, net))}
<1>1. IsFiniteSet(MembersOf(net)) /\ Cardinality(MembersOf(net)) \in Nat \ {0}
  BY SomeMembers, BalancerNumbers, MembersFinite
<1>2. /\ IsFiniteSet(fits) /\ Cardinality(fits) \in Nat
      /\ Cardinality(fits) <= Cardinality(MembersOf(net))
      /\ fits # {} => Cardinality(fits) # 0
  <2>1. fits \subseteq MembersOf(net)
    OBVIOUS
  <2> HIDE DEF fits
  <2>2. IsFiniteSet(fits) /\ Cardinality(fits) <= Cardinality(MembersOf(net))
    BY <1>1, <2>1, FS_Subset
  <2> QED
    BY <2>2, FS_CardinalityType, FS_EmptySet
<1>3. Robin!LastAcceptable(his, net) = IF fits = {} THEN 0 ELSE Cardinality(fits) - 1
  <2>1. fits = {o \in Robin!Members(net) :
                  Robin!DelayOf(his[o]) <= Robin!Acceptable(Robin!MinDelay(his, net))}
    BY OneReading
  <2> QED
    BY <2>1, OneCardinality DEF Robin!LastAcceptable
<1> QED
  BY <1>1, <1>2, <1>3

LEMMA RobinInit ==
    ASSUME BalancersAssumption, Robin!Init
    PROVE  RobinInv
<1>1. history \in [1..N -> Measured]
  BY UnmeasuredKnown, HistoriesKnown
  DEF Robin!Init, Robin!Outbounds, Robin!Unmeasured, Lowest!Unmeasured
<1>2. HistoryTypes /\ used = NothingMeasured
  BY <1>1, UnmeasuredKnown
  DEF Robin!Init, Robin!Outbounds, HistoryTypes, NothingMeasured, Robin!Unmeasured,
      Lowest!Unmeasured
<1>3. \A net \in Robin!Nets : Cardinality(MembersOf(net)) \in Nat \ {0}
  BY SomeMembers, BalancerNumbers, MembersFinite
<1>4. /\ last = [net \in Robin!Nets |-> Robin!Cardinality(Robin!Members(net)) - 1]
      /\ idx = [net \in Robin!Nets |-> 0]
      /\ served = [net \in Robin!Nets |-> [o \in Robin!Members(net) |-> 0]]
  BY DEF Robin!Init, Robin!Size, Robin!NoService
<1>5. ASSUME NEW net \in Robin!Nets
      PROVE  /\ served[net] \in [MembersOf(net) -> Nat] /\ FairlyServed(net)
             /\ last[net] \in Nat /\ last[net] < Cardinality(MembersOf(net))
  <2>1. Robin!Members(net) = MembersOf(net)
    BY OneReading
  <2>2. served[net] = [o \in MembersOf(net) |-> 0] /\ last[net] = Cardinality(MembersOf(net)) - 1
    BY <1>4, <2>1, OneCardinality
  <2>3. last[net] \in Nat /\ last[net] < Cardinality(MembersOf(net))
    BY <1>3, <2>2
  <2> QED
    BY <2>2, <2>3 DEF FairlyServed
<1>6. last \in [Robin!Nets -> Nat] /\ idx \in [Robin!Nets -> Nat] /\ DOMAIN served = Robin!Nets
  <2> DEFINE size(net) == Robin!Cardinality(Robin!Members(net)) - 1
  <2>1. \A net \in Robin!Nets : last[net] = size(net) /\ last[net] \in Nat
    BY <1>4, <1>5
  <2> HIDE DEF size
  <2>2. last = [net \in Robin!Nets |-> size(net)]
    BY <1>4 DEF size
  <2> QED
    BY <1>4, <2>1, <2>2
<1> QED
  BY <1>2, <1>5, <1>6 DEF RobinInv

\* Going on from idx either lengthens the round by one place or, when it is back
\* where it began, begins the next one there.
LEMMA RoundGoesOn ==
    ASSUME NEW l \in Nat, NEW i \in 0..l, NEW from \in 0..l, NEW k,
           k = (i + 1) % (l + 1)
    PROVE  /\ k = from => \A x \in 0..l : Between(from, i, x)
           /\ k # from => /\ \A x \in 0..l : Between(from, k, x) <=> (Between(from, i, x) \/ x = k)
                          /\ ~Between(from, i, k)
<1>1. k \in 0..l /\ (k = i + 1 \/ (i = l /\ k = 0))
  BY NextPlace
<1> QED
  BY <1>1 DEF Between

LEMMA RoundIsOne ==
    \A k, x \in Nat : Between(k, k, x) <=> x = k
BY DEF Between

LEMMA RobinSelects ==
    ASSUME BalancersAssumption, RobinInv, NEW net \in Robin!Nets,
           Robin!Select(net), UNCHANGED <<last, used>>, HistoryTypes'
    PROVE  RobinInv'
<1> DEFINE k == (idx[net] + 1) % (last[net] + 1)
           o == Robin!At(used, net, k)
<1>1. /\ idx' = [idx EXCEPT ![net] = k]
      /\ served' = [served EXCEPT ![net][o] = @ + 1]
  BY DEF Robin!Select, Robin!NextIdx, Robin!Length, Robin!Picked
<1>2. /\ last[net] \in Nat /\ idx[net] \in Nat /\ k \in 0..last[net]
      /\ last[net] < Cardinality(MembersOf(net))
      /\ served[net] \in [MembersOf(net) -> Nat]
      /\ used \in [1..N -> Measured]
  BY NextPlace DEF RobinInv, HistoryTypes
<1>3. /\ o \in MembersOf(net) /\ Place(used, net, o) = k
      /\ \A p \in MembersOf(net) : Place(used, net, p) = k => p = o
      /\ \A p \in MembersOf(net) : Place(used, net, p) \in Nat
  <2>1. k \in 0..(Cardinality(MembersOf(net)) - 1)
    BY <1>2, SomeMembers, BalancerNumbers, MembersFinite
  <2> HIDE DEF k
  <2> QED
    BY <1>2, <2>1, RobinPlaces
<1>4. \A p \in MembersOf(net) : Place(used, net, p) \in Nat /\ Place(used', net, p) = Place(used, net, p)
  BY <1>3
<1> HIDE DEF k, o
<1>5. /\ served'[net] \in [MembersOf(net) -> Nat]
      /\ \A p \in MembersOf(net) : served'[net][p] = served[net][p] + IF p = o THEN 1 ELSE 0
      /\ idx'[net] = k /\ last'[net] = last[net]
  BY <1>1, <1>2, <1>3 DEF RobinInv
<1>6. \A p \in MembersOf(net) :
          served'[net][p] = served[net][p] + IF Place(used, net, p) = k THEN 1 ELSE 0
  BY <1>3, <1>5
<1>7. FairlyServed(net)'
  <2>1. \A p \in MembersOf(net) : Place(used, net, p) > last[net] => served'[net][p] = 0
    <3>1. ASSUME NEW p \in MembersOf(net), Place(used, net, p) > last[net]
          PROVE  served'[net][p] = 0
      <4>1. served[net][p] = 0 /\ Place(used, net, p) # k
        BY <1>2, <1>3, <3>1 DEF RobinInv, FairlyServed
      <4> QED
        BY <1>6, <4>1
    <3> QED
      BY <3>1
  <2>2. \E rounds \in Nat, from \in 0..last[net] :
            \A p \in MembersOf(net) : Place(used, net, p) <= last[net] =>
                served'[net][p] = rounds + IF Between(from, k, Place(used, net, p)) THEN 1 ELSE 0
    <3>1. CASE \A p \in MembersOf(net) : served[net][p] = 0
      <4>1. \A p \in MembersOf(net) :
                served'[net][p] = 0 + IF Between(k, k, Place(used, net, p)) THEN 1 ELSE 0
        BY <1>2, <1>3, <1>6, <3>1, RoundIsOne
      <4> QED
        BY <1>2, <4>1
    <3>2. CASE ~\A p \in MembersOf(net) : served[net][p] = 0
      <4>1. PICK rounds \in Nat, from \in 0..last[net] :
                \A p \in MembersOf(net) : Place(used, net, p) <= last[net] =>
                    served[net][p] = rounds + IF Between(from, idx[net], Place(used, net, p)) THEN 1 ELSE 0
        BY <3>2 DEF RobinInv, FairlyServed
      <4>2. idx[net] \in 0..last[net] /\ k = (idx[net] + 1) % (last[net] + 1)
        BY <1>2, <3>2 DEF RobinInv, FairlyServed, k
      <4>3. CASE k = from
        <5>1. \A x \in 0..last[net] : Between(from, idx[net], x)
          BY <1>2, <4>2, <4>3, RoundGoesOn
        <5>2. ASSUME NEW p \in MembersOf(net), Place(used, net, p) <= last[net]
              PROVE  served'[net][p]
                         = (rounds + 1) + IF Between(from, k, Place(used, net, p)) THEN 1 ELSE 0
          <6>1. served[net][p] = rounds + 1
            BY <1>2, <1>3, <4>1, <5>1, <5>2
          <6> QED
            BY <1>2, <1>3, <1>6, <4>3, <6>1, RoundIsOne
        <5>3. rounds + 1 \in Nat
          OBVIOUS
        <5> QED
          BY <5>2, <5>3
      <4>4. CASE k # from
        <5>1. /\ \A x \in 0..last[net] : Between(from, k, x) <=> (Between(from, idx[net], x) \/ x = k)
              /\ ~Between(from, idx[net], k)
          BY <1>2, <4>2, <4>4, RoundGoesOn
        <5>2. ASSUME NEW p \in MembersOf(net), Place(used, net, p) <= last[net]
              PROVE  served'[net][p]
                         = rounds + IF Between(from, k, Place(used, net, p)) THEN 1 ELSE 0
          <6>1. Place(used, net, p) \in 0..last[net]
            BY <1>2, <1>3, <5>2
          <6>2. served[net][p] = rounds + IF Between(from, idx[net], Place(used, net, p)) THEN 1 ELSE 0
            BY <4>1, <5>2
          <6> QED
            BY <1>6, <5>1, <6>1, <6>2
        <5> QED
          BY <5>2
      <4> QED
        BY <4>3, <4>4
    <3> QED
      BY <3>1, <3>2
  <2>3. used' = used /\ last' = last /\ idx'[net] = k /\ k <= last[net]
    BY <1>2, <1>5
  <2>4. \E rounds \in Nat, from \in 0..last'[net] :
            \A p \in MembersOf(net) : Place(used', net, p) <= last'[net] =>
                served'[net][p] = rounds + IF Between(from, idx'[net], Place(used', net, p)) THEN 1 ELSE 0
    BY <2>2, <2>3
  <2>5. /\ \A p \in MembersOf(net) : Place(used', net, p) > last'[net] => served'[net][p] = 0
        /\ idx'[net] <= last'[net]
    BY <2>1, <2>3
  <2> QED
    BY <2>4, <2>5 DEF FairlyServed
<1>8. ASSUME NEW other \in Robin!Nets, other # net
      PROVE  /\ served'[other] = served[other] /\ idx'[other] = idx[other]
             /\ FairlyServed(other)'
  <2>1. served'[other] = served[other] /\ idx'[other] = idx[other] /\ last'[other] = last[other]
    BY <1>1, <1>8 DEF RobinInv
  <2>2. \A p : Place(used', other, p) = Place(used, other, p)
    OBVIOUS
  <2> QED
    BY <1>8, <2>1, <2>2 DEF RobinInv, FairlyServed
<1>9. idx' \in [Robin!Nets -> Nat] /\ DOMAIN served' = Robin!Nets
  BY <1>1, <1>2 DEF RobinInv
<1> QED
  BY <1>5, <1>7, <1>8, <1>9 DEF RobinInv

\* The worker and the connections do nothing else to what round-robin keeps.
LEMMA RobinNext ==
    ASSUME BalancersAssumption, RobinInv, [Robin!Next]_(Robin!vars)
    PROVE  RobinInv'
<1>1. ASSUME NEW o, Robin!Result(o)
      PROVE  RobinInv'
  <2>1. PICK d \in MeasuredDelays \cup {0, Timed} :
           history' = [history EXCEPT ![o] = [delay |-> d, cached |-> FALSE]]
    BY <1>1, OneReading DEF Robin!Result
  <2>2. history' \in [1..N -> Measured]
    BY <2>1, ResultKnown DEF RobinInv, HistoryTypes
  <2>3. UNCHANGED <<seen, used, last, idx, served>>
    BY <1>1 DEF Robin!Result
  <2> QED
    BY <2>2, <2>3 DEF RobinInv, HistoryTypes, FairlyServed
<1>2. CASE Robin!Receive
  <2>1. seen' = history /\ UNCHANGED <<history, used, last, idx, served>>
    BY <1>2 DEF Robin!Receive
  <2> QED
    BY <2>1 DEF RobinInv, HistoryTypes, FairlyServed
<1>3. CASE Robin!Update
  <2>1. /\ last' = [net \in Robin!Nets |-> Robin!LastAcceptable(seen, net)]
        /\ used' = seen /\ UNCHANGED <<history, seen, idx>>
        /\ served' = [net \in Robin!Nets |-> [o \in Robin!Members(net) |-> 0]]
    BY <1>3 DEF Robin!Update, Robin!LastNow, Robin!NoService
  <2>2. seen \in [1..N -> Measured]
    BY DEF RobinInv, HistoryTypes
  <2>3. ASSUME NEW net \in Robin!Nets
        PROVE  /\ last'[net] \in Nat /\ last'[net] < Cardinality(MembersOf(net))
               /\ last'[net] = Robin!LastAcceptable(used', net)
    <3>1. last'[net] = Robin!LastAcceptable(seen, net)
      BY <2>1
    <3>2. Robin!LastAcceptable(seen, net) \in 0..(Cardinality(MembersOf(net)) - 1)
      BY <2>2, AcceptableRange
    <3>3. Cardinality(MembersOf(net)) \in Nat
      BY SomeMembers, BalancerNumbers, MembersFinite
    <3> QED
      BY <2>1, <3>1, <3>2, <3>3
  <2>4. ASSUME NEW net \in Robin!Nets
        PROVE  served'[net] = [o \in MembersOf(net) |-> 0] /\ FairlyServed(net)'
    <3>1. served'[net] = [o \in MembersOf(net) |-> 0]
      BY <2>1, OneReading
    <3> QED
      BY <3>1 DEF FairlyServed
  <2>5. last' \in [Robin!Nets -> Nat]
    <3> DEFINE now(net) == Robin!LastAcceptable(seen, net)
    <3>1. \A net \in Robin!Nets : now(net) \in Nat
      BY <2>1, <2>3
    <3> HIDE DEF now
    <3>2. last' = [net \in Robin!Nets |-> now(net)]
      BY <2>1 DEF now
    <3> QED
      BY <3>1, <3>2
  <2> QED
    BY <2>1, <2>3, <2>4, <2>5 DEF RobinInv, HistoryTypes
<1>4. CASE Robin!Interrupt
  <2>1. UNCHANGED <<history, seen, used, last, idx, served>>
    BY <1>4 DEF Robin!Interrupt
  <2> QED
    BY <2>1 DEF RobinInv, HistoryTypes, FairlyServed
<1>5. ASSUME NEW c \in SoleConn, Robin!Dial(c)
      PROVE  RobinInv'
  <2>1. /\ Robin!Select(Robin!NetOf(c)) /\ UNCHANGED <<history, seen, used, last>>
        /\ Robin!NetOf(c) \in Robin!Nets
    BY <1>5 DEF Robin!Dial, Robin!NetOf, Robin!Nets
  <2>2. HistoryTypes'
    BY <2>1 DEF RobinInv, HistoryTypes
  <2> QED
    BY <2>1, <2>2, RobinSelects
<1>6. ASSUME NEW net \in Robin!Nets, Robin!DirectRoute(net)
      PROVE  RobinInv'
  <2>1. Robin!Select(net) /\ UNCHANGED <<history, seen, used, last>>
    BY <1>6 DEF Robin!DirectRoute
  <2>2. HistoryTypes'
    BY <2>1 DEF RobinInv, HistoryTypes
  <2> QED
    BY <2>1, <2>2, RobinSelects
<1>7. ASSUME NEW c, Robin!NewConn(c) \/ Robin!DialFails(c) \/ Robin!CloseConn(c)
                    \/ UNCHANGED Robin!vars
      PROVE  RobinInv'
  <2>1. UNCHANGED <<history, seen, used, last, idx, served>>
    BY <1>7 DEF Robin!NewConn, Robin!DialFails, Robin!CloseConn, Robin!Settle,
         Robin!vars
  <2> QED
    BY <2>1 DEF RobinInv, HistoryTypes, FairlyServed
<1> QED
  BY <1>1, <1>2, <1>3, <1>4, <1>5, <1>6, <1>7 DEF Robin!Next, Robin!WorkerStep

\* What fits is not cut down: below the modulus nothing is lost.
LEMMA NothingLost ==
    ASSUME NEW m \in Nat \ {0}, NEW a \in Nat, a < m
    PROVE  a % m = a
OBVIOUS

\* The acceptable delay, when the least delay is measured and delays fit.
LEMMA LimitFits ==
    ASSUME BalancersAssumption, NEW best \in Nat, best * Ratio < Timed, Floor * Ratio < Timed
    PROVE  /\ Limit(best) = (IF best < Floor THEN Floor ELSE best) * Ratio
           /\ Limit(best) \in Nat /\ Limit(best) < Timed /\ best <= Limit(best)
<1> DEFINE a == (IF best < Floor THEN Floor ELSE best) * Ratio
<1>1. /\ Modulus \in Nat \ {0} /\ Floor \in Nat /\ Ratio \in Nat \ {0} /\ Timed = Modulus - 1
      /\ best * Ratio \in Nat /\ Floor * Ratio \in Nat
  BY BalancerNumbers DEF Timed
<1>2. a \in Nat /\ a < Timed
  BY <1>1
<1>3. best <= a
  <2>1. best * Ratio >= best /\ Floor * Ratio >= Floor
    <3>1. \A x, r \in Nat : r # 0 => x * r >= x
      OBVIOUS
    <3> QED
      BY <1>1, <3>1
  <2> QED
    BY <1>1, <2>1
<1>4. Limit(best) = a % Modulus
  BY DEF Limit, Lowest!Acceptable
<1> HIDE DEF a
<1>5. Limit(best) = a
  BY <1>1, <1>2, <1>4, NothingLost
<1> QED
  BY <1>2, <1>3, <1>5 DEF a

\* getMinDelay finds a delay that a member has and none goes below.
LeastDelay(his, net) ==
    CHOOSE x \in {Delay(his[o]) : o \in MembersOf(net)} :
        \A y \in {Delay(his[o]) : o \in MembersOf(net)} : x <= y

LEMMA LeastFound ==
    ASSUME BalancersAssumption, NEW his, NEW net,
           \A o \in MembersOf(net) : his[o] \in Measured \cup Hashed
    PROVE  /\ LeastDelay(his, net) \in 0..Timed
           /\ \E o \in MembersOf(net) : Delay(his[o]) = LeastDelay(his, net)
           /\ \A o \in MembersOf(net) : LeastDelay(his, net) <= Delay(his[o])
           /\ Robin!MinDelay(his, net) = LeastDelay(his, net)
           /\ Consistent!MinDelay(his, net) = LeastDelay(his, net)
<1> DEFINE T == {Delay(his[o]) : o \in MembersOf(net)}
<1>1. T \subseteq 0..Timed /\ T # {}
  BY SomeMembers, DelayRange
<1>2. T \subseteq Nat
  BY <1>1
<1>3. \E x \in T : \A y \in T : x <= y
  <2> HIDE DEF T
  <2> QED
    BY <1>1, <1>2, LeastOfNaturals
<1>4. LeastDelay(his, net) \in T /\ \A y \in T : LeastDelay(his, net) <= y
  <2>1. LeastDelay(his, net) = CHOOSE x \in T : \A y \in T : x <= y
    BY DEF LeastDelay
  <2> HIDE DEF T
  <2> QED
    BY <1>3, <2>1
<1>5. /\ T = {Robin!DelayOf(his[o]) : o \in Robin!Members(net)}
      /\ T = {Consistent!DelayOf(his[o]) : o \in Consistent!Members(net)}
  BY OneReading
<1>6. /\ Robin!MinDelay(his, net) = LeastDelay(his, net)
      /\ Consistent!MinDelay(his, net) = LeastDelay(his, net)
  <2>1. LeastDelay(his, net) = CHOOSE x \in T : \A y \in T : x <= y
    BY DEF LeastDelay
  <2> HIDE DEF T
  <2> QED
    BY <1>5, <2>1
    DEF Robin!MinDelay, Consistent!MinDelay, Robin!Min, Consistent!Min
<1> QED
  BY <1>1, <1>4, <1>6

\* Between two updates a member with an acceptable delay has one of the places
\* that round-robin goes round, and no other has.
LEMMA RobinPromised ==
    ASSUME BalancersAssumption, RobinInv
    PROVE  Robin!FairShare
<1> DEFINE fine(net) == {o \in Robin!Measured(used, net) :
                Robin!DelayOf(used[o]) <=
                    (IF Robin!MinDelay(used, net) < Floor THEN Floor
                     ELSE Robin!MinDelay(used, net)) * Ratio}
<1> SUFFICES ASSUME Robin!DelaysFit, NEW net \in Robin!Nets, fine(net) # {}
             PROVE  /\ \A o, p \in fine(net) : served[net][o] <= served[net][p] + 1
                    /\ \A o \in MembersOf(net) \ fine(net) : served[net][o] = 0
  BY OneReading DEF Robin!FairShare
<1> DEFINE best == LeastDelay(used, net)
           fits == {o \in MembersOf(net) : Delay(used[o]) <= Limit(best)}
           d == DelaysOf(used, net)
<1>1. /\ used \in [1..N -> Measured] /\ FairlyServed(net)
      /\ served[net] \in [MembersOf(net) -> Nat] /\ last[net] \in Nat
      /\ used # NothingMeasured => last[net] = Robin!LastAcceptable(used, net)
  BY DEF RobinInv, HistoryTypes
<1>2. /\ MembersOf(net) \subseteq 1..N
      /\ \A o \in MembersOf(net) : used[o] \in Measured /\ Delay(used[o]) \in 0..Timed
  BY <1>1, SomeMembers, DelayRange
<1>3. /\ best \in 0..Timed /\ \A o \in MembersOf(net) : best <= Delay(used[o])
      /\ Robin!MinDelay(used, net) = best
  BY <1>2, LeastFound
<1>4. PICK o \in MembersOf(net) : Delay(used[o]) = best
  BY <1>2, LeastFound
<1>5. Robin!Measured(used, net) = {p \in MembersOf(net) : Delay(used[p]) < Timed}
  BY OneReading DEF Robin!Measured
<1>6. best < Timed
  <2>1. PICK p \in fine(net) : TRUE
    OBVIOUS
  <2>2. p \in MembersOf(net) /\ Delay(used[p]) < Timed
    BY <1>5, <2>1
  <2> QED
    BY <1>2, <1>3, <2>2, BalancerNumbers DEF Timed
<1>7. best * Ratio < Timed /\ Floor * Ratio < Timed
  BY <1>2, <1>4, <1>6, OneReading, HistoriesKnown DEF Robin!DelaysFit
<1>8. /\ Limit(best) = (IF best < Floor THEN Floor ELSE best) * Ratio
      /\ Limit(best) \in Nat /\ Limit(best) < Timed /\ best <= Limit(best)
  <2>1. best \in Nat
    BY <1>3
  <2> HIDE DEF best
  <2> QED
    BY <1>7, <2>1, LimitFits
<1>9. fits = fine(net)
  BY <1>2, <1>3, <1>5, <1>8, OneReading, BalancerNumbers DEF Timed
<1>10. o \in fits
  BY <1>4, <1>8
<1>11. last[net] = Cardinality(fits) - 1
  <2>1. used # NothingMeasured
    <3>1. SUFFICES ASSUME used = NothingMeasured PROVE FALSE
      OBVIOUS
    <3>2. used[o] = [delay |-> 0, cached |-> FALSE]
      BY <1>2, <1>4, <3>1 DEF NothingMeasured, Lowest!Unmeasured
    <3>3. Delay(used[o]) = Timed
      BY <3>2 DEF Delay, Lowest!DelayOf, Lowest!Timeout, Timed
    <3> QED
      BY <1>4, <1>6, <3>3, BalancerNumbers DEF Timed
  <2>2. fits = {p \in Robin!Members(net) :
                  Robin!DelayOf(used[p]) <= Robin!Acceptable(Robin!MinDelay(used, net))}
    BY <1>3, OneReading
  <2>3. Robin!LastAcceptable(used, net) = Cardinality(fits) - 1
    BY <1>10, <2>2, OneCardinality DEF Robin!LastAcceptable
  <2> QED
    BY <1>1, <2>1, <2>3
<1>12. \A p \in MembersOf(net) : p \in fits <=> Place(used, net, p) <= last[net]
  <2>1. d \in [MembersOf(net) -> Nat] /\ \A p \in MembersOf(net) : d[p] = Delay(used[p])
    BY <1>2, PlaceIsBelow DEF DelaysOf
  <2>2. fits \subseteq MembersOf(net)
    OBVIOUS
  <2>3. ASSUME NEW p \in fits, NEW q \in MembersOf(net), Precedes(d, q, p)
        PROVE  q \in fits
    <3>1. /\ Delay(used[q]) \in Nat /\ Delay(used[p]) \in Nat /\ Limit(best) \in Nat
          /\ Delay(used[p]) <= Limit(best)
      BY <1>2, <1>8, BalancerNumbers DEF Timed
    <3>2. Delay(used[q]) <= Delay(used[p])
      BY <2>1, <2>2, <2>3, <3>1 DEF Precedes
    <3> QED
      BY <3>1, <3>2
  <2>4. Cardinality(fits) \in Nat
    BY <2>2, SomeMembers, BalancerNumbers, MembersFinite, FS_Subset, FS_CardinalityType
  <2> HIDE DEF d, fits
  <2>5. \A p \in MembersOf(net) : p \in fits <=> Cardinality(Below(MembersOf(net), d, p)) < Cardinality(fits)
    BY <2>1, <2>2, <2>3, SomeMembers, BalancerNumbers, FirstPlaces
  <2>6. \A p \in MembersOf(net) : Place(used, net, p) = Cardinality(Below(MembersOf(net), d, p))
    BY <1>1, PlaceIsBelow DEF d
  <2>7. \A p \in MembersOf(net) : Place(used, net, p) \in Nat
    BY <1>1, RobinPlaces
  <2> QED
    BY <1>1, <1>11, <2>4, <2>5, <2>6, <2>7
<1>13. ASSUME NEW p \in fits, NEW q \in fits
       PROVE  served[net][p] <= served[net][q] + 1
  <2>1. /\ p \in MembersOf(net) /\ q \in MembersOf(net)
        /\ Place(used, net, p) <= last[net] /\ Place(used, net, q) <= last[net]
    BY <1>12, <1>13
  <2> QED
    BY <1>1, <2>1 DEF FairlyServed
<1>14. ASSUME NEW p \in MembersOf(net), p \notin fits
       PROVE  served[net][p] = 0
  <2>1. Place(used, net, p) > last[net]
    BY <1>1, <1>12, <1>14, RobinPlaces
  <2> QED
    BY <1>1, <1>14, <2>1 DEF FairlyServed
<1> QED
  BY <1>9, <1>13, <1>14


-----------------------------------------------------------------------------
(***************************************************************************)
(* Consistent hashing: the place of the key among those of the network.    *)
(***************************************************************************)
HashedTypes == {history, seen, used} \subseteq [1..N -> Hashed]

SlotsOf(net) == 0..(Cardinality(MembersOf(net)) - 1)
Slot(net, i) ==
    CHOOSE o \in MembersOf(net) : Cardinality({p \in MembersOf(net) : p < o}) = i

\* outbounds[net] lists the members, each once, under either strategy.
LEMMA SlotsListMembers ==
    ASSUME BalancersAssumption, NEW net
    PROVE  /\ Consistent!Places(net) = SlotsOf(net) /\ Sticky!Places(net) = SlotsOf(net)
           /\ \A i : Consistent!Member(net, i) = Slot(net, i) /\ Sticky!Member(net, i) = Slot(net, i)
           /\ \A i \in SlotsOf(net) : Slot(net, i) \in MembersOf(net)
           /\ \A o \in MembersOf(net) : \E i \in SlotsOf(net) : Slot(net, i) = o
           /\ N \notin SlotsOf(net)
<1> DEFINE d == [o \in MembersOf(net) |-> 0]
           number(o) == Cardinality({p \in MembersOf(net) : p < o})
<1>1. d \in [MembersOf(net) -> Nat]
  OBVIOUS
<1>2. \A o \in MembersOf(net) : Below(MembersOf(net), d, o) = {p \in MembersOf(net) : p < o}
  BY SomeMembers DEF Below, Precedes
<1> HIDE DEF d
<1>3. \A o \in MembersOf(net) : number(o) \in SlotsOf(net)
  BY <1>1, <1>2, SomeMembers, BalancerNumbers, PlacesDiffer DEF SlotsOf
<1>4. \A o, p \in MembersOf(net) : number(o) = number(p) => o = p
  <2>1. \A o, p \in MembersOf(net) :
            Cardinality(Below(MembersOf(net), d, o)) = Cardinality(Below(MembersOf(net), d, p)) => o = p
    BY <1>1, SomeMembers, BalancerNumbers, PlacesDiffer
  <2> QED
    BY <1>2, <2>1
<1>5. \A i \in SlotsOf(net) : \E o \in MembersOf(net) : number(o) = i
  <2>1. \A i \in SlotsOf(net) : \E o \in MembersOf(net) : Cardinality(Below(MembersOf(net), d, o)) = i
    BY <1>1, SomeMembers, BalancerNumbers, PlacesTaken DEF SlotsOf
  <2> QED
    BY <1>2, <2>1
<1>6. \A i \in SlotsOf(net) : Slot(net, i) \in MembersOf(net) /\ number(Slot(net, i)) = i
  BY <1>5 DEF Slot
<1>7. \A o \in MembersOf(net) : \E i \in SlotsOf(net) : Slot(net, i) = o
  <2> SUFFICES ASSUME NEW o \in MembersOf(net)
               PROVE  Slot(net, number(o)) = o
    BY <1>3
  <2> QED
    BY <1>3, <1>4, <1>6
<1>8. N \notin SlotsOf(net)
  BY SomeMembers, BalancerNumbers, MembersFinite DEF SlotsOf
<1>9. /\ Consistent!Places(net) = SlotsOf(net)
      /\ Sticky!Places(net) = SlotsOf(net)
  BY OneReading, OneCardinality
  DEF SlotsOf, Consistent!Places, Consistent!Size, Sticky!Places, Sticky!Size
<1>10. \A i : Consistent!Member(net, i) = Slot(net, i)
  BY OneReading, OneCardinality DEF Slot, Consistent!Member
<1>11. \A i : Sticky!Member(net, i) = Slot(net, i)
  BY OneReading, OneCardinality DEF Slot, Sticky!Member
<1> QED
  BY <1>6, <1>7, <1>8, <1>9, <1>10, <1>11

\* ConsistentHashing.Select, of the places that are alive and the hashes.
PlaceFor(alive, at) ==
    LET tries == {i \in 0..(HashRetry - 1) : at[i] \in alive}
    IN  IF HashRetry > 0 /\ tries # {}
        THEN at[CHOOSE i \in tries : \A j \in tries : i <= j]
        ELSE IF alive # {}
        THEN CHOOSE i \in alive : \A j \in alive : i <= j
        ELSE at[HashRetry]

\* The least of a set stays the least of what is left of the set with it.
LEMMA LeastStays ==
    ASSUME NEW S, S \subseteq Nat, S # {}
    PROVE  /\ (CHOOSE i \in S : \A j \in S : i <= j) \in S
           /\ \A T \in SUBSET S : (CHOOSE i \in S : \A j \in S : i <= j) \in T =>
                  (CHOOSE i \in T : \A j \in T : i <= j) = (CHOOSE i \in S : \A j \in S : i <= j)
<1> DEFINE m == CHOOSE i \in S : \A j \in S : i <= j
<1>1. \E i \in S : \A j \in S : i <= j
  BY LeastOfNaturals
<1>2. m \in S /\ \A j \in S : m <= j
  BY <1>1
<1> HIDE DEF m
<1>3. ASSUME NEW T \in SUBSET S, m \in T
      PROVE  (CHOOSE i \in T : \A j \in T : i <= j) = m
  <2> DEFINE l == CHOOSE i \in T : \A j \in T : i <= j
  <2>1. l \in T /\ \A j \in T : l <= j
    BY <1>2, <1>3
  <2> HIDE DEF l
  <2>2. l <= m /\ m <= l /\ l \in Nat /\ m \in Nat
    BY <1>2, <1>3, <2>1
  <2>3. l = m
    BY <2>2
  <2> QED
    BY <2>3 DEF l
<1> QED
  BY <1>2, <1>3 DEF m

\* Select finds a place that is alive when there is one, and the same one as
\* long as that one stays alive and none comes back.
LEMMA PlaceFound ==
    ASSUME HashRetry \in Nat, NEW alive, alive \subseteq Nat, alive # {}, NEW at
    PROVE  /\ PlaceFor(alive, at) \in alive
           /\ \A left \in SUBSET alive : PlaceFor(alive, at) \in left =>
                  PlaceFor(left, at) = PlaceFor(alive, at)
<1> DEFINE tries(s) == {i \in 0..(HashRetry - 1) : at[i] \in s}
           least(s) == CHOOSE i \in s : \A j \in s : i <= j
<1>1. \A s : PlaceFor(s, at) = IF HashRetry > 0 /\ tries(s) # {} THEN at[least(tries(s))]
                               ELSE IF s # {} THEN least(s) ELSE at[HashRetry]
  BY DEF PlaceFor
<1>2. \A s : tries(s) \subseteq Nat /\ \A i \in tries(s) : at[i] \in s
  OBVIOUS
<1>3. \A s : tries(s) # {} => HashRetry > 0
  OBVIOUS
<1>4. \A s, t : s \subseteq t => tries(s) \subseteq tries(t)
  OBVIOUS
<1>5. ASSUME NEW i \in tries(alive), NEW left, at[i] \in left
      PROVE  i \in tries(left)
  BY <1>5
<1>6. \A s : s \subseteq Nat /\ s # {} =>
          least(s) \in s /\ \A t \in SUBSET s : least(s) \in t => least(t) = least(s)
  BY LeastStays
<1> HIDE DEF tries, least
<1>7. CASE tries(alive) # {}
  <2>1. PlaceFor(alive, at) = at[least(tries(alive))]
    BY <1>1, <1>3, <1>7
  <2>2. least(tries(alive)) \in tries(alive)
    BY <1>2, <1>6, <1>7
  <2>3. ASSUME NEW left \in SUBSET alive, PlaceFor(alive, at) \in left
        PROVE  PlaceFor(left, at) = PlaceFor(alive, at)
    <3>1. least(tries(alive)) \in tries(left) /\ tries(left) \subseteq tries(alive)
      BY <1>4, <1>5, <2>1, <2>2, <2>3
    <3>2. least(tries(left)) = least(tries(alive))
      BY <1>2, <1>6, <1>7, <3>1
    <3> QED
      BY <1>1, <1>3, <2>1, <3>1, <3>2
  <2> QED
    BY <1>2, <2>1, <2>2, <2>3
<1>8. CASE tries(alive) = {}
  <2>1. PlaceFor(alive, at) = least(alive)
    BY <1>1, <1>8
  <2>2. ASSUME NEW left \in SUBSET alive, PlaceFor(alive, at) \in left
        PROVE  PlaceFor(left, at) = PlaceFor(alive, at)
    <3>1. tries(left) = {} /\ left # {}
      BY <1>4, <1>8, <2>2
    <3>2. least(left) = least(alive)
      BY <1>6, <2>1, <2>2
    <3> QED
      BY <1>1, <2>1, <3>1, <3>2
  <2> QED
    BY <1>6, <2>1, <2>2
<1> QED
  BY <1>7, <1>8

LEMMA HashPlaceIs ==
    ASSUME BalancersAssumption, NEW net
    PROVE  /\ Consistent!HashPlace(net)
                  = PlaceFor(Consistent!AlivePlaces(net), hash[Cardinality(MembersOf(net))])
           /\ Consistent!AlivePlaces(net)
                  = {i \in SlotsOf(net) : Slot(net, i) \in Consistent!AliveMembers(net)}
           /\ HashRetry \in Nat
<1>1. Consistent!Size(net) = Cardinality(MembersOf(net))
  BY OneReading, OneCardinality DEF Consistent!Size
<1>2. HashRetry \in Nat
  BY DEF BalancersAssumption, Consistent!HashingAssumption
<1>3. Consistent!AlivePlaces(net)
          = {i \in SlotsOf(net) : Slot(net, i) \in Consistent!AliveMembers(net)}
  BY SlotsListMembers DEF Consistent!AlivePlaces
<1>4. Consistent!HashPlace(net)
          = PlaceFor(Consistent!AlivePlaces(net), hash[Cardinality(MembersOf(net))])
  BY <1>1 DEF Consistent!HashPlace, Consistent!Traversed, PlaceFor
<1> QED
  BY <1>2, <1>3, <1>4

\* Where the acceptable delay fits and a member has answered, a member is alive
\* and the place of the key is one of an outbound that has not timed out.
LEMMA HashFindsAnswering ==
    ASSUME BalancersAssumption, used \in [1..N -> Hashed], ready, Consistent!DelaysFit,
           NEW net, NEW o \in MembersOf(net), used[o].delay # Timed
    PROVE  LET i == Consistent!HashPlace(net)
           IN  i \in SlotsOf(net) /\ used[Slot(net, i)].delay # Timed
<1> DEFINE best == LeastDelay(used, net)
           alive == Consistent!AlivePlaces(net)
           place == Consistent!HashPlace(net)
<1>1. /\ MembersOf(net) \subseteq 1..N
      /\ \A p \in MembersOf(net) : used[p] \in Hashed
  BY SomeMembers
<1>2. \A p \in MembersOf(net) :
          /\ Delay(used[p]) \in 0..Timed /\ used[p].delay \in 0..Timed
          /\ used[p].delay <= Delay(used[p])
          /\ Delay(used[p]) = Timed => used[p].delay \in {0, Timed}
  BY <1>1, DelayRange
<1>3. /\ best \in 0..Timed /\ \A p \in MembersOf(net) : best <= Delay(used[p])
      /\ \E p \in MembersOf(net) : Delay(used[p]) = best
      /\ Consistent!MinDelay(used, net) = best
  BY <1>1, LeastFound
<1>4. alive = {i \in SlotsOf(net) :
                  Slot(net, i) \in {p \in MembersOf(net) : used[p].delay <= Limit(best)}}
  BY <1>3, OneReading, HashPlaceIs DEF Consistent!AliveMembers
<1>5. /\ Limit(best) \in Nat /\ Limit(best) < Timed
      /\ \E p \in MembersOf(net) : used[p].delay <= Limit(best)
  <2>1. CASE best < Timed
    <3>1. PICK p \in MembersOf(net) : Delay(used[p]) = best
      BY <1>3
    <3>2. best * Ratio < Timed /\ Floor * Ratio < Timed
      BY <1>1, <2>1, <3>1, OneReading, HistoriesKnown DEF Consistent!DelaysFit
    <3>3. best \in Nat
      BY <1>3
    <3> HIDE DEF best
    <3>4. Limit(best) \in Nat /\ Limit(best) < Timed /\ best <= Limit(best)
      BY <3>2, <3>3, LimitFits
    <3> QED
      BY <1>2, <3>1, <3>3, <3>4
  <2>2. CASE best = Timed
    <3>1. Limit(Timed) \in Nat
      BY BalancerNumbers DEF Limit, Lowest!Acceptable, Timed
    <3>2. Limit(Timed) < Timed
      BY OneReading DEF Consistent!DelaysFit
    <3>3. Delay(used[o]) = Timed
      BY <1>2, <1>3, <2>2, BalancerNumbers DEF Timed
    <3>4. used[o].delay = 0
      BY <1>2, <3>3
    <3> QED
      BY <2>2, <3>1, <3>2, <3>4
  <2> QED
    BY <1>3, <2>1, <2>2, BalancerNumbers DEF Timed
<1> HIDE DEF best
<1>6. alive \subseteq Nat /\ alive # {}
  BY <1>4, <1>5, SlotsListMembers DEF SlotsOf
<1>7. place \in alive
  <2> HIDE DEF alive, place
  <2> QED
    BY <1>6, HashPlaceIs, PlaceFound DEF alive, place
<1> QED
  BY <1>2, <1>4, <1>5, <1>7

ConsistentInv ==
    /\ HashedTypes
    /\ DOMAIN via = SoleConn
    /\ Consistent!FindsAvailable

LEMMA ConsistentInit ==
    ASSUME BalancersAssumption, Consistent!Init
    PROVE  ConsistentInv
<1>1. Consistent!Unmeasured \in Hashed
  BY DEF Consistent!Unmeasured, Hashed
<1>2. history \in [1..N -> Hashed]
  BY <1>1, HistoriesKnown DEF Consistent!Init, Consistent!Outbounds
<1> QED
  BY <1>1, <1>2
  DEF Consistent!Init, Consistent!Outbounds, ConsistentInv, HashedTypes,
      Consistent!FindsAvailable

\* What a test brings is a history.
LEMMA HashedResultKnown ==
    ASSUME BalancersAssumption, history \in [1..N -> Hashed], NEW o,
           NEW d \in HashedDelays \cup {0, Timed}
    PROVE  [history EXCEPT ![o] = [delay |-> d, cached |-> FALSE]] \in [1..N -> Hashed]
BY DEF Hashed

LEMMA ConsistentNext ==
    ASSUME BalancersAssumption, ConsistentInv, [Consistent!Next]_(Consistent!vars)
    PROVE  ConsistentInv'
<1>1. ASSUME HashedTypes', UNCHANGED <<used, ready, since, via>>
      PROVE  ConsistentInv'
  BY <1>1 DEF ConsistentInv, Consistent!FindsAvailable
<1>2. ASSUME NEW o, Consistent!Result(o)
      PROVE  ConsistentInv'
  <2>1. PICK d \in HashedDelays \cup {0, Timed} :
           history' = [history EXCEPT ![o] = [delay |-> d, cached |-> FALSE]]
    BY <1>2, OneReading DEF Consistent!Result, Consistent!Timeout, Timed
  <2>2. history' \in [1..N -> Hashed]
    BY <2>1, HashedResultKnown DEF ConsistentInv, HashedTypes
  <2> QED
    BY <1>1, <1>2, <2>2 DEF Consistent!Result, ConsistentInv, HashedTypes
<1>3. CASE Consistent!Receive
  BY <1>1, <1>3 DEF Consistent!Receive, ConsistentInv, HashedTypes
<1>4. CASE Consistent!Update
  BY <1>4 DEF Consistent!Update, ConsistentInv, HashedTypes, Consistent!FindsAvailable
<1>5. ASSUME NEW c \in SoleConn, Consistent!Dial(c)
      PROVE  ConsistentInv'
  <2> DEFINE net == Consistent!NetOf(c)
             i == Consistent!HashPlace(net)
  <2>1. /\ via' = [via EXCEPT ![c] = Slot(net, i)] /\ since' = since \cup {c}
        /\ UNCHANGED <<history, seen, used, ready>>
    BY <1>5, SlotsListMembers DEF Consistent!Dial, Consistent!Select
  <2>2. HashedTypes'
    BY <2>1 DEF ConsistentInv, HashedTypes
  <2>3. ASSUME Consistent!DelaysFit, ready, NEW e \in since',
               NEW o \in MembersOf(Consistent!NetOf(e)), used[o].delay # Timed
        PROVE  used[via'[e]].delay # Timed
    <3>1. CASE e = c
      <4>1. used[Slot(net, i)].delay # Timed
        BY <2>3, <3>1, HashFindsAnswering DEF ConsistentInv, HashedTypes
      <4> QED
        BY <2>1, <3>1, <4>1 DEF ConsistentInv
    <3>2. CASE e # c
      <4>1. via'[e] = via[e] /\ e \in since
        BY <2>1, <2>3, <3>2
      <4> QED
        BY <2>3, <4>1, OneReading DEF ConsistentInv, Consistent!FindsAvailable
    <3> QED
      BY <3>1, <3>2
  <2> QED
    BY <2>1, <2>2, <2>3, OneReading DEF ConsistentInv, Consistent!FindsAvailable
<1>6. CASE Consistent!Interrupt
  BY <1>1, <1>6 DEF Consistent!Interrupt, ConsistentInv, HashedTypes
<1>7. ASSUME NEW c, Consistent!NewConn(c) \/ Consistent!DialFails(c)
                    \/ Consistent!CloseConn(c) \/ UNCHANGED Consistent!vars
      PROVE  ConsistentInv'
  <2>1. UNCHANGED <<history, seen, used, ready, since, via>>
    BY <1>7 DEF Consistent!NewConn, Consistent!DialFails, Consistent!CloseConn,
       Consistent!Settle, Consistent!vars
  <2> QED
    BY <1>1, <2>1 DEF ConsistentInv, HashedTypes
<1> QED
  BY <1>2, <1>3, <1>4, <1>5, <1>6, <1>7 DEF Consistent!Next

\* The hashes are those of the key: only an update changes who is alive.
LEMMA ConsistentMoves ==
    ASSUME BalancersAssumption, [Consistent!Next]_(Consistent!vars)
    PROVE  Consistent!MovesKeyOnlyFromDead
<1>1. hash' = hash \/ used' = used
  BY DEF Consistent!Next, Consistent!vars, Consistent!Receive, Consistent!Update,
     Consistent!Interrupt, Consistent!Result, Consistent!Dial, Consistent!NewConn,
     Consistent!DialFails, Consistent!CloseConn, Consistent!Settle
<1> SUFFICES ASSUME hash' = hash, NEW net,
                    Consistent!AlivePlaces(net)' \subseteq Consistent!AlivePlaces(net),
                    Consistent!HashPlace(net) \in Consistent!AlivePlaces(net)'
             PROVE  Consistent!HashPlace(net)' = Consistent!HashPlace(net)
  BY <1>1 DEF Consistent!MovesKeyOnlyFromDead
<1> DEFINE alive == Consistent!AlivePlaces(net)
           at == hash[Cardinality(MembersOf(net))]
<1>2. Consistent!HashPlace(net) = PlaceFor(alive, at) /\ alive \subseteq Nat /\ HashRetry \in Nat
  BY HashPlaceIs DEF SlotsOf
<1>3. Consistent!HashPlace(net)' = PlaceFor(alive', at)
  <2>1. Consistent!Size(net) = Cardinality(MembersOf(net))
    BY OneReading, OneCardinality DEF Consistent!Size
  <2> QED
    BY <2>1 DEF Consistent!HashPlace, Consistent!Traversed, PlaceFor
<1>4. alive # {}
  OBVIOUS
<1>5. alive' \in SUBSET alive /\ PlaceFor(alive, at) \in alive'
  BY <1>2
<1> HIDE DEF alive, at
<1>6. PlaceFor(alive', at) = PlaceFor(alive, at)
  BY <1>2, <1>4, <1>5, PlaceFound
<1> QED
  BY <1>2, <1>3, <1>6

-----------------------------------------------------------------------------
(***************************************************************************)
(* Sticky sessions: while the key is used over one network, the place      *)
(* stored for it is the one that the connections to an outbound that is    *)
(* alive were given.                                                       *)
(***************************************************************************)
NetOfKey(c) == Sticky!NetOf(c)
Made == {c \in Conns : via[c] # 0}

StickyInv ==
    /\ DOMAIN via = Conns
    /\ since \subseteq Made
    /\ Made = {} => lru = N
    /\ Sticky!OneNet =>
           /\ \A c \in Made : lru \in SlotsOf(NetOfKey(c))
           /\ \A c \in since : via[c] \in Sticky!AliveMembers(NetOfKey(c)) =>
                                   via[c] = Slot(NetOfKey(c), lru)

LEMMA StickyInit ==
    ASSUME Sticky!Init
    PROVE  StickyInv
BY DEF Sticky!Init, StickyInv, Made

\* Keys used over one network have one network, whichever connection is asked.
LEMMA OneNetOfKey ==
    ASSUME Sticky!OneNet, NEW c \in Made, NEW d \in Made
    PROVE  NetOfKey(c) = NetOfKey(d)
BY DEF Sticky!OneNet, Made, NetOfKey, Sticky!NetOf

LEMMA StickyDial ==
    ASSUME BalancersAssumption, StickyInv, NEW c \in Conns, Sticky!Dial(c)
    PROVE  StickyInv'
<1> DEFINE net == NetOfKey(c)
<1>1. PICK i \in SlotsOf(net) :
          /\ Sticky!Select(net, i)
          /\ via' = [via EXCEPT ![c] = Slot(net, i)]
  <2>1. PICK j \in Sticky!Places(net) :
            Sticky!Select(net, j) /\ via' = [via EXCEPT ![c] = Sticky!Member(net, j)]
    BY DEF Sticky!Dial, NetOfKey
  <2>2. j \in SlotsOf(net) /\ Sticky!Member(net, j) = Slot(net, j)
    BY <2>1, SlotsListMembers
  <2> QED
    BY <2>1, <2>2
<1>2. since' = since \cup {c} /\ UNCHANGED <<used, ready>>
  BY DEF Sticky!Dial
<1>3. Slot(net, i) # 0
  BY SlotsListMembers, SomeMembers
<1>4. /\ DOMAIN via' = Conns /\ via'[c] = Slot(net, i)
      /\ \A d \in Conns \ {c} : via'[d] = via[d]
  BY <1>1 DEF StickyInv
<1>5. Made' = Made \cup {c}
  BY <1>3, <1>4 DEF Made
<1>6. PICK start \in Sticky!Starts(net) :
          IF StickyRetry > 1 /\ start \in Sticky!AlivePlaces(net)
          THEN i = start /\ lru' = Sticky!Stored(i)
          ELSE /\ i \in (IF StickyRetry > 1 THEN Sticky!Places(net) ELSE {start})
               /\ lru' = i
  BY <1>1 DEF Sticky!Select
<1>7. ASSUME Sticky!OneNet'
      PROVE  /\ Sticky!OneNet
             /\ \A d \in Made : NetOfKey(d) = net
  <2>1. UdpConns \cap Made' \in {{}, Made'}
    BY <1>7 DEF Sticky!OneNet, Made
  <2> QED
    BY <1>5, <2>1 DEF Sticky!OneNet, Made, NetOfKey, Sticky!NetOf
<1>8. ASSUME Sticky!OneNet'
      PROVE  /\ lru' \in SlotsOf(net) /\ via'[c] = Slot(net, lru')
             /\ \A d \in since \ {c} : /\ d \in Made /\ NetOfKey(d) = net
                                       /\ via[d] \in Sticky!AliveMembers(net) =>
                                              via[d] = Slot(net, lru')
  <2>1. CASE Made = {}
    <3>1. lru = N /\ since = {} /\ lru \notin SlotsOf(net)
      BY <2>1, SlotsListMembers DEF StickyInv
    <3>2. lru' = i
      BY <1>6, <3>1 DEF Sticky!Stored
    <3> QED
      BY <1>1, <1>4, <3>1, <3>2
  <2>2. CASE Made # {}
    <3>1. /\ lru \in SlotsOf(net)
          /\ \A d \in since : /\ d \in Made /\ NetOfKey(d) = net
                              /\ via[d] \in Sticky!AliveMembers(net) => via[d] = Slot(net, lru)
      BY <1>7, <1>8, <2>2 DEF StickyInv
    <3>2. start = lru
      BY <1>6, <3>1, SlotsListMembers DEF Sticky!Starts
    <3>3. CASE lru' = lru /\ i = lru
      BY <1>1, <1>4, <3>1, <3>3
    <3>4. CASE lru' = i /\ lru \notin Sticky!AlivePlaces(net)
      <4>1. Slot(net, lru) \notin Sticky!AliveMembers(net)
        BY <3>1, <3>4, SlotsListMembers DEF Sticky!AlivePlaces
      <4> QED
        BY <1>1, <1>4, <3>1, <3>4, <4>1
    <3> QED
      BY <1>6, <3>2, <3>3, <3>4 DEF Sticky!Stored
  <2> QED
    BY <2>1, <2>2
<1>9. \A n : Sticky!AliveMembers(n)' = Sticky!AliveMembers(n)
  BY <1>2 DEF Sticky!AliveMembers
<1>10. /\ since' \subseteq Made' /\ Made' # {}
  BY <1>2, <1>5 DEF StickyInv
<1>11. ASSUME Sticky!OneNet'
       PROVE  /\ \A d \in Made' : lru' \in SlotsOf(NetOfKey(d))
              /\ \A d \in since' : via'[d] \in Sticky!AliveMembers(NetOfKey(d)) =>
                                       via'[d] = Slot(NetOfKey(d), lru')
  <2>1. \A d \in Made' : NetOfKey(d) = net
    BY <1>5, <1>7, <1>11
  <2>2. \A d \in since' : d \in Made' /\ (d = c \/ (d \in since \ {c} /\ via'[d] = via[d]))
    BY <1>2, <1>4, <1>10 DEF StickyInv, Made
  <2> QED
    BY <1>8, <1>11, <2>1, <2>2
<1> QED
  BY <1>4, <1>9, <1>10, <1>11 DEF StickyInv, NetOfKey, Sticky!NetOf

LEMMA StickyNext ==
    ASSUME BalancersAssumption, StickyInv, [Sticky!Next]_(Sticky!vars)
    PROVE  StickyInv'
<1>1. CASE Sticky!Update
  <2>1. since' = {} /\ UNCHANGED <<via, lru>>
    BY <1>1 DEF Sticky!Update
  <2> QED
    BY <2>1 DEF StickyInv, Made, Sticky!OneNet
<1>2. ASSUME NEW c \in Conns, Sticky!Dial(c)
      PROVE  StickyInv'
  BY <1>2, StickyDial
<1>3. ASSUME UNCHANGED <<used, ready, since, via, lru>>
      PROVE  StickyInv'
  BY <1>3 DEF StickyInv, Made, Sticky!OneNet, Sticky!AliveMembers
<1>4. ASSUME NEW o, Sticky!Result(o) \/ Sticky!Receive \/ Sticky!Interrupt
      PROVE  StickyInv'
  BY <1>3, <1>4 DEF Sticky!Result, Sticky!Receive, Sticky!Interrupt
<1>5. ASSUME NEW c, Sticky!NewConn(c) \/ Sticky!DialFails(c) \/ Sticky!CloseConn(c)
                    \/ UNCHANGED Sticky!vars
      PROVE  StickyInv'
  BY <1>3, <1>5 DEF Sticky!NewConn, Sticky!DialFails, Sticky!CloseConn,
     Sticky!Settle, Sticky!vars
<1> QED
  BY <1>1, <1>2, <1>4, <1>5 DEF Sticky!Next

LEMMA StickyPromised ==
    ASSUME StickyInv
    PROVE  Sticky!StaysStuck
<1> SUFFICES ASSUME Sticky!OneNet, NEW c \in since, NEW d \in since,
                    via[c] \in Sticky!AliveMembers(NetOfKey(c)),
                    via[d] \in Sticky!AliveMembers(NetOfKey(d))
             PROVE  via[c] = via[d]
  BY DEF Sticky!StaysStuck, NetOfKey
<1>1. NetOfKey(c) = NetOfKey(d)
  BY OneNetOfKey DEF StickyInv
<1> QED
  BY <1>1 DEF StickyInv

-----------------------------------------------------------------------------
(***************************************************************************)
(* A balancer under the strategy in force.                                 *)
(***************************************************************************)
BalancersInv ==
    /\ part = "lowest" => LowestInv
    /\ part = "robin" => RobinInv
    /\ part = "consistent" => ConsistentInv
    /\ part = "sticky" => StickyInv

LEMMA BalancersInit ==
    ASSUME BalancersAssumption, Init
    PROVE  BalancersInv
BY LowestInit, RobinInit, ConsistentInit, StickyInit DEF Init, BalancersInv

LEMMA BalancersNext ==
    ASSUME BalancersAssumption, BalancersInv, [Next]_vars
    PROVE  BalancersInv'
<1>1. part' = part
  BY DEF Next, vars
<1>2. CASE part = "lowest"
  <2>1. [Lowest!Next]_(Lowest!vars)
    BY <1>2 DEF Next, vars, sharedVars, groupVars, Lowest!vars
  <2> QED
    BY <1>1, <1>2, <2>1, LowestNext DEF BalancersInv
<1>3. CASE part = "robin"
  <2>1. [Robin!Next]_(Robin!vars)
    BY <1>3 DEF Next, vars, sharedVars, groupVars, Robin!vars
  <2> QED
    BY <1>1, <1>3, <2>1, RobinNext DEF BalancersInv
<1>4. CASE part = "consistent"
  <2>1. [Consistent!Next]_(Consistent!vars)
    BY <1>4 DEF Next, vars, sharedVars, hashingVars, Consistent!vars
  <2> QED
    BY <1>1, <1>4, <2>1, ConsistentNext DEF BalancersInv
<1>5. CASE part = "sticky"
  <2>1. [Sticky!Next]_(Sticky!vars)
    BY <1>5 DEF Next, vars, sharedVars, hashingVars, Sticky!vars
  <2> QED
    BY <1>1, <1>5, <2>1, StickyNext DEF BalancersInv
<1> QED
  BY <1>1, <1>2, <1>3, <1>4, <1>5 DEF BalancersInv

\* Under lowest-delay, once the worker has nothing left to do, no member has
\* less delay than the one it chose; under round-robin the members with an
\* acceptable delay are served alike since the last update, and no other
\* member is served; consistent hashing gives no key to an outbound that has
\* timed out while another has answered; and sticky sessions give a key that
\* is used over one network the same outbound from one update to the next, as
\* far as they give it an alive one (Select and UpdateOutboundsInfo of the four
\* strategies, with the worker of Balancer that calls them).
THEOREM BalancersSelectAsPromised == Spec => []SelectsAsPromised
<1>1. Init => BalancersInv
  BY BalancerConstants, BalancersInit
<1>2. BalancersInv /\ [Next]_vars => BalancersInv'
  BY BalancerConstants, BalancersNext
<1>3. BalancersInv => SelectsAsPromised
  BY BalancerConstants, LowestPromised, RobinPromised, StickyPromised
  DEF BalancersInv, ConsistentInv, SelectsAsPromised
<1> QED
  BY <1>1, <1>2, <1>3, PTL DEF Spec

\* Under consistent hashing an update that brings no outbound back leaves every
\* key where it is whose outbound stays alive: the first of the hashes that hits
\* an alive place, or else the first alive place, remains the first
\* (ConsistentHashing.Select).
THEOREM KeysMoveOnlyWhenNeeded == Spec => MovesOnlyWhenNeeded
<1>1. [Next]_vars /\ part = "consistent" => Consistent!MovesKeyOnlyFromDead
  <2> SUFFICES ASSUME [Next]_vars, part = "consistent"
               PROVE  Consistent!MovesKeyOnlyFromDead
    OBVIOUS
  <2>1. [Consistent!Next]_(Consistent!vars)
    BY DEF Next, vars, sharedVars, hashingVars, Consistent!vars
  <2> QED
    BY <2>1, BalancerConstants, ConsistentMoves
<1> QED
  BY <1>1, PTL DEF Spec, MovesOnlyWhenNeeded
=============================================================================
