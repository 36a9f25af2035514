--------------------------- MODULE BalancerHashing ---------------------------
(***************************************************************************)
(* A balancer group whose strategy is consistent-hashing or sticky-        *)
(* sessions, for the connections of one key: keys do not interact.  An     *)
(* outbound is alive when its stored delay is acceptable; a dead one is    *)
(* avoided by further hashes, which for sticky sessions depend on the      *)
(* clock and are arbitrary here.                                           *)
(***************************************************************************)
EXTENDS BalancerDelays

CONSTANTS
    Strategy,       \* "consistent-hashing" or "sticky-sessions"
    MaxRetry,       \* max_retry
    Conns, UdpConns,\* connections, each made once, and those over UDP
    MaxResults      \* bound: results of tests

\* What the constants stand for.
HashingAssumption ==
    /\ Strategy \in {"consistent-hashing", "sticky-sessions"}
    /\ MaxRetry \in Nat /\ UdpConns \subseteq Conns /\ MaxResults \in Nat

VARIABLES
    history, event, \* as in BalancerGroup
    worker, seen,
    used, ready,    \* histories of the last update, if there was one
    before,         \* those of the update before
    hash,           \* jumpHash of key + i, for each number of buckets
    lru,            \* sticky sessions: the place stored for the key, or N
    since,          \* connections selected since the last update
    conn, via, results

vars == <<history, event, worker, seen, used, ready, before, hash, lru, since, conn, via, results>>

NetOf(c) == IF c \in UdpConns THEN "udp" ELSE "tcp"
Size(net) == Cardinality(Members(net))
Places(net) == 0..(Size(net) - 1)

\* outbounds[net][i]
Member(net, i) == CHOOSE o \in Members(net) : Cardinality({p \in Members(net) : p < o}) = i

TypeOK ==
    /\ {history, seen, used, before} \subseteq [Outbounds -> Histories]
    /\ {event, ready} \subseteq BOOLEAN /\ worker \in {"wait", "update", "cut"}
    /\ lru \in 0..N
    /\ since \subseteq Conns
    /\ conn \in [Conns -> {"new", "dialing", "open", "closed"}]
    /\ \A c \in Conns : via[c] \in Members(NetOf(c)) \cup {0}
    /\ results \in 0..MaxResults

Unmeasured == [delay |-> 0, cached |-> FALSE]
Hashes == {h \in [1..N -> [0..MaxRetry -> 0..(N - 1)]] :
               \A n \in 1..N, i \in 0..MaxRetry : h[n][i] < n}

Init ==
    /\ history \in [Outbounds -> {h \in Histories : h.cached /\ h.delay # 0} \cup {Unmeasured}]
    /\ seen = [o \in Outbounds |-> Unmeasured] /\ used = seen /\ before = seen
    /\ event = FALSE /\ ready = FALSE /\ worker = "wait"
    /\ hash \in IF Strategy = "consistent-hashing"
                THEN {h \in Hashes : \A n \in 1..N : n \notin {Size("tcp"), Size("udp")}
                                         => \A i \in 0..MaxRetry : h[n][i] = 0}
                ELSE {[n \in 1..N |-> [i \in 0..MaxRetry |-> 0]]}
    /\ lru = N /\ since = {}
    /\ conn = [c \in Conns |-> "new"] /\ via = [c \in Conns |-> 0]
    /\ results = 0

----------------------------------------------------------------------------
Result(o) ==
    /\ results < MaxResults
    /\ results' = results + 1
    /\ \E d \in Delays \cup {0, Timeout} :
           history' = [history EXCEPT ![o] = [delay |-> d, cached |-> FALSE]]
    /\ event' = TRUE
    /\ UNCHANGED <<worker, seen, used, ready, before, hash, lru, since, conn, via>>

Receive ==
    /\ worker = "wait" /\ event
    /\ event' = FALSE
    /\ seen' = history
    /\ worker' = "update"
    /\ UNCHANGED <<history, used, ready, before, hash, lru, since, conn, via, results>>

\* UpdateOutboundsInfo, which always says that something has changed.
Update ==
    /\ worker = "update"
    /\ before' = used /\ used' = seen /\ ready' = TRUE
    /\ since' = {}
    /\ worker' = "cut"
    /\ UNCHANGED <<history, event, seen, hash, lru, conn, via, results>>

Interrupt ==
    /\ worker = "cut"
    /\ conn' = [c \in Conns |-> IF conn[c] = "open" THEN "closed" ELSE conn[c]]
    /\ worker' = "wait"
    /\ UNCHANGED <<history, event, seen, used, ready, before, hash, lru, since, via, results>>

----------------------------------------------------------------------------
(* Select                                                                   *)

\* Alive: the stored delay is compared, not the modified one.
AliveMembers(net) ==
    LET limit == Acceptable(MinDelay(used, net))
    IN  {o \in Members(net) : ready /\ used[o].delay <= limit}

AlivePlaces(net) ==
    LET alive == AliveMembers(net) IN {i \in Places(net) : Member(net, i) \in alive}

\* Mutation: nothing is looked for when the hashes find nothing.
TraversedNever(net) == {}

Traversed(net) == AlivePlaces(net)

\* Mutation: the key is hashed over the members that are alive.
HashPlaceAmongAlive(net) ==
    LET k == hash[Size(net)][0] % Cardinality(AlivePlaces(net))
    IN  IF AlivePlaces(net) = {} THEN 0
        ELSE CHOOSE i \in AlivePlaces(net) : Cardinality({j \in AlivePlaces(net) : j < i}) = k

\* ConsistentHashing.Select: the first alive of MaxRetry hashes, else the
\* first alive member, else one more hash.
HashPlace(net) ==
    LET at(i) == hash[Size(net)][i]
        tries == {i \in 0..(MaxRetry - 1) : at(i) \in AlivePlaces(net)}
    IN  IF MaxRetry > 0 /\ tries # {}
        THEN at(CHOOSE i \in tries : \A j \in tries : i <= j)
        ELSE IF Traversed(net) # {}
        THEN CHOOSE i \in Traversed(net) : \A j \in Traversed(net) : i <= j
        ELSE at(MaxRetry)

Starts(net) == IF lru \in Places(net) THEN {lru} ELSE Places(net)

\* An alive place is stored only when nothing is stored for the key, not when
\* what is stored does not fit the network.
Stored(i) == IF lru = N THEN i ELSE lru

Select(net, i) ==
    \/ /\ Strategy = "consistent-hashing"
       /\ i = HashPlace(net) /\ UNCHANGED lru
    \/ /\ Strategy = "sticky-sessions"
       /\ \E start \in Starts(net) :
              IF MaxRetry > 1 /\ start \in AlivePlaces(net)
              THEN i = start /\ lru' = Stored(i)
              \* Tries 2 to MaxRetry - 1 may all miss: the last hash is unchecked.
              ELSE i \in (IF MaxRetry > 1 THEN Places(net) ELSE {start}) /\ lru' = i

Dial(c) ==
    /\ conn[c] = "new"
    /\ \E i \in Places(NetOf(c)) :
           /\ Select(NetOf(c), i)
           /\ via' = [via EXCEPT ![c] = Member(NetOf(c), i)]
    /\ conn' = [conn EXCEPT ![c] = "dialing"]
    /\ since' = since \cup {c}
    /\ UNCHANGED <<history, event, worker, seen, used, ready, before, hash, results>>

Settle(c, from, to) ==
    /\ conn[c] = from
    /\ conn' = [conn EXCEPT ![c] = to]
    /\ UNCHANGED <<history, event, worker, seen, used, ready, before, hash, lru, since, via, results>>

NewConn(c) == Settle(c, "dialing", "open")
DialFails(c) == Settle(c, "dialing", "closed")
CloseConn(c) == Settle(c, "open", "closed")

----------------------------------------------------------------------------
Next ==
    \/ Receive \/ Update \/ Interrupt
    \/ \E o \in Outbounds : Result(o)
    \/ \E c \in Conns : Dial(c) \/ NewConn(c) \/ DialFails(c) \/ CloseConn(c)

Spec == Init /\ [][Next]_vars

----------------------------------------------------------------------------
\* Consistent hashing selects no timed-out outbound while the group has
\* another ("when availability is poor, traverse the entire list to get the
\* available nodes"), as long as the acceptable delays fit.
FindsAvailable ==
    DelaysFit /\ ready => \A c \in since :
        (\E o \in Members(NetOf(c)) : used[o].delay # Timeout) => used[via[c]].delay # Timeout

\* An update that brings no outbound back moves the key only when the
\* outbound it is hashed to has died (ConsistentHashing.Select): of a step.
MovesKeyOnlyFromDead ==
    ready /\ used' # used => \A net \in Nets :
        /\ AlivePlaces(net)' \subseteq AlivePlaces(net) /\ HashPlace(net) \in AlivePlaces(net)'
        => HashPlace(net)' = HashPlace(net)

\* The key has been used over one network only.
OneNet ==
    LET made == {c \in Conns : via[c] # 0} IN UdpConns \cap made \in {{}, made}

\* Between two updates the connections of a key that were given an alive
\* outbound were given the same, if the key is used over one network only: a
\* place stored for tcp may not fit udp, and is kept all the same
\* (StickySession.Select).
StaysStuck ==
    \A c, d \in since :
        OneNet /\ {via[c], via[d]} \subseteq AliveMembers(NetOf(c)) \cap AliveMembers(NetOf(d))
            => via[c] = via[d]

\* "if the history is from cache, we can not trust the delay": a selection
\* with an acceptable delay is not passed over for one whose delay, modified
\* for that, is not.
CacheNotTrusted ==
    \A c \in since :
        LET net == NetOf(c)
            limit == Acceptable(MinDelay(used, net))
        IN  ready /\ (\E o \in Members(net) : DelayOf(used[o]) <= limit)
                => DelayOf(used[via[c]]) <= limit

\* The result of UpdateOutboundsInfo, "changed", interrupts every connection
\* of the group: it should say so only of histories that differ.
InterruptsOnChange == worker = "cut" => used # before
==============================================================================
