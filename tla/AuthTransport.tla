---------------------------- MODULE AuthTransport ---------------------------
(***************************************************************************)
(* The paths of a request to the panel (xboard_api_client.dart): the       *)
(* preferred one for three seconds, then a race of all of them.  A request *)
(* that was left after three seconds goes on, up to its own eight, and may *)
(* still be answered.  A path is "quick" if it answers within three        *)
(* seconds, "slow" if it answers within eight, or "dead".                  *)
(***************************************************************************)
EXTENDS Naturals, FiniteSets

CONSTANTS
    Paths,          \* the transports of the client
    MaxRequests,    \* bound on the requests, one after another
    MaxChanges,     \* bound on the changes of the network
    None

\* What the constants stand for.
PathAssumption == Paths # {} /\ None \notin Paths /\ {MaxRequests, MaxChanges} \subseteq Nat

VARIABLES
    speed,      \* how each path answers
    preferred,  \* _preferredTransport
    stage,      \* "idle", "preferred", "racing", "answered" or "failed"
    racing,     \* paths of the race that have not ended
    late,       \* preferred attempts that were left and go on
    winner,     \* the path whose answer the last request got
    requests, changes

vars == <<speed, preferred, stage, racing, late, winner, requests, changes>>

Init ==
    /\ speed \in [Paths -> {"quick", "slow", "dead"}]
    \* _restorePreferredEndpoint
    /\ preferred \in Paths \cup {None}
    /\ stage = "idle" /\ racing = {} /\ late = {} /\ winner = None
    /\ requests = 0 /\ changes = 0

Change(p) ==
    /\ changes < MaxChanges /\ changes' = changes + 1
    /\ speed' \in {[speed EXCEPT ![p] = v] : v \in {"quick", "slow", "dead"}}
    /\ UNCHANGED <<preferred, stage, racing, late, winner, requests>>

Begin ==
    /\ stage \in {"idle", "answered", "failed"} /\ requests < MaxRequests
    /\ requests' = requests + 1
    /\ IF preferred = None
       THEN stage' = "racing" /\ racing' = Paths
       ELSE stage' = "preferred" /\ racing' = {}
    /\ UNCHANGED <<speed, preferred, late, winner, changes>>

InThree(p) == speed[p] = "quick"

PreferredAnswers ==
    /\ stage = "preferred" /\ InThree(preferred)
    /\ stage' = "answered" /\ winner' = preferred
    /\ UNCHANGED <<speed, preferred, racing, late, requests, changes>>

Race == stage' = "racing" /\ racing' = Paths

PreferredFails ==
    /\ stage = "preferred" /\ speed[preferred] = "dead"
    /\ preferred' = None /\ Race
    /\ UNCHANGED <<speed, late, winner, requests, changes>>

\* After three seconds the request is not cancelled.
PreferredTimesOut ==
    /\ stage = "preferred" /\ ~InThree(preferred)
    /\ late' = late \cup {preferred}
    /\ preferred' = None /\ Race
    /\ UNCHANGED <<speed, winner, requests, changes>>

\* Its answer is of no use to the request, but makes its path the preferred one.
LateAnswer(p) ==
    /\ p \in late /\ speed[p] # "dead"
    /\ late' = late \ {p}
    /\ preferred' = p
    /\ UNCHANGED <<speed, stage, racing, winner, requests, changes>>

LateEnds(p) ==
    /\ p \in late
    /\ late' = late \ {p}
    /\ UNCHANGED <<speed, preferred, stage, racing, winner, requests, changes>>

\* A slow path answers once the quick ones have.
First(p) == speed[p] = "quick" \/ (speed[p] = "slow" /\ \A q \in racing : speed[q] # "quick")

RaceAnswers(p) ==
    /\ stage = "racing" /\ p \in racing /\ First(p)
    /\ stage' = "answered" /\ winner' = p /\ preferred' = p /\ racing' = {}
    /\ UNCHANGED <<speed, late, requests, changes>>

AllFailed(left) == left = {}

RaceFails(p) ==
    /\ stage = "racing" /\ p \in racing /\ speed[p] = "dead"
    /\ racing' = IF AllFailed(racing \ {p}) THEN {} ELSE racing \ {p}
    /\ stage' = IF AllFailed(racing \ {p}) THEN "failed" ELSE stage
    /\ UNCHANGED <<speed, preferred, late, winner, requests, changes>>

-----------------------------------------------------------------------------
Progress ==
    \/ PreferredAnswers \/ PreferredFails \/ PreferredTimesOut
    \/ \E p \in Paths : RaceAnswers(p) \/ RaceFails(p)

Next ==
    \/ Begin \/ Progress
    \/ \E p \in Paths : Change(p) \/ LateAnswer(p) \/ LateEnds(p)

Spec == Init /\ [][Next]_vars

\* Every attempt has a timeout.
FairSpec == Spec /\ WF_vars(Progress)

-----------------------------------------------------------------------------
TypeOK ==
    /\ preferred \in Paths \cup {None} /\ winner \in Paths \cup {None} /\ late \subseteq Paths
    /\ stage \in {"idle", "preferred", "racing", "answered", "failed"}
    /\ stage = "preferred" => preferred # None
    \* A race is on exactly while one of its paths may still answer.
    /\ racing \subseteq Paths /\ (stage = "racing" <=> racing # {})

\* While the network does not change, a request fails only if every path is dead.
FailsOnlyWithoutPath == changes = 0 /\ stage = "failed" => \A p \in Paths : speed[p] = "dead"

\* While the network does not change, a request is answered by a quick path if
\* there is one, whatever was preferred before.
QuickWins ==
    changes = 0 /\ stage = "answered" /\ (\E p \in Paths : speed[p] = "quick")
      => speed[winner] = "quick"

\* Every request ends.
RequestEnds == stage \in {"preferred", "racing"} ~> stage \in {"answered", "failed"}

\* The preferred path is the one that answered the last request.
WinnerPreferred == stage = "answered" => preferred = winner
=============================================================================
