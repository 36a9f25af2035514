SPECIFICATION FairSpec
CONSTANTS
    Starts = {s1, s2, s3}
    Stops = {t1, t2}
    MaxAsks = 3
    MaxCrossedAsks = 3
    Profiles = {p1, p2}
    Disconnects = {d1, d2, d3}
    Reconnects = {r1, r2, r3}
    MaxActs = 4
    MaxCrossedActs = 3
    Listeners = {c1, c2}
    States = {started, stopped}
    MaxStreams = 4
    MaxChanges = 3
    MaxFails = 1
INVARIANTS ServiceSettles ConnectionSettles ToldIsCore
PROPERTIES RequestAnswered AnswerHasCore
CHECK_DEADLOCK FALSE
