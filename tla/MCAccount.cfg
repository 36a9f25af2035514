SPECIFICATION Spec
CONSTANTS
    None = None
    Accounts = {a}
    Profiles = {pa, ps}
    Common = {ps}
    Legacy = legacy
    Logins = {l1, l2}
    MayLogout = TRUE
    Callers = {c1, c2}
    Downloads = {d1, d2}
    Hosts = {h1, h2, h3}
    Endpoints = {h1, h2, h3}
    Paths = {direct, relay, endpoint}
    NSubs = 2
    NUrls = 3
    Bases = {1, 2}
    Digits = {0}
    MaxDigits = 3
    MaxChoices = 1
    Bodies = {x, y}
    MaxRevision = 3
    MaxKills = 2
    MaxRequests = 3
    MaxShifts = 1
INVARIANTS ImportedAppear AgreeAtRest FailsOnlyWithoutPath
PROPERTY NothingTakenBack
CHECK_DEADLOCK FALSE
