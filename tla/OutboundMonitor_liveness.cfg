\* Two leaves, one dialling through the other, their selector, a worker, and a Close at any time.
CONSTANTS
    a = a
    b = b
    g = g
    Tag = {a, b, g}
    Group = {g}
    Members <- MCMembers
    Dependents <- MCDependents
    Lazy = {}
    Flaky = {}
    Caller = {u}
    Worker = {w1}
    PriorityCap = 1
    NormalCap = 2
    Links = 1
    RetryLimit = 3
    Task = {t1, t2, t3, t4}
    NoTask = NoTask
    MaxCycles = 1
    MaxCalls = 1
    CallKinds = {"TestNow", "InvalidateTest"}
    Changes = {FALSE}
    MayClose = TRUE
SPECIFICATION FairSpec
PROPERTIES
    CycleTerminates
    CloseReturns
CHECK_DEADLOCK FALSE
