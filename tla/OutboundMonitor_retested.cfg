CONSTANTS
    a = a
    b = b
    g = g
    Tag = {b, g}
    Group = {g}
    Members <- MCMembers
    Dependents <- MCDependents
    Lazy = {b}
    Flaky = {}
    Caller = {u}
    Worker = {w1}
    PriorityCap = 1
    NormalCap = 2
    Links = 1
    RetryLimit = 3
    Task = {t1, t2, t3, t4}
    NoTask = NoTask
    MaxCycles = 1
    MaxCalls = 1
    CallKinds = {"InvalidateTest"}
    Changes = {FALSE}
    MayClose = FALSE
SPECIFICATION FairReadySpec
PROPERTY InvalidatedIsRetested
CHECK_DEADLOCK FALSE
