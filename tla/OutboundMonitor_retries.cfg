\* A leaf that is late to become ready and whose retries may be refused, and its
\* selector; results change the history; two workers, two cycles and a call.
CONSTANTS
    a = a
    b = b
    g = g
    Tag = {b, g}
    Group = {g}
    Members <- MCMembers
    Dependents <- MCDependents
    Lazy = {b}
    Flaky = {b}
    Caller = {u}
    Worker = {w1, w2}
    PriorityCap = 1
    NormalCap = 2
    Links = 1
    RetryLimit = 3
    Task = {t1, t2, t3, t4}
    NoTask = NoTask
    MaxCycles = 2
    MaxCalls = 1
    CallKinds = {"TestNow", "InvalidateTest"}
    Changes = {TRUE, FALSE}
    MayClose = FALSE
SPECIFICATION Spec
SYMMETRY MCSymmetry
INVARIANTS
    SkippedMeansPending
    NoForgottenResult
CHECK_DEADLOCK FALSE
