CONSTANTS
    a = a
    b = b
    g = g
    Tag = {a, b, g}
    Group = {g}
    Members <- MCMembers
    Dependents <- MCDependents
    Lazy = {}
    Flaky = {}
    Caller = {u}
    Worker = {w1}
    PriorityCap = 1
    NormalCap = 2
    Links = 2
    RetryLimit = 3
    Task = {t1, t2, t3, t4}
    NoTask = NoTask
    MaxCycles = 2
    MaxCalls = 1
    CallKinds = {"TestNow", "InvalidateTest"}
    Changes = {FALSE}
    MayClose = FALSE
SPECIFICATION Spec
SYMMETRY MCSymmetry
INVARIANTS
    TypeOK
    StageAccounting
    RoomForOutcome
    BoundedOvertaking
PROPERTY ImplementsBarrier
CHECK_DEADLOCK FALSE
