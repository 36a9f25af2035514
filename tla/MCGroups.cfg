SPECIFICATION FairSpec
CONSTANTS
    Leaves = {o1, o2}
    Default = o1
    Foreign = none
    Pingable = {o1, o2}
    Pickers = {p1, p2}
    SelectorConns = {c1}
    MaxPicks = 3
    MaxKills = 2
    MaxCrossed = 2
    N = 2
    Tcp = {1, 2}
    Udp = {2}
    Delays = {1, 2, 4}
    Modulus = 8
    Tolerance = 1
    MaxChecks = 1
    Checkers = {k1, k2}
    Boot = k1
    Conns = {c1, c2}
    UdpConns = {c2}
    Interval = 1
    IdleTimeout = 2
    MaxLoops = 2
    MaxTouches = 3
INVARIANTS PickTakesHold SelectedNearBest LoopOwnsTicker
PROPERTIES EventuallySelected SwitchCuts StopsOnlyIdle EndsAtRest
CHECK_DEADLOCK FALSE
