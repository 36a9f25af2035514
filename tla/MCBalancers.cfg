SPECIFICATION Spec
CONSTANTS
    N = 3
    Tcp = {1, 2, 3}
    Udp = {3}
    Modulus = 16
    Penalty = 4
    Floor = 2
    Ratio = 2
    MeasuredDelays = {1, 5}
    HashedDelays = {1}
    HashRetry = 1
    StickyRetry = 2
    Conns = {c1, c2, c3}
    UdpConns = {c3}
    SoleConn = {c1}
    MaxResults = 2
    FewResults = 1
    MaxServed = 2
INVARIANT SelectsAsPromised
PROPERTY MovesOnlyWhenNeeded
CHECK_DEADLOCK FALSE
