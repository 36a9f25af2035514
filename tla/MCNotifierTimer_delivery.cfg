\* Two outbounds, a balancer and a stream of the app, a selector that pings; the
\* monitor is not touched.
SPECIFICATION SideSpec
CONSTANTS
    Toucher = {}
    NoToucher = NoToucher
    MaxTickers = 0
    Outbound = {o1, o2}
    Balancer = {b}
    Stream = {s}
    Signaller = {c}
    NotifyCap = 1
    SubscriberCap = 1
INVARIANTS
    UnseenMeansPending
    ChannelsOpen
CHECK_DEADLOCK FALSE
