\* Two threads that touch the monitor, two tickers, Close at any time; one
\* outbound, a stream of the app and a thread that calls SignalChange.
SPECIFICATION SideSpec
CONSTANTS
    Toucher = {t1, t2}
    NoToucher = NoToucher
    MaxTickers = 2
    Outbound = {o1}
    Balancer = {}
    Stream = {s}
    Signaller = {c}
    NotifyCap = 1
    SubscriberCap = 1
INVARIANTS
    NoTimerLeaks
    TickerHasLoop
    PanicOnlyWhileClosing
PROPERTIES
    TimerFollowsTouches
    NothingStuck
CHECK_DEADLOCK FALSE
