SPECIFICATION FairSpec
CONSTANTS
    Accounts = {a, b}
    NoOne = NoOne
    Profiles = {pa, pb, ps}
    Common = {ps}
    Legacy = legacy
    Logins = {l1}
    MayLogout = TRUE
PROPERTY EventuallyOwn
CHECK_DEADLOCK FALSE
