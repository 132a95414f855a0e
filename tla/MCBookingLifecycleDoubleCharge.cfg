CONSTANTS
    Clients = {c1}
    SlowHolders = FALSE
    RedisFaults = FALSE
    LostReplies = TRUE
    MaxCrashes = 0
SPECIFICATION LifecycleSafety
INVARIANT
    AtMostOneCharge
CHECK_DEADLOCK FALSE
