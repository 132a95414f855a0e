CONSTANTS
    Clients = {c1, c2}
    SlowHolders = TRUE
    RedisFaults = FALSE
    LostReplies = FALSE
    MaxCrashes = 0
SPECIFICATION LifecycleSafety
INVARIANT
    DeadBookingUnclaimed
CHECK_DEADLOCK FALSE
