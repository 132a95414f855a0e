CONSTANTS
    Clients = {c1}
    SlowHolders = FALSE
    RedisFaults = FALSE
    LostReplies = FALSE
    MaxCrashes = 0
SPECIFICATION LifecycleSafety
INVARIANT
    CancelledIsNotPaidInFull
CHECK_DEADLOCK FALSE
