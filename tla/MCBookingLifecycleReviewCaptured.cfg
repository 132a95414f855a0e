CONSTANTS
    Clients = {c1}
    SlowHolders = FALSE
    RedisFaults = FALSE
    LostReplies = FALSE
    MaxCrashes = 0
SPECIFICATION LifecycleSafety
PROPERTY
    ReviewPausesCapture
CHECK_DEADLOCK FALSE
