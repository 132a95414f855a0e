CONSTANTS
    Clients = {c1}
    SlowHolders = FALSE
    RedisFaults = FALSE
    LostReplies = FALSE
    MaxCrashes = 0
SPECIFICATION LifecycleSpec
PROPERTY
    FailedCaptureEscalates
CHECK_DEADLOCK FALSE
