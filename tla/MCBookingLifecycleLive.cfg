CONSTANTS
    Clients = {c1}
    SlowHolders = FALSE
    RedisFaults = FALSE
    LostReplies = FALSE
    MaxCrashes = 1
SPECIFICATION CaptureSpec
PROPERTIES
    HeldMoneyMoves
CHECK_DEADLOCK FALSE
