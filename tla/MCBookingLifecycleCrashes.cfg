CONSTANTS
    Clients = {c1, c2}
    SlowHolders = FALSE
    RedisFaults = FALSE
    LostReplies = TRUE
    MaxCrashes = 1
SPECIFICATION LifecycleSafety
SYMMETRY Symmetry
INVARIANTS
    StoreTypeOK
    OneMoneyAction
    DeadBookingUnclaimed
PROPERTIES
    SettledIsFinal
    ReviewFreezesMoney
    TerminalStopsCharges
CHECK_DEADLOCK FALSE
