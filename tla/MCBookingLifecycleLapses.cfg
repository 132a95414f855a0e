CONSTANTS
    Clients = {c1, c2}
    SlowHolders = TRUE
    RedisFaults = TRUE
    LostReplies = FALSE
    MaxCrashes = 0
SPECIFICATION AdministeredSafety
SYMMETRY Symmetry
INVARIANTS
    PaidFromTheCharge
PROPERTIES
    StatusFollowsTable
CONSTRAINT WithinAWeek
CHECK_DEADLOCK FALSE
