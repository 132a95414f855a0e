CONSTANTS
    Clients = {c1, c2, c3, c4}
    SlowHolders = TRUE
    RedisFaults = TRUE
SPECIFICATION LockSpec
INVARIANTS
    LockTypeOK
    ExclusiveUnlessOverlap
PROPERTY
    KeyEventuallyFree
