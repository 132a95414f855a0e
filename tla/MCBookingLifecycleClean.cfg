CONSTANTS
    Clients = {c1, c2}
    SlowHolders = FALSE
    RedisFaults = FALSE
    LostReplies = FALSE
    MaxCrashes = 0
SPECIFICATION AdministeredSafety
SYMMETRY Symmetry
INVARIANTS
    SettledMeansMoney
    AtMostOneCharge
    AuthorizationIsBacked
    AdminSettlementMeansMoney
PROPERTIES
    AdminRefundIsFinal
CHECK_DEADLOCK FALSE
