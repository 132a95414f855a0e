SPECIFICATION DisputesSafety
CONSTANTS
  w1 = w1
  w2 = w2
  Workers <- TwoWorkers
  MaxReplays = 1
  MaxCrashes = 1
SYMMETRY Symmetry
INVARIANTS DisputesTypeOK DebitedOnce
PROPERTIES RevokedForGood ClosedDisputeRests DiscountIsPaidFor
CONSTRAINTS Apart TwoAtATime ReadsSome OthersInTheWay OneTrouble ClosedIsAnswered
CHECK_DEADLOCK FALSE
