SPECIFICATION DisputesSafety
CONSTANTS
  w1 = w1
  w2 = w2
  Workers <- TwoWorkers
  MaxReplays = 1
  MaxCrashes = 1
INVARIANTS RefusedIsRetried
CONSTRAINT Apart
CHECK_DEADLOCK FALSE
