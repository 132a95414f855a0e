SPECIFICATION FundsSafety
CONSTANTS
  c1 = c1
  c2 = c2
  Workers <- TwoWorkers
  LostReplies = TRUE
  MaxFaults = 1
SYMMETRY Symmetry
INVARIANTS NoShowTypeOK FundsGivenOnce SettledAfterItsLock OneLesson
PROPERTIES LockIsAnEscrow VerdictStands
CHECK_DEADLOCK FALSE
