SPECIFICATION FundsSpec
CONSTANTS
  c1 = c1
  c2 = c2
  Workers <- OneWorker
  LostReplies = FALSE
  MaxFaults = 1
PROPERTIES LockIsResolved
CHECK_DEADLOCK FALSE
