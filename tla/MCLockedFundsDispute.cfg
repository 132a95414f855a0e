SPECIFICATION FundsSafety
CONSTANTS
  c1 = c1
  c2 = c2
  Workers <- TwoWorkers
  LostReplies = FALSE
  MaxFaults = 0
PROPERTIES DisputePausesPayout
CHECK_DEADLOCK FALSE
