SPECIFICATION BgcSpec
CONSTANTS
  Workers = {w1, w2}
  Jobs <- MCJobs
  NoJob = none
  MaxAttempts = 2
  MaxStale = 1
  MaxFaults = 1
  MaxChecks = 1
INVARIANTS BgcTypeOK SweepSurvives AdverseMailedOnce
PROPERTIES ExpiredGoesOffline
CHECK_DEADLOCK FALSE
