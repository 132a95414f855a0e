SPECIFICATION BgcSpec
CONSTANTS
  Workers = {w1, w2}
  Jobs <- MCJobs
  NoJob = none
  MaxAttempts = 2
  MaxStale = 1
  MaxFaults = 1
  MaxChecks = 1

PROPERTIES ResumedActionActs
CHECK_DEADLOCK FALSE
