SPECIFICATION OutboxSpec
CONSTANTS
  a = a
  p = p
  t1 = t1
  t2 = t2
  t3 = t3
  Events <- TwoEvents
  Perishable = {p}
  Tasks <- ThreeTasks
  MaxAttempts = 5
  MaxDeaths = 1
INVARIANTS OutboxTypeOK OutcomeIsEarned
PROPERTIES EventIsSettled
CONSTRAINT Alone
CHECK_DEADLOCK FALSE
