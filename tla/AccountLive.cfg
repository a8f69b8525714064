SPECIFICATION FairSpec
CONSTANTS
  Sessions = {s1, s2}
  Limited = {s1}
  Accounts = {a1}
  Budgets = {2, 3}
  MaxRounds = 2
  Delays = {1}
  RetryAfters = {2}
  ProbeTtl = 2
  Margin = 1
  Timely = TRUE
  MaxTime = 5
  MaxGen = 1
  MaxUpdates = 1
INVARIANT SingleFlight
PROPERTIES OldestFirst WaitersReturn
CHECK_DEADLOCK FALSE
