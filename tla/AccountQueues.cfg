SPECIFICATION Spec
CONSTANTS
  Sessions = {s1, s2}
  Limited = {s1, s2}
  Accounts = {a1, a2}
  Budgets = {3}
  MaxRounds = 2
  Delays = {1}
  RetryAfters = {2}
  ProbeTtl = 2
  Margin = 1
  Timely = FALSE
  MaxTime = 4
  MaxGen = 2
  MaxUpdates = 0
INVARIANTS QueuesSound
PROPERTY RetryAfterKept
SYMMETRY Symmetric
CHECK_DEADLOCK FALSE
