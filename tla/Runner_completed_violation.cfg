SPECIFICATION Spec
CONSTANTS
  Runners = {w1, w2}
  NRows = 1
  MaxAttempts = 2
  BatchSize = 2
  Concurrency = 1
  HandFired = FALSE
  MaxReplays = 0
  MaxRestarts = 1
PROPERTIES
  CompletedStays
CHECK_DEADLOCK FALSE
