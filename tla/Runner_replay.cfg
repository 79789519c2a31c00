SPECIFICATION Spec
CONSTANTS
  Runners = {w1, w2}
  NRows = 1
  MaxAttempts = 1
  BatchSize = 1
  Concurrency = 1
  HandFired = TRUE
  MaxReplays = 1
  MaxRestarts = 1
SYMMETRY RunnerSymmetry
INVARIANTS
  AttemptsBudget
  CompletedMeansAllDone
PROPERTIES
  ImplementsLedger
  SettledRowsStay
  FailureHasCause
  FencedOutIsSilent
  FreshClaimNotReclaimed
CHECK_DEADLOCK FALSE
