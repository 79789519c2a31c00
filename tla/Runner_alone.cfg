SPECIFICATION FairSpec
CONSTANTS
  Runners = {w1}
  NRows = 2
  MaxAttempts = 2
  BatchSize = 2
  Concurrency = 2
  HandFired = FALSE
  MaxReplays = 1
  MaxRestarts = 1
INVARIANTS
  EffectBeforeFlip
  ProgressFollowsLedger
PROPERTY
  PublishedEnds
CHECK_DEADLOCK FALSE
