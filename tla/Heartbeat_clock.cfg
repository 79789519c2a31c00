CONSTANTS
  HeartbeatInterval = 2
  StaleAfter = 6
  SweepInterval = 2
  OpTimeout = 3
  RetryBackoff = 1
  DrainTimeout = 2
  Latency = 1
  MaxOps = 2
SPECIFICATION FairSpec
INVARIANTS LiveRunKept SilenceBounded OverlapIsShort DrainDeadline
PROPERTY ClaimEnds
CHECK_DEADLOCK FALSE
