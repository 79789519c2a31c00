SPECIFICATION FairSpec
CONSTANTS
  RunnerConcurrency = 2
  InlineRowConcurrency = 1
  MaxInline = 2
  BatchSize = 3
  PageSizes = {3}
  Pools = {4, 6}
  Tasks = {t1, t2}
  MaxBeats = 1
  MaxRuns = 2
INVARIANTS PoolSuffices PageIsWhole
PROPERTY PagesEnd
CHECK_DEADLOCK FALSE
