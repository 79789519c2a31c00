SPECIFICATION FairSpec
CONSTANTS
  NTasks = 2
  LightTasks = {2}
  Dispatchers = {d1}
  MaxRunners = 1
  MaxInline = 1
  MaxEpoch = 1
  MaxStops = 1
PROPERTY LightNotBlocked
CHECK_DEADLOCK FALSE
