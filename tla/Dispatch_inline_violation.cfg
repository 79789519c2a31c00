SPECIFICATION Spec
CONSTANTS
  NTasks = 3
  LightTasks = {1, 2, 3}
  Dispatchers = {d1}
  MaxRunners = 1
  MaxInline = 2
  MaxEpoch = 1
  MaxStops = 0
INVARIANT InlineCap
CHECK_DEADLOCK FALSE
