SPECIFICATION Spec
CONSTANTS
  NTasks = 2
  LightTasks = {1, 2}
  Dispatchers = {d1, d2}
  MaxRunners = 1
  MaxInline = 1
  MaxEpoch = 1
  MaxStops = 1
INVARIANTS LaneCaps DeliveredOnce
SYMMETRY DispatcherSymmetry
CHECK_DEADLOCK FALSE
