SPECIFICATION EndpointsFairSpec
CONSTANTS
  Batch = 2
  Threshold = 2
  MaxRows = 4
  MaxReplays = 2
  MaxRestarts = 1
  Clients = {c1, c2}
  Limit = 2
  MaxAttempts = 1
  Scale = 2
INVARIANTS
  ClaimableIsWhole
  RefusedNeverRuns
  InlineIsSmall
  OneReplayPerFailure
  WalkSkipsNothing
  FullMeansAll
PROPERTIES
  ApiLeavesPublishedAlone
  HalfReplayNeverSeen
  ImplementsIngestion
  IngestingEnds
CHECK_DEADLOCK FALSE
