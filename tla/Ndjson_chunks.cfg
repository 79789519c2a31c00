SPECIFICATION Spec
CONSTANTS
  MaxLen = 5
  MaxChunk = 3
  Limits = {1, 4}
INVARIANTS TypeOK ChunkingIsInvisible LimitIsExact
PROPERTY DrainIsBounded
CHECK_DEADLOCK FALSE
