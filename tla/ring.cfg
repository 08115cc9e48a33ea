SPECIFICATION Spec
CONSTANTS
  Capacity = 4
  MaxChunk = 6
  MaxWritten = 13
  MaxRespawns = 1
  KeepsCursor = FALSE
INVARIANT ReplayExact
INVARIANT LossReported
PROPERTY KeepsTail
CHECK_DEADLOCK FALSE
