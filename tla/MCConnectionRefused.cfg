SPECIFICATION CSpec
CONSTANTS
  MaxQueue = 1
  MaxOrphans = 0
INVARIANTS
  EitherOpenOrFail
CHECK_DEADLOCK FALSE
