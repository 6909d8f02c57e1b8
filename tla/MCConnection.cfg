SPECIFICATION CFairSpec
CONSTANTS
  MaxQueue = 2
  MaxOrphans = 1
INVARIANTS
  OneAtATime
PROPERTIES
  ImplementsSocket
  OpensOrFails
  ClosingReturns
CHECK_DEADLOCK FALSE
