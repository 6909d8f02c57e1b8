SPECIFICATION FairSpec
CONSTANTS
  RING_SIZE = 6
  MaxTicks = 14
  MaxLag = 3
  MAInterval <- MCMAInterval
  ADRInterval <- MCADRInterval
INVARIANTS
  RecentTicksKept
  CaughtUpTest
  AverageExact
  RatioExact
PROPERTIES
  CatchUp
  ImplementsProgress
