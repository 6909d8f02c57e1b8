SPECIFICATION RFairSpec
CONSTANTS
  Order <- MCOrder
  Index <- MCIndex
  Missing = Missing
  RING_SIZE = 2
  Warmup = 1
  MaxTicks = 3
  MaxLag = 1
  MaxDrops = 1
INVARIANTS
  RTypeOK
  ReportOfScan
  SecondsTogether
PROPERTIES
  RingsProgress
  TickReachesStrategy
  DayIsJudged
CHECK_DEADLOCK FALSE
