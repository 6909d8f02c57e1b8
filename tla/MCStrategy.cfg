SPECIFICATION SSpec
CONSTANTS
  RING_SIZE = 7
  MaxTicks = 15
  MaxLag = 2
  MAInterval <- MCMAInterval
  ADRInterval <- MCADRInterval
  Reads <- MCReads
  SellRead = 2
  Warmup = 6
  MaxSpan = 1
  ST_SIZE = 1
INVARIANTS
  STypeOK
  RatiosTrue
  TradeOfItsTicks
PROPERTIES
  WarmStaysWarm
