SPECIFICATION FairSpec
CONSTANTS
  Strategies = {slr2}
  Symbols = {s1}
  Prices = {2}
  STEP = 4
  MinQty = 4
  MaxQty = 12
  MinNotional = 8
  MaxNotional = 40
  unitCaptical = 24
  totalCaptical = 96
  MaxSignals = 2
  MaxFaults = 1
PROPERTIES
  SaleEnds
