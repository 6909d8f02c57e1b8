SPECIFICATION FairSpec
CONSTANTS
  Strategies = {slr2}
  Symbols = {s1, s2}
  Prices = {2, 3}
  STEP = 4
  MinQty = 4
  MaxQty = 12
  MinNotional = 8
  MaxNotional = 40
  unitCaptical = 24
  totalCaptical = 96
  MaxSignals = 4
  MaxFaults = 2
INVARIANTS
  TypeOK
  OneOrderPerPosition
  BookBacked
  StuckOnlyByFault
PROPERTIES
  SellsAtMostItsPosition
  SignalsServed
