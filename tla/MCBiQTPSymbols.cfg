SPECIFICATION QSpec
CONSTANTS
  Listing <- MCListing
  TOTAL_SYMBOL = 4
  MaxFailures = 1
  StartOrder <- MCStartOrder
  Ending <- MCEnding
INVARIANTS
  SymbolsAfterReconnect
