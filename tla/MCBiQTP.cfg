SPECIFICATION QSpec
CONSTANTS
  Listing <- MCListing
  TOTAL_SYMBOL = 4
  MaxFailures = 2
  StartOrder <- MCStartOrder
  Ending <- MCEnding
INVARIANTS
  QTypeOK
  IndicesAgree
  SymbolsWithRules
  CleanupIsLast
  CrashOnlyOnNoThread
PROPERTIES
  SharedOnlyWhenFixed
CHECK_DEADLOCK FALSE
