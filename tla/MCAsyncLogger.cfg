SPECIFICATION LFairSpec
CONSTANTS
  Threads = {"t1", "t2"}
  Loggers = {"log", "out"}
  Uses <- MCUses
  MaxItems = 1
  MaxPosts = 2
  MaxFaults = 1
INVARIANTS
  LTypeOK
  NoLostCall
  OnlyQueueIsLost
  SilentOnlyOverMidnight
PROPERTIES
  Implements
  PostReturns
CHECK_DEADLOCK FALSE
