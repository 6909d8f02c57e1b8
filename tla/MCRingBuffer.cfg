SPECIFICATION FairSpec
CONSTANTS
  RING_BUFFER_SIZE = 3
  MaxPushes = 8
PROPERTIES
  Implements
  Delivered
