SPECIFICATION FairSpec
CHECK_DEADLOCK FALSE
CONSTANTS
  a = a
  b = b
  Downloads <- TwoDownloads
  Size <- Sizes
  Required <- Sizes
  Temporary <- OneTemporary
  MinFree = 1
  MaxRetries = 2
  Capacity = 5
INVARIANTS
  DestinationAtomic
PROPERTIES
  FloorHeld
  AllEnd
