CONSTANTS
  BatchSize = 2
  FlushInterval = 1
  ForeignKeys = TRUE
  DatabaseFails = FALSE
  MaxObs = 5
  MaxPerMessage = 2
  HighWater = 2
SPECIFICATION FairSpec
CHECK_DEADLOCK FALSE
PROPERTIES
  BatchIsStored
