CONSTANTS
  BatchSize = 2
  FlushInterval = 1
  ForeignKeys = FALSE
  DatabaseFails = TRUE
  MaxObs = 5
  MaxPerMessage = 2
  HighWater = 2
SPECIFICATION FairSpec
CHECK_DEADLOCK FALSE
INVARIANTS
  TypeOK
  AtMostOneRow
  NothingVanishes
  FlushedInOrder
PROPERTIES
  ImplementsOrderedDelivery
  BatchIsFlushed
