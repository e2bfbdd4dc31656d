CONSTANTS
  MaxAge = 1
  MinHits = 2
  HighThresh = 2
  NewThresholds = {1, 3}
  Confidences = {1, 2, 3}
  ReidReady = TRUE
  MaxDets = 2
  MaxFrames = 4
SPECIFICATION Spec
CHECK_DEADLOCK FALSE
INVARIANTS
  TypeOK
  UniqueIds
  CountersAgree
  NoStrongDetectionLost
PROPERTIES
  ConfirmedUntilMissed
  FreshIdsOnly
