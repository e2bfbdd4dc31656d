CONSTANTS
  d1 = d1
  d2 = d2
  Drones = {d1, d2}
  LocalIds = {1}
  MaxDiff = 1
  Lossy = TRUE
  MaxFrames = 3
  MaxStamp = 2
SPECIFICATION Spec
CHECK_DEADLOCK FALSE
INVARIANTS
  TypeOK
  FusedTogetherBelongTogether
  KeptOverIsOlder
  FusedTracksAreReported
PROPERTIES
  FramesFuseForward
