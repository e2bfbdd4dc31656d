CONSTANTS
  d1 = d1
  d2 = d2
  Drones = {d1, d2}
  LocalIds = {1}
  MaxDiff = 0
  Lossy = FALSE
  MaxFrames = 2
  MaxStamp = 2
SPECIFICATION Spec
CHECK_DEADLOCK FALSE
INVARIANTS
  AlignedMessagesAreFused
