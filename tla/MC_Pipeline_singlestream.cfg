CONSTANTS
  s1 = s1
  s2 = s2
  Streams = {s1, s2}
  Fusion = fusion
  Persistence = persistence
  StreamLists <- OneStream
  TargetFps = 15
  VideoSets <- TwoVideoSets
  MaxInterrupts = 0
SPECIFICATION FairSpec
CHECK_DEADLOCK FALSE
PROPERTIES
  SingleStreamIsWritten
