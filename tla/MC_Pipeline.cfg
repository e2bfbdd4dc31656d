CONSTANTS
  s1 = s1
  s2 = s2
  Streams = {s1, s2}
  Fusion = fusion
  Persistence = persistence
  StreamLists <- OneOrTwoStreams
  TargetFps = 15
  VideoSets <- TwoVideoSets
  MaxInterrupts = 2
SPECIFICATION Spec
CHECK_DEADLOCK FALSE
INVARIANTS
  TypeOK
  CleanupReachesEveryWorker
  WriterNeedsEveryStream
  VideosDoNotEndThePipeline
  DetectorFallsBehind
  OnlyThisRoundsFailuresAreReported
PROPERTIES
  InterruptEndsEverything
