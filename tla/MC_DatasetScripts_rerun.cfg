SPECIFICATION Spec
CONSTANTS
  NumSequences = 3
  Caps = {0, 1}
  CopyModes = {TRUE}
  MaxRuns = 2
  MinTrackLen = 2
  MaxCrops = 5
  MinSplit = 4
  QueryPercent = 20
  GalleryPercents = {30}
  PoolSizes = {1}
  MaxPrepares = 1
  Modes = {"video"}
  ConvertInputs <- MCConvertInputs
  PrepareInputs <- MCPrepareInputs
  InferInputs <- MCInferInputs
INVARIANT RerunIsCapped
CHECK_DEADLOCK FALSE
