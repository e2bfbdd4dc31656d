SPECIFICATION Spec
CONSTANTS
  NumSequences = 3
  Caps = {0, 1, 2}
  CopyModes = {TRUE, FALSE}
  MaxRuns = 2
  MinTrackLen = 2
  MaxCrops = 5
  MinSplit = 4
  QueryPercent = 20
  GalleryPercents = {0, 30}
  PoolSizes = {1, 2}
  MaxPrepares = 2
  Modes = {"video", "images", "mot"}
  ConvertInputs <- MCConvertInputs
  PrepareInputs <- MCPrepareInputs
  InferInputs <- MCInferInputs
INVARIANTS
  TypeOK
  CapIsOvershotByOneImage
  RerunConverges
  IdentityIsOneVehicle
  EveryQueryHasAMatch
  VideoHoldsItsSequence
PROPERTIES
  ImplementsCropStore
CHECK_DEADLOCK FALSE
