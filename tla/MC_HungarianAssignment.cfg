CONSTANTS
  MaxRows = 2
  MaxCols = 3
  MaxCost = 2
  Threshold = 1
SPECIFICATION Spec
INVARIANTS
  ResultIsGatedMatching
  GreedyIsStable
  NoCheaperSwap
