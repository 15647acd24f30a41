SPECIFICATION Spec
CONSTANTS
  Layers <- ThreeLayers
  Files <- ThreeFiles
  Cases <- ThreeCases
  Filterable = {"E2E"}
  Call = {c1, c2}
  RunBudget = 2
  StallThreshold = 1
SYMMETRY CallsAlike
CHECK_DEADLOCK FALSE
INVARIANTS LateFixCounts SessionsSuffice
PROPERTY ClosedIsProved
