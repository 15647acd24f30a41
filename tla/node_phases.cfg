SPECIFICATION Spec
CONSTANTS
  Node <- PairNode
  Parents <- PairParents
  Descendants <- PairDescendants
  Dependencies <- PairDependencies
  DesignPipelining = FALSE
  SuiteFile = {f, g}
  MaxRejections = 2
  EarlierCheckpoints <- AnyHistory
  MaxCrashes = 1
  MaxRetries = 1
SYMMETRY FileSymmetry
CHECK_DEADLOCK FALSE
INVARIANTS RenameDoesNotEscape RegisteredIsPublished ConvergedIsCovered
