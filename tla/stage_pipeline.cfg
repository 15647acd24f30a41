SPECIFICATION Spec
CONSTANTS
  Node <- WideNode
  Parents <- WideParents
  Descendants <- WideDescendants
  Dependencies <- WideDependencies
  StageOrder <- WideStageOrder
  HasReferences <- OnlyA
  MaxConcurrent = 2
  MaxReadyToMerge = 2
  DesignPipelining = FALSE
  Precompute = TRUE
  AutoTddRetry = TRUE
  MaxVisualAttempts = 2
  EarlierFailures <- RecordOfA
  Results <- OnlyPassed
  RetrySets <- RetryOneNode
  MaxCrashes = 2
  MaxStarts = 3
CHECK_DEADLOCK FALSE
INVARIANTS PublishedIsLanded StandsOnPublished DrainNeverRaises NothingForgotten
PROPERTY RunEnds
