SPECIFICATION Spec
CONSTANTS
  Node <- DeepNode
  Parents <- DeepParents
  Descendants <- DeepDescendants
  Dependencies <- DeepDependencies
  Affinity <- DeepAffinity
  TaskOrder <- DeepTaskOrder
  ParallelMode = FALSE
  MaxConcurrent = 1
  DesignPipelining = FALSE
  AutoTddRetry = TRUE
  OutageThreshold = 2
  Results <- OnlyPassed
  RetrySets <- RetryOneNode
  MaxCrashes = 1
  MaxStarts = 3
  MaxOutages = 2
CHECK_DEADLOCK FALSE
INVARIANT NoStaleBlock
PROPERTY DoneStaysDone
