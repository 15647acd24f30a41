SPECIFICATION Spec
CONSTANTS
  Node <- WideNode
  Parents <- WideParents
  Descendants <- WideDescendants
  Dependencies <- WideDependencies
  Affinity <- WideAffinity
  TaskOrder <- WideTaskOrder
  ParallelMode = TRUE
  MaxConcurrent = 2
  DesignPipelining = TRUE
  AutoTddRetry = TRUE
  OutageThreshold = 1
  Results <- OnlyPassed
  RetrySets <- NoRetrySets
  MaxCrashes = 1
  MaxStarts = 2
  MaxOutages = 0
CHECK_DEADLOCK FALSE
INVARIANT PrerequisitesHold
PROPERTIES RunEnds KeepsContract
