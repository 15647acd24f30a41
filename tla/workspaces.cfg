SPECIFICATION Spec
CONSTANTS
  Node <- ThreeNodes
  NoNode = NoNode
  Parents <- TwoGroupsParents
  Group <- TwoGroupsGroup
  MaxConcurrent = 2
  MergeArbitration = TRUE
  MaxTasks <- TwoGroupsTasks
  MaxDrains = 2
  MaxResetFailures = 1
CHECK_DEADLOCK FALSE
INVARIANTS ExclusiveTree NeverOutOfSlots
PROPERTIES CheckoutIsStable LeftoversSurvive TasksSettle
