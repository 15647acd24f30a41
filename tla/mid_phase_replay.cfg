SPECIFICATION Spec
CONSTANTS
  a = a
  b = b
  shared = shared
  fresh = fresh
  Node = {a, b}
  NoNode = NoNode
  File <- SharedAndFresh
  Existing <- OnlyShared
  MaxConflictReplays = 2
  MaxTasks <- TwoTasksEach
  MaxEdits <- TwoEditsEach
  MaxFlight = 2
  MaxMishaps = 1
CHECK_DEADLOCK FALSE
INVARIANTS StoodDownIsOutside NoRivalCreation
PROPERTY CheckpointSurvives
