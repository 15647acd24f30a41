SPECIFICATION LoadSpec
CONSTANTS
  Node <- TheNode
  Parents <- TheParents
  Descendants <- TheDescendants
  Dependencies <- TheDependencies
  Depth <- TheDepth
  Foreign <- TheForeign
  MapEdges <- TheEdges
  SavedNode <- TheSavedNodes
  UnknownValue = "UNKNOWN"
  DesignPipelining = FALSE
CHECK_DEADLOCK FALSE
INVARIANTS KeptIsAcyclic NothingLostForNothing WorkGoesOn
