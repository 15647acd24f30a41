CONSTANTS
  app = app
  unit = unit
  e2e = e2e
  probe = probe
  config = config
  other = other
  Path <- Paths
  TestAsset = {unit, e2e, other}
  TestFile = {unit, e2e}
  TestNamed = {unit, e2e, probe}
  Surface = {app}
  Shared = {config}
  ForeignTest = {other}
  Existing <- FilesPerStage
  MaxDesignWrites = 1
  MaxAppends = 1
  MaxEdits = 2
  MaxRewrites = 2
  MaxFlight = 2
  WriteSets <- PlannedPerStage
  MaxCalls <- CallsPerStage
SPECIFICATION PassSpec
INVARIANTS DesignStaysSmall RepairsBounded RegisteredIsReal
CHECK_DEADLOCK FALSE
SYMMETRY Alike
