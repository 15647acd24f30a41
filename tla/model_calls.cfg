SPECIFICATION CallsSpec
CONSTANTS
  Caller = {a, b}
  MaxRetries = 2
  MaxFailures = 4
  ProbeRounds = 2
  Modes = {"stream", "retry", "off"}
SYMMETRY AnyOrder
INVARIANTS AttemptsBounded DeadEndpointSpared DeadIsOutage
