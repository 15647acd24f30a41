SPECIFICATION Spec
CONSTANTS
  Suite = {login, search}
  Source = {s1, s2, s3}
  MaxEdits = 2
  MaxFaults = 3
  MaxGroups = 3
SYMMETRY Alike
CHECK_DEADLOCK FALSE
INVARIANTS GreenSawTheSources GreenStartedFromSeed GreenIsClean LivingServerIsHeld
