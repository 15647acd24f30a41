-------------------------- MODULE MCStageDiscipline --------------------------
(***************************************************************************)
(* A small instance of StageDiscipline: a template file that is there from *)
(* the start, two new test files, which are alike, a test the agent writes *)
(* to find a failure, a shared configuration and another node's test.      *)
(***************************************************************************)
EXTENDS StageDiscipline, TLC

CONSTANTS app, unit, e2e, probe, config, other

Paths == {app, unit, e2e, probe, config, other}
CallsPerStage == [interface_design |-> 4, test_generation |-> 5, implementation |-> 3]
FilesPerStage ==
  [interface_design |-> {app}, test_generation |-> {app},
   implementation |-> Paths \ {probe}]
PlannedPerStage ==
  [interface_design |-> SUBSET {app, unit, e2e, config},
   test_generation |-> SUBSET {app, unit, e2e, other},
   implementation |-> SUBSET {app, unit, e2e, probe}]
Alike == Permutations({unit, e2e})
=============================================================================
