---------------------------- MODULE MCStagePipeline ----------------------------
(***************************************************************************)
(* A small instance of StagePipeline: a root with two independent leaves,  *)
(* the maps and the stage order as RequirementTree builds them.            *)
(***************************************************************************)
EXTENDS StagePipeline

WideChildren == [r |-> <<"a", "b">>, a |-> <<>>, b |-> <<>>]
FreeDeclared == [r |-> {}, a |-> {}, b |-> {}]

Wide == INSTANCE RequirementTree WITH
          Root <- "r", Children <- WideChildren, Declared <- FreeDeclared

WideNode == Wide!TreeNodes
WideParents == Wide!BuildParentsMap
WideDescendants == Wide!BuildDescendantsMap
WideDependencies == Wide!BuildDependenciesMap
WideStageOrder == Wide!BuildStageOrder

OnlyA == {"a"}
OnlyPassed == {"PASSED"}
RecordOfA == {{"a"}}
RetryOneNode == {{"b"}}
=============================================================================
