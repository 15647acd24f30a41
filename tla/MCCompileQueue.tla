---------------------------- MODULE MCCompileQueue ----------------------------
(***************************************************************************)
(* Small instances of CompileQueue.  The maps of the queue are the ones    *)
(* RequirementTree builds from the tree and the declared dependencies.     *)
(*  - Deep: a root over a leaf a and a subtree b whose child is c; b       *)
(*    depends on a, which holds back the whole subtree.                    *)
(*  - Wide: a root over the leaves a and b; b depends on a.                *)
(***************************************************************************)
EXTENDS CompileQueue

DeepChildren == [r |-> <<"a", "b">>, a |-> <<>>, b |-> <<"c">>, c |-> <<>>]
DeepDeclared == [r |-> {}, a |-> {}, b |-> {"a"}, c |-> {}]

WideChildren == [r |-> <<"a", "b">>, a |-> <<>>, b |-> <<>>]
WideDeclared == [r |-> {}, a |-> {}, b |-> {"a"}]

Deep == INSTANCE RequirementTree WITH
          Root <- "r", Children <- DeepChildren, Declared <- DeepDeclared

Wide == INSTANCE RequirementTree WITH
          Root <- "r", Children <- WideChildren, Declared <- WideDeclared

DeepNode == Deep!TreeNodes
DeepParents == Deep!BuildParentsMap
DeepDescendants == Deep!BuildDescendantsMap
DeepDependencies == Deep!BuildDependenciesMap
DeepAffinity == Deep!BuildAffinityMap(1)
DeepTaskOrder == Deep!BuildTaskOrder

WideNode == Wide!TreeNodes
WideParents == Wide!BuildParentsMap
WideDescendants == Wide!BuildDescendantsMap
WideDependencies == Wide!BuildDependenciesMap
WideAffinity == Wide!BuildAffinityMap(1)
WideTaskOrder == Wide!BuildTaskOrder

OnlyPassed == {"PASSED"}
NoRetrySets == {}
RetryOneNode == {{n} : n \in DeepNode}
=============================================================================
