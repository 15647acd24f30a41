----------------------------- MODULE MCNodePhases -----------------------------
(***************************************************************************)
(* A small instance of NodePhases: a root with one leaf, whose history may *)
(* show an implement checkpoint of either.                                 *)
(***************************************************************************)
EXTENDS NodePhases, TLC

PairChildren == [r |-> <<"a">>, a |-> <<>>]
PairDeclared == [r |-> {}, a |-> {}]

Pair == INSTANCE RequirementTree WITH
          Root <- "r", Children <- PairChildren, Declared <- PairDeclared

PairNode == Pair!TreeNodes
PairParents == Pair!BuildParentsMap
PairDescendants == Pair!BuildDescendantsMap
PairDependencies == Pair!BuildDependenciesMap

AnyHistory == SUBSET {"a", "r"}

\* Nothing tells one test file from another.
FileSymmetry == Permutations(SuiteFile)
=============================================================================
