---------------------------- MODULE MCQueueLoading ----------------------------
(***************************************************************************)
(* A root over an inner node a with a child c, and over a leaf b; every    *)
(* edge between the two subtrees, one of an ancestor, of a node to itself  *)
(* and of an unknown one; the situations two nodes may be saved in.        *)
(***************************************************************************)
EXTENDS QueueLoading

TheChildren == [r |-> <<"a", "b">>, a |-> <<"c">>, b |-> <<>>, c |-> <<>>]
NoneDeclared == [r |-> {}, a |-> {}, b |-> {}, c |-> {}]

Tree == INSTANCE RequirementTree WITH
          Root <- "r", Children <- TheChildren, Declared <- NoneDeclared

TheNode == Tree!TreeNodes
TheParents == Tree!BuildParentsMap
TheDescendants == Tree!BuildDescendantsMap
TheDependencies == Tree!BuildDependenciesMap
TheDepth == [r |-> 0, a |-> 1, b |-> 1, c |-> 2]
TheForeign == {"x"}

TheEdges ==
  {<<"a", "b">>, <<"b", "a">>, <<"c", "b">>, <<"b", "c">>,
   <<"a", "c">>, <<"b", "b">>, <<"b", "x">>}

Row(v, i, t, m) ==
  [s \in Stage |-> CASE s = "VISUAL_ANALYSIS"  -> v
                     [] s = "INTERFACE_DESIGN" -> i
                     [] s = "TEST_GENERATION"  -> t
                     [] s = "IMPLEMENTATION"   -> m]

Situation(state, done, row) == [state |-> state, designDone |-> done, row |-> row]

LeafSituations ==
  {Situation("UNSEEN", FALSE, Row("PENDING", "PENDING", "PENDING", "PENDING")),
   Situation("DESIGNING", FALSE, Row("READY", "RUNNING", "PENDING", "PENDING")),
   Situation("DESIGNING", FALSE, Row("READY", "PUBLISHED", "READY_TO_MERGE", "PENDING")),
   Situation("DESIGNED", TRUE, Row("SKIPPED", "PUBLISHED", "PUBLISHED", "PENDING")),
   Situation("IMPLEMENTING", TRUE, Row("PUBLISHED", "PUBLISHED", "PUBLISHED", "RUNNING")),
   Situation("PASSED", TRUE, Row("PUBLISHED", "PUBLISHED", "PUBLISHED", "PUBLISHED")),
   Situation("FAILED", FALSE, Row("READY", "FAILED", "BLOCKED", "BLOCKED")),
   Situation("FAILED", TRUE, Row("PUBLISHED", "PUBLISHED", "PUBLISHED", "FAILED")),
   Situation("BLOCKED_BY_DEPENDENCY", FALSE, Row("BLOCKED", "BLOCKED", "BLOCKED", "BLOCKED")),
   Situation("BLOCKED_BY_DEPENDENCY", TRUE, Row("PUBLISHED", "PUBLISHED", "PUBLISHED", "BLOCKED"))}

CorruptSituations ==
  {[s EXCEPT !.state = UnknownValue] : s \in LeafSituations}
    \cup {[s EXCEPT !.row["INTERFACE_DESIGN"] = UnknownValue] : s \in LeafSituations}
    \cup {[s EXCEPT !.row["TEST_GENERATION"] = UnknownValue] : s \in LeafSituations}

InnerSituations ==
  {[s EXCEPT !.row["TEST_GENERATION"] = "SKIPPED"] : s \in LeafSituations}

TheSavedNodes ==
  [n \in TheNode |->
     CASE n = "b" -> LeafSituations \cup CorruptSituations
       [] n = "a" -> InnerSituations
       [] n = "c" -> {Situation("UNSEEN", FALSE, FreshRow(n))}
       [] n = "r" -> {s \in InnerSituations : s.state = "DESIGNED"}]
=============================================================================
