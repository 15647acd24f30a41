---------------------------- MODULE DependencyGraph ----------------------------
(***************************************************************************)
(* Which of the dependencies a requirement tree declares, or a saved queue *)
(* holds, the queue schedules by: drop_unschedulable_dependencies,         *)
(* drop_ancestor_dependency_edges and break_dependency_cycles of           *)
(* core/queue_state.py.  The edges are visited one at a time and each is   *)
(* kept or dropped for good; the code's order is the one of the map, here  *)
(* it is any order.                                                        *)
(*                                                                         *)
(* An edge <<n, d>> says that n depends on d.                              *)
(***************************************************************************)
EXTENDS TreeNodes, Naturals

CONSTANTS
  Depth,     \* [node -> its depth in the tree]
  Foreign    \* ids a map may name that this queue has no task for

ASSUME GraphAssumption ==
  /\ DOMAIN Parents \subseteq Node
  /\ Depth \in [Node -> Nat]
  /\ \A n \in DOMAIN Parents : Parents[n] \in Node /\ Depth[n] = Depth[Parents[n]] + 1
  /\ Foreign \cap Node = {}

VARIABLES
  todo,     \* the edges not visited yet
  kept,     \* the edges the queue will wait for
  dropped   \* the edges reported as dropped, each with its reason

graphVars == <<todo, kept, dropped>>

Edge == (Node \cup Foreign) \X (Node \cup Foreign)

Reason == {"no-implement-task", "ancestor-descendant", "cycle"}

\* A vertex is a task: the DESIGN or the IMPLEMENT of a node.
Vertex == {"D", "I"} \X Node

\* structural_precedence_edges: a DESIGN before its IMPLEMENT, a parent's DESIGN
\* before its children's, their IMPLEMENTs before the parent's.
StructuralEdges ==
  {<<<<"D", n>>, <<"I", n>>>> : n \in Node}
    \cup {<<<<"D", Parents[n]>>, <<"D", n>>>> : n \in DOMAIN Parents}
    \cup {<<<<"I", n>>, <<"I", Parents[n]>>>> : n \in DOMAIN Parents}

\* A kept dependency: the other's IMPLEMENT precedes the dependent's DESIGN.
Source(e) == <<"I", e[2]>>
Target(e) == <<"D", e[1]>>
Precedence(deps) == {<<Source(e), Target(e)>> : e \in deps}

Closed(S, edges) == \A e \in edges : e[1] \in S => e[2] \in S

\* y is reached from x along the edges: every set that has x and is closed under
\* them has y.
Reaches(edges, x, y) == \A S \in SUBSET Vertex : x \in S /\ Closed(S, edges) => y \in S

Acyclic(edges) == \A e \in edges : ~Reaches(edges, e[2], e[1])

\* The walk up the tree of drop_ancestor_dependency_edges.
HasAncestor(n, m) ==
  n # m /\ \A S \in SUBSET Node :
             n \in S /\ (\A k \in S \cap DOMAIN Parents : Parents[k] \in S) => m \in S

Schedulable(e) == e[1] \in Node /\ e[2] \in Node

Ancestral(e) == HasAncestor(e[1], e[2]) \/ HasAncestor(e[2], e[1])

\* Variant for testing KeptIsAcyclic: only two nodes that wait for each other.
ClosesDirectCycle(e) == <<e[2], e[1]>> \in kept \/ e[1] = e[2]

\* Variant for testing OnlyCyclesDropped: the search also follows the edge itself.
ClosesShortcut(e) ==
  LET edges == StructuralEdges \cup Precedence(kept) IN
  Reaches(edges, Target(e), Source(e)) \/ Reaches(edges, Source(e), Target(e))

ClosesCycle(e) == Reaches(StructuralEdges \cup Precedence(kept), Target(e), Source(e))

GraphInit ==
  /\ todo \in SUBSET Edge
  /\ kept = {}
  /\ dropped = {}

Drop(e, reason) ==
  /\ dropped' = dropped \cup {<<e, reason>>}
  /\ UNCHANGED kept

\* An unknown end, an ancestor with its descendant, an edge that closes a cycle:
\* dropped with a reason.  A node's dependency on itself closes one.
Visit(e) ==
  /\ e \in todo
  /\ todo' = todo \ {e}
  /\ \/ ~Schedulable(e) /\ Drop(e, "no-implement-task")
     \/ Schedulable(e) /\ Ancestral(e) /\ Drop(e, "ancestor-descendant")
     \/ Schedulable(e) /\ ~Ancestral(e) /\ ClosesCycle(e) /\ Drop(e, "cycle")
     \/ Schedulable(e) /\ ~Ancestral(e) /\ ~ClosesCycle(e)
        /\ kept' = kept \cup {e} /\ UNCHANGED dropped

GraphNext == \E e \in todo : Visit(e)

GraphSpec == GraphInit /\ [][GraphNext]_graphVars

-----------------------------------------------------------------------------
(* Properties *)

GraphTypeOK ==
  /\ todo \subseteq Edge
  /\ kept \subseteq Node \X Node
  /\ dropped \subseteq Edge \X Reason

\* With the edges that are kept the tree order has no cycle, at any moment.
\* (break_dependency_cycles: the cycle would leave its nodes PENDING for ever.)
KeptIsAcyclic == Acyclic(StructuralEdges \cup Precedence(kept))

\* A cyclic edge is dropped only when it closes a cycle of what was declared.
OnlyCyclesDropped ==
  \A d \in dropped :
    d[2] = "cycle" =>
      LET declared == {e \in todo \cup kept \cup {c[1] : c \in dropped} :
                         Schedulable(e) /\ ~Ancestral(e)}
      IN  Reaches(StructuralEdges \cup Precedence(declared), Target(d[1]), Source(d[1]))
=============================================================================
