--------------------------- MODULE RequirementTree ---------------------------
(***************************************************************************)
(* The maps the processing queue derives from the requirement tree when it *)
(* is created (core/queue_state.py, "builders").  The tree is given by its *)
(* root and, for every node, the ordered list of its children; the queue   *)
(* itself only ever reads the maps below.                                  *)
(***************************************************************************)
EXTENDS Naturals, Sequences, SequencesExt

CONSTANTS Root,       \* the id of the tree's root node
          Children,   \* [node -> sequence of its children, in tree order]
          Declared    \* [node -> set of the requirements it declares]

TreeNodes == DOMAIN Children

ChildrenOf(n) == Range(Children[n])

(***************************************************************************)
(* build_processing_tasks: a node's DESIGN first, then its children's      *)
(* tasks, then its IMPLEMENT.  A task is the pair <<node, phase>>.         *)
(***************************************************************************)
Walk[n \in TreeNodes] ==
  << <<n, "DESIGN">> >>
    \o FlattenSeq([i \in DOMAIN Children[n] |-> Walk[Children[n][i]]])
    \o << <<n, "IMPLEMENT">> >>

BuildProcessingTasks == Walk[Root]

\* The position of every task in the flat order: task["order"].
BuildTaskOrder ==
  [t \in Range(BuildProcessingTasks) |->
     CHOOSE i \in DOMAIN BuildProcessingTasks : BuildProcessingTasks[i] = t]

(***************************************************************************)
(* build_stage_tasks: the four stages of a node, then those of its         *)
(* children.  A stage task is the pair <<node, stage>>.                    *)
(***************************************************************************)
StagePipelineOrder ==
  <<"VISUAL_ANALYSIS", "INTERFACE_DESIGN", "TEST_GENERATION", "IMPLEMENTATION">>

StageWalk[n \in TreeNodes] ==
  [i \in DOMAIN StagePipelineOrder |-> <<n, StagePipelineOrder[i]>>]
    \o FlattenSeq([i \in DOMAIN Children[n] |-> StageWalk[Children[n][i]]])

\* The position of every stage task in that order: task["order"].
BuildStageOrder ==
  LET tasks == StageWalk[Root] IN
  [t \in Range(tasks) |-> CHOOSE i \in DOMAIN tasks : tasks[i] = t]

(***************************************************************************)
(* build_descendants_map and build_parents_map.  The root has no parent.   *)
(***************************************************************************)
BuildDescendantsMap ==
  LET below[n \in TreeNodes] ==
        ChildrenOf(n) \cup UNION {below[c] : c \in ChildrenOf(n)}
  IN  below

BuildParentsMap ==
  [n \in TreeNodes \ {Root} |-> CHOOSE p \in TreeNodes : n \in ChildrenOf(p)]

(***************************************************************************)
(* build_affinity_map: the group of a node is its ancestor at the split    *)
(* depth, itself when it is not deeper; the root is a group of its own.    *)
(***************************************************************************)
BuildAffinityMap(splitDepth) ==
  LET parents == BuildParentsMap
      depth[n \in TreeNodes] == IF n = Root THEN 0 ELSE depth[parents[n]] + 1
      group[n \in TreeNodes] ==
        IF depth[n] <= splitDepth THEN n ELSE group[parents[n]]
  IN  group

(***************************************************************************)
(* build_dependencies_map: self references and ids outside the tree are    *)
(* dropped.                                                                *)
(***************************************************************************)
BuildDependenciesMap ==
  [n \in TreeNodes |-> {d \in Declared[n] : d # n /\ d \in TreeNodes}]
=============================================================================
