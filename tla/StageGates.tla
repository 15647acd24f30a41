------------------------------ MODULE StageGates ------------------------------
(***************************************************************************)
(* When a formal stage may start and when it may be published: the gates   *)
(* of core/scheduling.py over the queue.                                   *)
(***************************************************************************)
EXTENDS QueueState

CONSTANT DesignPipelining   \* ARC_DESIGN_GATE_PIPELINE

ASSUME GateAssumption == DesignPipelining \in BOOLEAN

FormalStage == Stage \ {"VISUAL_ANALYSIS"}

StageTask == Node \X FormalStage

StatusOf(q, t) == q.stage[t[1]][t[2]]

\* A failed stage leaves the later rows of its node BLOCKED; a failed parent
\* releases its children all the same.
ParentSettled(q, m) ==
  LET status == AggregatePhaseStatus(q, m, "DESIGN") IN
  status \in {"COMPLETED", "FAILED"} \/ (status = "BLOCKED" /\ q.state[m] = "FAILED")

\* _stage_design_dependencies_met
DesignDependenciesMet(q, n) ==
  /\ n \in DOMAIN Parents => ParentSettled(q, Parents[n])
  /\ \A d \in Dependencies[n] :
       AggregatePhaseStatus(q, d, IF DesignPipelining THEN "DESIGN" ELSE "IMPLEMENT")
         = "COMPLETED"

\* _stage_implementation_dependencies_met
ImplementationDependenciesMet(q, n) ==
  /\ AggregatePhaseStatus(q, n, "DESIGN") = "COMPLETED"
  /\ \A d \in Dependencies[n] \cup Descendants[n] :
       AggregatePhaseStatus(q, d, "IMPLEMENT") = "COMPLETED"

\* Variant for testing DrainNeverRaises: the analysis is not waited for.
PrerequisitesWithoutVisual(q, t) ==
  LET row == q.stage[t[1]] IN
  /\ t[2] # "INTERFACE_DESIGN" => row["INTERFACE_DESIGN"] \in TerminalSuccess
  /\ t[2] = "IMPLEMENTATION" => /\ row["TEST_GENERATION"] \in TerminalSuccess
                                /\ ImplementationDependenciesMet(q, t[1])
  /\ t[2] # "IMPLEMENTATION" => DesignDependenciesMet(q, t[1])

\* _stage_prerequisites_met, shared by starting a stage and by publishing it.
PrerequisitesMet(q, t) ==
  LET row == q.stage[t[1]]
      published(s) == row[s] \in TerminalSuccess
  IN  /\ published("VISUAL_ANALYSIS") \/ row["VISUAL_ANALYSIS"] = "READY"
      /\ t[2] # "INTERFACE_DESIGN" => published("INTERFACE_DESIGN")
      /\ t[2] = "IMPLEMENTATION" => /\ IsLeaf(t[1]) => published("TEST_GENERATION")
                                    /\ ImplementationDependenciesMet(q, t[1])
      /\ t[2] # "IMPLEMENTATION" => DesignDependenciesMet(q, t[1])

\* stage_task_dependencies_met: a stage of a node in a state that is not known
\* is never started.
StageDependenciesMet(q, t) == q.state[t[1]] \in NodeState /\ PrerequisitesMet(q, t)

\* Variant for testing PublishedIsLanded: a leaf does not wait for its tests.
FinalizedAtInterface(q, t, result) ==
  CompleteTask(q, t[1], IF t[2] = "IMPLEMENTATION" THEN "IMPLEMENT" ELSE "DESIGN", result)

\* _finalize_stage_publication: the last stage of a phase completes the phase.
FinalizedFor(q, t, result) ==
  CASE t[2] = "INTERFACE_DESIGN" /\ IsLeaf(t[1]) -> q
    [] t[2] = "INTERFACE_DESIGN" /\ ~IsLeaf(t[1]) -> CompleteTask(q, t[1], "DESIGN", result)
    [] t[2] = "TEST_GENERATION" -> CompleteTask(q, t[1], "DESIGN", result)
    [] t[2] = "IMPLEMENTATION" -> CompleteTask(q, t[1], "IMPLEMENT", result)
=============================================================================
