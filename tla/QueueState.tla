------------------------------ MODULE QueueState ------------------------------
(***************************************************************************)
(* The compile queue's state and its transitions: core/queue_state.py.     *)
(*                                                                         *)
(* A queue is a record q with                                              *)
(*   q.state      : node -> node state                   ("node_states")   *)
(*   q.designDone : node -> BOOLEAN                 ("node_design_done")   *)
(*   q.stage      : node -> stage -> stage status        ("stage_tasks")   *)
(* The DESIGN/IMPLEMENT task statuses are a projection of q.state and are  *)
(* never stored (TaskStatus below).  Every operator is a pure function of  *)
(* the queue; the modules that drive the queue apply them in their actions.*)
(***************************************************************************)
EXTENDS TreeNodes, Naturals, FiniteSets

CONSTANTS
  Descendants,    \* [node -> the set of nodes below it]
  Dependencies    \* [node -> the set of declared, schedulable dependencies]

ASSUME TreeAssumption ==
  /\ IsFiniteSet(Node)
  /\ DOMAIN Parents \subseteq Node
  /\ \A n \in DOMAIN Parents : Parents[n] \in Node
  /\ Descendants \in [Node -> SUBSET Node]
  /\ Dependencies \in [Node -> SUBSET Node]

Phase == {"DESIGN", "IMPLEMENT"}

Stage == {"VISUAL_ANALYSIS", "INTERFACE_DESIGN", "TEST_GENERATION", "IMPLEMENTATION"}

DesignStages == {"VISUAL_ANALYSIS", "INTERFACE_DESIGN", "TEST_GENERATION"}

\* The place of a stage in STAGE_PIPELINE.
StageIndex ==
  [s \in Stage |-> CASE s = "VISUAL_ANALYSIS"  -> 1
                     [] s = "INTERFACE_DESIGN" -> 2
                     [] s = "TEST_GENERATION"  -> 3
                     [] s = "IMPLEMENTATION"   -> 4]

StageStatus ==
  {"PENDING", "RUNNING", "RETRY_WAIT", "READY", "READY_TO_MERGE",
   "PUBLISHED", "SKIPPED", "FAILED", "BLOCKED"}

TerminalSuccess == {"PUBLISHED", "SKIPPED"}

ActiveStatus == {"RUNNING", "READY", "READY_TO_MERGE"}

\* _STAGE_ALLOWED_TRANSITIONS
AllowedFrom ==
  [st \in StageStatus |->
     CASE st = "PENDING" ->
            {"RUNNING", "RETRY_WAIT", "READY", "PUBLISHED", "SKIPPED", "FAILED", "BLOCKED"}
       [] st = "RUNNING" ->
            {"READY", "READY_TO_MERGE", "PUBLISHED", "RETRY_WAIT", "FAILED", "BLOCKED"}
       [] st = "RETRY_WAIT"     -> {"PENDING", "RUNNING", "FAILED", "BLOCKED"}
       [] st = "READY"          -> {"READY_TO_MERGE", "PUBLISHED", "FAILED"}
       [] st = "READY_TO_MERGE" -> {"PUBLISHED", "FAILED"}
       [] st \in TerminalSuccess -> {}
       [] st = "FAILED"         -> {"PENDING", "RETRY_WAIT", "BLOCKED"}
       [] st = "BLOCKED"        -> {"PENDING", "RETRY_WAIT", "FAILED"}]

CompletedStates == {"PASSED", "CONVERGED", "CONVERGED_WITH_FAILED_CHILDREN"}

InFlightStates == {"DESIGNING", "IMPLEMENTING"}

NodeState ==
  {"UNSEEN", "DESIGNED", "FAILED", "BLOCKED_BY_DEPENDENCY"}
    \cup InFlightStates \cup CompletedStates

DesignFinishedStates == {"DESIGNED", "IMPLEMENTING"} \cup CompletedStates

ResetKind == {"design", "implement", "full"}

Queue ==
  [state      : [Node -> NodeState],
   designDone : [Node -> BOOLEAN],
   stage      : [Node -> [Stage -> StageStatus]]]

IsLeaf(n) == Descendants[n] = {}

-----------------------------------------------------------------------------
(* Queries *)

DesignDone(q, n) == q.state[n] \in DesignFinishedStates \/ q.designDone[n]

\* task_status: the projection of the node's state on one of its two tasks; a
\* state that is not known, as a saved file may hold, reads FAILED.
TaskStatus(q, n, p) ==
  LET st == q.state[n] IN
  CASE st \in CompletedStates -> "COMPLETED"
    [] st = "DESIGNED"     -> IF p = "DESIGN" THEN "COMPLETED" ELSE "PENDING"
    [] st = "DESIGNING"    -> IF p = "DESIGN" THEN "RUNNING" ELSE "PENDING"
    [] st = "IMPLEMENTING" -> IF p = "DESIGN" THEN "COMPLETED" ELSE "RUNNING"
    [] st = "FAILED" ->
         IF p = "DESIGN" /\ DesignDone(q, n) THEN "COMPLETED" ELSE "FAILED"
    [] st = "BLOCKED_BY_DEPENDENCY" ->
         IF p = "DESIGN" /\ DesignDone(q, n) THEN "COMPLETED" ELSE "BLOCKED"
    [] st = "UNSEEN" -> "PENDING"
    [] OTHER -> "FAILED"

DesignStatusOf(q, n) == TaskStatus(q, n, "DESIGN")
ImplementStatusOf(q, n) == TaskStatus(q, n, "IMPLEMENT")

\* aggregate_phase_status: the stage rows projected on the same vocabulary.
AggregatePhaseStatus(q, n, p) ==
  LET stages == IF p = "DESIGN" THEN {"INTERFACE_DESIGN", "TEST_GENERATION"}
                                ELSE {"IMPLEMENTATION"}
      statuses == {q.stage[n][s] : s \in stages}
      failed == "FAILED" \in statuses \/ ~(statuses \subseteq StageStatus)
  IN  CASE failed -> "FAILED"
        [] ~failed /\ "BLOCKED" \in statuses -> "BLOCKED"
        [] statuses \subseteq TerminalSuccess -> "COMPLETED"
        [] OTHER -> IF statuses \cap ActiveStatus # {} THEN "RUNNING" ELSE "PENDING"

Prerequisites(n) == Dependencies[n] \cup Descendants[n]

\* failed_prerequisite_ids
FailedPrerequisites(q, n) ==
  {m \in Prerequisites(n) : ImplementStatusOf(q, m) \in {"FAILED", "BLOCKED"}}

-----------------------------------------------------------------------------
(* Stage rows *)

\* The status a stage row starts from: TEST_GENERATION applies to leaves only.
FreshStatus(n, s) ==
  IF s = "TEST_GENERATION" /\ ~IsLeaf(n) THEN "SKIPPED" ELSE "PENDING"

FreshRow(n) == [s \in Stage |-> FreshStatus(n, s)]

\* _set_stage_status_if_present: silently keeps the row when the table of
\* allowed transitions does not contain the step.
SetIfAllowed(row, s, st) ==
  IF row[s] \notin TerminalSuccess /\ st \in AllowedFrom[row[s]]
  THEN [row EXCEPT ![s] = st]
  ELSE row

\* _reset_stage_tasks_for_retry
ResetRow(row, n, resetDesign, resetImplementation, preservePublished) ==
  [s \in Stage |->
     IF \/ s \in DesignStages /\ ~resetDesign
        \/ s = "IMPLEMENTATION" /\ ~resetImplementation
        \/ preservePublished /\ row[s] \in TerminalSuccess
     THEN row[s]
     ELSE FreshStatus(n, s)]

\* _block_pending_stage_tasks and _release_stage_task_blocks
BlockRow(row) ==
  [s \in Stage |-> IF row[s] \in {"PENDING", "RETRY_WAIT"} THEN "BLOCKED" ELSE row[s]]

ReleaseRow(row, n) ==
  [s \in Stage |-> IF row[s] = "BLOCKED" THEN FreshStatus(n, s) ELSE row[s]]

\* transition_stage_task raises for a step the table does not allow; a row may
\* always be set to the status it has.
TransitionAllowed(row, s, st) == st = row[s] \/ st \in AllowedFrom[row[s]]

Transition(q, n, s, st) == [q EXCEPT !.stage[n][s] = st]

\* fail_stage_task: the stages behind the failed one are blocked when they have
\* not started and fail with it when they have; the node fails.
Behind(st) ==
  IF st \in {"PENDING", "RETRY_WAIT"} THEN "BLOCKED"
  ELSE IF st \in ActiveStatus THEN "FAILED" ELSE st

FailedRow(row, s) ==
  [u \in Stage |-> IF u = s THEN "FAILED"
                   ELSE IF StageIndex[u] <= StageIndex[s] THEN row[u] ELSE Behind(row[u])]

FailStage(q, n, s) ==
  [q EXCEPT !.state[n] = "FAILED", !.stage[n] = FailedRow(@, s)]

-----------------------------------------------------------------------------
(* Task transitions *)

\* The queue load_or_create_queue creates when there is no compatible file.
FreshQueue ==
  [state      |-> [n \in Node |-> "UNSEEN"],
   designDone |-> [n \in Node |-> FALSE],
   stage      |-> [n \in Node |-> FreshRow(n)]]

BeginTask(q, n, p) ==
  LET stage == IF p = "DESIGN" THEN "INTERFACE_DESIGN" ELSE "IMPLEMENTATION" IN
  [q EXCEPT !.state[n] = IF p = "DESIGN" THEN "DESIGNING" ELSE "IMPLEMENTING",
            !.stage[n] = SetIfAllowed(@, stage, "RUNNING")]

\* complete_task raises when one of the phase's stages is FAILED.
CompletionRaises(q, n, p) ==
  \E s \in IF p = "DESIGN" THEN {"INTERFACE_DESIGN", "TEST_GENERATION"}
                           ELSE {"IMPLEMENTATION"} : q.stage[n][s] = "FAILED"

\* result is the session's result_state, read by an IMPLEMENT completion.
CompleteTask(q, n, p, result) ==
  IF p = "DESIGN"
  THEN LET row1 == SetIfAllowed(q.stage[n], "VISUAL_ANALYSIS", "PUBLISHED")
           row2 == SetIfAllowed(row1, "INTERFACE_DESIGN", "PUBLISHED")
           row3 == SetIfAllowed(row2, "TEST_GENERATION",
                                IF IsLeaf(n) THEN "PUBLISHED" ELSE "SKIPPED")
       IN  [q EXCEPT !.state[n] = "DESIGNED", !.designDone[n] = TRUE, !.stage[n] = row3]
  ELSE [q EXCEPT !.state[n] = result,
                 !.stage[n] = SetIfAllowed(@, "IMPLEMENTATION", "PUBLISHED")]

FailTask(q, n) ==
  [q EXCEPT !.state[n] = "FAILED",
            !.stage[n] = CASE q.state[n] = "DESIGNING" ->
                                SetIfAllowed(@, "INTERFACE_DESIGN", "FAILED")
                           [] q.state[n] = "IMPLEMENTING" ->
                                SetIfAllowed(@, "IMPLEMENTATION", "FAILED")
                           [] OTHER -> @]

-----------------------------------------------------------------------------
(* Dependency blocks.  The code walks the nodes until a pass changes        *)
(* nothing; each walk computes a least fixed point, written here as the     *)
(* intersection of the sets closed under one step of the walk.              *)

Blockable(q, n) ==
  /\ q.state[n] \notin InFlightStates
  /\ \E p \in Phase : TaskStatus(q, n, p) = "PENDING"

BlockClosed(q, S) ==
  \A n \in Node :
    /\ Blockable(q, n)
    /\ FailedPrerequisites(q, n) # {} \/ Prerequisites(n) \cap S # {}
    => n \in S

NewlyBlocked(q) == {n \in Node : \A S \in SUBSET Node : BlockClosed(q, S) => n \in S}

BlockNodes(q, B) ==
  [q EXCEPT
     !.state = [n \in Node |-> IF n \in B THEN "BLOCKED_BY_DEPENDENCY" ELSE q.state[n]],
     !.stage = [n \in Node |-> IF n \in B THEN BlockRow(q.stage[n]) ELSE q.stage[n]]]

PropagateDependencyBlocks(q) == BlockNodes(q, NewlyBlocked(q))

ReleaseClosed(q, S) ==
  \A n \in Node :
    q.state[n] = "BLOCKED_BY_DEPENDENCY" /\ FailedPrerequisites(q, n) \subseteq S => n \in S

Released(q) == {n \in Node : \A S \in SUBSET Node : ReleaseClosed(q, S) => n \in S}

ReleaseNodes(q, R) ==
  [q EXCEPT
     !.state = [n \in Node |-> IF n \notin R THEN q.state[n]
                               ELSE IF DesignDone(q, n) THEN "DESIGNED" ELSE "UNSEEN"],
     !.stage = [n \in Node |-> IF n \in R THEN ReleaseRow(q.stage[n], n) ELSE q.stage[n]]]

\* Variant for testing NoStaleBlock: a retry that releases nothing.
ReleaseNothing(q) == q

ReleaseDependencyBlocks(q) == ReleaseNodes(q, Released(q))

-----------------------------------------------------------------------------
(* Recovery of interrupted work and the retry resets *)

\* Variant for testing DoneStaysDone: interrupted work restarts from scratch.
RestartFromScratch(q, n) ==
  IF q.state[n] \in InFlightStates
  THEN [q EXCEPT !.state[n] = "UNSEEN", !.stage[n] = FreshRow(n)] ELSE q

\* recover_interrupted_task: the node falls back to its pre-task state.
RecoverInterruptedTask(q, n) ==
  CASE q.state[n] = "DESIGNING" ->
         [q EXCEPT !.state[n] = "UNSEEN",
                   !.stage[n] = ResetRow(@, n, TRUE, FALSE, TRUE)]
    [] q.state[n] = "IMPLEMENTING" ->
         [q EXCEPT !.state[n] = "DESIGNED",
                   !.stage[n] = ResetRow(@, n, FALSE, TRUE, TRUE)]
    [] OTHER -> q

\* recover_interrupted: first every RUNNING stage row, then every node.
RecoverInterrupted(q) ==
  LET rows == [n \in Node |->
                 [s \in Stage |-> IF q.stage[n][s] = "RUNNING"
                                  THEN FreshStatus(n, s) ELSE q.stage[n][s]]]
      q1 == [q EXCEPT !.stage = rows]
  IN  [q EXCEPT !.state = [n \in Node |-> RecoverInterruptedTask(q1, n).state[n]],
                !.stage = [n \in Node |-> RecoverInterruptedTask(q1, n).stage[n]]]

\* How far the node got decides what a retry resets.
RetryKind(q, n) ==
  CASE DesignStatusOf(q, n) # "COMPLETED" -> "design"
    [] /\ DesignStatusOf(q, n) = "COMPLETED"
       /\ ImplementStatusOf(q, n) \in {"FAILED", "BLOCKED"} -> "implement"
    [] OTHER -> "full"

\* reset_node_for_retry, the part it writes to the queue.
ResetNode(q, n, kind) ==
  [q EXCEPT
     !.state[n] = IF kind = "implement" THEN "DESIGNED" ELSE "UNSEEN",
     !.designDone[n] = IF kind = "implement" THEN @ ELSE FALSE,
     !.stage[n] = ResetRow(@, n, kind \in {"design", "full"},
                           kind \in {"implement", "full"}, FALSE)]

\* apply_retry_plan: every requested node is reset on its own; a reset reads
\* and writes only its node, so the order does not matter.
ResetNodes(q, S) ==
  LET after == [n \in S |-> ResetNode(q, n, RetryKind(q, n))] IN
  [state      |-> [n \in Node |-> IF n \in S THEN after[n].state[n] ELSE q.state[n]],
   designDone |-> [n \in Node |-> IF n \in S THEN after[n].designDone[n]
                                             ELSE q.designDone[n]],
   stage      |-> [n \in Node |-> IF n \in S THEN after[n].stage[n] ELSE q.stage[n]]]

\* --retry-failed: the nodes apply_retry_plan selects.
RetryFailedIds(q) ==
  {n \in Node : q.state[n] \in {"FAILED", "BLOCKED_BY_DEPENDENCY"}}
=============================================================================
