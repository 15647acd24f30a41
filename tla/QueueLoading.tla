------------------------------ MODULE QueueLoading ------------------------------
(***************************************************************************)
(* load_or_create_queue of core/queue_state.py: the queue a compilation    *)
(* starts from, read from .arc/processing_queue.json or built anew.        *)
(*                                                                         *)
(* A file is of the generation that saved it: 0 has the task statuses      *)
(* only, 1 adds the node states, 2 the design progress, 3 the stage rows;  *)
(* what is missing is seeded from what is there.  A value may be one that  *)
(* this version does not know (UnknownValue): it is quarantined.           *)
(***************************************************************************)
EXTENDS StageGates, DependencyGraph

CONSTANTS
  MapEdges,         \* the dependency edges a tree or a file may name
  SavedNode,        \* [node -> what a file may hold for it]
  UnknownValue      \* a status or a state of no known vocabulary

VARIABLES
  file,                  \* the queue file
  resume,                \* --resume or a retry was asked for
  loadedQueue,           \* the queue in memory
  loading,               \* how far the load is
  reloaded               \* the file was written by an earlier load

fileVars == <<file, resume, loadedQueue, loading, reloaded>>
loadVars == <<graphVars, file, resume, loadedQueue, loading, reloaded>>

\* The projection a file keeps of the tasks, whatever its generation.
SavedStatus(q) == [n \in Node |-> [p \in Phase |-> TaskStatus(q, n, p)]]

SavedFile(q, generation, compatible) ==
  [generation |-> generation, compatible |-> compatible, status |-> SavedStatus(q),
   state |-> q.state, designDone |-> q.designDone, stage |-> q.stage]

-----------------------------------------------------------------------------
(* The migrations, oldest file first *)

\* A generation 0 file says of a running task only that it runs.
LoadedState(f) ==
  [n \in Node |->
     CASE f.generation > 0 -> f.state[n]
       [] f.generation = 0 /\ f.status[n]["IMPLEMENT"] = "RUNNING" -> "IMPLEMENTING"
       [] f.generation = 0 /\ f.status[n]["IMPLEMENT"] # "RUNNING" ->
            IF f.status[n]["DESIGN"] = "RUNNING" THEN "DESIGNING" ELSE "UNSEEN"]

\* Variant for testing WorkGoesOn: the tasks' own statuses are not read.
DesignDoneFromState(f) ==
  [n \in Node |-> IF f.generation >= 2 THEN f.designDone[n]
                 ELSE LoadedState(f)[n] \in DesignFinishedStates]

\* _migrate_design_done: a failed node's progress is in its task's status.
LoadedDesignDone(f) ==
  LET state == LoadedState(f) IN
  [n \in Node |->
     IF f.generation >= 2 THEN f.designDone[n]
     ELSE state[n] \in DesignFinishedStates \/ f.status[n]["DESIGN"] = "COMPLETED"]

\* _legacy_stage_status: a stage row seeded from the state of its node.
LegacyStatus(q, n, s) ==
  LET state == q.state[n]
      implement == ImplementStatusOf(q, n)
  IN
  CASE s = "TEST_GENERATION" /\ ~IsLeaf(n) -> "SKIPPED"
    [] (s = "TEST_GENERATION" => IsLeaf(n)) /\ state \notin NodeState -> "FAILED"
    [] OTHER ->
       CASE state \in CompletedStates \/ (s # "IMPLEMENTATION" /\ DesignDone(q, n)) -> "PUBLISHED"
         [] s = "IMPLEMENTATION" /\ state \notin CompletedStates ->
              IF implement \in {"FAILED", "BLOCKED", "RUNNING"} THEN implement ELSE "PENDING"
         [] OTHER ->
              CASE state = "DESIGNING" /\ s = "INTERFACE_DESIGN" -> "RUNNING"
                [] state = "FAILED" /\ s = "INTERFACE_DESIGN" -> "FAILED"
                [] state = "BLOCKED_BY_DEPENDENCY" -> "BLOCKED"
                [] OTHER -> "PENDING"

\* _migrate_stage_tasks: a saved row stays, whatever it says.
LoadedRows(f, q) ==
  [n \in Node |-> [s \in Stage |->
     CASE f.generation < 3 -> LegacyStatus(q, n, s)
       [] f.generation = 3 ->
            IF s = "TEST_GENERATION" /\ ~IsLeaf(n) THEN "SKIPPED" ELSE f.stage[n][s]]]

Loaded(f) ==
  LET q == [state |-> LoadedState(f), designDone |-> LoadedDesignDone(f), stage |-> f.stage]
  IN  [q EXCEPT !.stage = LoadedRows(f, q)]

\* collect_invalid_state_entries
InvalidNodes(q) == {n \in Node : q.state[n] \notin NodeState}
InvalidStages(q) == {t \in Node \X Stage : q.stage[t[1]][t[2]] \notin StageStatus}
Quarantined(q) == InvalidNodes(q) # {} \/ InvalidStages(q) # {}

-----------------------------------------------------------------------------
\* Any dependencies with a plain file, or any file with none.
LoadInit ==
  /\ kept = {} /\ dropped = {}
  /\ resume \in BOOLEAN
  /\ loadedQueue = FreshQueue
  /\ loading = "graph"
  /\ reloaded = FALSE
  /\ \/ /\ todo \in SUBSET MapEdges
        /\ \E compatible \in BOOLEAN : file = SavedFile(FreshQueue, 3, compatible)
     \/ /\ todo = {}
        /\ \E saved \in {f \in [Node -> UNION {SavedNode[n] : n \in Node}] :
                           \A n \in Node : f[n] \in SavedNode[n]} :
           \E generation \in 0..3 :
             file = SavedFile([state |-> [n \in Node |-> saved[n].state],
                               designDone |-> [n \in Node |-> saved[n].designDone],
                               stage |-> [n \in Node |-> saved[n].row]], generation, TRUE)

\* The map of the tree, or the restored one, is validated edge by edge.
ValidateEdge ==
  /\ loading = "graph"
  /\ GraphNext
  /\ UNCHANGED fileVars

LoadFile ==
  /\ loading = "graph" /\ todo = {} /\ file.compatible
  /\ loadedQueue' = Loaded(file)
  /\ loading' = "loaded"
  /\ UNCHANGED <<graphVars, file, resume, reloaded>>

\* _is_compatible_queue failed: a resume or a retry stops, a compilation starts anew.
Incompatible ==
  /\ loading = "graph" /\ todo = {} /\ ~file.compatible
  /\ loadedQueue' = FreshQueue
  /\ loading' = IF resume THEN "refused" ELSE "ready"
  /\ UNCHANGED <<graphVars, file, resume, reloaded>>

\* compile_requirement_tree: a resume of a quarantined queue stops before any
\* recovery; a compilation goes on around what is quarantined.
RefuseResume ==
  /\ loading = "loaded" /\ resume /\ Quarantined(loadedQueue)
  /\ loading' = "refused"
  /\ UNCHANGED <<graphVars, file, resume, loadedQueue, reloaded>>

Recover ==
  /\ loading = "loaded"
  /\ resume => ~Quarantined(loadedQueue)
  /\ loadedQueue' = RecoverInterrupted(loadedQueue)
  /\ loading' = "ready"
  /\ UNCHANGED <<graphVars, file, resume, reloaded>>

\* The queue is saved with its map, the process ends, a resume loads both.
SaveAndLoadAgain ==
  /\ loading = "ready" /\ ~reloaded
  /\ file' = SavedFile(loadedQueue, 3, TRUE)
  /\ todo' = kept /\ kept' = {} /\ dropped' = {}
  /\ resume' = TRUE
  /\ loading' = "graph"
  /\ reloaded' = TRUE
  /\ UNCHANGED loadedQueue

LoadNext ==
  \/ ValidateEdge \/ LoadFile \/ Incompatible \/ RefuseResume \/ Recover
  \/ SaveAndLoadAgain

LoadSpec == LoadInit /\ [][LoadNext]_loadVars

-----------------------------------------------------------------------------
(* Properties *)

\* No dependency is lost for nothing: an edge dropped as cyclic closed a cycle of
\* the map, and the map that was saved loses nothing when it is restored.
NothingLostForNothing == OnlyCyclesDropped /\ (reloaded => dropped = {})

\* Whatever generation saved it, an interrupted run can go on from what is loaded:
\* the stage rows and the state of a node tell the same story, nothing is left
\* running, failed or blocked without its node, and no progress that the file
\* records is undone, but for what a generation 0 file says of an implementation.
WorkGoesOn ==
  loading = "ready" /\ file.compatible /\ ~Quarantined(loadedQueue) =>
    \A n \in Node :
      LET q == loadedQueue
          row == q.stage[n]
      IN  /\ DesignDone(q, n) <=> \A s \in DesignStages : row[s] \in TerminalSuccess
          /\ q.state[n] \in CompletedStates <=> row["IMPLEMENTATION"] \in TerminalSuccess
          /\ \A s \in Stage :
               /\ row[s] # "RUNNING"
               /\ row[s] = "FAILED" => q.state[n] = "FAILED"
               /\ row[s] = "BLOCKED" => q.state[n] \in {"FAILED", "BLOCKED_BY_DEPENDENCY"}
          /\ ~reloaded /\ file.status[n]["DESIGN"] = "COMPLETED" => DesignDone(q, n)
          /\ ~reloaded /\ file.generation > 0 /\ file.status[n]["IMPLEMENT"] = "COMPLETED"
               => ImplementStatusOf(q, n) = "COMPLETED"

\* A status nobody knows never becomes work to do: the row of the file keeps it.
\* The recovery of an interrupted node resets the row instead.
UnknownRowsStay ==
  loading = "ready" /\ file.compatible /\ file.generation = 3 =>
    \A t \in Node \X Stage :
      (t[2] = "TEST_GENERATION" => IsLeaf(t[1])) /\ file.stage[t[1]][t[2]] \notin StageStatus
        => loadedQueue.stage[t[1]][t[2]] \notin StageStatus

=============================================================================
