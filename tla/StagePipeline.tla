----------------------------- MODULE StagePipeline -----------------------------
(***************************************************************************)
(* The default compilation: core/workflow.py drains the stages of every    *)
(* node (_drain_stage_tasks), each formal stage in a git worktree of its   *)
(* own, and publishes what they produced one at a time through the merge   *)
(* queue (stage_merge_queue.py, stage_worktree.py), while the visual       *)
(* analyses run in the background.                                         *)
(*                                                                         *)
(* An action is the code between two points where the event loop can run   *)
(* something else.  Between two such points the queue is always saved when *)
(* it was changed, so queue is both the memory and the file.               *)
(***************************************************************************)
EXTENDS StageGates

CONSTANTS
  StageOrder,         \* [<<node, stage>> -> position in the stage list]
  HasReferences,      \* the nodes with visual references
  MaxConcurrent,      \* ARC_MAX_CONCURRENT_TASKS
  MaxReadyToMerge,    \* stage_max_ready_to_merge, MaxConcurrent by default
  Precompute,         \* ARC_VISUAL_PRECOMPUTE
  AutoTddRetry,       \* ARC_AUTO_TDD_RETRY
  MaxVisualAttempts,  \* VISUAL_STAGE_MAX_ATTEMPTS
  EarlierFailures,    \* the node sets earlier compilations may have recorded
  Results,            \* the result states a successful IMPLEMENT may reach
  RetrySets,          \* the node sets an operator may pass to --retry
  MaxCrashes,         \* bound on the number of process deaths
  MaxStarts           \* bound on the number of compiler invocations

ASSUME PipelineAssumption ==
  /\ StageOrder \in [Node \X Stage -> Nat]
  /\ HasReferences \subseteq Node
  /\ MaxConcurrent \in Nat \ {0} /\ MaxReadyToMerge \in Nat \ {0}
  /\ Precompute \in BOOLEAN /\ AutoTddRetry \in BOOLEAN
  /\ MaxVisualAttempts \in Nat \ {0}
  /\ EarlierFailures \subseteq SUBSET Node
  /\ Results \subseteq CompletedStates /\ Results # {}
  /\ RetrySets \subseteq SUBSET Node
  /\ MaxCrashes \in Nat /\ MaxStarts \in Nat

VARIABLES
  queue,       \* the queue, in memory and in .arc/processing_queue.json
  attempts,    \* [node -> attempt_count of its visual analysis]
  testFailed,  \* nodes with a test/failed record in runner-events.jsonl, which
               \* only the task drain appends and no compilation clears
  landed,      \* stage tasks whose latest attempt is on the integration HEAD
  branch,      \* [stage task -> its branch against the publication and HEAD]
  workspaces,  \* stage tasks that hold a port slot (_stage_workspaces)
  coord,       \* where the coordinator is
  current,     \* the stage task the coordinator integrates
  mergeQueue,  \* the entries of the merge queue
  flight,      \* [node -> where its in-flight formal stage is]
  working,     \* [node -> the formal stage that is in flight]
  visual,      \* [node -> where its background analysis is]
  retried,     \* the run has already had its automatic TDD retry
  crashes, starts   \* counters the bounds apply to

gitVars == <<landed, branch>>
coordVars == <<coord, current, retried>>
flightVars == <<flight, working>>
counters == <<crashes, starts>>
vars == <<queue, attempts, testFailed, gitVars, workspaces, coordVars, mergeQueue,
          flightVars, visual, counters>>

NoTask == <<>>

CoordinatorState ==
  {"idle", "restoring", "select", "merging", "landed", "settling", "waiting",
   "visualWait", "finishing", "drained", "ended"}

\* "failed" and "interrupted" are the returned status FAILED, the latter after
\* an EndpointUnreachable error; "ready" is a returned publication.
FlightState ==
  {"none", "starting", "opening", "running", "ready", "failed", "interrupted"}

Finished == {"ready", "failed", "interrupted"}

VisualState == {"none", "starting", "analyzing", "done"}

\* A branch is at its publication, which stands on HEAD ("current") or on an
\* older commit ("behind"), or a rebase has moved it away ("moved").
BranchState == {"none", "current", "behind", "moved"}

Running == coord \notin {"idle", "ended"}

InFlight == {n \in Node : flight[n] # "none"}

TaskOf(n) == <<n, working[n]>>

ReadyToMerge(q) == {t \in StageTask : StatusOf(q, t) = "READY_TO_MERGE"}

-----------------------------------------------------------------------------
(* The selection of the next stage: core/scheduling.py *)

\* stage_overlap_allowed: the stages of distinct nodes one of which generates
\* tests, which it writes below its own node's directory.
OverlapAllowed(t, u) ==
  t[1] # u[1] /\ "TEST_GENERATION" \in {t[2], u[2]}

Blockers(q) ==
  {t \in StageTask : StatusOf(q, t) \in ActiveStatus} \cup {TaskOf(n) : n \in InFlight}

\* next_runnable_stage_task
Candidates(q) ==
  {t \in StageTask :
     /\ StatusOf(q, t) = "PENDING"
     /\ t[2] = "TEST_GENERATION" => IsLeaf(t[1])
     /\ StageDependenciesMet(q, t)
     /\ \A u \in Blockers(q) : OverlapAllowed(t, u)}

First(S) == {t \in S : \A u \in S : StageOrder[t] <= StageOrder[u]}

NextRunnable(q) ==
  IF \/ Cardinality(Blockers(q)) >= MaxConcurrent
     \/ Cardinality(ReadyToMerge(q)) >= MaxReadyToMerge
  THEN {} ELSE First(Candidates(q))

\* discard_inactive and next_ready of the merge queue.
ActiveEntries == {t \in mergeQueue : StatusOf(queue, t) = "READY_TO_MERGE"}

\* Variant for testing StandsOnPublished: publications merge as they came.
NextReadyFifo == First(ActiveEntries)

NextReady == First({t \in ActiveEntries : PrerequisitesMet(queue, t)})

-----------------------------------------------------------------------------
(* The visual analyses that are started for a queue: a task that is not    *)
(* done is never started twice.                                            *)

Started(q, S) ==
  [n \in Node |-> IF n \in S \cap HasReferences /\ visual[n] \notin {"starting", "analyzing"}
                  THEN "starting" ELSE visual[n]]

VisualRows(q, statuses) == {n \in Node : q.stage[n]["VISUAL_ANALYSIS"] \in statuses}

\* _prepare_visual_ready_tasks: no reference, no analysis.
SkipVisual(q) ==
  [q EXCEPT !.stage = [n \in Node |->
     IF n \notin HasReferences /\ q.stage[n]["VISUAL_ANALYSIS"] = "PENDING"
     THEN [q.stage[n] EXCEPT !["VISUAL_ANALYSIS"] = "SKIPPED"] ELSE q.stage[n]]]

\* Variant for testing NothingForgotten: an analysis due for a retry is not new.
VisualNew(q) == VisualRows(q, {"PENDING"})

\* It starts what is PENDING or waits for a retry, _ensure_background_visual_
\* stage_tasks later what is PENDING, whatever the switch says.
VisualToStart(q) ==
  VisualRows(q, IF Precompute THEN {"PENDING", "RETRY_WAIT"} ELSE {"PENDING"})

Init ==
  /\ queue = FreshQueue
  /\ attempts = [n \in Node |-> 0]
  /\ testFailed \in EarlierFailures
  /\ landed = {}
  /\ branch = [t \in StageTask |-> "none"]
  /\ workspaces = {}
  /\ coord = "idle"
  /\ current = NoTask
  /\ mergeQueue = {}
  /\ flight = [n \in Node |-> "none"]
  /\ working = [n \in Node |-> "none"]
  /\ visual = [n \in Node |-> "none"]
  /\ retried = FALSE
  /\ crashes = 0
  /\ starts = 0

-----------------------------------------------------------------------------
(* An invocation: compile_requirement_tree *)

\* _apply_retry_plan and _release_dependency_blocks: the nodes of S start again,
\* and what was blocked through them may run.
Retried(q, S) == IF S = {} THEN q ELSE ReleaseDependencyBlocks(ResetNodes(q, S))

\* Recovery, the retries asked for, the release of the blocks they lift, the
\* visual analyses; then the drain restores its merge queue.  The branches of
\* what is not a publication any more restart at HEAD with the next attempt.
LoadAndPrepare(S) ==
  LET q == SkipVisual(Retried(RecoverInterrupted(queue), S))
  IN  /\ queue' = q
      /\ branch' = [t \in StageTask |-> IF t \in ReadyToMerge(q) THEN branch[t] ELSE "none"]
      /\ visual' = Started(q, VisualToStart(q))
      /\ coord' = "restoring"
      /\ retried' = FALSE
      /\ starts' = starts + 1
      /\ UNCHANGED <<attempts, testFailed, landed, workspaces, current, mergeQueue,
                     flightVars, crashes>>

FirstStart ==
  /\ ~Running /\ starts = 0 /\ starts < MaxStarts
  /\ LoadAndPrepare({})

\* --resume, alone, with --retry-failed or with --retry.
Resume ==
  /\ ~Running /\ starts > 0 /\ starts < MaxStarts
  /\ \E S \in {{}, RetryFailedIds(RecoverInterrupted(queue))} \cup RetrySets :
       LoadAndPrepare(S)

\* The process dies: tasks, merge queue and port slots were its memory.
Crash ==
  /\ Running /\ crashes < MaxCrashes
  /\ coord' = "idle"
  /\ current' = NoTask
  /\ mergeQueue' = {}
  /\ workspaces' = {}
  /\ flight' = [n \in Node |-> "none"]
  /\ working' = [n \in Node |-> "none"]
  /\ visual' = [n \in Node |-> "none"]
  /\ crashes' = crashes + 1
  /\ UNCHANGED <<queue, attempts, testFailed, gitVars, retried, starts>>

-----------------------------------------------------------------------------
(* The coordinator: _drain_stage_tasks *)

ToRestore == ReadyToMerge(queue) \ mergeQueue

\* _rehydrate_stage_merge_queue: a persisted publication gets its worktree back
\* or fails its stage.
Restore(t) ==
  /\ coord = "restoring" /\ t \in ToRestore
  /\ mergeQueue' = mergeQueue \cup {t}
  /\ UNCHANGED <<queue, attempts, testFailed, gitVars, workspaces, coordVars, flightVars,
                 visual, counters>>

RestoreFails(t) ==
  /\ coord = "restoring" /\ t \in ToRestore
  /\ queue' = FailStage(queue, t[1], t[2])
  /\ UNCHANGED <<attempts, testFailed, gitVars, workspaces, coordVars, mergeQueue,
                 flightVars, visual, counters>>

Restored ==
  /\ coord = "restoring" /\ ToRestore = {}
  /\ coord' = "select"
  /\ UNCHANGED <<queue, attempts, testFailed, gitVars, workspaces, current, retried,
                 mergeQueue, flightVars, visual, counters>>

\* The stage of the current entry fails, its worktree is preserved.
FailPublication(t) ==
  /\ queue' = FailStage(queue, t[1], t[2])
  /\ branch' = [branch EXCEPT ![t] = "none"]
  /\ coord' = "settling"

\* _drain_stage_merge_queue takes the next publication whose gate is open; one
\* whose branch is not where it was published is refused.
TakeEntry ==
  /\ coord = "select"
  /\ \E t \in NextReady :
       /\ mergeQueue' = ActiveEntries \ {t}
       /\ workspaces' = workspaces \ (mergeQueue \ ActiveEntries)
       /\ current' = t
       /\ IF branch[t] = "moved" THEN FailPublication(t)
                                 ELSE coord' = "merging" /\ UNCHANGED <<queue, branch>>
  /\ UNCHANGED <<attempts, testFailed, landed, retried, flightVars, visual, counters>>

\* integrate_stage, in a worker thread: the branch is rebased when HEAD moved
\* since its base; when git cannot, the merge may still resolve additions.
Rebase ==
  /\ coord = "merging"
  /\ branch[current] = "behind" /\ current \notin landed
  /\ branch' = [branch EXCEPT ![current] = "moved"]
  /\ UNCHANGED <<queue, attempts, testFailed, landed, workspaces, coordVars, mergeQueue,
                 flightVars, visual, counters>>

\* The merge commit moves HEAD; what a crash left already integrated does not.
Land ==
  /\ coord = "merging"
  /\ landed' = landed \cup {current}
  /\ branch' = IF current \in landed THEN branch
               ELSE [t \in StageTask |-> IF t # current /\ branch[t] = "current"
                                         THEN "behind" ELSE branch[t]]
  /\ coord' = "landed"
  /\ UNCHANGED <<queue, attempts, testFailed, workspaces, current, retried, mergeQueue,
                 flightVars, visual, counters>>

\* _validate_stage_publication: files outside the declared write set, or the
\* traceability rows are not those of the publication any more.
PublicationDrifts ==
  /\ coord = "merging" /\ branch[current] # "moved"
  /\ FailPublication(current)
  /\ UNCHANGED <<attempts, testFailed, landed, workspaces, current, retried, mergeQueue,
                 flightVars, visual, counters>>

\* A conflict, coordinator files, a failed health gate; after the rebase as well.
MergeFails ==
  /\ coord = "merging"
  /\ FailPublication(current)
  /\ UNCHANGED <<attempts, testFailed, landed, workspaces, current, retried, mergeQueue,
                 flightVars, visual, counters>>

Publish ==
  /\ coord = "landed"
  /\ TransitionAllowed(queue.stage[current[1]], current[2], "PUBLISHED")
  /\ \E r \in Results :
       queue' = FinalizedFor(Transition(queue, current[1], current[2], "PUBLISHED"), current, r)
  /\ branch' = [branch EXCEPT ![current] = "none"]
  /\ coord' = "settling"
  /\ UNCHANGED <<attempts, testFailed, landed, workspaces, current, retried, mergeQueue,
                 flightVars, visual, counters>>

\* The worktree is settled and its port slot released.
Settle ==
  /\ coord = "settling"
  /\ workspaces' = workspaces \ {current}
  /\ current' = NoTask
  /\ coord' = "select"
  /\ UNCHANGED <<queue, attempts, testFailed, gitVars, retried, mergeQueue, flightVars,
                 visual, counters>>

Dispatch ==
  /\ coord = "select" /\ NextReady = {}
  /\ Cardinality(InFlight) < MaxConcurrent
  /\ \E t \in NextRunnable(queue) :
       /\ queue' = Transition(queue, t[1], t[2], "RUNNING")
       /\ landed' = landed \ {t}
       /\ flight' = [flight EXCEPT ![t[1]] = "starting"]
       /\ working' = [working EXCEPT ![t[1]] = t[2]]
  /\ coord' = IF Cardinality(InFlight) + 1 < MaxConcurrent THEN "select" ELSE "waiting"
  /\ UNCHANGED <<attempts, testFailed, branch, workspaces, current, retried, mergeQueue,
                 visual, counters>>

PendingFormal == \E t \in StageTask : StatusOf(queue, t) = "PENDING"

LiveVisual == {n \in Node : visual[n] \in {"starting", "analyzing"}}

\* Nothing to start: the coordinator waits for a stage, for an analysis that
\* may open a gate, or leaves the drain; the analyses still running are awaited
\* after the first drain of the run.
StopRefill ==
  /\ coord = "select" /\ NextReady = {}
  /\ NextRunnable(queue) = {}
  /\ coord' = CASE InFlight # {} -> "waiting"
                [] InFlight = {} /\ PendingFormal /\ LiveVisual # {} -> "visualWait"
                [] OTHER -> IF retried THEN "drained" ELSE "finishing"
  /\ UNCHANGED <<queue, attempts, testFailed, gitVars, workspaces, current, retried,
                 mergeQueue, flightVars, visual, counters>>

\* What the coordinator makes of the result of the stage in flight on n.
Reaped(q, n) ==
  LET s == working[n] IN
  IF flight[n] \notin Finished \/ q.stage[n][s] = "FAILED" THEN q
  ELSE IF flight[n] = "ready" THEN Transition(q, n, s, "READY_TO_MERGE")
                              ELSE FailStage(q, n, s)

\* asyncio.wait(FIRST_COMPLETED): everything that has finished is reaped.
Reap ==
  LET done == {n \in Node : flight[n] \in Finished}
      published == {TaskOf(n) : n \in {m \in done : flight[m] = "ready"}}
      q == [queue EXCEPT !.state = [n \in Node |-> Reaped(queue, n).state[n]],
                         !.stage = [n \in Node |-> Reaped(queue, n).stage[n]]]
  IN  /\ coord = "waiting" /\ done # {}
      /\ queue' = q
      /\ mergeQueue' = mergeQueue \cup (published \cap ReadyToMerge(q))
      /\ workspaces' = workspaces \ (published \ ReadyToMerge(q))
      /\ flight' = [n \in Node |-> IF n \in done THEN "none" ELSE flight[n]]
      /\ working' = [n \in Node |-> IF n \in done THEN "none" ELSE working[n]]
      /\ coord' = "select"
      /\ UNCHANGED <<attempts, testFailed, gitVars, current, retried, visual, counters>>

\* _finish_visual_ready_tasks
VisualFinished ==
  /\ coord = "finishing" /\ LiveVisual = {}
  /\ visual' = [n \in Node |-> "none"]
  /\ coord' = "drained"
  /\ UNCHANGED <<queue, attempts, testFailed, gitVars, workspaces, current, retried,
                 mergeQueue, flightVars, counters>>

\* _prepare_auto_tdd_retry, then a second drain, which starts PENDING analyses.
TddRetryIds == {n \in testFailed : queue.state[n] = "FAILED"}

\* Variant for testing RunEnds: the run forgets that it has retried.
AutoRetryAgain ==
  /\ coord = "drained" /\ AutoTddRetry /\ ~retried /\ TddRetryIds # {}
  /\ queue' = Retried(queue, TddRetryIds)
  /\ visual' = Started(queue', VisualRows(queue', {"PENDING"}))
  /\ coord' = "restoring"
  /\ UNCHANGED <<attempts, testFailed, gitVars, workspaces, current, retried, mergeQueue,
                 flightVars, counters>>

AutoRetry ==
  /\ coord = "drained" /\ AutoTddRetry /\ ~retried /\ TddRetryIds # {}
  /\ queue' = Retried(queue, TddRetryIds)
  /\ visual' = Started(queue', VisualRows(queue', {"PENDING"}))
  /\ coord' = "restoring"
  /\ retried' = TRUE
  /\ UNCHANGED <<attempts, testFailed, gitVars, workspaces, current, mergeQueue,
                 flightVars, counters>>

\* The compiler's process ends, and its memory with it.
EndRun ==
  /\ coord = "drained"
  /\ AutoTddRetry /\ ~retried => TddRetryIds = {}
  /\ coord' = "ended"
  /\ mergeQueue' = {}
  /\ workspaces' = {}
  /\ visual' = [n \in Node |-> "none"]
  /\ UNCHANGED <<queue, attempts, testFailed, gitVars, current, retried, flightVars, counters>>

-----------------------------------------------------------------------------
(* A formal stage in its worktree: _execute_stage_task_in_worktree *)

Move(n, from, to) == flight[n] = from /\ flight' = [flight EXCEPT ![n] = to]

\* Its port slot comes first; without one the stage fails at once.
AcquireSlot(n) ==
  /\ IF Cardinality(workspaces) < MaxConcurrent
     THEN Move(n, "starting", "opening") /\ workspaces' = workspaces \cup {TaskOf(n)}
     ELSE Move(n, "starting", "failed") /\ UNCHANGED workspaces
  /\ UNCHANGED <<queue, branch>>

\* The worktree starts at HEAD, which the merge must not be moving; then the
\* phase of the aggregate task begins, except for TEST_GENERATION, which runs
\* in the DESIGN that INTERFACE_DESIGN began.
Open(n) ==
  /\ coord # "merging"
  /\ Move(n, "opening", "running")
  /\ branch' = [branch EXCEPT ![TaskOf(n)] = "current"]
  /\ queue' = CASE working[n] = "INTERFACE_DESIGN" -> BeginTask(queue, n, "DESIGN")
                [] working[n] = "IMPLEMENTATION"   -> BeginTask(queue, n, "IMPLEMENT")
                [] OTHER                           -> queue
  /\ UNCHANGED workspaces

\* A failed stage gives its slot back and preserves its worktree.
Discard(n, from, to) ==
  /\ Move(n, from, to)
  /\ workspaces' = workspaces \ {TaskOf(n)}
  /\ branch' = [branch EXCEPT ![TaskOf(n)] = "none"]

OpenFails(n) ==
  /\ coord # "merging"
  /\ Discard(n, "opening", "failed")
  /\ UNCHANGED queue

\* The stage passed and its publication is committed on its branch.
StageSucceeds(n) ==
  /\ Move(n, "running", "ready")
  /\ UNCHANGED <<queue, branch, workspaces>>

\* The phase fails or raises, or its publication is refused.
StageFails(n) ==
  /\ Discard(n, "running", "failed")
  /\ UNCHANGED queue

\* EndpointUnreachable is an exception like any other here.
OutageInStage(n) ==
  /\ Discard(n, "running", "interrupted")
  /\ UNCHANGED queue

StageStep(n) ==
  /\ Running
  /\ AcquireSlot(n) \/ Open(n) \/ OpenFails(n)
     \/ StageSucceeds(n) \/ StageFails(n) \/ OutageInStage(n)
  /\ UNCHANGED <<attempts, testFailed, landed, coordVars, mergeQueue, working, visual, counters>>

-----------------------------------------------------------------------------
(* A background analysis: _run_visual_stage *)

VisualStatus(n) == queue.stage[n]["VISUAL_ANALYSIS"]

\* When a task ends, a coordinator that waits for analyses goes on.
VisualDone(n) ==
  /\ visual' = [visual EXCEPT ![n] = "done"]
  /\ coord' = IF coord = "visualWait" THEN "select" ELSE coord

\* The back-off of RETRY_WAIT is over, or the analysis is new.
VisualStarts(n) ==
  /\ visual[n] = "starting"
  /\ VisualStatus(n) \in {"PENDING", "RETRY_WAIT"}
  /\ attempts[n] < MaxVisualAttempts
  /\ queue' = Transition(queue, n, "VISUAL_ANALYSIS", "RUNNING")
  /\ attempts' = [attempts EXCEPT ![n] = @ + 1]
  /\ visual' = [visual EXCEPT ![n] = "analyzing"]
  /\ UNCHANGED coord

\* The attempts of earlier retries and of interrupted runs count.
VisualExhausted(n) ==
  /\ visual[n] = "starting"
  /\ VisualStatus(n) \in {"PENDING", "RETRY_WAIT"}
  /\ attempts[n] >= MaxVisualAttempts
  /\ queue' = FailStage(queue, n, "VISUAL_ANALYSIS")
  /\ VisualDone(n)
  /\ UNCHANGED attempts

VisualReady(n) ==
  /\ visual[n] = "analyzing"
  /\ queue' = Transition(queue, n, "VISUAL_ANALYSIS", "READY")
  /\ VisualDone(n)
  /\ UNCHANGED attempts

\* A transient error waits for the next attempt, while there is one.
VisualRetries(n) ==
  /\ visual[n] = "analyzing" /\ attempts[n] < MaxVisualAttempts
  /\ queue' = Transition(queue, n, "VISUAL_ANALYSIS", "RETRY_WAIT")
  /\ visual' = [visual EXCEPT ![n] = "starting"]
  /\ UNCHANGED <<attempts, coord>>

VisualFails(n) ==
  /\ visual[n] = "analyzing"
  /\ queue' = FailStage(queue, n, "VISUAL_ANALYSIS")
  /\ VisualDone(n)
  /\ UNCHANGED attempts

VisualStep(n) ==
  /\ Running
  /\ VisualStarts(n) \/ VisualExhausted(n) \/ VisualReady(n) \/ VisualRetries(n)
     \/ VisualFails(n)
  /\ UNCHANGED <<testFailed, gitVars, workspaces, current, retried, mergeQueue, flightVars,
                 counters>>

-----------------------------------------------------------------------------
Environment == FirstStart \/ Resume \/ Crash

Coordinate ==
  \/ \E t \in StageTask : Restore(t) \/ RestoreFails(t)
  \/ Restored \/ TakeEntry \/ Rebase \/ Land \/ PublicationDrifts \/ MergeFails \/ Publish \/ Settle
  \/ Dispatch \/ StopRefill \/ Reap \/ VisualFinished \/ AutoRetry \/ EndRun

Work == Coordinate \/ \E n \in Node : StageStep(n) \/ VisualStep(n)

Next == Environment \/ Work

\* The event loop runs what is ready, and stages, analyses and git commands
\* return (they have time-outs); nobody promises that an operator resumes a run.
Spec == Init /\ [][Next]_vars /\ WF_vars(Work)

-----------------------------------------------------------------------------
(* Properties *)

TypeOK ==
  /\ queue \in Queue
  /\ attempts \in [Node -> Nat]
  /\ testFailed \subseteq Node
  /\ landed \subseteq StageTask
  /\ branch \in [StageTask -> BranchState]
  /\ workspaces \subseteq StageTask
  /\ coord \in CoordinatorState
  /\ current \in StageTask \cup {NoTask}
  /\ mergeQueue \subseteq StageTask
  /\ flight \in [Node -> FlightState]
  /\ working \in [Node -> FormalStage \cup {"none"}]
  /\ visual \in [Node -> VisualState]
  /\ retried \in BOOLEAN
  /\ crashes \in Nat /\ starts \in Nat

\* What the queue calls PUBLISHED is on the integration HEAD, and it is the work
\* of the latest attempt: a resume never builds on a stage that only ever was in
\* a worktree, and a retry is never credited with the attempt before it.
PublishedIsLanded ==
  \A t \in StageTask : StatusOf(queue, t) = "PUBLISHED" => t \in landed

\* A stage stands on published work from its start to the end of its worker, and
\* again while it is merged, whatever fails, is retried or recovered meanwhile.
StandsOnPublished ==
  /\ \A n \in Node :
       flight[n] # "none" /\ StatusOf(queue, TaskOf(n)) = "RUNNING"
         => PrerequisitesMet(queue, TaskOf(n))
  /\ coord \in {"merging", "landed"} => PrerequisitesMet(queue, current)

\* No transition of the coordinator raises (transition_stage_task refuses a step
\* outside its table with a ValueError, which would end the drain).
DrainNeverRaises ==
  /\ \A n \in Node :
       LET row == queue.stage[n] s == working[n] IN
       /\ flight[n] = "ready" /\ row[s] # "FAILED" =>
            TransitionAllowed(row, s, "READY_TO_MERGE")
       /\ flight[n] \in {"failed", "interrupted"} => TransitionAllowed(row, s, "FAILED")
       /\ visual[n] = "analyzing" => VisualStatus(n) = "RUNNING"
  /\ coord \in {"merging", "landed"} =>
       /\ TransitionAllowed(queue.stage[current[1]], current[2], "PUBLISHED")
       /\ ~CompletionRaises(queue, current[1],
                            IF current[2] = "IMPLEMENTATION" THEN "IMPLEMENT" ELSE "DESIGN")

\* Restored publications that wait for a reopened stage hold every slot.
Clogged ==
  \/ Cardinality(ReadyToMerge(queue)) >= MaxConcurrent
  \/ Cardinality(ReadyToMerge(queue)) >= MaxReadyToMerge

\* Nobody attends to an analysis that a retry of the run reopens for a node
\* without references, nor, without ARC_VISUAL_PRECOMPUTE, to one that waited for
\* its next attempt when the process died.
Unattended(n) ==
  \/ n \notin HasReferences /\ retried
  \/ ~Precompute /\ VisualStatus(n) = "RETRY_WAIT"

\* A retry of kind "design" resets the three design rows only, so what failed
\* with the design, the IMPLEMENTATION row, is BLOCKED for good behind the gate
\* that the new design opens.
Stranded(t) ==
  t[2] = "IMPLEMENTATION" /\ StatusOf(queue, t) = "BLOCKED" /\ queue.state[t[1]] = "DESIGNED"

\* A run does not end with a stage that waits or is blocked behind an open gate,
\* with a publication that could be merged or with an analysis that is not over,
\* but for what Clogged, Stranded and Unattended name.
NothingForgotten ==
  coord = "ended" =>
    /\ \A t \in StageTask :
         \/ StatusOf(queue, t) = "PENDING" /\ ~Clogged
         \/ StatusOf(queue, t) = "BLOCKED" /\ ~Stranded(t)
         => ~PrerequisitesMet(queue, t)
    /\ \A t \in ReadyToMerge(queue) : ~PrerequisitesMet(queue, t)
    /\ \A n \in Node : VisualStatus(n) \in {"PENDING", "RUNNING", "RETRY_WAIT"} => Unattended(n)

\* reset_node_for_retry says of the kind "design" that both phases re-run, so no
\* implementation stays BLOCKED behind its open gate.  It does: the code leaves it there.
BothPhasesRerun ==
  coord = "ended" =>
    \A n \in Node : queue.stage[n]["IMPLEMENTATION"] = "BLOCKED"
                      => ~PrerequisitesMet(queue, <<n, "IMPLEMENTATION">>)

\* Every invocation comes to an end.
RunEnds == Running ~> ~Running

=============================================================================
