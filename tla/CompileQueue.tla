----------------------------- MODULE CompileQueue -----------------------------
(***************************************************************************)
(* One compilation of a requirement tree and its resumes: the coordinator  *)
(* of core/workflow.py draining the DESIGN/IMPLEMENT tasks of the queue,   *)
(* serially in the shared workspace or, with worktrees, several at a time. *)
(*                                                                         *)
(* An action is the code between two points where the event loop can run   *)
(* something else: a coroutine that waits for a worker thread (opening a   *)
(* worktree, merging, settling), for the merge lock or for its phase to    *)
(* run.  Each action that changes the queue saves it before it yields;     *)
(* where a session file is written before the queue is saved, the save is  *)
(* a step of its own so that the process may die in between.               *)
(***************************************************************************)
EXTENDS QueueState

CONSTANTS
  Affinity,          \* [node -> its affinity group]
  TaskOrder,         \* [<<node, phase>> -> position in the flat order]
  ParallelMode,      \* worktrees per task
  MaxConcurrent,     \* ARC_MAX_CONCURRENT_TASKS
  DesignPipelining,  \* ARC_DESIGN_GATE_PIPELINE
  AutoTddRetry,      \* ARC_AUTO_TDD_RETRY
  OutageThreshold,   \* ARC_PROVIDER_OUTAGE_THRESHOLD, 0 turns the breaker off
  Results,           \* the result states a successful IMPLEMENT may reach
  RetrySets,         \* the node sets an operator may pass to --retry
  MaxCrashes,        \* bound on the number of process deaths
  MaxStarts,         \* bound on the number of compiler invocations
  MaxOutages         \* bound on the number of outage errors

ASSUME DrainAssumption ==
  /\ Affinity \in [Node -> Node]
  /\ TaskOrder \in [Node \X Phase -> Nat]
  /\ ParallelMode \in BOOLEAN /\ DesignPipelining \in BOOLEAN /\ AutoTddRetry \in BOOLEAN
  /\ MaxConcurrent \in Nat \ {0}
  /\ ~ParallelMode => MaxConcurrent = 1
  /\ OutageThreshold \in Nat
  /\ Results \subseteq CompletedStates /\ Results # {}
  /\ RetrySets \subseteq SUBSET Node
  /\ MaxCrashes \in Nat /\ MaxStarts \in Nat /\ MaxOutages \in Nat

VARIABLES
  queue,       \* the queue in the memory of the running process
  saved,       \* .arc/processing_queue.json
  unsaved,     \* a session was written, the queue it belongs to not yet
  spent,       \* [node -> the phase whose conflict requeue the session records]
  testFailed,  \* nodes with a test/failed record in runner-events.jsonl
  landed,      \* tasks whose work is on the integration HEAD
  coord,       \* where the coordinator is
  retried,     \* the run has already had its automatic TDD retry
  flight,      \* [node -> where its in-flight task is]
  outage,      \* the breaker of the provider: status and count of observations
  deferred,    \* provider_outage_deferred_task_ids
  outages, crashes, starts   \* counters the bounds apply to

queueVars == <<queue, saved, unsaved>>
outageVars == <<outage, deferred, outages>>
recordVars == <<spent, testFailed, landed>>
counters == <<crashes, starts>>
vars == <<queueVars, recordVars, coord, retried, flight, outageVars, counters>>

Task == Node \X Phase

\* "refill" and "waiting" are the two halves of the drain loop, "drained" its
\* exit; "saving" is a retry reset the queue of which is not yet written.
CoordinatorState == {"idle", "saving", "refill", "waiting", "drained", "ended"}

FlightState ==
  {"none", "opening", "running", "merging", "landed", "resetting", "requeued",
   "settling", "finished"}

\* An operator invocation runs; "idle" and "ended" have no process.
Running == coord \notin {"idle", "ended"}

InFlight == {n \in Node : flight[n] # "none"}

OutageOpen == outage.status = "OPEN"

\* The phase of the task that is in flight on n, while its node says so.
PhaseInFlight(n) == IF queue.state[n] = "DESIGNING" THEN "DESIGN" ELSE "IMPLEMENT"

-----------------------------------------------------------------------------
(* Scheduling: core/scheduling.py *)

DependenciesSatisfied(q, n, p) ==
  \A d \in Dependencies[n] :
    IF p = "DESIGN" /\ DesignPipelining
    THEN DesignStatusOf(q, d) = "COMPLETED"
    ELSE ImplementStatusOf(q, d) = "COMPLETED"

\* task_dependencies_met
DependenciesMet(q, n, p) ==
  /\ DependenciesSatisfied(q, n, p)
  /\ p = "DESIGN" =>
       (n \in DOMAIN Parents => DesignStatusOf(q, Parents[n]) \in {"COMPLETED", "FAILED"})
  /\ p = "IMPLEMENT" =>
       /\ DesignStatusOf(q, n) = "COMPLETED"
       /\ \A d \in Descendants[n] : ImplementStatusOf(q, d) = "COMPLETED"

PendingTasks(q) ==
  {t \in Task : TaskStatus(q, t[1], t[2]) = "PENDING" /\ t \notin deferred
                /\ t[1] \notin InFlight}

Runnable(q) == {t \in PendingTasks(q) : DependenciesMet(q, t[1], t[2])}

\* next_runnable_task: the first one of the flat order.
NextRunnableTask(q) ==
  {t \in Runnable(q) : \A u \in Runnable(q) : TaskOrder[t] <= TaskOrder[u]}

DependentGroups(g) ==
  {Affinity[n] : n \in {m \in Node : \E d \in Dependencies[m] : Affinity[d] = g}}

\* next_affinity_task: a free group, the heaviest first, in the flat order.
NextAffinityTask(q) ==
  LET weight(t) == LET g == Affinity[t[1]] IN
        Cardinality({u \in PendingTasks(q) :
                       Affinity[u[1]] \in {g} \cup DependentGroups(g)})
      free == {t \in Runnable(q) : \A m \in InFlight : Affinity[m] # Affinity[t[1]]}
  IN  {t \in free : \A u \in free :
         \/ weight(t) > weight(u)
         \/ weight(t) = weight(u) /\ TaskOrder[t] <= TaskOrder[u]}

NextTask(q) == IF MaxConcurrent > 1 THEN NextAffinityTask(q) ELSE NextRunnableTask(q)

-----------------------------------------------------------------------------
Init ==
  /\ queue = FreshQueue
  /\ saved = FreshQueue
  /\ unsaved = FALSE
  /\ spent = [n \in Node |-> "none"]
  /\ testFailed = {}
  /\ landed = {}
  /\ coord = "idle"
  /\ retried = FALSE
  /\ flight = [n \in Node |-> "none"]
  /\ outage = [status |-> "NONE", count |-> 0]
  /\ deferred = {}
  /\ outages = 0
  /\ crashes = 0
  /\ starts = 0

\* The queue changes and is saved before control is given up.
Store(q) == queue' = q /\ saved' = q /\ unsaved' = FALSE

Move(n, from, to) == flight[n] = from /\ flight' = [flight EXCEPT ![n] = to]

-----------------------------------------------------------------------------
(* The coordinator: compile_requirement_tree and _drain_runnable_tasks *)

\* The retries an invocation may ask for: none, --retry-failed, --retry <ids>.
RetryRequests(q) == {{}, RetryFailedIds(q)} \cup RetrySets

\* A compilation that loads the queue: recovery, then the retry plan, then the
\* release of the blocks the plan lifted.  Sessions are patched on the way, so
\* the queue is saved by the next step.
LoadAndPrepare(S) ==
  LET recovered == RecoverInterrupted(saved)
      reset == ResetNodes(recovered, S)
  IN  /\ queue' = IF S = {} THEN recovered ELSE ReleaseDependencyBlocks(reset)
      /\ spent' = [n \in Node |-> IF n \in S THEN "none" ELSE spent[n]]
      /\ unsaved' = TRUE
      /\ coord' = "saving"
      /\ starts' = starts + 1
      /\ retried' = FALSE
      /\ UNCHANGED <<saved, testFailed, landed, flight, outages, crashes>>

FirstStart ==
  /\ ~Running /\ starts = 0 /\ starts < MaxStarts
  /\ LoadAndPrepare({})
  /\ UNCHANGED <<outage, deferred>>

\* --resume.  An open breaker needs a passing health check; without an open
\* breaker the deferred tasks get a fresh pass.
Resume ==
  /\ ~Running
  /\ starts > 0 /\ starts < MaxStarts
  /\ deferred' = {}
  /\ outage' = IF OutageOpen THEN [outage EXCEPT !.status = "RECOVERED"] ELSE outage
  /\ \E S \in RetryRequests(RecoverInterrupted(saved)) : LoadAndPrepare(S)

\* --resume while the provider is still unreachable: nothing else runs.
ResumeUnhealthy ==
  /\ ~Running
  /\ starts > 0 /\ starts < MaxStarts
  /\ OutageOpen
  /\ coord' = "ended"
  /\ queue' = saved
  /\ starts' = starts + 1
  /\ UNCHANGED <<saved, unsaved, recordVars, retried, flight, outageVars, crashes>>

SaveQueue ==
  /\ coord = "saving"
  /\ Store(queue)
  /\ coord' = "refill"
  /\ UNCHANGED <<recordVars, retried, flight, outageVars, counters>>

\* One turn of the refill loop that starts a task.
Dispatch ==
  /\ coord = "refill"
  /\ ~OutageOpen
  /\ Cardinality(InFlight) < MaxConcurrent
  /\ \E q \in {PropagateDependencyBlocks(queue)} :
       \E t \in NextTask(q) :
         /\ Store(BeginTask(q, t[1], t[2]))
         /\ flight' = [flight EXCEPT ![t[1]] = IF ParallelMode THEN "opening" ELSE "running"]
  /\ coord' = IF MaxConcurrent > 1 THEN "refill" ELSE "waiting"
  /\ UNCHANGED <<recordVars, retried, outageVars, counters>>

\* The refill loop finds nothing to start, or is not entered.
StopRefill ==
  /\ coord = "refill"
  /\ \E q \in {PropagateDependencyBlocks(queue)} :
       LET enter == ~OutageOpen /\ Cardinality(InFlight) < MaxConcurrent
           drained == InFlight = {}
       IN  /\ enter => NextTask(q) = {}
           /\ coord' = IF drained THEN "drained" ELSE "waiting"
           /\ IF enter \/ (drained /\ MaxConcurrent > 1) THEN Store(q)
                                                         ELSE UNCHANGED queueVars
  /\ UNCHANGED <<recordVars, retried, flight, outageVars, counters>>

\* asyncio.wait(FIRST_COMPLETED): the finished tasks leave the in-flight map.
Reap ==
  /\ coord = "waiting" /\ ~unsaved
  /\ \E n \in Node : flight[n] = "finished"
  /\ flight' = [n \in Node |-> IF flight[n] = "finished" THEN "none" ELSE flight[n]]
  /\ coord' = "refill"
  /\ UNCHANGED <<queueVars, recordVars, retried, outageVars, counters>>

\* _prepare_auto_tdd_retry: once per run, every node that has a test/failed
\* record and is FAILED now is reset, and the blocks it caused are released.
TddRetryIds == {n \in testFailed : queue.state[n] = "FAILED"}

AutoRetry ==
  /\ coord = "drained" /\ AutoTddRetry /\ ~retried /\ TddRetryIds # {}
  /\ queue' = ReleaseDependencyBlocks(ResetNodes(queue, TddRetryIds))
  /\ spent' = [n \in Node |-> IF n \in TddRetryIds THEN "none" ELSE spent[n]]
  /\ unsaved' = TRUE
  /\ coord' = "saving"
  /\ retried' = TRUE
  /\ UNCHANGED <<saved, testFailed, landed, flight, outageVars, counters>>

EndRun ==
  /\ coord = "drained"
  /\ AutoTddRetry /\ ~retried => TddRetryIds = {}
  /\ coord' = "ended"
  /\ UNCHANGED <<queueVars, recordVars, retried, flight, outageVars, counters>>

\* The process dies: the memory and the in-flight tasks are gone.
Crash ==
  /\ Running /\ crashes < MaxCrashes
  /\ queue' = saved
  /\ unsaved' = FALSE
  /\ coord' = "idle"
  /\ flight' = [n \in Node |-> "none"]
  /\ crashes' = crashes + 1
  /\ UNCHANGED <<saved, recordVars, retried, outageVars, starts>>

-----------------------------------------------------------------------------
(* A task: _execute_task.  It can only run while the coordinator waits. *)

\* Where a task goes when its node is settled: the worktree is still there.
AfterVerdict == IF ParallelMode THEN "settling" ELSE "finished"

\* The verdict that fails the node.  test/failed is recorded by IMPLEMENT.
FailVerdict(n) ==
  /\ Store(FailTask(queue, n))
  /\ testFailed' = IF queue.state[n] = "IMPLEMENTING" THEN testFailed \cup {n} ELSE testFailed
  /\ UNCHANGED <<spent, landed>>

\* The verdict that completes the phase.
CompleteVerdict(n) ==
  LET p == PhaseInFlight(n) IN
  /\ ~CompletionRaises(queue, n, p)
  /\ \E r \in Results : Store(CompleteTask(queue, n, p, r))
  /\ UNCHANGED <<spent, testFailed>>

OpenWorkspace(n) ==
  /\ Move(n, "opening", "running")
  /\ UNCHANGED <<queueVars, recordVars, outageVars>>

OpenFails(n) ==
  /\ Move(n, "opening", "finished")
  /\ FailVerdict(n)
  /\ UNCHANGED outageVars

PhaseSucceeds(n) ==
  /\ UNCHANGED outageVars
  /\ IF ParallelMode
     THEN Move(n, "running", "merging") /\ UNCHANGED <<queueVars, recordVars>>
     ELSE /\ Move(n, "running", "finished")
          /\ CompleteVerdict(n)
          /\ landed' = landed \cup {<<n, PhaseInFlight(n)>>}

\* The phase reports a failure or raises; its worktree is not merged.
PhaseFails(n) ==
  /\ Move(n, "running", AfterVerdict)
  /\ FailVerdict(n)
  /\ UNCHANGED outageVars

\* Under the merge lock, so one at a time, a worker thread moves the integration
\* HEAD ...
MergeLands(n) ==
  /\ Move(n, "merging", "landed")
  /\ landed' = landed \cup {<<n, PhaseInFlight(n)>>}
  /\ UNCHANGED <<queueVars, spent, testFailed, outageVars>>

\* ... and the coroutine, which gives the lock back and looks for contract drift
\* first, then completes the task: another one may land in between.
MergeCompletes(n) ==
  /\ Move(n, "landed", "settling")
  /\ CompleteVerdict(n)
  /\ UNCHANGED <<landed, outageVars>>

\* _merge_conflict_requeue_available: one requeue per phase.
RequeueAvailable(n) == spent[n] # PhaseInFlight(n)

MergeConflicts(n) ==
  /\ UNCHANGED outageVars
  /\ IF RequeueAvailable(n)
     THEN Move(n, "merging", "resetting") /\ UNCHANGED <<queueVars, recordVars>>
     ELSE Move(n, "merging", "settling") /\ FailVerdict(n)

\* Variant for testing KeepsContract: a failed integration is only logged.
MergeErrorIgnored(n) ==
  /\ Move(n, "merging", "settling")
  /\ CompleteVerdict(n)
  /\ UNCHANGED <<landed, outageVars>>

\* A WorktreeError or a failed health gate: there is no second chance.
MergeErrors(n) ==
  /\ Move(n, "merging", "settling")
  /\ FailVerdict(n)
  /\ UNCHANGED outageVars

\* Variant for testing RunEnds: the requeue does not spend the budget.
BudgetKept(n) == spent

\* merge_conflict_retry_used with the phase in merge_conflict_context.
BudgetSpent(n) == [spent EXCEPT ![n] = PhaseInFlight(n)]

\* Variant for testing PrerequisitesHold: an implementation that conflicts has its
\* design queued again as well.
RequeueEverything(n) == "design"

\* The phase that conflicted is queued again; "DESIGN artifacts are NOT cleared".
RequeueKind(n) == IF PhaseInFlight(n) = "DESIGN" THEN "design" ELSE "implement"

\* The worktree was reset to the integration HEAD: the phase is queued again,
\* the session records the spent budget, and only then is the queue saved.
Requeue(n) ==
  /\ ~unsaved
  /\ Move(n, "resetting", "requeued")
  /\ queue' = ResetNode(queue, n, RequeueKind(n))
  /\ spent' = BudgetSpent(n)
  /\ unsaved' = TRUE
  /\ UNCHANGED <<saved, testFailed, landed, outageVars>>

SaveRequeue(n) ==
  /\ Move(n, "requeued", "finished")
  /\ Store(queue)
  /\ UNCHANGED <<recordVars, outageVars>>

\* The worktree could not be reset: the requeue is declined.
RequeueDeclined(n) ==
  /\ Move(n, "resetting", "settling")
  /\ FailVerdict(n)
  /\ UNCHANGED outageVars

Settle(n) ==
  /\ Move(n, "settling", "finished")
  /\ UNCHANGED <<queueVars, recordVars, outageVars>>

\* _handle_provider_outage_task: the breaker counts the observation, the task
\* returns to the queue and, unless the breaker opened, waits for the next pass.
ObserveOutage(n) ==
  /\ OutageThreshold > 0 /\ outages < MaxOutages
  /\ Move(n, "running", AfterVerdict)
  /\ Store(RecoverInterruptedTask(queue, n))
  /\ \E sameWindow \in IF outage.status \in {"OBSERVED", "OPEN"} THEN BOOLEAN ELSE {FALSE} :
       LET count == IF sameWindow THEN outage.count + 1 ELSE 1
           opened == count >= OutageThreshold
       IN  /\ outage' = [status |-> IF opened THEN "OPEN" ELSE "OBSERVED", count |-> count]
           /\ deferred' = (IF sameWindow THEN deferred ELSE {})
                            \cup (IF opened THEN {} ELSE {<<n, PhaseInFlight(n)>>})
  /\ outages' = outages + 1
  /\ UNCHANGED recordVars

TaskStep(n) ==
  /\ coord = "waiting"
  /\ unsaved => flight[n] = "requeued"
  /\ \/ OpenWorkspace(n) \/ OpenFails(n)
     \/ PhaseSucceeds(n) \/ PhaseFails(n) \/ ObserveOutage(n)
     \/ MergeLands(n) \/ MergeCompletes(n) \/ MergeConflicts(n) \/ MergeErrors(n)
     \/ Requeue(n) \/ SaveRequeue(n) \/ RequeueDeclined(n)
     \/ Settle(n)
  /\ UNCHANGED <<coord, retried, counters>>

Coordinate == SaveQueue \/ Dispatch \/ StopRefill \/ Reap \/ AutoRetry \/ EndRun

Environment == FirstStart \/ Resume \/ ResumeUnhealthy \/ Crash

Next == Environment \/ Coordinate \/ \E n \in Node : TaskStep(n)

\* The event loop runs what is ready and a phase returns (its model calls and
\* commands have time-outs); nobody promises that an operator resumes a run, and
\* nothing is assumed about which of several ready tasks goes first.
Fairness == WF_vars(Coordinate \/ \E n \in Node : TaskStep(n))

Spec == Init /\ [][Next]_vars /\ Fairness

-----------------------------------------------------------------------------
(* Properties *)

TypeOK ==
  /\ queue \in Queue /\ saved \in Queue /\ unsaved \in BOOLEAN
  /\ spent \in [Node -> Phase \cup {"none"}]
  /\ testFailed \subseteq Node
  /\ landed \subseteq Task
  /\ coord \in CoordinatorState /\ retried \in BOOLEAN
  /\ flight \in [Node -> FlightState]
  /\ outage \in [status : {"NONE", "OBSERVED", "OPEN", "RECOVERED"}, count : Nat]
  /\ deferred \subseteq Task
  /\ outages \in Nat /\ crashes \in Nat /\ starts \in Nat

\* A node is BLOCKED_BY_DEPENDENCY only while one of the nodes it waits for is
\* failed or blocked: no retry, requeue, recovery or crash leaves a block behind
\* whose cause is gone (_release_dependency_blocks was added for such a run).
NoStaleBlock ==
  \A n \in Node : queue.state[n] = "BLOCKED_BY_DEPENDENCY"
                    => FailedPrerequisites(queue, n) # {}

\* A task in flight stands on finished work for as long as it runs, whatever
\* happens to other nodes meanwhile: an IMPLEMENT on its own DESIGN and on the
\* IMPLEMENT of all its descendants and dependencies, a DESIGN on its parent's
\* settled DESIGN and on its dependencies (task_dependencies_met).
PrerequisitesHold ==
  \A n \in Node :
    queue.state[n] \in InFlightStates /\ Running =>
      /\ DependenciesSatisfied(queue, n, PhaseInFlight(n))
      /\ queue.state[n] = "IMPLEMENTING" =>
           /\ queue.designDone[n]
           /\ \A d \in Descendants[n] : ImplementStatusOf(queue, d) = "COMPLETED"
      /\ queue.state[n] = "DESIGNING" /\ n \in DOMAIN Parents =>
           DesignStatusOf(queue, Parents[n]) \in {"COMPLETED", "FAILED"}

\* What the saved queue reports as completed is on the integration HEAD: a
\* resume never skips work that was only ever in a worktree.
CompletedIsLanded ==
  \A n \in Node, p \in Phase : TaskStatus(saved, n, p) = "COMPLETED" => <<n, p>> \in landed

\* Completed work is never undone except by an invocation that asks for it: not
\* by a crash, a requeue, an outage, a block or the automatic TDD retry.
DoneStaysDone ==
  [][starts' = starts =>
       \A n \in Node, p \in Phase :
         TaskStatus(queue, n, p) = "COMPLETED" => TaskStatus(queue', n, p) = "COMPLETED"]_vars

\* Every invocation comes to an end: conflict requeues, outage requeues and the
\* automatic retry cannot keep a run going for ever.
RunEnds == Running ~> ~Running

-----------------------------------------------------------------------------
(* The contract of module Compilation, and how a drain keeps it *)

\* What task_dependencies_met asks for, task by task, save for the parent's
\* DESIGN, which may also have failed (PrerequisitesHold has that part).
TaskNeeds ==
  [t \in Task |->
     LET n == t[1] IN
     IF t[2] = "DESIGN"
     THEN Dependencies[n] \X {IF DesignPipelining THEN "DESIGN" ELSE "IMPLEMENT"}
     ELSE {<<n, "DESIGN">>} \cup (Prerequisites(n) \X {"IMPLEMENT"})]

FinishedIn(q) == {t \in Task : TaskStatus(q, t[1], t[2]) = "COMPLETED"}

\* The node of a process that died may still say that its task runs.
RunningTasks ==
  {t \in Task : /\ Running /\ queue.state[t[1]] \in InFlightStates
                /\ t[2] = PhaseInFlight(t[1])}

Contract == INSTANCE Compilation WITH
              Needs <- TaskNeeds, open <- Running, running <- RunningTasks,
              finished <- FinishedIn(queue), kept <- FinishedIn(saved)

\* The drain keeps the contract: seen through its queue, its file and HEAD, every
\* step of the coordinator, of a task, of a resume and of a crash is a step the
\* contract allows, or none at all.
KeepsContract == Contract!Spec
=============================================================================
