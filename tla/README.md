# A formal model of arc-agent

TLA+ modules, TLC runs and TLAPS proofs about arc-agent: the processing queue and
the two drains that work it off (`core/queue_state.py`, `core/scheduling.py`,
`core/workflow.py`), the isolated workspaces (`core/worktree.py`), the phases of a
node and their test loop (`core/phases.py`, `core/test_executor.py`), and the
control around the model sessions (`agents/`, `app_type_handler/`). Paths below are
relative to `src/`.

1. [The system](#1-the-system) – inventory of parts, state, operations, interactions
2. [Modules](#2-modules) – which module models which part, and how
3. [Runs](#3-runs) – what TLC checks, bounds, fairness
4. [What the models show beyond the runs](#4-what-the-models-show-beyond-the-runs)
5. [Proofs](#5-proofs) – what TLAPS proves, from what, along which argument
6. [What is not modelled](#6-what-is-not-modelled)
7. [Plan](#7-plan)

To repeat: `tlc -config drain_serial.cfg MCCompileQueue.tla` (each run's module
and cfg are in `PROJECT.json`), `tlapm TaskWorkspaceProofs.tla`.

## 1. The system

arc-agent compiles a tree of requirements into an application. Every node of the
tree has two tasks, DESIGN and IMPLEMENT, split into formal stages (visual analysis,
interface design, test generation, implementation). LLM agents do the work; the
coordinator decides what runs when and records what came of it. The coordinator
is one asyncio event loop; git and file work runs in worker threads.

| Part | State it keeps | Operations | Talks to |
|---|---|---|---|
| Requirement tree maps (`core/queue_state.py`, builders) | none; derives order, parents, descendants, affinity groups and dependencies, drops edges that are cyclic | `build_*`, `break_dependency_cycles` | the queue is created from them |
| Queue state (`core/queue_state.py`) | node states, `node_design_done`, stage rows; saved to `.arc/processing_queue.json` | begin, complete, fail, block, release, recover, reset, stage transitions; load, migrate, quarantine | called by the workflow only; reports node states to traceability |
| Scheduling (`core/scheduling.py`) | none; reads the queue and what is in flight | gates and pickers of both drains, overlap rules, backpressure | asked by the drains |
| Task drain (`core/workflow.py`) | in-flight map, port slots, merge lock, the one automatic retry | `compile_requirement_tree`, `_drain_runnable_tasks`, `_execute_task`, conflict requeue, outage handling | everything else |
| Stage drain, the default (`core/workflow.py`, `core/stage_*.py`) | in-flight stages, stage workspaces, FIFO merge queue, visual analyses | `_drain_stage_tasks`, publish, rehydrate | queue, stage worktrees |
| Provider outage breaker (`core/provider_outage.py`) | status, fingerprint, window and count, in the queue file | observe, open, recover, defer | drain and resume |
| Worktree manager (`core/worktree.py`) | directories and branches (git), quarantine set and gate (memory) | prepare, commit, integrate, settle, reset, cleanup, mid-phase replay | the task drain, merge arbitration |
| Rebase gate, file claims (`agents/runtime/rebase_gate.py`, `core/file_claims.py`) | pending merges, rebase in progress, claims of new files | replay before a file call, forced resolution; claim, release, refresh | worktree manager, file tools |
| Phases (`core/phases.py`) | node sessions, traceability rows, baseline of tests | interface design, test generation with repair rounds, IMPLEMENT | agents, test executor, store |
| Automatic TDD retry (`core/tdd_retry.py`) | none; scans the event log | `scan_test_failures` | the workflow, once per run |
| Test executor (`core/test_executor.py`) | layers, budgets, last results, the active layer | `run_tests` calls of a session, full runs, re-verification | phases, handlers |
| Stage agents (`agents/interface_designer.py`, …) | one thread per pass | a session and its repair questions | model adapter, phases |
| Stage discipline, tools (`agents/runtime/stage_discipline.py`, `agents/tools/`) | budgets, locks, manifest of one pass | validate, reserve, record every file call | file tools |
| Model adapter (`agents/model/`) | failures per endpoint, streaming mark (process-wide) | one model call | provider |
| App handlers (`app_type_handler/`) | build cache, server session, databases | build, serve, seed, run an E2E suite | executor |
| Event and traceability SDK (`arcbench_agent_runtime/`) | append-only events, JSON tables | append, upsert, replay | everyone writes, retry reads |
| Sessions, command line, config, logs | `.arc` session files | merge; `compile`, `--resume`, `--retry`, `--retry-failed` | phases, workflow |

**What is hard here**

* *Interleaving.* With more than one slot, stages and tasks suspend in git threads and
  in the merge lock while siblings fail, block, requeue or finish. The tools of one
  agent's batch run in parallel threads.
* *Stale derived state.* A node's block, its stage rows, a session field, a row of a
  test, a cached build and a record of a failed test outlive what caused them. A
  retry has to undo the right ones, for a history nobody wrote down.
* *Crash and resume.* Merge, session, store and queue are written one after the other.
* *Partial failure.* Any git command of a replay, any process of a test attempt and
  any model session may fail between two others.
* *Liveness.* Requeues, second drains and retries put finished work back. Gates may
  wait for something that will not come.
* *Budgets.* Retries, repairs, sessions and writes are counted in several places that
  must agree.

**What makes each part correct**

* Queue: nothing stays blocked without a cause; completed work is never undone
  except on request; no update raises mid-drain; what is loaded loses no progress.
* Drains: what runs stands on finished work all the while; every run ends and forgets
  nothing; what is saved as completed or published is integrated.
* Worktrees: a task owns its directory; checkouts and merges exclude each other (but
  for one operation, see 4);
  uncommitted work is never lost; slots never run out. A replay never loses an edit,
  and two tasks never create rival versions of a file.
* Phases: tests prove themselves red before the implementation; what is registered
  is what was published; what is called converged is covered.
* Test loop: only a full run closes a layer; budgets neither cut a pass short nor
  hide a late fix.
* Agents: budgets hold for batches; what is registered exists; files that were
  designed lead to contracts.
* Adapter: a call sends a bounded number of requests, a dead endpoint is left alone
  and reported as an outage.
* E2E: a green suite saw the present sources, a seeded database and a server that
  was cleaned up.

`PROJECT.json` lists each hazard at its source line, with the properties for it and
what they leave out.

## 2. Modules

| Module | Models | Depends on |
|---|---|---|
| `TreeNodes`, `RequirementTree` | the maps derived from the tree: order, parents, descendants, affinity, dependencies, stage order | – |
| `DependencyGraph` | which declared edges are dropped, and why | – |
| `QueueState` | the queue as a record and each transition of `queue_state.py` as an operator | `TreeNodes` |
| `StageGates` | when a stage may start or be published | `QueueState` |
| `QueueLoading` | loading, migrating and quarantining a saved queue | `StageGates`, `DependencyGraph` |
| `Compilation` | what a compilation promises, seen from outside: the abstract specification `CompileQueue` implements | – |
| `CompileQueue` | scheduling, coordinator and tasks of the task drain | `QueueState`; instantiates `Compilation` |
| `StagePipeline` | coordinator, stage workers, merge queue and visual analyses of the stage drain | `StageGates` |
| `TaskWorkspace` | directories, branches, gate, merges, slots of a parallel task drain | – |
| `MidPhaseReplay` | replay of siblings' merges into running tasks, forced resolution, claims of new files | – |
| `NodePhases` | what the stages of a node do to session, store and queue | `StageGates` |
| `TddLayers` | the test layers of one IMPLEMENT and their sessions | – |
| `DesignContracts` | one pass of the interface designer | – |
| `StageDiscipline` | budgets, locks and manifest of one agent pass | – |
| `ModelCalls` | the retry engine of the model adapter | – |
| `E2ERuntime` | E2E attempts: build cache, server, databases | – |
| `MC…` | a small instance of the module it is named after | that module |
| `QueueLemmas` | lemmas about the operators of `QueueState` that the three proofs about queues share | `QueueState` |
| `CompileQueueProofs`, `MidPhaseReplayProofs`, `TaskWorkspaceProofs`, `TddLayersProofs` | lemmas and theorems about the module each is named after | that module; `CompileQueueProofs` also `QueueLemmas` |
| `StagePipelineProofs` | lemmas and theorems about `StagePipeline` and, from "QueueLoading: the edges" on, about `QueueLoading` and `DependencyGraph` | those, `QueueLemmas` |
| `StageAgentsProofs` | lemmas and theorems about `DesignContracts`, `StageDiscipline` and `NodePhases` | those, `QueueLemmas` |
| `ServerProofs` | lemmas and theorems about `E2ERuntime` and `ModelCalls` | those |

A component that shares its proof module with another names its specification for
itself: `LoadSpec` (`QueueLoading`), `GraphSpec` (`DependencyGraph`), `ContractsSpec`
(`DesignContracts`), `PassSpec` (`StageDiscipline`), `CallsSpec` (`ModelCalls`); the
others have `Spec`.

**QueueState.** A queue is a record of `state` (node states), `designDone` and
`stage` (rows). Like the code, it never stores DESIGN/IMPLEMENT statuses:
`TaskStatus` projects them. `BeginTask`, `CompleteTask`, `FailTask`,
`RecoverInterruptedTask`, `ResetNode` are the functions of the same names. The
fixpoints of `propagate_dependency_blocks` and `release_dependency_blocks` are the
largest and smallest closed sets of nodes: the code computes them by sweeps, every
sweep order gives the same set, and with sets they can be reasoned about. A row
update that the table `_STAGE_ALLOWED_TRANSITIONS` forbids is dropped
(`SetIfAllowed`), as in the code; `complete_task` raises when the last row update is
forbidden (`CompletionRaises`).

**CompileQueue.** `queue` is the dictionary in memory, `saved` the file. An action is
the code between two points where the event loop can run something else. Where a
session is written before the queue (`Requeue`, `LoadAndPrepare`) the save is a step
of its own so that a crash may come between. `FirstStart`, `Resume` (with
`--retry-failed` or `--retry <ids>`), `ResumeUnhealthy` and `Crash` are the
environment. `ParallelMode = FALSE` is the shared workspace. An agent's work is its
verdict.

**Compilation.** What an observer sees who knows nothing of node states, rows, blocks,
worktrees and merges: whether an invocation runs (`open`), which tasks are `running`,
which are `finished` in memory and which the file `kept`, and whose work has `landed`.
A task begins on finished prerequisites (`Needs`) and not again once it is finished; it
finishes only with its work on HEAD, and the file says so in the same step; only an
invocation takes finished work back; a death loses what runs and nothing that is saved.
`CompileQueue` instantiates it as `Contract`: `finished` and `kept` are `FinishedIn` of
the queue in memory and of the file, `running` the tasks whose nodes are in flight while
a process lives, `Needs` what `task_dependencies_met` asks for except the parent's DESIGN,
which may have failed as well (`PrerequisitesHold` has that part). The contract is about safety
only; that an invocation ends is `RunEnds`.

**StagePipeline.** The same granularity for the default drain. Between two suspension
points the queue is saved whenever it changed, so one variable is memory and file.
`branch` says where the branch of a stage is against its publication and HEAD,
`landed` what is integrated; `Restore` rebuilds the merge queue from them after a crash,
`PublicationDrifts` is a publication that git contradicts. `mergeQueue` is taken in the order of
the stages, but an entry whose prerequisites are reopened waits (`NextReady`). Stage
verdicts include an interrupted one. Visual analyses run beside the drain, are
awaited at its end and retried up to a limit. `Resume` may retry nothing, what failed, or
the named nodes of a set in `RetrySets`.

**QueueLoading.** One file in every combination of situations two nodes may be saved
in, in each of four generations, with unknown values in states or rows, over a map of
edges validated one by one (`DependencyGraph`); then recovery, and one more save and
load. A resume of a quarantined queue is refused; a compilation goes on around what is
quarantined, recovery included. `loadedQueue` is the queue in memory.

**TaskWorkspace.** An item `<<n, k>>` stands for what the k-th task of node n wrote.
A directory is a record of whether it exists, the branch checked out and the
uncommitted items; a branch is its committed items; the integration branch is a
set. A merge is a union, or a conflict when the branches diverged. A checkout
prefers the group's directory (`SelectPath`) and falls back to the node's own;
quarantine is lost in a crash, directories and branches are not. With
`MergeArbitration` (off by default) an implementation that has landed may be found to
drift from its registered contracts: `MergeLands` then leaves the node "drifting",
outside the merge lock and the gate, and `RepairDrift` stages and commits what the
arbiter restored, or leaves it `staged`. An additive or arbitrated resolution inside a
merge is an outcome of `MergeLands`, a merge that fails for any other reason fails the
node in `MergeAborts`. The mid-phase replay is off here, as by default.

**MidPhaseReplay.** A tree gives each file the set of edits in it. What one event-loop
turn does before a tool starts excludes other turns, but not the threads: merges and
tools in flight. A replay commits the work as a checkpoint, rebases, and may stop at
conflicts; while it does, only calls that resolve go through; it continues in rounds
or is taken back. `Register` after `Prepare` leaves the window in which a sibling
lands unseen (`behind`). A directory outlives a task that failed in the middle of a
rebase: git refuses to check the branch out over an unmerged index, but not once a
refused merge has committed that index; then the next task starts with the rebase still
registered (`leftover`), and its first replay ends it (`DropsCheckpoint`). Each task has
a directory of its own; groups are TaskWorkspace's subject.

**NodePhases.** One stage at a time, the process may die between any two steps. A test
file stands for its row; a manifest gives each file a scope. `gate` is the local
state of the baseline gate: what was green, what ran, how many rounds were rejected.
Session and store are written in the order of the code.

**TddLayers.** What an agent edits between two runs is the outcome of the second.
`run_requested` charges the layer and takes the case filter along, awaits its run, and
then records the verdict: `StartRun` is the first part, `RunPasses`, `RunFails` and
`RunBreaks` are the second, and the calls of a batch (`Call`) overlap in any way. `back`
remembers that an answer of another layer than the active one moved the session. A call
may start late in the batch, which allows more than the code; the log lines between two
assignments are awaited by the code and taken not to suspend; a session that is
cancelled with calls in flight is left out.

**DesignContracts.** A row is a contract that can be read off a file, a record what
the model answers. Every session may write and may break the backend. The matching
of answers with rows (`Merge`, `Covered`) follows the order and the paths of the
code, since a record may fill a row of another id.

**StageDiscipline.** A call is validated (units are reserved), works, and is recorded:
three steps that interleave within a batch. `repairs` and `appended` count what
really happened on disk, independently of the code's counters.

**ModelCalls.** A call rides the streamed or the plain transport; `sent` counts its
requests, `asked` those to an endpoint that is down. Without a base URL (`configured`)
a probe sends nothing and reports the endpoint reachable (`Probes`). Both process-wide records
forget after a while (`ForgetFailures`, `ForgetMark`).

**E2ERuntime.** Sources have contents from a small set, edits may restore one, and the
build record and the session of a server are keyed by contents, as the code's hashes
are. A build reads the sources at some moment between its start and its end; `crossed`
remembers the artefacts that read another content than the one hashed for them. Faults: a build that fails or stops half-way,
a server that does not answer, dies or survives, a launcher that dies, a foreign
process on the port, a cleaning that fails.

A git command, a tool call, a session or a process start is one step that succeeds
or fails in the ways the code tells apart. Wording of messages, prompts, log lines
and paths are left out.

## 3. Runs

Each run finishes within about two minutes with two workers.

| Run | Instance and bounds | Shows |
|---|---|---|
| `drain_serial` | root over leaf a and chain b–c, b depends on a; serial; 3 invocations, 1 crash, 2 outage errors with threshold 2, `--retry-failed` and `--retry` of any one node | `NoStaleBlock`, `DoneStaysDone` |
| `drain_parallel` | root over a and b, b depends on a; worktrees, 2 at a time, design pipelining on; 2 invocations, 1 crash | `PrerequisitesHold`, `RunEnds`, `KeepsContract` |
| `stage_pipeline` | root over leaves a and b; 2 slots; references at a, 2 visual attempts; 3 invocations, 2 crashes, `--retry-failed` and `--retry` of one node; a has an earlier failure record | `PublishedIsLanded`, `StandsOnPublished`, `DrainNeverRaises`, `NothingForgotten`, `RunEnds` |
| `queue_load` | root over a–c and b; every subset of seven edges (across, ancestral, to itself, unknown); ten situations of a leaf, each also corrupted in three ways; 4 generations | `KeptIsAcyclic`, `NothingLostForNothing`, `WorkGoesOn` |
| `workspaces` | nodes b and its child c in one group, a in another; 2 at a time; 2 tasks for c, 1 for a and for b; merge arbitration on; 1 retry or crash, 1 failed reset | `ExclusiveTree`, `NeverOutOfSlots`, `CheckoutIsStable`, `LeftoversSurvive`, `TasksSettle` |
| `mid_phase_replay` | two nodes with 2 tasks each, a shared and a new file, 2 writes each, 2 calls in flight, 1 mechanical failure, the gate stands down after 2 conflicts | `StoodDownIsOutside`, `NoRivalCreation`, `CheckpointSurvives` |
| `node_phases` | root with one leaf, 2 test files, 2 rejections, 1 crash, 1 retry, any history of checkpoints | `RenameDoesNotEscape`, `RegisteredIsPublished`, `ConvergedIsCovered` |
| `tdd_layers` | three layers with a file each, two cases in the last; 2 calls of a batch in flight; budget 2, stall threshold 1 | `ClosedIsProved`, `LateFixCounts`, `SessionsSuffice` |
| `design_contracts` | two tables in one file, a service, a page; batches of 2, 2 repair rounds | `NeverBlind`, `SoleRowsRecorded`, `ReturnedBoots` |
| `stage_discipline` | six files of every class; batches of 2; 4, 5 and 3 calls in the three stages; budgets 1, 1, 2 and 2 | `DesignStaysSmall`, `RepairsBounded`, `RegisteredIsReal` |
| `model_calls` | 2 agents, 2 retries, breaker at 4, 2 probe rounds, all three transport modes, with and without a base URL | `AttemptsBounded`, `DeadEndpointSpared`, `DeadIsOutage` |
| `e2e_runtime` | 2 suites, 2 contents of either side, 2 edits, 3 faults, 3 groups | `GreenSawTheSources`, `GreenStartedFromSeed`, `GreenIsClean`, `LivingServerIsHeld` |

Eight definitions state what a document or comment of the repository says and the model
of the code violates; section 4 has the details. They are in no cfg. Add one to the cfg
of its run, in place of the properties there, and TLC shows how it fails.

| Run | Definition |
|---|---|
| `workspaces` | `CheckoutNeverRaced`: what moves the integration branch holds the gate |
| `workspaces` | `DriftBlocksNoMerge`: a failed drift repair leaves the merges alone |
| `stage_pipeline` | `BothPhasesRerun`: a retry of kind `design` re-runs both phases |
| `queue_load` | `UnknownRowsStay`: a stage row with an unknown status is never scheduled |
| `tdd_layers` | `ClosedIsNotRun`: a closed test layer is not charged and run again |
| `model_calls` | `DeadCostsOneRequest`: a dead endpoint costs a call one request |
| `mid_phase_replay` | `AbortRestoresView`: an aborted replay restores what was there before it |
| `e2e_runtime` | `GreenSawTheFrontend`: a cached build is reused for the same sources only |

*Why the bounds are enough.* The serial tree has a leaf, an inner node, a sibling
dependency that holds back a whole subtree and three levels, which is what blocks,
gates and releases distinguish; a block, its retry and a failure of the retried node
need three invocations. Two flights, with both a dependency and a common parent, are
what a merge, a requeue and a completion need to overtake each other. In the stage
drain, two leaves and their parent fill both slots with a publication waiting, and
three invocations let a crash fall before, in and after a restored publication. For
workspaces, two groups make a merge race a checkout and two nodes of one group make a
directory change hands; the task that follows another of its node meets what it left.
In a replay one task suffers two landings of its sibling,
which is one more than the gate needs to stand down after two conflicts in one pass
over two files; a second task of either node meets the rebase of the first. A rebase that
stops, goes on and stops again (`StoppedAgain`) takes a third write of one task, which is
beyond what a run finishes; the theorems about the replay cover it. Two test files are a renamed one and one that stays: the second
rejection follows a first repair. Three layers and two calls
in flight are what an answer needs to come late and find a later layer closed; runs narrowed
to some files of a layer, and a streak of several failures, are not in the run (a layer has
one file, the threshold is 1) and are the theorems' part. A budget above the threshold lets
a layer end by either. Two agents share a breaker whose limit of 4 lies between
the failures of one call and of two. Two suites and two edits make a cached build
and a kept server stale by one edit, and current again by a second that undoes it.

*The contract* is checked on the parallel drain, where tasks land, finish and are given up
side by side, with pipelined designs. Retries and outages, which that run leaves out, are
covered by the theorem, for every instance. That what is saved as completed is on HEAD
(`CompletedIsLanded`) needs no run of its own: it follows from the contract
(`ContractMeansLanded`).

*Symmetry* is used where the members are alike: test files of `node_phases` and
`stage_discipline`, agents of `model_calls`, calls of `tdd_layers`, suites and contents of
`e2e_runtime`; never in a run with a liveness property.

`CHECK_DEADLOCK FALSE` is set because these systems stop: the last invocation ends,
the pass is over, or a bound is reached. `model_calls` never stops and checks deadlock.

*Fairness.* `CompileQueue`, `StagePipeline` and `TaskWorkspace` assume weak fairness
of the whole process (some ready step of the coordinator or of a task is taken): the
event loop runs what is ready and phases, commands and model calls have timeouts.
They assume nothing about which one is taken, nor that an operator resumes. The other
modules state no liveness property.

*Each property has a mutant*: an operator next to the definition it replaces
("Variant for testing …") which changes it the way a plausible bug would, under
which the run fails.

## 4. What the models show beyond the runs

Some behaviour of the code contradicts a document or comment, or would break a
stronger property than the one checked. The model has it; the checked property
excludes it by a named condition, or there is none. A reader of the code should know:

* With `ARC_MERGE_ARBITRATION` on, the repair of drifted contracts commits to the
  integration branch after the merge, without the merge lock and the gate
  (`core/workflow.py:2407-2427`, `core/worktree.py:1473-1491`), while
  `core/worktree.py:18-22` says that what moves the branch holds the gate
  (`CheckoutNeverRaced`). `CheckoutIsStable` exempts that step (`RepairsDrift`).
* A drift repair that is staged and then given up stays staged in the integration
  workspace, and git refuses the merges that follow (`DriftBlocksNoMerge`), although
  `core/workflow.py:2252-2259` calls the check no gate.
* A directory with a rebase that an earlier task left registered is handed out
  (`core/worktree.py:511-514`, `:473`). The first replay of the next task fails there and
  its `git rebase --abort` (`core/worktree.py:1134`) drops the checkpoint just made, against
  `core/worktree.py:1055` and `:1174` (`AbortRestoresView`). `CheckpointSurvives` exempts
  that step.
* Two `run_tests` calls of one batch overlap. An answer for a layer that has passed makes
  the next layer active, also one that is closed by then; it is charged and run
  again, against `core/test_executor.py:829` (`ClosedIsNotRun`). `ClosedIsProved` names
  the case (`back`).
* Without a base URL nothing is probed (`agents/model/openai_api_adapter.py:1664-1668`): a
  call asks a dead endpoint once per retry and ends as a model error, which fails the
  task (`DeadCostsOneRequest`). `DeadEndpointSpared` and `DeadIsOutage` speak of calls with
  a base URL.
* The build record of the frontend names the sources hashed before the build
  (`app_type_handler/e2e_attempt.py:304`, `:344`). An edit during the build that is undone
  later leaves an outdated output that counts as current, and a green verdict may rest on it
  (`GreenSawTheFrontend`). The same holds of the backend's session key (`:851`,
  `app_type_handler/backend_runtime.py:1278`). `GreenSawTheSources` names the case
  (`Mistaken`).
* Recovery of an interrupted node resets a stage row with an unknown status to PENDING
  (`core/queue_state.py:646-652`), so that without `--resume` it is scheduled, against
  `core/queue_state.py:1422` (`UnknownRowsStay`).
* A test pass that declared nothing hands on the rows the model returned untouched
  (`agents/test_generator.py:280`, `agents/tools/test_manifest.py:725`); whether their files
  exist is not looked at. `RegisteredIsReal` speaks of passes that declared something.
* A test file that was green in the first manifest, dropped by one repair round and
  declared again by a later one, or relabelled as owned, is not run again
  (`core/phases.py:1719-1731`). `RenameDoesNotEscape` exempts files of the first manifest.

* `core/worktree.py:908` says that a merged task cannot be mid-rebase. A task whose
  phase ends while its replay is stopped is integrated from its checkpoint; the
  resolution and later files go with its directory (`MidPhaseReplay`, `SettleMerged`).
* `prepare` checks an existing node branch out where its last task left it
  (`core/worktree.py:469`), so the IMPLEMENT of a parent does not see the merged work
  of its children, against `core/worktree.py:7-8`.
* For the node whose id names a group, `prepare` skips the check for other nodes'
  uncommitted work; it then merges what a failed sibling left behind.
* A conflict requeue that is declined releases its port slot twice; two tasks may
  then share one (`TaskWorkspace`, `slotOf`). The slots never run out.
* A stage that cannot reach the provider fails its node (`core/workflow.py:3323`),
  while `docs/configuration.md:58` promises that it stays resumable.
* A retry of kind `design` (`core/queue_state.py:1091`) leaves the IMPLEMENTATION row
  of a node that was blocked as BLOCKED, against `core/queue_state.py:949` and `:975`. In
  the task drain the node passes with it. In the stage drain the row stays BLOCKED behind
  an open gate once the design is published again, and the run ends without it
  (`BothPhasesRerun`; `Stranded` in `NothingForgotten`).
* A node that is blocked before its DESIGN leaves its children PENDING at the end of
  the run: `failed_prerequisite_ids` does not look at the parent.
* A queue file of generation 0 loses completed tasks (`core/queue_state.py:1218`); a
  node that failed before its design is migrated with published rows left pending.
* Publications that wait for a reopened stage can hold every merge slot: the run ends
  with stages that could start (`Clogged` in `StagePipeline`).
* An automatic retry that resets the design of a node without references reopens its
  visual analysis. Only `core/workflow.py:795` skips such an analysis, before the first
  drain; `core/workflow.py:1419` starts those with references only. After the second
  drain the node is left undesigned, its analysis PENDING (`Unattended`).
* With `ARC_VISUAL_PRECOMPUTE` off, an analysis that a crash left in RETRY_WAIT is
  started by nobody, since `core/workflow.py:1419` starts PENDING ones; the run ends
  with the node undesigned (`Unattended`).
* With several rows in one file, a row answered blank is dropped and counts as filled
  through a sibling with the same path, against the comment at
  `agents/interface_designer.py:978` (`SoleRowsRecorded` speaks of rows alone in
  their file).
* A fill session that cannot reach the provider is taken for a bad answer
  (`agents/interface_designer.py:1043`): the design gets mechanical contracts.
* With `ARC_MODEL_MAX_RETRIES=0` no probe is made and a dead endpoint fails the task.
* A delete and another call on one file in one batch are outside the repair budget
  (`StageDiscipline`, `crossed`).
* The last test layer stays active after it passed, and a later failing run of it does
  not take the pass back (`core/test_executor.py:811`).

## 5. Proofs

The theorems hold for every tree, grouping, mode and bound that the named assumptions
of the modules allow (`TreeAssumption`, `DrainAssumption`, `PipelineAssumption`, `GateAssumption`,
`WorkspaceAssumption`, `GraphAssumption`, `CallsAssumption`, `DesignAssumption`,
`LayersAssumption`, `DisciplineAssumption`, `ReplayAssumption`, `PhasesAssumption`). They are as weak as the code justifies: a finite node set,
parents and groups that are nodes, a depth that grows from parent to child, a group
head in its own group. `E2ERuntime` asks only that "none" is no content
(`SourceAssumption`). `OutageReported` and `DeadIsSpared` assume
in their statements what they need of the retry and failure budgets; the defaults of the
code meet it.

| Theorem | States | Argument |
|---|---|---|
| `CompileQueueProofs!TypeCorrect` | `[]TypeOK` | every queue operator yields a queue |
| `CompileQueueProofs!BlocksAreCaused` | `[]NoStaleBlock` | inductive invariant `BlockInv` |
| `…!CompletedHasLanded` | `[]CompletedIsLanded` | `LandedInv`, on top of `BlockInv` |
| `…!PrerequisitesKeepHolding` | `[]PrerequisitesHold` | `StandsInv`, on top of `BlockInv` |
| `…!DoneIsKept` | `DoneStaysDone` | `DoneSaved`, on top of `StandsInv` |
| `…!DrainKeepsContract` | `Spec => KeepsContract`: the drain implements `Compilation` | step by step, from `LandedInv`, `StandsInv`, `DoneSaved` and `ContractInv` |
| `…!ContractMeansLanded` | `KeepsContract => []CompletedIsLanded` | `WorkIsSafe` of `Compilation` is inductive |
| `StagePipelineProofs!Invariance` | `[]Inv`, from which the next five follow | inductive invariant `Inv` |
| `…!TypeCorrect`, `…!PublishedHasLanded` | `[]TypeOK`, `[]PublishedIsLanded` | conjuncts of `Inv` |
| `…!StagesStandOnPublished` | `[]StandsOnPublished` | `FlightOK` and `MergeOK`: every step `Keeps` what gates ask for |
| `…!TransitionsAllowed` | `[]DrainNeverRaises` | `RowsOK`, `FlightOK`, `MergeOK` against the table of transitions |
| `…!NothingIsForgotten` | `[]NothingForgotten` | `RestOK`: a finite set of candidates has a first one |
| `StagePipelineProofs!GraphTypesCorrect` | `GraphSpec => []GraphTypeOK` | by cases of `Visit` |
| `…!KeptStaysAcyclic`, `…!LoadedStaysAcyclic` | `[]KeptIsAcyclic`, of validation alone and of loading | the tree order is acyclic by depth; an edge is added only if its ends do not reach each other |
| `…!NoEdgeLostForNothing` | `[]NothingLostForNothing` | `EdgesInv` (`EdgesInOrder`) |
| `TaskWorkspaceProofs!TypeCorrect` | `[]TypeOK` | `TypeInv`: types by groups of variables, and that a task with a place that needs a directory has one and has been counted |
| `…!CheckoutsAreStable` | `CheckoutIsStable`: only a drift repair moves the branch under a reader | `MergeAlone`: past the gate, a merge sees no reader |
| `…!CheckoutsAreNeverRaced` | `CheckoutNeverRaced`, without merge arbitration | nobody drifts then |
| `…!SlotsNeverLeak` | `[]NeverOutOfSlots` | `SlotOwner`: a held slot is the one a live task carries; pigeonhole |
| `…!DirectoriesAreExclusive` | `[]ExclusiveTree` | inductive invariant `TreeInv` |
| `…!WorkIsNeverLost` | `LeftoversSurvive` | from `TreeInv`: what is removed is empty |
| `MidPhaseReplayProofs!TypeCorrect` | `[]TypeInv` | a conjunct of `Core` |
| `…!StoodDown` | `[]StoodDownIsOutside` | inductive by itself, on the types |
| `…!CheckpointsSurvive` | `CheckpointSurvives` | `Core`: every call of the gates has one of four outcomes |
| `…!NoRivals` | `[]NoRivalCreation` | `Rivals`, on top of `Core` |
| `ServerProofs!CallTypesCorrect` | `CallsSpec => []TypeOK` | every step leaves a call |
| `…!RequestsBounded` | `[]AttemptsBounded` | `PayingInv` |
| `…!OutageReported` | `[]DeadIsOutage` (calls with a base URL), with at least one retry | `SeenInv` |
| `…!DeadIsSpared` | `[]DeadEndpointSpared`, under its two assumptions | `SparedInv`, on top of `SeenInv` |
| `StageAgentsProofs!ContractsAreFound` | `[]NeverBlind` | `ContractInv` |
| `…!BackendBoots` | `[]ReturnedBoots` | inductive by itself: only a smoke that passes hands on |
| `…!RowsAreRecorded` | `[]SoleRowsRecorded` | `SoleInv` |
| `…!DesignIsSmall` | `PassSpec => []DesignStaysSmall` | `SmallInv`: `FlightInv`, `AppendsPaid`, `UnitsTaken` |
| `…!RepairsAreBounded` | `PassSpec => []RepairsBounded` | `RepairInv`: `FlightInv`, `RepairsKnown`, `RepairsPaid` |
| `…!RegisteredAreReal` | `PassSpec => []RegisteredIsReal` | `RealInv`: `FlightInv`, `BooksOf` |
| `…!PhaseTypesCorrect` | types of `queue`, `session`, `registry`, `gate` | conjuncts of `PhasesInv` |
| `…!RenamesAreCaught` | `[]RenameDoesNotEscape` | `GateInv` |
| `…!PublishedDesignsAgree`, `…!ConvergedNodesAreCovered` | `[]RegisteredIsPublished`, `[]ConvergedIsCovered` | `PhasesInv`: `QueueInv` and `StoresInv` together |
| `TddLayersProofs!SessionsAreEnough` | `[]SessionsSuffice` | `Counted`: the sessions so far against budget times the layers behind |
| `…!ClosedMeansProved` | `ClosedIsProved` | `InTurn` and `ActiveIs`: an active layer is closed only as the last one |
| `…!LateFixesCount` | `[]LateFixCounts` | `LateInv` |
| `ServerProofs!RuntimeTypesCorrect` | `[]RuntimeTypes` | a conjunct of `RuntimeInv` |
| `…!GreenIsFresh`, `…!GreenIsSeeded`, `…!GreenMeansClean` | `[]GreenSawTheSources`, `[]GreenStartedFromSeed`, `[]GreenIsClean` | inductive invariant `RuntimeInv` |
| `…!ServersAreHeld` | `[]LivingServerIsHeld` | `ServerHeld`, a part of `RuntimeInv` |

*BlockInv.* `NoStaleBlock` is not inductive: a reset may un-fail the one cause of a
block, and a crash brings back the saved queue. The invariant says `Caused` of the
queue in memory *and* of the file. It also says that a task in flight owns its
node's state (`FlightOwnsState`), so that nothing is blocked through a node that is
about to be requeued, and that outside the drain loop nothing is in flight
(`FlightsInDrain`). The two walks are handled by lemmas about closed sets: the blocked
set is closed under causes, the released set is the complement of what still has one.

*LandedInv and StandsInv.* That completed work has landed must also be said of the
saved queue, of the finished designs that a failed or reset node falls back to
(`DesignDone`), and of a merge that has landed before its verdict (`FlightLanded`).
A task stands on its prerequisites because no step undoes finished work while the
process runs: every operator of the queue is shown to be `Steady` (it disturbs no
other node in flight and forgets nothing finished, `Kept`), resets happen only with
nothing in flight (`Quiet`), and a finished design is always recorded as such
(`DesignsRecorded`), so that who stands on a node's design still does when the node's
implementation fails.

*DoneSaved.* That completed work stays done needs the file beside the queue: a crash
must not bring back a queue that knows less. The file holds everything memory holds as
finished (`DoneIn`), because a step that finishes work saves before it ends, and only
a retry takes finished work back, which is an invocation.

*ContractInv.* The refinement proof maps every action of the drain to one of the contract
or to none: a dispatch to `Begin`, a merge to `Land`, a verdict to `Finish` or `GiveUp`, a
requeue to `GiveUp` as well, an invocation to `Start`, its end to `Stop`, a crash to `Die`,
a write of the file to `Save`. It needs more than the invariants of the properties: a
node yet to be designed has no finished design on record (`Undesigned`, so that what
finishes or is reset changes `FinishedIn` by one task or by none), in memory and in the
file, and the file lags behind the memory only between the session patch of a retry and
the save after it (`SaveFollows`). Most steps leave both records as they are; a few
lemmas say what the others do to `FinishedIn` (`OneFinished`, `SameFinished`) and to the
running tasks (`JoinsRunning`, `LeavesRunning`).

*Acyclicity.* Reaching is defined by closed sets (`Reaches`: every set closed under
the edges that holds the one end holds the other), so no induction over paths is
needed: if a new edge closed a cycle, the set of what its target reaches would be
closed without it and hold its source, which `ClosesCycle` excludes.

*The pipeline's Inv.* A stage stands on published work because nothing published and
no settled parent is taken back while a drain runs (`Keeps`): an open gate stays open
(`KeepsGate`). That a failure keeps it needs to know which rows a failing stage may
find behind it, so the core of `Inv` is how the four rows of a node and its state go
together (`RowOK`): a design that is not published has untouched tests behind it,
an unfinished analysis is in front of a pending design (or of an interface that
outlived a retry of the tests), an implementation runs on a published design only.
`FlightOK`, `AnalysesOK` and `MergeOK` tie flights, analyses and the entry being
merged to their rows. Only a retry reopens published work, and it runs with nothing in
flight (`QuietOK`). It may leave a publication in the merge queue whose gate is closed
again; `MergeOK` says that this can only be generated tests, behind a dependency that
was reopened, and that what is being merged stands. `RestOK` says what the coordinator knows when it leaves the
loop: of a finite set of candidates it would have started a first one.

*EdgesInv.* The edges declared so far, kept or dropped or still to visit, are the same
all along, and reaching grows with the edges: a cycle that was closed among the kept
ones is one of the declared. All edges of a restored map, visited or not, are fit to
be kept and close no cycle together, so `Visit` drops none.

*TreeInv.* Exclusiveness of directories does not follow from the group rule alone: a
task may fall back to its own directory, which may be the *group* directory of
others when the node names the group. The invariant says that groups in flight
differ, that a path is the node's or its group's (`PathInGroup`), that the
directory is there on the node's branch (`TreeHeld`), that a missing directory
holds nothing (`BareDirs`), and that a task past its commit is clean (`Committed`).
That a group head is in its own group is what makes two such paths differ.

*Core.* That a replay loses nothing must be said of four trees at once (`Directory`): the
base is kept in the branch, the branch in the directory and, while a rebase is open, the
branch to restore in the checkpoint and the tree that is rebased onto in the index, whose
files are in the directory (`Suspended`). A rebase that an earlier task left registered
would restore a branch of the past, which holds no more than the present one
(`LeftoverKept`). A gate runs the whole of a replay in one
turn, so its effect on the directory is stated once, as one of five outcomes: nothing,
given up, caught up, halted at conflicts, or dropped with the leftover (`Untouched`,
`GivenUp`, `CaughtUp`, `Halted`, `Dropped`); each but the last is then shown to keep every edit. `Placed` ties the bookkeeping to the places of the
tasks: only a running task has calls, and what has landed is integrated.

*Rivals.* Two tasks never create one file apart for two reasons that take turns. As long
as nobody has merged the file, its claim names the one who has it or has it at hand
(`Owned`). Once a merge of it has landed, a running task that missed no merge meets the
merged version in what it has and writes, or waits for its replay (`Joined`); and between
the two, the merge has landed, nothing is attached yet, and the task that merged still
holds the claim (`Landing`), so that no other can have the file. Files that a failed task
leaves behind (`abandoned`) and tasks that missed a merge (`behind`) are exempt, as in
the property.

*PhasesInv.* The two agreements of the phases are about three stores that are written one
after the other, with a death possible in between. `QueueInv` says that the stage at work
is the one the queue has running, on what it needs, and that a leaf with published tests
is no longer being designed (`RowInv`). `StoreInv` says what session and store hold in
each situation of the rows: a prepared design has its contract and no tests in the store,
except between the two writes (`Writing`), and is being made for as long as its tests
are not; so a death between the writes leaves a design that starts over or a stage that runs
again, and a retry resets rows, session and store together. `DoneInv` carries what the
steps of a stage have established up to the publication. `GateInv` says that while the gate
repairs, every file of the first manifest has run.

*PayingInv and SeenInv.* The requests a call has sent are bounded by what it has paid
*and* by the transport it is on: only that decides whether the free switch is still
to come. A call that has only seen the endpoint down is at its first request or
waits for a probe; so a foreign error can no longer end it.

*SparedInv.* The two requests an agent may send to an endpoint that is down are one of
the call it was in and one of the call whose probes spend the failure budget for all.
Counting them needs to know who may still ask (`MayAsk`) and who may ask twice (`MayAskTwice`): what was asked plus what may yet be
asked stays within two each (`Askable`), since a call that gives up leaves the failures
that close the door for the next one. That holds when a call retries at all and its own
probes can spend the failure budget (`MaxFailures <= ProbeRounds + 2`: 5 and 3 in
`agents/model/openai_api_adapter.py`); the theorem assumes both.

*ContractInv.* A fill that ends has records because rows nobody covered are recorded
mechanically and no record covers no row (`NothingCovers`); it needs that a fill is
only entered with a row to ask for, which the first answer decides.

*SoleInv.* Whatever a batch answers, merging only adds records (`merged` holds records a
session can answer), and a row alone in its file cannot be taken by the record of another.

*SmallInv, RepairInv, RealInv.* The budgets of a pass are kept before and after the calls
they are about: units are taken when a call is validated, the books are written when it
is recorded. All three invariants rest on `FlightInv`: a call is known by its number, and
two calls in flight on one path have crossed; so where no deletion crossed, a deletion is
the only call on its path (`AloneFlight`). Each then adds what is in flight to one side:
appends that landed and may yet land are paid for (`AppendsPaid`), and what a design wrote
or is writing holds a reservation (`UnitsTaken`); repairs that stood and may yet
stand are on the ledger or in flight (`RepairsPaid`, which needs `RepairsKnown`: a call on a
locked test is charged as a repair); and the paths written differ from the directory only
by what is in flight (`BooksOf`), which is nothing when the pass ends.

*Counted, InTurn, ActiveIs.* A session may run the tests of later layers, so charges
and sessions do not go layer by layer. What holds is that all sessions opened up to
layer k fit into the budgets of the layers before it plus the charges of layer k
itself, because a session without a charge to its own layer is the last one there;
and that the layers between the one the loop is at and the active one are closed or
spent, and none behind the active one is closed. So a layer that can still open a
session has no closed layer behind it, and a handover never lands on a closed one.

*LateInv.* The verdict goes through the layers in order, and every layer it went past that
owed its failure to its budget (`Owed`) was run again. A layer that passes during the
verdict adds no debt to those before it: it was itself behind a layer that had passed.

*RuntimeInv.* A verdict speaks of what the tests saw, which was decided many steps before.
The invariant follows it through the call: past the build the output is whole and made from
a content the sources had since the call began, or from one that crossed such a content
(`SourcesHold`, with `RecordHolds` for an output that
is reused); a living server has loaded the content its session is keyed by, or one that crossed it, and has
the session's database (`ServerHeld`); the rows are seeded from their preparation to the
tests (`RowsSeeded`); and a cleanup that failed is in a note of this attempt or of the
first, since the one-shot recovery is spent before a third note could overwrite it
(`FailureNoted`). A verdict is green only while the server has its process, which is what
excludes an orphan or a foreign process that answers in its place.

*Model-checked only.* `RunEnds` and `TasksSettle` (liveness, and with it `ENABLED`,
is out of the prover's reach), and `WorkGoesOn`; every other invariant and action property
a run checks is stated by a theorem, and so is the refinement. What the
recursive functions of `RequirementTree` compute for every tree would need induction
over data, which the installed provers cannot do; the models take the maps as
constants. No module that is proved about declares a RECURSIVE operator.

*What the proofs changed.* Two definitions, `FailStage` and `Reaped`, had `CASE` arms
that overlap; TLC takes the first, TLA+ leaves open which. They are written with
alternatives that exclude each other now. `NothingForgotten` held on the instance of
its run but not in general: the two cases of `Unattended` and a queue clogged by as
many publications as there are slots were found by its proof.

## 6. What is not modelled

* The stage executor without worktrees (`core/workflow.py:3155-3253`), the outage
  record of the stage drain, the declared write sets that may let stages overlap
  (off by default).
* Several provider fingerprints and the time window of the breaker; `CompileQueue`
  has one, and "same window or not" as a choice. With a threshold above one, an
  observation outside the window closes an open breaker (`core/provider_outage.py:77`).
* What an additive resolution or an arbiter writes; only its outcome is modelled. A
  crash in the middle of one git command, and a merge left half done by one. A drift
  repair that runs between two git commands of another merge, or that dies half-way with
  files rewritten but not staged; the drift check of the stage drain, which has none; the
  start of a compilation that is no resume and commits what is in the integration
  workspace (`core/workflow.py:459`).
* `MidPhaseReplay`: directories shared by a group. One that is reused after a merge or a
  reset in the middle of a rebase carries the leftover rebase as well.
* `NodePhases`: type smoke and HTTP preflight beyond their verdict;
  several nodes running phases at once (they share only the store, by node).
* `E2ERuntime`: two attempts at a time, a foreign process between the check of the port
  and the bind, cancellation; an edit that a build sees in one file and not in another.
* `TddLayers`: cancellation of a session with calls in flight.
* `StageDiscipline`: reads, probes, shell commands and the messages of a block.
* Prompts, context building, repository maps, skill selection, cost accounting,
  template patches, output parsing, path translation: text or one command each.
* The A/B evaluation, the Android and command line handlers, the log and event files.

## 7. Plan

Done: the queue and its loading, both drains, worktrees and replay, phases, test
loop, interface designer, stage discipline, model calls, E2E attempts; theorems about
every component: each invariant and action property that a run checks but one; the
refinement of `Compilation` by the task drain.

Next, in order of importance:

1. **ProviderOutage** – fingerprints, windows, deferral, health check, in both drains.
2. A larger instance of `StagePipeline` with a dependency between the leaves.
3. The stage drain against a contract of its own, with stages for tasks.
4. `E2ERuntime` with cancellation and a port that is taken between check and bind.
5. `WorkGoesOn` as a theorem: lemmas about the rows of the four generations.
