---------------------------- MODULE TaskWorkspace ----------------------------
(***************************************************************************)
(* The isolated workspaces of a parallel drain: the worktree directories   *)
(* and node branches of core/worktree.py (NodeWorktreeManager), the gate   *)
(* between checkouts and merges, and the port slots of core/workflow.py.   *)
(*                                                                         *)
(* What a tree contains is a set of items <<n, k>>: what the k-th task of  *)
(* node n wrote.  A directory holds a branch and uncommitted items, a      *)
(* branch its committed items; the integration branch is a set of items.   *)
(* A git command is one step, and so are the commands of one merge; nothing *)
(* is said of the order in which a tree and its registration are written   *)
(* (prepare repairs a half-made directory before it uses it).  The         *)
(* mid-phase replay (ARC_REBASE_ON_MERGE) is off, its default.             *)
(***************************************************************************)
EXTENDS Naturals, FiniteSets

CONSTANTS
  Node,              \* the requirement ids; a directory is named by a node id too
  NoNode,            \* no node: a free slot, a detached or missing checkout
  Parents,           \* [non-root node -> its parent]
  Group,             \* [node -> its affinity group, the node of that name]
  MaxConcurrent,     \* ARC_MAX_CONCURRENT_TASKS, the number of port slots
  MergeArbitration,  \* ARC_MERGE_ARBITRATION, off by default
  MaxTasks,          \* bound [node -> its number of tasks, retries included]
  MaxDrains,         \* bound on the drains: retries, resumes and crashes
  MaxResetFailures   \* bound on the failures of a conflict reset

ASSUME WorkspaceAssumption ==
  /\ IsFiniteSet(Node) /\ NoNode \notin Node
  /\ DOMAIN Parents \subseteq Node /\ \A n \in DOMAIN Parents : Parents[n] \in Node
  /\ Group \in [Node -> Node] /\ \A n \in Node : Group[Group[n]] = Group[n]
  /\ MaxConcurrent \in Nat \ {0} /\ MergeArbitration \in BOOLEAN
  /\ MaxTasks \in [Node -> Nat] /\ MaxDrains \in Nat /\ MaxResetFailures \in Nat

VARIABLES
  todo,         \* [node -> the phase it has to run next]
  failed,       \* nodes whose last task failed
  spent,        \* nodes whose next phase has used up its conflict requeue
  task,         \* [node -> where its in-flight task is]
  attempt,      \* [node -> number of tasks it has started]
  slots,        \* _port_slots: [slot -> the node that acquired it]
  slotOf,       \* [node -> the slot its task's workspace carries]
  path,         \* [node -> the directory of its task's worktree handle]
  dirs,         \* [directory -> what is in it]
  quarantined,  \* _quarantined, the memory of the worktree manager
  branches,     \* nodes that have a branch arc-node/<id>
  head,         \* [node -> the items committed on its branch]
  integration,  \* the items on the integration branch
  staged,       \* items staged, but not committed, in the integration workspace
  arbitrated,   \* nodes whose single arbitration budget a drift repair has spent
  drains, resetFailures   \* counters the bounds apply to

queueVars == <<todo, failed, spent>>
gitVars == <<dirs, branches, head, integration, staged, arbitrated>>
driftVars == <<staged, arbitrated>>
flightVars == <<task, attempt, slots, slotOf, path>>
counters == <<drains, resetFailures>>
vars == <<queueVars, flightVars, gitVars, quarantined, counters>>

Slot == 0 .. MaxConcurrent - 1

\* <<n, 0>> is the contract anchors a drift repair of n restored.
Item == UNION {{n} \X (0 .. MaxTasks[n]) : n \in Node}

\* "opening" and "resetting" wait for the gate as readers, "checkout" and
\* "rewinding" have passed it; "locked" holds the merge lock and waits for the
\* gate as the writer, "merging" has passed it; "drifting" has merged, let go of
\* lock and gate, and waits for the model to restore drifted contract anchors.
TaskState ==
  {"none", "opening", "checkout", "running", "merge", "locked", "merging", "drifting",
   "resetting", "rewinding", "preserve", "discard", "finished"}

InFlight == {n \in Node : task[n] # "none"}

NoTree == [there |-> FALSE, branch |-> NoNode, dirty |-> {}]

Tree(d) == dirs[d].dirty \cup (IF dirs[d].branch = NoNode THEN {} ELSE head[dirs[d].branch])

-----------------------------------------------------------------------------
(* _IntegrationGate: checkouts of the integration tree are its readers, the  *)
(* merge that moves it the writer; a waiting writer holds new readers back.  *)

Readers == {n \in Node : task[n] \in {"checkout", "rewinding"}}

MayRead == \A n \in Node : task[n] \notin {"locked", "merging"}

\* Variant for testing CheckoutIsStable: the merge does not wait for checkouts.
MayWriteAlways == TRUE

\* Variant for testing TasksSettle: readers that wait are let in first as well.
MayWritePolitely ==
  Readers = {} /\ \A n \in Node : task[n] \notin {"opening", "resetting"}

MayWrite == Readers = {}

-----------------------------------------------------------------------------
Init ==
  /\ todo = [n \in Node |-> "DESIGN"]
  /\ failed = {}
  /\ spent = {}
  /\ task = [n \in Node |-> "none"]
  /\ attempt = [n \in Node |-> 0]
  /\ slots = [s \in Slot |-> NoNode]
  /\ slotOf = [n \in Node |-> 0]
  /\ path = [n \in Node |-> NoNode]
  /\ dirs = [d \in Node |-> NoTree]
  /\ quarantined = {}
  /\ branches = {}
  /\ head = [n \in Node |-> {}]
  /\ integration = {}
  /\ staged = {}
  /\ arbitrated = {}
  /\ drains = 0
  /\ resetFailures = 0

Move(n, from, to) == task[n] = from /\ task' = [task EXCEPT ![n] = to]

Prerequisites(n) ==
  IF todo[n] = "DESIGN" THEN {m \in Node : n \in DOMAIN Parents /\ m = Parents[n]}
                        ELSE {m \in DOMAIN Parents : Parents[m] = n}

\* task_dependencies_met on a tree without declared dependencies.
DependenciesMet(n) ==
  \A m \in Prerequisites(n) :
    IF todo[n] = "DESIGN" THEN todo[m] # "DESIGN" \/ m \in failed ELSE todo[m] = "done"

\* Variant for testing ExclusiveTree: only the node has to be free.
NodeIsFree(n) == n \notin InFlight

GroupIsFree(n) == \A m \in InFlight : Group[m] # Group[n]

Startable(n) ==
  /\ n \notin failed /\ todo[n] # "done" /\ attempt[n] < MaxTasks[n]
  /\ GroupIsFree(n) /\ DependenciesMet(n)

\* _acquire_port_slot: the lowest slot that nobody has.
FreeSlots == {s \in Slot : slots[s] = NoNode}

\* next_affinity_task picks the task; it acquires its slot before it yields.
Start(n) ==
  /\ Startable(n)
  /\ Cardinality(InFlight) < MaxConcurrent
  /\ Move(n, "none", "opening")
  /\ attempt' = [attempt EXCEPT ![n] = @ + 1]
  /\ \E s \in FreeSlots :
       /\ \A t \in FreeSlots : s <= t
       /\ slots' = [slots EXCEPT ![s] = n]
       /\ slotOf' = [slotOf EXCEPT ![n] = s]
  /\ UNCHANGED <<queueVars, path, gitVars, quarantined, counters>>

\* Variant for testing NeverOutOfSlots: a task that ends keeps the slot.
SlotKept(n) == UNCHANGED slots

ReleaseSlot(n) == slots' = [slots EXCEPT ![slotOf[n]] = NoNode]

EnterGate(n) ==
  /\ MayRead
  /\ Move(n, "opening", "checkout") \/ Move(n, "resetting", "rewinding")
  /\ UNCHANGED <<queueVars, attempt, slots, slotOf, path, gitVars, quarantined, counters>>

-----------------------------------------------------------------------------
(* prepare *)

\* Uncommitted work of another node lies in the group's directory.
HoldsOthersWork(n) ==
  LET d == dirs[Group[n]] IN d.there /\ d.dirty # {} /\ d.branch # n

\* _select_worktree_path: the group's directory, or the node's own.
SelectPath(n) ==
  IF Group[n] \in quarantined \/ HoldsOthersWork(n) THEN n ELSE Group[n]

QuarantineAfterSelect(n) ==
  IF Group[n] # n /\ HoldsOthersWork(n) THEN quarantined \cup {Group[n]} ELSE quarantined

\* git refuses to check a branch out in two worktrees.
BranchElsewhere(n, d) == \E e \in Node \ {d} : dirs[e].there /\ dirs[e].branch = n

\* _detach_branch_elsewhere: other worktrees keep their files, not the branch.
Detached(n, d) ==
  [e \in Node |-> IF e # d /\ dirs[e].branch = n THEN [dirs[e] EXCEPT !.branch = NoNode]
                                                 ELSE dirs[e]]

\* An existing directory is switched to the node's branch and keeps what is
\* uncommitted in it; a new one is created, freeing the branch first.
Prepare(n) ==
  /\ Move(n, "checkout", "running")
  /\ \E d \in {SelectPath(n)} :
       /\ dirs[d].there => ~BranchElsewhere(n, d)
       /\ path' = [path EXCEPT ![n] = d]
       /\ dirs' = IF dirs[d].there
                  THEN [dirs EXCEPT ![d].branch = n]
                  ELSE [Detached(n, d) EXCEPT ![d] = [there |-> TRUE, branch |-> n, dirty |-> {}]]
  /\ head' = IF n \in branches THEN head ELSE [head EXCEPT ![n] = integration]
  /\ branches' = branches \cup {n}
  /\ quarantined' = QuarantineAfterSelect(n)
  /\ UNCHANGED <<queueVars, attempt, slots, slotOf, integration, driftVars, counters>>

\* A git command fails: the slot is given back and the node fails.
PrepareFails(n) ==
  /\ Move(n, "checkout", "finished")
  /\ quarantined' = QuarantineAfterSelect(n)
  /\ failed' = failed \cup {n}
  /\ ReleaseSlot(n)
  /\ UNCHANGED <<todo, spent, attempt, slotOf, path, gitVars, counters>>

-----------------------------------------------------------------------------
(* The phase, and its integration *)

Write(n, items) == dirs' = [dirs EXCEPT ![path[n]].dirty = @ \cup items]

PhaseSucceeds(n) ==
  /\ Move(n, "running", "merge")
  /\ Write(n, {<<n, attempt[n]>>})
  /\ UNCHANGED <<queueVars, attempt, slots, slotOf, path, branches, head, integration,
                 driftVars, quarantined, counters>>

\* The phase fails, or an outage interrupts it and its task returns to the queue
\* (a later outage may end its deferral in the same drain); either may leave
\* something behind.
PhaseFails(n) ==
  /\ Move(n, "running", "preserve")
  /\ \E items \in {{}, {<<n, attempt[n]>>}} : Write(n, items)
  /\ failed' \in {failed, failed \cup {n}}
  /\ UNCHANGED <<todo, spent, attempt, slots, slotOf, path, branches, head, integration,
                 driftVars, quarantined, counters>>

\* The workflow's merge lock.
TakeMergeLock(n) ==
  /\ \A m \in Node : task[m] \notin {"locked", "merging"}
  /\ Move(n, "merge", "locked")
  /\ UNCHANGED <<queueVars, attempt, slots, slotOf, path, gitVars, quarantined, counters>>

EnterMerge(n) ==
  /\ MayWrite
  /\ Move(n, "locked", "merging")
  /\ UNCHANGED <<queueVars, attempt, slots, slotOf, path, gitVars, quarantined, counters>>

\* commit: everything uncommitted in the directory goes on the branch checked out
\* there, which is the node's (ExclusiveTree).
Commit(n) ==
  /\ head' = [head EXCEPT ![n] = @ \cup dirs[path[n]].dirty]
  /\ dirs' = [dirs EXCEPT ![path[n]].dirty = {}]

\* complete_task.
CompletePhase(n) ==
  /\ todo' = [todo EXCEPT ![n] = IF @ = "DESIGN" THEN "IMPLEMENT" ELSE "done"]
  /\ spent' = spent \ {n}

\* The merge makes its commit.  git refuses to while something else is staged in
\* the integration workspace.  When an implementation that landed has moved the
\* anchors of its registered contracts (_check_contract_drift), and the node's
\* budget is unspent, the arbiter is asked once to restore them.
MergeLands(n) ==
  /\ task[n] = "merging" /\ staged = {}
  /\ Commit(n)
  /\ integration' = integration \cup Tree(path[n])
  /\ \/ /\ Move(n, "merging", "discard")
        /\ CompletePhase(n)
        /\ UNCHANGED arbitrated
     \/ /\ MergeArbitration /\ todo[n] = "IMPLEMENT" /\ n \notin arbitrated
        /\ Move(n, "merging", "drifting")
        /\ arbitrated' = arbitrated \cup {n}
        /\ UNCHANGED <<todo, spent>>
  /\ UNCHANGED <<failed, attempt, slots, slotOf, path, branches, staged, quarantined, counters>>

\* _arbitrate_contract_drift, after the answer: neither the merge lock nor the
\* gate is taken.  The answer is rejected or changes nothing; or it is staged and
\* committed with whatever is staged; or the anchors are still missing, or the
\* commit fails, and it stays staged.  The merge stands.
RepairDrift(n) ==
  /\ Move(n, "drifting", "discard")
  /\ CompletePhase(n)
  /\ \/ UNCHANGED <<integration, staged>>
     \/ /\ integration' = integration \cup staged \cup {<<n, 0>>}
        /\ staged' = {}
     \/ /\ staged' = staged \cup {<<n, 0>>}
        /\ UNCHANGED integration
  /\ UNCHANGED <<failed, attempt, slots, slotOf, path, dirs, branches, head, arbitrated,
                 quarantined, counters>>

CommitFails(n) ==
  /\ Move(n, "merging", "preserve")
  /\ failed' = failed \cup {n}
  /\ UNCHANGED <<todo, spent, attempt, slots, slotOf, path, gitVars, quarantined, counters>>

\* The merge fails: it is aborted and the directory quarantined.  When the branches
\* diverged and neither the additive resolver nor an arbiter can merge them, or
\* the health gate rejects the result, the first conflict of a phase resets the
\* node; a merge that fails without a conflict fails the node.
MergeAborts(n) ==
  /\ task[n] = "merging"
  /\ Commit(n)
  /\ quarantined' = quarantined \cup {path[n]}
  /\ \/ /\ integration \ Tree(path[n]) # {} /\ staged = {}
        /\ n \notin spent
        /\ Move(n, "merging", "resetting")
        /\ UNCHANGED failed
     \/ /\ Move(n, "merging", "preserve")
        /\ failed' = failed \cup {n}
  /\ UNCHANGED <<todo, spent, attempt, slots, slotOf, path, branches, integration, driftVars,
                 counters>>

-----------------------------------------------------------------------------
(* settle *)

\* _remove_worktree: a directory whose links cannot be cut stays.
Remove(d) == dirs' \in {dirs, [dirs EXCEPT ![d] = NoTree]}

\* RESET_FOR_RETRY: the branch starts again at the integration HEAD, the
\* directory is free again, and the phase is queued once more.
Rewind(n) ==
  /\ Move(n, "rewinding", "finished")
  /\ quarantined' = quarantined \ {path[n]}
  /\ head' = [head EXCEPT ![n] = integration]
  /\ IF path[n] = n THEN Remove(n) ELSE UNCHANGED dirs
  /\ spent' = spent \cup {n}
  /\ ReleaseSlot(n)
  /\ UNCHANGED <<todo, failed, attempt, slotOf, path, branches, integration, driftVars, counters>>

\* The reset fails after the quarantine was lifted.  The slot is released here,
\* and the node fails and is settled again.
RewindFails(n) ==
  /\ resetFailures < MaxResetFailures
  /\ Move(n, "rewinding", "preserve")
  /\ quarantined' = quarantined \ {path[n]}
  /\ ReleaseSlot(n)
  /\ failed' = failed \cup {n}
  /\ resetFailures' = resetFailures + 1
  /\ UNCHANGED <<todo, spent, attempt, slotOf, path, gitVars, drains>>

\* FAILED: the worktree is preserved as the task left it.
SettleFailed(n) ==
  /\ Move(n, "preserve", "finished")
  /\ ReleaseSlot(n)
  /\ UNCHANGED <<queueVars, attempt, slotOf, path, gitVars, quarantined, counters>>

\* MERGED: the group's directory is kept for its next task, a node's is removed.
SettleMerged(n) ==
  /\ Move(n, "discard", "finished")
  /\ IF path[n] = n THEN Remove(n) ELSE UNCHANGED dirs
  /\ ReleaseSlot(n)
  /\ UNCHANGED <<queueVars, attempt, slotOf, path, branches, head, integration,
                 driftVars, quarantined, counters>>

\* The drain takes the finished task out of its in-flight map.
Reap(n) ==
  /\ Move(n, "finished", "none")
  /\ path' = [path EXCEPT ![n] = NoNode]
  /\ slotOf' = [slotOf EXCEPT ![n] = 0]
  /\ UNCHANGED <<queueVars, attempt, slots, gitVars, quarantined, counters>>

-----------------------------------------------------------------------------
(* Between two drains *)

\* Variant for testing LeftoversSurvive: dirty directories are removed as well.
CleanupAll ==
  [d \in Node |-> IF d \in quarantined THEN dirs[d] ELSE NoTree]

\* cleanup_reusable_worktrees: clean directories that are not quarantined go.
Cleanup ==
  [d \in Node |-> IF d \in quarantined \/ dirs[d].dirty # {} THEN dirs[d] ELSE NoTree]

\* The drain is over.  Failed nodes are retried by the automatic retry, with the
\* manager's memory, or by a later invocation, without it.
Retry ==
  /\ drains < MaxDrains /\ failed # {}
  /\ InFlight = {} /\ \A n \in Node : ~Startable(n)
  /\ dirs' = Cleanup
  /\ \E S \in SUBSET failed \ {{}} :
       /\ failed' = failed \ S
       /\ spent' = spent \ S
  /\ quarantined' \in {quarantined, {}}
  /\ drains' = drains + 1
  /\ UNCHANGED <<todo, flightVars, branches, head, integration, driftVars, resetFailures>>

\* The process dies, phases may have written something; a resumed process queues
\* the interrupted tasks again.
Crash ==
  /\ drains < MaxDrains /\ InFlight # {}
  /\ \E W \in SUBSET {n \in Node : task[n] = "running"} :
       dirs' = [d \in Node |->
                  [dirs[d] EXCEPT !.dirty =
                     @ \cup {<<n, attempt[n]>> : n \in {m \in W : path[m] = d}}]]
  /\ task' = [n \in Node |-> "none"]
  /\ path' = [n \in Node |-> NoNode]
  /\ slots' = [s \in Slot |-> NoNode]
  /\ slotOf' = [n \in Node |-> 0]
  /\ quarantined' = {}
  /\ drains' = drains + 1
  /\ UNCHANGED <<queueVars, attempt, branches, head, integration, driftVars, resetFailures>>

TaskStep(n) ==
  \/ EnterGate(n) \/ Prepare(n) \/ PrepareFails(n)
  \/ PhaseSucceeds(n) \/ PhaseFails(n)
  \/ TakeMergeLock(n) \/ EnterMerge(n)
  \/ MergeLands(n) \/ RepairDrift(n) \/ CommitFails(n) \/ MergeAborts(n)
  \/ Rewind(n) \/ RewindFails(n)
  \/ SettleFailed(n) \/ SettleMerged(n) \/ Reap(n)

Next == Retry \/ Crash \/ \E n \in Node : Start(n) \/ TaskStep(n)

\* Worker threads and phases return; who goes first is not known.
Fairness == WF_vars(\E n \in Node : TaskStep(n))

Spec == Init /\ [][Next]_vars /\ Fairness

-----------------------------------------------------------------------------
(* Properties *)

TypeOK ==
  /\ todo \in [Node -> {"DESIGN", "IMPLEMENT", "done"}]
  /\ failed \subseteq Node /\ spent \subseteq Node
  /\ task \in [Node -> TaskState]
  /\ attempt \in [Node -> Nat] /\ \A n \in Node : attempt[n] <= MaxTasks[n]
  /\ slots \in [Slot -> Node \cup {NoNode}]
  /\ slotOf \in [Node -> Slot]
  /\ path \in [Node -> Node \cup {NoNode}]
  /\ dirs \in [Node -> [there : BOOLEAN, branch : Node \cup {NoNode}, dirty : SUBSET Item]]
  /\ quarantined \subseteq Node
  /\ branches \subseteq Node
  /\ head \in [Node -> SUBSET Item]
  /\ integration \subseteq Item /\ staged \subseteq Item
  /\ arbitrated \subseteq Node
  /\ drains \in Nat /\ resetFailures \in Nat

\* The tree of a task is its own from the checkout to the end of its settle: the
\* directory exists, stays on the node's branch, and no other task has it
\* ("its writes are private until the phase commits").
ExclusiveTree ==
  \A n \in Node :
    task[n] \in {"running", "merge", "locked", "merging", "drifting", "resetting",
                 "rewinding", "preserve", "discard"} =>
      /\ dirs[path[n]].there /\ dirs[path[n]].branch = n
      /\ \A m \in InFlight \ {n} : path[m] # path[n]

\* The integration branch does not move while a checkout or a reset reads its
\* tree (a checkout that raced a merge staged sibling files as deletions), except
\* by a drift repair, which takes no gate.
RepairsDrift == \E n \in Node : task[n] = "drifting" /\ task'[n] = "discard"

CheckoutIsStable == [][integration' # integration /\ ~RepairsDrift => Readers = {}]_vars

\* The same of every operation that moves the branch, as the module doc says:
\* "the operations that move it (integrate's merge) hold it as the writer".  It
\* holds without merge arbitration only.
CheckoutNeverRaced == [][integration' # integration => Readers = {}]_vars

\* A contract drift is "recorded ... without blocking the merge", and "a failed
\* attempt leaves the merge as it stands": a merge whose branch holds all that
\* the integration branch has can be made.  It cannot: what was staged is in its way.
DriftBlocksNoMerge ==
  \A n \in Node : task[n] = "merging" /\ integration \subseteq Tree(path[n]) => staged = {}

\* Uncommitted work never disappears: it stays in some directory until it is
\* committed to some branch, through retries, resets, clean-ups and crashes.
Uncommitted == UNION {dirs[d].dirty : d \in Node}

LeftoversSurvive ==
  [][Uncommitted \subseteq Uncommitted' \cup UNION {head'[n] : n \in Node}]_vars

\* While fewer tasks are in flight than may be, a task that starts finds a port
\* slot: whatever failed before, no slot has leaked ("exhaustion can only mean a
\* scheduler bug that leaked a slot", _acquire_port_slot).
NeverOutOfSlots == Cardinality(InFlight) < MaxConcurrent => FreeSlots # {}

\* Every task that starts is settled: the merge lock and the gate, which
\* prefers a waiting merge over new checkouts, never wait in a circle.
TasksSettle == \A n \in Node : task[n] # "none" ~> task[n] = "none"

=============================================================================
