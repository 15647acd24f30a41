------------------------- MODULE TaskWorkspaceProofs -------------------------
(***************************************************************************)
(* What the worktree manager guarantees for every tree, every grouping and *)
(* every number of slots: the type invariant, the exclusion between        *)
(* checkouts and merges, the exclusive directories, and that uncommitted   *)
(* work is never lost.                                                     *)
(***************************************************************************)
EXTENDS TaskWorkspace, FiniteSetTheorems, TLAPS

-----------------------------------------------------------------------------
(* Types.  The type invariant in the groups of variables that steps change. *)

QueueType ==
  /\ todo \in [Node -> {"DESIGN", "IMPLEMENT", "done"}]
  /\ failed \subseteq Node /\ spent \subseteq Node

\* A task in flight has been counted, so what it writes is an item of its node.
TaskType ==
  /\ task \in [Node -> TaskState]
  /\ attempt \in [Node -> Nat] /\ \A n \in Node : attempt[n] <= MaxTasks[n]
  /\ \A n \in Node : task[n] # "none" => attempt[n] >= 1

SlotType ==
  /\ slots \in [Slot -> Node \cup {NoNode}] /\ slotOf \in [Node -> Slot]

TreeRecord == [there : BOOLEAN, branch : Node \cup {NoNode}, dirty : SUBSET Item]

TreeType ==
  /\ path \in [Node -> Node \cup {NoNode}]
  /\ dirs \in [Node -> TreeRecord]
  /\ quarantined \subseteq Node

BranchType ==
  /\ branches \subseteq Node
  /\ head \in [Node -> SUBSET Item]
  /\ integration \subseteq Item /\ staged \subseteq Item
  /\ arbitrated \subseteq Node

CounterType == drains \in Nat /\ resetFailures \in Nat

\* The places of a task that has a directory.
Holding ==
  {"running", "merge", "locked", "merging", "drifting", "resetting", "rewinding", "preserve",
   "discard"}

PathHeld == \A n \in Node : task[n] \in Holding => path[n] \in Node

TypeInv ==
  /\ QueueType /\ TaskType /\ SlotType /\ TreeType /\ BranchType /\ CounterType
  /\ PathHeld

\* The groups add up to the type invariant the runs check.
LEMMA TypeInvOK == TypeInv => TypeOK
BY DEF TypeInv, QueueType, TaskType, SlotType, TreeType, TreeRecord, BranchType,
       CounterType, TypeOK

\* A task that moves on in flight, and one that ends.
LEMMA MoveType ==
  ASSUME TaskType, NEW n \in Node, task[n] # "none",
         NEW to \in TaskState, task' = [task EXCEPT ![n] = to], attempt' = attempt
  PROVE  TaskType'
<1>1. task \in [Node -> TaskState]
  BY DEF TaskType
<1>2. \A m \in Node : task'[m] # "none" => task[m] # "none"
  BY <1>1
<1>. QED BY <1>1, <1>2 DEF TaskType

\* What the tasks of a node write are items.
LEMMA WrittenItem ==
  ASSUME TaskType, NEW n \in Node, task[n] # "none"
  PROVE  <<n, attempt[n]>> \in Item
<1>1. attempt[n] \in Nat /\ attempt[n] <= MaxTasks[n] /\ attempt[n] >= 1
  BY DEF TaskType
<1>2. attempt[n] \in 1 .. MaxTasks[n]
  BY <1>1, WorkspaceAssumption
<1>. QED BY <1>2 DEF Item

\* A directory in which something is written, or what is there is committed.
LEMMA DirtyType ==
  ASSUME dirs \in [Node -> TreeRecord], NEW d, NEW items \in SUBSET Item,
         dirs' = [dirs EXCEPT ![d].dirty = items]
  PROVE  dirs' \in [Node -> TreeRecord]
<1>1. CASE d \in Node
  <2>1. dirs[d] \in TreeRecord
    BY <1>1
  <2>2. [dirs[d] EXCEPT !.dirty = items] \in TreeRecord
    BY <2>1 DEF TreeRecord
  <2>. QED BY <1>1, <2>2
<1>2. CASE d \notin Node
  BY <1>2
<1>. QED BY <1>1, <1>2

\* A directory in which a phase writes.
LEMMA WriteType ==
  ASSUME dirs \in [Node -> TreeRecord], NEW d, NEW items \in SUBSET Item,
         dirs' = [dirs EXCEPT ![d].dirty = @ \cup items]
  PROVE  dirs' \in [Node -> TreeRecord]
<1>1. CASE d \in Node
  <2>1. dirs[d].dirty \cup items \in SUBSET Item
    BY <1>1 DEF TreeRecord
  <2>2. dirs' = [dirs EXCEPT ![d].dirty = dirs[d].dirty \cup items]
    OBVIOUS
  <2>. QED BY <2>1, <2>2, DirtyType
<1>2. CASE d \notin Node
  BY <1>2
<1>. QED BY <1>1, <1>2

\* A removed directory is an empty record.
LEMMA RemoveType ==
  ASSUME dirs \in [Node -> TreeRecord], NEW d, Remove(d) \/ UNCHANGED dirs
  PROVE  dirs' \in [Node -> TreeRecord]
<1>1. NoTree \in TreeRecord
  BY DEF NoTree, TreeRecord
<1>. QED BY <1>1 DEF Remove

\* A checkout quarantines directories only.
LEMMA QuarantineType ==
  ASSUME quarantined \subseteq Node, NEW n \in Node
  PROVE  QuarantineAfterSelect(n) \subseteq Node
<1>1. Group[n] \in Node
  BY WorkspaceAssumption
<1>. QED BY <1>1 DEF QuarantineAfterSelect

\* What a tree contains is items.
LEMMA TreeItems ==
  ASSUME TreeType, BranchType, NEW d \in Node
  PROVE  Tree(d) \subseteq Item /\ dirs[d].dirty \subseteq Item
<1>1. dirs[d].dirty \subseteq Item /\ dirs[d].branch \in Node \cup {NoNode}
  BY DEF TreeType, TreeRecord
<1>. QED BY <1>1 DEF Tree, BranchType

\* The directory of a task is known from its checkout to the end of its settle.
LEMMA StepPathHeld ==
  ASSUME TypeInv, NEW n \in Node, TaskStep(n)
  PROVE  PathHeld'
<1>. USE DEF TypeInv, PathHeld, Holding
<1>0. task \in [Node -> TaskState] /\ path \in [Node -> Node \cup {NoNode}]
  BY DEF TaskType, TreeType
<1>1. CASE EnterGate(n)
  BY <1>0, <1>1 DEF EnterGate, Move
<1>2. CASE Prepare(n)
  <2>1. path' = [path EXCEPT ![n] = SelectPath(n)] /\ task' = [task EXCEPT ![n] = "running"]
    BY <1>2 DEF Prepare, Move
  <2>2. SelectPath(n) \in Node
    BY WorkspaceAssumption DEF SelectPath
  <2>. QED BY <1>0, <2>1, <2>2
<1>3. CASE PrepareFails(n)
  BY <1>0, <1>3 DEF PrepareFails, Move
<1>4. CASE PhaseSucceeds(n)
  BY <1>0, <1>4 DEF PhaseSucceeds, Move
<1>5. CASE PhaseFails(n)
  BY <1>0, <1>5 DEF PhaseFails, Move
<1>6. CASE TakeMergeLock(n)
  BY <1>0, <1>6 DEF TakeMergeLock, Move
<1>7. CASE EnterMerge(n)
  BY <1>0, <1>7 DEF EnterMerge, Move
<1>8. CASE MergeLands(n)
  BY <1>0, <1>8 DEF MergeLands, Move
<1>9. CASE CommitFails(n)
  BY <1>0, <1>9 DEF CommitFails, Move
<1>10. CASE MergeAborts(n)
  BY <1>0, <1>10 DEF MergeAborts, Move
<1>11. CASE Rewind(n)
  BY <1>0, <1>11 DEF Rewind, Move
<1>12. CASE RewindFails(n)
  BY <1>0, <1>12 DEF RewindFails, Move
<1>13. CASE SettleFailed(n)
  BY <1>0, <1>13 DEF SettleFailed, Move
<1>14. CASE SettleMerged(n)
  BY <1>0, <1>14 DEF SettleMerged, Move
<1>15. CASE Reap(n)
  BY <1>0, <1>15 DEF Reap, Move
<1>16. CASE RepairDrift(n)
  BY <1>0, <1>16 DEF RepairDrift, Move
<1>. QED BY <1>1, <1>2, <1>3, <1>4, <1>5, <1>6, <1>7, <1>8, <1>9, <1>10, <1>11, <1>12, <1>13, <1>14,
            <1>15, <1>16 DEF TaskStep

\* A task that starts.
LEMMA StartType ==
  ASSUME TypeInv, NEW n \in Node, Start(n)
  PROVE  TypeInv'
<1>. USE DEF TypeInv
<1>1. task \in [Node -> TaskState] /\ task' = [task EXCEPT ![n] = "opening"]
  BY DEF TaskType, Start, Move
<1>2. task' \in [Node -> TaskState]
  BY <1>1 DEF TaskState
<1>3. /\ attempt \in [Node -> Nat] /\ \A m \in Node : attempt[m] <= MaxTasks[m]
      /\ attempt' = [attempt EXCEPT ![n] = @ + 1] /\ attempt[n] < MaxTasks[n]
  BY DEF TaskType, Start, Startable
<1>4. attempt' \in [Node -> Nat]
  BY <1>3
<1>5. \A m \in Node : attempt'[m] <= MaxTasks[m]
  <2>1. attempt'[n] <= MaxTasks[n]
    <3>1. attempt[n] \in Nat /\ MaxTasks[n] \in Nat /\ attempt'[n] = attempt[n] + 1
      BY <1>3, WorkspaceAssumption
    <3>. QED BY <3>1, <1>3
  <2>2. \A m \in Node \ {n} : attempt'[m] = attempt[m]
    BY <1>3
  <2>. QED BY <2>1, <2>2, <1>3
<1>6. \A m \in Node : task'[m] # "none" => attempt'[m] >= 1
  BY <1>1, <1>3 DEF TaskType
<1>7. SlotType'
  BY DEF SlotType, Start, FreeSlots
<1>8. QueueType' /\ TreeType' /\ BranchType' /\ CounterType'
  BY DEF Start, queueVars, gitVars, counters, QueueType, TreeType, BranchType, CounterType
<1>9. PathHeld'
  BY <1>1 DEF Start, PathHeld, Holding
<1>. QED BY <1>2, <1>4, <1>5, <1>6, <1>7, <1>8, <1>9 DEF TaskType

\* Every step of a task keeps the types.
LEMMA TaskStepType ==
  ASSUME TypeInv, NEW n \in Node, TaskStep(n)
  PROVE  TypeInv'
<1>. USE DEF TypeInv, queueVars, gitVars, driftVars, counters
<1>0. PathHeld'
  BY StepPathHeld
<1>1. CASE EnterGate(n)
  <2>1. TaskType'
    BY <1>1, MoveType DEF EnterGate, Move, TaskState
  <2>2. QueueType' /\ SlotType' /\ TreeType' /\ BranchType' /\ CounterType'
    BY <1>1 DEF EnterGate, Move, QueueType, SlotType, TreeType, BranchType, CounterType
  <2>. QED BY <1>0, <2>1, <2>2
<1>2. CASE Prepare(n)
  <2>1. TaskType'
    BY <1>2, MoveType DEF Prepare, Move, TaskState
  <2>2. TreeType'
    <3>. USE DEF TreeType
    <3>1. quarantined' \subseteq Node
      BY <1>2, QuarantineType DEF Prepare
    <3>2. PICK d \in {SelectPath(n)} :
            /\ path' = [path EXCEPT ![n] = d]
            /\ dirs' = IF dirs[d].there
                       THEN [dirs EXCEPT ![d].branch = n]
                       ELSE [Detached(n, d) EXCEPT
                               ![d] = [there |-> TRUE, branch |-> n, dirty |-> {}]]
      BY <1>2 DEF Prepare
    <3>3. d \in Node
      BY WorkspaceAssumption DEF SelectPath
    <3>4. path' \in [Node -> Node \cup {NoNode}]
      BY <3>2, <3>3
    <3>5. [dirs EXCEPT ![d].branch = n] \in [Node -> TreeRecord]
      BY <3>3 DEF TreeRecord
    <3>6. Detached(n, d) \in [Node -> TreeRecord]
      BY DEF Detached, TreeRecord
    <3>7. [there |-> TRUE, branch |-> n, dirty |-> {}] \in TreeRecord
      BY DEF TreeRecord
    <3>. QED BY <3>1, <3>2, <3>4, <3>5, <3>6, <3>7
  <2>3. BranchType'
    BY <1>2 DEF Prepare, BranchType
  <2>4. QueueType' /\ SlotType' /\ CounterType'
    BY <1>2 DEF Prepare, Move, QueueType, SlotType, CounterType
  <2>. QED BY <1>0, <2>1, <2>2, <2>3, <2>4
<1>3. CASE PrepareFails(n)
  <2>1. TaskType'
    BY <1>3, MoveType DEF PrepareFails, Move, TaskState
  <2>2. QueueType'
    BY <1>3 DEF PrepareFails, QueueType
  <2>3. SlotType'
    BY <1>3 DEF PrepareFails, SlotType, ReleaseSlot
  <2>4. TreeType'
    BY <1>3, QuarantineType DEF PrepareFails, TreeType
  <2>5. BranchType' /\ CounterType'
    BY <1>3 DEF PrepareFails, Move, BranchType, CounterType
  <2>. QED BY <1>0, <2>1, <2>2, <2>3, <2>4, <2>5
<1>4. CASE PhaseSucceeds(n)
  <2>1. TaskType'
    BY <1>4, MoveType DEF PhaseSucceeds, Move, TaskState
  <2>2. TreeType'
    <3>1. <<n, attempt[n]>> \in Item
      BY <1>4, WrittenItem DEF PhaseSucceeds, Move
    <3>2. \E items \in SUBSET Item : dirs' = [dirs EXCEPT ![path[n]].dirty = @ \cup items]
      BY <1>4, <3>1 DEF PhaseSucceeds, Write
    <3>3. dirs' \in [Node -> TreeRecord]
      BY <3>2, WriteType DEF TreeType
    <3>. QED BY <1>4, <3>3 DEF PhaseSucceeds, TreeType
  <2>3. QueueType' /\ SlotType' /\ BranchType' /\ CounterType'
    BY <1>4 DEF PhaseSucceeds, Move, QueueType, SlotType, BranchType, CounterType
  <2>. QED BY <1>0, <2>1, <2>2, <2>3
<1>5. CASE PhaseFails(n)
  <2>1. TaskType'
    BY <1>5, MoveType DEF PhaseFails, Move, TaskState
  <2>2. QueueType'
    BY <1>5 DEF PhaseFails, QueueType
  <2>3. TreeType'
    <3>1. <<n, attempt[n]>> \in Item
      BY <1>5, WrittenItem DEF PhaseFails, Move
    <3>2. \E items \in SUBSET Item : dirs' = [dirs EXCEPT ![path[n]].dirty = @ \cup items]
      BY <1>5, <3>1 DEF PhaseFails, Write
    <3>3. dirs' \in [Node -> TreeRecord]
      BY <3>2, WriteType DEF TreeType
    <3>. QED BY <1>5, <3>3 DEF PhaseFails, TreeType
  <2>4. SlotType' /\ BranchType' /\ CounterType'
    BY <1>5 DEF PhaseFails, Move, SlotType, BranchType, CounterType
  <2>. QED BY <1>0, <2>1, <2>2, <2>3, <2>4
<1>6. CASE TakeMergeLock(n)
  <2>1. TaskType'
    BY <1>6, MoveType DEF TakeMergeLock, Move, TaskState
  <2>2. QueueType' /\ SlotType' /\ TreeType' /\ BranchType' /\ CounterType'
    BY <1>6 DEF TakeMergeLock, Move, QueueType, SlotType, TreeType, BranchType, CounterType
  <2>. QED BY <1>0, <2>1, <2>2
<1>7. CASE EnterMerge(n)
  <2>1. TaskType'
    BY <1>7, MoveType DEF EnterMerge, Move, TaskState
  <2>2. QueueType' /\ SlotType' /\ TreeType' /\ BranchType' /\ CounterType'
    BY <1>7 DEF EnterMerge, Move, QueueType, SlotType, TreeType, BranchType, CounterType
  <2>. QED BY <1>0, <2>1, <2>2
<1>8. CASE MergeLands(n)
  <2>1. TaskType'
    BY <1>8, MoveType DEF MergeLands, Move, TaskState
  <2>2. QueueType'
    BY <1>8 DEF MergeLands, CompletePhase, QueueType
  <2>3. TreeType'
    <3>1. dirs' = [dirs EXCEPT ![path[n]].dirty = {}]
      BY <1>8 DEF MergeLands, Commit
    <3>2. {} \in SUBSET Item
      OBVIOUS
    <3>3. dirs' \in [Node -> TreeRecord]
      BY <3>1, <3>2, DirtyType DEF TreeType
    <3>4. path[n] \in Node /\ path' = path
      BY <1>8 DEF MergeLands, Move, PathHeld, Holding
    <3>. QED BY <1>8, <3>3, <3>4 DEF MergeLands, TreeType
  <2>4. BranchType'
    <3>1. path[n] \in Node
      BY <1>8 DEF MergeLands, Move, PathHeld, Holding
    <3>. QED BY <1>8, <3>1, TreeItems DEF MergeLands, Commit, driftVars, BranchType
  <2>5. SlotType' /\ CounterType'
    BY <1>8 DEF MergeLands, Move, SlotType, CounterType
  <2>. QED BY <1>0, <2>1, <2>2, <2>3, <2>4, <2>5
<1>9. CASE CommitFails(n)
  <2>1. TaskType'
    BY <1>9, MoveType DEF CommitFails, Move, TaskState
  <2>2. QueueType'
    BY <1>9 DEF CommitFails, QueueType
  <2>3. SlotType' /\ TreeType' /\ BranchType' /\ CounterType'
    BY <1>9 DEF CommitFails, Move, SlotType, TreeType, BranchType, CounterType
  <2>. QED BY <1>0, <2>1, <2>2, <2>3
<1>10. CASE MergeAborts(n)
  <2>1. TaskType'
    BY <1>10, MoveType DEF MergeAborts, Move, TaskState
  <2>2. QueueType'
    BY <1>10 DEF MergeAborts, QueueType
  <2>3. TreeType'
    <3>1. dirs' = [dirs EXCEPT ![path[n]].dirty = {}]
      BY <1>10 DEF MergeAborts, Commit
    <3>2. {} \in SUBSET Item
      OBVIOUS
    <3>3. dirs' \in [Node -> TreeRecord]
      BY <3>1, <3>2, DirtyType DEF TreeType
    <3>4. path[n] \in Node /\ path' = path
      BY <1>10 DEF MergeAborts, Move, PathHeld, Holding
    <3>. QED BY <1>10, <3>3, <3>4 DEF MergeAborts, TreeType
  <2>4. BranchType'
    <3>1. path[n] \in Node
      BY <1>10 DEF MergeAborts, Move, PathHeld, Holding
    <3>. QED BY <1>10, <3>1, TreeItems DEF MergeAborts, Commit, BranchType
  <2>5. SlotType' /\ CounterType'
    BY <1>10 DEF MergeAborts, Move, SlotType, CounterType
  <2>. QED BY <1>0, <2>1, <2>2, <2>3, <2>4, <2>5
<1>11. CASE Rewind(n)
  <2>1. TaskType'
    BY <1>11, MoveType DEF Rewind, Move, TaskState
  <2>2. QueueType'
    BY <1>11 DEF Rewind, QueueType
  <2>3. SlotType'
    BY <1>11 DEF Rewind, SlotType, ReleaseSlot
  <2>4. TreeType'
    <3>1. dirs' \in [Node -> TreeRecord]
      BY <1>11, RemoveType DEF Rewind, TreeType
    <3>. QED BY <1>11, <3>1 DEF Rewind, TreeType
  <2>5. BranchType'
    BY <1>11 DEF Rewind, BranchType
  <2>6. CounterType'
    BY <1>11 DEF Rewind, Move, CounterType
  <2>. QED BY <1>0, <2>1, <2>2, <2>3, <2>4, <2>5, <2>6
<1>12. CASE RewindFails(n)
  <2>1. TaskType'
    BY <1>12, MoveType DEF RewindFails, Move, TaskState
  <2>2. QueueType'
    BY <1>12 DEF RewindFails, QueueType
  <2>3. SlotType'
    BY <1>12 DEF RewindFails, SlotType, ReleaseSlot
  <2>4. TreeType'
    BY <1>12 DEF RewindFails, TreeType
  <2>5. CounterType'
    BY <1>12 DEF RewindFails, CounterType
  <2>6. BranchType'
    BY <1>12 DEF RewindFails, Move, BranchType
  <2>. QED BY <1>0, <2>1, <2>2, <2>3, <2>4, <2>5, <2>6
<1>13. CASE SettleFailed(n)
  <2>1. TaskType'
    BY <1>13, MoveType DEF SettleFailed, Move, TaskState
  <2>2. SlotType'
    BY <1>13 DEF SettleFailed, SlotType, ReleaseSlot
  <2>3. QueueType' /\ TreeType' /\ BranchType' /\ CounterType'
    BY <1>13 DEF SettleFailed, Move, QueueType, TreeType, BranchType, CounterType
  <2>. QED BY <1>0, <2>1, <2>2, <2>3
<1>14. CASE SettleMerged(n)
  <2>1. TaskType'
    BY <1>14, MoveType DEF SettleMerged, Move, TaskState
  <2>2. SlotType'
    BY <1>14 DEF SettleMerged, SlotType, ReleaseSlot
  <2>3. TreeType'
    <3>1. dirs' \in [Node -> TreeRecord]
      BY <1>14, RemoveType DEF SettleMerged, TreeType
    <3>. QED BY <1>14, <3>1 DEF SettleMerged, TreeType
  <2>4. QueueType' /\ BranchType' /\ CounterType'
    BY <1>14 DEF SettleMerged, Move, QueueType, BranchType, CounterType
  <2>. QED BY <1>0, <2>1, <2>2, <2>3, <2>4
<1>15. CASE Reap(n)
  <2>1. TaskType'
    BY <1>15, MoveType DEF Reap, Move, TaskState
  <2>2. SlotType'
    BY <1>15, WorkspaceAssumption DEF Reap, SlotType, Slot
  <2>3. TreeType'
    BY <1>15 DEF Reap, TreeType
  <2>4. QueueType' /\ BranchType' /\ CounterType'
    BY <1>15 DEF Reap, Move, QueueType, BranchType, CounterType
  <2>. QED BY <1>0, <2>1, <2>2, <2>3, <2>4
<1>16. CASE RepairDrift(n)
  <2>1. TaskType'
    BY <1>16, MoveType DEF RepairDrift, Move, TaskState
  <2>2. QueueType'
    BY <1>16 DEF RepairDrift, CompletePhase, QueueType
  <2>3. BranchType'
    <3>1. <<n, 0>> \in Item
      BY WorkspaceAssumption DEF Item
    <3>2. integration' \subseteq Item
      BY <1>16, <3>1 DEF RepairDrift, BranchType
    <3>3. staged' \subseteq Item
      BY <1>16, <3>1 DEF RepairDrift, BranchType
    <3>. QED BY <1>16, <3>2, <3>3 DEF RepairDrift, BranchType
  <2>4. SlotType' /\ TreeType' /\ CounterType'
    BY <1>16 DEF RepairDrift, SlotType, TreeType, CounterType
  <2>. QED BY <1>0, <2>1, <2>2, <2>3, <2>4
<1>. QED BY <1>1, <1>2, <1>3, <1>4, <1>5, <1>6, <1>7, <1>8, <1>9, <1>10, <1>11, <1>12, <1>13, <1>14,
            <1>15, <1>16 DEF TaskStep

\* Between two drains.
LEMMA RetryType ==
  ASSUME TypeInv, Retry
  PROVE  TypeInv'
<1>. USE DEF TypeInv
<1>1. QueueType' /\ TaskType' /\ SlotType' /\ BranchType' /\ CounterType' /\ PathHeld'
  BY DEF Retry, flightVars, driftVars, QueueType, TaskType, SlotType, BranchType, CounterType,
         PathHeld, Holding
<1>2. dirs' \in [Node -> TreeRecord]
  BY DEF Retry, Cleanup, NoTree, TreeType, TreeRecord
<1>. QED BY <1>1, <1>2 DEF Retry, flightVars, TreeType

\* What the interrupted phases wrote stays in their directories.
LEMMA CrashType ==
  ASSUME TypeInv, Crash
  PROVE  TypeInv'
<1>. USE DEF TypeInv
<1>1. QueueType' /\ BranchType' /\ CounterType'
  BY DEF Crash, queueVars, driftVars, QueueType, BranchType, CounterType
<1>2. TaskType' /\ PathHeld'
  BY DEF Crash, TaskType, TaskState, PathHeld, Holding
<1>3. SlotType'
  BY WorkspaceAssumption DEF Crash, SlotType, Slot
<1>4. PICK W \in SUBSET {n \in Node : task[n] = "running"} :
        dirs' = [d \in Node |->
                   [dirs[d] EXCEPT !.dirty =
                      @ \cup {<<n, attempt[n]>> : n \in {m \in W : path[m] = d}}]]
  BY DEF Crash
<1>5. \A d \in Node : {<<n, attempt[n]>> : n \in {m \in W : path[m] = d}} \subseteq Item
  BY <1>4, WrittenItem
<1>6. dirs' \in [Node -> TreeRecord]
  BY <1>4, <1>5 DEF TreeType, TreeRecord
<1>7. TreeType'
  BY <1>6 DEF Crash, TreeType
<1>. QED BY <1>1, <1>2, <1>3, <1>7

\* The first state is well typed.
LEMMA InitType == Init => TypeInv
<1>. SUFFICES ASSUME Init PROVE TypeInv
  OBVIOUS
<1>1. QueueType /\ CounterType /\ PathHeld
  BY DEF Init, QueueType, CounterType, PathHeld, Holding
<1>4. TaskType
  BY WorkspaceAssumption DEF Init, TaskType, TaskState
<1>5. BranchType
  BY DEF Init, BranchType
<1>2. SlotType
  BY WorkspaceAssumption DEF Init, SlotType, Slot
<1>3. TreeType
  BY DEF Init, TreeType, TreeRecord, NoTree
<1>. QED BY <1>1, <1>2, <1>3, <1>4, <1>5 DEF TypeInv

\* So does every step of the drain.
LEMMA StepType == TypeInv /\ [Next]_vars => TypeInv'
<1>. SUFFICES ASSUME TypeInv, [Next]_vars PROVE TypeInv'
  OBVIOUS
<1>1. CASE Retry
  BY <1>1, RetryType
<1>2. CASE Crash
  BY <1>2, CrashType
<1>3. CASE \E n \in Node : Start(n) \/ TaskStep(n)
  BY <1>3, StartType, TaskStepType
<1>4. CASE UNCHANGED vars
  BY <1>4 DEF vars, queueVars, flightVars, gitVars, counters, TypeInv, QueueType, TaskType,
              SlotType, TreeType, BranchType, CounterType, PathHeld, Holding
<1>. QED BY <1>1, <1>2, <1>3, <1>4 DEF Next

\* The state of the worktree manager and of the drain is well typed whatever
\* fails, for every tree, every grouping and every number of slots.
THEOREM TypeCorrect == Spec => []TypeOK
<1>. QED BY InitType, StepType, TypeInvOK, PTL DEF Spec

-----------------------------------------------------------------------------
(* The gate *)

\* A merge that has passed the gate is alone in it.
MergeAlone == \A n \in Node : task[n] = "merging" => Readers = {}

\* Readers enter only past no merge, a merge only past no reader.
LEMMA GateStep ==
  ASSUME TypeInv, MergeAlone, NEW n \in Node, Start(n) \/ TaskStep(n)
  PROVE  MergeAlone'
<1>. USE DEF MergeAlone, Readers
<1>1. task \in [Node -> TaskState]
  BY DEF TypeInv, TaskType
<1>2. CASE EnterGate(n)
  <2>1. \A m \in Node : task[m] # "merging"
    BY <1>2 DEF EnterGate, MayRead
  <2>. QED BY <1>1, <1>2, <2>1 DEF EnterGate, Move
<1>3. CASE EnterMerge(n)
  BY <1>1, <1>3 DEF EnterMerge, MayWrite, Move
<1>4. CASE \E to \in TaskState \ {"checkout", "rewinding", "merging"} :
             task' = [task EXCEPT ![n] = to]
  BY <1>1, <1>4
<1>5. TaskStep(n) /\ ~EnterGate(n) /\ ~EnterMerge(n) =>
        \E to \in TaskState \ {"checkout", "rewinding", "merging"} :
          task' = [task EXCEPT ![n] = to]
  BY DEF TaskStep, TaskState, Move, Prepare, PrepareFails, PhaseSucceeds, PhaseFails,
         TakeMergeLock, MergeLands, RepairDrift, CommitFails, MergeAborts, Rewind,
         RewindFails, SettleFailed, SettleMerged, Reap
<1>6. Start(n) => task' = [task EXCEPT ![n] = "opening"]
  BY DEF Start, Move
<1>. QED BY <1>2, <1>3, <1>4, <1>5, <1>6 DEF TaskState

GateInv == TypeInv /\ MergeAlone

\* The exclusion is inductive.
LEMMA StepGate == GateInv /\ [Next]_vars => GateInv'
<1>. SUFFICES ASSUME GateInv, [Next]_vars PROVE MergeAlone'
  BY StepType DEF GateInv
<1>1. CASE Retry
  BY <1>1 DEF Retry, flightVars, GateInv, MergeAlone, Readers
<1>2. CASE Crash
  BY <1>2 DEF Crash, MergeAlone
<1>3. CASE \E n \in Node : Start(n) \/ TaskStep(n)
  BY <1>3, GateStep DEF GateInv
<1>4. CASE UNCHANGED vars
  BY <1>4 DEF vars, flightVars, GateInv, MergeAlone, Readers
<1>. QED BY <1>1, <1>2, <1>3, <1>4 DEF Next

\* Only merges and drift repairs move the integration branch.
LEMMA OnlyMergesMove ==
  ASSUME [Next]_vars, integration' # integration
  PROVE  (\E n \in Node : task[n] = "merging") \/ (\E n \in Node : RepairDrift(n))
<1>1. \E n \in Node : MergeLands(n) \/ RepairDrift(n)
  BY DEF Next, Retry, Crash, Start, TaskStep, EnterGate, Prepare, PrepareFails,
         PhaseSucceeds, PhaseFails, TakeMergeLock, EnterMerge, CommitFails, MergeAborts,
         Rewind, RewindFails, SettleFailed, SettleMerged, Reap, vars, gitVars, driftVars
<1>. QED BY <1>1 DEF MergeLands

LEMMA InitGate == Init => GateInv
BY InitType DEF Init, GateInv, MergeAlone

\* Whatever else moves the integration branch, a merge never does so while a
\* checkout or a reset reads its tree.
THEOREM CheckoutsAreStable == Spec => CheckoutIsStable
<1>1. ASSUME TypeInv, NEW n \in Node, RepairDrift(n)
      PROVE  RepairsDrift
  <2>1. task \in [Node -> TaskState] /\ task[n] = "drifting" /\ task' = [task EXCEPT ![n] = "discard"]
    BY <1>1 DEF TypeInv, TaskType, RepairDrift, Move
  <2>. QED BY <2>1 DEF RepairsDrift
<1>2. GateInv /\ [Next]_vars => (integration' # integration /\ ~RepairsDrift => Readers = {})
  BY <1>1, OnlyMergesMove DEF GateInv, MergeAlone
<1>3. GateInv /\ [Next]_vars => [integration' # integration /\ ~RepairsDrift => Readers = {}]_vars
  BY <1>2
<1>. QED BY InitGate, <1>3, StepGate, PTL DEF Spec, CheckoutIsStable

\* Without arbitration no task waits for a drift repair.
NoDrift == \A n \in Node : task[n] # "drifting"

LEMMA StepNoDrift ==
  ASSUME ~MergeArbitration, TypeInv, NoDrift, [Next]_vars
  PROVE  NoDrift'
<1>0. task \in [Node -> TaskState]
  BY DEF TypeInv, TaskType
<1>1. CASE \E n \in Node : Start(n) \/ TaskStep(n)
  <2>1. PICK n \in Node : Start(n) \/ TaskStep(n)
    BY <1>1
  <2>2. \E to \in TaskState \ {"drifting"} : task' = [task EXCEPT ![n] = to]
    BY <2>1
    DEF TaskStep, TaskState, Move, Start, EnterGate, Prepare, PrepareFails, PhaseSucceeds,
        PhaseFails, TakeMergeLock, EnterMerge, MergeLands, RepairDrift, CommitFails,
        MergeAborts, Rewind, RewindFails, SettleFailed, SettleMerged, Reap
  <2>. QED BY <1>0, <2>2 DEF NoDrift
<1>2. CASE Retry \/ UNCHANGED vars
  BY <1>2 DEF Retry, vars, flightVars, NoDrift
<1>3. CASE Crash
  BY <1>3 DEF Crash, NoDrift
<1>. QED BY <1>1, <1>2, <1>3 DEF Next

\* With ARC_MERGE_ARBITRATION off, as it is by default, the exclusion is the one
\* the module doc promises.
THEOREM CheckoutsAreNeverRaced == ~MergeArbitration => (Spec => CheckoutNeverRaced)
<1>. SUFFICES ASSUME ~MergeArbitration PROVE Spec => CheckoutNeverRaced
  OBVIOUS
<1>. DEFINE QuietInv == GateInv /\ NoDrift
<1>1. Init => QuietInv
  BY InitGate DEF Init, NoDrift
<1>2. QuietInv /\ [Next]_vars => QuietInv'
  BY StepGate, StepNoDrift DEF GateInv
<1>3. QuietInv /\ [Next]_vars => [integration' # integration => Readers = {}]_vars
  BY OnlyMergesMove DEF GateInv, MergeAlone, NoDrift, RepairDrift, Move
<1>. QED BY <1>1, <1>2, <1>3, PTL DEF Spec, CheckoutNeverRaced

-----------------------------------------------------------------------------
(* The port slots *)

\* A slot that is held is the one that a task in flight carries.
SlotOwner ==
  \A s \in Slot : slots[s] # NoNode =>
    /\ task[slots[s]] \notin {"none", "finished"}
    /\ slotOf[slots[s]] = s

\* The places from which a task gives its slot back.
LEMMA ReleaseOwner ==
  ASSUME TypeInv, SlotOwner, NEW n \in Node, ReleaseSlot(n), slotOf' = slotOf,
         NEW to \in TaskState, task' = [task EXCEPT ![n] = to]
  PROVE  SlotOwner'
<1>. SUFFICES ASSUME NEW s \in Slot, slots'[s] # NoNode
              PROVE  /\ task'[slots'[s]] \notin {"none", "finished"}
                     /\ slotOf'[slots'[s]] = s
  BY DEF SlotOwner
<1>1. slots \in [Slot -> Node \cup {NoNode}] /\ task \in [Node -> TaskState]
  BY DEF TypeInv, SlotType, TaskType
<1>2. s # slotOf[n] /\ slots'[s] = slots[s]
  BY <1>1 DEF ReleaseSlot
<1>3. slots[s] # n /\ slots[s] \in Node
  BY <1>1, <1>2 DEF SlotOwner
<1>. QED BY <1>1, <1>2, <1>3 DEF SlotOwner

\* A task acquires a free slot, and whoever gives a slot back stops owning it.
LEMMA SlotStep ==
  ASSUME TypeInv, SlotOwner, NEW n \in Node, Start(n) \/ TaskStep(n)
  PROVE  SlotOwner'
<1>0. /\ slots \in [Slot -> Node \cup {NoNode}] /\ slotOf \in [Node -> Slot]
      /\ task \in [Node -> TaskState]
  BY DEF TypeInv, SlotType, TaskType
<1>1. CASE Start(n)
  <2>1. task[n] = "none" /\ task' = [task EXCEPT ![n] = "opening"]
    BY <1>1 DEF Start, Move
  <2>2. PICK s \in FreeSlots :
          slots' = [slots EXCEPT ![s] = n] /\ slotOf' = [slotOf EXCEPT ![n] = s]
    BY <1>1 DEF Start
  <2>3. s \in Slot
    BY DEF FreeSlots
  <2>4. \A t \in Slot \ {s} : slots'[t] # NoNode =>
          /\ slots'[t] \in Node \ {n} /\ task'[slots'[t]] = task[slots[t]]
          /\ slotOf'[slots'[t]] = slotOf[slots[t]] /\ slots'[t] = slots[t]
    BY <1>0, <2>1, <2>2 DEF SlotOwner
  <2>5. slots'[s] = n /\ task'[n] = "opening" /\ slotOf'[n] = s
    BY <1>0, <2>1, <2>2, <2>3
  <2>. QED BY <2>4, <2>5 DEF SlotOwner
<1>2. CASE Reap(n)
  <2>1. /\ task[n] = "finished" /\ task' = [task EXCEPT ![n] = "none"]
        /\ slotOf' = [slotOf EXCEPT ![n] = 0] /\ slots' = slots
    BY <1>2 DEF Reap, Move
  <2>2. \A s \in Slot : slots[s] # NoNode => slots[s] \in Node \ {n}
    BY <1>0, <2>1 DEF SlotOwner
  <2>. QED BY <1>0, <2>1, <2>2 DEF SlotOwner
<1>3. CASE PrepareFails(n) \/ Rewind(n) \/ RewindFails(n) \/ SettleFailed(n) \/ SettleMerged(n)
  <2>1. /\ \E to \in TaskState : task' = [task EXCEPT ![n] = to]
        /\ ReleaseSlot(n) /\ slotOf' = slotOf
    BY <1>3
    DEF PrepareFails, Rewind, RewindFails, SettleFailed, SettleMerged, Move, TaskState
  <2>. QED BY <2>1, ReleaseOwner
<1>4. CASE \/ EnterGate(n) \/ Prepare(n) \/ PhaseSucceeds(n) \/ PhaseFails(n)
           \/ TakeMergeLock(n) \/ EnterMerge(n) \/ MergeLands(n) \/ RepairDrift(n)
           \/ CommitFails(n) \/ MergeAborts(n)
  <2>1. /\ \E to \in TaskState \ {"none", "finished"} : task' = [task EXCEPT ![n] = to]
        /\ slots' = slots /\ slotOf' = slotOf
    BY <1>4
    DEF EnterGate, Prepare, PhaseSucceeds, PhaseFails, TakeMergeLock, EnterMerge,
        MergeLands, RepairDrift, CommitFails, MergeAborts, Move, TaskState
  <2>. QED BY <1>0, <2>1 DEF SlotOwner
<1>. QED BY <1>1, <1>2, <1>3, <1>4 DEF TaskStep

SlotInv == TypeInv /\ SlotOwner

\* Slot ownership is inductive.
LEMMA StepSlot == SlotInv /\ [Next]_vars => SlotInv'
<1>. SUFFICES ASSUME SlotInv, [Next]_vars PROVE SlotOwner'
  BY StepType DEF SlotInv
<1>1. CASE Retry
  BY <1>1 DEF Retry, flightVars, SlotInv, SlotOwner
<1>2. CASE Crash
  BY <1>2 DEF Crash, SlotOwner
<1>3. CASE \E n \in Node : Start(n) \/ TaskStep(n)
  BY <1>3, SlotStep DEF SlotInv
<1>4. CASE UNCHANGED vars
  BY <1>4 DEF vars, flightVars, SlotInv, SlotOwner
<1>. QED BY <1>1, <1>2, <1>3, <1>4 DEF Next

\* If no slot were free, the slots would be held by as many tasks in flight.
LEMMA OwnersLeaveASlot == SlotInv => NeverOutOfSlots
<1>. SUFFICES ASSUME SlotInv, Cardinality(InFlight) < MaxConcurrent, FreeSlots = {}
              PROVE  FALSE
  BY DEF NeverOutOfSlots
<1>. USE WorkspaceAssumption
<1>1. slots \in [Slot -> InFlight]
  <2>1. slots \in [Slot -> Node \cup {NoNode}]
    BY DEF SlotInv, TypeInv, SlotType
  <2>2. \A s \in Slot : slots[s] \in InFlight
    BY <2>1 DEF FreeSlots, InFlight, SlotInv, SlotOwner
  <2>. QED BY <2>1, <2>2
<1>2. IsFiniteSet(InFlight)
  BY FS_Subset DEF InFlight
<1>3. IsFiniteSet(Slot) /\ Cardinality(Slot) = MaxConcurrent
  <2>1. 0 \in Int /\ MaxConcurrent - 1 \in Int /\ MaxConcurrent - 1 >= 0
    OBVIOUS
  <2>. QED BY <2>1, FS_Interval DEF Slot
<1>4. PICK s, t \in Slot : s # t /\ slots[s] = slots[t]
  BY <1>1, <1>2, <1>3, FS_PigeonHole
<1>5. slots[s] # NoNode
  BY <1>1 DEF InFlight
<1>. QED BY <1>4, <1>5 DEF SlotInv, SlotOwner

\* No slot ever leaks, although a declined requeue releases one twice.
THEOREM SlotsNeverLeak == Spec => []NeverOutOfSlots
<1>1. Init => SlotInv
  BY InitType DEF Init, SlotInv, SlotOwner
<1>. QED BY <1>1, StepSlot, OwnersLeaveASlot, PTL DEF Spec

-----------------------------------------------------------------------------
(* The directories *)

\* One task in flight per group, and a task's directory is its own or its group's.
GroupsApart == \A m, n \in InFlight : m # n => Group[m] # Group[n]

PathInGroup == \A n \in Node : path[n] \in {NoNode, n, Group[n]}

\* A task's directory is there, on the branch of its node.
TreeHeld ==
  \A n \in Node : task[n] \in Holding => dirs[path[n]].there /\ dirs[path[n]].branch = n

\* Nothing is in a directory that is not there.
BareDirs == \A d \in Node : ~dirs[d].there => dirs[d].dirty = {}

\* After its commit a task has nothing uncommitted.
Settling == {"drifting", "resetting", "rewinding", "discard"}

Committed == \A n \in Node : task[n] \in Settling => dirs[path[n]].dirty = {}

TreeInv == TypeInv /\ GroupsApart /\ PathInGroup /\ TreeHeld /\ BareDirs /\ Committed

\* Group and own directories of two tasks in flight are different ones.
LEMMA OwnDirectory ==
  ASSUME TypeInv, GroupsApart, PathInGroup, NEW m \in InFlight, NEW n \in InFlight, m # n,
         NEW d \in {n, Group[n]}
  PROVE  path[m] # d
<1>. USE WorkspaceAssumption
<1>1. m \in Node /\ n \in Node /\ d \in Node /\ Group[d] = Group[n] /\ Group[m] # Group[n]
  BY DEF InFlight, GroupsApart
<1>2. path[m] \in {NoNode, m, Group[m]}
  BY <1>1 DEF PathInGroup
<1>. QED BY <1>1, <1>2

\* The target of a checkout.
LEMMA SelectedPath ==
  ASSUME NEW n \in Node
  PROVE  SelectPath(n) \in {n, Group[n]} /\ SelectPath(n) \in Node
BY WorkspaceAssumption DEF SelectPath

\* The directory of a task that has one.
LEMMA HeldPath ==
  ASSUME TypeInv, PathInGroup, NEW n \in Node, task[n] \in Holding
  PROVE  path[n] \in {n, Group[n]} /\ path[n] \in Node /\ n \in InFlight
<1>1. path[n] \in Node
  BY DEF TypeInv, PathHeld
<1>. QED BY <1>1, WorkspaceAssumption DEF PathInGroup, InFlight, Holding

\* What a checkout does to the directories.
LEMMA PrepareDirs ==
  ASSUME TypeInv, NEW n \in Node, Prepare(n)
  PROVE  /\ task[n] = "checkout" /\ task' = [task EXCEPT ![n] = "running"]
         /\ path' = [path EXCEPT ![n] = SelectPath(n)]
         /\ dirs'[SelectPath(n)].there /\ dirs'[SelectPath(n)].branch = n
         /\ \A e \in Node \ {SelectPath(n)} :
              /\ dirs'[e].there = dirs[e].there /\ dirs'[e].dirty = dirs[e].dirty
              /\ dirs[e].branch # n => dirs'[e] = dirs[e]
         /\ \A e \in Node : dirs[e].there => dirs'[e].dirty = dirs[e].dirty
<1>0. dirs \in [Node -> TreeRecord] /\ SelectPath(n) \in Node
  BY SelectedPath DEF TypeInv, TreeType
<1>1. PICK d \in {SelectPath(n)} :
        /\ path' = [path EXCEPT ![n] = d]
        /\ dirs' = IF dirs[d].there
                   THEN [dirs EXCEPT ![d].branch = n]
                   ELSE [Detached(n, d) EXCEPT
                           ![d] = [there |-> TRUE, branch |-> n, dirty |-> {}]]
  BY DEF Prepare
<1>2. CASE dirs[d].there
  <2>1. dirs' = [dirs EXCEPT ![d] = [dirs[d] EXCEPT !.branch = n]]
    BY <1>1, <1>2
  <2>2. dirs[d] \in TreeRecord
    BY <1>0
  <2>. QED BY <1>0, <1>1, <1>2, <2>1, <2>2 DEF Prepare, Move, TreeRecord
<1>3. CASE ~dirs[d].there
  <2>1. dirs' = [Detached(n, d) EXCEPT ![d] = [there |-> TRUE, branch |-> n, dirty |-> {}]]
    BY <1>1, <1>3
  <2>2. \A e \in Node \ {d} :
          dirs'[e] = IF dirs[e].branch = n THEN [dirs[e] EXCEPT !.branch = NoNode] ELSE dirs[e]
    BY <2>1 DEF Detached
  <2>3. \A e \in Node : dirs[e] \in TreeRecord
    BY <1>0
  <2>4. dirs'[d] = [there |-> TRUE, branch |-> n, dirty |-> {}]
    BY <1>0, <2>1 DEF Detached
  <2>5. d = SelectPath(n) /\ dirs'[d].there /\ dirs'[d].branch = n
    BY <2>4
  <2>6. \A e \in Node \ {d} :
          /\ dirs'[e].there = dirs[e].there /\ dirs'[e].dirty = dirs[e].dirty
          /\ dirs[e].branch # n => dirs'[e] = dirs[e]
    BY <2>2, <2>3 DEF TreeRecord
  <2>. QED BY <1>1, <1>3, <2>5, <2>6 DEF Prepare, Move
<1>. QED BY <1>2, <1>3

\* A step of a task other than a checkout changes its own or its group's directory.
LEMMA StepDirs ==
  ASSUME TypeInv, PathInGroup, NEW n \in Node, TaskStep(n), ~Prepare(n)
  PROVE  \A e \in Node \ {n, Group[n]} : dirs'[e] = dirs[e]
<1>0. dirs \in [Node -> TreeRecord]
  BY DEF TypeInv, TreeType
<1>1. CASE PhaseSucceeds(n) \/ PhaseFails(n) \/ MergeLands(n) \/ MergeAborts(n)
  <2>1. path[n] \in {n, Group[n]}
    BY <1>1, HeldPath
    DEF PhaseSucceeds, PhaseFails, MergeLands, MergeAborts, Move, Holding
  <2>2. \E items : dirs' = [dirs EXCEPT ![path[n]].dirty = items]
    BY <1>1 DEF PhaseSucceeds, PhaseFails, MergeLands, MergeAborts, Write, Commit
  <2>. QED BY <1>0, <2>1, <2>2
<1>2. CASE Rewind(n) \/ SettleMerged(n)
  BY <1>0, <1>2 DEF Rewind, SettleMerged, Remove
<1>3. CASE \/ EnterGate(n) \/ PrepareFails(n) \/ TakeMergeLock(n) \/ EnterMerge(n)
           \/ CommitFails(n) \/ RepairDrift(n) \/ RewindFails(n) \/ SettleFailed(n) \/ Reap(n)
  BY <1>3
  DEF EnterGate, PrepareFails, TakeMergeLock, EnterMerge, CommitFails, RepairDrift, RewindFails,
      SettleFailed, Reap, gitVars
<1>. QED BY <1>1, <1>2, <1>3 DEF TaskStep

\* A step of one task leaves the place, the path and the directory of another.
LEMMA OthersKept ==
  ASSUME TreeInv, NEW n \in Node, TaskStep(n), NEW m \in Node \ {n}, task[m] \in Holding
  PROVE  path'[m] = path[m] /\ dirs'[path[m]] = dirs[path[m]]
<1>. USE DEF TreeInv
<1>1. n \in InFlight /\ m \in InFlight /\ path[m] \in Node
  <2>1. n \in InFlight
    BY DEF InFlight, TaskStep, EnterGate, Prepare, PrepareFails, PhaseSucceeds, PhaseFails,
           TakeMergeLock, EnterMerge, MergeLands, RepairDrift, CommitFails, MergeAborts, Rewind,
           RewindFails, SettleFailed, SettleMerged, Reap, Move
  <2>. QED BY <2>1, HeldPath
<1>2. path[m] \notin {n, Group[n]}
  BY <1>1, OwnDirectory
<1>3. path'[m] = path[m]
  <2>1. path \in [Node -> Node \cup {NoNode}]
    BY DEF TypeInv, TreeType
  <2>2. path' = path \/ \E p : path' = [path EXCEPT ![n] = p]
    BY DEF TaskStep, EnterGate, Prepare, PrepareFails, PhaseSucceeds, PhaseFails,
           TakeMergeLock, EnterMerge, MergeLands, RepairDrift, CommitFails, MergeAborts, Rewind,
           RewindFails, SettleFailed, SettleMerged, Reap
  <2>. QED BY <2>1, <2>2
<1>4. CASE Prepare(n)
  <2>1. path[m] # SelectPath(n) /\ dirs[path[m]].branch # n
    BY <1>2, SelectedPath DEF TreeHeld
  <2>. QED BY <1>1, <1>3, <1>4, <2>1, PrepareDirs
<1>5. CASE ~Prepare(n)
  BY <1>1, <1>2, <1>3, <1>5, StepDirs
<1>. QED BY <1>4, <1>5

\* The directory of the task itself after its step.
OwnTreeHeld(n) ==
  task'[n] \in Holding =>
    /\ dirs'[path'[n]].there /\ dirs'[path'[n]].branch = n
    /\ task'[n] \in Settling => dirs'[path'[n]].dirty = {}

\* Where the task itself still has a directory, it is there, and clean after a commit.
LEMMA OwnTree ==
  ASSUME TreeInv, NEW n \in Node, TaskStep(n)
  PROVE  OwnTreeHeld(n)
<1>. USE DEF TreeInv, OwnTreeHeld
<1>0. /\ task \in [Node -> TaskState] /\ path \in [Node -> Node \cup {NoNode}]
      /\ dirs \in [Node -> TreeRecord]
  BY DEF TypeInv, TaskType, TreeType
<1>1. CASE Prepare(n)
  <2>1. task'[n] = "running" /\ path'[n] = SelectPath(n)
    BY <1>0, <1>1, PrepareDirs
  <2>. QED BY <1>1, <2>1, PrepareDirs DEF Settling
<1>2. CASE PhaseSucceeds(n) \/ PhaseFails(n) \/ MergeLands(n) \/ MergeAborts(n)
  <2>1. task[n] \in Holding /\ path' = path
    BY <1>2 DEF PhaseSucceeds, PhaseFails, MergeLands, MergeAborts, Move, Holding
  <2>2. path[n] \in Node /\ dirs[path[n]].there /\ dirs[path[n]].branch = n
    BY <2>1, HeldPath DEF TreeHeld
  <2>3. dirs[path[n]] \in TreeRecord
    BY <1>0, <2>2
  <2>4. CASE PhaseSucceeds(n) \/ PhaseFails(n)
    <3>1. task'[n] \notin Settling
      BY <1>0, <2>4 DEF PhaseSucceeds, PhaseFails, Move, Settling
    <3>2. \E items : dirs' = [dirs EXCEPT ![path[n]].dirty = items]
      BY <2>4 DEF PhaseSucceeds, PhaseFails, Write
    <3>. QED BY <1>0, <2>1, <2>2, <2>3, <3>1, <3>2 DEF TreeRecord
  <2>5. CASE MergeLands(n) \/ MergeAborts(n)
    <3>1. dirs' = [dirs EXCEPT ![path[n]].dirty = {}]
      BY <2>5 DEF MergeLands, MergeAborts, Commit
    <3>. QED BY <1>0, <2>1, <2>2, <2>3, <3>1 DEF TreeRecord
  <2>. QED BY <1>2, <2>4, <2>5
<1>3. CASE \/ EnterGate(n) \/ PrepareFails(n) \/ Rewind(n) \/ SettleFailed(n)
           \/ SettleMerged(n) \/ Reap(n)
  <2>1. CASE EnterGate(n)
    <3>1. /\ dirs' = dirs /\ path' = path
          /\ \/ task'[n] = "checkout"
             \/ task[n] = "resetting" /\ task'[n] = "rewinding"
      BY <1>0, <2>1 DEF EnterGate, Move, gitVars
    <3>. QED BY <3>1 DEF Holding, Settling, TreeHeld, Committed
  <2>2. CASE ~EnterGate(n)
    BY <1>0, <1>3, <2>2
    DEF PrepareFails, Rewind, SettleFailed, SettleMerged, Reap, Move, Holding
  <2>. QED BY <2>1, <2>2
<1>4. CASE TakeMergeLock(n) \/ EnterMerge(n) \/ CommitFails(n) \/ RewindFails(n)
  <2>1. /\ dirs' = dirs /\ path' = path /\ task[n] \in Holding /\ task'[n] \notin Settling
    BY <1>0, <1>4
    DEF TakeMergeLock, EnterMerge, CommitFails, RewindFails, Move, Holding, Settling, gitVars
  <2>. QED BY <2>1 DEF TreeHeld
<1>5. CASE RepairDrift(n)
  <2>1. dirs' = dirs /\ path' = path /\ task[n] = "drifting"
    BY <1>5 DEF RepairDrift, Move
  <2>. QED BY <2>1 DEF Holding, Settling, TreeHeld, Committed
<1>. QED BY <1>1, <1>2, <1>3, <1>4, <1>5 DEF TaskStep

\* A removed directory is bare, and only a directory that is there is written.
LEMMA StepBare ==
  ASSUME TreeInv, NEW n \in Node, TaskStep(n)
  PROVE  BareDirs'
<1>. USE DEF TreeInv
<1>0. dirs \in [Node -> TreeRecord]
  BY DEF TypeInv, TreeType
<1>1. CASE Prepare(n)
  BY <1>1, PrepareDirs DEF BareDirs
<1>2. CASE PhaseSucceeds(n) \/ PhaseFails(n) \/ MergeLands(n) \/ MergeAborts(n)
  <2>1. task[n] \in Holding
    BY <1>2 DEF PhaseSucceeds, PhaseFails, MergeLands, MergeAborts, Move, Holding
  <2>2. path[n] \in Node /\ dirs[path[n]].there
    BY <2>1, HeldPath DEF TreeHeld
  <2>3. \E items : dirs' = [dirs EXCEPT ![path[n]].dirty = items]
    BY <1>2 DEF PhaseSucceeds, PhaseFails, MergeLands, MergeAborts, Write, Commit
  <2>4. dirs[path[n]] \in TreeRecord
    BY <1>0, <2>2
  <2>. QED BY <1>0, <2>2, <2>3, <2>4 DEF BareDirs, TreeRecord
<1>3. CASE Rewind(n) \/ SettleMerged(n)
  BY <1>0, <1>3 DEF Rewind, SettleMerged, Remove, NoTree, BareDirs
<1>4. CASE \/ EnterGate(n) \/ PrepareFails(n) \/ TakeMergeLock(n) \/ EnterMerge(n)
           \/ CommitFails(n) \/ RepairDrift(n) \/ RewindFails(n) \/ SettleFailed(n) \/ Reap(n)
  BY <1>4
  DEF EnterGate, PrepareFails, TakeMergeLock, EnterMerge, CommitFails, RepairDrift, RewindFails,
      SettleFailed, Reap, gitVars, BareDirs
<1>. QED BY <1>1, <1>2, <1>3, <1>4 DEF TaskStep

\* Every step of a task keeps the directories apart.
LEMMA TaskStepTree ==
  ASSUME TreeInv, NEW n \in Node, TaskStep(n)
  PROVE  TreeInv'
<1>. USE DEF TreeInv
<1>1. TypeInv' /\ BareDirs'
  BY TaskStepType, StepBare
<1>2. task \in [Node -> TaskState] /\ path \in [Node -> Node \cup {NoNode}]
  BY DEF TypeInv, TaskType, TreeType
<1>3. task[n] # "none" /\ \E to \in TaskState : task' = [task EXCEPT ![n] = to]
  BY DEF TaskStep, EnterGate, Prepare, PrepareFails, PhaseSucceeds, PhaseFails,
         TakeMergeLock, EnterMerge, MergeLands, RepairDrift, CommitFails, MergeAborts, Rewind,
         RewindFails, SettleFailed, SettleMerged, Reap, Move, TaskState
<1>4. GroupsApart'
  BY <1>2, <1>3 DEF GroupsApart, InFlight
<1>5. PathInGroup'
  <2>1. CASE Prepare(n)
    BY <1>2, <2>1, PrepareDirs, SelectedPath DEF PathInGroup
  <2>2. CASE ~Prepare(n)
    <3>1. path' = path \/ path' = [path EXCEPT ![n] = NoNode]
      BY <2>2
      DEF TaskStep, EnterGate, PrepareFails, PhaseSucceeds, PhaseFails, TakeMergeLock,
          EnterMerge, MergeLands, RepairDrift, CommitFails, MergeAborts, Rewind, RewindFails,
          SettleFailed, SettleMerged, Reap
    <3>. QED BY <1>2, <3>1 DEF PathInGroup
  <2>. QED BY <2>1, <2>2
<1>6. \A m \in Node \ {n} : task'[m] = task[m]
  BY <1>2, <1>3
<1>7. TreeHeld' /\ Committed'
  <2>1. ASSUME NEW m \in Node \ {n}, task'[m] \in Holding
        PROVE  /\ dirs'[path'[m]].there /\ dirs'[path'[m]].branch = m
               /\ task'[m] \in Settling => dirs'[path'[m]].dirty = {}
    BY <1>6, <2>1, OthersKept DEF TreeHeld, Committed
  <2>2. Settling \subseteq Holding
    BY DEF Settling, Holding
  <2>. QED BY <2>1, <2>2, OwnTree DEF OwnTreeHeld, TreeHeld, Committed
<1>. QED BY <1>1, <1>4, <1>5, <1>7

\* A task starts only in a group that nobody is in.
LEMMA StartTree ==
  ASSUME TreeInv, NEW n \in Node, Start(n)
  PROVE  TreeInv'
<1>. USE DEF TreeInv
<1>1. task \in [Node -> TaskState] /\ task' = [task EXCEPT ![n] = "opening"]
  BY DEF TypeInv, TaskType, Start, Move
<1>2. dirs' = dirs /\ path' = path
  BY DEF Start, gitVars
<1>3. GroupsApart'
  <2>1. \A m \in InFlight : Group[m] # Group[n]
    BY DEF Start, Startable, GroupIsFree
  <2>2. InFlight' = InFlight \cup {n}
    BY <1>1 DEF InFlight
  <2>. QED BY <2>1, <2>2 DEF GroupsApart
<1>4. \A m \in Node : task'[m] \in Holding => task[m] \in Holding /\ task'[m] = task[m]
  BY <1>1 DEF Holding
<1>5. TreeHeld' /\ Committed'
  BY <1>2, <1>4 DEF TreeHeld, Committed, Settling, Holding
<1>6. PathInGroup' /\ BareDirs'
  BY <1>2 DEF PathInGroup, BareDirs
<1>. QED BY <1>3, <1>5, <1>6, StartType

\* The invariant about directories is inductive.
LEMMA StepTree == TreeInv /\ [Next]_vars => TreeInv'
<1>. SUFFICES ASSUME TreeInv, [Next]_vars PROVE TreeInv'
  OBVIOUS
<1>0. TypeInv' /\ dirs \in [Node -> TreeRecord]
  BY StepType DEF TreeInv, TypeInv, TreeType
<1>1. CASE Retry
  <2>1. task' = task /\ path' = path /\ dirs' = Cleanup /\ \A n \in Node : task[n] = "none"
    BY <1>1 DEF Retry, flightVars, InFlight
  <2>2. BareDirs'
    BY <2>1 DEF TreeInv, BareDirs, Cleanup, NoTree
  <2>. QED
    BY <1>0, <2>1, <2>2
    DEF TreeInv, GroupsApart, PathInGroup, TreeHeld, Committed, Holding, Settling, InFlight
<1>2. CASE Crash
  <2>1. task' = [n \in Node |-> "none"] /\ path' = [n \in Node |-> NoNode]
    BY <1>2 DEF Crash
  <2>2. PICK W \in SUBSET {n \in Node : task[n] = "running"} :
          dirs' = [d \in Node |->
                     [dirs[d] EXCEPT !.dirty =
                        @ \cup {<<n, attempt[n]>> : n \in {m \in W : path[m] = d}}]]
    BY <1>2 DEF Crash
  <2>3. \A d \in Node, m \in W : path[m] = d => dirs[d].there
    BY <2>2 DEF TreeInv, TreeHeld, Holding
  <2>4. BareDirs'
    <3>. SUFFICES ASSUME NEW d \in Node, ~dirs'[d].there PROVE dirs'[d].dirty = {}
      BY DEF BareDirs
    <3>1. ~dirs[d].there /\ dirs[d].dirty = {}
      BY <1>0, <2>2 DEF TreeInv, BareDirs, TreeRecord
    <3>2. {m \in W : path[m] = d} = {}
      BY <2>3, <3>1
    <3>. QED BY <1>0, <2>2, <3>1, <3>2 DEF TreeRecord
  <2>. QED
    BY <1>0, <2>1, <2>4
    DEF TreeInv, GroupsApart, PathInGroup, TreeHeld, Committed, Holding, Settling, InFlight
<1>3. CASE \E n \in Node : Start(n) \/ TaskStep(n)
  BY <1>3, StartTree, TaskStepTree
<1>4. CASE UNCHANGED vars
  BY <1>0, <1>4
  DEF vars, flightVars, gitVars, TreeInv, GroupsApart, PathInGroup, TreeHeld, BareDirs,
      Committed, InFlight
<1>. QED BY <1>1, <1>2, <1>3, <1>4 DEF Next

\* At first there are no directories.
LEMMA InitTree == Init => TreeInv
<1>. SUFFICES ASSUME Init PROVE TreeInv
  OBVIOUS
<1>1. TypeInv
  BY InitType
<1>. QED
  BY <1>1
  DEF Init, TreeInv, GroupsApart, PathInGroup, TreeHeld, BareDirs, Committed, NoTree,
      InFlight, Holding, Settling

\* A task owns its directory, on its node's branch, until it is settled: whatever
\* was quarantined, detached, preserved or forgotten before.
THEOREM DirectoriesAreExclusive == Spec => []ExclusiveTree
<1>1. TreeInv => ExclusiveTree
  <2>. SUFFICES ASSUME TreeInv, NEW n \in Node, task[n] \in Holding
                PROVE  /\ dirs[path[n]].there /\ dirs[path[n]].branch = n
                       /\ \A m \in InFlight \ {n} : path[m] # path[n]
    BY DEF ExclusiveTree, Holding
  <2>1. path[n] \in {n, Group[n]} /\ n \in InFlight
    BY HeldPath DEF TreeInv
  <2>2. \A m \in InFlight \ {n} : path[m] # path[n]
    BY <2>1, OwnDirectory DEF TreeInv
  <2>. QED BY <2>2 DEF TreeInv, TreeHeld
<1>. QED BY <1>1, InitTree, StepTree, PTL DEF Spec

-----------------------------------------------------------------------------
(* Uncommitted work *)

Committable == UNION {head[n] : n \in Node}

\* Every directory keeps what it holds, or some branch has it.
Kept == \A d \in Node : dirs[d].dirty \subseteq dirs'[d].dirty \cup Committable'

\* If every directory keeps what it holds, nothing is lost.
LEMMA KeptSurvives ==
  ASSUME Kept
  PROVE  Uncommitted \subseteq Uncommitted' \cup UNION {head'[n] : n \in Node}
<1>. SUFFICES ASSUME NEW d \in Node, NEW i \in dirs[d].dirty
              PROVE  i \in Uncommitted' \cup UNION {head'[n] : n \in Node}
  BY DEF Uncommitted
<1>1. i \in dirs'[d].dirty \/ i \in Committable'
  BY DEF Kept
<1>2. i \in dirs'[d].dirty => i \in Uncommitted'
  BY DEF Uncommitted
<1>. QED BY <1>1, <1>2 DEF Committable

\* Directories are emptied by commits and removed when they are empty.
LEMMA TaskStepKeeps ==
  ASSUME TreeInv, NEW n \in Node, TaskStep(n)
  PROVE  Kept
<1>. USE DEF TreeInv, Kept
<1>0. dirs \in [Node -> TreeRecord] /\ head \in [Node -> SUBSET Item]
  BY DEF TypeInv, TreeType, BranchType
<1>1. CASE Prepare(n)
  BY <1>1, PrepareDirs DEF BareDirs
<1>2. CASE PhaseSucceeds(n) \/ PhaseFails(n)
  <2>1. \E items : dirs' = [dirs EXCEPT ![path[n]].dirty = dirs[path[n]].dirty \cup items]
    BY <1>2 DEF PhaseSucceeds, PhaseFails, Write
  <2>2. path[n] \in Node
    BY <1>2, HeldPath DEF PhaseSucceeds, PhaseFails, Move, Holding
  <2>3. dirs[path[n]] \in TreeRecord
    BY <1>0, <2>2
  <2>. QED BY <1>0, <2>1, <2>2, <2>3 DEF TreeRecord
<1>3. CASE MergeLands(n) \/ MergeAborts(n)
  <2>1. /\ dirs' = [dirs EXCEPT ![path[n]].dirty = {}]
        /\ head' = [head EXCEPT ![n] = head[n] \cup dirs[path[n]].dirty]
    BY <1>3 DEF MergeLands, MergeAborts, Commit
  <2>2. dirs[path[n]].dirty \subseteq Committable'
    BY <1>0, <2>1 DEF Committable
  <2>3. \A d \in Node : d # path[n] => dirs'[d] = dirs[d]
    BY <1>0, <2>1
  <2>. QED BY <2>2, <2>3
<1>4. CASE Rewind(n) \/ SettleMerged(n)
  <2>1. dirs[path[n]].dirty = {}
    BY <1>4 DEF Rewind, SettleMerged, Move, Committed, Settling
  <2>2. path[n] = n \/ dirs' = dirs
    BY <1>4 DEF Rewind, SettleMerged
  <2>3. dirs' = dirs \/ dirs' = [dirs EXCEPT ![n] = NoTree]
    BY <1>4 DEF Rewind, SettleMerged, Remove
  <2>. QED BY <1>0, <2>1, <2>2, <2>3
<1>5. CASE \/ EnterGate(n) \/ PrepareFails(n) \/ TakeMergeLock(n) \/ EnterMerge(n)
           \/ CommitFails(n) \/ RepairDrift(n) \/ RewindFails(n) \/ SettleFailed(n) \/ Reap(n)
  BY <1>5
  DEF EnterGate, PrepareFails, TakeMergeLock, EnterMerge, CommitFails, RepairDrift, RewindFails,
      SettleFailed, Reap, gitVars
<1>. QED BY <1>1, <1>2, <1>3, <1>4, <1>5 DEF TaskStep

\* No step loses uncommitted work.
LEMMA StepKeeps == TreeInv /\ [Next]_vars => Kept
<1>. SUFFICES ASSUME TreeInv, [Next]_vars PROVE Kept
  OBVIOUS
<1>0. dirs \in [Node -> TreeRecord]
  BY DEF TreeInv, TypeInv, TreeType
<1>1. CASE Retry
  BY <1>1 DEF Retry, Cleanup, Kept
<1>2. CASE Crash
  BY <1>0, <1>2 DEF Crash, Kept, TreeRecord
<1>3. CASE \E n \in Node : Start(n)
  BY <1>3 DEF Start, gitVars, Kept
<1>4. CASE \E n \in Node : TaskStep(n)
  BY <1>4, TaskStepKeeps
<1>5. CASE UNCHANGED vars
  BY <1>5 DEF vars, gitVars, Kept
<1>. QED BY <1>1, <1>2, <1>3, <1>4, <1>5 DEF Next

\* What a task left uncommitted stays in some directory until it is committed.
THEOREM WorkIsNeverLost == Spec => LeftoversSurvive
<1>1. TreeInv /\ [Next]_vars =>
        [Uncommitted \subseteq Uncommitted' \cup UNION {head'[n] : n \in Node}]_vars
  BY StepKeeps, KeptSurvives
<1>. QED BY <1>1, InitTree, StepTree, PTL DEF Spec, LeftoversSurvive
=============================================================================
