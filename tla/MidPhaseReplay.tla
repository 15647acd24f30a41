--------------------------- MODULE MidPhaseReplay ---------------------------
(***************************************************************************)
(* The mid-phase replay of ARC_REBASE_ON_MERGE: a sibling's merge is       *)
(* replayed onto a running task at its next file call.  It joins the gate  *)
(* in front of the file tools (agents/runtime/rebase_gate.py), the replay  *)
(* of core/worktree.py, the registration of tasks and of landed merges in  *)
(* core/workflow.py and the claims on new files (core/file_claims.py).     *)
(*                                                                         *)
(* A file's content is the set of the edits in it.  Git merges a file that *)
(* both sides changed or reports it, as the lines fall; two creations of   *)
(* one file always conflict.  What one agent's event-loop turn does before *)
(* the tool starts (call # NoCall) excludes the other turns, but not the   *)
(* threads: merges and the tools of calls already in flight.  A task has a *)
(* directory of its own, removed when it is merged; groups and quarantine  *)
(* are TaskWorkspace's subject.                                            *)
(***************************************************************************)
EXTENDS Naturals, FiniteSets

CONSTANTS
  Node,                \* the requirement ids
  NoNode,              \* nobody: an unclaimed path
  File,                \* the paths the agents touch
  Existing,            \* those tracked from the start; the others are new files
  MaxConflictReplays,  \* _MAX_CONFLICT_REPLAYS_PER_PASS
  MaxTasks,            \* bound [node -> its number of tasks]
  MaxEdits,            \* bound [node -> its number of writes]
  MaxFlight,           \* bound on the calls of one agent's batch in flight
  MaxMishaps           \* bound on the mechanical failures of a replay

ASSUME ReplayAssumption ==
  /\ NoNode \notin Node /\ Existing \subseteq File
  /\ MaxConflictReplays \in Nat \ {0} /\ MaxFlight \in Nat \ {0}
  /\ MaxTasks \in [Node -> Nat] /\ MaxEdits \in [Node -> Nat] /\ MaxMishaps \in Nat

VARIABLES
  task,         \* [node -> where its task is]
  started,      \* [node -> number of tasks it has started]
  integration,  \* the tree of the integration branch
  base,         \* [node -> the tree its branch has in common with it]
  head,         \* [node -> the tree its branch points to]
  work,         \* [node -> the files in its directory]
  rebase,       \* [node -> git's rebase in progress in its directory]
  leftover,     \* [node -> the rebase of an earlier task git still has registered there]
  marked,       \* _mid_rebase: nodes the manager knows to be in a rebase
  pending,      \* nodes with an entry in _pending_merges
  conflicts,    \* [node -> _conflict_replays of its gate]
  disarmed,     \* nodes whose gate stands down
  claims,       \* the registry: [new file -> its owner]
  snapshot,     \* [node -> _tracked of its claim gate, or Unloaded]
  call,         \* the call whose gates run in the event loop, or NoCall
  flight,       \* [node -> the calls whose tool is running in a thread]
  edits,        \* [node -> number of writes its agent has tried]
  mishaps,      \* counter its bound applies to
  made,         \* history: [node -> the new files its running task has created]
  behind,       \* history: nodes a landed merge will not be replayed to
  abandoned     \* history: new files that a failed task left in its directory or branch

gitVars == <<integration, base, head, work, rebase, leftover>>
replayVars == <<marked, pending, conflicts, disarmed>>
claimVars == <<claims, snapshot>>
taskVars == <<task, started>>
callVars == <<call, flight, edits>>
history == <<made, behind, abandoned>>
vars == <<taskVars, gitVars, replayVars, claimVars, callVars, mishaps, history>>

Empty == [f \in File |-> {}]
Both(t, u) == [f \in File |-> t[f] \cup u[f]]
EditsIn(t) == UNION {t[f] : f \in File}

\* A rebase in progress: the branch head to restore, the integration tree it
\* rebases onto, the merged tree and its unmerged paths in the index, the paths
\* that carry conflict markers on disk, and whether a commit is still to come.
NoRebase == [on |-> FALSE, before |-> Empty, onto |-> Empty, tree |-> Empty,
             unmerged |-> {}, markers |-> {}, more |-> FALSE]

\* A rebase nobody goes on with: the branch it would restore, and what that branch
\* has in common with the integration branch.
NoLeftover == [on |-> FALSE, orig |-> Empty, base |-> Empty]

NoCall == [node |-> NoNode, file |-> NoNode, tool |-> "none", step |-> "none"]
Unloaded == [loaded |-> FALSE, files |-> {}]

Exists(t, f) == f \in Existing \/ t[f] # {}

\* git ls-files: what the index of the directory holds.
Tracked(n) == {f \in File : Exists(IF rebase[n].on THEN rebase[n].tree ELSE head[n], f)}

\* Paths both sides changed since b; a path neither had is added by both.
BothChanged(b, ours, theirs) ==
  {f \in File : ours[f] # b[f] /\ theirs[f] # b[f] /\ ours[f] # theirs[f]}
AddedByBoth(b, ours, theirs) == {f \in BothChanged(b, ours, theirs) : ~Exists(b, f)}

ConflictSets(b, ours, theirs) ==
  {c \in SUBSET BothChanged(b, ours, theirs) : AddedByBoth(b, ours, theirs) \subseteq c}

\* _inflight: registered after its directory is prepared, until it is settled.
Registered == {n \in Node : task[n] \in {"running", "waiting", "landed", "merged", "refused", "failing"}}

LoopIsFree == call = NoCall

-----------------------------------------------------------------------------
Init ==
  /\ task = [n \in Node |-> "idle"] /\ started = [n \in Node |-> 0]
  /\ integration = Empty
  /\ base = [n \in Node |-> Empty] /\ head = [n \in Node |-> Empty]
  /\ work = [n \in Node |-> Empty] /\ rebase = [n \in Node |-> NoRebase]
  /\ leftover = [n \in Node |-> NoLeftover]
  /\ marked = {} /\ pending = {} /\ disarmed = {}
  /\ conflicts = [n \in Node |-> 0]
  /\ claims = [f \in File \ Existing |-> NoNode]
  /\ snapshot = [n \in Node |-> Unloaded]
  /\ call = NoCall /\ flight = [n \in Node |-> {}]
  /\ edits = [n \in Node |-> 0] /\ mishaps = 0
  /\ made = [n \in Node |-> {}] /\ behind = {} /\ abandoned = {}

\* prepare: a new branch starts at the integration head, a known one where it
\* was.  Git refuses to check it out over the unmerged index of a rebase; one
\* whose index a refused merge has committed stays registered under the branch.
Prepare(n) ==
  IF rebase[n].on /\ rebase[n].unmerged # {}
  THEN task' = [task EXCEPT ![n] = "broken"] /\ UNCHANGED <<gitVars, behind>>
  ELSE /\ task' = [task EXCEPT ![n] = "opening"]
       /\ rebase' = [rebase EXCEPT ![n] = NoRebase]
       /\ leftover' = IF rebase[n].on
                      THEN [leftover EXCEPT ![n] = [on |-> TRUE, orig |-> head[n], base |-> base[n]]]
                      ELSE leftover
       /\ IF started[n] = 0
          THEN /\ base' = [base EXCEPT ![n] = integration]
               /\ head' = [head EXCEPT ![n] = integration]
               /\ work' = [work EXCEPT ![n] = integration]
          ELSE /\ work' = IF rebase[n].on THEN [work EXCEPT ![n] = head[n]] ELSE work
               /\ UNCHANGED <<base, head>>
       /\ behind' = IF base'[n] = integration THEN behind \ {n} ELSE behind \cup {n}
       /\ UNCHANGED integration

\* A task starts with a fresh gate and a fresh claim snapshot, in the directory
\* its node has, whatever git holds there.
Open(n) ==
  /\ LoopIsFree
  /\ task[n] \in {"idle", "failed"} /\ started[n] < MaxTasks[n]
  /\ Prepare(n)
  /\ started' = [started EXCEPT ![n] = @ + 1]
  /\ conflicts' = [conflicts EXCEPT ![n] = 0]
  /\ disarmed' = disarmed \ {n}
  /\ snapshot' = [snapshot EXCEPT ![n] = Unloaded]
  /\ UNCHANGED <<marked, pending, claims, callVars, mishaps, made, abandoned>>

\* _execute_task registers the task once its workspace is open.
Register(n) ==
  /\ LoopIsFree /\ task[n] = "opening"
  /\ task' = [task EXCEPT ![n] = "running"]
  /\ UNCHANGED <<started, gitVars, replayVars, claimVars, callVars, mishaps, history>>

-----------------------------------------------------------------------------
(* One call of a file tool: the claim, the forced resolution, the replay.    *)

\* check_and_claim: a path that is not in the tracked snapshot is claimed for
\* the node, unless a sibling owns it.
NewSnapshot(n) ==
  IF snapshot[n].loaded THEN snapshot[n] ELSE [loaded |-> TRUE, files |-> Tracked(n)]

IsNew(n, f) == f \notin NewSnapshot(n).files /\ f \notin Existing

\* Variant for testing NoRivalCreation: the claim is not checked.
NeverClaimed(n, f) == FALSE

ClaimedBySibling(n, f) == IsNew(n, f) /\ claims[f] \notin {NoNode, n}

\* _before_call: while a rebase has unmerged paths, writes go only to them.
Refused(n, f, tool) ==
  n \in marked /\ tool # "read" /\ rebase[n].unmerged # {} /\ f \notin rebase[n].unmerged

CallBlocked(n, f, tool) == (tool # "read" /\ ClaimedBySibling(n, f)) \/ Refused(n, f, tool)

\* A blocked write changes nothing but the claim that came before the refusal.
StartCall(n, f, tool) ==
  /\ LoopIsFree /\ task[n] = "running"
  /\ Cardinality(flight[n]) < MaxFlight
  /\ tool = "read" \/ edits[n] < MaxEdits[n]
  /\ edits' = [edits EXCEPT ![n] = IF tool = "read" THEN @ ELSE @ + 1]
  /\ snapshot' = IF tool = "read" THEN snapshot ELSE [snapshot EXCEPT ![n] = NewSnapshot(n)]
  /\ claims' = IF tool # "read" /\ IsNew(n, f) /\ claims[f] = NoNode
               THEN [claims EXCEPT ![f] = n] ELSE claims
  /\ call' = IF CallBlocked(n, f, tool) THEN NoCall
             ELSE [node |-> n, file |-> IF tool = "read" THEN NoNode ELSE f, tool |-> tool,
                   step |-> IF n \in disarmed THEN "serve"
                            ELSE IF n \in marked THEN "continue" ELSE "replay"]
  /\ UNCHANGED <<taskVars, gitVars, replayVars, flight, mishaps, history>>

AtStep(n, s) == call.node = n /\ call.step = s

\* The call goes on to step s.
Goes(s) == call' = [call EXCEPT !.step = s]

\* The files that a rebase over the index tree leaves alone are the untracked.
Reset(n, tree, checkpoint) ==
  [f \in File |-> IF Exists(tree, f) \/ Exists(checkpoint, f) THEN checkpoint[f] ELSE work[n][f]]

\* Variant for testing CheckpointSurvives: the checkpoint is not taken back.
TakeBackOnlyHead(n, tree, checkpoint, before) ==
  /\ work' = [work EXCEPT ![n] = Reset(n, tree, before)]
  /\ head' = [head EXCEPT ![n] = before]
  /\ rebase' = [rebase EXCEPT ![n] = NoRebase]
  /\ marked' = marked \ {n}
  /\ behind' = behind \cup {n}

\* A rebase given up: git resets the directory to the checkpoint, the branch
\* moves back under it, and the checkpoint's edits are uncommitted again.
TakeBack(n, tree, checkpoint, before) ==
  /\ work' = [work EXCEPT ![n] = Reset(n, tree, checkpoint)]
  /\ head' = [head EXCEPT ![n] = before]
  /\ rebase' = [rebase EXCEPT ![n] = NoRebase]
  /\ marked' = marked \ {n}
  /\ behind' = behind \cup {n}

Recover(n) == TakeBack(n, rebase[n].tree, head[n], rebase[n].before)

\* The rebase stops in the middle, with the checkpoint under the branch.
Stopped(n, checkpoint, new) ==
  /\ rebase' = [rebase EXCEPT ![n] = new]
  /\ work' = [work EXCEPT ![n] = new.tree]
  /\ head' = [head EXCEPT ![n] = checkpoint]
  /\ marked' = marked \cup {n}
  /\ UNCHANGED behind

\* Variant for testing StoodDownIsOutside: off by one, the gate stands down
\* before the conflict that takes the rebase back.
ConflictedEarly(n, checkpoint, new) ==
  /\ conflicts' = [conflicts EXCEPT ![n] = @ + 1]
  /\ disarmed' = IF conflicts[n] + 2 >= MaxConflictReplays THEN disarmed \cup {n} ELSE disarmed
  /\ IF conflicts[n] + 1 >= MaxConflictReplays
     THEN TakeBack(n, new.tree, checkpoint, new.before)
     ELSE Stopped(n, checkpoint, new)

\* _observe of an attempted conflict: at the limit the gate stands down and
\* takes the open rebase back.
Conflicted(n, checkpoint, new) ==
  /\ conflicts' = [conflicts EXCEPT ![n] = @ + 1]
  /\ IF conflicts[n] + 1 >= MaxConflictReplays
     THEN disarmed' = disarmed \cup {n} /\ TakeBack(n, new.tree, checkpoint, new.before)
     ELSE UNCHANGED disarmed /\ Stopped(n, checkpoint, new)

\* A replay that went through: the branch sits on the integration tree.
Replayed(n, tree, onto) ==
  /\ base' = [base EXCEPT ![n] = onto]
  /\ head' = [head EXCEPT ![n] = tree]
  /\ work' = [work EXCEPT ![n] = tree]
  /\ rebase' = [rebase EXCEPT ![n] = NoRebase]
  /\ marked' = marked \ {n}
  /\ behind' = IF onto = integration THEN behind \ {n} ELSE behind
  /\ snapshot' = [snapshot EXCEPT ![n] = Unloaded]
  /\ UNCHANGED disarmed

\* A tracked file outside the conflict was edited since the rebase stopped.
Disturbed(n) ==
  \E f \in File \ rebase[n].unmerged :
    Exists(rebase[n].tree, f) /\ work[n][f] # rebase[n].tree[f]

\* continue_replay: with markers left nothing happens,
MarkersLeft(n) ==
  /\ rebase[n].markers # {} /\ Goes("serve")
  /\ UNCHANGED <<gitVars, replayVars, claimVars, mishaps, behind>>

\* with anything else touched the rebase is given up and replayed anew,
GiveUp(n) ==
  /\ rebase[n].markers = {} /\ Goes("replay") /\ Recover(n)
  /\ \/ Disturbed(n) /\ UNCHANGED mishaps
     \/ mishaps < MaxMishaps /\ mishaps' = mishaps + 1
  /\ UNCHANGED <<integration, base, leftover, pending, conflicts, disarmed, claimVars>>

\* The rebase with the resolution staged, stopped again at the paths c.
StoppedAgain(n, c) ==
  [rebase[n] EXCEPT !.tree = Both(work[n], head[n]), !.unmerged = c, !.markers = c,
                    !.more = FALSE]

NextStops(n) ==
  IF rebase[n].more THEN ConflictSets(rebase[n].before, work[n], head[n]) ELSE {{}}

\* else the rebase goes on, to its end or into the next conflict.
GoOn(n) ==
  /\ rebase[n].markers = {} /\ ~Disturbed(n) /\ Goes("serve")
  /\ \E c \in NextStops(n) :
       \/ /\ c = {} /\ Replayed(n, Both(work[n], head[n]), rebase[n].onto)
          /\ UNCHANGED conflicts
       \/ /\ c # {} /\ Conflicted(n, head[n], StoppedAgain(n, c))
          /\ UNCHANGED <<base, snapshot>>
  /\ UNCHANGED <<integration, leftover, pending, claims, mishaps>>

Continue(n) ==
  /\ AtStep(n, "continue")
  /\ MarkersLeft(n) \/ GiveUp(n) \/ GoOn(n)
  /\ UNCHANGED <<taskVars, flight, edits, made, abandoned>>

\* The rebase of n's branch onto the integration branch, stopped at the paths c.
StoppedAt(n, tree, c, more) ==
  [on |-> TRUE, before |-> head[n], onto |-> integration, tree |-> tree,
   unmerged |-> c, markers |-> c, more |-> more]

\* The conflicts a rebase of n's checkpoint can stop at.  A branch with an
\* earlier checkpoint of its own replays that one first.
FirstStops(n) ==
  {StoppedAt(n, Both(work[n], integration), c, FALSE) :
     c \in ConflictSets(base[n], work[n], integration) \ {{}}}
  \cup
  {StoppedAt(n, Both(head[n], integration), c, TRUE) :
     c \in IF head[n] = base[n] \/ work[n] = head[n] THEN {}
           ELSE ConflictSets(base[n], head[n], integration) \ {{}}}

\* The branch is at the integration head: nothing is left to replay.
AtHead(n) ==
  /\ base' = [base EXCEPT ![n] = integration]
  /\ behind' = behind \ {n}
  /\ conflicts' = [conflicts EXCEPT ![n] = 0]
  /\ snapshot' = [snapshot EXCEPT ![n] = Unloaded]
  /\ UNCHANGED <<integration, head, work, rebase, leftover, marked, disarmed, mishaps>>

\* The checkpoint is rebased onto the integration branch, without a conflict
GoesThrough(n) ==
  /\ {} \in ConflictSets(base[n], work[n], integration)
  /\ Replayed(n, Both(work[n], integration), integration)
  /\ conflicts' = [conflicts EXCEPT ![n] = 0]
  /\ UNCHANGED <<integration, leftover, mishaps>>

\* or into one;
StopsFirst(n) ==
  /\ \E new \in FirstStops(n) : Conflicted(n, work[n], new)
  /\ UNCHANGED <<integration, base, leftover, snapshot, mishaps>>

\* a mechanical failure puts everything back;
FallsBack(n) ==
  /\ mishaps < MaxMishaps /\ mishaps' = mishaps + 1
  /\ behind' = behind \cup {n}
  /\ UNCHANGED <<gitVars, marked, conflicts, disarmed, snapshot>>

\* over a rebase that is still registered git starts none, and its abort takes
\* the branch and the directory to where that one began: the checkpoint is lost.
DropsCheckpoint(n) ==
  /\ head' = [head EXCEPT ![n] = leftover[n].orig]
  /\ work' = [work EXCEPT ![n] = leftover[n].orig]
  /\ base' = [base EXCEPT ![n] = leftover[n].base]
  /\ leftover' = [leftover EXCEPT ![n] = NoLeftover]
  /\ behind' = behind \cup {n}
  /\ UNCHANGED <<integration, rebase, marked, conflicts, disarmed, snapshot, mishaps>>

\* replay_pending_merges, at the head or not.
ReplayPending(n) ==
  IF head[n] = integration THEN AtHead(n)
  ELSE \/ ~leftover[n].on /\ (GoesThrough(n) \/ StopsFirst(n))
       \/ leftover[n].on /\ DropsCheckpoint(n)
       \/ FallsBack(n)

Replay(n) ==
  /\ AtStep(n, "replay") /\ Goes("serve")
  /\ pending' = pending \ {n}
  /\ IF n \in pending THEN ReplayPending(n)
     ELSE UNCHANGED <<gitVars, marked, conflicts, disarmed, snapshot, mishaps, behind>>
  /\ UNCHANGED <<taskVars, claims, flight, edits, made, abandoned>>

\* The gates are passed: the tool of a write starts in a thread.
Serve(n) ==
  /\ AtStep(n, "serve") /\ call' = NoCall
  /\ flight' = IF call.tool = "read" THEN flight
               ELSE [flight EXCEPT ![n] = @ \cup
                       {[file |-> call.file, tool |-> call.tool, id |-> edits[n]]}]
  /\ UNCHANGED <<taskVars, gitVars, replayVars, claimVars, edits, mishaps, history>>

\* edit_file needs the file, write_file refuses one that is there.
EndCall(n, c) ==
  /\ c \in flight[n]
  /\ flight' = [flight EXCEPT ![n] = @ \ {c}]
  /\ IF Exists(work[n], c.file) # (c.tool = "edit")
     THEN UNCHANGED <<work, rebase, made>>
     ELSE /\ work' = [work EXCEPT ![n][c.file] = @ \cup {<<n, c.id>>}]
          /\ rebase' \in {rebase, [rebase EXCEPT ![n].markers = @ \ {c.file}]}
          /\ made' = [made EXCEPT ![n] = IF c.tool = "create" THEN @ \cup {c.file} ELSE @]
  /\ UNCHANGED <<taskVars, integration, base, head, leftover, replayVars, claimVars, call,
                 edits, mishaps, behind, abandoned>>

-----------------------------------------------------------------------------
(* The end of a task: its merge, the attachment to the others, its settling. *)

EndPhase(n, verdict) ==
  /\ LoopIsFree /\ task[n] = "running" /\ flight[n] = {}
  /\ task' = [task EXCEPT ![n] = verdict]
  /\ UNCHANGED <<started, gitVars, replayVars, claimVars, callVars, mishaps, history>>

\* integrate, in a thread under the merge lock.  In the middle of a rebase the
\* commit goes to a detached head, and the branch still ends at the checkpoint.
Merge(n) ==
  LET open == rebase[n].on
      tip == IF open THEN head[n] ELSE work[n]
      merged == Both(integration, tip)
      landed == IF merged = integration THEN "merged" ELSE "landed"
  IN /\ task[n] = "waiting" /\ \A m \in Node : task[m] # "landed"
     /\ head' = [head EXCEPT ![n] = tip]
     /\ rebase' = [rebase EXCEPT ![n].unmerged = {}, ![n].markers = {}]
     /\ \/ /\ AddedByBoth(base[n], integration, tip) = {}
           /\ integration' = merged
           /\ task' = [task EXCEPT ![n] = landed]
        \/ /\ BothChanged(base[n], integration, tip) # {}
           /\ task' = [task EXCEPT ![n] = "refused"]
           /\ UNCHANGED integration
     /\ UNCHANGED <<started, base, work, leftover, replayVars, claimVars, callVars, mishaps,
                    history>>

\* _attach_pending_merge: still under the lock, back in the event loop.
Attach(n) ==
  /\ LoopIsFree /\ task[n] = "landed"
  /\ task' = [task EXCEPT ![n] = "merged"]
  /\ pending' = pending \cup (Registered \ {n})
  /\ behind' = behind \cup {m \in Node : task[m] = "opening" /\ base[m] # integration}
  /\ UNCHANGED <<started, gitVars, marked, conflicts, disarmed, claimVars, callVars, mishaps,
                 made, abandoned>>

\* The bookkeeping of the node is dropped and its claims are free again.
Settled(n) ==
  /\ LoopIsFree
  /\ marked' = marked \ {n} /\ pending' = pending \ {n}
  /\ claims' = [f \in DOMAIN claims |-> IF claims[f] = n THEN NoNode ELSE claims[f]]
  /\ made' = [made EXCEPT ![n] = {}]
  /\ UNCHANGED <<started, integration, conflicts, disarmed, snapshot, callVars, mishaps, behind>>

\* MERGED: the directory goes, the branch stays.
SettleMerged(n) ==
  /\ task[n] = "merged" /\ Settled(n)
  /\ task' = [task EXCEPT ![n] = "idle"]
  /\ base' = [base EXCEPT ![n] = head[n]] /\ work' = [work EXCEPT ![n] = head[n]]
  /\ rebase' = [rebase EXCEPT ![n] = NoRebase]
  /\ leftover' = [leftover EXCEPT ![n] = NoLeftover]
  /\ UNCHANGED <<head, abandoned>>

\* FAILED: the directory stays as it is, with the rebase git has open in it.
SettleFailed(n) ==
  /\ task[n] \in {"failing", "refused"} /\ Settled(n)
  /\ task' = [task EXCEPT ![n] = "failed"]
  /\ abandoned' = abandoned \cup {f \in File \ Existing : work[n][f] \cup head[n][f] # {}}
  /\ UNCHANGED <<base, head, work, rebase, leftover>>

\* RESET_FOR_RETRY: the branch starts over at the integration branch.
SettleReset(n) ==
  /\ task[n] = "refused" /\ Settled(n)
  /\ task' = [task EXCEPT ![n] = "idle"]
  /\ base' = [base EXCEPT ![n] = integration]
  /\ head' = [head EXCEPT ![n] = integration]
  /\ work' = [work EXCEPT ![n] = integration]
  /\ rebase' = [rebase EXCEPT ![n] = NoRebase]
  /\ leftover' = [leftover EXCEPT ![n] = NoLeftover]
  /\ UNCHANGED abandoned

Next ==
  \E n \in Node :
    \/ Open(n) \/ Register(n)
    \/ \E f \in File, tool \in {"read", "edit", "create"} : StartCall(n, f, tool)
    \/ Continue(n) \/ Replay(n) \/ Serve(n)
    \/ \E c \in flight[n] : EndCall(n, c)
    \/ \E verdict \in {"waiting", "failing"} : EndPhase(n, verdict)
    \/ Merge(n) \/ Attach(n)
    \/ SettleMerged(n) \/ SettleFailed(n) \/ SettleReset(n)

Spec == Init /\ [][Next]_vars

-----------------------------------------------------------------------------
\* The gate stands down only outside a rebase: a pass that gave up on replays
\* never works, nor ends, over an unmerged index (rebase_gate.py _observe).
StoodDownIsOutside == \A n \in disarmed : ~rebase[n].on

\* While a task runs, what its branch has checkpointed is in its directory or
\* its branch after every step, whatever a replay runs into; and so is every
\* other edit, unless the step gives up a rebase (_abort_replay).  The one step
\* that may lose them is the abort of a rebase an earlier task had left there.
CheckpointSurvives ==
  [][\A n \in Node :
       task[n] = "running" /\ task'[n] = "running" /\ (leftover[n].on => leftover'[n].on) =>
         EditsIn(head[n]) \cup (IF rebase[n].on THEN {} ELSE EditsIn(work[n]))
           \subseteq EditsIn(head'[n]) \cup EditsIn(work'[n])]_vars

\* What the comments on the replay say: a replay that is aborted restores the
\* agent's uncommitted view (worktree.py:1055, 1174).  Over the rebase an earlier
\* task had left, it does not.
AbortRestoresView ==
  [][\A n \in Node :
       task[n] = "running" /\ task'[n] = "running" /\ ~rebase[n].on =>
         EditsIn(work[n]) \subseteq EditsIn(head'[n]) \cup EditsIn(work'[n])]_vars

\* A task that created a file never finds out that another version of it was
\* merged meanwhile: claims and replays together keep the two apart.  They do
\* not when the task missed a merge, or when a failed task had left the file
\* behind (file_claims.py, rebase_gate.py).
NoRivalCreation ==
  \A n \in Node \ behind : \A f \in made[n] \ abandoned :
    task[n] = "running" /\ integration[f] # {} => work[n][f] \cap integration[f] # {}
=============================================================================
