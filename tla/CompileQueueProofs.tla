-------------------------- MODULE CompileQueueProofs --------------------------
(***************************************************************************)
(* What CompileQueue promises for every tree, every mode and every value   *)
(* of the bounds: types, that no block outlives its cause, that completed  *)
(* work is on the integration branch and is not undone, that a task in     *)
(* flight keeps standing on it, and that the drain keeps the contract of   *)
(* module Compilation.  The first part is about the transitions of         *)
(* QueueState alone: each of them returns a queue, and the two walks over  *)
(* dependency blocks return what their names say.                          *)
(***************************************************************************)
EXTENDS CompileQueue, QueueLemmas, TLAPS

-----------------------------------------------------------------------------
(* The queue's transitions (QueueState) *)

\* The causes a block can have: failed or blocked nodes, whatever their phase.
Broken(q, m) == q.state[m] \in {"FAILED", "BLOCKED_BY_DEPENDENCY"}

\* An IMPLEMENT task reads FAILED or BLOCKED exactly when its node is failed or
\* blocked (task_status).
LEMMA ImplementStatusBroken ==
  ASSUME NEW q \in Queue, NEW m \in Node
  PROVE  ImplementStatusOf(q, m) \in {"FAILED", "BLOCKED"} <=> Broken(q, m)
<1>1. q.state[m] \in NodeState
  BY DEF Queue
<1>2. CASE q.state[m] \in CompletedStates
  BY <1>2 DEF ImplementStatusOf, TaskStatus, Broken, CompletedStates
<1>3. CASE q.state[m] \notin CompletedStates
  BY <1>1, <1>3 DEF ImplementStatusOf, TaskStatus, Broken, NodeState,
                    CompletedStates, InFlightStates
<1>. QED BY <1>2, <1>3

\* failed_prerequisite_ids lists the failed and the blocked prerequisites.
LEMMA FailedPrerequisitesBroken ==
  ASSUME NEW q \in Queue, NEW n \in Node
  PROVE  FailedPrerequisites(q, n) = {m \in Prerequisites(n) : Broken(q, m)}
<1>1. Prerequisites(n) \subseteq Node
  BY TreeAssumption DEF Prerequisites
<1>. QED BY <1>1, ImplementStatusBroken DEF FailedPrerequisites

-----------------------------------------------------------------------------
(* Types *)

\* The guarded row update stays in the vocabulary.
LEMMA SetIfAllowedType ==
  ASSUME NEW row \in [Stage -> StageStatus], NEW s \in Stage, NEW st \in StageStatus
  PROVE  SetIfAllowed(row, s, st) \in [Stage -> StageStatus]
BY DEF SetIfAllowed

\* begin_task, complete_task and fail_task return a queue.
LEMMA BeginTaskType ==
  ASSUME NEW q \in Queue, NEW n \in Node, NEW p \in Phase
  PROVE  BeginTask(q, n, p) \in Queue
<1>. DEFINE stage == IF p = "DESIGN" THEN "INTERFACE_DESIGN" ELSE "IMPLEMENTATION"
<1>1. stage \in Stage /\ "RUNNING" \in StageStatus
  BY DEF Stage, StageStatus
<1>2. q.stage[n] \in [Stage -> StageStatus]
  BY DEF Queue
<1>3. SetIfAllowed(q.stage[n], stage, "RUNNING") \in [Stage -> StageStatus]
  BY <1>1, <1>2, SetIfAllowedType
<1>4. {"DESIGNING", "IMPLEMENTING"} \subseteq NodeState
  BY DEF NodeState, InFlightStates
<1>. QED BY <1>3, <1>4 DEF BeginTask, Queue

\* complete_task yields a queue.
LEMMA CompleteTaskType ==
  ASSUME NEW q \in Queue, NEW n \in Node, NEW p \in Phase, NEW r \in CompletedStates
  PROVE  CompleteTask(q, n, p, r) \in Queue
<1>1. {"PUBLISHED", "SKIPPED"} \subseteq StageStatus
  BY DEF StageStatus
<1>2. {"VISUAL_ANALYSIS", "INTERFACE_DESIGN", "TEST_GENERATION", "IMPLEMENTATION"} = Stage
  BY DEF Stage
<1>3. q.stage[n] \in [Stage -> StageStatus]
  BY DEF Queue
<1>4. "DESIGNED" \in NodeState /\ r \in NodeState
  BY DEF NodeState
<1>. DEFINE row1 == SetIfAllowed(q.stage[n], "VISUAL_ANALYSIS", "PUBLISHED")
            row2 == SetIfAllowed(row1, "INTERFACE_DESIGN", "PUBLISHED")
            last == IF IsLeaf(n) THEN "PUBLISHED" ELSE "SKIPPED"
            row3 == SetIfAllowed(row2, "TEST_GENERATION", last)
            impl == SetIfAllowed(q.stage[n], "IMPLEMENTATION", "PUBLISHED")
<1>5. row1 \in [Stage -> StageStatus]
  BY <1>1, <1>2, <1>3, SetIfAllowedType
<1>6. row2 \in [Stage -> StageStatus]
  BY <1>1, <1>2, <1>5, SetIfAllowedType
<1>7. row3 \in [Stage -> StageStatus]
  BY <1>1, <1>2, <1>6, SetIfAllowedType
<1>8. impl \in [Stage -> StageStatus]
  BY <1>1, <1>2, <1>3, SetIfAllowedType
<1>9. CASE p = "DESIGN"
  BY <1>4, <1>7, <1>9 DEF CompleteTask, Queue
<1>10. CASE p # "DESIGN"
  BY <1>4, <1>8, <1>10 DEF CompleteTask, Queue
<1>. QED BY <1>9, <1>10

\* fail_task yields a queue.
LEMMA FailTaskType ==
  ASSUME NEW q \in Queue, NEW n \in Node
  PROVE  FailTask(q, n) \in Queue
<1>1. "FAILED" \in StageStatus /\ "FAILED" \in NodeState
  BY DEF StageStatus, NodeState
<1>2. {"INTERFACE_DESIGN", "IMPLEMENTATION"} \subseteq Stage
  BY DEF Stage
<1>3. q.stage[n] \in [Stage -> StageStatus]
  BY DEF Queue
<1>4. /\ SetIfAllowed(q.stage[n], "INTERFACE_DESIGN", "FAILED") \in [Stage -> StageStatus]
      /\ SetIfAllowed(q.stage[n], "IMPLEMENTATION", "FAILED") \in [Stage -> StageStatus]
  BY <1>1, <1>2, <1>3, SetIfAllowedType
<1>. QED BY <1>1, <1>3, <1>4 DEF FailTask, Queue

\* Blocking nodes yields a queue.
LEMMA BlockNodesType ==
  ASSUME NEW q \in Queue, NEW B \in SUBSET Node
  PROVE  BlockNodes(q, B) \in Queue
<1>1. "BLOCKED_BY_DEPENDENCY" \in NodeState
  BY DEF NodeState
<1>2. \A n \in Node : q.stage[n] \in [Stage -> StageStatus] /\ q.state[n] \in NodeState
  BY DEF Queue
<1>3. \A n \in Node : BlockRow(q.stage[n]) \in [Stage -> StageStatus]
  BY <1>2, RowRewriteType
<1>. QED BY <1>1, <1>2, <1>3 DEF BlockNodes, Queue

\* Releasing nodes yields a queue.
LEMMA ReleaseNodesType ==
  ASSUME NEW q \in Queue, NEW R \in SUBSET Node
  PROVE  ReleaseNodes(q, R) \in Queue
<1>1. {"DESIGNED", "UNSEEN"} \subseteq NodeState
  BY DEF NodeState
<1>2. \A n \in Node : q.stage[n] \in [Stage -> StageStatus] /\ q.state[n] \in NodeState
  BY DEF Queue
<1>3. \A n \in Node : ReleaseRow(q.stage[n], n) \in [Stage -> StageStatus]
  BY <1>2, RowRewriteType
<1>. QED BY <1>1, <1>2, <1>3 DEF ReleaseNodes, Queue

-----------------------------------------------------------------------------
(* The walks *)

\* What one step of the propagation would block, given that S is blocked.
Cause(q, S, n) ==
  Blockable(q, n) /\ (FailedPrerequisites(q, n) # {} \/ Prerequisites(n) \cap S # {})

\* The walk stops only when no pending node has a failed or blocked prerequisite.
LEMMA NewlyBlockedClosed ==
  ASSUME NEW q
  PROVE  BlockClosed(q, NewlyBlocked(q))
<1>. SUFFICES ASSUME NEW n \in Node, Cause(q, NewlyBlocked(q), n)
              PROVE  n \in NewlyBlocked(q)
  BY DEF BlockClosed, Cause
<1>. SUFFICES ASSUME NEW S \in SUBSET Node, BlockClosed(q, S)
              PROVE  n \in S
  BY DEF NewlyBlocked
<1>1. NewlyBlocked(q) \subseteq S
  BY DEF NewlyBlocked
<1>2. Cause(q, S, n)
  BY <1>1 DEF Cause
<1>. QED BY <1>2 DEF BlockClosed, Cause

\* It blocks pending nodes only, and each for a reason that holds afterwards: a
\* prerequisite that had failed, or one the same walk has blocked.
LEMMA NewlyBlockedCaused ==
  ASSUME NEW q, NEW n \in NewlyBlocked(q)
  PROVE  n \in Node /\ Cause(q, NewlyBlocked(q), n)
<1>1. n \in Node
  BY DEF NewlyBlocked
<1>. SUFFICES ASSUME ~Cause(q, NewlyBlocked(q), n)
              PROVE  FALSE
  BY <1>1
<1>. DEFINE T == NewlyBlocked(q) \ {n}
<1>2. T \in SUBSET Node
  BY DEF NewlyBlocked
<1>3. BlockClosed(q, T)
  <2>. SUFFICES ASSUME NEW x \in Node, Cause(q, T, x)
                PROVE  x \in T
    BY DEF BlockClosed, Cause
  <2>1. Cause(q, NewlyBlocked(q), x)
    BY DEF Cause
  <2>2. x # n
    BY <2>1
  <2>3. x \in NewlyBlocked(q)
    BY <2>1, NewlyBlockedClosed DEF BlockClosed, Cause
  <2>. QED BY <2>2, <2>3
<1>. QED BY <1>2, <1>3 DEF NewlyBlocked

\* The release stops only when every node still blocked has a prerequisite that
\* failed and was not released.
LEMMA ReleasedClosed ==
  ASSUME NEW q
  PROVE  ReleaseClosed(q, Released(q))
<1>. SUFFICES ASSUME NEW n \in Node, q.state[n] = "BLOCKED_BY_DEPENDENCY",
                     FailedPrerequisites(q, n) \subseteq Released(q)
              PROVE  n \in Released(q)
  BY DEF ReleaseClosed
<1>. SUFFICES ASSUME NEW S \in SUBSET Node, ReleaseClosed(q, S)
              PROVE  n \in S
  BY DEF Released
<1>1. Released(q) \subseteq S
  BY DEF Released
<1>. QED BY <1>1 DEF ReleaseClosed

-----------------------------------------------------------------------------
(* Blocks and their causes *)

\* NoStaleBlock of a queue, in terms of the nodes' states.
Caused(q) ==
  \A n \in Node : q.state[n] = "BLOCKED_BY_DEPENDENCY"
                    => \E m \in Prerequisites(n) : Broken(q, m)

\* propagate_dependency_blocks keeps every block caused.
LEMMA PropagateCaused ==
  ASSUME NEW q \in Queue, Caused(q)
  PROVE  Caused(PropagateDependencyBlocks(q))
<1>. DEFINE B == NewlyBlocked(q)
            p == PropagateDependencyBlocks(q)
<1>1. B \subseteq Node
  BY DEF NewlyBlocked
<1>2. \A n \in Node : p.state[n] = IF n \in B THEN "BLOCKED_BY_DEPENDENCY" ELSE q.state[n]
  BY DEF PropagateDependencyBlocks, BlockNodes, Queue
<1>3. \A m \in Node : Broken(q, m) \/ m \in B => Broken(p, m)
  BY <1>2 DEF Broken
<1>4. \A n \in Node : Prerequisites(n) \subseteq Node
  BY TreeAssumption DEF Prerequisites
<1>. SUFFICES ASSUME NEW n \in Node, p.state[n] = "BLOCKED_BY_DEPENDENCY"
              PROVE  \E m \in Prerequisites(n) : Broken(p, m)
  BY DEF Caused
<1>5. CASE n \in B
  <2>1. FailedPrerequisites(q, n) # {} \/ Prerequisites(n) \cap B # {}
    BY <1>5, NewlyBlockedCaused DEF Cause
  <2>2. \E m \in Prerequisites(n) : Broken(q, m) \/ m \in B
    BY <2>1, FailedPrerequisitesBroken
  <2>. QED BY <1>3, <1>4, <2>2
<1>6. CASE n \notin B
  <2>1. \E m \in Prerequisites(n) : Broken(q, m)
    BY <1>2, <1>6 DEF Caused
  <2>. QED BY <1>3, <1>4, <2>1
<1>. QED BY <1>5, <1>6

\* release_dependency_blocks leaves only caused blocks, whatever it started from:
\* this is what makes a retry safe.
LEMMA ReleaseCaused ==
  ASSUME NEW q \in Queue
  PROVE  Caused(ReleaseDependencyBlocks(q))
<1>. DEFINE R == Released(q)
            p == ReleaseDependencyBlocks(q)
<1>1. \A n \in Node : p.state[n] = IF n \notin R THEN q.state[n]
                                   ELSE IF DesignDone(q, n) THEN "DESIGNED" ELSE "UNSEEN"
  BY DEF ReleaseDependencyBlocks, ReleaseNodes, Queue
<1>2. \A m \in Node : Broken(q, m) /\ m \notin R => Broken(p, m)
  BY <1>1 DEF Broken
<1>. SUFFICES ASSUME NEW n \in Node, p.state[n] = "BLOCKED_BY_DEPENDENCY"
              PROVE  \E m \in Prerequisites(n) : Broken(p, m)
  BY DEF Caused
<1>3. n \notin R /\ q.state[n] = "BLOCKED_BY_DEPENDENCY"
  BY <1>1
<1>4. ~ (FailedPrerequisites(q, n) \subseteq R)
  BY <1>3, ReleasedClosed DEF ReleaseClosed
<1>5. \E m \in Prerequisites(n) : Broken(q, m) /\ m \notin R
  BY <1>4, FailedPrerequisitesBroken
<1>6. Prerequisites(n) \subseteq Node
  BY TreeAssumption DEF Prerequisites
<1>. QED BY <1>2, <1>5, <1>6

\* A queue whose blocked nodes were blocked in a caused queue, and which broke no
\* cause, is caused.
LEMMA CausedMonotone ==
  ASSUME NEW q \in Queue, NEW p \in Queue, Caused(q),
         \A n \in Node : p.state[n] = "BLOCKED_BY_DEPENDENCY"
                           => q.state[n] = "BLOCKED_BY_DEPENDENCY",
         \A m \in Node : Broken(q, m) => Broken(p, m)
  PROVE  Caused(p)
<1>1. \A n \in Node : Prerequisites(n) \subseteq Node
  BY TreeAssumption DEF Prerequisites
<1>. QED BY <1>1 DEF Caused

-----------------------------------------------------------------------------
(* What the drain keeps between two steps *)

\* The places of a task whose node still says that the task is running.
Working == {"opening", "running", "merging", "landed", "resetting"}

\* A task in flight owns its node's state: only the task itself moves it on.
FlightOwnsState ==
  \A n \in Node : flight[n] \in Working => queue.state[n] \in InFlightStates

\* Outside of the drain loop nothing is in flight.
FlightsInDrain ==
  coord \notin {"refill", "waiting"} => \A n \in Node : flight[n] = "none"

\* The inductive invariant.
BlockInv ==
  /\ TypeOK
  /\ Caused(queue)
  /\ Caused(saved)
  /\ FlightOwnsState
  /\ FlightsInDrain

-----------------------------------------------------------------------------
(* The scheduler *)

\* Whatever the pick, it is a pending task of a free node whose prerequisites hold.
LEMMA NextTaskRunnable ==
  ASSUME NEW q, NEW t \in NextTask(q)
  PROVE  /\ t \in Task /\ t[1] \in Node /\ t[2] \in Phase
         /\ flight[t[1]] = "none"
         /\ TaskStatus(q, t[1], t[2]) = "PENDING"
         /\ DependenciesMet(q, t[1], t[2])
<1>1. t \in Runnable(q)
  BY DEF NextTask, NextRunnableTask, NextAffinityTask
<1>2. t \in PendingTasks(q) /\ DependenciesMet(q, t[1], t[2])
  BY <1>1 DEF Runnable
<1>3. t \in Task /\ TaskStatus(q, t[1], t[2]) = "PENDING" /\ t[1] \notin InFlight
  BY <1>2 DEF PendingTasks
<1>4. t[1] \in Node /\ t[2] \in Phase
  BY <1>3 DEF Task
<1>. QED BY <1>2, <1>3, <1>4 DEF InFlight

\* A task that may start is on a node that is neither in flight nor broken.
LEMMA StartableState ==
  ASSUME NEW q \in Queue, NEW n \in Node, NEW p \in Phase,
         TaskStatus(q, n, p) = "PENDING"
  PROVE  ~Broken(q, n)
<1>1. q.state[n] \in NodeState
  BY DEF Queue
<1>. QED BY <1>1 DEF TaskStatus, Broken, NodeState, CompletedStates, InFlightStates

\* The walk over the blocks leaves the nodes that run and the failed ones alone.
LEMMA PropagateFrame ==
  ASSUME NEW q \in Queue
  PROVE  /\ PropagateDependencyBlocks(q) \in Queue
         /\ \A n \in Node : q.state[n] \in InFlightStates =>
              PropagateDependencyBlocks(q).state[n] = q.state[n]
<1>1. NewlyBlocked(q) \in SUBSET Node
  BY DEF NewlyBlocked
<1>2. PropagateDependencyBlocks(q) \in Queue
  BY <1>1, BlockNodesType DEF PropagateDependencyBlocks
<1>3. \A n \in Node : q.state[n] \in InFlightStates => n \notin NewlyBlocked(q)
  BY NewlyBlockedCaused DEF Cause, Blockable
<1>. QED BY <1>2, <1>3 DEF PropagateDependencyBlocks, BlockNodes, Queue

-----------------------------------------------------------------------------
(* What each transition does to the states, for the nodes it is not about too *)

\* begin_task, fail_task, complete_task, recover_interrupted_task and
\* reset_node_for_retry write the state of one node.
LEMMA BeginTaskState ==
  ASSUME NEW q \in Queue, NEW n \in Node, NEW p \in Phase
  PROVE  BeginTask(q, n, p).state =
           [q.state EXCEPT ![n] = IF p = "DESIGN" THEN "DESIGNING" ELSE "IMPLEMENTING"]
BY DEF BeginTask, Queue

\* What fail_task does to the state of a node.
LEMMA FailTaskState ==
  ASSUME NEW q \in Queue, NEW n \in Node
  PROVE  FailTask(q, n).state = [q.state EXCEPT ![n] = "FAILED"]
BY DEF FailTask, Queue

\* What complete_task does to the state of a node.
LEMMA CompleteTaskState ==
  ASSUME NEW q \in Queue, NEW n \in Node, NEW p \in Phase, NEW r \in CompletedStates
  PROVE  CompleteTask(q, n, p, r).state =
           [q.state EXCEPT ![n] = IF p = "DESIGN" THEN "DESIGNED" ELSE r]
BY DEF CompleteTask, Queue

\* What the requeue of an interrupted task does to the state of a node.
LEMMA RecoverTaskState ==
  ASSUME NEW q \in Queue, NEW n \in Node, q.state[n] \in InFlightStates
  PROVE  RecoverInterruptedTask(q, n).state =
           [q.state EXCEPT ![n] = IF q.state[n] = "DESIGNING" THEN "UNSEEN" ELSE "DESIGNED"]
BY DEF RecoverInterruptedTask, Queue, InFlightStates

\* What a reset does to the state of a node.
LEMMA ResetNodeState ==
  ASSUME NEW q \in Queue, NEW n \in Node, NEW k \in ResetKind
  PROVE  ResetNode(q, n, k).state =
           [q.state EXCEPT ![n] = IF k = "implement" THEN "DESIGNED" ELSE "UNSEEN"]
BY DEF ResetNode, Queue

\* A transition that moves one node, which was not broken, to a state that is not
\* BLOCKED_BY_DEPENDENCY keeps every block caused.
LEMMA OneNodeCaused ==
  ASSUME NEW q \in Queue, NEW p \in Queue, NEW n \in Node, NEW st \in NodeState,
         Caused(q), p.state = [q.state EXCEPT ![n] = st],
         st # "BLOCKED_BY_DEPENDENCY", st = "FAILED" \/ ~Broken(q, n)
  PROVE  Caused(p)
<1>1. \A m \in Node : p.state[m] = IF m = n THEN st ELSE q.state[m]
  BY DEF Queue
<1>2. \A m \in Node : p.state[m] = "BLOCKED_BY_DEPENDENCY"
                        => q.state[m] = "BLOCKED_BY_DEPENDENCY"
  BY <1>1
<1>3. \A m \in Node : Broken(q, m) => Broken(p, m)
  BY <1>1 DEF Broken
<1>. QED BY <1>2, <1>3, CausedMonotone

\* Loading the queue after a crash keeps every block caused.
LEMMA RecoverCaused ==
  ASSUME NEW q \in Queue, Caused(q)
  PROVE  Caused(RecoverInterrupted(q))
<1>1. RecoverInterrupted(q) \in Queue
  BY RecoverInterruptedType
<1>2. \A n \in Node : /\ q.state[n] # "DESIGNING" /\ q.state[n] # "IMPLEMENTING" =>
                           RecoverInterrupted(q).state[n] = q.state[n]
                      /\ q.state[n] = "DESIGNING" =>
                           RecoverInterrupted(q).state[n] = "UNSEEN"
                      /\ q.state[n] = "IMPLEMENTING" =>
                           RecoverInterrupted(q).state[n] = "DESIGNED"
  BY RecoverInterruptedType
<1>3. \A m \in Node : Broken(q, m) => Broken(RecoverInterrupted(q), m)
  BY <1>2 DEF Broken
<1>4. \A n \in Node : RecoverInterrupted(q).state[n] = "BLOCKED_BY_DEPENDENCY"
                        => q.state[n] = "BLOCKED_BY_DEPENDENCY"
  BY <1>2
<1>. QED BY <1>1, <1>3, <1>4, CausedMonotone

-----------------------------------------------------------------------------
(* The induction *)

\* A task step moves one task and, at most, its node's state, saved or not.
LEMMA OneTaskStep ==
  ASSUME BlockInv, NEW n \in Node, NEW to \in FlightState,
         coord = "waiting", UNCHANGED <<coord, retried, counters>>,
         flight' = [flight EXCEPT ![n] = to],
         queue' \in Queue, Caused(queue)',
         \A m \in Node \ {n} : queue'.state[m] = queue.state[m],
         to \in Working => queue'.state[n] \in InFlightStates,
         saved' = saved \/ saved' = queue', unsaved' \in BOOLEAN,
         spent' \in [Node -> Phase \cup {"none"}], testFailed' \subseteq Node,
         landed' \subseteq Task,
         outage' \in [status : {"NONE", "OBSERVED", "OPEN", "RECOVERED"}, count : Nat],
         deferred' \subseteq Task, outages' \in Nat
  PROVE  BlockInv'
<1>1. TypeOK'
  BY DEF BlockInv, TypeOK, counters
<1>2. Caused(saved)'
  BY DEF BlockInv, Caused, Broken
<1>3. FlightOwnsState'
  BY DEF BlockInv, FlightOwnsState, TypeOK
<1>4. FlightsInDrain'
  BY DEF FlightsInDrain
<1>. QED BY <1>1, <1>2, <1>3, <1>4 DEF BlockInv

\* The node whose task is at work is neither failed nor blocked.
LEMMA WorkingNode ==
  ASSUME BlockInv, NEW n \in Node, flight[n] \in Working
  PROVE  /\ queue \in Queue /\ Caused(queue)
         /\ queue.state[n] \in InFlightStates
         /\ ~Broken(queue, n)
         /\ PhaseInFlight(n) \in Phase
BY DEF BlockInv, FlightOwnsState, TypeOK, InFlightStates, Broken, PhaseInFlight, Phase

\* Failing, completing and requeueing a task keep every block caused and write
\* no other node's state.
LEMMA FailVerdictFacts ==
  ASSUME BlockInv, NEW n \in Node, FailVerdict(n)
  PROVE  /\ queue' \in Queue /\ Caused(queue)' /\ saved' = queue' /\ unsaved' = FALSE
         /\ \A m \in Node \ {n} : queue'.state[m] = queue.state[m]
         /\ testFailed' \subseteq Node /\ spent' = spent /\ landed' = landed
<1>1. queue \in Queue /\ Caused(queue) /\ testFailed \subseteq Node
  BY DEF BlockInv, TypeOK
<1>2. queue' = FailTask(queue, n) /\ saved' = queue' /\ unsaved' = FALSE
  BY DEF FailVerdict, Store
<1>3. queue' \in Queue /\ queue'.state = [queue.state EXCEPT ![n] = "FAILED"]
  BY <1>1, <1>2, FailTaskType, FailTaskState
<1>4. "FAILED" \in NodeState
  BY DEF NodeState
<1>5. Caused(queue')
  BY <1>1, <1>3, <1>4, OneNodeCaused
<1>6. Caused(queue)'
  BY <1>5 DEF Caused, Broken
<1>7. \A m \in Node \ {n} : queue'.state[m] = queue.state[m]
  BY <1>1, <1>3 DEF Queue
<1>8. testFailed' \subseteq Node /\ spent' = spent /\ landed' = landed
  BY <1>1 DEF FailVerdict
<1>. QED BY <1>2, <1>3, <1>6, <1>7, <1>8

\* The verdict that completes a phase.
LEMMA CompleteVerdictFacts ==
  ASSUME BlockInv, DrainAssumption, NEW n \in Node, flight[n] \in Working,
         CompleteVerdict(n)
  PROVE  /\ queue' \in Queue /\ Caused(queue)' /\ saved' = queue' /\ unsaved' = FALSE
         /\ \A m \in Node \ {n} : queue'.state[m] = queue.state[m]
         /\ testFailed' = testFailed /\ spent' = spent
<1>. DEFINE p == PhaseInFlight(n)
<1>1. queue \in Queue /\ Caused(queue) /\ ~Broken(queue, n) /\ p \in Phase
  BY WorkingNode
<1>2. PICK r \in Results : Store(CompleteTask(queue, n, p, r))
  BY DEF CompleteVerdict
<1>3. r \in CompletedStates
  BY DEF DrainAssumption
<1>. HIDE DEF p
<1>4. queue' = CompleteTask(queue, n, p, r) /\ saved' = queue' /\ unsaved' = FALSE
  BY <1>2 DEF Store
<1>. DEFINE st == IF p = "DESIGN" THEN "DESIGNED" ELSE r
<1>5. queue' \in Queue /\ queue'.state = [queue.state EXCEPT ![n] = st]
  <2>1. CompleteTask(queue, n, p, r) \in Queue
    BY <1>1, <1>3, CompleteTaskType
  <2>2. CompleteTask(queue, n, p, r).state =
          [queue.state EXCEPT ![n] = IF p = "DESIGN" THEN "DESIGNED" ELSE r]
    BY <1>1, <1>3, CompleteTaskState
  <2>. QED BY <1>4, <2>1, <2>2
<1>6. st \in NodeState /\ st # "BLOCKED_BY_DEPENDENCY"
  BY <1>3 DEF NodeState, CompletedStates
<1>7. Caused(queue')
  BY <1>1, <1>5, <1>6, OneNodeCaused
<1>8. Caused(queue)'
  BY <1>7 DEF Caused, Broken
<1>9. \A m \in Node \ {n} : queue'.state[m] = queue.state[m]
  BY <1>1, <1>5 DEF Queue
<1>. QED BY <1>4, <1>5, <1>8, <1>9 DEF CompleteVerdict

\* The conflict requeue.
LEMMA RequeueFacts ==
  ASSUME BlockInv, NEW n \in Node, flight[n] \in Working, NEW k \in {"design", "implement"},
         queue' = ResetNode(queue, n, k)
  PROVE  /\ queue' \in Queue /\ Caused(queue)'
         /\ \A m \in Node \ {n} : queue'.state[m] = queue.state[m]
<1>1. queue \in Queue /\ Caused(queue) /\ ~Broken(queue, n) /\ k \in ResetKind
  BY WorkingNode DEF ResetKind
<1>. DEFINE st == IF k = "implement" THEN "DESIGNED" ELSE "UNSEEN"
<1>2. queue' \in Queue /\ queue'.state = [queue.state EXCEPT ![n] = st]
  <2>1. ResetNode(queue, n, k) \in Queue
    BY <1>1, ResetNodeType
  <2>2. ResetNode(queue, n, k).state =
          [queue.state EXCEPT ![n] = IF k = "implement" THEN "DESIGNED" ELSE "UNSEEN"]
    BY <1>1, ResetNodeState
  <2>. QED BY <2>1, <2>2
<1>3. st \in NodeState /\ st # "BLOCKED_BY_DEPENDENCY"
  BY DEF NodeState
<1>4. Caused(queue')
  BY <1>1, <1>2, <1>3, OneNodeCaused
<1>5. \A m \in Node \ {n} : queue'.state[m] = queue.state[m]
  BY <1>1, <1>2 DEF Queue
<1>. QED BY <1>2, <1>4, <1>5 DEF Caused, Broken

\* An outage puts the task of a node back.
LEMMA InterruptFacts ==
  ASSUME BlockInv, NEW n \in Node, flight[n] \in Working,
         queue' = RecoverInterruptedTask(queue, n)
  PROVE  /\ queue' \in Queue /\ Caused(queue)'
         /\ \A m \in Node \ {n} : queue'.state[m] = queue.state[m]
<1>1. /\ queue \in Queue /\ Caused(queue) /\ ~Broken(queue, n)
      /\ queue.state[n] \in InFlightStates
  BY WorkingNode
<1>. DEFINE st == IF queue.state[n] = "DESIGNING" THEN "UNSEEN" ELSE "DESIGNED"
<1>2. queue' \in Queue /\ queue'.state = [queue.state EXCEPT ![n] = st]
  <2>1. RecoverInterruptedTask(queue, n) \in Queue
    BY <1>1, RecoverTaskType
  <2>2. RecoverInterruptedTask(queue, n).state =
          [queue.state EXCEPT ![n] = IF queue.state[n] = "DESIGNING" THEN "UNSEEN"
                                                                     ELSE "DESIGNED"]
    BY <1>1, RecoverTaskState
  <2>. QED BY <2>1, <2>2
<1>3. st \in NodeState /\ st # "BLOCKED_BY_DEPENDENCY"
  BY DEF NodeState
<1>4. Caused(queue')
  BY <1>1, <1>2, <1>3, OneNodeCaused
<1>5. \A m \in Node \ {n} : queue'.state[m] = queue.state[m]
  BY <1>1, <1>2 DEF Queue
<1>. QED BY <1>2, <1>4, <1>5 DEF Caused, Broken

\* Every task step keeps the invariant.
LEMMA TaskStepInv ==
  ASSUME BlockInv, DrainAssumption, NEW n \in Node, TaskStep(n)
  PROVE  BlockInv'
<1>. USE DEF FlightState, Working
<1>1. /\ coord = "waiting" /\ UNCHANGED <<coord, retried, counters>>
  BY DEF TaskStep
<1>2. /\ queue \in Queue /\ saved \in Queue /\ unsaved \in BOOLEAN /\ Caused(queue)
      /\ spent \in [Node -> Phase \cup {"none"}] /\ testFailed \subseteq Node
      /\ landed \subseteq Task /\ deferred \subseteq Task /\ outages \in Nat
      /\ outage \in [status : {"NONE", "OBSERVED", "OPEN", "RECOVERED"}, count : Nat]
      /\ flight \in [Node -> FlightState]
  BY DEF BlockInv, TypeOK
<1>3. flight[n] \in Working => queue.state[n] \in InFlightStates /\ PhaseInFlight(n) \in Phase
  BY WorkingNode
<1>4. AfterVerdict \in FlightState /\ AfterVerdict \notin Working
  BY DEF AfterVerdict
<1>5. queue' = queue => Caused(queue)'
  BY <1>2 DEF Caused, Broken
<1>6. CASE OpenWorkspace(n)
  BY <1>1, <1>2, <1>3, <1>5, <1>6, OneTaskStep DEF OpenWorkspace, Move, queueVars, recordVars, outageVars
<1>7. CASE OpenFails(n)
  BY <1>1, <1>2, <1>7, FailVerdictFacts, OneTaskStep DEF OpenFails, Move, outageVars
<1>8. CASE PhaseSucceeds(n)
  <2>1. CASE ParallelMode
    BY <1>1, <1>2, <1>3, <1>5, <1>8, <2>1, OneTaskStep
    DEF PhaseSucceeds, Move, queueVars, recordVars, outageVars
  <2>2. CASE ~ParallelMode
    <3>1. Move(n, "running", "finished") /\ CompleteVerdict(n) /\ UNCHANGED outageVars
      BY <1>8, <2>2 DEF PhaseSucceeds
    <3>2. landed' \subseteq Task
      BY <1>2, <1>3, <1>8, <2>2, <3>1 DEF PhaseSucceeds, Move, Task
    <3>. QED BY <1>1, <1>2, <3>1, <3>2, CompleteVerdictFacts, OneTaskStep DEF Move, outageVars
  <2>. QED BY <2>1, <2>2
<1>9. CASE PhaseFails(n)
  BY <1>1, <1>2, <1>4, <1>9, FailVerdictFacts, OneTaskStep DEF PhaseFails, Move, outageVars
<1>10. CASE ObserveOutage(n)
  <2>1. /\ flight[n] = "running" /\ flight' = [flight EXCEPT ![n] = AfterVerdict]
        /\ queue' = RecoverInterruptedTask(queue, n) /\ saved' = queue' /\ unsaved' = FALSE
        /\ UNCHANGED recordVars /\ outages' = outages + 1
    BY <1>10 DEF ObserveOutage, Move, Store
  <2>2. /\ queue' \in Queue /\ Caused(queue)'
        /\ \A m \in Node \ {n} : queue'.state[m] = queue.state[m]
    BY <2>1, InterruptFacts
  <2>3. /\ outage' \in [status : {"NONE", "OBSERVED", "OPEN", "RECOVERED"}, count : Nat]
        /\ deferred' \subseteq Task
    <3>1. PICK same \in BOOLEAN :
            LET count == IF same THEN outage.count + 1 ELSE 1
                opened == count >= OutageThreshold
            IN  /\ outage' = [status |-> IF opened THEN "OPEN" ELSE "OBSERVED", count |-> count]
                /\ deferred' = (IF same THEN deferred ELSE {})
                                 \cup (IF opened THEN {} ELSE {<<n, PhaseInFlight(n)>>})
      BY <1>10 DEF ObserveOutage
    <3>2. outage.count \in Nat /\ <<n, PhaseInFlight(n)>> \in Task
      BY <1>2, <1>3, <2>1 DEF Task
    <3>. QED BY <1>2, <3>1, <3>2
  <2>4. spent' = spent /\ testFailed' = testFailed /\ landed' = landed /\ outages' \in Nat
    BY <1>2, <2>1 DEF recordVars
  <2>. HIDE DEF Working, FlightState
  <2>. QED BY <1>1, <1>2, <1>4, <2>1, <2>2, <2>3, <2>4, OneTaskStep
<1>11. CASE MergeLands(n)
  <2>1. landed' \subseteq Task
    BY <1>2, <1>3, <1>11 DEF MergeLands, Move, Task
  <2>. QED BY <1>1, <1>2, <1>3, <1>5, <1>11, <2>1, OneTaskStep
           DEF MergeLands, Move, queueVars, outageVars
<1>12. CASE MergeCompletes(n)
  BY <1>1, <1>2, <1>12, CompleteVerdictFacts, OneTaskStep DEF MergeCompletes, Move, outageVars
<1>13. CASE MergeConflicts(n)
  <2>1. CASE RequeueAvailable(n)
    BY <1>1, <1>2, <1>3, <1>5, <1>13, <2>1, OneTaskStep
    DEF MergeConflicts, Move, queueVars, recordVars, outageVars
  <2>2. CASE ~RequeueAvailable(n)
    <3>1. Move(n, "merging", "settling") /\ FailVerdict(n) /\ UNCHANGED outageVars
      BY <1>13, <2>2 DEF MergeConflicts
    <3>. QED BY <1>1, <1>2, <3>1, FailVerdictFacts, OneTaskStep DEF Move, outageVars
  <2>. QED BY <2>1, <2>2
<1>14. CASE MergeErrors(n)
  BY <1>1, <1>2, <1>14, FailVerdictFacts, OneTaskStep DEF MergeErrors, Move, outageVars
<1>15. CASE Requeue(n)
  <2>1. PICK k \in {"design", "implement"} : queue' = ResetNode(queue, n, k)
    BY <1>15 DEF Requeue, RequeueKind
  <2>2. /\ flight[n] = "resetting" /\ flight' = [flight EXCEPT ![n] = "requeued"]
        /\ spent' = [spent EXCEPT ![n] = PhaseInFlight(n)] /\ unsaved' = TRUE
        /\ UNCHANGED <<saved, testFailed, landed, outageVars>>
    BY <1>15 DEF Requeue, Move, BudgetSpent
  <2>3. /\ queue' \in Queue /\ Caused(queue)'
        /\ \A m \in Node \ {n} : queue'.state[m] = queue.state[m]
    BY <2>1, <2>2, RequeueFacts
  <2>4. spent' \in [Node -> Phase \cup {"none"}]
    BY <1>2, <1>3, <2>2
  <2>. QED BY <1>1, <1>2, <2>2, <2>3, <2>4, OneTaskStep DEF outageVars
<1>16. CASE SaveRequeue(n)
  BY <1>1, <1>2, <1>5, <1>16, OneTaskStep DEF SaveRequeue, Move, Store, recordVars, outageVars
<1>17. CASE RequeueDeclined(n)
  BY <1>1, <1>2, <1>17, FailVerdictFacts, OneTaskStep DEF RequeueDeclined, Move, outageVars
<1>18. CASE Settle(n)
  BY <1>1, <1>2, <1>5, <1>18, OneTaskStep DEF Settle, Move, queueVars, recordVars, outageVars
<1>. QED BY <1>6, <1>7, <1>8, <1>9, <1>10, <1>11, <1>12, <1>13, <1>14, <1>15, <1>16,
            <1>17, <1>18 DEF TaskStep

\* An invocation that loads the queue keeps the invariant: recovery keeps every
\* cause, and what a retry resets is followed by the release of its blocks.
LEMMA LoadInv ==
  ASSUME BlockInv, NEW S \in SUBSET Node, ~Running, LoadAndPrepare(S),
         outage' \in [status : {"NONE", "OBSERVED", "OPEN", "RECOVERED"}, count : Nat],
         deferred' \subseteq Task
  PROVE  BlockInv'
<1>. DEFINE r == RecoverInterrupted(saved)
<1>1. saved \in Queue /\ Caused(saved)
  BY DEF BlockInv, TypeOK
<1>2. r \in Queue /\ Caused(r)
  BY <1>1, RecoverInterruptedType, RecoverCaused
<1>3. queue' \in Queue /\ Caused(queue')
  <2>1. CASE S = {}
    BY <1>2, <2>1 DEF LoadAndPrepare
  <2>2. CASE S # {}
    <3>1. queue' = ReleaseDependencyBlocks(ResetNodes(r, S))
      BY <2>2 DEF LoadAndPrepare
    <3>2. ResetNodes(r, S) \in Queue
      BY <1>2, ResetNodesType
    <3>3. Released(ResetNodes(r, S)) \in SUBSET Node
      BY DEF Released
    <3>. HIDE DEF r
    <3>4. ReleaseDependencyBlocks(ResetNodes(r, S)) \in Queue
      BY <3>2, <3>3, ReleaseNodesType DEF ReleaseDependencyBlocks
    <3>5. Caused(ReleaseDependencyBlocks(ResetNodes(r, S)))
      BY <3>2, ReleaseCaused
    <3>. QED BY <3>1, <3>4, <3>5
  <2>. QED BY <2>1, <2>2
<1>4. /\ unsaved' = TRUE /\ coord' = "saving" /\ starts' = starts + 1 /\ retried' = FALSE
      /\ UNCHANGED <<saved, testFailed, landed, flight, outages, crashes>>
      /\ spent' = [n \in Node |-> IF n \in S THEN "none" ELSE spent[n]]
  BY DEF LoadAndPrepare
<1>5. \A n \in Node : flight[n] = "none"
  BY DEF BlockInv, FlightsInDrain, Running
<1>6. TypeOK'
  <2>1. spent \in [Node -> Phase \cup {"none"}] /\ starts \in Nat
    BY DEF BlockInv, TypeOK
  <2>2. spent' \in [Node -> Phase \cup {"none"}] /\ starts' \in Nat
    BY <1>4, <2>1
  <2>3. unsaved' \in BOOLEAN /\ retried' \in BOOLEAN /\ coord' \in CoordinatorState
    BY <1>4 DEF CoordinatorState
  <2>. QED BY <1>3, <1>4, <2>2, <2>3 DEF BlockInv, TypeOK
<1>7. Caused(queue)' /\ Caused(saved)'
  BY <1>1, <1>3, <1>4 DEF Caused, Broken
<1>8. FlightOwnsState' /\ FlightsInDrain'
  BY <1>4, <1>5 DEF FlightOwnsState, FlightsInDrain, Working
<1>. QED BY <1>6, <1>7, <1>8 DEF BlockInv

\* The operator's invocations and the crash.
LEMMA EnvironmentInv ==
  ASSUME BlockInv, DrainAssumption, Environment
  PROVE  BlockInv'
<1>1. /\ queue \in Queue /\ saved \in Queue /\ Caused(saved) /\ deferred \subseteq Task
      /\ outage \in [status : {"NONE", "OBSERVED", "OPEN", "RECOVERED"}, count : Nat]
  BY DEF BlockInv, TypeOK
<1>2. CASE FirstStart
  BY <1>1, <1>2, LoadInv DEF FirstStart
<1>3. CASE Resume
  <2>1. PICK S \in RetryRequests(RecoverInterrupted(saved)) : LoadAndPrepare(S)
    BY <1>3 DEF Resume
  <2>2. S \in SUBSET Node
    BY DEF RetryRequests, RetryFailedIds, DrainAssumption
  <2>3. outage' \in [status : {"NONE", "OBSERVED", "OPEN", "RECOVERED"}, count : Nat]
    BY <1>1, <1>3 DEF Resume
  <2>4. ~Running /\ deferred' = {}
    BY <1>3 DEF Resume
  <2>. QED BY <2>1, <2>2, <2>3, <2>4, LoadInv
<1>4. CASE ResumeUnhealthy
  <2>1. /\ queue' = saved /\ coord' = "ended" /\ starts' = starts + 1
        /\ UNCHANGED <<saved, unsaved, recordVars, retried, flight, outageVars, crashes>>
    BY <1>4 DEF ResumeUnhealthy
  <2>2. \A n \in Node : flight[n] = "none"
    BY <1>4 DEF ResumeUnhealthy, BlockInv, FlightsInDrain, Running
  <2>3. TypeOK'
    BY <2>1 DEF BlockInv, TypeOK, CoordinatorState, recordVars, outageVars
  <2>4. Caused(queue)' /\ Caused(saved)'
    BY <1>1, <2>1 DEF Caused, Broken
  <2>5. FlightOwnsState' /\ FlightsInDrain'
    BY <2>1, <2>2 DEF FlightOwnsState, FlightsInDrain, Working
  <2>. QED BY <2>3, <2>4, <2>5 DEF BlockInv
<1>5. CASE Crash
  <2>1. /\ queue' = saved /\ unsaved' = FALSE /\ coord' = "idle"
        /\ flight' = [n \in Node |-> "none"] /\ crashes' = crashes + 1
        /\ UNCHANGED <<saved, recordVars, retried, outageVars, starts>>
    BY <1>5 DEF Crash
  <2>2. TypeOK'
    <3>1. /\ flight' \in [Node -> FlightState] /\ unsaved' \in BOOLEAN
          /\ coord' \in CoordinatorState
      BY <2>1 DEF FlightState, CoordinatorState
    <3>2. crashes' \in Nat
      BY <2>1 DEF BlockInv, TypeOK
    <3>. QED BY <2>1, <3>1, <3>2 DEF BlockInv, TypeOK, recordVars, outageVars
  <2>3. Caused(queue)' /\ Caused(saved)'
    BY <1>1, <2>1 DEF Caused, Broken
  <2>4. FlightOwnsState' /\ FlightsInDrain'
    BY <2>1 DEF FlightOwnsState, FlightsInDrain, Working
  <2>. QED BY <2>2, <2>3, <2>4 DEF BlockInv
<1>. QED BY <1>2, <1>3, <1>4, <1>5 DEF Environment

\* The coordinator's actions that keep the queue as it is.
LEMMA SameQueue ==
  ASSUME BlockInv, queue' = queue, saved' = saved \/ saved' = queue
  PROVE  Caused(queue)' /\ Caused(saved)' /\ queue' \in Queue /\ saved' \in Queue
BY DEF BlockInv, TypeOK, Caused, Broken

\* The coordinator.
LEMMA CoordinateInv ==
  ASSUME BlockInv, DrainAssumption, Coordinate
  PROVE  BlockInv'
<1>1. /\ queue \in Queue /\ saved \in Queue /\ Caused(queue)
      /\ flight \in [Node -> FlightState] /\ spent \in [Node -> Phase \cup {"none"}]
  BY DEF BlockInv, TypeOK
<1>2. CASE SaveQueue
  <2>1. /\ queue' = queue /\ saved' = queue /\ unsaved' = FALSE
        /\ coord = "saving" /\ coord' = "refill"
        /\ UNCHANGED <<recordVars, retried, flight, outageVars, counters>>
    BY <1>2 DEF SaveQueue, Store
  <2>2. TypeOK'
    BY <2>1 DEF BlockInv, TypeOK, CoordinatorState, recordVars, outageVars, counters
  <2>3. FlightOwnsState' /\ FlightsInDrain'
    BY <2>1 DEF BlockInv, FlightOwnsState, FlightsInDrain
  <2>. QED BY <2>1, <2>2, <2>3, SameQueue DEF BlockInv
<1>3. CASE Dispatch
  <2>. DEFINE q == PropagateDependencyBlocks(queue)
  <2>1. PICK t \in NextTask(q) :
          /\ Store(BeginTask(q, t[1], t[2]))
          /\ flight' = [flight EXCEPT ![t[1]] = IF ParallelMode THEN "opening" ELSE "running"]
    BY <1>3 DEF Dispatch
  <2>2. q \in Queue /\ Caused(q)
    BY <1>1, PropagateFrame, PropagateCaused
  <2>3. /\ t[1] \in Node /\ t[2] \in Phase /\ flight[t[1]] = "none"
        /\ TaskStatus(q, t[1], t[2]) = "PENDING"
    BY NextTaskRunnable
  <2>4. \A m \in Node : queue.state[m] \in InFlightStates => q.state[m] = queue.state[m]
    BY <1>1, PropagateFrame
  <2>. HIDE DEF q
  <2>5. ~Broken(q, t[1])
    BY <2>2, <2>3, StartableState
  <2>. DEFINE n == t[1]
              st == IF t[2] = "DESIGN" THEN "DESIGNING" ELSE "IMPLEMENTING"
              to == IF ParallelMode THEN "opening" ELSE "running"
  <2>6. queue' \in Queue /\ queue'.state = [q.state EXCEPT ![n] = st]
    BY <2>1, <2>2, <2>3, BeginTaskType, BeginTaskState DEF Store
  <2>7. st \in NodeState /\ st # "BLOCKED_BY_DEPENDENCY" /\ st \in InFlightStates
    BY DEF NodeState, InFlightStates
  <2>8. flight' = [flight EXCEPT ![n] = to] /\ to \in FlightState
    BY <2>1 DEF FlightState
  <2>9. saved' = queue' /\ unsaved' = FALSE
    BY <2>1 DEF Store
  <2>10. n \in Node /\ ~Broken(q, n)
    BY <2>3, <2>5
  <2>11. /\ coord = "refill" /\ coord' \in {"refill", "waiting"}
         /\ UNCHANGED <<recordVars, retried, outageVars, counters>>
    BY <1>3 DEF Dispatch
  <2>. HIDE DEF n, st, to
  <2>12. Caused(queue')
    BY <2>2, <2>6, <2>7, <2>10, OneNodeCaused
  <2>13. TypeOK'
    BY <1>1, <2>6, <2>8, <2>9, <2>11
    DEF BlockInv, TypeOK, CoordinatorState, recordVars, outageVars, counters
  <2>14. FlightOwnsState'
    <3>. SUFFICES ASSUME NEW m \in Node, flight'[m] \in Working
                  PROVE  queue'.state[m] \in InFlightStates
      BY DEF FlightOwnsState
    <3>1. CASE m = n
      BY <2>2, <2>6, <2>7, <3>1 DEF Queue
    <3>2. CASE m # n
      <4>1. flight[m] \in Working
        BY <1>1, <2>8, <3>2
      <4>2. queue.state[m] \in InFlightStates
        BY <4>1 DEF BlockInv, FlightOwnsState
      <4>3. queue'.state[m] = q.state[m]
        BY <2>2, <2>6, <3>2 DEF Queue
      <4>. QED BY <2>4, <4>2, <4>3
    <3>. QED BY <3>1, <3>2
  <2>15. FlightsInDrain'
    BY <2>11 DEF FlightsInDrain
  <2>16. Caused(queue)' /\ Caused(saved)'
    BY <2>9, <2>12 DEF Caused, Broken
  <2>. QED BY <2>13, <2>14, <2>15, <2>16 DEF BlockInv
<1>4. CASE StopRefill
  <2>. DEFINE q == PropagateDependencyBlocks(queue)
  <2>1. /\ coord = "refill" /\ coord' = IF InFlight = {} THEN "drained" ELSE "waiting"
        /\ Store(q) \/ UNCHANGED queueVars
        /\ UNCHANGED <<recordVars, retried, flight, outageVars, counters>>
    BY <1>4 DEF StopRefill
  <2>2. q \in Queue /\ Caused(q)
    BY <1>1, PropagateFrame, PropagateCaused
  <2>3. \A m \in Node : queue.state[m] \in InFlightStates => q.state[m] = queue.state[m]
    BY <1>1, PropagateFrame
  <2>. HIDE DEF q
  <2>4. FlightsInDrain'
    BY <2>1 DEF FlightsInDrain, InFlight
  <2>5. TypeOK'
    BY <2>1, <2>2
    DEF Store, BlockInv, TypeOK, CoordinatorState, queueVars, recordVars, outageVars, counters
  <2>6. CASE Store(q)
    <3>1. queue' = q /\ saved' = q
      BY <2>6 DEF Store
    <3>2. Caused(queue)' /\ Caused(saved)'
      BY <2>2, <3>1 DEF Caused, Broken
    <3>3. FlightOwnsState'
      BY <2>1, <2>3, <3>1 DEF BlockInv, FlightOwnsState
    <3>. QED BY <2>4, <2>5, <3>2, <3>3 DEF BlockInv
  <2>7. CASE UNCHANGED queueVars
    <3>1. Caused(queue)' /\ Caused(saved)'
      BY <2>7, SameQueue DEF queueVars
    <3>2. FlightOwnsState'
      BY <2>1, <2>7 DEF BlockInv, FlightOwnsState, queueVars
    <3>. QED BY <2>4, <2>5, <3>1, <3>2 DEF BlockInv
  <2>. QED BY <2>1, <2>6, <2>7
<1>5. CASE Reap
  <2>1. /\ flight' = [n \in Node |-> IF flight[n] = "finished" THEN "none" ELSE flight[n]]
        /\ coord = "waiting" /\ coord' = "refill"
        /\ UNCHANGED <<queueVars, recordVars, retried, outageVars, counters>>
    BY <1>5 DEF Reap
  <2>2. TypeOK'
    BY <1>1, <2>1
    DEF BlockInv, TypeOK, CoordinatorState, FlightState, queueVars, recordVars, outageVars, counters
  <2>3. Caused(queue)' /\ Caused(saved)'
    BY <2>1, SameQueue DEF queueVars
  <2>4. FlightOwnsState' /\ FlightsInDrain'
    BY <1>1, <2>1 DEF BlockInv, FlightOwnsState, FlightsInDrain, Working, queueVars
  <2>. QED BY <2>2, <2>3, <2>4 DEF BlockInv
<1>6. CASE AutoRetry
  <2>1. /\ coord = "drained" /\ coord' = "saving" /\ unsaved' = TRUE /\ retried' = TRUE
        /\ UNCHANGED <<saved, testFailed, landed, flight, outageVars, counters>>
        /\ queue' = ReleaseDependencyBlocks(ResetNodes(queue, TddRetryIds))
        /\ spent' = [n \in Node |-> IF n \in TddRetryIds THEN "none" ELSE spent[n]]
    BY <1>6 DEF AutoRetry
  <2>2. TddRetryIds \in SUBSET Node
    BY DEF TddRetryIds, BlockInv, TypeOK
  <2>3. ResetNodes(queue, TddRetryIds) \in Queue
    BY <1>1, <2>2, ResetNodesType
  <2>4. Released(ResetNodes(queue, TddRetryIds)) \in SUBSET Node
    BY DEF Released
  <2>5. queue' \in Queue
    BY <2>1, <2>3, <2>4, ReleaseNodesType DEF ReleaseDependencyBlocks
  <2>6. Caused(queue')
    BY <2>1, <2>3, ReleaseCaused
  <2>7. spent' \in [Node -> Phase \cup {"none"}]
    BY <1>1, <2>1
  <2>8. TypeOK'
    BY <2>1, <2>5, <2>7 DEF BlockInv, TypeOK, CoordinatorState, outageVars, counters
  <2>9. Caused(queue)' /\ Caused(saved)'
    BY <2>1, <2>6 DEF BlockInv, Caused, Broken
  <2>10. \A n \in Node : flight[n] = "none"
    BY <2>1 DEF BlockInv, FlightsInDrain
  <2>11. FlightOwnsState' /\ FlightsInDrain'
    BY <2>1, <2>10 DEF FlightOwnsState, FlightsInDrain, Working
  <2>. QED BY <2>8, <2>9, <2>11 DEF BlockInv
<1>7. CASE EndRun
  <2>1. /\ coord = "drained" /\ coord' = "ended"
        /\ UNCHANGED <<queueVars, recordVars, retried, flight, outageVars, counters>>
    BY <1>7 DEF EndRun
  <2>2. TypeOK'
    BY <2>1
    DEF BlockInv, TypeOK, CoordinatorState, queueVars, recordVars, outageVars, counters
  <2>3. Caused(queue)' /\ Caused(saved)'
    BY <2>1, SameQueue DEF queueVars
  <2>4. FlightOwnsState' /\ FlightsInDrain'
    BY <2>1 DEF BlockInv, FlightOwnsState, FlightsInDrain, queueVars
  <2>. QED BY <2>2, <2>3, <2>4 DEF BlockInv
<1>. QED BY <1>2, <1>3, <1>4, <1>5, <1>6, <1>7 DEF Coordinate

-----------------------------------------------------------------------------
(* The theorems *)

\* The drain starts with a fresh queue, where nothing is blocked.
LEMMA InitInv == Init => BlockInv
<1>. SUFFICES ASSUME Init PROVE BlockInv
  OBVIOUS
<1>1. TypeOK
  BY FreshQueueType DEF Init, TypeOK, CoordinatorState, FlightState
<1>2. \A n \in Node : FreshQueue.state[n] = "UNSEEN"
  BY DEF FreshQueue
<1>3. Caused(queue) /\ Caused(saved)
  BY <1>2 DEF Init, Caused
<1>4. FlightOwnsState /\ FlightsInDrain
  BY DEF Init, FlightOwnsState, FlightsInDrain, Working
<1>. QED BY <1>1, <1>3, <1>4 DEF BlockInv

\* The invariant is inductive.
LEMMA StepInv == BlockInv /\ [Next]_vars => BlockInv'
<1>. SUFFICES ASSUME BlockInv, [Next]_vars PROVE BlockInv'
  OBVIOUS
<1>1. CASE Environment
  BY <1>1, EnvironmentInv, DrainAssumption
<1>2. CASE Coordinate
  BY <1>2, CoordinateInv, DrainAssumption
<1>3. CASE \E n \in Node : TaskStep(n)
  BY <1>3, TaskStepInv, DrainAssumption
<1>4. CASE UNCHANGED vars
  <2>1. /\ UNCHANGED <<queue, saved, unsaved, spent, testFailed, landed, coord, retried>>
        /\ UNCHANGED <<flight, outage, deferred, outages, crashes, starts>>
    BY <1>4 DEF vars, queueVars, recordVars, outageVars, counters
  <2>2. TypeOK'
    BY <2>1 DEF BlockInv, TypeOK
  <2>3. Caused(queue)' /\ Caused(saved)'
    BY <2>1, SameQueue
  <2>4. FlightOwnsState' /\ FlightsInDrain'
    BY <2>1 DEF BlockInv, FlightOwnsState, FlightsInDrain
  <2>. QED BY <2>2, <2>3, <2>4 DEF BlockInv
<1>. QED BY <1>1, <1>2, <1>3, <1>4 DEF Next

\* A caused queue has no stale block.
LEMMA CausedNotStale ==
  ASSUME queue \in Queue, Caused(queue)
  PROVE  NoStaleBlock
<1>. SUFFICES ASSUME NEW n \in Node, queue.state[n] = "BLOCKED_BY_DEPENDENCY"
              PROVE  FailedPrerequisites(queue, n) # {}
  BY DEF NoStaleBlock
<1>1. PICK m \in Prerequisites(n) : Broken(queue, m)
  BY DEF Caused
<1>. QED BY <1>1, FailedPrerequisitesBroken

\* Every reachable state of every drain is well typed: whatever the tree, the
\* mode, the retries asked for and the crashes.
THEOREM TypeCorrect == Spec => []TypeOK
<1>1. BlockInv => TypeOK
  BY DEF BlockInv
<1>. QED BY <1>1, InitInv, StepInv, PTL DEF Spec

\* No retry, requeue, recovery, outage or crash ever leaves a node blocked
\* without a failed or blocked node that it waits for.
THEOREM BlocksAreCaused == Spec => []NoStaleBlock
<1>1. BlockInv => NoStaleBlock
  BY CausedNotStale DEF BlockInv, TypeOK
<1>. QED BY <1>1, InitInv, StepInv, PTL DEF Spec

-----------------------------------------------------------------------------
(* Completed work is on the integration HEAD *)

\* What a queue holds as done has landed, the designs a reset would fall back
\* to included.
LandedIn(q) ==
  \A n \in Node :
    /\ DesignDone(q, n) => <<n, "DESIGN">> \in landed
    /\ q.state[n] \in CompletedStates => <<n, "IMPLEMENT">> \in landed

\* A merge that has landed is not yet completed.
FlightLanded ==
  \A n \in Node : flight[n] = "landed" => <<n, PhaseInFlight(n)>> \in landed

LandedInv == LandedIn(queue) /\ LandedIn(saved) /\ FlightLanded

\* No node is further in p than it is in q.
FewerDone(q, p) ==
  \A n \in Node :
    /\ DesignDone(p, n) => DesignDone(q, n)
    /\ p.state[n] \in CompletedStates => q.state[n] \in CompletedStates

\* What holds no more than a landed queue has landed.
LEMMA LandedFewer ==
  ASSUME NEW q, NEW p, LandedIn(q), FewerDone(q, p)
  PROVE  LandedIn(p)
BY DEF LandedIn, FewerDone

\* The landed tasks only grow, so what has landed stays landed.
LEMMA LandedStays ==
  ASSUME NEW q, LandedIn(q), landed \subseteq landed'
  PROVE  \A n \in Node :
           /\ DesignDone(q, n) => <<n, "DESIGN">> \in landed'
           /\ q.state[n] \in CompletedStates => <<n, "IMPLEMENT">> \in landed'
BY DEF LandedIn

\* Blocking nodes completes nothing.
LEMMA PropagateFewer ==
  ASSUME NEW q \in Queue
  PROVE  FewerDone(q, PropagateDependencyBlocks(q))
BY DEF FewerDone, PropagateDependencyBlocks, BlockNodes, Queue, DesignDone,
       DesignFinishedStates, CompletedStates

\* Releasing a node brings back at most its finished design.
LEMMA ReleaseFewer ==
  ASSUME NEW q \in Queue
  PROVE  FewerDone(q, ReleaseDependencyBlocks(q))
BY DEF FewerDone, ReleaseDependencyBlocks, ReleaseNodes, Queue, DesignDone,
       DesignFinishedStates, CompletedStates

\* A reset keeps a design only if it was finished.
LEMMA ResetNodeFewer ==
  ASSUME NEW q \in Queue, NEW n \in Node, NEW k \in ResetKind,
         k = "implement" => DesignDone(q, n)
  PROVE  FewerDone(q, ResetNode(q, n, k))
<1>1. ResetNode(q, n, k).state =
        [q.state EXCEPT ![n] = IF k = "implement" THEN "DESIGNED" ELSE "UNSEEN"]
  BY ResetNodeState
<1>2. ResetNode(q, n, k).designDone =
        [q.designDone EXCEPT ![n] = IF k = "implement" THEN @ ELSE FALSE]
  BY DEF ResetNode, Queue
<1>. QED BY <1>1, <1>2 DEF FewerDone, Queue, DesignDone, DesignFinishedStates, CompletedStates

\* A retry resets only the implementation of a node whose design is finished.
LEMMA RetryKindDesigned ==
  ASSUME NEW q, NEW n, RetryKind(q, n) = "implement"
  PROVE  DesignDone(q, n)
<1>1. DesignStatusOf(q, n) = "COMPLETED"
  BY DEF RetryKind
<1>. QED BY <1>1 DEF DesignStatusOf, TaskStatus, DesignDone, DesignFinishedStates

\* A reset of any nodes completes nothing.
LEMMA ResetNodesFewer ==
  ASSUME NEW q \in Queue, NEW S \in SUBSET Node
  PROVE  FewerDone(q, ResetNodes(q, S))
<1>. SUFFICES ASSUME NEW n \in Node
              PROVE /\ DesignDone(ResetNodes(q, S), n) => DesignDone(q, n)
                    /\ ResetNodes(q, S).state[n] \in CompletedStates
                         => q.state[n] \in CompletedStates
  BY DEF FewerDone
<1>1. CASE n \in S
  <2>1. RetryKind(q, n) \in ResetKind
    BY RetryKindType
  <2>2. FewerDone(q, ResetNode(q, n, RetryKind(q, n)))
    BY <2>1, RetryKindDesigned, ResetNodeFewer
  <2>3. /\ ResetNodes(q, S).state[n] = ResetNode(q, n, RetryKind(q, n)).state[n]
        /\ ResetNodes(q, S).designDone[n] = ResetNode(q, n, RetryKind(q, n)).designDone[n]
    BY <1>1 DEF ResetNodes
  <2>. QED BY <2>2, <2>3 DEF FewerDone, DesignDone
<1>2. CASE n \notin S
  BY <1>2 DEF ResetNodes, DesignDone
<1>. QED BY <1>1, <1>2

\* Recovery falls back to the state before the task.
LEMMA RecoverFewer ==
  ASSUME NEW q \in Queue
  PROVE  FewerDone(q, RecoverInterrupted(q))
<1>1. \A n \in Node : /\ q.state[n] # "DESIGNING" /\ q.state[n] # "IMPLEMENTING" =>
                           RecoverInterrupted(q).state[n] = q.state[n]
                      /\ q.state[n] = "DESIGNING" =>
                           RecoverInterrupted(q).state[n] = "UNSEEN"
                      /\ q.state[n] = "IMPLEMENTING" =>
                           RecoverInterrupted(q).state[n] = "DESIGNED"
  BY RecoverInterruptedType
<1>2. RecoverInterrupted(q).designDone = q.designDone
  BY DEF RecoverInterrupted, Queue
<1>. QED BY <1>1, <1>2 DEF FewerDone, DesignDone, DesignFinishedStates, CompletedStates

\* An interrupted task falls back to what was finished before it began.
LEMMA InterruptFewer ==
  ASSUME NEW q \in Queue, NEW n \in Node, q.state[n] \in InFlightStates
  PROVE  FewerDone(q, RecoverInterruptedTask(q, n))
<1>1. RecoverInterruptedTask(q, n).state =
        [q.state EXCEPT ![n] = IF q.state[n] = "DESIGNING" THEN "UNSEEN" ELSE "DESIGNED"]
  BY RecoverTaskState
<1>2. RecoverInterruptedTask(q, n).designDone = q.designDone
  BY DEF RecoverInterruptedTask, Queue
<1>. QED BY <1>1, <1>2
         DEF FewerDone, Queue, DesignDone, DesignFinishedStates, CompletedStates, InFlightStates

\* A failure undoes; only a design that was finished before stays finished.
LEMMA FailFewer ==
  ASSUME NEW q \in Queue, NEW n \in Node
  PROVE  FewerDone(q, FailTask(q, n))
<1>1. FailTask(q, n).state = [q.state EXCEPT ![n] = "FAILED"]
  BY FailTaskState
<1>2. FailTask(q, n).designDone = q.designDone
  BY DEF FailTask, Queue
<1>. QED BY <1>1, <1>2 DEF FewerDone, Queue, DesignDone, DesignFinishedStates, CompletedStates

\* A task of node n begins: an implementation only after a finished design.
LEMMA BeginFewer ==
  ASSUME NEW q \in Queue, NEW n \in Node, NEW p \in Phase,
         p = "IMPLEMENT" => DesignDone(q, n)
  PROVE  FewerDone(q, BeginTask(q, n, p))
<1>1. BeginTask(q, n, p).state =
        [q.state EXCEPT ![n] = IF p = "DESIGN" THEN "DESIGNING" ELSE "IMPLEMENTING"]
  BY BeginTaskState
<1>2. BeginTask(q, n, p).designDone = q.designDone
  BY DEF BeginTask, Queue
<1>. QED BY <1>1, <1>2
         DEF FewerDone, Queue, DesignDone, DesignFinishedStates, CompletedStates, Phase

\* The verdict that completes a phase, once its task has landed.
LEMMA CompleteLanded ==
  ASSUME BlockInv, LandedInv, DrainAssumption, NEW n \in Node, flight[n] \in Working,
         CompleteVerdict(n), landed \subseteq landed', <<n, PhaseInFlight(n)>> \in landed'
  PROVE  LandedIn(queue)' /\ LandedIn(saved)'
<1>. DEFINE p == PhaseInFlight(n)
<1>1. /\ queue \in Queue /\ p \in Phase
      /\ queue.state[n] \in InFlightStates
      /\ p = "IMPLEMENT" => queue.state[n] = "IMPLEMENTING"
  BY WorkingNode DEF PhaseInFlight, InFlightStates
<1>2. PICK r \in Results : queue' = CompleteTask(queue, n, p, r) /\ saved' = queue'
  BY DEF CompleteVerdict, Store
<1>3. r \in CompletedStates
  BY DEF DrainAssumption
<1>4. <<n, p>> \in landed'
  OBVIOUS
<1>. HIDE DEF p
<1>5. queue'.state = [queue.state EXCEPT ![n] = IF p = "DESIGN" THEN "DESIGNED" ELSE r]
  BY <1>1, <1>2, <1>3, CompleteTaskState
<1>6. \A m \in Node \ {n} : queue'.designDone[m] = queue.designDone[m]
  BY <1>1, <1>2 DEF CompleteTask, Queue
<1>7. p = "IMPLEMENT" => queue'.designDone = queue.designDone
  BY <1>1, <1>2 DEF CompleteTask, Queue
<1>8. ASSUME NEW m \in Node
      PROVE /\ DesignDone(queue', m) => <<m, "DESIGN">> \in landed'
            /\ queue'.state[m] \in CompletedStates => <<m, "IMPLEMENT">> \in landed'
  <2>1. /\ DesignDone(queue, m) => <<m, "DESIGN">> \in landed'
        /\ queue.state[m] \in CompletedStates => <<m, "IMPLEMENT">> \in landed'
    BY LandedStays DEF LandedInv
  <2>2. CASE m # n
    <3>1. queue'.state[m] = queue.state[m] /\ queue'.designDone[m] = queue.designDone[m]
      BY <1>1, <1>5, <1>6, <2>2 DEF Queue
    <3>. QED BY <2>1, <3>1 DEF DesignDone
  <2>3. CASE m = n /\ p = "DESIGN"
    <3>1. queue'.state[m] = "DESIGNED"
      BY <1>1, <1>5, <2>3 DEF Queue
    <3>. QED BY <1>4, <2>3, <3>1 DEF CompletedStates
  <2>4. CASE m = n /\ p = "IMPLEMENT"
    <3>1. DesignDone(queue, m)
      BY <1>1, <2>4 DEF DesignDone, DesignFinishedStates
    <3>. QED BY <1>4, <2>1, <2>4, <3>1
  <2>. QED BY <1>1, <2>2, <2>3, <2>4 DEF Phase
<1>. QED BY <1>2, <1>8 DEF LandedIn, DesignDone

\* The new queue is no further than the old one or the file, and what is written
\* is one of them.
LEMMA FewerKeeps ==
  ASSUME LandedInv, landed \subseteq landed', FewerDone(queue, queue') \/ FewerDone(saved, queue'),
         saved' \in {saved, queue, queue'}
  PROVE  LandedIn(queue)' /\ LandedIn(saved)'
<1>1. LandedIn(queue')
  BY LandedFewer DEF LandedInv
<1>2. \A n \in Node :
        /\ DesignDone(queue', n) => <<n, "DESIGN">> \in landed'
        /\ queue'.state[n] \in CompletedStates => <<n, "IMPLEMENT">> \in landed'
  BY <1>1, LandedStays
<1>3. \A n \in Node :
        /\ DesignDone(queue, n) => <<n, "DESIGN">> \in landed'
        /\ queue.state[n] \in CompletedStates => <<n, "IMPLEMENT">> \in landed'
  BY LandedStays DEF LandedInv
<1>4. \A n \in Node :
        /\ DesignDone(saved, n) => <<n, "DESIGN">> \in landed'
        /\ saved.state[n] \in CompletedStates => <<n, "IMPLEMENT">> \in landed'
  BY LandedStays DEF LandedInv
<1>. QED BY <1>2, <1>3, <1>4 DEF LandedIn, DesignDone

\* The same queue is no further than itself.
LEMMA FewerSelf == ASSUME NEW q PROVE FewerDone(q, q)
BY DEF FewerDone

\* A merge that has landed waits for its own task: no other step disturbs it.
LEMMA FlightKeeps ==
  ASSUME LandedInv, landed \subseteq landed',
         \A m \in Node : flight'[m] = "landed" =>
            flight[m] = "landed" /\ queue'.state[m] = queue.state[m]
  PROVE  FlightLanded'
BY DEF LandedInv, FlightLanded, PhaseInFlight

\* Every step of a task keeps the invariant: it completes only what has landed.
LEMMA TaskStepLanded ==
  ASSUME BlockInv, LandedInv, DrainAssumption, NEW n \in Node, TaskStep(n)
  PROVE  LandedInv'
<1>1. /\ queue \in Queue /\ saved \in Queue /\ flight \in [Node -> FlightState]
  BY DEF BlockInv, TypeOK
<1>2. flight[n] \in Working => queue.state[n] \in InFlightStates
  BY DEF BlockInv, FlightOwnsState
<1>3. FewerDone(queue, queue)
  BY FewerSelf
<1>4. ASSUME FailVerdict(n)
      PROVE /\ LandedIn(queue)' /\ LandedIn(saved)' /\ landed' = landed
            /\ \A m \in Node \ {n} : queue'.state[m] = queue.state[m]
  <2>1. queue' = FailTask(queue, n) /\ saved' = queue' /\ landed' = landed
    BY <1>4 DEF FailVerdict, Store
  <2>2. FewerDone(queue, queue')
    BY <1>1, <2>1, FailFewer
  <2>. QED BY <1>4, <2>1, <2>2, FewerKeeps, FailVerdictFacts
<1>5. ASSUME NEW to \in FlightState \ {"landed"}, flight' = [flight EXCEPT ![n] = to],
             landed \subseteq landed', LandedIn(queue)', LandedIn(saved)',
             \A m \in Node \ {n} : queue'.state[m] = queue.state[m]
      PROVE LandedInv'
  <2>1. \A m \in Node : flight'[m] = "landed" => m # n /\ flight[m] = "landed"
    BY <1>1, <1>5
  <2>2. FlightLanded'
    BY <1>5, <2>1, FlightKeeps
  <2>. QED BY <1>5, <2>2 DEF LandedInv
<1>6. ASSUME NEW to \in FlightState \ {"landed"}, flight' = [flight EXCEPT ![n] = to],
             landed' = landed, queue' = queue, saved' \in {saved, queue}
      PROVE LandedInv'
  <2>1. LandedIn(queue)' /\ LandedIn(saved)'
    BY <1>3, <1>6, FewerKeeps
  <2>. QED BY <1>5, <1>6, <2>1
<1>7. {"none", "opening", "running", "merging", "resetting", "requeued", "settling", "finished"}
        = FlightState \ {"landed"} /\ AfterVerdict \in FlightState \ {"landed"}
  BY DEF FlightState, AfterVerdict
<1>8. CASE OpenWorkspace(n)
  BY <1>6, <1>7, <1>8 DEF OpenWorkspace, Move, queueVars, recordVars
<1>9. CASE Settle(n)
  BY <1>6, <1>7, <1>9 DEF Settle, Move, queueVars, recordVars
<1>10. CASE SaveRequeue(n)
  BY <1>6, <1>7, <1>10 DEF SaveRequeue, Move, Store, recordVars
<1>11. CASE OpenFails(n)
  BY <1>4, <1>5, <1>7, <1>11 DEF OpenFails, Move
<1>12. CASE PhaseFails(n)
  BY <1>4, <1>5, <1>7, <1>12 DEF PhaseFails, Move
<1>13. CASE MergeErrors(n)
  BY <1>4, <1>5, <1>7, <1>13 DEF MergeErrors, Move
<1>14. CASE RequeueDeclined(n)
  BY <1>4, <1>5, <1>7, <1>14 DEF RequeueDeclined, Move
<1>15. CASE MergeConflicts(n)
  <2>1. CASE RequeueAvailable(n)
    BY <1>6, <1>7, <1>15, <2>1 DEF MergeConflicts, Move, queueVars, recordVars
  <2>2. CASE ~RequeueAvailable(n)
    BY <1>4, <1>5, <1>7, <1>15, <2>2 DEF MergeConflicts, Move
  <2>. QED BY <2>1, <2>2
<1>16. CASE PhaseSucceeds(n)
  <2>1. CASE ParallelMode
    BY <1>6, <1>7, <1>16, <2>1 DEF PhaseSucceeds, Move, queueVars, recordVars
  <2>2. CASE ~ParallelMode
    <3>1. /\ flight[n] = "running" /\ flight' = [flight EXCEPT ![n] = "finished"]
          /\ CompleteVerdict(n) /\ landed' = landed \cup {<<n, PhaseInFlight(n)>>}
      BY <1>16, <2>2 DEF PhaseSucceeds, Move
    <3>2. flight[n] \in Working /\ landed \subseteq landed' /\ <<n, PhaseInFlight(n)>> \in landed'
      BY <3>1 DEF Working
    <3>3. LandedIn(queue)' /\ LandedIn(saved)'
      BY <3>1, <3>2, CompleteLanded
    <3>4. \A m \in Node \ {n} : queue'.state[m] = queue.state[m]
      BY <3>1, <3>2, CompleteVerdictFacts
    <3>. QED BY <1>5, <1>7, <3>1, <3>2, <3>3, <3>4
  <2>. QED BY <2>1, <2>2
<1>17. CASE MergeLands(n)
  <2>1. /\ flight' = [flight EXCEPT ![n] = "landed"] /\ queue' = queue /\ saved' = saved
        /\ landed' = landed \cup {<<n, PhaseInFlight(n)>>}
    BY <1>17 DEF MergeLands, Move, queueVars
  <2>2. LandedIn(queue)' /\ LandedIn(saved)'
    BY <1>3, <2>1, FewerKeeps
  <2>3. FlightLanded'
    BY <1>1, <2>1 DEF LandedInv, FlightLanded, PhaseInFlight
  <2>. QED BY <2>2, <2>3 DEF LandedInv
<1>18. CASE MergeCompletes(n)
  <2>1. /\ flight[n] = "landed" /\ flight' = [flight EXCEPT ![n] = "settling"]
        /\ CompleteVerdict(n) /\ landed' = landed
    BY <1>18 DEF MergeCompletes, Move
  <2>2. flight[n] \in Working /\ <<n, PhaseInFlight(n)>> \in landed'
    BY <2>1 DEF Working, LandedInv, FlightLanded
  <2>3. LandedIn(queue)' /\ LandedIn(saved)'
    BY <2>1, <2>2, CompleteLanded
  <2>4. \A m \in Node \ {n} : queue'.state[m] = queue.state[m]
    BY <2>1, <2>2, CompleteVerdictFacts
  <2>. QED BY <1>5, <1>7, <2>1, <2>3, <2>4
<1>19. CASE Requeue(n)
  <2>. DEFINE k == IF PhaseInFlight(n) = "DESIGN" THEN "design" ELSE "implement"
  <2>1. /\ flight[n] = "resetting" /\ flight' = [flight EXCEPT ![n] = "requeued"]
        /\ queue' = ResetNode(queue, n, k) /\ saved' = saved /\ landed' = landed
    BY <1>19 DEF Requeue, RequeueKind, Move
  <2>2. k \in ResetKind /\ k \in {"design", "implement"} /\ flight[n] \in Working
    BY <2>1 DEF ResetKind, Working
  <2>3. k = "implement" => DesignDone(queue, n)
    BY <1>2, <2>2 DEF PhaseInFlight, DesignDone, DesignFinishedStates, InFlightStates
  <2>. HIDE DEF k
  <2>4. FewerDone(queue, queue')
    BY <1>1, <2>1, <2>2, <2>3, ResetNodeFewer
  <2>5. LandedIn(queue)' /\ LandedIn(saved)'
    BY <2>1, <2>4, FewerKeeps
  <2>6. \A m \in Node \ {n} : queue'.state[m] = queue.state[m]
    BY <2>1, <2>2, RequeueFacts
  <2>. QED BY <1>5, <1>7, <2>1, <2>5, <2>6
<1>20. CASE ObserveOutage(n)
  <2>1. /\ flight[n] = "running" /\ flight' = [flight EXCEPT ![n] = AfterVerdict]
        /\ queue' = RecoverInterruptedTask(queue, n) /\ saved' = queue' /\ landed' = landed
    BY <1>20 DEF ObserveOutage, Move, Store, recordVars
  <2>2. flight[n] \in Working
    BY <2>1 DEF Working
  <2>3. FewerDone(queue, queue')
    BY <1>1, <1>2, <2>1, <2>2, InterruptFewer
  <2>4. LandedIn(queue)' /\ LandedIn(saved)'
    BY <2>1, <2>3, FewerKeeps
  <2>5. \A m \in Node \ {n} : queue'.state[m] = queue.state[m]
    BY <2>1, <2>2, InterruptFacts
  <2>. QED BY <1>5, <1>7, <2>1, <2>4, <2>5
<1>. QED BY <1>8, <1>9, <1>10, <1>11, <1>12, <1>13, <1>14, <1>15, <1>16, <1>17, <1>18,
            <1>19, <1>20 DEF TaskStep

\* The coordinator and the operator complete nothing.
LEMMA OthersLanded ==
  ASSUME BlockInv, LandedInv, DrainAssumption, Coordinate \/ Environment
  PROVE  LandedInv'
<1>1. queue \in Queue /\ saved \in Queue /\ flight \in [Node -> FlightState]
      /\ testFailed \subseteq Node
  BY DEF BlockInv, TypeOK
<1>2. FewerDone(queue, queue) /\ FewerDone(saved, saved)
  BY FewerSelf
<1>3. ASSUME NEW S \in SUBSET Node, LoadAndPrepare(S), ~Running PROVE LandedInv'
  <2>. DEFINE r == RecoverInterrupted(saved)
  <2>1. r \in Queue /\ FewerDone(saved, r)
    BY <1>1, RecoverInterruptedType, RecoverFewer
  <2>. HIDE DEF r
  <2>2. FewerDone(saved, queue')
    <3>1. CASE S = {}
      BY <1>3, <2>1, <3>1 DEF LoadAndPrepare, r
    <3>2. CASE S # {}
      <4>1. queue' = ReleaseDependencyBlocks(ResetNodes(r, S))
        BY <1>3, <3>2 DEF LoadAndPrepare, r
      <4>2. ResetNodes(r, S) \in Queue /\ FewerDone(r, ResetNodes(r, S))
        BY <2>1, ResetNodesType, ResetNodesFewer
      <4>3. FewerDone(ResetNodes(r, S), queue')
        BY <4>1, <4>2, ReleaseFewer
      <4>. QED BY <2>1, <4>2, <4>3 DEF FewerDone
    <3>. QED BY <3>1, <3>2
  <2>3. saved' = saved /\ landed' = landed /\ flight' = flight
    BY <1>3 DEF LoadAndPrepare
  <2>4. \A n \in Node : flight[n] = "none"
    BY <1>3 DEF BlockInv, FlightsInDrain, Running
  <2>5. LandedIn(queue)' /\ LandedIn(saved)'
    BY <2>2, <2>3, FewerKeeps
  <2>6. FlightLanded'
    BY <2>3, <2>4, FlightKeeps
  <2>. QED BY <2>5, <2>6 DEF LandedInv
<1>4. CASE FirstStart
  BY <1>3, <1>4 DEF FirstStart
<1>5. CASE Resume
  <2>1. PICK S \in RetryRequests(RecoverInterrupted(saved)) : LoadAndPrepare(S)
    BY <1>5 DEF Resume
  <2>2. S \in SUBSET Node
    BY DEF RetryRequests, RetryFailedIds, DrainAssumption
  <2>. QED BY <1>3, <1>5, <2>1, <2>2 DEF Resume
<1>6. CASE ResumeUnhealthy
  <2>1. queue' = saved /\ saved' = saved /\ landed' = landed /\ flight' = flight
    BY <1>6 DEF ResumeUnhealthy, recordVars
  <2>2. \A n \in Node : flight[n] = "none"
    BY <1>6 DEF ResumeUnhealthy, BlockInv, FlightsInDrain, Running
  <2>3. LandedIn(queue)' /\ LandedIn(saved)'
    BY <1>2, <2>1, FewerKeeps
  <2>4. FlightLanded'
    BY <2>1, <2>2, FlightKeeps
  <2>. QED BY <2>3, <2>4 DEF LandedInv
<1>7. CASE Crash
  <2>1. queue' = saved /\ saved' = saved /\ landed' = landed
        /\ flight' = [n \in Node |-> "none"]
    BY <1>7 DEF Crash, recordVars
  <2>2. LandedIn(queue)' /\ LandedIn(saved)'
    BY <1>2, <2>1, FewerKeeps
  <2>3. FlightLanded'
    BY <2>1, FlightKeeps
  <2>. QED BY <2>2, <2>3 DEF LandedInv
<1>8. CASE SaveQueue
  <2>1. queue' = queue /\ saved' = queue /\ landed' = landed /\ flight' = flight
    BY <1>8 DEF SaveQueue, Store, recordVars
  <2>2. LandedIn(queue)' /\ LandedIn(saved)' /\ FlightLanded'
    BY <1>2, <2>1, FewerKeeps, FlightKeeps
  <2>. QED BY <2>2 DEF LandedInv
<1>9. CASE Dispatch
  <2>. DEFINE q == PropagateDependencyBlocks(queue)
  <2>1. PICK t \in NextTask(q) :
          /\ Store(BeginTask(q, t[1], t[2]))
          /\ flight' = [flight EXCEPT ![t[1]] = IF ParallelMode THEN "opening" ELSE "running"]
    BY <1>9 DEF Dispatch
  <2>2. q \in Queue /\ FewerDone(queue, q)
    BY <1>1, PropagateFrame, PropagateFewer
  <2>3. /\ t[1] \in Node /\ t[2] \in Phase /\ flight[t[1]] = "none"
        /\ DependenciesMet(q, t[1], t[2])
    BY NextTaskRunnable
  <2>4. \A m \in Node : queue.state[m] \in InFlightStates => q.state[m] = queue.state[m]
    BY <1>1, PropagateFrame
  <2>. HIDE DEF q
  <2>5. t[2] = "IMPLEMENT" => DesignDone(q, t[1])
    <3>1. t[2] = "IMPLEMENT" => DesignStatusOf(q, t[1]) = "COMPLETED"
      BY <2>3 DEF DependenciesMet
    <3>. QED BY <3>1 DEF DesignStatusOf, TaskStatus, DesignDone, DesignFinishedStates
  <2>6. queue' = BeginTask(q, t[1], t[2]) /\ saved' = queue' /\ landed' = landed
    BY <1>9, <2>1 DEF Store, Dispatch, recordVars
  <2>7. FewerDone(queue, queue')
    <3>1. FewerDone(q, queue')
      BY <2>2, <2>3, <2>5, <2>6, BeginFewer
    <3>. QED BY <2>2, <3>1 DEF FewerDone
  <2>8. LandedIn(queue)' /\ LandedIn(saved)'
    BY <2>6, <2>7, FewerKeeps
  <2>9. ASSUME NEW m \in Node, flight'[m] = "landed"
        PROVE flight[m] = "landed" /\ queue'.state[m] = queue.state[m]
    <3>1. m # t[1] /\ flight[m] = "landed"
      BY <1>1, <2>1, <2>9
    <3>2. queue.state[m] \in InFlightStates
      BY <3>1 DEF BlockInv, FlightOwnsState, Working
    <3>3. queue'.state = [q.state EXCEPT ![t[1]] = IF t[2] = "DESIGN" THEN "DESIGNING"
                                                                      ELSE "IMPLEMENTING"]
      BY <2>2, <2>3, <2>6, BeginTaskState
    <3>4. q.state \in [Node -> NodeState]
      BY <2>2 DEF Queue
    <3>5. queue'.state[m] = q.state[m]
      BY <3>1, <3>3, <3>4
    <3>. QED BY <2>4, <3>1, <3>2, <3>5
  <2>10. FlightLanded'
    BY <2>6, <2>9, FlightKeeps
  <2>. QED BY <2>8, <2>10 DEF LandedInv
<1>10. CASE StopRefill
  <2>. DEFINE q == PropagateDependencyBlocks(queue)
  <2>1. /\ (queue' = q /\ saved' = queue') \/ (queue' = queue /\ saved' = saved)
        /\ landed' = landed /\ flight' = flight
    <3>1. Store(q) \/ UNCHANGED queueVars
      BY <1>10 DEF StopRefill
    <3>2. UNCHANGED <<recordVars, flight>>
      BY <1>10 DEF StopRefill
    <3>3. landed' = landed /\ flight' = flight
      BY <3>2 DEF recordVars
    <3>. HIDE DEF q
    <3>4. (queue' = q /\ saved' = queue') \/ (queue' = queue /\ saved' = saved)
      BY <3>1 DEF Store, queueVars
    <3>. QED BY <3>3, <3>4
  <2>2. FewerDone(queue, queue') /\ saved' \in {saved, queue'}
    BY <1>1, <1>2, <2>1, PropagateFewer
  <2>3. \A m \in Node : queue.state[m] \in InFlightStates => q.state[m] = queue.state[m]
    BY <1>1, PropagateFrame
  <2>. HIDE DEF q
  <2>4. LandedIn(queue)' /\ LandedIn(saved)'
    BY <2>1, <2>2, FewerKeeps
  <2>5. \A m \in Node : flight[m] = "landed" => queue'.state[m] = queue.state[m]
    BY <2>1, <2>3 DEF BlockInv, FlightOwnsState, Working
  <2>6. FlightLanded'
    BY <2>1, <2>5, FlightKeeps
  <2>. QED BY <2>4, <2>6 DEF LandedInv
<1>11. CASE Reap
  <2>1. /\ flight' = [n \in Node |-> IF flight[n] = "finished" THEN "none" ELSE flight[n]]
        /\ queue' = queue /\ saved' = saved /\ landed' = landed
    BY <1>11 DEF Reap, queueVars, recordVars
  <2>2. LandedIn(queue)' /\ LandedIn(saved)' /\ FlightLanded'
    BY <1>2, <2>1, FewerKeeps, FlightKeeps
  <2>. QED BY <2>2 DEF LandedInv
<1>12. CASE AutoRetry
  <2>1. /\ coord = "drained" /\ saved' = saved /\ landed' = landed /\ flight' = flight
        /\ queue' = ReleaseDependencyBlocks(ResetNodes(queue, TddRetryIds))
    BY <1>12 DEF AutoRetry
  <2>2. TddRetryIds \in SUBSET Node
    BY <1>1 DEF TddRetryIds
  <2>3. ResetNodes(queue, TddRetryIds) \in Queue
        /\ FewerDone(queue, ResetNodes(queue, TddRetryIds))
    BY <1>1, <2>2, ResetNodesType, ResetNodesFewer
  <2>4. FewerDone(ResetNodes(queue, TddRetryIds), queue')
    BY <2>1, <2>3, ReleaseFewer
  <2>5. FewerDone(queue, queue')
    BY <2>3, <2>4 DEF FewerDone
  <2>6. \A n \in Node : flight[n] = "none"
    BY <2>1 DEF BlockInv, FlightsInDrain
  <2>7. LandedIn(queue)' /\ LandedIn(saved)' /\ FlightLanded'
    BY <2>1, <2>5, <2>6, FewerKeeps, FlightKeeps
  <2>. QED BY <2>7 DEF LandedInv
<1>13. CASE EndRun
  <2>1. queue' = queue /\ saved' = saved /\ landed' = landed /\ flight' = flight
    BY <1>13 DEF EndRun, queueVars, recordVars
  <2>2. LandedIn(queue)' /\ LandedIn(saved)' /\ FlightLanded'
    BY <1>2, <2>1, FewerKeeps, FlightKeeps
  <2>. QED BY <2>2 DEF LandedInv
<1>. QED BY <1>4, <1>5, <1>6, <1>7, <1>8, <1>9, <1>10, <1>11, <1>12, <1>13
         DEF Coordinate, Environment

\* What the saved queue reports as completed is on the integration HEAD, through
\* every merge, requeue, retry and crash: a resume never skips work that was only
\* ever in a worktree (_execute_task, core/queue_state.py).
THEOREM CompletedHasLanded == Spec => []CompletedIsLanded
<1>1. Init => LandedInv
  <2>. SUFFICES ASSUME Init PROVE LandedInv
    OBVIOUS
  <2>1. \A n \in Node : FreshQueue.state[n] = "UNSEEN" /\ FreshQueue.designDone[n] = FALSE
    BY DEF FreshQueue
  <2>2. LandedIn(FreshQueue)
    BY <2>1 DEF LandedIn, DesignDone, DesignFinishedStates, CompletedStates
  <2>. QED BY <2>2 DEF Init, LandedInv, FlightLanded
<1>2. BlockInv /\ LandedInv /\ [Next]_vars => LandedInv'
  <2>. SUFFICES ASSUME BlockInv, LandedInv, [Next]_vars PROVE LandedInv'
    OBVIOUS
  <2>1. CASE UNCHANGED vars
    <3>1. queue' = queue /\ saved' = saved /\ landed' = landed /\ flight' = flight
      BY <2>1 DEF vars, queueVars, recordVars
    <3>2. LandedIn(queue)' /\ LandedIn(saved)' /\ FlightLanded'
      BY <3>1, FewerSelf, FewerKeeps, FlightKeeps
    <3>. QED BY <3>2 DEF LandedInv
  <2>. QED BY <2>1, TaskStepLanded, OthersLanded, DrainAssumption DEF Next
<1>3. BlockInv /\ LandedInv => CompletedIsLanded
  <2>. SUFFICES ASSUME BlockInv, LandedInv, NEW n \in Node, NEW p \in Phase,
                       TaskStatus(saved, n, p) = "COMPLETED"
                PROVE  <<n, p>> \in landed
    BY DEF CompletedIsLanded
  <2>1. p = "DESIGN" => DesignDone(saved, n)
    BY DEF TaskStatus, DesignDone, DesignFinishedStates
  <2>2. p = "IMPLEMENT" => saved.state[n] \in CompletedStates
    BY DEF TaskStatus
  <2>. QED BY <2>1, <2>2 DEF LandedInv, LandedIn, Phase
<1>. QED BY <1>1, <1>2, <1>3, InitInv, StepInv, PTL DEF Spec

-----------------------------------------------------------------------------
(* A task in flight stands on finished work *)

\* A finished design is recorded as such, so that a failure or a block of the
\* node does not forget it.
DesignsRecorded(q) ==
  \A n \in Node : q.state[n] \in DesignFinishedStates => q.designDone[n]

\* In a running process a node is in flight only through its task.
StateOwnsFlight ==
  Running => \A n \in Node : queue.state[n] \in InFlightStates => flight[n] \in Working

StandsInv ==
  DesignsRecorded(queue) /\ DesignsRecorded(saved) /\ StateOwnsFlight /\ PrerequisitesHold

\* Nothing in flight in p is new, and nothing that is finished in q is undone.
Steady(q, p) ==
  \A n \in Node :
    /\ p.state[n] \in InFlightStates => p.state[n] = q.state[n] /\ p.designDone[n] = q.designDone[n]
    /\ DesignStatusOf(q, n) = "COMPLETED" => DesignStatusOf(p, n) = "COMPLETED"
    /\ DesignStatusOf(q, n) = "FAILED" => DesignStatusOf(p, n) = "FAILED"
    /\ ImplementStatusOf(q, n) = "COMPLETED" => ImplementStatusOf(p, n) = "COMPLETED"

\* No task of q is in flight.
Quiet(q) == \A n \in Node : q.state[n] \notin InFlightStates

\* The part of PrerequisitesHold about one node, for any queue.
Stands(q, n) ==
  LET p == IF q.state[n] = "DESIGNING" THEN "DESIGN" ELSE "IMPLEMENT" IN
  /\ DependenciesSatisfied(q, n, p)
  /\ q.state[n] = "IMPLEMENTING" =>
       /\ q.designDone[n]
       /\ \A d \in Descendants[n] : ImplementStatusOf(q, d) = "COMPLETED"
  /\ q.state[n] = "DESIGNING" /\ n \in DOMAIN Parents =>
       DesignStatusOf(q, Parents[n]) \in {"COMPLETED", "FAILED"}

\* The property and its form over single tasks say the same.
LEMMA PrerequisitesAreStands ==
  PrerequisitesHold <=>
    (Running => \A n \in Node : queue.state[n] \in InFlightStates => Stands(queue, n))
BY DEF PrerequisitesHold, Stands, PhaseInFlight

\* Nothing that is finished in q is undone in p, nor a failed design forgotten.
Kept(q, p) ==
  \A n \in Node :
    /\ DesignStatusOf(q, n) = "COMPLETED" => DesignStatusOf(p, n) = "COMPLETED"
    /\ DesignStatusOf(q, n) = "FAILED" => DesignStatusOf(p, n) = "FAILED"
    /\ ImplementStatusOf(q, n) = "COMPLETED" => ImplementStatusOf(p, n) = "COMPLETED"

\* Then a task that the step leaves alone keeps what it stands on.
LEMMA KeptStands ==
  ASSUME NEW q, NEW p, Kept(q, p), NEW n \in Node,
         p.state[n] = q.state[n], p.designDone[n] = q.designDone[n], Stands(q, n)
  PROVE  Stands(p, n)
<1>1. Dependencies[n] \subseteq Node /\ Descendants[n] \subseteq Node
      /\ (n \in DOMAIN Parents => Parents[n] \in Node)
  BY TreeAssumption
<1>. DEFINE ph == IF q.state[n] = "DESIGNING" THEN "DESIGN" ELSE "IMPLEMENT"
<1>2. DependenciesSatisfied(q, n, ph) => DependenciesSatisfied(p, n, ph)
  BY <1>1 DEF DependenciesSatisfied, Kept
<1>. QED BY <1>1, <1>2 DEF Stands, Kept

\* The design and the implementation status of a node, state by state.
LEMMA StatusOf ==
  ASSUME NEW q \in Queue, NEW n \in Node
  PROVE  /\ DesignStatusOf(q, n) = "COMPLETED" <=>
              \/ q.state[n] \in DesignFinishedStates
              \/ q.state[n] \in {"FAILED", "BLOCKED_BY_DEPENDENCY"} /\ q.designDone[n]
         /\ DesignStatusOf(q, n) = "FAILED" <=> q.state[n] = "FAILED" /\ ~q.designDone[n]
         /\ DesignStatusOf(q, n) = "PENDING" <=> q.state[n] = "UNSEEN"
         /\ ImplementStatusOf(q, n) = "COMPLETED" <=> q.state[n] \in CompletedStates
         /\ ImplementStatusOf(q, n) = "PENDING" <=> q.state[n] \in {"UNSEEN", "DESIGNED", "DESIGNING"}
<1>1. q.state[n] \in NodeState
  BY DEF Queue
<1>. QED BY <1>1 DEF DesignStatusOf, ImplementStatusOf, TaskStatus, DesignDone, NodeState,
           DesignFinishedStates, CompletedStates, InFlightStates

\* A step that writes one node: what was finished of it stays finished.
LEMMA OneNodeSteady ==
  ASSUME NEW q \in Queue, NEW p \in Queue, NEW n \in Node, NEW st \in NodeState \ InFlightStates,
         p.state = [q.state EXCEPT ![n] = st], DesignsRecorded(q),
         \A m \in Node \ {n} : p.designDone[m] = q.designDone[m],
         q.state[n] \in InFlightStates,
         q.state[n] = "IMPLEMENTING" =>
           st \in DesignFinishedStates \/ (st = "FAILED" /\ p.designDone[n] = q.designDone[n])
  PROVE  Steady(q, p)
<1>. SUFFICES ASSUME NEW m \in Node
              PROVE /\ p.state[m] \in InFlightStates => p.state[m] = q.state[m] /\ p.designDone[m] = q.designDone[m]
                    /\ DesignStatusOf(q, m) = "COMPLETED" => DesignStatusOf(p, m) = "COMPLETED"
                    /\ DesignStatusOf(q, m) = "FAILED" => DesignStatusOf(p, m) = "FAILED"
                    /\ ImplementStatusOf(q, m) = "COMPLETED" => ImplementStatusOf(p, m) = "COMPLETED"
  BY DEF Steady
<1>1. CASE m # n
  <2>1. p.state[m] = q.state[m] /\ p.designDone[m] = q.designDone[m]
    BY <1>1 DEF Queue
  <2>2. /\ DesignStatusOf(p, m) = DesignStatusOf(q, m)
        /\ ImplementStatusOf(p, m) = ImplementStatusOf(q, m)
    BY <2>1 DEF DesignStatusOf, ImplementStatusOf, TaskStatus, DesignDone
  <2>. QED BY <2>1, <2>2
<1>2. CASE m = n
  <2>1. p.state[n] = st
    BY DEF Queue
  <2>2. q.state[n] = "IMPLEMENTING" => q.designDone[n]
    BY DEF DesignsRecorded, DesignFinishedStates
  <2>3. q.state[n] = "DESIGNING" \/ q.state[n] = "IMPLEMENTING"
    BY DEF InFlightStates
  <2>4. DesignStatusOf(q, n) # "FAILED" /\ ImplementStatusOf(q, n) # "COMPLETED"
    BY <2>3, StatusOf DEF CompletedStates
  <2>5. DesignStatusOf(q, n) = "COMPLETED" => q.state[n] = "IMPLEMENTING"
    BY <2>3, StatusOf DEF DesignFinishedStates, CompletedStates
  <2>6. q.state[n] = "IMPLEMENTING" => DesignStatusOf(p, n) = "COMPLETED"
    BY <2>1, <2>2, StatusOf
  <2>. QED BY <1>2, <2>1, <2>4, <2>5, <2>6
<1>. QED BY <1>1, <1>2

\* Blocking and releasing nodes disturbs nothing in flight and forgets nothing.
LEMMA PropagateSteady ==
  ASSUME NEW q \in Queue, DesignsRecorded(q)
  PROVE  Steady(q, PropagateDependencyBlocks(q)) /\ DesignsRecorded(PropagateDependencyBlocks(q))
<1>. DEFINE p == PropagateDependencyBlocks(q)
<1>1. p \in Queue
  BY PropagateFrame
<1>2. ASSUME NEW n \in Node
      PROVE /\ p.designDone[n] = q.designDone[n]
            /\ \/ p.state[n] = q.state[n]
               \/ p.state[n] = "BLOCKED_BY_DEPENDENCY" /\ q.state[n] \in {"UNSEEN", "DESIGNED"}
  <2>1. p.designDone = q.designDone
    BY DEF PropagateDependencyBlocks, BlockNodes, Queue
  <2>2. p.state[n] = IF n \in NewlyBlocked(q) THEN "BLOCKED_BY_DEPENDENCY" ELSE q.state[n]
    BY DEF PropagateDependencyBlocks, BlockNodes, Queue
  <2>3. n \in NewlyBlocked(q) => Blockable(q, n)
    BY NewlyBlockedCaused DEF Cause
  <2>4. Blockable(q, n) => q.state[n] \in {"UNSEEN", "DESIGNED"}
    <3>1. Blockable(q, n) => q.state[n] \notin InFlightStates
            /\ (DesignStatusOf(q, n) = "PENDING" \/ ImplementStatusOf(q, n) = "PENDING")
      BY DEF Blockable, Phase, DesignStatusOf, ImplementStatusOf
    <3>. QED BY <3>1, StatusOf DEF InFlightStates
  <2>. QED BY <2>1, <2>2, <2>3, <2>4
<1>. HIDE DEF p
<1>3. DesignsRecorded(p)
  BY <1>2 DEF DesignsRecorded, DesignFinishedStates, CompletedStates
<1>4. ASSUME NEW n \in Node
      PROVE /\ p.state[n] \in InFlightStates => p.state[n] = q.state[n] /\ p.designDone[n] = q.designDone[n]
            /\ DesignStatusOf(q, n) = "COMPLETED" => DesignStatusOf(p, n) = "COMPLETED"
            /\ DesignStatusOf(q, n) = "FAILED" => DesignStatusOf(p, n) = "FAILED"
            /\ ImplementStatusOf(q, n) = "COMPLETED" => ImplementStatusOf(p, n) = "COMPLETED"
  <2>1. CASE p.state[n] = q.state[n]
    BY <1>1, <1>2, <2>1, StatusOf
  <2>2. CASE p.state[n] = "BLOCKED_BY_DEPENDENCY" /\ q.state[n] \in {"UNSEEN", "DESIGNED"}
    <3>1. q.state[n] = "DESIGNED" => q.designDone[n]
      BY DEF DesignsRecorded, DesignFinishedStates
    <3>2. p.designDone[n] = q.designDone[n]
      BY <1>2
    <3>3. DesignStatusOf(q, n) = "COMPLETED" => q.state[n] = "DESIGNED"
      BY <2>2, StatusOf DEF DesignFinishedStates, CompletedStates
    <3>4. q.state[n] = "DESIGNED" => DesignStatusOf(p, n) = "COMPLETED"
      BY <1>1, <2>2, <3>1, <3>2, StatusOf
    <3>5. DesignStatusOf(q, n) # "FAILED" /\ ImplementStatusOf(q, n) # "COMPLETED"
      BY <2>2, StatusOf DEF CompletedStates
    <3>. QED BY <2>2, <3>3, <3>4, <3>5 DEF InFlightStates
  <2>. QED BY <1>2, <2>1, <2>2
<1>. QED BY <1>3, <1>4 DEF Steady, p

\* Releasing, resetting and recovering keep the record of designs.
LEMMA ReleaseRecords ==
  ASSUME NEW q \in Queue, DesignsRecorded(q)
  PROVE  DesignsRecorded(ReleaseDependencyBlocks(q))
<1>. DEFINE p == ReleaseDependencyBlocks(q)
<1>1. p.designDone = q.designDone
  BY DEF ReleaseDependencyBlocks, ReleaseNodes, Queue
<1>2. \A n \in Node : p.state[n] = IF n \notin Released(q) THEN q.state[n]
                                  ELSE IF DesignDone(q, n) THEN "DESIGNED" ELSE "UNSEEN"
  BY DEF ReleaseDependencyBlocks, ReleaseNodes, Queue
<1>. HIDE DEF p
<1>3. ASSUME NEW n \in Node, p.state[n] \in DesignFinishedStates
      PROVE  p.designDone[n]
  <2>1. CASE n \notin Released(q)
    BY <1>1, <1>2, <1>3, <2>1 DEF DesignsRecorded
  <2>2. CASE n \in Released(q)
    <3>1. DesignDone(q, n)
      BY <1>2, <1>3, <2>2 DEF DesignFinishedStates, CompletedStates
    <3>2. q.designDone[n]
      BY <3>1 DEF DesignDone, DesignsRecorded
    <3>. QED BY <1>1, <3>2
  <2>. QED BY <2>1, <2>2
<1>4. DesignsRecorded(p)
  BY <1>3 DEF DesignsRecorded
<1>. QED BY <1>4 DEF p

\* Releasing nodes leaves what is in flight in flight.
LEMMA ReleaseQuiet ==
  ASSUME NEW q \in Queue, Quiet(q)
  PROVE  Quiet(ReleaseDependencyBlocks(q))
BY DEF Quiet, ReleaseDependencyBlocks, ReleaseNodes, Queue, InFlightStates

\* A reset of any nodes keeps the record of finished designs.
LEMMA ResetNodesRecords ==
  ASSUME NEW q \in Queue, NEW S \in SUBSET Node, DesignsRecorded(q)
  PROVE  DesignsRecorded(ResetNodes(q, S)) /\ (Quiet(q) => Quiet(ResetNodes(q, S)))
<1>1. ASSUME NEW n \in Node
      PROVE /\ ResetNodes(q, S).state[n] \in DesignFinishedStates => ResetNodes(q, S).designDone[n]
            /\ q.state[n] \notin InFlightStates => ResetNodes(q, S).state[n] \notin InFlightStates
  <2>. DEFINE k == RetryKind(q, n)
  <2>1. CASE n \notin S
    BY <2>1 DEF ResetNodes, DesignsRecorded
  <2>2. CASE n \in S
    <3>1. k \in ResetKind /\ (k = "implement" => DesignDone(q, n))
      BY RetryKindType, RetryKindDesigned
    <3>2. /\ ResetNodes(q, S).state[n] = ResetNode(q, n, k).state[n]
          /\ ResetNodes(q, S).designDone[n] = ResetNode(q, n, k).designDone[n]
      BY <2>2 DEF ResetNodes
    <3>. HIDE DEF k
    <3>3. /\ ResetNode(q, n, k).state[n] = IF k = "implement" THEN "DESIGNED" ELSE "UNSEEN"
          /\ ResetNode(q, n, k).designDone[n] = IF k = "implement" THEN q.designDone[n] ELSE FALSE
      BY DEF ResetNode, Queue
    <3>4. k = "implement" => q.designDone[n]
      BY <3>1 DEF DesignDone, DesignsRecorded
    <3>. QED BY <3>2, <3>3, <3>4 DEF DesignFinishedStates, CompletedStates, InFlightStates
  <2>. QED BY <2>1, <2>2
<1>. QED BY <1>1 DEF DesignsRecorded, Quiet

\* Recovery after a crash keeps the record of finished designs.
LEMMA RecoverRecords ==
  ASSUME NEW q \in Queue, DesignsRecorded(q)
  PROVE  DesignsRecorded(RecoverInterrupted(q)) /\ Quiet(RecoverInterrupted(q))
<1>1. \A n \in Node : /\ q.state[n] # "DESIGNING" /\ q.state[n] # "IMPLEMENTING" =>
                           RecoverInterrupted(q).state[n] = q.state[n]
                      /\ q.state[n] = "DESIGNING" =>
                           RecoverInterrupted(q).state[n] = "UNSEEN"
                      /\ q.state[n] = "IMPLEMENTING" =>
                           RecoverInterrupted(q).state[n] = "DESIGNED"
  BY RecoverInterruptedType
<1>2. RecoverInterrupted(q).designDone = q.designDone
  BY DEF RecoverInterrupted, Queue
<1>. QED BY <1>1, <1>2
         DEF DesignsRecorded, Quiet, DesignFinishedStates, CompletedStates, InFlightStates

\* The verdicts and the ways back, as steps of one node that was in flight.
LEMMA FailSteady ==
  ASSUME NEW q \in Queue, NEW n \in Node, q.state[n] \in InFlightStates, DesignsRecorded(q)
  PROVE  LET p == FailTask(q, n) IN
         Steady(q, p) /\ DesignsRecorded(p) /\ p.state[n] \notin InFlightStates
<1>. DEFINE p == FailTask(q, n)
<1>1. p \in Queue /\ p.state = [q.state EXCEPT ![n] = "FAILED"]
  BY FailTaskType, FailTaskState
<1>2. p.designDone = q.designDone
  BY DEF FailTask, Queue
<1>. HIDE DEF p
<1>3. "FAILED" \in NodeState \ InFlightStates
  BY DEF NodeState, InFlightStates
<1>4. Steady(q, p)
  BY <1>1, <1>2, <1>3, OneNodeSteady
<1>5. DesignsRecorded(p) /\ p.state[n] \notin InFlightStates
  BY <1>1, <1>2 DEF DesignsRecorded, Queue, DesignFinishedStates, CompletedStates, InFlightStates
<1>. QED BY <1>4, <1>5 DEF p

\* Interrupting a task disturbs no other task in flight.
LEMMA InterruptSteady ==
  ASSUME NEW q \in Queue, NEW n \in Node, q.state[n] \in InFlightStates, DesignsRecorded(q)
  PROVE  LET p == RecoverInterruptedTask(q, n) IN
         Steady(q, p) /\ DesignsRecorded(p) /\ p.state[n] \notin InFlightStates
<1>. DEFINE p == RecoverInterruptedTask(q, n)
            st == IF q.state[n] = "DESIGNING" THEN "UNSEEN" ELSE "DESIGNED"
<1>1. p \in Queue /\ p.state = [q.state EXCEPT ![n] = st]
  BY RecoverTaskType, RecoverTaskState
<1>2. p.designDone = q.designDone
  BY DEF RecoverInterruptedTask, Queue
<1>. HIDE DEF p
<1>3. st \in NodeState \ InFlightStates
      /\ (q.state[n] = "IMPLEMENTING" => st \in DesignFinishedStates)
  BY DEF NodeState, InFlightStates, DesignFinishedStates
<1>4. Steady(q, p)
  BY <1>1, <1>2, <1>3, OneNodeSteady
<1>5. st = "DESIGNED" => q.designDone[n]
  BY DEF DesignsRecorded, DesignFinishedStates, InFlightStates
<1>6. st \in DesignFinishedStates => st = "DESIGNED"
  BY DEF DesignFinishedStates, CompletedStates
<1>. HIDE DEF st
<1>7. DesignsRecorded(p) /\ p.state[n] \notin InFlightStates
  BY <1>1, <1>2, <1>3, <1>5, <1>6 DEF DesignsRecorded, Queue
<1>. QED BY <1>4, <1>7 DEF p

\* Requeueing a task after a conflict disturbs no other task in flight.
LEMMA RequeueSteady ==
  ASSUME NEW q \in Queue, NEW n \in Node, NEW k \in {"design", "implement"},
         q.state[n] = (IF k = "design" THEN "DESIGNING" ELSE "IMPLEMENTING"), DesignsRecorded(q)
  PROVE  LET p == ResetNode(q, n, k) IN
         Steady(q, p) /\ DesignsRecorded(p) /\ p.state[n] \notin InFlightStates
<1>. DEFINE p == ResetNode(q, n, k)
            st == IF k = "implement" THEN "DESIGNED" ELSE "UNSEEN"
<1>1. k \in ResetKind
  BY DEF ResetKind
<1>2. p \in Queue /\ p.state = [q.state EXCEPT ![n] = st]
  BY <1>1, ResetNodeType, ResetNodeState
<1>3. p.designDone = [q.designDone EXCEPT ![n] = IF k = "implement" THEN @ ELSE FALSE]
  BY DEF ResetNode, Queue
<1>. HIDE DEF p
<1>4. /\ st \in NodeState \ InFlightStates /\ q.state[n] \in InFlightStates
      /\ (q.state[n] = "IMPLEMENTING" => st \in DesignFinishedStates)
  BY DEF NodeState, InFlightStates, DesignFinishedStates
<1>5. \A m \in Node \ {n} : p.designDone[m] = q.designDone[m]
  BY <1>3 DEF Queue
<1>6. Steady(q, p)
  BY <1>2, <1>4, <1>5, OneNodeSteady
<1>7. st = "DESIGNED" => q.designDone[n] /\ p.designDone[n] = q.designDone[n]
  <2>1. st = "DESIGNED" => k = "implement" /\ q.state[n] \in DesignFinishedStates
    BY DEF DesignFinishedStates
  <2>. QED BY <1>3, <2>1 DEF DesignsRecorded, Queue
<1>8. st \in DesignFinishedStates => st = "DESIGNED"
  BY DEF DesignFinishedStates, CompletedStates
<1>. HIDE DEF st
<1>9. DesignsRecorded(p) /\ p.state[n] \notin InFlightStates
  <2>1. p.state[n] = st /\ \A m \in Node \ {n} : p.state[m] = q.state[m]
    BY <1>2 DEF Queue
  <2>. QED BY <1>4, <1>5, <1>7, <1>8, <2>1 DEF DesignsRecorded
<1>. QED BY <1>6, <1>9 DEF p

\* Completing a task forgets nothing that another stands on.
LEMMA CompleteSteady ==
  ASSUME NEW q \in Queue, NEW n \in Node, NEW r \in CompletedStates, NEW ph \in Phase,
         q.state[n] = (IF ph = "DESIGN" THEN "DESIGNING" ELSE "IMPLEMENTING"), DesignsRecorded(q)
  PROVE  LET p == CompleteTask(q, n, ph, r) IN
         Steady(q, p) /\ DesignsRecorded(p) /\ p.state[n] \notin InFlightStates
<1>. DEFINE p == CompleteTask(q, n, ph, r)
            st == IF ph = "DESIGN" THEN "DESIGNED" ELSE r
<1>1. p \in Queue /\ p.state = [q.state EXCEPT ![n] = st]
  BY CompleteTaskType, CompleteTaskState
<1>2. /\ ph = "DESIGN" => p.designDone = [q.designDone EXCEPT ![n] = TRUE]
      /\ ph = "IMPLEMENT" => p.designDone = q.designDone
  BY DEF CompleteTask, Queue
<1>. HIDE DEF p
<1>3. /\ st \in NodeState \ InFlightStates /\ q.state[n] \in InFlightStates
      /\ st \in DesignFinishedStates
  BY DEF NodeState, InFlightStates, DesignFinishedStates, CompletedStates
<1>4. \A m \in Node \ {n} : p.designDone[m] = q.designDone[m]
  BY <1>2 DEF Queue, Phase
<1>5. Steady(q, p)
  BY <1>1, <1>3, <1>4, OneNodeSteady
<1>6. p.designDone[n]
  <2>1. CASE ph = "DESIGN"
    BY <1>2, <2>1 DEF Queue
  <2>2. CASE ph = "IMPLEMENT"
    BY <1>2, <2>2 DEF DesignsRecorded, DesignFinishedStates
  <2>. QED BY <2>1, <2>2 DEF Phase
<1>. HIDE DEF st
<1>7. p.state[n] = st /\ \A m \in Node \ {n} : p.state[m] = q.state[m]
  BY <1>1 DEF Queue
<1>8. DesignsRecorded(p) /\ p.state[n] \notin InFlightStates
  BY <1>3, <1>4, <1>6, <1>7 DEF DesignsRecorded
<1>. QED BY <1>5, <1>8 DEF p

\* A task that begins stands on what the scheduler saw finished.
LEMMA BeginStands ==
  ASSUME NEW q \in Queue, NEW n \in Node, NEW ph \in Phase, DesignsRecorded(q),
         TaskStatus(q, n, ph) = "PENDING", DependenciesMet(q, n, ph)
  PROVE  LET p == BeginTask(q, n, ph) IN
         /\ Kept(q, p) /\ DesignsRecorded(p) /\ Stands(p, n)
         /\ p.designDone = q.designDone /\ \A m \in Node \ {n} : p.state[m] = q.state[m]
<1>. DEFINE p == BeginTask(q, n, ph)
            st == IF ph = "DESIGN" THEN "DESIGNING" ELSE "IMPLEMENTING"
<1>1. p \in Queue /\ p.state = [q.state EXCEPT ![n] = st]
  BY BeginTaskType, BeginTaskState
<1>2. p.designDone = q.designDone
  BY DEF BeginTask, Queue
<1>. HIDE DEF p
<1>3. p.state[n] = st /\ \A m \in Node \ {n} : p.state[m] = q.state[m]
  BY <1>1 DEF Queue
<1>4. ph = "DESIGN" => q.state[n] = "UNSEEN"
  BY StatusOf DEF DesignStatusOf
<1>5. ph = "IMPLEMENT" => q.state[n] = "DESIGNED" /\ q.designDone[n]
  <2>. SUFFICES ASSUME ph = "IMPLEMENT" PROVE q.state[n] = "DESIGNED" /\ q.designDone[n]
    OBVIOUS
  <2>1. ImplementStatusOf(q, n) = "PENDING" /\ DesignStatusOf(q, n) = "COMPLETED"
    BY DEF ImplementStatusOf, DependenciesMet
  <2>2. q.state[n] = "DESIGNED"
    BY <2>1, StatusOf DEF DesignFinishedStates, CompletedStates
  <2>. QED BY <2>2 DEF DesignsRecorded, DesignFinishedStates
<1>6. Kept(q, p)
  <2>. SUFFICES ASSUME NEW m \in Node
                PROVE /\ DesignStatusOf(q, m) = "COMPLETED" => DesignStatusOf(p, m) = "COMPLETED"
                      /\ DesignStatusOf(q, m) = "FAILED" => DesignStatusOf(p, m) = "FAILED"
                      /\ ImplementStatusOf(q, m) = "COMPLETED" => ImplementStatusOf(p, m) = "COMPLETED"
    BY DEF Kept
  <2>1. CASE m # n
    BY <1>2, <1>3, <2>1 DEF DesignStatusOf, ImplementStatusOf, TaskStatus, DesignDone
  <2>2. CASE m = n /\ ph = "DESIGN"
    <3>1. q.state[m] = "UNSEEN"
      BY <1>4, <2>2
    <3>. QED BY <3>1, StatusOf DEF DesignFinishedStates, CompletedStates
  <2>3. CASE m = n /\ ph = "IMPLEMENT"
    <3>1. q.state[m] = "DESIGNED" /\ p.state[m] = "IMPLEMENTING"
      BY <1>3, <1>5, <2>3
    <3>2. DesignStatusOf(p, m) = "COMPLETED"
      BY <1>1, <3>1, StatusOf DEF DesignFinishedStates
    <3>3. DesignStatusOf(q, m) # "FAILED" /\ ImplementStatusOf(q, m) # "COMPLETED"
      BY <3>1, StatusOf DEF CompletedStates
    <3>. QED BY <3>2, <3>3
  <2>. QED BY <2>1, <2>2, <2>3 DEF Phase
<1>7. DesignsRecorded(p)
  <2>1. st \in DesignFinishedStates => q.designDone[n]
    BY <1>5 DEF DesignFinishedStates, CompletedStates, Phase
  <2>. QED BY <1>2, <1>3, <2>1 DEF DesignsRecorded
<1>8. Stands(p, n)
  <2>1. Dependencies[n] \subseteq Node /\ Descendants[n] \subseteq Node
        /\ (n \in DOMAIN Parents => Parents[n] \in Node)
    BY TreeAssumption
  <2>2. ph = (IF p.state[n] = "DESIGNING" THEN "DESIGN" ELSE "IMPLEMENT")
    BY <1>3 DEF Phase
  <2>3. DependenciesSatisfied(p, n, ph)
    BY <1>6, <2>1 DEF DependenciesMet, DependenciesSatisfied, Kept
  <2>4. p.state[n] = "IMPLEMENTING" =>
          p.designDone[n] /\ \A d \in Descendants[n] : ImplementStatusOf(p, d) = "COMPLETED"
    <3>1. p.state[n] = "IMPLEMENTING" => ph = "IMPLEMENT"
      BY <1>3 DEF Phase
    <3>. QED BY <1>2, <1>5, <1>6, <2>1, <3>1 DEF DependenciesMet, Kept
  <2>5. p.state[n] = "DESIGNING" /\ n \in DOMAIN Parents =>
          DesignStatusOf(p, Parents[n]) \in {"COMPLETED", "FAILED"}
    <3>1. p.state[n] = "DESIGNING" => ph = "DESIGN"
      BY <2>2
    <3>. QED BY <1>6, <2>1, <3>1 DEF DependenciesMet, Kept
  <2>6. DependenciesSatisfied(p, n, IF p.state[n] = "DESIGNING" THEN "DESIGN" ELSE "IMPLEMENT")
    BY <2>2, <2>3
  <2>. QED BY <2>4, <2>5, <2>6 DEF Stands
<1>. QED BY <1>2, <1>3, <1>6, <1>7, <1>8 DEF p

\* A steady step of the queue keeps every task standing, while the process runs.
LEMMA SteadyKeeps ==
  ASSUME BlockInv, StandsInv, Running, Steady(queue, queue')
  PROVE  \A n \in Node : queue'.state[n] \in InFlightStates => Stands(queue', n)
<1>1. Kept(queue, queue')
  BY DEF Kept, Steady
<1>. SUFFICES ASSUME NEW n \in Node, queue'.state[n] \in InFlightStates PROVE Stands(queue', n)
  OBVIOUS
<1>2. queue'.state[n] = queue.state[n] /\ queue'.designDone[n] = queue.designDone[n]
  BY DEF Steady
<1>3. Stands(queue, n)
  BY <1>2, PrerequisitesAreStands DEF StandsInv
<1>. QED BY <1>1, <1>2, <1>3, KeptStands

\* The invariant in the next state, from the queue alone.
LEMMA StandsNext ==
  ASSUME DesignsRecorded(queue'), saved' = saved \/ saved' = queue' \/ saved' = queue,
         StandsInv,
         Running' => \A n \in Node : queue'.state[n] \in InFlightStates =>
                       Stands(queue', n) /\ flight'[n] \in Working
  PROVE  StandsInv'
<1>1. DesignsRecorded(queue)' /\ DesignsRecorded(saved)'
  BY DEF DesignsRecorded, StandsInv
<1>2. StateOwnsFlight'
  BY DEF StateOwnsFlight
<1>3. PrerequisitesHold'
  <2>1. Running' => \A n \in Node : queue'.state[n] \in InFlightStates => Stands(queue, n)'
    BY DEF Stands, DependenciesSatisfied, DesignStatusOf, ImplementStatusOf, TaskStatus, DesignDone
  <2>. QED BY <2>1 DEF PrerequisitesHold, Stands, PhaseInFlight
<1>. QED BY <1>1, <1>2, <1>3 DEF StandsInv

\* A queue that does not change is steady.
LEMMA SteadySelf ==
  ASSUME NEW q PROVE Steady(q, q)
BY DEF Steady

\* What is finished in q is finished in p.
DoneIn(q, p) ==
  \A n \in Node :
    /\ DesignStatusOf(q, n) = "COMPLETED" => DesignStatusOf(p, n) = "COMPLETED"
    /\ ImplementStatusOf(q, n) = "COMPLETED" => ImplementStatusOf(p, n) = "COMPLETED"

\* A step that undoes nothing finished, and finishes nothing that it does not save.
KeepsDone ==
  /\ DoneIn(queue, queue')
  /\ saved' = queue' \/ (saved' \in {saved, queue} /\ DoneIn(queue', queue))

\* Finished work is finished where it is carried on.
LEMMA DoneTransitive ==
  ASSUME NEW q, NEW p, NEW r, DoneIn(q, p), DoneIn(p, r)
  PROVE  DoneIn(q, r)
BY DEF DoneIn

\* A queue holds what it holds, and what a steady step leaves.
LEMMA SteadyDone ==
  ASSUME NEW q, NEW p
  PROVE  DoneIn(q, q) /\ (Steady(q, p) => DoneIn(q, p)) /\ (Kept(q, p) => DoneIn(q, p))
BY DEF DoneIn, Steady, Kept

\* A reset of one running task finishes nothing: its design, if it keeps it, was
\* finished before.
LEMMA RequeueDone ==
  ASSUME NEW q \in Queue, NEW n \in Node, NEW k \in {"design", "implement"},
         q.state[n] = (IF k = "design" THEN "DESIGNING" ELSE "IMPLEMENTING")
  PROVE  DoneIn(ResetNode(q, n, k), q)
<1>. DEFINE p == ResetNode(q, n, k)
<1>1. k \in ResetKind
  BY DEF ResetKind
<1>2. p \in Queue /\ p.state = [q.state EXCEPT ![n] = IF k = "implement" THEN "DESIGNED" ELSE "UNSEEN"]
  BY <1>1, ResetNodeType, ResetNodeState
<1>3. p.designDone = [q.designDone EXCEPT ![n] = IF k = "implement" THEN @ ELSE FALSE]
  BY DEF ResetNode, Queue
<1>. HIDE DEF p
<1>4. ASSUME NEW m \in Node
      PROVE /\ DesignStatusOf(p, m) = "COMPLETED" => DesignStatusOf(q, m) = "COMPLETED"
            /\ ImplementStatusOf(p, m) = "COMPLETED" => ImplementStatusOf(q, m) = "COMPLETED"
  <2>1. CASE m # n
    <3>1. p.state[m] = q.state[m] /\ p.designDone[m] = q.designDone[m]
      BY <1>2, <1>3, <2>1 DEF Queue
    <3>. QED BY <3>1 DEF DesignStatusOf, ImplementStatusOf, TaskStatus, DesignDone
  <2>2. CASE m = n
    <3>1. p.state[m] = IF k = "implement" THEN "DESIGNED" ELSE "UNSEEN"
      BY <1>2, <2>2 DEF Queue
    <3>2. ImplementStatusOf(p, m) # "COMPLETED"
      BY <1>2, <3>1, StatusOf DEF CompletedStates
    <3>3. DesignStatusOf(p, m) = "COMPLETED" => q.state[m] = "IMPLEMENTING"
      BY <1>2, <2>2, <3>1, StatusOf DEF DesignFinishedStates, CompletedStates
    <3>4. q.state[m] = "IMPLEMENTING" => DesignStatusOf(q, m) = "COMPLETED"
      BY StatusOf DEF DesignFinishedStates
    <3>. QED BY <3>2, <3>3, <3>4
  <2>. QED BY <2>1, <2>2
<1>. QED BY <1>4 DEF DoneIn, p

\* Releasing blocks neither finishes nor undoes anything: a released node was
\* blocked, and goes back to the design it has.
LEMMA ReleaseDone ==
  ASSUME NEW q \in Queue
  PROVE  DoneIn(q, ReleaseDependencyBlocks(q)) /\ DoneIn(ReleaseDependencyBlocks(q), q)
<1>. DEFINE p == ReleaseDependencyBlocks(q)
<1>1. p \in Queue
  BY ReleaseNodesType DEF ReleaseDependencyBlocks, Released
<1>2. p.designDone = q.designDone
  BY DEF ReleaseDependencyBlocks, ReleaseNodes, Queue
<1>3. \A n \in Node : p.state[n] = IF n \notin Released(q) THEN q.state[n]
                                  ELSE IF DesignDone(q, n) THEN "DESIGNED" ELSE "UNSEEN"
  BY DEF ReleaseDependencyBlocks, ReleaseNodes, Queue
<1>. HIDE DEF p
<1>4. ASSUME NEW n \in Node
      PROVE /\ DesignStatusOf(p, n) = "COMPLETED" <=> DesignStatusOf(q, n) = "COMPLETED"
            /\ ImplementStatusOf(p, n) = "COMPLETED" <=> ImplementStatusOf(q, n) = "COMPLETED"
  <2>1. CASE n \notin Released(q)
    <3>1. p.state[n] = q.state[n] /\ p.designDone[n] = q.designDone[n]
      BY <1>2, <1>3, <2>1
    <3>. QED BY <3>1 DEF DesignStatusOf, ImplementStatusOf, TaskStatus, DesignDone
  <2>2. CASE n \in Released(q)
    <3>1. q.state[n] = "BLOCKED_BY_DEPENDENCY"
      BY <2>2, ReleasedWereBlocked
    <3>2. DesignDone(q, n) <=> q.designDone[n]
      BY <3>1 DEF DesignDone, DesignFinishedStates, CompletedStates
    <3>3. p.state[n] = IF q.designDone[n] THEN "DESIGNED" ELSE "UNSEEN"
      BY <1>3, <2>2, <3>2
    <3>4. DesignStatusOf(q, n) = "COMPLETED" <=> q.designDone[n]
      BY <3>1, StatusOf DEF DesignFinishedStates, CompletedStates
    <3>5. DesignStatusOf(p, n) = "COMPLETED" <=> q.designDone[n]
      BY <1>1, <3>3, StatusOf DEF DesignFinishedStates, CompletedStates
    <3>6. ImplementStatusOf(q, n) # "COMPLETED" /\ ImplementStatusOf(p, n) # "COMPLETED"
      BY <1>1, <3>1, <3>3, StatusOf DEF CompletedStates
    <3>. QED BY <3>4, <3>5, <3>6
  <2>. QED BY <2>1, <2>2
<1>. QED BY <1>4 DEF DoneIn, p

\* A retry finishes nothing, and of failed nodes it undoes nothing: one whose
\* design is finished is reset to that design.
LEMMA ResetNodesDone ==
  ASSUME NEW q \in Queue, NEW S \in SUBSET Node
  PROVE  /\ DoneIn(ResetNodes(q, S), q)
         /\ (\A n \in S : q.state[n] = "FAILED") => DoneIn(q, ResetNodes(q, S))
<1>. DEFINE p == ResetNodes(q, S)
<1>1. p \in Queue
  BY ResetNodesType
<1>2. ASSUME NEW n \in Node \ S
      PROVE /\ DesignStatusOf(p, n) = DesignStatusOf(q, n)
            /\ ImplementStatusOf(p, n) = ImplementStatusOf(q, n)
  <2>1. p.state[n] = q.state[n] /\ p.designDone[n] = q.designDone[n]
    BY DEF ResetNodes
  <2>. QED BY <2>1 DEF DesignStatusOf, ImplementStatusOf, TaskStatus, DesignDone
<1>3. ASSUME NEW n \in S
      PROVE /\ p.state[n] = IF RetryKind(q, n) = "implement" THEN "DESIGNED" ELSE "UNSEEN"
            /\ RetryKind(q, n) = "implement" => DesignStatusOf(q, n) = "COMPLETED"
            /\ q.state[n] = "FAILED" /\ DesignStatusOf(q, n) = "COMPLETED" => RetryKind(q, n) = "implement"
  <2>1. n \in Node /\ RetryKind(q, n) \in ResetKind
    BY RetryKindType
  <2>2. p.state[n] = ResetNode(q, n, RetryKind(q, n)).state[n]
    BY DEF ResetNodes
  <2>3. ResetNode(q, n, RetryKind(q, n)).state[n] =
          IF RetryKind(q, n) = "implement" THEN "DESIGNED" ELSE "UNSEEN"
    BY <2>1 DEF ResetNode, Queue
  <2>4. q.state[n] = "FAILED" => ImplementStatusOf(q, n) = "FAILED"
    BY DEF ImplementStatusOf, TaskStatus, CompletedStates
  <2>. QED BY <2>2, <2>3, <2>4 DEF RetryKind
<1>. HIDE DEF p
<1>4. ASSUME NEW n \in S
      PROVE /\ ImplementStatusOf(p, n) # "COMPLETED"
            /\ DesignStatusOf(p, n) = "COMPLETED" <=> RetryKind(q, n) = "implement"
            /\ q.state[n] = "FAILED" => ImplementStatusOf(q, n) # "COMPLETED"
  <2>1. n \in Node
    OBVIOUS
  <2>2. p.state[n] = IF RetryKind(q, n) = "implement" THEN "DESIGNED" ELSE "UNSEEN"
    BY <1>3
  <2>3. ImplementStatusOf(p, n) # "COMPLETED"
    BY <1>1, <2>1, <2>2, StatusOf DEF CompletedStates
  <2>4. DesignStatusOf(p, n) = "COMPLETED" <=> RetryKind(q, n) = "implement"
    BY <1>1, <2>1, <2>2, StatusOf DEF DesignFinishedStates, CompletedStates
  <2>5. q.state[n] = "FAILED" => ImplementStatusOf(q, n) # "COMPLETED"
    BY <2>1, StatusOf DEF CompletedStates
  <2>. QED BY <2>3, <2>4, <2>5
<1>5. DoneIn(p, q)
  BY <1>2, <1>3, <1>4 DEF DoneIn
<1>6. (\A n \in S : q.state[n] = "FAILED") => DoneIn(q, p)
  BY <1>2, <1>3, <1>4 DEF DoneIn
<1>. QED BY <1>5, <1>6 DEF p

\* Recovery finishes nothing.
LEMMA RecoverDone ==
  ASSUME NEW q \in Queue
  PROVE  DoneIn(RecoverInterrupted(q), q)
<1>. DEFINE p == RecoverInterrupted(q)
<1>1. /\ p \in Queue
      /\ \A n \in Node :
           /\ q.state[n] \notin {"DESIGNING", "IMPLEMENTING"} =>
                p.state[n] = q.state[n]
           /\ q.state[n] = "DESIGNING" => p.state[n] = "UNSEEN"
           /\ q.state[n] = "IMPLEMENTING" => p.state[n] = "DESIGNED"
  BY RecoverInterruptedType
<1>2. p.designDone = q.designDone
  BY DEF RecoverInterrupted, Queue
<1>. HIDE DEF p
<1>3. ASSUME NEW n \in Node
      PROVE /\ DesignStatusOf(p, n) = "COMPLETED" => DesignStatusOf(q, n) = "COMPLETED"
            /\ ImplementStatusOf(p, n) = "COMPLETED" => ImplementStatusOf(q, n) = "COMPLETED"
  BY <1>1, <1>2, StatusOf DEF DesignFinishedStates, CompletedStates
<1>. QED BY <1>3 DEF DoneIn, p

\* Every step of a task keeps every task in flight on its finished prerequisites,
\* and undoes nothing finished.
LEMMA TaskStepStands ==
  ASSUME BlockInv, StandsInv, DrainAssumption, NEW n \in Node, TaskStep(n)
  PROVE  StandsInv' /\ KeepsDone
<1>1. /\ queue \in Queue /\ flight \in [Node -> FlightState] /\ DesignsRecorded(queue)
      /\ coord = "waiting" /\ coord' = coord /\ Running /\ Running'
  BY DEF BlockInv, TypeOK, StandsInv, TaskStep, Running
<1>2. flight[n] \in Working <=> queue.state[n] \in InFlightStates
  BY <1>1 DEF BlockInv, FlightOwnsState, StandsInv, StateOwnsFlight
<1>3. PhaseInFlight(n) = (IF queue.state[n] = "DESIGNING" THEN "DESIGN" ELSE "IMPLEMENT")
  BY DEF PhaseInFlight
<1>4. ASSUME NEW to \in FlightState, flight' = [flight EXCEPT ![n] = to],
             Steady(queue, queue'), DesignsRecorded(queue'),
             saved' = queue' \/ (saved' \in {saved, queue} /\ DoneIn(queue', queue)),
             to \in Working \/ queue'.state[n] \notin InFlightStates
      PROVE StandsInv' /\ KeepsDone
  <2>1. ASSUME NEW m \in Node, queue'.state[m] \in InFlightStates PROVE flight'[m] \in Working
    <3>1. CASE m = n
      BY <1>1, <1>4, <2>1, <3>1
    <3>2. CASE m # n
      <4>1. queue.state[m] \in InFlightStates
        BY <1>4, <2>1 DEF Steady
      <4>2. flight[m] \in Working
        BY <1>1, <4>1 DEF StandsInv, StateOwnsFlight
      <4>. QED BY <1>1, <1>4, <3>2, <4>2
    <3>. QED BY <3>1, <3>2
  <2>2. saved' = saved \/ saved' = queue' \/ saved' = queue
    BY <1>4
  <2>3. KeepsDone
    BY <1>4, SteadyDone DEF KeepsDone
  <2>. QED BY <1>1, <1>4, <2>1, <2>2, <2>3, SteadyKeeps, StandsNext
<1>5. ASSUME NEW to \in FlightState, flight' = [flight EXCEPT ![n] = to],
             queue' = queue, saved' = saved \/ saved' = queue,
             to \in Working \/ flight[n] \notin Working
      PROVE StandsInv' /\ KeepsDone
  BY <1>1, <1>2, <1>4, <1>5, SteadySelf, SteadyDone
<1>6. ASSUME NEW from \in Working, NEW to \in FlightState, Move(n, from, to), FailVerdict(n)
      PROVE StandsInv' /\ KeepsDone
  <2>1. queue' = FailTask(queue, n) /\ saved' = queue'
    BY <1>6 DEF FailVerdict, Store
  <2>2. Steady(queue, queue') /\ DesignsRecorded(queue') /\ queue'.state[n] \notin InFlightStates
    BY <1>1, <1>2, <1>6, <2>1, FailSteady DEF Move
  <2>. QED BY <1>4, <1>6, <2>1, <2>2 DEF Move
<1>7. ASSUME NEW from \in Working, NEW to \in FlightState, Move(n, from, to), CompleteVerdict(n)
      PROVE StandsInv' /\ KeepsDone
  <2>1. PICK r \in Results : queue' = CompleteTask(queue, n, PhaseInFlight(n), r) /\ saved' = queue'
    BY <1>7 DEF CompleteVerdict, Store
  <2>2. r \in CompletedStates
    BY DEF DrainAssumption
  <2>3. queue.state[n] \in InFlightStates
    BY <1>2, <1>7 DEF Move
  <2>4. PhaseInFlight(n) \in Phase
        /\ queue.state[n] = IF PhaseInFlight(n) = "DESIGN" THEN "DESIGNING" ELSE "IMPLEMENTING"
    BY <1>3, <2>3 DEF Phase, InFlightStates
  <2>5. Steady(queue, queue') /\ DesignsRecorded(queue') /\ queue'.state[n] \notin InFlightStates
    BY <1>1, <2>1, <2>2, <2>4, CompleteSteady
  <2>. QED BY <1>4, <1>7, <2>1, <2>5 DEF Move
<1>8. {"none", "opening", "running", "merging", "landed", "resetting", "requeued", "settling",
       "finished"} = FlightState /\ AfterVerdict \in FlightState
      /\ Working = {"opening", "running", "merging", "landed", "resetting"}
  BY DEF FlightState, AfterVerdict, Working
<1>9. CASE OpenWorkspace(n)
  BY <1>5, <1>8, <1>9 DEF OpenWorkspace, Move, queueVars
<1>10. CASE Settle(n)
  BY <1>5, <1>8, <1>10 DEF Settle, Move, queueVars
<1>11. CASE SaveRequeue(n)
  BY <1>5, <1>8, <1>11 DEF SaveRequeue, Move, Store
<1>12. CASE MergeLands(n)
  BY <1>5, <1>8, <1>12 DEF MergeLands, Move, queueVars
<1>13. CASE OpenFails(n)
  BY <1>6, <1>8, <1>13 DEF OpenFails
<1>14. CASE PhaseFails(n)
  BY <1>6, <1>8, <1>14 DEF PhaseFails
<1>15. CASE MergeErrors(n)
  BY <1>6, <1>8, <1>15 DEF MergeErrors
<1>16. CASE RequeueDeclined(n)
  BY <1>6, <1>8, <1>16 DEF RequeueDeclined
<1>17. CASE MergeConflicts(n)
  <2>1. CASE RequeueAvailable(n)
    BY <1>5, <1>8, <1>17, <2>1 DEF MergeConflicts, Move, queueVars
  <2>2. CASE ~RequeueAvailable(n)
    BY <1>6, <1>8, <1>17, <2>2 DEF MergeConflicts
  <2>. QED BY <2>1, <2>2
<1>18. CASE MergeCompletes(n)
  BY <1>7, <1>8, <1>18 DEF MergeCompletes
<1>19. CASE PhaseSucceeds(n)
  <2>1. CASE ParallelMode
    BY <1>5, <1>8, <1>19, <2>1 DEF PhaseSucceeds, Move, queueVars
  <2>2. CASE ~ParallelMode
    BY <1>7, <1>8, <1>19, <2>2 DEF PhaseSucceeds
  <2>. QED BY <2>1, <2>2
<1>20. CASE Requeue(n)
  <2>. DEFINE k == IF PhaseInFlight(n) = "DESIGN" THEN "design" ELSE "implement"
  <2>1. /\ flight[n] = "resetting" /\ flight' = [flight EXCEPT ![n] = "requeued"]
        /\ queue' = ResetNode(queue, n, k) /\ saved' = saved
    BY <1>20 DEF Requeue, RequeueKind, Move
  <2>2. queue.state[n] \in InFlightStates
    BY <1>2, <1>8, <2>1
  <2>3. k \in {"design", "implement"}
        /\ queue.state[n] = IF k = "design" THEN "DESIGNING" ELSE "IMPLEMENTING"
    BY <1>3, <2>2 DEF InFlightStates
  <2>. HIDE DEF k
  <2>4. Steady(queue, queue') /\ DesignsRecorded(queue') /\ queue'.state[n] \notin InFlightStates
    BY <1>1, <2>1, <2>3, RequeueSteady
  <2>5. DoneIn(queue', queue)
    BY <1>1, <2>1, <2>3, RequeueDone
  <2>. QED BY <1>4, <1>8, <2>1, <2>4, <2>5
<1>21. CASE ObserveOutage(n)
  <2>1. /\ flight[n] = "running" /\ flight' = [flight EXCEPT ![n] = AfterVerdict]
        /\ queue' = RecoverInterruptedTask(queue, n) /\ saved' = queue'
    BY <1>21 DEF ObserveOutage, Move, Store
  <2>2. queue.state[n] \in InFlightStates
    BY <1>2, <1>8, <2>1
  <2>3. Steady(queue, queue') /\ DesignsRecorded(queue') /\ queue'.state[n] \notin InFlightStates
    BY <1>1, <2>1, <2>2, InterruptSteady
  <2>. QED BY <1>4, <1>8, <2>1, <2>3
<1>. QED BY <1>9, <1>10, <1>11, <1>12, <1>13, <1>14, <1>15, <1>16, <1>17, <1>18, <1>19,
            <1>20, <1>21 DEF TaskStep

\* The steps of the coordinator do too.
LEMMA CoordinateStands ==
  ASSUME BlockInv, StandsInv, DrainAssumption, Coordinate
  PROVE  StandsInv' /\ KeepsDone
<1>1. /\ queue \in Queue /\ saved \in Queue /\ flight \in [Node -> FlightState]
      /\ testFailed \subseteq Node
      /\ DesignsRecorded(queue) /\ DesignsRecorded(saved)
  BY DEF BlockInv, TypeOK, StandsInv
<1>2. ASSUME Running, Steady(queue, queue'), DesignsRecorded(queue'),
             saved' = queue' \/ (saved' \in {saved, queue} /\ DoneIn(queue', queue)),
             \A n \in Node : flight[n] \in Working => flight'[n] = flight[n]
      PROVE StandsInv' /\ KeepsDone
  <2>1. ASSUME NEW n \in Node, queue'.state[n] \in InFlightStates PROVE flight'[n] \in Working
    <3>1. queue.state[n] \in InFlightStates
      BY <1>2, <2>1 DEF Steady
    <3>2. flight[n] \in Working
      BY <1>2, <3>1 DEF StandsInv, StateOwnsFlight
    <3>. QED BY <1>2, <3>2
  <2>2. saved' = saved \/ saved' = queue' \/ saved' = queue
    BY <1>2
  <2>3. KeepsDone
    BY <1>2, SteadyDone DEF KeepsDone
  <2>. QED BY <1>2, <2>1, <2>2, <2>3, SteadyKeeps, StandsNext
<1>3. Steady(queue, queue) /\ DoneIn(queue, queue)
  BY SteadySelf, SteadyDone
<1>4. CASE SaveQueue
  BY <1>1, <1>2, <1>3, <1>4 DEF SaveQueue, Store, Running
<1>5. CASE Reap
  <2>1. /\ flight' = [n \in Node |-> IF flight[n] = "finished" THEN "none" ELSE flight[n]]
        /\ queue' = queue /\ saved' = saved /\ Running
    BY <1>5 DEF Reap, queueVars, Running
  <2>2. \A n \in Node : flight[n] \in Working => flight'[n] = flight[n]
    BY <2>1 DEF Working
  <2>. QED BY <1>1, <1>2, <1>3, <2>1, <2>2
<1>6. CASE EndRun
  <2>1. coord' = "ended" /\ queue' = queue /\ saved' = saved
    BY <1>6 DEF EndRun, queueVars
  <2>2. ~Running'
    BY <2>1 DEF Running
  <2>3. KeepsDone
    BY <1>3, <2>1 DEF KeepsDone
  <2>. QED BY <1>1, <2>1, <2>2, <2>3, StandsNext
<1>7. CASE StopRefill
  <2>. DEFINE q == PropagateDependencyBlocks(queue)
  <2>1. Store(q) \/ UNCHANGED queueVars
    BY <1>7 DEF StopRefill
  <2>2. Steady(queue, q) /\ DesignsRecorded(q)
    BY <1>1, PropagateSteady
  <2>3. Running /\ flight' = flight
    BY <1>7 DEF StopRefill, Running
  <2>. HIDE DEF q
  <2>4. CASE Store(q)
    BY <1>2, <2>2, <2>3, <2>4 DEF Store
  <2>5. CASE UNCHANGED queueVars
    BY <1>1, <1>2, <1>3, <2>3, <2>5 DEF queueVars
  <2>. QED BY <2>1, <2>4, <2>5
<1>8. CASE AutoRetry
  <2>1. /\ coord = "drained" /\ saved' = saved
        /\ queue' = ReleaseDependencyBlocks(ResetNodes(queue, TddRetryIds))
    BY <1>8 DEF AutoRetry
  <2>2. TddRetryIds \in SUBSET Node
    BY <1>1 DEF TddRetryIds
  <2>3. \A n \in Node : flight[n] = "none"
    BY <2>1 DEF BlockInv, FlightsInDrain
  <2>4. Running
    BY <2>1 DEF Running
  <2>5. Quiet(queue)
    BY <2>3, <2>4 DEF StandsInv, StateOwnsFlight, Quiet, Working
  <2>6. /\ ResetNodes(queue, TddRetryIds) \in Queue
        /\ Quiet(ResetNodes(queue, TddRetryIds)) /\ DesignsRecorded(ResetNodes(queue, TddRetryIds))
    BY <1>1, <2>2, <2>5, ResetNodesType, ResetNodesRecords
  <2>7. Quiet(queue') /\ DesignsRecorded(queue')
    BY <2>1, <2>6, ReleaseQuiet, ReleaseRecords
  <2>8. \A n \in TddRetryIds : queue.state[n] = "FAILED"
    BY DEF TddRetryIds
  <2>9. /\ DoneIn(queue, ResetNodes(queue, TddRetryIds))
        /\ DoneIn(ResetNodes(queue, TddRetryIds), queue)
    BY <1>1, <2>2, <2>8, ResetNodesDone
  <2>10. /\ DoneIn(ResetNodes(queue, TddRetryIds), queue')
         /\ DoneIn(queue', ResetNodes(queue, TddRetryIds))
    BY <2>1, <2>6, ReleaseDone
  <2>11. DoneIn(queue, queue') /\ DoneIn(queue', queue)
    BY <2>9, <2>10, DoneTransitive
  <2>12. KeepsDone
    BY <2>1, <2>11 DEF KeepsDone
  <2>. QED BY <2>1, <2>7, <2>12, StandsNext DEF Quiet
<1>9. CASE Dispatch
  <2>. DEFINE q == PropagateDependencyBlocks(queue)
  <2>1. PICK t \in NextTask(q) :
          /\ Store(BeginTask(q, t[1], t[2]))
          /\ flight' = [flight EXCEPT ![t[1]] = IF ParallelMode THEN "opening" ELSE "running"]
    BY <1>9 DEF Dispatch
  <2>2. q \in Queue /\ Steady(queue, q) /\ DesignsRecorded(q)
    BY <1>1, PropagateFrame, PropagateSteady
  <2>3. /\ t[1] \in Node /\ t[2] \in Phase /\ flight[t[1]] = "none"
        /\ TaskStatus(q, t[1], t[2]) = "PENDING" /\ DependenciesMet(q, t[1], t[2])
    BY NextTaskRunnable
  <2>. HIDE DEF q
  <2>4. queue' = BeginTask(q, t[1], t[2]) /\ saved' = queue'
    BY <2>1 DEF Store
  <2>5. /\ Kept(q, queue') /\ DesignsRecorded(queue') /\ Stands(queue', t[1])
        /\ queue'.designDone = q.designDone
        /\ \A m \in Node \ {t[1]} : queue'.state[m] = q.state[m]
    BY <2>2, <2>3, <2>4, BeginStands
  <2>6. Running
    BY <1>9 DEF Dispatch, Running
  <2>7. ASSUME NEW m \in Node, queue'.state[m] \in InFlightStates
        PROVE Stands(queue', m) /\ flight'[m] \in Working
    <3>1. CASE m = t[1]
      <4>1. flight'[m] \in {"opening", "running"}
        BY <1>1, <2>1, <3>1
      <4>. QED BY <2>5, <3>1, <4>1 DEF Working
    <3>2. CASE m # t[1]
      <4>1. queue'.state[m] = q.state[m] /\ queue'.designDone[m] = q.designDone[m]
        BY <2>5, <3>2
      <4>2. q.state[m] = queue.state[m] /\ q.designDone[m] = queue.designDone[m]
        BY <2>2, <2>7, <4>1 DEF Steady
      <4>3. flight[m] \in Working /\ Stands(queue, m)
        BY <2>6, <2>7, <4>1, <4>2, PrerequisitesAreStands DEF StandsInv, StateOwnsFlight
      <4>4. Kept(queue, q)
        BY <2>2 DEF Steady, Kept
      <4>5. Stands(q, m)
        BY <4>2, <4>3, <4>4, KeptStands
      <4>6. Stands(queue', m)
        BY <2>5, <4>1, <4>5, KeptStands
      <4>7. flight'[m] = flight[m]
        BY <1>1, <2>1, <3>2
      <4>. QED BY <4>3, <4>6, <4>7
    <3>. QED BY <3>1, <3>2
  <2>8. DoneIn(queue, q) /\ DoneIn(q, queue')
    BY <2>2, <2>5, SteadyDone
  <2>9. KeepsDone
    BY <2>4, <2>8, DoneTransitive DEF KeepsDone
  <2>. QED BY <2>4, <2>5, <2>7, <2>9, StandsNext
<1>. QED BY <1>4, <1>5, <1>6, <1>7, <1>8, <1>9 DEF Coordinate

\* A crash, a resume or a retry leaves nothing in flight, or changes no queue.
LEMMA EnvironmentStands ==
  ASSUME BlockInv, StandsInv, DrainAssumption, Environment
  PROVE  StandsInv'
<1>1. saved \in Queue /\ DesignsRecorded(saved)
  BY DEF BlockInv, TypeOK, StandsInv
<1>2. ASSUME NEW S \in SUBSET Node, LoadAndPrepare(S) PROVE StandsInv'
  <2>. DEFINE r == RecoverInterrupted(saved)
  <2>1. r \in Queue /\ DesignsRecorded(r) /\ Quiet(r)
    BY <1>1, RecoverInterruptedType, RecoverRecords
  <2>2. saved' = saved /\ queue' = IF S = {} THEN r ELSE ReleaseDependencyBlocks(ResetNodes(r, S))
    BY <1>2 DEF LoadAndPrepare
  <2>. HIDE DEF r
  <2>3. ResetNodes(r, S) \in Queue /\ Quiet(ResetNodes(r, S)) /\ DesignsRecorded(ResetNodes(r, S))
    BY <2>1, ResetNodesType, ResetNodesRecords
  <2>4. Quiet(queue') /\ DesignsRecorded(queue')
    BY <2>1, <2>2, <2>3, ReleaseQuiet, ReleaseRecords
  <2>. QED BY <2>2, <2>4, StandsNext DEF Quiet
<1>3. CASE FirstStart
  BY <1>2, <1>3 DEF FirstStart
<1>4. CASE Resume
  <2>1. PICK S \in RetryRequests(RecoverInterrupted(saved)) : LoadAndPrepare(S)
    BY <1>4 DEF Resume
  <2>2. S \in SUBSET Node
    BY DEF RetryRequests, RetryFailedIds, DrainAssumption
  <2>. QED BY <1>2, <2>1, <2>2
<1>5. CASE ResumeUnhealthy \/ Crash
  <2>1. queue' = saved /\ saved' = saved /\ coord' \in {"ended", "idle"}
    BY <1>5 DEF ResumeUnhealthy, Crash
  <2>2. ~Running'
    BY <2>1 DEF Running
  <2>. QED BY <1>1, <2>1, <2>2, StandsNext
<1>. QED BY <1>3, <1>4, <1>5 DEF Environment

\* The invariant holds at the start and is kept by every step.
LEMMA StandsInit == Init => StandsInv
<1>. SUFFICES ASSUME Init PROVE StandsInv
  OBVIOUS
<1>1. \A n \in Node : FreshQueue.state[n] = "UNSEEN"
  BY DEF FreshQueue
<1>2. DesignsRecorded(FreshQueue)
  BY <1>1 DEF DesignsRecorded, DesignFinishedStates, CompletedStates
<1>3. ~Running
  BY DEF Init, Running
<1>. QED BY <1>2, <1>3 DEF Init, StandsInv, StateOwnsFlight, PrerequisitesHold

\* Of every step: a task of its own, the coordinator, the operator or a crash.
LEMMA StandsStep == BlockInv /\ StandsInv /\ [Next]_vars => StandsInv'
<1>. SUFFICES ASSUME BlockInv, StandsInv, [Next]_vars PROVE StandsInv'
  OBVIOUS
<1>1. CASE UNCHANGED vars
  <2>1. queue' = queue /\ saved' = saved /\ flight' = flight /\ coord' = coord
    BY <1>1 DEF vars, queueVars
  <2>2. DesignsRecorded(queue') /\ (Running' <=> Running)
    BY <2>1 DEF StandsInv, DesignsRecorded, Running
  <2>3. Running => \A n \in Node : queue.state[n] \in InFlightStates =>
                     Stands(queue, n) /\ flight[n] \in Working
    BY PrerequisitesAreStands DEF StandsInv, StateOwnsFlight
  <2>4. Running' => \A n \in Node : queue'.state[n] \in InFlightStates =>
                      Stands(queue', n) /\ flight'[n] \in Working
    BY <2>1, <2>2, <2>3
  <2>. QED BY <2>1, <2>2, <2>4, StandsNext
<1>. QED BY <1>1, TaskStepStands, CoordinateStands, EnvironmentStands, DrainAssumption DEF Next

\* A task in flight stands on finished work for as long as it runs: nothing that
\* it waited for is undone under it, whatever fails, is requeued or blocked
\* meanwhile (task_dependencies_met).
THEOREM PrerequisitesKeepHolding == Spec => []PrerequisitesHold
<1>1. StandsInv => PrerequisitesHold
  BY DEF StandsInv
<1>. QED BY <1>1, StandsInit, StandsStep, InitInv, StepInv, PTL DEF Spec

-----------------------------------------------------------------------------
(* Completed work is not undone *)

\* The file holds everything the queue in memory holds as finished: a crash may
\* forget a reset or a failure, never a result.
DoneSaved == DoneIn(queue, saved)

\* Every step keeps that.
LEMMA DoneSavedStep ==
  ASSUME BlockInv, StandsInv, DoneSaved, [Next]_vars
  PROVE  DoneSaved' /\ (starts' = starts => DoneIn(queue, queue'))
<1>1. saved \in Queue /\ starts \in Nat
  BY DEF BlockInv, TypeOK
<1>2. ASSUME KeepsDone PROVE DoneSaved' /\ DoneIn(queue, queue')
  <2>1. DoneIn(queue', queue') /\ DoneIn(queue, queue)
    BY SteadyDone
  <2>2. CASE saved' = queue'
    BY <1>2, <2>1, <2>2 DEF KeepsDone, DoneSaved, DoneIn, DesignStatusOf, ImplementStatusOf,
                            TaskStatus, DesignDone
  <2>3. CASE saved' \in {saved, queue} /\ DoneIn(queue', queue)
    <3>1. DoneIn(queue', saved')
      BY <2>1, <2>3, DoneTransitive DEF DoneSaved
    <3>. QED BY <1>2, <3>1 DEF KeepsDone, DoneSaved, DoneIn, DesignStatusOf,
                               ImplementStatusOf, TaskStatus, DesignDone
  <2>. QED BY <1>2, <2>2, <2>3 DEF KeepsDone
<1>3. ASSUME NEW q, queue' = q, saved' = saved, DoneIn(q, saved) PROVE DoneSaved'
  BY <1>3 DEF DoneSaved, DoneIn, DesignStatusOf, ImplementStatusOf, TaskStatus, DesignDone
<1>4. ASSUME NEW S \in SUBSET Node, LoadAndPrepare(S)
      PROVE DoneSaved' /\ starts' # starts
  <2>. DEFINE r == RecoverInterrupted(saved)
  <2>1. r \in Queue /\ DoneIn(r, saved)
    BY <1>1, RecoverInterruptedType, RecoverDone
  <2>2. /\ saved' = saved /\ starts' = starts + 1
        /\ queue' = IF S = {} THEN r ELSE ReleaseDependencyBlocks(ResetNodes(r, S))
    BY <1>4 DEF LoadAndPrepare
  <2>. HIDE DEF r
  <2>3. ResetNodes(r, S) \in Queue /\ DoneIn(ResetNodes(r, S), r)
    BY <2>1, ResetNodesType, ResetNodesDone
  <2>4. DoneIn(ReleaseDependencyBlocks(ResetNodes(r, S)), ResetNodes(r, S))
    BY <2>3, ReleaseDone
  <2>5. DoneIn(ReleaseDependencyBlocks(ResetNodes(r, S)), r)
    BY <2>3, <2>4, DoneTransitive
  <2>6. DoneIn(ReleaseDependencyBlocks(ResetNodes(r, S)), saved)
    BY <2>1, <2>5, DoneTransitive
  <2>. QED BY <1>1, <1>3, <2>1, <2>2, <2>6
<1>5. CASE UNCHANGED vars
  <2>1. queue' = queue /\ saved' = saved
    BY <1>5 DEF vars, queueVars
  <2>. QED BY <1>3, <2>1, SteadyDone DEF DoneSaved
<1>6. CASE Coordinate \/ \E n \in Node : TaskStep(n)
  BY <1>2, <1>6, TaskStepStands, CoordinateStands, DrainAssumption
<1>7. CASE FirstStart
  BY <1>4, <1>7 DEF FirstStart
<1>8. CASE Resume
  <2>1. PICK S \in RetryRequests(RecoverInterrupted(saved)) : LoadAndPrepare(S)
    BY <1>8 DEF Resume
  <2>2. S \in SUBSET Node
    BY DrainAssumption DEF RetryRequests, RetryFailedIds, DrainAssumption
  <2>. QED BY <1>4, <2>1, <2>2
<1>9. CASE ResumeUnhealthy \/ Crash
  <2>1. queue' = saved /\ saved' = saved
    BY <1>9 DEF ResumeUnhealthy, Crash
  <2>2. ResumeUnhealthy => starts' # starts
    BY <1>1 DEF ResumeUnhealthy
  <2>3. DoneIn(queue, queue')
    BY <2>1 DEF DoneSaved
  <2>. QED BY <1>3, <2>1, <2>3, SteadyDone
<1>. QED BY <1>5, <1>6, <1>7, <1>8, <1>9 DEF Next, Environment

\* Completed work is never undone except by an invocation of the operator: not by
\* a crash, which brings back the file, nor by a requeue, an outage, a block or the
\* automatic retry (recover_interrupted, apply_retry_plan, _prepare_auto_tdd_retry).
THEOREM DoneIsKept == Spec => DoneStaysDone
<1>. DEFINE Act == starts' = starts =>
                     \A n \in Node, p \in Phase :
                       TaskStatus(queue, n, p) = "COMPLETED" => TaskStatus(queue', n, p) = "COMPLETED"
<1>1. Init => DoneSaved
  BY SteadyDone DEF Init, DoneSaved
<1>2. BlockInv /\ StandsInv /\ DoneSaved /\ [Next]_vars => DoneSaved' /\ [Act]_vars
  <2>. SUFFICES ASSUME BlockInv, StandsInv, DoneSaved, [Next]_vars
                PROVE  DoneSaved' /\ [Act]_vars
    OBVIOUS
  <2>1. DoneSaved' /\ (starts' = starts => DoneIn(queue, queue'))
    BY DoneSavedStep
  <2>2. DoneIn(queue, queue') =>
          \A n \in Node, p \in Phase :
            TaskStatus(queue, n, p) = "COMPLETED" => TaskStatus(queue', n, p) = "COMPLETED"
    BY DEF DoneIn, DesignStatusOf, ImplementStatusOf, Phase
  <2>. QED BY <2>1, <2>2
<1>3. DoneStaysDone <=> [][Act]_vars
  BY DEF DoneStaysDone
<1>. HIDE DEF Act
<1>. QED BY <1>1, <1>2, <1>3, StandsInit, StandsStep, InitInv, StepInv, PTL DEF Spec

-----------------------------------------------------------------------------
(* The drain keeps the contract of module Compilation *)

\* A node that is to be designed, or is being designed, has no finished design on
\* record; together with DesignsRecorded the record says exactly whose design is
\* finished.
Undesigned(q) ==
  \A n \in Node : q.state[n] \in {"UNSEEN", "DESIGNING"} => ~q.designDone[n]

\* The file lags behind the memory only between a session patch and the save that
\* follows it.
SaveFollows ==
  /\ unsaved \/ queue = saved
  /\ unsaved => coord \in {"saving", "waiting"}

ContractInv == Undesigned(queue) /\ Undesigned(saved) /\ SaveFollows

\* What the contract sees of a queue, read off its two records.
LEMMA FinishedIs ==
  ASSUME NEW q \in Queue, DesignsRecorded(q), Undesigned(q), NEW n \in Node
  PROVE  /\ <<n, "DESIGN">> \in FinishedIn(q) <=> q.designDone[n]
         /\ <<n, "IMPLEMENT">> \in FinishedIn(q) <=> q.state[n] \in CompletedStates
<1>1. /\ <<n, "DESIGN">> \in FinishedIn(q) <=> DesignStatusOf(q, n) = "COMPLETED"
      /\ <<n, "IMPLEMENT">> \in FinishedIn(q) <=> ImplementStatusOf(q, n) = "COMPLETED"
  BY DEF FinishedIn, Task, Phase, DesignStatusOf, ImplementStatusOf
<1>2. DesignStatusOf(q, n) = "COMPLETED" <=> q.designDone[n]
  <2>1. q.state[n] \in NodeState
    BY DEF Queue
  <2>2. \/ q.state[n] \in DesignFinishedStates
        \/ q.state[n] \in {"FAILED", "BLOCKED_BY_DEPENDENCY"}
        \/ q.state[n] \in {"UNSEEN", "DESIGNING"}
    BY <2>1 DEF NodeState, DesignFinishedStates, InFlightStates
  <2>3. CASE q.state[n] \in DesignFinishedStates
    BY <2>3, StatusOf DEF DesignsRecorded
  <2>4. CASE q.state[n] \in {"FAILED", "BLOCKED_BY_DEPENDENCY"}
    <3>1. q.state[n] \notin DesignFinishedStates
      BY <2>4 DEF DesignFinishedStates, CompletedStates
    <3>. QED BY <2>4, <3>1, StatusOf
  <2>5. CASE q.state[n] \in {"UNSEEN", "DESIGNING"}
    <3>1. q.state[n] \notin DesignFinishedStates /\ q.state[n] \notin {"FAILED", "BLOCKED_BY_DEPENDENCY"}
      BY <2>5 DEF DesignFinishedStates, CompletedStates
    <3>. QED BY <2>5, <3>1, StatusOf DEF Undesigned
  <2>. QED BY <2>2, <2>3, <2>4, <2>5
<1>. QED BY <1>1, <1>2, StatusOf

\* Two sets of tasks are the same when they agree on every node and phase.
LEMMA TaskSets ==
  ASSUME NEW S \in SUBSET Task, NEW T \in SUBSET Task,
         \A n \in Node, p \in Phase : <<n, p>> \in S <=> <<n, p>> \in T
  PROVE  S = T
<1>1. \A t \in Task : t \in S <=> t \in T
  BY DEF Task
<1>. QED BY <1>1

\* The tasks finished in two queues are the same when their records are.
LEMMA SameFinished ==
  ASSUME NEW q \in Queue, NEW p \in Queue, DesignsRecorded(q), Undesigned(q),
         DesignsRecorded(p), Undesigned(p), p.designDone = q.designDone,
         \A n \in Node : p.state[n] \in CompletedStates <=> q.state[n] \in CompletedStates
  PROVE  FinishedIn(p) = FinishedIn(q)
<1>1. FinishedIn(p) \subseteq Task /\ FinishedIn(q) \subseteq Task
  BY DEF FinishedIn
<1>2. ASSUME NEW n \in Node, NEW ph \in Phase
      PROVE  <<n, ph>> \in FinishedIn(p) <=> <<n, ph>> \in FinishedIn(q)
  BY FinishedIs DEF Phase
<1>. QED BY <1>1, <1>2, TaskSets

\* A completion of a phase adds its task.
LEMMA OneFinished ==
  ASSUME NEW q \in Queue, NEW p \in Queue, DesignsRecorded(q), Undesigned(q),
         DesignsRecorded(p), Undesigned(p), NEW n \in Node, NEW ph \in Phase,
         \A m \in Node \ {n} : p.designDone[m] = q.designDone[m] /\ p.state[m] = q.state[m],
         q.state[n] \notin CompletedStates,
         ph = "DESIGN" => p.designDone[n] /\ p.state[n] \notin CompletedStates,
         ph = "IMPLEMENT" => p.designDone[n] = q.designDone[n] /\ p.state[n] \in CompletedStates
  PROVE  FinishedIn(p) = FinishedIn(q) \cup {<<n, ph>>}
<1>. DEFINE S == FinishedIn(q) \cup {<<n, ph>>}
<1>1. FinishedIn(p) \in SUBSET Task /\ S \in SUBSET Task
  BY DEF FinishedIn, Task
<1>2. ASSUME NEW m \in Node, NEW f \in Phase
      PROVE  <<m, f>> \in FinishedIn(p) <=> <<m, f>> \in S
  <2>1. /\ <<m, "DESIGN">> \in FinishedIn(q) <=> q.designDone[m]
        /\ <<m, "IMPLEMENT">> \in FinishedIn(q) <=> q.state[m] \in CompletedStates
        /\ <<m, "DESIGN">> \in FinishedIn(p) <=> p.designDone[m]
        /\ <<m, "IMPLEMENT">> \in FinishedIn(p) <=> p.state[m] \in CompletedStates
    BY FinishedIs
  <2>2. CASE m # n
    BY <2>1, <2>2 DEF Phase
  <2>3. CASE m = n /\ f = ph
    BY <2>1, <2>3 DEF Phase
  <2>4. CASE m = n /\ f = "IMPLEMENT" /\ ph = "DESIGN"
    BY <2>1, <2>4
  <2>5. CASE m = n /\ f = "DESIGN" /\ ph = "IMPLEMENT"
    BY <2>1, <2>5
  <2>. QED BY <2>2, <2>3, <2>4, <2>5 DEF Phase
<1>. HIDE DEF S
<1>3. FinishedIn(p) = S
  BY <1>1, <1>2, TaskSets
<1>. QED BY <1>3 DEF S

\* What is finished in one queue is finished in the other, as sets.
LEMMA FinishedSubset ==
  ASSUME NEW q, NEW p, DoneIn(q, p)
  PROVE  FinishedIn(q) \subseteq FinishedIn(p)
<1>1. \A n \in Node, ph \in Phase :
        TaskStatus(q, n, ph) = "COMPLETED" => TaskStatus(p, n, ph) = "COMPLETED"
  BY DEF DoneIn, DesignStatusOf, ImplementStatusOf, Phase
<1>. QED BY <1>1 DEF FinishedIn, Task

\* The sets of the next state are those of the next queue and file.
LEMMA FinishedNext ==
  FinishedIn(queue)' = FinishedIn(queue') /\ FinishedIn(saved)' = FinishedIn(saved')
BY DEF FinishedIn, TaskStatus, DesignDone

-----------------------------------------------------------------------------
(* The tasks that run, as the contract sees them *)

\* Nobody sees a task of a process that is gone, or of a quiet queue.
LEMMA NobodyRuns ==
  /\ ~Running \/ Quiet(queue) => RunningTasks = {}
  /\ ~Running' \/ Quiet(queue') => RunningTasks' = {}
<1>1. ~Running \/ Quiet(queue) => RunningTasks = {}
  BY DEF RunningTasks, Quiet, Task
<1>2. ~Running' \/ Quiet(queue') => RunningTasks' = {}
  BY DEF RunningTasks, Quiet, Task
<1>. QED BY <1>1, <1>2

\* A step that leaves the tasks in flight where they are.
LEMMA SameRunning ==
  ASSUME Running' <=> Running,
         \A n \in Node : \/ queue'.state[n] = queue.state[n]
                         \/ queue'.state[n] \notin InFlightStates
                            /\ queue.state[n] \notin InFlightStates
  PROVE  RunningTasks' = RunningTasks
BY DEF RunningTasks, Task, PhaseInFlight

\* A step that takes one task off its node.
LEMMA LeavesRunning ==
  ASSUME Running, Running', NEW n \in Node, queue.state[n] \in InFlightStates,
         queue'.state[n] \notin InFlightStates,
         \A m \in Node \ {n} : queue'.state[m] = queue.state[m]
  PROVE  /\ <<n, PhaseInFlight(n)>> \in RunningTasks
         /\ RunningTasks' = RunningTasks \ {<<n, PhaseInFlight(n)>>}
<1>1. <<n, PhaseInFlight(n)>> \in RunningTasks
  BY DEF RunningTasks, Task, PhaseInFlight, Phase
<1>2. ASSUME NEW t \in Task
      PROVE  t \in RunningTasks' <=> t \in RunningTasks \ {<<n, PhaseInFlight(n)>>}
  <2>1. t[1] \in Node /\ t = <<t[1], t[2]>>
    BY DEF Task
  <2>2. CASE t[1] = n
    BY <2>1, <2>2 DEF RunningTasks
  <2>3. CASE t[1] # n
    BY <2>1, <2>3 DEF RunningTasks, PhaseInFlight
  <2>. QED BY <2>2, <2>3
<1>3. RunningTasks \subseteq Task /\ RunningTasks' \subseteq Task
  BY DEF RunningTasks, Task
<1>. QED BY <1>1, <1>2, <1>3

\* A step that puts one task on its node.
LEMMA JoinsRunning ==
  ASSUME Running, Running', NEW n \in Node, NEW ph \in Phase,
         queue.state[n] \notin InFlightStates,
         queue'.state[n] = (IF ph = "DESIGN" THEN "DESIGNING" ELSE "IMPLEMENTING"),
         \A m \in Node \ {n} : \/ queue'.state[m] = queue.state[m]
                               \/ queue'.state[m] \notin InFlightStates
                                  /\ queue.state[m] \notin InFlightStates
  PROVE  <<n, ph>> \notin RunningTasks /\ RunningTasks' = RunningTasks \cup {<<n, ph>>}
<1>1. <<n, ph>> \in RunningTasks' /\ <<n, ph>> \notin RunningTasks
  BY DEF RunningTasks, Task, PhaseInFlight, Phase, InFlightStates
<1>2. ASSUME NEW t \in Task
      PROVE  t \in RunningTasks' <=> t \in RunningTasks \cup {<<n, ph>>}
  <2>1. t[1] \in Node /\ t[2] \in Phase /\ t = <<t[1], t[2]>>
    BY DEF Task
  <2>2. CASE t[1] = n
    <3>1. t \in RunningTasks' <=> t[2] = ph
      BY <2>1, <2>2 DEF RunningTasks, PhaseInFlight, Phase, InFlightStates
    <3>2. t \notin RunningTasks
      BY <2>2 DEF RunningTasks
    <3>. QED BY <2>1, <2>2, <3>1, <3>2
  <2>3. CASE t[1] # n
    BY <2>1, <2>3 DEF RunningTasks, PhaseInFlight
  <2>. QED BY <2>2, <2>3
<1>3. RunningTasks \cup {<<n, ph>>} \subseteq Task /\ RunningTasks' \subseteq Task
  BY DEF RunningTasks, Task
<1>4. RunningTasks' = RunningTasks \cup {<<n, ph>>}
  BY <1>2, <1>3
<1>. QED BY <1>1, <1>4
-----------------------------------------------------------------------------
(* What is undesigned stays so *)

\* Blocking and releasing change no record, and turn no blocked node into one that
\* is to be designed unless its design is missing.
LEMMA WalksUndesigned ==
  ASSUME NEW q \in Queue, DesignsRecorded(q), Undesigned(q)
  PROVE  /\ Undesigned(PropagateDependencyBlocks(q))
         /\ Undesigned(ReleaseDependencyBlocks(q))
<1>1. Undesigned(PropagateDependencyBlocks(q))
  <2>. DEFINE p == PropagateDependencyBlocks(q)
  <2>1. p.designDone = q.designDone
    BY DEF PropagateDependencyBlocks, BlockNodes, Queue
  <2>2. \A n \in Node : p.state[n] = IF n \in NewlyBlocked(q) THEN "BLOCKED_BY_DEPENDENCY"
                                                              ELSE q.state[n]
    BY DEF PropagateDependencyBlocks, BlockNodes, Queue
  <2>. HIDE DEF p
  <2>3. Undesigned(p)
    BY <2>1, <2>2 DEF Undesigned
  <2>. QED BY <2>3 DEF p
<1>2. Undesigned(ReleaseDependencyBlocks(q))
  <2>. DEFINE p == ReleaseDependencyBlocks(q)
  <2>1. p.designDone = q.designDone
    BY DEF ReleaseDependencyBlocks, ReleaseNodes, Queue
  <2>2. \A n \in Node : p.state[n] = IF n \notin Released(q) THEN q.state[n]
                                    ELSE IF DesignDone(q, n) THEN "DESIGNED" ELSE "UNSEEN"
    BY DEF ReleaseDependencyBlocks, ReleaseNodes, Queue
  <2>. HIDE DEF p
  <2>3. Undesigned(p)
    BY <2>1, <2>2 DEF Undesigned, DesignDone
  <2>. QED BY <2>3 DEF p
<1>. QED BY <1>1, <1>2

\* A reset of any nodes clears the record of those it sends back to their design.
LEMMA ResetNodesUndesigned ==
  ASSUME NEW q \in Queue, NEW S \in SUBSET Node, Undesigned(q)
  PROVE  Undesigned(ResetNodes(q, S))
<1>. SUFFICES ASSUME NEW n \in Node, ResetNodes(q, S).state[n] \in {"UNSEEN", "DESIGNING"}
              PROVE  ~ResetNodes(q, S).designDone[n]
  BY DEF Undesigned
<1>. DEFINE k == RetryKind(q, n)
<1>1. CASE n \notin S
  BY <1>1 DEF ResetNodes, Undesigned
<1>2. CASE n \in S
  <2>1. /\ ResetNodes(q, S).state[n] = ResetNode(q, n, k).state[n]
        /\ ResetNodes(q, S).designDone[n] = ResetNode(q, n, k).designDone[n]
    BY <1>2 DEF ResetNodes
  <2>. HIDE DEF k
  <2>2. /\ ResetNode(q, n, k).state[n] = IF k = "implement" THEN "DESIGNED" ELSE "UNSEEN"
        /\ ResetNode(q, n, k).designDone[n] = IF k = "implement" THEN q.designDone[n] ELSE FALSE
    BY DEF ResetNode, Queue
  <2>. QED BY <2>1, <2>2
<1>. QED BY <1>1, <1>2

\* Recovery sends an interrupted design back, which had no record.
LEMMA RecoverUndesigned ==
  ASSUME NEW q \in Queue, Undesigned(q)
  PROVE  Undesigned(RecoverInterrupted(q))
<1>1. \A n \in Node : /\ q.state[n] # "DESIGNING" /\ q.state[n] # "IMPLEMENTING" =>
                           RecoverInterrupted(q).state[n] = q.state[n]
                      /\ q.state[n] = "DESIGNING" =>
                           RecoverInterrupted(q).state[n] = "UNSEEN"
                      /\ q.state[n] = "IMPLEMENTING" =>
                           RecoverInterrupted(q).state[n] = "DESIGNED"
  BY RecoverInterruptedType
<1>2. RecoverInterrupted(q).designDone = q.designDone
  BY DEF RecoverInterrupted, Queue
<1>. QED BY <1>1, <1>2 DEF Undesigned

-----------------------------------------------------------------------------
(* The steps of the contract *)

\* What the invariants say of the two queues, in this state and the next.
Records(q) == q \in Queue /\ DesignsRecorded(q) /\ Undesigned(q)

\* The two queues have exact records as long as the invariants hold.
LEMMA InvRecords ==
  ASSUME BlockInv, StandsInv, ContractInv
  PROVE  Records(queue) /\ Records(saved)
BY DEF Records, BlockInv, TypeOK, StandsInv, ContractInv

\* Nor does the contract see a step that changes neither queue, file nor HEAD.
LEMMA UnseenStep ==
  ASSUME FinishedIn(queue') = FinishedIn(queue), FinishedIn(saved') = FinishedIn(saved),
         RunningTasks' = RunningTasks, landed' = landed, Running' <=> Running
  PROVE  UNCHANGED Contract!vars
BY FinishedNext DEF Contract!vars

\* A task fails, is interrupted or is requeued.
LEMMA GiveUpStep ==
  ASSUME BlockInv, StandsInv, ContractInv, Running, Running', NEW n \in Node,
         queue.state[n] \in InFlightStates, Records(queue'),
         queue'.state[n] \notin InFlightStates \cup CompletedStates,
         \A m \in Node \ {n} : queue'.state[m] = queue.state[m],
         queue'.designDone = queue.designDone,
         saved' = queue' \/ saved' = saved, landed' = landed
  PROVE  Contract!Next
<1>. DEFINE t == <<n, PhaseInFlight(n)>>
<1>1. t \in RunningTasks /\ RunningTasks' = RunningTasks \ {t}
  BY LeavesRunning
<1>2. t \in Task
  BY DEF Task, PhaseInFlight, Phase
<1>3. \A m \in Node : queue'.state[m] \in CompletedStates <=> queue.state[m] \in CompletedStates
  BY DEF InFlightStates, CompletedStates
<1>4. FinishedIn(queue') = FinishedIn(queue)
  BY <1>3, InvRecords, SameFinished DEF Records
<1>5. FinishedIn(saved') \in {FinishedIn(saved), FinishedIn(queue)}
  BY <1>4
<1>. HIDE DEF t
<1>6. Contract!GiveUp(t)
  BY <1>1, <1>4, <1>5, FinishedNext DEF Contract!GiveUp
<1>. QED BY <1>2, <1>6 DEF Contract!Next

\* A task finishes; its work has landed, or lands with it.
LEMMA FinishStep ==
  ASSUME BlockInv, StandsInv, ContractInv, Running, Running', NEW n \in Node, NEW r \in CompletedStates,
         queue.state[n] \in InFlightStates, Records(queue'),
         queue' = CompleteTask(queue, n, PhaseInFlight(n), r), saved' = queue',
         landed' \in {landed, landed \cup {<<n, PhaseInFlight(n)>>}},
         <<n, PhaseInFlight(n)>> \in landed'
  PROVE  Contract!Next
<1>. DEFINE ph == PhaseInFlight(n)
            t == <<n, ph>>
<1>1. ph \in Phase /\ t \in Task
  BY DEF Task, PhaseInFlight, Phase
<1>. HIDE DEF ph
<1>2. Records(queue)
  BY InvRecords
<1>3. queue'.state = [queue.state EXCEPT ![n] = IF ph = "DESIGN" THEN "DESIGNED" ELSE r]
  BY <1>1, <1>2, CompleteTaskState DEF Records, ph
<1>4. /\ ph = "DESIGN" => queue'.designDone = [queue.designDone EXCEPT ![n] = TRUE]
      /\ ph = "IMPLEMENT" => queue'.designDone = queue.designDone
  BY <1>1, <1>2 DEF CompleteTask, Queue, Records, ph
<1>5. /\ queue'.state[n] = IF ph = "DESIGN" THEN "DESIGNED" ELSE r
      /\ \A m \in Node \ {n} : queue'.state[m] = queue.state[m]
  BY <1>2, <1>3 DEF Queue, Records
<1>6. /\ ph = "DESIGN" => queue'.designDone[n]
      /\ \A m \in Node \ {n} : queue'.designDone[m] = queue.designDone[m]
  BY <1>1, <1>2, <1>4 DEF Queue, Records, Phase
<1>7. queue.state[n] \notin CompletedStates /\ queue'.state[n] \notin InFlightStates
  BY <1>5 DEF InFlightStates, CompletedStates
<1>8. ph = "DESIGN" => queue'.state[n] \notin CompletedStates
  BY <1>5 DEF CompletedStates
<1>9. FinishedIn(queue') = FinishedIn(queue) \cup {t}
  <2>1. ph = "IMPLEMENT" => queue'.designDone[n] = queue.designDone[n] /\ queue'.state[n] \in CompletedStates
    BY <1>4, <1>5
  <2>2. \A m \in Node \ {n} : /\ queue'.designDone[m] = queue.designDone[m]
                               /\ queue'.state[m] = queue.state[m]
    BY <1>5, <1>6
  <2>. QED BY <1>1, <1>2, <1>6, <1>7, <1>8, <2>1, <2>2, OneFinished DEF Records
<1>10. t \in RunningTasks /\ RunningTasks' = RunningTasks \ {t}
  BY <1>5, <1>7, LeavesRunning DEF ph
<1>11. landed' \in {landed, landed \cup {t}} /\ t \in landed'
  BY DEF ph
<1>12. FinishedIn(saved') = FinishedIn(queue')
  OBVIOUS
<1>. HIDE DEF t
<1>13. Contract!Finish(t)
  BY <1>9, <1>10, <1>11, <1>12, FinishedNext DEF Contract!Finish
<1>. QED BY <1>1, <1>13 DEF Contract!Next

\* Every step of a task is a step of the contract, or none.
LEMMA TaskStepContract ==
  ASSUME BlockInv, LandedInv, StandsInv, ContractInv, DrainAssumption, NEW n \in Node, TaskStep(n)
  PROVE  ContractInv' /\ [Contract!Next]_(Contract!vars)
<1>1. /\ queue \in Queue /\ saved \in Queue /\ flight \in [Node -> FlightState]
      /\ coord = "waiting" /\ coord' = "waiting" /\ Running /\ Running'
      /\ Records(queue) /\ Records(saved)
  BY InvRecords DEF BlockInv, TypeOK, TaskStep, Running
<1>2. queue' \in Queue /\ DesignsRecorded(queue')
  BY TaskStepInv, TaskStepStands DEF BlockInv, TypeOK, StandsInv, DesignsRecorded
<1>3. flight[n] \in Working => queue.state[n] \in InFlightStates
  BY DEF BlockInv, FlightOwnsState
<1>4. Working = {"opening", "running", "merging", "landed", "resetting"}
  BY DEF Working
<1>5. ASSUME queue' = queue, saved' = saved, unsaved' = unsaved
      PROVE  ContractInv' /\ (landed' = landed => UNCHANGED Contract!vars) /\ RunningTasks' = RunningTasks
  <2>1. ContractInv'
    BY <1>1, <1>5 DEF ContractInv, SaveFollows, Undesigned
  <2>2. RunningTasks' = RunningTasks
    BY <1>1, <1>5, SameRunning
  <2>3. landed' = landed => UNCHANGED Contract!vars
    BY <1>1, <1>5, <2>2, UnseenStep
  <2>. QED BY <2>1, <2>2, <2>3
<1>6. ASSUME Undesigned(queue'), saved' = queue' \/ saved' = saved,
             (unsaved' = FALSE /\ saved' = queue') \/ unsaved' = TRUE
      PROVE  ContractInv' /\ Records(queue')
  <2>1. Undesigned(queue)' /\ Undesigned(saved)'
    BY <1>6 DEF Undesigned, ContractInv
  <2>2. SaveFollows'
    BY <1>1, <1>6 DEF SaveFollows
  <2>. QED BY <1>2, <1>6, <2>1, <2>2 DEF ContractInv, Records
<1>7. ASSUME flight[n] \in Working, NEW st \in {"FAILED", "UNSEEN", "DESIGNED"},
             queue'.state = [queue.state EXCEPT ![n] = st], queue'.designDone = queue.designDone,
             st = "UNSEEN" => queue.state[n] = "DESIGNING", landed' = landed,
             saved' = queue' \/ saved' = saved,
             (unsaved' = FALSE /\ saved' = queue') \/ unsaved' = TRUE
      PROVE  ContractInv' /\ Contract!Next
  <2>1. queue'.state[n] = st /\ \A m \in Node \ {n} : queue'.state[m] = queue.state[m]
    BY <1>1, <1>7 DEF Queue
  <2>2. Undesigned(queue')
    BY <1>1, <1>7, <2>1 DEF Undesigned, Records
  <2>3. ContractInv' /\ Records(queue')
    BY <1>6, <1>7, <2>2
  <2>4. queue'.state[n] \notin InFlightStates \cup CompletedStates
    BY <2>1 DEF InFlightStates, CompletedStates
  <2>. QED BY <1>1, <1>3, <1>7, <2>1, <2>3, <2>4, GiveUpStep
<1>8. ASSUME flight[n] \in Working, FailVerdict(n) PROVE ContractInv' /\ Contract!Next
  <2>1. /\ queue' = FailTask(queue, n) /\ saved' = queue' /\ unsaved' = FALSE
        /\ landed' = landed
    BY <1>8 DEF FailVerdict, Store
  <2>2. queue'.state = [queue.state EXCEPT ![n] = "FAILED"]
    BY <1>1, <2>1, FailTaskState
  <2>3. queue'.designDone = queue.designDone
    BY <1>1, <2>1 DEF FailTask, Queue
  <2>. QED BY <1>7, <1>8, <2>1, <2>2, <2>3
<1>9. ASSUME flight[n] \in Working, CompleteVerdict(n),
             landed' \in {landed, landed \cup {<<n, PhaseInFlight(n)>>}},
             <<n, PhaseInFlight(n)>> \in landed'
      PROVE  ContractInv' /\ Contract!Next
  <2>1. PICK r \in Results : /\ queue' = CompleteTask(queue, n, PhaseInFlight(n), r)
                             /\ saved' = queue' /\ unsaved' = FALSE
    BY <1>9 DEF CompleteVerdict, Store
  <2>2. r \in CompletedStates /\ PhaseInFlight(n) \in Phase
    BY DEF DrainAssumption, PhaseInFlight, Phase
  <2>3. queue'.state = [queue.state EXCEPT ![n] = IF PhaseInFlight(n) = "DESIGN" THEN "DESIGNED" ELSE r]
    BY <1>1, <2>1, <2>2, CompleteTaskState
  <2>4. \A m \in Node \ {n} : queue'.designDone[m] = queue.designDone[m]
    BY <1>1, <2>1 DEF CompleteTask, Queue
  <2>5. /\ queue'.state[n] \notin {"UNSEEN", "DESIGNING"}
        /\ \A m \in Node \ {n} : queue'.state[m] = queue.state[m]
    BY <1>1, <2>2, <2>3 DEF Queue, CompletedStates
  <2>6. Undesigned(queue')
    BY <1>1, <2>4, <2>5 DEF Undesigned, Records
  <2>7. ContractInv' /\ Records(queue')
    BY <1>6, <2>1, <2>6
  <2>. QED BY <1>1, <1>3, <1>9, <2>1, <2>2, <2>7, FinishStep
<1>10. CASE OpenWorkspace(n) \/ Settle(n)
  BY <1>5, <1>10 DEF OpenWorkspace, Settle, queueVars, recordVars
<1>11. CASE SaveRequeue(n)
  <2>1. queue' = queue /\ saved' = queue' /\ unsaved' = FALSE /\ landed' = landed
    BY <1>11 DEF SaveRequeue, Store, recordVars
  <2>2. ContractInv'
    BY <1>1, <1>6, <2>1 DEF Records
  <2>3. RunningTasks' = RunningTasks
    BY <1>1, <2>1, SameRunning
  <2>4. FinishedIn(saved') = FinishedIn(queue) /\ FinishedIn(queue') = FinishedIn(queue)
    BY <2>1
  <2>5. Contract!Save
    BY <1>1, <2>1, <2>3, <2>4, FinishedNext DEF Contract!Save
  <2>. QED BY <2>2, <2>5 DEF Contract!Next
<1>12. CASE OpenFails(n) \/ PhaseFails(n) \/ MergeErrors(n) \/ RequeueDeclined(n)
  BY <1>4, <1>8, <1>12 DEF OpenFails, PhaseFails, MergeErrors, RequeueDeclined, Move
<1>13. CASE MergeConflicts(n)
  <2>1. CASE RequeueAvailable(n)
    BY <1>5, <1>13, <2>1 DEF MergeConflicts, queueVars, recordVars
  <2>2. CASE ~RequeueAvailable(n)
    BY <1>4, <1>8, <1>13, <2>2 DEF MergeConflicts, Move
  <2>. QED BY <2>1, <2>2
<1>14. CASE PhaseSucceeds(n)
  <2>1. CASE ParallelMode
    BY <1>5, <1>14, <2>1 DEF PhaseSucceeds, queueVars, recordVars
  <2>2. CASE ~ParallelMode
    BY <1>4, <1>9, <1>14, <2>2 DEF PhaseSucceeds, Move
  <2>. QED BY <2>1, <2>2
<1>15. CASE MergeLands(n)
  <2>. DEFINE t == <<n, PhaseInFlight(n)>>
  <2>1. /\ flight[n] = "merging" /\ landed' = landed \cup {t}
        /\ queue' = queue /\ saved' = saved /\ unsaved' = unsaved
    BY <1>15 DEF MergeLands, Move, queueVars
  <2>2. t \in Task /\ t \in RunningTasks
    BY <1>1, <1>3, <1>4, <2>1 DEF RunningTasks, Task, PhaseInFlight, Phase
  <2>3. ContractInv' /\ RunningTasks' = RunningTasks
    BY <1>5, <2>1
  <2>4. FinishedIn(saved') = FinishedIn(saved) /\ FinishedIn(queue') = FinishedIn(queue)
    BY <2>1
  <2>. HIDE DEF t
  <2>5. Contract!Land(t)
    BY <1>1, <2>1, <2>2, <2>3, <2>4, FinishedNext DEF Contract!Land
  <2>. QED BY <2>2, <2>3, <2>5 DEF Contract!Next
<1>16. CASE MergeCompletes(n)
  BY <1>4, <1>9, <1>16 DEF MergeCompletes, Move, LandedInv, FlightLanded
<1>17. CASE Requeue(n)
  <2>. DEFINE k == IF PhaseInFlight(n) = "DESIGN" THEN "design" ELSE "implement"
              st == IF k = "implement" THEN "DESIGNED" ELSE "UNSEEN"
  <2>1. /\ flight[n] = "resetting" /\ queue' = ResetNode(queue, n, k)
        /\ saved' = saved /\ unsaved' = TRUE /\ landed' = landed
    BY <1>17 DEF Requeue, RequeueKind, Move
  <2>2. k \in ResetKind /\ st \in {"FAILED", "UNSEEN", "DESIGNED"}
    BY DEF ResetKind
  <2>3. queue.state[n] \in InFlightStates
    BY <1>3, <1>4, <2>1
  <2>4. st = "UNSEEN" => k = "design" /\ queue.state[n] = "DESIGNING"
    BY <2>3 DEF PhaseInFlight, InFlightStates
  <2>5. k = "design" => queue.state[n] = "DESIGNING"
    BY <2>3 DEF PhaseInFlight, InFlightStates
  <2>6. k \in {"design", "implement"}
    OBVIOUS
  <2>. HIDE DEF k
  <2>7. queue'.state = [queue.state EXCEPT ![n] = st]
    BY <1>1, <2>1, <2>2, ResetNodeState
  <2>8. queue'.designDone = [queue.designDone EXCEPT ![n] = IF k = "implement" THEN @ ELSE FALSE]
    BY <1>1, <2>1 DEF ResetNode, Queue
  <2>9. k = "design" => queue.designDone[n] = FALSE
    BY <1>1, <2>5 DEF Undesigned, Records, Queue
  <2>10. queue'.designDone = queue.designDone
    <3>1. queue.designDone = [m \in Node |-> queue.designDone[m]]
      BY <1>1 DEF Queue
    <3>2. queue'.designDone = [m \in Node |->
                                IF m = n THEN (IF k = "implement" THEN queue.designDone[n] ELSE FALSE)
                                         ELSE queue.designDone[m]]
      BY <1>1, <2>8 DEF Queue
    <3>3. (IF k = "implement" THEN queue.designDone[n] ELSE FALSE) = queue.designDone[n]
      BY <2>6, <2>9
    <3>. QED BY <3>1, <3>2, <3>3
  <2>. HIDE DEF st
  <2>. QED BY <1>4, <1>7, <2>1, <2>2, <2>4, <2>7, <2>10
<1>18. CASE ObserveOutage(n)
  <2>. DEFINE st == IF queue.state[n] = "DESIGNING" THEN "UNSEEN" ELSE "DESIGNED"
  <2>1. /\ flight[n] = "running" /\ queue' = RecoverInterruptedTask(queue, n)
        /\ saved' = queue' /\ unsaved' = FALSE /\ landed' = landed
    BY <1>18 DEF ObserveOutage, Move, Store, recordVars
  <2>2. queue.state[n] \in InFlightStates
    BY <1>3, <1>4, <2>1
  <2>3. queue'.state = [queue.state EXCEPT ![n] = st]
    BY <1>1, <2>1, <2>2, RecoverTaskState
  <2>4. queue'.designDone = queue.designDone
    BY <1>1, <2>1 DEF RecoverInterruptedTask, Queue
  <2>5. st \in {"FAILED", "UNSEEN", "DESIGNED"} /\ (st = "UNSEEN" => queue.state[n] = "DESIGNING")
    OBVIOUS
  <2>. HIDE DEF st
  <2>. QED BY <1>4, <1>7, <2>1, <2>3, <2>4, <2>5
<1>. QED BY <1>10, <1>11, <1>12, <1>13, <1>14, <1>15, <1>16, <1>17, <1>18 DEF TaskStep

\* A dispatched task joins the running ones; blocking nodes on the way finishes
\* and undoes nothing.
LEMMA DispatchContract ==
  ASSUME BlockInv, StandsInv, ContractInv, DrainAssumption, Dispatch
  PROVE  ContractInv' /\ Contract!Next
<1>. DEFINE q == PropagateDependencyBlocks(queue)
<1>1. PICK t \in NextTask(q) : Store(BeginTask(q, t[1], t[2]))
  BY DEF Dispatch
<1>2. /\ Running /\ Running' /\ Records(queue) /\ coord = "refill" /\ landed' = landed
      /\ coord' \in {"refill", "waiting"}
  BY InvRecords DEF Dispatch, Running, recordVars
<1>3. Records(q)
  BY <1>2, PropagateFrame, PropagateSteady, WalksUndesigned DEF Records
<1>4. /\ t \in Task /\ t[1] \in Node /\ t[2] \in Phase /\ t = <<t[1], t[2]>>
      /\ TaskStatus(q, t[1], t[2]) = "PENDING" /\ DependenciesMet(q, t[1], t[2])
  BY NextTaskRunnable DEF Task
<1>5. /\ q.designDone = queue.designDone
      /\ \A m \in Node : \/ q.state[m] = queue.state[m]
                         \/ q.state[m] = "BLOCKED_BY_DEPENDENCY" /\ queue.state[m] \in {"UNSEEN", "DESIGNED"}
  <2>1. q.designDone = queue.designDone
    BY <1>2 DEF PropagateDependencyBlocks, BlockNodes, Queue, Records
  <2>2. ASSUME NEW m \in Node
        PROVE \/ q.state[m] = queue.state[m]
              \/ q.state[m] = "BLOCKED_BY_DEPENDENCY" /\ queue.state[m] \in {"UNSEEN", "DESIGNED"}
    <3>1. q.state[m] = IF m \in NewlyBlocked(queue) THEN "BLOCKED_BY_DEPENDENCY" ELSE queue.state[m]
      BY <1>2 DEF PropagateDependencyBlocks, BlockNodes, Queue, Records
    <3>2. m \in NewlyBlocked(queue) => Blockable(queue, m)
      BY <1>2, NewlyBlockedCaused DEF Cause, Records
    <3>3. Blockable(queue, m) => queue.state[m] \notin InFlightStates
            /\ (DesignStatusOf(queue, m) = "PENDING" \/ ImplementStatusOf(queue, m) = "PENDING")
      BY DEF Blockable, Phase, DesignStatusOf, ImplementStatusOf
    <3>4. Blockable(queue, m) => queue.state[m] \in {"UNSEEN", "DESIGNED"}
      BY <1>2, <3>3, StatusOf DEF InFlightStates, Records
    <3>. QED BY <3>1, <3>2, <3>4
  <2>. HIDE DEF q
  <2>. QED BY <2>1, <2>2
<1>. HIDE DEF q
<1>. DEFINE n == t[1]
            ph == t[2]
            st == IF ph = "DESIGN" THEN "DESIGNING" ELSE "IMPLEMENTING"
<1>6. queue' = BeginTask(q, n, ph) /\ saved' = queue' /\ unsaved' = FALSE
  BY <1>1 DEF Store
<1>7. n \in Node /\ ph \in Phase /\ TaskStatus(q, n, ph) = "PENDING" /\ DependenciesMet(q, n, ph)
      /\ t = <<n, ph>>
  BY <1>4
<1>. HIDE DEF n, ph
<1>8. /\ queue' \in Queue /\ queue'.state = [q.state EXCEPT ![n] = st]
      /\ queue'.designDone = q.designDone /\ DesignsRecorded(queue')
  BY <1>3, <1>6, <1>7, BeginTaskType, BeginTaskState, BeginStands DEF Records
<1>9. queue'.state[n] = st /\ \A m \in Node \ {n} : queue'.state[m] = q.state[m]
  <2>1. q.state \in [Node -> NodeState]
    BY <1>3 DEF Queue, Records
  <2>. HIDE DEF st
  <2>. QED BY <1>7, <1>8, <2>1
<1>10. /\ ph = "DESIGN" => q.state[n] = "UNSEEN"
       /\ ph = "IMPLEMENT" => q.state[n] = "DESIGNED"
  <2>1. ph = "DESIGN" => q.state[n] = "UNSEEN"
    BY <1>3, <1>7, StatusOf DEF DesignStatusOf, Records
  <2>. SUFFICES ASSUME ph = "IMPLEMENT" PROVE q.state[n] = "DESIGNED"
    BY <2>1
  <2>2. ImplementStatusOf(q, n) = "PENDING" /\ DesignStatusOf(q, n) = "COMPLETED"
    BY <1>7 DEF ImplementStatusOf, DependenciesMet
  <2>3. q \in Queue
    BY <1>3 DEF Records
  <2>4. q.state[n] \in {"UNSEEN", "DESIGNED", "DESIGNING"}
    BY <1>7, <2>2, <2>3, StatusOf
  <2>5. \/ q.state[n] \in DesignFinishedStates
        \/ q.state[n] \in {"FAILED", "BLOCKED_BY_DEPENDENCY"}
    BY <1>7, <2>2, <2>3, StatusOf
  <2>. QED BY <2>4, <2>5 DEF DesignFinishedStates, CompletedStates
<1>11. /\ q.state[n] \in {"UNSEEN", "DESIGNED"} /\ queue.state[n] = q.state[n]
       /\ ph = "DESIGN" => ~q.designDone[n]
  <2>1. q.state[n] \in {"UNSEEN", "DESIGNED"}
    BY <1>7, <1>10 DEF Phase
  <2>2. queue.state[n] = q.state[n]
    BY <1>5, <1>7, <2>1
  <2>3. ph = "DESIGN" => ~q.designDone[n]
    BY <1>3, <1>7, <1>10 DEF Records, Undesigned
  <2>. QED BY <2>1, <2>2, <2>3
<1>12. Records(queue')
  <2>1. st = "DESIGNING" => ph = "DESIGN"
    BY <1>7 DEF Phase
  <2>2. st # "UNSEEN"
    OBVIOUS
  <2>. HIDE DEF st
  <2>3. Undesigned(queue')
    BY <1>3, <1>7, <1>8, <1>9, <1>11, <2>1, <2>2 DEF Records, Undesigned
  <2>. QED BY <1>8, <2>3 DEF Records
<1>13. ContractInv'
  <2>1. Undesigned(queue)' /\ Undesigned(saved)'
    BY <1>6, <1>12 DEF Records, Undesigned
  <2>. QED BY <1>6, <2>1 DEF ContractInv, SaveFollows
<1>14. FinishedIn(queue') = FinishedIn(queue) /\ FinishedIn(saved') = FinishedIn(queue)
  <2>1. \A m \in Node : queue'.state[m] \in CompletedStates <=> queue.state[m] \in CompletedStates
    <3>1. \A m \in Node \ {n} : queue'.state[m] \in CompletedStates <=> queue.state[m] \in CompletedStates
      BY <1>5, <1>9 DEF CompletedStates
    <3>2. queue'.state[n] \notin CompletedStates /\ queue.state[n] \notin CompletedStates
      BY <1>9, <1>11 DEF CompletedStates
    <3>. QED BY <3>1, <3>2
  <2>2. queue'.designDone = queue.designDone
    BY <1>5, <1>8
  <2>3. FinishedIn(queue') = FinishedIn(queue)
    BY <1>2, <1>12, <2>1, <2>2, SameFinished DEF Records
  <2>. QED BY <1>6, <2>3
<1>15. <<n, ph>> \notin RunningTasks /\ RunningTasks' = RunningTasks \cup {<<n, ph>>}
  <2>1. \A m \in Node \ {n} : \/ queue'.state[m] = queue.state[m]
                              \/ queue'.state[m] \notin InFlightStates
                                 /\ queue.state[m] \notin InFlightStates
    BY <1>5, <1>9 DEF InFlightStates
  <2>2. queue.state[n] \notin InFlightStates
    BY <1>11 DEF InFlightStates
  <2>. QED BY <1>2, <1>7, <1>9, <2>1, <2>2, JoinsRunning
<1>16. FinishedIn(q) = FinishedIn(queue)
  <2>1. \A m \in Node : q.state[m] \in CompletedStates <=> queue.state[m] \in CompletedStates
    BY <1>5 DEF CompletedStates
  <2>. QED BY <1>2, <1>3, <1>5, <2>1, SameFinished DEF Records
<1>17. <<n, ph>> \notin FinishedIn(queue)
  <2>1. <<n, ph>> \notin FinishedIn(q)
    BY <1>7 DEF FinishedIn
  <2>. QED BY <1>16, <2>1
<1>18. TaskNeeds[<<n, ph>>] \subseteq FinishedIn(queue)
  <2>1. Dependencies[n] \subseteq Node /\ Descendants[n] \subseteq Node
    BY <1>7, TreeAssumption
  <2>2. <<n, ph>> \in Task
    BY <1>7 DEF Task
  <2>3. CASE ph = "DESIGN"
    <3>1. TaskNeeds[<<n, ph>>] = Dependencies[n] \X {IF DesignPipelining THEN "DESIGN" ELSE "IMPLEMENT"}
      BY <2>2, <2>3 DEF TaskNeeds
    <3>2. \A d \in Dependencies[n] :
            TaskStatus(q, d, IF DesignPipelining THEN "DESIGN" ELSE "IMPLEMENT") = "COMPLETED"
      BY <1>7, <2>3 DEF DependenciesMet, DependenciesSatisfied, DesignStatusOf, ImplementStatusOf
    <3>3. TaskNeeds[<<n, ph>>] \subseteq FinishedIn(q)
      BY <2>1, <3>1, <3>2 DEF FinishedIn, Task, Phase
    <3>. QED BY <1>16, <3>3
  <2>4. CASE ph = "IMPLEMENT"
    <3>1. TaskNeeds[<<n, ph>>] = {<<n, "DESIGN">>} \cup (Prerequisites(n) \X {"IMPLEMENT"})
      BY <2>2, <2>4 DEF TaskNeeds
    <3>2. /\ TaskStatus(q, n, "DESIGN") = "COMPLETED"
          /\ \A d \in Prerequisites(n) : TaskStatus(q, d, "IMPLEMENT") = "COMPLETED"
      BY <1>7, <2>4 DEF DependenciesMet, DependenciesSatisfied, DesignStatusOf,
                        ImplementStatusOf, Prerequisites
    <3>3. Prerequisites(n) \subseteq Node
      BY <2>1 DEF Prerequisites
    <3>4. TaskNeeds[<<n, ph>>] \subseteq FinishedIn(q)
      BY <1>7, <3>1, <3>2, <3>3 DEF FinishedIn, Task, Phase
    <3>. QED BY <1>16, <3>4
  <2>. QED BY <1>7, <2>3, <2>4 DEF Phase
<1>19. Contract!Begin(<<n, ph>>)
  BY <1>2, <1>14, <1>15, <1>17, <1>18, FinishedNext DEF Contract!Begin
<1>20. <<n, ph>> \in Task
  BY <1>7 DEF Task
<1>. QED BY <1>13, <1>19, <1>20 DEF Contract!Next

\* The steps of the coordinator are steps of the contract, or none.
LEMMA CoordinateContract ==
  ASSUME BlockInv, StandsInv, ContractInv, DrainAssumption, Coordinate
  PROVE  ContractInv' /\ [Contract!Next]_(Contract!vars)
<1>1. /\ Records(queue) /\ Records(saved)
      /\ queue \in Queue /\ testFailed \subseteq Node
  BY InvRecords DEF Records, BlockInv, TypeOK
<1>2. queue' \in Queue /\ DesignsRecorded(queue')
  <2>1. Next
    BY DEF Next
  <2>2. BlockInv' /\ StandsInv'
    BY <2>1, StepInv, StandsStep
  <2>. QED BY <2>2 DEF BlockInv, TypeOK, StandsInv, DesignsRecorded
<1>3. ASSUME queue' = queue, saved' = saved, unsaved' = unsaved, ~unsaved, landed' = landed,
             Running' <=> Running
      PROVE  ContractInv' /\ UNCHANGED Contract!vars
  <2>1. ContractInv'
    BY <1>3 DEF ContractInv, SaveFollows, Undesigned
  <2>2. RunningTasks' = RunningTasks
    BY <1>3, SameRunning
  <2>. QED BY <1>3, <2>1, <2>2, UnseenStep
<1>4. ASSUME saved' = queue', unsaved' = FALSE, Running, Running', landed' = landed,
             Undesigned(queue'), queue'.designDone = queue.designDone,
             \A m \in Node : \/ queue'.state[m] = queue.state[m]
                             \/ queue'.state[m] \notin InFlightStates \cup CompletedStates
                                /\ queue.state[m] \notin InFlightStates \cup CompletedStates
      PROVE  ContractInv' /\ Contract!Next
  <2>1. ContractInv'
    BY <1>4 DEF ContractInv, SaveFollows, Undesigned
  <2>2. RunningTasks' = RunningTasks
    BY <1>4, SameRunning
  <2>3. \A m \in Node : queue'.state[m] \in CompletedStates <=> queue.state[m] \in CompletedStates
    BY <1>4
  <2>4. FinishedIn(queue') = FinishedIn(queue)
    BY <1>1, <1>2, <1>4, <2>3, SameFinished DEF Records
  <2>5. FinishedIn(saved') = FinishedIn(queue)
    BY <1>4, <2>4
  <2>6. Contract!Save
    BY <1>4, <2>2, <2>4, <2>5, FinishedNext DEF Contract!Save
  <2>. QED BY <2>1, <2>6 DEF Contract!Next
<1>5. CASE SaveQueue
  BY <1>1, <1>4, <1>5 DEF SaveQueue, Store, Running, recordVars, Records
<1>6. CASE Reap
  BY <1>3, <1>6 DEF Reap, queueVars, recordVars, Running
<1>7. CASE EndRun
  <2>1. /\ coord = "drained" /\ coord' = "ended" /\ queue' = queue /\ saved' = saved
        /\ unsaved' = unsaved /\ landed' = landed
    BY <1>7 DEF EndRun, queueVars, recordVars
  <2>2. ~unsaved /\ queue = saved
    BY <2>1 DEF ContractInv, SaveFollows
  <2>3. ContractInv'
    BY <2>1, <2>2 DEF ContractInv, SaveFollows, Undesigned
  <2>4. Running /\ ~Running'
    BY <2>1 DEF Running
  <2>5. \A n \in Node : flight[n] = "none"
    BY <2>1 DEF BlockInv, FlightsInDrain
  <2>6. Quiet(queue)
    BY <2>4, <2>5 DEF StandsInv, StateOwnsFlight, Quiet, Working
  <2>7. RunningTasks = {} /\ RunningTasks' = {}
    BY <2>4, <2>6, NobodyRuns
  <2>8. FinishedIn(queue') = FinishedIn(queue) /\ FinishedIn(saved') = FinishedIn(saved)
        /\ FinishedIn(saved) = FinishedIn(queue)
    BY <2>1, <2>2
  <2>9. Contract!Stop
    BY <2>1, <2>4, <2>7, <2>8, FinishedNext DEF Contract!Stop
  <2>. QED BY <2>3, <2>9 DEF Contract!Next
<1>8. CASE StopRefill
  <2>. DEFINE q == PropagateDependencyBlocks(queue)
  <2>1. /\ Store(q) \/ UNCHANGED queueVars
        /\ coord = "refill" /\ coord' \in {"drained", "waiting"} /\ landed' = landed
    BY <1>8 DEF StopRefill, recordVars
  <2>2. Running /\ Running' /\ ~unsaved
    BY <2>1 DEF Running, ContractInv, SaveFollows
  <2>3. CASE Store(q)
    <3>1. queue' = q /\ saved' = queue' /\ unsaved' = FALSE
      BY <2>3 DEF Store
    <3>2. Undesigned(queue')
      BY <1>1, <3>1, WalksUndesigned DEF Records
    <3>3. queue'.designDone = queue.designDone
      BY <1>1, <3>1 DEF PropagateDependencyBlocks, BlockNodes, Queue
    <3>4. ASSUME NEW m \in Node
          PROVE \/ queue'.state[m] = queue.state[m]
                \/ queue'.state[m] \notin InFlightStates \cup CompletedStates
                   /\ queue.state[m] \notin InFlightStates \cup CompletedStates
      <4>1. queue'.state[m] = IF m \in NewlyBlocked(queue) THEN "BLOCKED_BY_DEPENDENCY" ELSE queue.state[m]
        BY <1>1, <3>1 DEF PropagateDependencyBlocks, BlockNodes, Queue
      <4>2. m \in NewlyBlocked(queue) => Blockable(queue, m)
        BY <1>1, NewlyBlockedCaused DEF Cause
      <4>3. Blockable(queue, m) => queue.state[m] \notin InFlightStates
              /\ (DesignStatusOf(queue, m) = "PENDING" \/ ImplementStatusOf(queue, m) = "PENDING")
        BY DEF Blockable, Phase, DesignStatusOf, ImplementStatusOf
      <4>4. Blockable(queue, m) => queue.state[m] \in {"UNSEEN", "DESIGNED"}
        BY <1>1, <4>3, StatusOf DEF InFlightStates
      <4>. QED BY <4>1, <4>2, <4>4 DEF InFlightStates, CompletedStates
    <3>. QED BY <1>4, <2>1, <2>2, <3>1, <3>2, <3>3, <3>4
  <2>4. CASE UNCHANGED queueVars
    BY <1>3, <2>1, <2>2, <2>4 DEF queueVars
  <2>. QED BY <2>1, <2>3, <2>4
<1>9. CASE AutoRetry
  <2>. DEFINE r == ResetNodes(queue, TddRetryIds)
  <2>1. /\ coord = "drained" /\ coord' = "saving" /\ saved' = saved /\ unsaved' = TRUE
        /\ landed' = landed /\ queue' = ReleaseDependencyBlocks(r)
    BY <1>9 DEF AutoRetry
  <2>2. TddRetryIds \in SUBSET Node /\ \A n \in TddRetryIds : queue.state[n] = "FAILED"
    BY <1>1 DEF TddRetryIds
  <2>3. \A n \in Node : flight[n] = "none"
    BY <2>1 DEF BlockInv, FlightsInDrain
  <2>4. Running /\ Running'
    BY <2>1 DEF Running
  <2>5. Quiet(queue)
    BY <2>3, <2>4 DEF StandsInv, StateOwnsFlight, Quiet, Working
  <2>6. Records(r) /\ Quiet(r)
    BY <1>1, <2>2, <2>5, ResetNodesType, ResetNodesRecords, ResetNodesUndesigned DEF Records
  <2>7. DoneIn(queue, r) /\ DoneIn(r, queue)
    BY <1>1, <2>2, ResetNodesDone
  <2>. HIDE DEF r
  <2>8. Quiet(queue') /\ Undesigned(queue')
    BY <2>1, <2>6, ReleaseQuiet, WalksUndesigned DEF Records
  <2>9. DoneIn(r, queue') /\ DoneIn(queue', r)
    BY <2>1, <2>6, ReleaseDone DEF Records
  <2>10. DoneIn(queue, queue') /\ DoneIn(queue', queue)
    BY <2>7, <2>9, DoneTransitive
  <2>11. FinishedIn(queue') = FinishedIn(queue)
    <3>1. FinishedIn(queue') \subseteq FinishedIn(queue)
      BY <2>10, FinishedSubset
    <3>2. FinishedIn(queue) \subseteq FinishedIn(queue')
      BY <2>10, FinishedSubset
    <3>. QED BY <3>1, <3>2
  <2>12. RunningTasks = {} /\ RunningTasks' = {}
    BY <2>5, <2>8, NobodyRuns
  <2>13. UNCHANGED Contract!vars
    BY <2>1, <2>4, <2>11, <2>12, UnseenStep
  <2>14. ContractInv'
    BY <2>1, <2>8 DEF ContractInv, SaveFollows, Undesigned
  <2>. QED BY <2>13, <2>14
<1>10. CASE Dispatch
  BY <1>10, DispatchContract
<1>. QED BY <1>5, <1>6, <1>7, <1>8, <1>9, <1>10 DEF Coordinate

\* An invocation starts from the file, with less at most; a crash returns to it.
LEMMA EnvironmentContract ==
  ASSUME BlockInv, StandsInv, DoneSaved, ContractInv, DrainAssumption, Environment
  PROVE  ContractInv' /\ [Contract!Next]_(Contract!vars)
<1>1. Records(queue) /\ Records(saved)
  BY InvRecords
<1>2. DoneSaved'
  BY DoneSavedStep DEF Next
<1>3. ASSUME NEW S \in SUBSET Node, LoadAndPrepare(S), ~Running
      PROVE  ContractInv' /\ Contract!Next
  <2>. DEFINE r == RecoverInterrupted(saved)
  <2>1. Records(r) /\ Quiet(r)
    BY <1>1, RecoverInterruptedType, RecoverRecords, RecoverUndesigned DEF Records
  <2>2. /\ saved' = saved /\ unsaved' = TRUE /\ coord' = "saving" /\ landed' = landed
        /\ queue' = IF S = {} THEN r ELSE ReleaseDependencyBlocks(ResetNodes(r, S))
    BY <1>3 DEF LoadAndPrepare
  <2>. HIDE DEF r
  <2>3. Records(ResetNodes(r, S)) /\ Quiet(ResetNodes(r, S))
    BY <2>1, ResetNodesType, ResetNodesRecords, ResetNodesUndesigned DEF Records
  <2>4. Quiet(queue') /\ Undesigned(queue')
    BY <2>1, <2>2, <2>3, ReleaseQuiet, WalksUndesigned DEF Records
  <2>5. ContractInv'
    BY <2>2, <2>4 DEF ContractInv, SaveFollows, Undesigned
  <2>6. DoneIn(queue', saved)
    BY <1>2, <2>2 DEF DoneSaved, DoneIn, DesignStatusOf, ImplementStatusOf, TaskStatus, DesignDone
  <2>7. FinishedIn(queue') \subseteq FinishedIn(saved) /\ FinishedIn(saved') = FinishedIn(saved)
    BY <2>2, <2>6, FinishedSubset
  <2>8. RunningTasks = {} /\ RunningTasks' = {} /\ Running'
    BY <1>3, <2>2, <2>4, NobodyRuns DEF Running
  <2>9. Contract!Start
    BY <1>3, <2>2, <2>7, <2>8, FinishedNext DEF Contract!Start
  <2>. QED BY <2>5, <2>9 DEF Contract!Next
<1>4. CASE FirstStart
  BY <1>3, <1>4 DEF FirstStart
<1>5. CASE Resume
  <2>1. PICK S \in RetryRequests(RecoverInterrupted(saved)) : LoadAndPrepare(S)
    BY <1>5 DEF Resume
  <2>2. S \in SUBSET Node
    BY DEF RetryRequests, RetryFailedIds, DrainAssumption
  <2>. QED BY <1>3, <1>5, <2>1, <2>2 DEF Resume
<1>6. CASE ResumeUnhealthy
  <2>1. /\ ~Running /\ ~Running' /\ queue' = saved /\ saved' = saved /\ unsaved' = unsaved
        /\ landed' = landed
    BY <1>6 DEF ResumeUnhealthy, recordVars, Running
  <2>2. ~unsaved /\ queue = saved
    BY <2>1 DEF ContractInv, SaveFollows, Running
  <2>3. ContractInv'
    BY <2>1, <2>2 DEF ContractInv, SaveFollows, Undesigned
  <2>4. RunningTasks = {} /\ RunningTasks' = {}
    BY <2>1, NobodyRuns
  <2>5. UNCHANGED Contract!vars
    BY <2>1, <2>2, <2>4, UnseenStep
  <2>. QED BY <2>3, <2>5
<1>7. CASE Crash
  <2>1. /\ Running /\ ~Running' /\ queue' = saved /\ saved' = saved /\ unsaved' = FALSE
        /\ landed' = landed
    BY <1>7 DEF Crash, recordVars, Running
  <2>2. ContractInv'
    BY <2>1 DEF ContractInv, SaveFollows, Undesigned
  <2>3. RunningTasks' = {}
    BY <2>1, NobodyRuns
  <2>4. FinishedIn(queue') = FinishedIn(saved) /\ FinishedIn(saved') = FinishedIn(saved)
    BY <2>1
  <2>5. Contract!Die
    BY <2>1, <2>3, <2>4, FinishedNext DEF Contract!Die
  <2>. QED BY <2>2, <2>5 DEF Contract!Next
<1>. QED BY <1>4, <1>5, <1>6, <1>7 DEF Environment

\* The conjunction of what the proofs above keep.
DrainInv == BlockInv /\ LandedInv /\ StandsInv /\ DoneSaved /\ ContractInv

\* It holds at the start, where the contract starts too ...
LEMMA DrainInit == Init => DrainInv /\ Contract!Init
<1>. SUFFICES ASSUME Init PROVE DrainInv /\ Contract!Init
  OBVIOUS
<1>1. BlockInv /\ StandsInv
  BY InitInv, StandsInit
<1>2. /\ queue = FreshQueue /\ saved = FreshQueue /\ ~unsaved /\ ~Running /\ landed = {}
      /\ \A n \in Node : flight[n] = "none"
  BY DEF Init, Running
<1>3. \A n \in Node : FreshQueue.state[n] = "UNSEEN" /\ FreshQueue.designDone[n] = FALSE
  BY DEF FreshQueue
<1>4. LandedInv
  BY <1>2, <1>3 DEF LandedInv, LandedIn, FlightLanded, DesignDone, DesignFinishedStates,
                    CompletedStates
<1>5. DoneSaved
  BY <1>2, SteadyDone DEF DoneSaved
<1>6. ContractInv
  BY <1>2, <1>3 DEF ContractInv, SaveFollows, Undesigned
<1>7. FinishedIn(FreshQueue) = {}
  <2>1. ASSUME NEW t \in Task PROVE t \notin FinishedIn(FreshQueue)
    <3>1. t[1] \in Node /\ t[2] \in Phase
      BY DEF Task
    <3>2. TaskStatus(FreshQueue, t[1], t[2]) = "PENDING"
      BY <1>3, <3>1 DEF TaskStatus, CompletedStates
    <3>. QED BY <3>2 DEF FinishedIn
  <2>. QED BY <2>1 DEF FinishedIn
<1>8. RunningTasks = {}
  BY <1>2, NobodyRuns
<1>9. Contract!Init
  BY <1>2, <1>7, <1>8 DEF Contract!Init
<1>. QED BY <1>1, <1>4, <1>5, <1>6, <1>9 DEF DrainInv

\* ... and every step keeps it and is a step of the contract, or none.
LEMMA DrainStep == DrainInv /\ [Next]_vars => DrainInv' /\ [Contract!Next]_(Contract!vars)
<1>. SUFFICES ASSUME DrainInv, [Next]_vars PROVE DrainInv' /\ [Contract!Next]_(Contract!vars)
  OBVIOUS
<1>1. BlockInv /\ LandedInv /\ StandsInv /\ DoneSaved /\ ContractInv
  BY DEF DrainInv
<1>2. BlockInv' /\ StandsInv' /\ DoneSaved'
  BY <1>1, StepInv, StandsStep, DoneSavedStep
<1>3. CASE UNCHANGED vars
  <2>1. /\ queue' = queue /\ saved' = saved /\ unsaved' = unsaved /\ landed' = landed
        /\ coord' = coord /\ flight' = flight
    BY <1>3 DEF vars, queueVars, recordVars
  <2>2. Running' <=> Running
    BY <2>1 DEF Running
  <2>3. LandedInv' /\ ContractInv'
    BY <1>1, <2>1 DEF LandedInv, LandedIn, FlightLanded, DesignDone, PhaseInFlight,
                      ContractInv, SaveFollows, Undesigned
  <2>4. UNCHANGED Contract!vars
    BY <2>1, <2>2, SameRunning, UnseenStep
  <2>. QED BY <1>2, <2>3, <2>4 DEF DrainInv
<1>4. CASE \E n \in Node : TaskStep(n)
  BY <1>1, <1>2, <1>4, TaskStepLanded, TaskStepContract, DrainAssumption DEF DrainInv
<1>5. CASE Coordinate
  BY <1>1, <1>2, <1>5, OthersLanded, CoordinateContract, DrainAssumption DEF DrainInv
<1>6. CASE Environment
  BY <1>1, <1>2, <1>6, OthersLanded, EnvironmentContract, DrainAssumption DEF DrainInv
<1>. QED BY <1>3, <1>4, <1>5, <1>6 DEF Next

\* The drain implements the contract of module Compilation: what task_status reads
\* off the queue and the saved file, and what is on the integration HEAD, only ever
\* changes as the contract says, whatever the worktrees, merges, requeues, blocks,
\* outages and crashes in between (_drain_runnable_tasks, _execute_task).
THEOREM DrainKeepsContract == Spec => KeepsContract
BY DrainInit, DrainStep, PTL DEF Spec, KeepsContract, Contract!Spec

\* What every keeper of the contract owes, whatever else its queue and its file do:
\* what the saved queue reports as completed is on the integration HEAD.
THEOREM ContractMeansLanded == KeepsContract => []CompletedIsLanded
<1>1. Contract!Init => Contract!WorkIsSafe
  BY DEF Contract!Init, Contract!WorkIsSafe
<1>2. Contract!WorkIsSafe /\ [Contract!Next]_(Contract!vars) => Contract!WorkIsSafe'
  <2>. SUFFICES ASSUME Contract!WorkIsSafe, [Contract!Next]_(Contract!vars)
                PROVE  Contract!WorkIsSafe'
    OBVIOUS
  <2>1. CASE UNCHANGED Contract!vars
    BY <2>1 DEF Contract!vars, Contract!WorkIsSafe
  <2>2. CASE Contract!Start \/ Contract!Save \/ Contract!Stop \/ Contract!Die
    BY <2>2 DEF Contract!Start, Contract!Save, Contract!Stop, Contract!Die, Contract!WorkIsSafe
  <2>3. ASSUME NEW t \in Task,
               Contract!Begin(t) \/ Contract!Land(t) \/ Contract!Finish(t) \/ Contract!GiveUp(t)
        PROVE  Contract!WorkIsSafe'
    BY <2>3 DEF Contract!Begin, Contract!Land, Contract!Finish, Contract!GiveUp,
                Contract!WorkIsSafe
  <2>. QED BY <2>1, <2>2, <2>3 DEF Contract!Next
<1>3. Contract!WorkIsSafe => CompletedIsLanded
  BY DEF Contract!WorkIsSafe, CompletedIsLanded, FinishedIn, Task
<1>. QED BY <1>1, <1>2, <1>3, PTL DEF KeepsContract, Contract!Spec
===============================================================================
