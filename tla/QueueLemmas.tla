------------------------------ MODULE QueueLemmas ------------------------------
(***************************************************************************)
(* What the transitions of the queue make of it, operator by operator, for *)
(* any tree: the lemmas about QueueState that the proofs about the modules *)
(* that drive the queue rest on.                                           *)
(***************************************************************************)
EXTENDS QueueState, TLAPS

-----------------------------------------------------------------------------
(* The queue and its rewrites *)

\* A row starts in the vocabulary of the stage statuses.
LEMMA FreshType ==
  ASSUME NEW n, NEW s
  PROVE  FreshStatus(n, s) \in StageStatus
BY DEF FreshStatus, StageStatus

\* The three row rewrites stay in the vocabulary.
LEMMA RowRewriteType ==
  ASSUME NEW row \in [Stage -> StageStatus], NEW n \in Node,
         NEW d \in BOOLEAN, NEW i \in BOOLEAN, NEW p \in BOOLEAN
  PROVE  /\ ResetRow(row, n, d, i, p) \in [Stage -> StageStatus]
         /\ BlockRow(row) \in [Stage -> StageStatus]
         /\ ReleaseRow(row, n) \in [Stage -> StageStatus]
<1>1. "BLOCKED" \in StageStatus
  BY DEF StageStatus
<1>. QED BY <1>1, FreshType DEF ResetRow, BlockRow, ReleaseRow

\* load_or_create_queue starts from a queue.
LEMMA FreshQueueType == FreshQueue \in Queue
BY FreshType DEF FreshQueue, Queue, FreshRow, NodeState

\* recover_interrupted_task and recover_interrupted return a queue, with no node
\* in flight on the recovered nodes and every other node's state unchanged.
LEMMA RecoverTaskType ==
  ASSUME NEW q \in Queue, NEW n \in Node
  PROVE  RecoverInterruptedTask(q, n) \in Queue
<1>1. q.stage[n] \in [Stage -> StageStatus]
  BY DEF Queue
<1>2. /\ ResetRow(q.stage[n], n, TRUE, FALSE, TRUE) \in [Stage -> StageStatus]
      /\ ResetRow(q.stage[n], n, FALSE, TRUE, TRUE) \in [Stage -> StageStatus]
  BY <1>1, RowRewriteType
<1>3. {"UNSEEN", "DESIGNED"} \subseteq NodeState
  BY DEF NodeState
<1>. QED BY <1>2, <1>3 DEF RecoverInterruptedTask, Queue

\* The recovery after a crash yields a queue.
LEMMA RecoverInterruptedType ==
  ASSUME NEW q \in Queue
  PROVE  /\ RecoverInterrupted(q) \in Queue
         /\ \A n \in Node :
              RecoverInterrupted(q).state[n] =
                CASE q.state[n] = "DESIGNING" -> "UNSEEN"
                  [] q.state[n] = "IMPLEMENTING" -> "DESIGNED"
                  [] OTHER -> q.state[n]
<1>. DEFINE rows == [n \in Node |->
                       [s \in Stage |-> IF q.stage[n][s] = "RUNNING"
                                        THEN FreshStatus(n, s) ELSE q.stage[n][s]]]
            q1 == [q EXCEPT !.stage = rows]
<1>1. rows \in [Node -> [Stage -> StageStatus]]
  BY FreshType DEF Queue
<1>2. q1 \in Queue /\ q1.state = q.state
  BY <1>1 DEF Queue
<1>3. \A n \in Node : RecoverInterruptedTask(q1, n) \in Queue
  BY <1>2, RecoverTaskType
<1>4. \A n \in Node : /\ RecoverInterruptedTask(q1, n).state[n] \in NodeState
                      /\ RecoverInterruptedTask(q1, n).stage[n] \in [Stage -> StageStatus]
  BY <1>3 DEF Queue
<1>5. RecoverInterrupted(q) =
        [q EXCEPT !.state = [n \in Node |-> RecoverInterruptedTask(q1, n).state[n]],
                  !.stage = [n \in Node |-> RecoverInterruptedTask(q1, n).stage[n]]]
  BY DEF RecoverInterrupted
<1>. DEFINE st == [n \in Node |-> RecoverInterruptedTask(q1, n).state[n]]
            sg == [n \in Node |-> RecoverInterruptedTask(q1, n).stage[n]]
<1>a. st \in [Node -> NodeState] /\ sg \in [Node -> [Stage -> StageStatus]]
  BY <1>4
<1>6. RecoverInterrupted(q) \in Queue
  <2>1. RecoverInterrupted(q) = [q EXCEPT !.state = st, !.stage = sg]
    BY <1>5
  <2>. HIDE DEF st, sg
  <2>. QED BY <1>a, <2>1 DEF Queue
<1>7. \A n \in Node : RecoverInterrupted(q).state[n] = RecoverInterruptedTask(q1, n).state[n]
  BY <1>5 DEF Queue
<1>8. \A n \in Node : RecoverInterruptedTask(q1, n).state[n] =
                        CASE q.state[n] = "DESIGNING" -> "UNSEEN"
                          [] q.state[n] = "IMPLEMENTING" -> "DESIGNED"
                          [] OTHER -> q.state[n]
  BY <1>2 DEF RecoverInterruptedTask, Queue
<1>. QED BY <1>6, <1>7, <1>8

\* A reset yields a queue.
LEMMA ResetNodeType ==
  ASSUME NEW q \in Queue, NEW n \in Node, NEW k \in ResetKind
  PROVE  ResetNode(q, n, k) \in Queue
<1>1. q.stage[n] \in [Stage -> StageStatus]
  BY DEF Queue
<1>. DEFINE design == k \in {"design", "full"}
            impl == k \in {"implement", "full"}
<1>a. design \in BOOLEAN /\ impl \in BOOLEAN
  OBVIOUS
<1>2. ResetRow(q.stage[n], n, design, impl, FALSE) \in [Stage -> StageStatus]
  <2>. HIDE DEF design, impl
  <2>. QED BY <1>1, <1>a, RowRewriteType
<1>3. {"UNSEEN", "DESIGNED"} \subseteq NodeState
  BY DEF NodeState
<1>4. q.designDone[n] \in BOOLEAN
  BY DEF Queue
<1>. QED BY <1>2, <1>3, <1>4 DEF ResetNode, Queue

\* The reset chosen for a retry is one of the kinds.
LEMMA RetryKindType ==
  ASSUME NEW q, NEW n
  PROVE  RetryKind(q, n) \in ResetKind
BY DEF RetryKind, ResetKind

\* apply_retry_plan returns a queue.
LEMMA ResetNodesType ==
  ASSUME NEW q \in Queue, NEW S \in SUBSET Node
  PROVE  ResetNodes(q, S) \in Queue
<1>1. \A n \in S : ResetNode(q, n, RetryKind(q, n)) \in Queue
  BY ResetNodeType, RetryKindType
<1>2. \A n \in S : LET a == ResetNode(q, n, RetryKind(q, n)) IN
        a.state[n] \in NodeState /\ a.designDone[n] \in BOOLEAN
        /\ a.stage[n] \in [Stage -> StageStatus]
  BY <1>1 DEF Queue
<1>3. \A n \in Node : /\ q.state[n] \in NodeState
                      /\ q.designDone[n] \in BOOLEAN
                      /\ q.stage[n] \in [Stage -> StageStatus]
  BY DEF Queue
<1>. QED BY <1>2, <1>3 DEF ResetNodes, Queue

\* It releases blocked nodes only.
LEMMA ReleasedWereBlocked ==
  ASSUME NEW q
  PROVE  Released(q) \subseteq {n \in Node : q.state[n] = "BLOCKED_BY_DEPENDENCY"}
<1>. DEFINE T == {n \in Node : q.state[n] = "BLOCKED_BY_DEPENDENCY"}
<1>1. T \in SUBSET Node /\ ReleaseClosed(q, T)
  BY DEF ReleaseClosed
<1>. QED BY <1>1 DEF Released

\* Without blocked nodes there is nothing to release.
LEMMA NothingToRelease ==
  ASSUME NEW q \in Queue, \A n \in Node : q.state[n] # "BLOCKED_BY_DEPENDENCY"
  PROVE  ReleaseDependencyBlocks(q) = q
<1>1. Released(q) = {}
  BY ReleasedWereBlocked
<1>. DEFINE f == [n \in Node |-> IF n \notin {} THEN q.state[n]
                                 ELSE IF DesignDone(q, n) THEN "DESIGNED" ELSE "UNSEEN"]
            g == [n \in Node |-> IF n \in {} THEN ReleaseRow(q.stage[n], n) ELSE q.stage[n]]
<1>2. f = q.state /\ g = q.stage
  BY DEF Queue
<1>3. ReleaseDependencyBlocks(q) = [q EXCEPT !.state = f, !.stage = g]
  BY <1>1 DEF ReleaseDependencyBlocks, ReleaseNodes
<1>. HIDE DEF f, g
<1>. QED BY <1>2, <1>3 DEF Queue

-----------------------------------------------------------------------------
(* The rows of one node *)

\* The stages and the successes, by name.
LEMMA StageSets ==
  /\ Stage = {"VISUAL_ANALYSIS", "INTERFACE_DESIGN", "TEST_GENERATION", "IMPLEMENTATION"}
  /\ TerminalSuccess = {"PUBLISHED", "SKIPPED"}
BY DEF Stage, TerminalSuccess

\* A row of a queue has a status of the vocabulary in every stage.
LEMMA RowTyped ==
  ASSUME NEW q \in Queue, NEW n \in Node
  PROVE  /\ q.state[n] \in NodeState /\ q.designDone[n] \in BOOLEAN
         /\ q.stage[n] \in [Stage -> StageStatus]
         /\ \A s \in Stage : q.stage[n][s] \in StageStatus
BY DEF Queue

\* transition_stage_task changes one row and nothing else.
LEMMA TransitionIs ==
  ASSUME NEW q \in Queue, NEW n \in Node, NEW s \in Stage, NEW st \in StageStatus
  PROVE  LET p == Transition(q, n, s, st) IN
         /\ p \in Queue /\ p.state = q.state /\ p.designDone = q.designDone
         /\ \A m \in Node, u \in Stage :
              p.stage[m][u] = IF m = n /\ u = s THEN st ELSE q.stage[m][u]
<1>. DEFINE p == Transition(q, n, s, st)
<1>1. \A m \in Node : q.stage[m] \in [Stage -> StageStatus]
  BY RowTyped
<1>. DEFINE g == [q.stage EXCEPT ![n] = [q.stage[n] EXCEPT ![s] = st]]
<1>3. g \in [Node -> [Stage -> StageStatus]]
  BY <1>1 DEF Queue
<1>4. \A m \in Node, u \in Stage : g[m][u] = IF m = n /\ u = s THEN st ELSE q.stage[m][u]
  BY <1>1 DEF Queue
<1>2. p = [q EXCEPT !.stage = g]
  BY DEF Transition
<1>. HIDE DEF g, p
<1>5. p.stage = g /\ p.state = q.state /\ p.designDone = q.designDone
  BY <1>2 DEF Queue
<1>6. p \in Queue
  BY <1>2, <1>3 DEF Queue
<1>. QED BY <1>4, <1>5, <1>6 DEF p

-----------------------------------------------------------------------------
(* A step that writes one node *)

\* What a step writes at one node.
Written(q, p, n, st, d, row) ==
  /\ p \in Queue
  /\ p.state[n] = st /\ p.designDone[n] = d /\ p.stage[n] = row
  /\ \A m \in Node \ {n} : /\ p.state[m] = q.state[m] /\ p.designDone[m] = q.designDone[m]
                           /\ \A u \in Stage : p.stage[m][u] = q.stage[m][u]

\* A node written with its state, its design flag and its rows.
LEMMA WriteNode ==
  ASSUME NEW q \in Queue, NEW n \in Node, NEW st \in NodeState, NEW d \in BOOLEAN,
         NEW row \in [Stage -> StageStatus], NEW p,
         p = [q EXCEPT !.state[n] = st, !.designDone[n] = d, !.stage[n] = row]
  PROVE  Written(q, p, n, st, d, row)
<1>. DEFINE f == [q.state EXCEPT ![n] = st]
            g == [q.designDone EXCEPT ![n] = d]
            h == [q.stage EXCEPT ![n] = row]
<1>1. /\ f \in [Node -> NodeState] /\ f[n] = st
      /\ \A m \in Node \ {n} : f[m] = q.state[m]
  BY DEF Queue
<1>2. /\ g \in [Node -> BOOLEAN] /\ g[n] = d
      /\ \A m \in Node \ {n} : g[m] = q.designDone[m]
  BY DEF Queue
<1>3. /\ h \in [Node -> [Stage -> StageStatus]] /\ h[n] = row
      /\ \A m \in Node \ {n} : h[m] = q.stage[m]
  BY DEF Queue
<1>4. p = [q EXCEPT !.state = f, !.designDone = g, !.stage = h]
  OBVIOUS
<1>. HIDE DEF f, g, h
<1>5. p \in Queue /\ p.state = f /\ p.designDone = g /\ p.stage = h
  BY <1>1, <1>2, <1>3, <1>4 DEF Queue
<1>. QED BY <1>1, <1>2, <1>3, <1>5 DEF Written

\* A node written with its state and its rows.
LEMMA WriteRow ==
  ASSUME NEW q \in Queue, NEW n \in Node, NEW st \in NodeState,
         NEW row \in [Stage -> StageStatus], NEW p,
         p = [q EXCEPT !.state[n] = st, !.stage[n] = row]
  PROVE  Written(q, p, n, st, q.designDone[n], row)
<1>. DEFINE f == [q.state EXCEPT ![n] = st]
            h == [q.stage EXCEPT ![n] = row]
<1>1. /\ f \in [Node -> NodeState] /\ f[n] = st
      /\ \A m \in Node \ {n} : f[m] = q.state[m]
  BY DEF Queue
<1>2. /\ h \in [Node -> [Stage -> StageStatus]] /\ h[n] = row
      /\ \A m \in Node \ {n} : h[m] = q.stage[m]
  BY DEF Queue
<1>3. p = [q EXCEPT !.state = f, !.stage = h]
  OBVIOUS
<1>. HIDE DEF f, h
<1>4. p \in Queue /\ p.state = f /\ p.designDone = q.designDone /\ p.stage = h
  BY <1>1, <1>2, <1>3 DEF Queue
<1>. QED BY <1>1, <1>2, <1>4 DEF Written

-----------------------------------------------------------------------------
(* fail_stage_task *)

\* The stages behind each stage.
LEMMA LaterStages ==
  \A s, u \in Stage :
    StageIndex[u] <= StageIndex[s] <=>
      \/ u = "VISUAL_ANALYSIS" \/ s = "IMPLEMENTATION" \/ u = s
      \/ u = "INTERFACE_DESIGN" /\ s = "TEST_GENERATION"
BY DEF Stage, StageIndex

\* The failed row is a row.
LEMMA FailedRowType ==
  ASSUME NEW row \in [Stage -> StageStatus], NEW s \in Stage
  PROVE  FailedRow(row, s) \in [Stage -> StageStatus]
BY DEF FailedRow, Behind, StageStatus

\* What it makes of the queue.
LEMMA FailStageIs ==
  ASSUME NEW q \in Queue, NEW n \in Node, NEW s \in Stage
  PROVE  Written(q, FailStage(q, n, s), n, "FAILED", q.designDone[n],
                 FailedRow(q.stage[n], s))
<1>. DEFINE row == FailedRow(q.stage[n], s)
            p == FailStage(q, n, s)
<1>1. p = [q EXCEPT !.state[n] = "FAILED", !.stage[n] = row]
  BY DEF FailStage
<1>2. row \in [Stage -> StageStatus] /\ "FAILED" \in NodeState
  BY FailedRowType, RowTyped DEF NodeState
<1>. HIDE DEF row, p
<1>3. Written(q, p, n, "FAILED", q.designDone[n], row)
  BY <1>1, <1>2, WriteRow
<1>. QED BY <1>3 DEF p, row

\* The failed row, stage by stage.
LEMMA FailedRowBy ==
  ASSUME NEW row, NEW s \in Stage
  PROVE  LET f == FailedRow(row, s) IN
    /\ s = "VISUAL_ANALYSIS" =>
         /\ f["VISUAL_ANALYSIS"] = "FAILED"
         /\ f["INTERFACE_DESIGN"] = Behind(row["INTERFACE_DESIGN"])
         /\ f["TEST_GENERATION"] = Behind(row["TEST_GENERATION"])
         /\ f["IMPLEMENTATION"] = Behind(row["IMPLEMENTATION"])
    /\ s # "VISUAL_ANALYSIS" => f["VISUAL_ANALYSIS"] = row["VISUAL_ANALYSIS"]
    /\ s = "INTERFACE_DESIGN" =>
         /\ f["INTERFACE_DESIGN"] = "FAILED"
         /\ f["TEST_GENERATION"] = Behind(row["TEST_GENERATION"])
         /\ f["IMPLEMENTATION"] = Behind(row["IMPLEMENTATION"])
    /\ s = "TEST_GENERATION" =>
         /\ f["INTERFACE_DESIGN"] = row["INTERFACE_DESIGN"]
         /\ f["TEST_GENERATION"] = "FAILED"
         /\ f["IMPLEMENTATION"] = Behind(row["IMPLEMENTATION"])
    /\ s = "IMPLEMENTATION" =>
         /\ f["INTERFACE_DESIGN"] = row["INTERFACE_DESIGN"]
         /\ f["TEST_GENERATION"] = row["TEST_GENERATION"]
         /\ f["IMPLEMENTATION"] = "FAILED"
<1>. DEFINE f == FailedRow(row, s)
<1>1. \A u \in Stage : f[u] = IF u = s THEN "FAILED"
                   ELSE IF StageIndex[u] <= StageIndex[s] THEN row[u] ELSE Behind(row[u])
  BY DEF FailedRow
<1>. HIDE DEF f
<1>2. \A u, v \in Stage : StageIndex[u] <= StageIndex[v] <=>
      \/ u = "VISUAL_ANALYSIS" \/ v = "IMPLEMENTATION" \/ u = v
      \/ u = "INTERFACE_DESIGN" /\ v = "TEST_GENERATION"
  BY LaterStages
<1>3. CASE s = "VISUAL_ANALYSIS"
  BY <1>1, <1>2, <1>3, StageSets DEF f
<1>4. CASE s = "INTERFACE_DESIGN"
  BY <1>1, <1>2, <1>4, StageSets DEF f
<1>5. CASE s = "TEST_GENERATION"
  BY <1>1, <1>2, <1>5, StageSets DEF f
<1>6. CASE s = "IMPLEMENTATION"
  BY <1>1, <1>2, <1>6, StageSets DEF f
<1>. QED BY <1>3, <1>4, <1>5, <1>6, StageSets

-----------------------------------------------------------------------------
(* begin_task *)

\* The phase a stage begins, and the state its node is then in.
PhaseOf(s) == IF s = "IMPLEMENTATION" THEN "IMPLEMENT" ELSE "DESIGN"

PhaseState(s) == IF s = "IMPLEMENTATION" THEN "IMPLEMENTING" ELSE "DESIGNING"

\* The stage that begins a phase is running already: only the state changes.
LEMMA BeginTaskIs ==
  ASSUME NEW q \in Queue, NEW n \in Node, NEW s \in {"INTERFACE_DESIGN", "IMPLEMENTATION"},
         q.stage[n][s] = "RUNNING"
  PROVE  LET p == BeginTask(q, n, PhaseOf(s)) IN
         /\ p \in Queue /\ p.designDone = q.designDone
         /\ \A m \in Node : p.state[m] = IF m = n THEN PhaseState(s) ELSE q.state[m]
         /\ \A m \in Node, u \in Stage : p.stage[m][u] = q.stage[m][u]
<1>. DEFINE p == BeginTask(q, n, PhaseOf(s))
            states == [q.state EXCEPT ![n] = PhaseState(s)]
            rows == [q.stage EXCEPT ![n] = SetIfAllowed(q.stage[n], s, "RUNNING")]
<1>1. p = [q EXCEPT !.state = states, !.stage = rows]
  BY DEF BeginTask, PhaseOf, PhaseState
<1>2. SetIfAllowed(q.stage[n], s, "RUNNING") = q.stage[n]
  BY DEF SetIfAllowed, AllowedFrom, StageStatus
<1>3. \A m \in Node : q.stage[m] \in [Stage -> StageStatus]
  BY RowTyped
<1>4. /\ rows \in [Node -> [Stage -> StageStatus]]
      /\ \A m \in Node : rows[m] = q.stage[m]
  BY <1>2, <1>3 DEF Queue
<1>5. /\ states \in [Node -> NodeState]
      /\ \A m \in Node : states[m] = IF m = n THEN PhaseState(s) ELSE q.state[m]
  BY DEF Queue, PhaseState, NodeState, InFlightStates
<1>. HIDE DEF states, rows, p
<1>6. p \in Queue /\ p.state = states /\ p.stage = rows /\ p.designDone = q.designDone
  BY <1>1, <1>4, <1>5 DEF Queue
<1>. QED BY <1>4, <1>5, <1>6 DEF p

-----------------------------------------------------------------------------
(* recover_interrupted *)

Restarted(q, n, s) ==
  IF q.stage[n][s] = "RUNNING" THEN FreshStatus(n, s) ELSE q.stage[n][s]

\* What recovery makes of a row: what ran starts again, and so does the phase the
\* node was in, but for what it had published.
RowsRecovered(q, n, s) ==
  LET inPhase == \/ q.state[n] = "DESIGNING" /\ s \in DesignStages
                 \/ q.state[n] = "IMPLEMENTING" /\ s = "IMPLEMENTATION"
  IN  IF inPhase /\ Restarted(q, n, s) \notin TerminalSuccess
      THEN FreshStatus(n, s) ELSE Restarted(q, n, s)

\* recover_interrupted, row by row.
LEMMA RecoverIs ==
  ASSUME NEW q \in Queue
  PROVE  LET p == RecoverInterrupted(q) IN
         /\ p \in Queue /\ p.designDone = q.designDone
         /\ \A n \in Node : p.state[n] =
              IF q.state[n] = "DESIGNING" THEN "UNSEEN"
              ELSE IF q.state[n] = "IMPLEMENTING" THEN "DESIGNED" ELSE q.state[n]
         /\ \A n \in Node, s \in Stage : p.stage[n][s] = RowsRecovered(q, n, s)
<1>. DEFINE rows == [n \in Node |->
                       [s \in Stage |-> IF q.stage[n][s] = "RUNNING"
                                        THEN FreshStatus(n, s) ELSE q.stage[n][s]]]
            q1 == [q EXCEPT !.stage = rows]
            st == [n \in Node |-> RecoverInterruptedTask(q1, n).state[n]]
            sg == [n \in Node |-> RecoverInterruptedTask(q1, n).stage[n]]
            p == RecoverInterrupted(q)
<1>1. p = [q EXCEPT !.state = st, !.stage = sg]
  BY DEF RecoverInterrupted
<1>2. \A n \in Node, s \in Stage : rows[n][s] = Restarted(q, n, s)
  BY DEF Restarted
<1>3. rows \in [Node -> [Stage -> StageStatus]]
  BY FreshType DEF Queue
<1>. HIDE DEF rows
<1>4. q1 \in Queue /\ q1.state = q.state /\ q1.stage = rows
  BY <1>3 DEF Queue
<1>. HIDE DEF q1
<1>5. ASSUME NEW n \in Node
      PROVE  /\ RecoverInterruptedTask(q1, n).state[n] =
                  IF q.state[n] = "DESIGNING" THEN "UNSEEN"
                  ELSE IF q.state[n] = "IMPLEMENTING" THEN "DESIGNED" ELSE q.state[n]
             /\ \A s \in Stage : RecoverInterruptedTask(q1, n).stage[n][s] = RowsRecovered(q, n, s)
  <2>1. q1.stage[n] \in [Stage -> StageStatus] /\ q1.state[n] = q.state[n]
    BY <1>4 DEF Queue
  <2>2. \A s \in Stage : q1.stage[n][s] = Restarted(q, n, s)
    BY <1>2, <1>4
  <2>3. Stage = DesignStages \cup {"IMPLEMENTATION"} /\ "IMPLEMENTATION" \notin DesignStages
    BY DEF Stage, DesignStages
  <2>4. ASSUME q.state[n] = "DESIGNING"
        PROVE  /\ RecoverInterruptedTask(q1, n).state[n] = "UNSEEN"
               /\ \A s \in Stage : RecoverInterruptedTask(q1, n).stage[n][s] = RowsRecovered(q, n, s)
    <3>. DEFINE row == ResetRow(q1.stage[n], n, TRUE, FALSE, TRUE)
                z == RecoverInterruptedTask(q1, n)
    <3>1. row \in [Stage -> StageStatus]
      BY <2>1, RowRewriteType
    <3>2. \A s \in Stage : row[s] = RowsRecovered(q, n, s)
      BY <2>2, <2>3, <2>4 DEF ResetRow, RowsRecovered
    <3>3. z = [q1 EXCEPT !.state[n] = "UNSEEN", !.stage[n] = row]
      BY <2>1, <2>4 DEF RecoverInterruptedTask
    <3>4. "UNSEEN" \in NodeState
      BY DEF NodeState
    <3>. HIDE DEF row, z
    <3>5. Written(q1, z, n, "UNSEEN", q1.designDone[n], row)
      BY <1>4, <3>1, <3>3, <3>4, WriteRow
    <3>. QED BY <3>2, <3>5 DEF Written, z
  <2>5. ASSUME q.state[n] = "IMPLEMENTING"
        PROVE  /\ RecoverInterruptedTask(q1, n).state[n] = "DESIGNED"
               /\ \A s \in Stage : RecoverInterruptedTask(q1, n).stage[n][s] = RowsRecovered(q, n, s)
    <3>. DEFINE row == ResetRow(q1.stage[n], n, FALSE, TRUE, TRUE)
                z == RecoverInterruptedTask(q1, n)
    <3>1. row \in [Stage -> StageStatus]
      BY <2>1, RowRewriteType
    <3>2. \A s \in Stage : row[s] = RowsRecovered(q, n, s)
      BY <2>2, <2>3, <2>5 DEF ResetRow, RowsRecovered
    <3>3. z = [q1 EXCEPT !.state[n] = "DESIGNED", !.stage[n] = row]
      BY <2>1, <2>5 DEF RecoverInterruptedTask
    <3>4. "DESIGNED" \in NodeState
      BY DEF NodeState
    <3>. HIDE DEF row, z
    <3>5. Written(q1, z, n, "DESIGNED", q1.designDone[n], row)
      BY <1>4, <3>1, <3>3, <3>4, WriteRow
    <3>. QED BY <3>2, <3>5 DEF Written, z
  <2>6. ASSUME q.state[n] \notin {"DESIGNING", "IMPLEMENTING"}
        PROVE  /\ RecoverInterruptedTask(q1, n).state[n] = q.state[n]
               /\ \A s \in Stage : RecoverInterruptedTask(q1, n).stage[n][s] = RowsRecovered(q, n, s)
    <3>1. RecoverInterruptedTask(q1, n) = q1
      BY <2>1, <2>6 DEF RecoverInterruptedTask
    <3>2. \A s \in Stage : RowsRecovered(q, n, s) = Restarted(q, n, s)
      BY <2>6 DEF RowsRecovered
    <3>. QED BY <2>1, <2>2, <3>1, <3>2
  <2>. QED BY <2>4, <2>5, <2>6
<1>6. p \in Queue
  BY RecoverInterruptedType
<1>. HIDE DEF st, sg
<1>7. p.state = st /\ p.stage = sg /\ p.designDone = q.designDone
  <2>. HIDE DEF p
  <2>. QED BY <1>1 DEF Queue
<1>. HIDE DEF p
<1>8. \A n \in Node : st[n] = RecoverInterruptedTask(q1, n).state[n]
                      /\ sg[n] = RecoverInterruptedTask(q1, n).stage[n]
  BY DEF st, sg
<1>. QED BY <1>5, <1>6, <1>7, <1>8 DEF p
=============================================================================
