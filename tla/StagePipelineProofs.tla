-------------------------- MODULE StagePipelineProofs --------------------------
(***************************************************************************)
(* What StagePipeline promises for every tree, every order of the stages   *)
(* and every value of the switches and bounds: what is published is on the *)
(* integration HEAD, a stage stands on published work, no transition of    *)
(* the coordinator raises, and a run ends with nothing left to do.         *)
(*                                                                         *)
(* What loading its queue (QueueLoading) promises, whatever was declared   *)
(* and whatever a file holds: the edges that are kept never make the tree  *)
(* order cyclic, and no edge is lost for nothing.                          *)
(***************************************************************************)
EXTENDS StagePipeline, QueueLoading, QueueLemmas, WellFoundedInduction, TLAPS

-----------------------------------------------------------------------------
(* The rows of one node *)

Unfinished == {"PENDING", "RUNNING", "RETRY_WAIT"}

\* The whole design of the node is published.
Designed(q, n) ==
  /\ q.stage[n]["INTERFACE_DESIGN"] \in TerminalSuccess
  /\ q.stage[n]["TEST_GENERATION"] \in TerminalSuccess

\* How the four rows of a node and its state go together between two steps.
RowOK(q, n) ==
  LET analysis == q.stage[n]["VISUAL_ANALYSIS"]
      design == q.stage[n]["INTERFACE_DESIGN"]
      tests == q.stage[n]["TEST_GENERATION"]
      implementation == q.stage[n]["IMPLEMENTATION"]
  IN  /\ q.state[n] # "BLOCKED_BY_DEPENDENCY"
      /\ {design, tests, implementation} \cap {"READY", "RETRY_WAIT"} = {}
      /\ IsLeaf(n) <=> tests # "SKIPPED"
      /\ design \in {"PENDING", "RUNNING", "READY_TO_MERGE"} => tests \in {"PENDING", "SKIPPED"}
      /\ analysis \in Unfinished =>
           design = "PENDING" \/ (design \in TerminalSuccess /\ tests = "PENDING")
      /\ Designed(q, n) => analysis \in TerminalSuccess
      /\ DesignDone(q, n) => Designed(q, n)
      /\ {design, tests} \cap {"FAILED", "BLOCKED"} # {} => q.state[n] = "FAILED"
      /\ design = "BLOCKED" => analysis = "FAILED"
      /\ tests = "BLOCKED" => "FAILED" \in {analysis, design}
      /\ implementation = "BLOCKED" /\ Designed(q, n) => q.state[n] = "DESIGNED"
      /\ implementation \in {"RUNNING", "READY_TO_MERGE"} => Designed(q, n)
      /\ design = "READY_TO_MERGE" => q.state[n] = "DESIGNING"
      /\ implementation = "READY_TO_MERGE" => q.state[n] = "IMPLEMENTING"

Rows(q) == \A n \in Node : RowOK(q, n)

\* The stages, by name.
LEMMA StageNames ==
  /\ Stage = {"VISUAL_ANALYSIS", "INTERFACE_DESIGN", "TEST_GENERATION", "IMPLEMENTATION"}
  /\ FormalStage = {"INTERFACE_DESIGN", "TEST_GENERATION", "IMPLEMENTATION"}
  /\ TerminalSuccess = {"PUBLISHED", "SKIPPED"}
BY DEF Stage, FormalStage, TerminalSuccess

\* What a node's rows say depends on the node alone.
LEMMA RowFrame ==
  ASSUME NEW q, NEW p, NEW n \in Node, RowOK(q, n),
         p.state[n] = q.state[n], p.designDone[n] = q.designDone[n],
         \A s \in Stage : p.stage[n][s] = q.stage[n][s]
  PROVE  RowOK(p, n)
BY StageNames DEF RowOK, Designed, DesignDone

\* A step that writes one node.
LEMMA OneNodeRows ==
  ASSUME NEW q, NEW p, NEW n \in Node, Rows(q), RowOK(p, n),
         \A m \in Node \ {n} : p.state[m] = q.state[m] /\ p.designDone[m] = q.designDone[m],
         \A m \in Node \ {n}, s \in Stage : p.stage[m][s] = q.stage[m][s]
  PROVE  Rows(p)
<1>1. ASSUME NEW m \in Node, m # n PROVE RowOK(p, m)
  <2>1. RowOK(q, m) /\ p.state[m] = q.state[m] /\ p.designDone[m] = q.designDone[m]
    BY <1>1 DEF Rows
  <2>2. \A s \in Stage : p.stage[m][s] = q.stage[m][s]
    BY <1>1
  <2>. QED BY <2>1, <2>2, RowFrame
<1>. QED BY <1>1 DEF Rows

\* At most one formal stage of a node is running or waits to be merged, and none
\* while its analysis is not over.
LEMMA OneActive ==
  ASSUME NEW q, NEW n \in Node, RowOK(q, n), NEW s \in FormalStage,
         q.stage[n][s] \in {"RUNNING", "READY_TO_MERGE"}
  PROVE  /\ q.stage[n]["VISUAL_ANALYSIS"] \notin Unfinished
         /\ \A u \in FormalStage : q.stage[n][u] \in {"RUNNING", "READY_TO_MERGE"} => u = s
BY StageNames DEF RowOK, Designed, Unfinished

-----------------------------------------------------------------------------
(* The gates *)

\* aggregate_phase_status and the parent's gate, in terms of the rows.
LEMMA PhaseCompleted ==
  ASSUME NEW q \in Queue, NEW n \in Node
  PROVE  /\ AggregatePhaseStatus(q, n, "DESIGN") = "COMPLETED" <=> Designed(q, n)
         /\ AggregatePhaseStatus(q, n, "IMPLEMENT") = "COMPLETED" <=>
              q.stage[n]["IMPLEMENTATION"] \in TerminalSuccess
<1>1. \A s \in Stage : q.stage[n][s] \in StageStatus
  BY RowTyped
<1>2. AggregatePhaseStatus(q, n, "DESIGN") = "COMPLETED" <=> Designed(q, n)
  BY <1>1, StageNames DEF AggregatePhaseStatus, Designed, StageStatus
<1>3. AggregatePhaseStatus(q, n, "IMPLEMENT") = "COMPLETED" <=>
        q.stage[n]["IMPLEMENTATION"] \in TerminalSuccess
  BY <1>1, StageNames DEF AggregatePhaseStatus, StageStatus
<1>. QED BY <1>2, <1>3

\* A parent that is settled, in terms of its rows and its state.
LEMMA SettledRows ==
  ASSUME NEW q \in Queue, NEW n \in Node
  PROVE  ParentSettled(q, n) <=>
           LET design == {q.stage[n]["INTERFACE_DESIGN"], q.stage[n]["TEST_GENERATION"]} IN
           \/ "FAILED" \in design
           \/ "BLOCKED" \in design /\ q.state[n] = "FAILED"
           \/ Designed(q, n)
<1>1. \A s \in Stage : q.stage[n][s] \in StageStatus
  BY RowTyped
<1>. QED BY <1>1, StageNames DEF ParentSettled, AggregatePhaseStatus, Designed, StageStatus

\* What no step of a running drain takes back: a published stage, a finished
\* analysis, a settled parent.
Keeps(q, p) ==
  \A n \in Node :
    /\ \A s \in Stage : q.stage[n][s] \in TerminalSuccess => p.stage[n][s] \in TerminalSuccess
    /\ q.stage[n]["VISUAL_ANALYSIS"] = "READY" =>
         p.stage[n]["VISUAL_ANALYSIS"] \in {"READY"} \cup TerminalSuccess
    /\ ParentSettled(q, n) => ParentSettled(p, n)

\* So an open gate stays open.
LEMMA KeepsGate ==
  ASSUME NEW q \in Queue, NEW p \in Queue, Keeps(q, p), NEW t \in StageTask,
         PrerequisitesMet(q, t)
  PROVE  PrerequisitesMet(p, t)
<1>1. t[1] \in Node /\ t[2] \in FormalStage
  BY DEF StageTask
<1>2. /\ t[1] \in DOMAIN Parents => Parents[t[1]] \in Node
      /\ Dependencies[t[1]] \subseteq Node /\ Descendants[t[1]] \subseteq Node
  BY <1>1, TreeAssumption
<1>3. \A m \in Node : Designed(q, m) => Designed(p, m)
  BY StageNames DEF Keeps, Designed
<1>4. \A m \in Node : q.stage[m]["IMPLEMENTATION"] \in TerminalSuccess
                        => p.stage[m]["IMPLEMENTATION"] \in TerminalSuccess
  BY StageNames DEF Keeps
<1>5. \A m \in Node, ph \in Phase :
        AggregatePhaseStatus(q, m, ph) = "COMPLETED" => AggregatePhaseStatus(p, m, ph) = "COMPLETED"
  BY <1>3, <1>4, PhaseCompleted DEF Phase
<1>6. DesignDependenciesMet(q, t[1]) => DesignDependenciesMet(p, t[1])
  BY <1>1, <1>2, <1>5 DEF DesignDependenciesMet, Keeps, Phase
<1>7. ImplementationDependenciesMet(q, t[1]) => ImplementationDependenciesMet(p, t[1])
  BY <1>1, <1>2, <1>5 DEF ImplementationDependenciesMet, Phase
<1>8. \A s \in Stage : q.stage[t[1]][s] \in TerminalSuccess => p.stage[t[1]][s] \in TerminalSuccess
  BY <1>1 DEF Keeps
<1>9. q.stage[t[1]]["VISUAL_ANALYSIS"] \in {"READY"} \cup TerminalSuccess
        => p.stage[t[1]]["VISUAL_ANALYSIS"] \in {"READY"} \cup TerminalSuccess
  BY <1>1, <1>8, StageNames DEF Keeps
<1>. QED BY <1>6, <1>7, <1>8, <1>9, StageNames DEF PrerequisitesMet

\* What an open gate says of the node's own rows.
LEMMA GateRows ==
  ASSUME NEW q \in Queue, NEW n \in Node, NEW s \in FormalStage, RowOK(q, n),
         PrerequisitesMet(q, <<n, s>>)
  PROVE  /\ q.stage[n]["VISUAL_ANALYSIS"] \in {"READY"} \cup TerminalSuccess
         /\ s # "INTERFACE_DESIGN" => q.stage[n]["INTERFACE_DESIGN"] \in TerminalSuccess
         /\ s = "IMPLEMENTATION" => Designed(q, n)
<1>1. /\ q.stage[n]["VISUAL_ANALYSIS"] \in {"READY"} \cup TerminalSuccess
      /\ s # "INTERFACE_DESIGN" => q.stage[n]["INTERFACE_DESIGN"] \in TerminalSuccess
  BY DEF PrerequisitesMet
<1>2. s = "IMPLEMENTATION" => Designed(q, n)
  BY PhaseCompleted DEF PrerequisitesMet, ImplementationDependenciesMet
<1>. QED BY <1>1, <1>2

-----------------------------------------------------------------------------
(* One row changes *)

\* A stage that had not succeeded changes to a status that is no failure: nothing
\* that was settled is unsettled.
LEMMA TransitionKeeps ==
  ASSUME NEW q \in Queue, NEW n \in Node, NEW s \in Stage, NEW st \in StageStatus,
         q.stage[n][s] \notin TerminalSuccess \cup {"FAILED", "BLOCKED", "READY"}
  PROVE  Keeps(q, Transition(q, n, s, st))
<1>. DEFINE p == Transition(q, n, s, st)
<1>1. /\ p \in Queue /\ p.state = q.state
      /\ \A m \in Node, u \in Stage :
           p.stage[m][u] = IF m = n /\ u = s THEN st ELSE q.stage[m][u]
  BY TransitionIs
<1>. HIDE DEF p
<1>2. \A m \in Node, u \in Stage : q.stage[m][u] \in TerminalSuccess \cup {"FAILED", "BLOCKED", "READY"}
        => p.stage[m][u] = q.stage[m][u]
  BY <1>1
<1>3. \A m \in Node : ParentSettled(q, m) => ParentSettled(p, m)
  BY <1>1, <1>2, SettledRows, StageNames DEF Designed
<1>4. Keeps(q, p)
  BY <1>2, <1>3, StageNames DEF Keeps
<1>. QED BY <1>4 DEF p

\* A stage starts: its gate is open.
LEMMA StartRows ==
  ASSUME NEW q \in Queue, Rows(q), NEW n \in Node, NEW s \in FormalStage,
         q.stage[n][s] = "PENDING", PrerequisitesMet(q, <<n, s>>)
  PROVE  Rows(Transition(q, n, s, "RUNNING"))
<1>. DEFINE p == Transition(q, n, s, "RUNNING")
<1>1. s \in Stage /\ "RUNNING" \in StageStatus
  BY StageNames DEF StageStatus
<1>2. /\ p.state = q.state /\ p.designDone = q.designDone
      /\ \A m \in Node, u \in Stage :
           p.stage[m][u] = IF m = n /\ u = s THEN "RUNNING" ELSE q.stage[m][u]
  BY <1>1, TransitionIs
<1>. HIDE DEF p
<1>4. RowOK(q, n)
  BY DEF Rows
<1>5. /\ q.stage[n]["VISUAL_ANALYSIS"] \in {"READY"} \cup TerminalSuccess
      /\ s # "INTERFACE_DESIGN" => q.stage[n]["INTERFACE_DESIGN"] \in TerminalSuccess
      /\ s = "IMPLEMENTATION" => Designed(q, n)
  BY <1>4, GateRows
<1>6. RowOK(p, n)
  <2>1. CASE s = "INTERFACE_DESIGN"
    BY <1>2, <1>4, <1>5, <2>1, StageNames DEF RowOK, Designed, DesignDone, Unfinished
  <2>2. CASE s = "TEST_GENERATION"
    BY <1>2, <1>4, <1>5, <2>2, StageNames DEF RowOK, Designed, DesignDone, Unfinished
  <2>3. CASE s = "IMPLEMENTATION"
    BY <1>2, <1>4, <1>5, <2>3, StageNames DEF RowOK, Designed, DesignDone, Unfinished
  <2>. QED BY <2>1, <2>2, <2>3, StageNames
<1>7. Rows(p)
  BY <1>2, <1>6, OneNodeRows
<1>. QED BY <1>7 DEF p

\* A stage is ready to be merged: its node is in the phase the stage belongs to.
LEMMA ReadyRows ==
  ASSUME NEW q \in Queue, Rows(q), NEW n \in Node, NEW s \in FormalStage,
         q.stage[n][s] = "RUNNING",
         s = "INTERFACE_DESIGN" => q.state[n] = "DESIGNING",
         s = "IMPLEMENTATION" => q.state[n] = "IMPLEMENTING"
  PROVE  RowOK(Transition(q, n, s, "READY_TO_MERGE"), n)
<1>. DEFINE p == Transition(q, n, s, "READY_TO_MERGE")
<1>1. s \in Stage /\ "READY_TO_MERGE" \in StageStatus
  BY StageNames DEF StageStatus
<1>2. /\ p.state = q.state /\ p.designDone = q.designDone
      /\ \A u \in Stage : p.stage[n][u] = IF u = s THEN "READY_TO_MERGE" ELSE q.stage[n][u]
  BY <1>1, TransitionIs
<1>. HIDE DEF p
<1>3. RowOK(q, n)
  BY DEF Rows
<1>4. RowOK(p, n)
  <2>1. CASE s = "INTERFACE_DESIGN"
    BY <1>2, <1>3, <2>1, StageNames DEF RowOK, Designed, DesignDone, Unfinished
  <2>2. CASE s = "TEST_GENERATION"
    BY <1>2, <1>3, <2>2, StageNames DEF RowOK, Designed, DesignDone, Unfinished
  <2>3. CASE s = "IMPLEMENTATION"
    BY <1>2, <1>3, <2>3, StageNames DEF RowOK, Designed, DesignDone, Unfinished
  <2>. QED BY <2>1, <2>2, <2>3, StageNames
<1>. QED BY <1>4 DEF p

\* An analysis goes on.
LEMMA AnalysisRows ==
  ASSUME NEW q \in Queue, Rows(q), NEW n \in Node, NEW st \in {"RUNNING", "READY", "RETRY_WAIT"},
         q.stage[n]["VISUAL_ANALYSIS"] \in Unfinished
  PROVE  Rows(Transition(q, n, "VISUAL_ANALYSIS", st))
<1>. DEFINE p == Transition(q, n, "VISUAL_ANALYSIS", st)
<1>1. "VISUAL_ANALYSIS" \in Stage /\ st \in StageStatus
  BY StageNames DEF StageStatus
<1>2. /\ p.state = q.state /\ p.designDone = q.designDone
      /\ \A m \in Node, u \in Stage :
           p.stage[m][u] = IF m = n /\ u = "VISUAL_ANALYSIS" THEN st ELSE q.stage[m][u]
  BY <1>1, TransitionIs
<1>. HIDE DEF p
<1>4. RowOK(q, n)
  BY DEF Rows
<1>5. RowOK(p, n)
  BY <1>2, <1>4, StageNames DEF RowOK, Designed, DesignDone, Unfinished
<1>6. Rows(p)
  BY <1>2, <1>5, OneNodeRows
<1>. QED BY <1>6 DEF p

-----------------------------------------------------------------------------
(* fail_stage_task *)

\* What may fail: an analysis that is not over, or a stage that is running or
\* waits to be merged.
MayFail(q, n, s) ==
  IF s = "VISUAL_ANALYSIS" THEN q.stage[n][s] \in Unfinished
                           ELSE q.stage[n][s] \in {"RUNNING", "READY_TO_MERGE"}

\* A failure keeps the node's rows in order.
LEMMA FailRowOK ==
  ASSUME NEW q \in Queue, NEW n \in Node, RowOK(q, n), NEW s \in Stage, MayFail(q, n, s)
  PROVE  RowOK(FailStage(q, n, s), n)
<1>. DEFINE p == FailStage(q, n, s)
<1>1. /\ p.stage[n] = FailedRow(q.stage[n], s)
      /\ p.state[n] = "FAILED" /\ p.designDone[n] = q.designDone[n]
  BY FailStageIs DEF Written
<1>2. \A u \in Stage : q.stage[n][u] \in StageStatus
  BY RowTyped
<1>. HIDE DEF p
<1>3. DesignDone(p, n) => DesignDone(q, n)
  BY <1>1 DEF DesignDone, DesignFinishedStates, CompletedStates
<1>4. ASSUME s = "VISUAL_ANALYSIS" PROVE RowOK(p, n)
  <2>1. /\ p.stage[n]["VISUAL_ANALYSIS"] = "FAILED"
        /\ p.stage[n]["INTERFACE_DESIGN"] = Behind(q.stage[n]["INTERFACE_DESIGN"])
        /\ p.stage[n]["TEST_GENERATION"] = Behind(q.stage[n]["TEST_GENERATION"])
        /\ p.stage[n]["IMPLEMENTATION"] = Behind(q.stage[n]["IMPLEMENTATION"])
    BY <1>1, <1>4, FailedRowBy
  <2>. QED BY <1>1, <1>2, <1>3, <1>4, <2>1, StageNames
           DEF RowOK, Designed, Unfinished, ActiveStatus, MayFail, Behind
<1>5. ASSUME s = "INTERFACE_DESIGN" PROVE RowOK(p, n)
  <2>1. /\ p.stage[n]["VISUAL_ANALYSIS"] = q.stage[n]["VISUAL_ANALYSIS"]
        /\ p.stage[n]["INTERFACE_DESIGN"] = "FAILED"
        /\ p.stage[n]["TEST_GENERATION"] = Behind(q.stage[n]["TEST_GENERATION"])
        /\ p.stage[n]["IMPLEMENTATION"] = Behind(q.stage[n]["IMPLEMENTATION"])
    BY <1>1, <1>5, FailedRowBy
  <2>. QED BY <1>1, <1>2, <1>3, <1>5, <2>1, StageNames
           DEF RowOK, Designed, Unfinished, ActiveStatus, MayFail, Behind
<1>6. ASSUME s = "TEST_GENERATION" PROVE RowOK(p, n)
  <2>1. /\ p.stage[n]["VISUAL_ANALYSIS"] = q.stage[n]["VISUAL_ANALYSIS"]
        /\ p.stage[n]["INTERFACE_DESIGN"] = q.stage[n]["INTERFACE_DESIGN"]
        /\ p.stage[n]["TEST_GENERATION"] = "FAILED"
        /\ p.stage[n]["IMPLEMENTATION"] = Behind(q.stage[n]["IMPLEMENTATION"])
    BY <1>1, <1>6, FailedRowBy
  <2>. QED BY <1>1, <1>2, <1>3, <1>6, <2>1, StageNames
           DEF RowOK, Designed, Unfinished, ActiveStatus, MayFail, Behind
<1>7. ASSUME s = "IMPLEMENTATION" PROVE RowOK(p, n)
  <2>1. /\ p.stage[n]["VISUAL_ANALYSIS"] = q.stage[n]["VISUAL_ANALYSIS"]
        /\ p.stage[n]["INTERFACE_DESIGN"] = q.stage[n]["INTERFACE_DESIGN"]
        /\ p.stage[n]["TEST_GENERATION"] = q.stage[n]["TEST_GENERATION"]
        /\ p.stage[n]["IMPLEMENTATION"] = "FAILED"
    BY <1>1, <1>7, FailedRowBy
  <2>. QED BY <1>1, <1>2, <1>3, <1>7, <2>1, StageNames
           DEF RowOK, Designed, Unfinished, ActiveStatus, MayFail, Behind
<1>8. RowOK(p, n)
  BY <1>4, <1>5, <1>6, <1>7, StageNames
<1>. QED BY <1>8 DEF p

\* And it leaves what was settled settled.
LEMMA FailKeeps ==
  ASSUME NEW q \in Queue, Rows(q), NEW n \in Node, NEW s \in Stage, MayFail(q, n, s)
  PROVE  LET p == FailStage(q, n, s) IN p \in Queue /\ Rows(p) /\ Keeps(q, p)
<1>. DEFINE p == FailStage(q, n, s)
<1>1. /\ p \in Queue /\ \A m \in Node : p.designDone[m] = q.designDone[m]
      /\ \A m \in Node : p.state[m] = IF m = n THEN "FAILED" ELSE q.state[m]
      /\ \A m \in Node \ {n}, u \in Stage : p.stage[m][u] = q.stage[m][u]
      /\ p.stage[n] = FailedRow(q.stage[n], s)
  BY FailStageIs DEF Written
<1>2. RowOK(p, n)
  BY FailRowOK DEF Rows
<1>. HIDE DEF p
<1>3. Rows(p)
  BY <1>1, <1>2, OneNodeRows
<1>4. ASSUME NEW m \in Node \ {n} PROVE
        /\ ParentSettled(q, m) => ParentSettled(p, m)
        /\ \A u \in Stage : p.stage[m][u] = q.stage[m][u]
  BY <1>1, SettledRows, StageNames DEF Designed
<1>5. /\ \A u \in Stage : q.stage[n][u] \in TerminalSuccess => p.stage[n][u] \in TerminalSuccess
      /\ q.stage[n]["VISUAL_ANALYSIS"] = "READY" =>
           p.stage[n]["VISUAL_ANALYSIS"] \in {"READY"} \cup TerminalSuccess
      /\ ParentSettled(q, n) => ParentSettled(p, n)
  <2>1. RowOK(q, n) /\ \A u \in Stage : q.stage[n][u] \in StageStatus
    BY RowTyped DEF Rows
  <2>2. \A u \in Stage : q.stage[n][u] \in TerminalSuccess => p.stage[n][u] \in TerminalSuccess
    BY <1>1, <2>1, FailedRowBy, StageNames DEF MayFail, Unfinished, Behind, ActiveStatus
  <2>3. q.stage[n]["VISUAL_ANALYSIS"] = "READY" => p.stage[n]["VISUAL_ANALYSIS"] = "READY"
    BY <1>1, <2>1, FailedRowBy, StageNames DEF MayFail, Unfinished
  <2>4. {q.stage[n]["INTERFACE_DESIGN"], q.stage[n]["TEST_GENERATION"]} \cap {"FAILED", "BLOCKED"} # {}
          => {p.stage[n]["INTERFACE_DESIGN"], p.stage[n]["TEST_GENERATION"]} \cap {"FAILED", "BLOCKED"} # {}
    BY <1>1, <2>1, FailedRowBy, StageNames DEF MayFail, Unfinished, Behind, ActiveStatus
  <2>5. p.state[n] = "FAILED"
    BY <1>1
  <2>6. Designed(q, n) => Designed(p, n)
    BY <2>2, StageNames DEF Designed
  <2>7. ParentSettled(q, n) => ParentSettled(p, n)
    BY <1>1, <2>4, <2>5, <2>6, SettledRows
  <2>. QED BY <2>2, <2>3, <2>7
<1>6. Keeps(q, p)
  BY <1>4, <1>5, StageNames DEF Keeps
<1>. QED BY <1>1, <1>3, <1>6 DEF p

-----------------------------------------------------------------------------
(* begin_task *)

\* A phase begins: the rows stay in order, nothing is unsettled.
LEMMA BeginKeeps ==
  ASSUME NEW q \in Queue, Rows(q), NEW n \in Node,
         NEW s \in {"INTERFACE_DESIGN", "IMPLEMENTATION"}, q.stage[n][s] = "RUNNING"
  PROVE  LET p == BeginTask(q, n, PhaseOf(s)) IN p \in Queue /\ Rows(p) /\ Keeps(q, p)
<1>. DEFINE p == BeginTask(q, n, PhaseOf(s))
<1>1. /\ p \in Queue /\ p.designDone = q.designDone
      /\ \A m \in Node : p.state[m] = IF m = n THEN PhaseState(s) ELSE q.state[m]
      /\ \A m \in Node, u \in Stage : p.stage[m][u] = q.stage[m][u]
  BY BeginTaskIs
<1>. HIDE DEF p
<1>2. RowOK(q, n)
  BY DEF Rows
<1>3. RowOK(p, n)
  <2>1. DesignDone(p, n) => DesignDone(q, n) \/ s = "IMPLEMENTATION"
    BY <1>1 DEF DesignDone, DesignFinishedStates, CompletedStates, PhaseState
  <2>. QED BY <1>1, <1>2, <2>1, StageNames DEF RowOK, Designed, PhaseState
<1>4. Rows(p)
  BY <1>1, <1>3, OneNodeRows
<1>5. \A m \in Node : ParentSettled(q, m) => ParentSettled(p, m)
  <2>1. \A m \in Node : Designed(q, m) => Designed(p, m)
    BY <1>1, StageNames DEF Designed
  <2>2. {q.stage[n]["INTERFACE_DESIGN"], q.stage[n]["TEST_GENERATION"]} \cap {"FAILED", "BLOCKED"} = {}
    BY <1>2, StageNames DEF RowOK, Designed
  <2>3. \A m \in Node \ {n} : p.state[m] = q.state[m]
    BY <1>1
  <2>. QED BY <1>1, <2>1, <2>2, <2>3, SettledRows, StageNames
<1>6. Keeps(q, p)
  BY <1>1, <1>5, StageNames DEF Keeps
<1>. QED BY <1>1, <1>4, <1>6 DEF p

-----------------------------------------------------------------------------
(* A publication *)

\* Whether the publication of the stage ends the design of its node.
EndsDesign(n, s) == s = "TEST_GENERATION" \/ (s = "INTERFACE_DESIGN" /\ ~IsLeaf(n))

\* What the publication of t makes of the queue.
Published(q, t, r) ==
  FinalizedFor(Transition(q, t[1], t[2], "PUBLISHED"), t, r)

PublishedRow(row, n, s) ==
  [u \in Stage |->
     IF u = s \/ (u = "VISUAL_ANALYSIS" /\ EndsDesign(n, s) /\ row[u] = "READY")
     THEN "PUBLISHED" ELSE row[u]]

PublishedState(q, n, s, r) ==
  IF EndsDesign(n, s) THEN "DESIGNED" ELSE IF s = "IMPLEMENTATION" THEN r ELSE q.state[n]

PublishedDone(q, n, s) == IF EndsDesign(n, s) THEN TRUE ELSE q.designDone[n]

\* The last stage of a phase completes the phase, and only the last.
LEMMA PublishedIs ==
  ASSUME NEW q \in Queue, NEW n \in Node, NEW s \in FormalStage, NEW r \in CompletedStates,
         RowOK(q, n), q.stage[n][s] = "READY_TO_MERGE", PrerequisitesMet(q, <<n, s>>)
  PROVE  LET p == Published(q, <<n, s>>, r) IN
         Written(q, p, n, PublishedState(q, n, s, r), PublishedDone(q, n, s),
                 PublishedRow(q.stage[n], n, s))
<1>. DEFINE q1 == Transition(q, n, s, "PUBLISHED")
            p == Published(q, <<n, s>>, r)
<1>1. s \in Stage /\ "PUBLISHED" \in StageStatus /\ "SKIPPED" \in StageStatus
  BY StageNames DEF StageStatus
<1>2. /\ q1 \in Queue /\ q1.state = q.state /\ q1.designDone = q.designDone
      /\ \A m \in Node, u \in Stage :
           q1.stage[m][u] = IF m = n /\ u = s THEN "PUBLISHED" ELSE q.stage[m][u]
  BY <1>1, TransitionIs
<1>3. /\ q.stage[n]["VISUAL_ANALYSIS"] \in {"READY"} \cup TerminalSuccess
      /\ s # "INTERFACE_DESIGN" => q.stage[n]["INTERFACE_DESIGN"] \in TerminalSuccess
      /\ s = "IMPLEMENTATION" => Designed(q, n)
  BY GateRows
<1>4. IsLeaf(n) <=> q.stage[n]["TEST_GENERATION"] # "SKIPPED"
  BY DEF RowOK
<1>5. p = FinalizedFor(q1, <<n, s>>, r)
  BY DEF Published
<1>6. /\ q1.stage[n] \in [Stage -> StageStatus] /\ q.stage[n] \in [Stage -> StageStatus]
      /\ PublishedRow(q.stage[n], n, s) \in [Stage -> StageStatus]
  BY <1>1, <1>2, RowTyped DEF PublishedRow
<1>. HIDE DEF q1, p
<1>7. ASSUME EndsDesign(n, s)
      PROVE  /\ p = [q1 EXCEPT !.state[n] = "DESIGNED", !.designDone[n] = TRUE,
                               !.stage[n] = PublishedRow(q.stage[n], n, s)]
  <2>. DEFINE row1 == SetIfAllowed(q1.stage[n], "VISUAL_ANALYSIS", "PUBLISHED")
              row2 == SetIfAllowed(row1, "INTERFACE_DESIGN", "PUBLISHED")
              row3 == SetIfAllowed(row2, "TEST_GENERATION",
                                   IF IsLeaf(n) THEN "PUBLISHED" ELSE "SKIPPED")
  <2>1. p = [q1 EXCEPT !.state[n] = "DESIGNED", !.designDone[n] = TRUE, !.stage[n] = row3]
    BY <1>5, <1>7 DEF EndsDesign, FinalizedFor, CompleteTask
  <2>2. /\ q1.stage[n]["INTERFACE_DESIGN"] \in TerminalSuccess
        /\ q1.stage[n]["TEST_GENERATION"] \in TerminalSuccess
    BY <1>2, <1>3, <1>4, <1>7, StageNames DEF EndsDesign
  <2>3. q1.stage[n]["VISUAL_ANALYSIS"] = q.stage[n]["VISUAL_ANALYSIS"]
    BY <1>2, StageNames
  <2>4. row1 = [u \in Stage |-> IF u = "VISUAL_ANALYSIS" /\ q.stage[n][u] = "READY"
                                THEN "PUBLISHED" ELSE q1.stage[n][u]]
    BY <1>3, <1>6, <2>3, StageNames DEF SetIfAllowed, AllowedFrom, StageStatus
  <2>. HIDE DEF row1
  <2>5. row2 = row1
    BY <2>2, <2>4, StageNames DEF SetIfAllowed
  <2>. HIDE DEF row2
  <2>6. row3 = row1
    BY <2>2, <2>4, <2>5, StageNames DEF SetIfAllowed
  <2>7. row1 = PublishedRow(q.stage[n], n, s)
    BY <1>2, <1>7, <2>4, StageNames DEF PublishedRow
  <2>. QED BY <2>1, <2>6, <2>7
<1>8. ASSUME s = "IMPLEMENTATION"
      PROVE  /\ p = [q1 EXCEPT !.state[n] = r, !.stage[n] = PublishedRow(q.stage[n], n, s)]
  <2>1. p = [q1 EXCEPT !.state[n] = r,
                       !.stage[n] = SetIfAllowed(q1.stage[n], "IMPLEMENTATION", "PUBLISHED")]
    BY <1>5, <1>8 DEF FinalizedFor, CompleteTask
  <2>2. q1.stage[n]["IMPLEMENTATION"] = "PUBLISHED"
    BY <1>2, <1>8, StageNames
  <2>3. SetIfAllowed(q1.stage[n], "IMPLEMENTATION", "PUBLISHED") = q1.stage[n]
    BY <2>2, StageNames DEF SetIfAllowed
  <2>4. q1.stage[n] = PublishedRow(q.stage[n], n, s)
    BY <1>2, <1>6, <1>8, StageNames DEF PublishedRow, EndsDesign
  <2>. QED BY <2>1, <2>3, <2>4
<1>9. ASSUME s = "INTERFACE_DESIGN", IsLeaf(n)
      PROVE  p = q1 /\ q1.stage[n] = PublishedRow(q.stage[n], n, s)
  <2>1. p = q1
    BY <1>5, <1>9 DEF FinalizedFor
  <2>2. q1.stage[n] = PublishedRow(q.stage[n], n, s)
    BY <1>2, <1>6, <1>9, StageNames DEF PublishedRow, EndsDesign
  <2>. QED BY <2>1, <2>2
<1>. DEFINE new == PublishedRow(q.stage[n], n, s)
<1>10. "DESIGNED" \in NodeState /\ r \in NodeState
  BY DEF NodeState
<1>11. \A m \in Node \ {n} : /\ q1.state[m] = q.state[m] /\ q1.designDone[m] = q.designDone[m]
                             /\ \A u \in Stage : q1.stage[m][u] = q.stage[m][u]
  BY <1>2
<1>. HIDE DEF new
<1>12. ASSUME EndsDesign(n, s) PROVE Written(q, p, n, "DESIGNED", TRUE, new)
  <2>1. new \in [Stage -> StageStatus]
    BY <1>6 DEF new
  <2>2. p = [q1 EXCEPT !.state[n] = "DESIGNED", !.designDone[n] = TRUE, !.stage[n] = new]
    BY <1>7, <1>12 DEF new
  <2>3. Written(q1, p, n, "DESIGNED", TRUE, new)
    BY <1>2, <1>10, <2>1, <2>2, WriteNode
  <2>. QED BY <1>11, <2>3 DEF Written
<1>13. ASSUME s = "IMPLEMENTATION" PROVE Written(q, p, n, r, q.designDone[n], new)
  <2>1. new \in [Stage -> StageStatus]
    BY <1>6 DEF new
  <2>2. p = [q1 EXCEPT !.state[n] = r, !.stage[n] = new]
    BY <1>8, <1>13 DEF new
  <2>3. Written(q1, p, n, r, q1.designDone[n], new)
    BY <1>2, <1>10, <2>1, <2>2, WriteRow
  <2>. QED BY <1>2, <1>11, <2>3 DEF Written
<1>14. ASSUME s = "INTERFACE_DESIGN", IsLeaf(n)
       PROVE  Written(q, p, n, q.state[n], q.designDone[n], new)
  BY <1>2, <1>9, <1>11, <1>14 DEF Written, new
<1>15. EndsDesign(n, s) => ~(s = "IMPLEMENTATION") /\ ~(s = "INTERFACE_DESIGN" /\ IsLeaf(n))
  BY DEF EndsDesign
<1>16. EndsDesign(n, s) \/ s = "IMPLEMENTATION" \/ (s = "INTERFACE_DESIGN" /\ IsLeaf(n))
  BY StageNames DEF EndsDesign
<1>. QED BY <1>12, <1>13, <1>14, <1>15, <1>16 DEF p, new, PublishedState, PublishedDone

\* A publication keeps the rows in order and unsettles nothing.
LEMMA PublishKeeps ==
  ASSUME NEW q \in Queue, Rows(q), NEW n \in Node, NEW s \in FormalStage,
         NEW r \in CompletedStates,
         q.stage[n][s] = "READY_TO_MERGE", PrerequisitesMet(q, <<n, s>>)
  PROVE  LET p == Published(q, <<n, s>>, r) IN
         /\ p \in Queue /\ Rows(p) /\ Keeps(q, p)
         /\ \A m \in Node, u \in FormalStage :
              p.stage[m][u] = IF m = n /\ u = s THEN "PUBLISHED" ELSE q.stage[m][u]
         /\ \A m \in Node : p.stage[m]["VISUAL_ANALYSIS"] # q.stage[m]["VISUAL_ANALYSIS"]
              => m = n /\ q.stage[m]["VISUAL_ANALYSIS"] = "READY"
                 /\ p.stage[m]["VISUAL_ANALYSIS"] = "PUBLISHED"
         /\ \A m \in Node \ {n} : p.state[m] = q.state[m]
<1>. DEFINE p == Published(q, <<n, s>>, r)
<1>1. Written(q, p, n, PublishedState(q, n, s, r), PublishedDone(q, n, s),
              PublishedRow(q.stage[n], n, s))
  BY PublishedIs DEF Rows
<1>. HIDE DEF p
<1>2. /\ p \in Queue
      /\ \A m \in Node \ {n} : /\ p.state[m] = q.state[m] /\ p.designDone[m] = q.designDone[m]
                               /\ \A u \in Stage : p.stage[m][u] = q.stage[m][u]
  BY <1>1 DEF Written
<1>3. \A u \in Stage : p.stage[n][u] =
        IF u = s \/ (u = "VISUAL_ANALYSIS" /\ EndsDesign(n, s) /\ q.stage[n][u] = "READY")
        THEN "PUBLISHED" ELSE q.stage[n][u]
  BY <1>1 DEF Written, PublishedRow
<1>4. RowOK(q, n) /\ \A u \in Stage : q.stage[n][u] \in StageStatus
  BY RowTyped DEF Rows
<1>5. /\ q.stage[n]["VISUAL_ANALYSIS"] \in {"READY"} \cup TerminalSuccess
      /\ s # "INTERFACE_DESIGN" => q.stage[n]["INTERFACE_DESIGN"] \in TerminalSuccess
      /\ s = "IMPLEMENTATION" => Designed(q, n)
  BY <1>4, GateRows
<1>6. IsLeaf(n) <=> q.stage[n]["TEST_GENERATION"] # "SKIPPED"
  BY <1>4 DEF RowOK
<1>7. RowOK(p, n)
  <2>1. ASSUME EndsDesign(n, s) PROVE RowOK(p, n)
    <3>1. Designed(p, n) /\ p.stage[n]["VISUAL_ANALYSIS"] \in TerminalSuccess
      BY <1>3, <1>5, <1>6, <2>1, StageNames DEF EndsDesign, Designed
    <3>2. p.state[n] = "DESIGNED"
      BY <1>1, <2>1 DEF Written, PublishedState
    <3>3. p.stage[n]["IMPLEMENTATION"] = q.stage[n]["IMPLEMENTATION"] /\ ~Designed(q, n)
      BY <1>3, <2>1, StageNames DEF EndsDesign, Designed
    <3>4. IsLeaf(n) <=> p.stage[n]["TEST_GENERATION"] # "SKIPPED"
      BY <1>3, <1>6, StageNames
    <3>. QED BY <1>4, <3>1, <3>2, <3>3, <3>4, StageNames DEF RowOK, Designed, Unfinished
  <2>2. ASSUME s = "IMPLEMENTATION" PROVE RowOK(p, n)
    <3>1. p.state[n] = r
      BY <1>1, <2>2 DEF Written, PublishedState, EndsDesign
    <3>2. /\ p.stage[n]["VISUAL_ANALYSIS"] = q.stage[n]["VISUAL_ANALYSIS"]
          /\ p.stage[n]["INTERFACE_DESIGN"] = q.stage[n]["INTERFACE_DESIGN"]
          /\ p.stage[n]["TEST_GENERATION"] = q.stage[n]["TEST_GENERATION"]
          /\ p.stage[n]["IMPLEMENTATION"] = "PUBLISHED"
      BY <1>3, <2>2, StageNames DEF EndsDesign
    <3>3. r # "BLOCKED_BY_DEPENDENCY" /\ Designed(p, n)
      BY <1>5, <2>2, <3>2 DEF CompletedStates, Designed
    <3>. QED BY <1>4, <3>1, <3>2, <3>3, StageNames DEF RowOK, Designed, Unfinished
  <2>3. ASSUME s = "INTERFACE_DESIGN", IsLeaf(n) PROVE RowOK(p, n)
    <3>1. p.state[n] = q.state[n] /\ p.designDone[n] = q.designDone[n]
      BY <1>1, <2>3 DEF Written, PublishedState, PublishedDone, EndsDesign
    <3>2. /\ p.stage[n]["VISUAL_ANALYSIS"] = q.stage[n]["VISUAL_ANALYSIS"]
          /\ p.stage[n]["INTERFACE_DESIGN"] = "PUBLISHED"
          /\ p.stage[n]["TEST_GENERATION"] = q.stage[n]["TEST_GENERATION"]
          /\ p.stage[n]["IMPLEMENTATION"] = q.stage[n]["IMPLEMENTATION"]
      BY <1>3, <2>3, StageNames DEF EndsDesign
    <3>3. DesignDone(p, n) <=> DesignDone(q, n)
      BY <3>1 DEF DesignDone
    <3>. QED BY <1>4, <1>5, <1>6, <2>3, <3>1, <3>2, <3>3, StageNames
             DEF RowOK, Designed, Unfinished
  <2>. QED BY <2>1, <2>2, <2>3, StageNames DEF EndsDesign
<1>8. Rows(p)
  BY <1>2, <1>7, OneNodeRows
<1>9. \A m \in Node, u \in Stage : q.stage[m][u] \in TerminalSuccess
        => p.stage[m][u] \in TerminalSuccess
  BY <1>2, <1>3, StageNames
<1>10. \A m \in Node : ParentSettled(q, m) => ParentSettled(p, m)
  <2>1. ASSUME NEW m \in Node \ {n} PROVE ParentSettled(q, m) => ParentSettled(p, m)
    BY <1>2, SettledRows, StageNames DEF Designed
  <2>2. {q.stage[n]["INTERFACE_DESIGN"], q.stage[n]["TEST_GENERATION"]} \cap {"FAILED", "BLOCKED"} = {}
    BY <1>4, <1>5, StageNames DEF RowOK, Designed
  <2>3. Designed(q, n) => Designed(p, n)
    BY <1>9, StageNames DEF Designed
  <2>4. ParentSettled(q, n) => ParentSettled(p, n)
    BY <1>2, <2>2, <2>3, SettledRows
  <2>. QED BY <2>1, <2>4
<1>11. \A m \in Node : q.stage[m]["VISUAL_ANALYSIS"] = "READY"
         => p.stage[m]["VISUAL_ANALYSIS"] \in {"READY"} \cup TerminalSuccess
  BY <1>2, <1>3, StageNames
<1>12. Keeps(q, p)
  BY <1>9, <1>10, <1>11 DEF Keeps
<1>13. \A m \in Node, u \in FormalStage :
         p.stage[m][u] = IF m = n /\ u = s THEN "PUBLISHED" ELSE q.stage[m][u]
  BY <1>2, <1>3, StageNames
<1>14. \A m \in Node : p.stage[m]["VISUAL_ANALYSIS"] # q.stage[m]["VISUAL_ANALYSIS"]
         => m = n /\ q.stage[m]["VISUAL_ANALYSIS"] = "READY"
            /\ p.stage[m]["VISUAL_ANALYSIS"] = "PUBLISHED"
  BY <1>2, <1>3, StageNames
<1>. QED BY <1>2, <1>8, <1>12, <1>13, <1>14 DEF p

-----------------------------------------------------------------------------
(* recover_interrupted *)

\* Nothing is running after a recovery, nothing but generated tests waits to be
\* merged, nothing is published that was not, and no analysis gets a new success.
LEMMA RecoverRows ==
  ASSUME NEW q \in Queue, Rows(q)
  PROVE  LET p == RecoverInterrupted(q) IN
         /\ p \in Queue /\ Rows(p)
         /\ \A n \in Node, s \in Stage : p.stage[n][s] # "RUNNING"
         /\ \A n \in Node, s \in Stage : p.stage[n][s] \in {"PUBLISHED", "READY_TO_MERGE", "RETRY_WAIT"}
                                           => q.stage[n][s] = p.stage[n][s]
         /\ \A n \in Node : p.state[n] \notin InFlightStates
<1>. DEFINE p == RecoverInterrupted(q)
<1>1. /\ p \in Queue /\ p.designDone = q.designDone
      /\ \A n \in Node : p.state[n] =
           IF q.state[n] = "DESIGNING" THEN "UNSEEN"
           ELSE IF q.state[n] = "IMPLEMENTING" THEN "DESIGNED" ELSE q.state[n]
      /\ \A n \in Node, s \in Stage : p.stage[n][s] = RowsRecovered(q, n, s)
  BY RecoverIs
<1>. HIDE DEF p
<1>2. \A n \in Node, s \in Stage : p.stage[n][s] # "RUNNING"
  BY <1>1 DEF RowsRecovered, Restarted, FreshStatus
<1>3. \A n \in Node, s \in Stage : p.stage[n][s] \in {"PUBLISHED", "READY_TO_MERGE", "RETRY_WAIT"}
                                     => q.stage[n][s] = p.stage[n][s]
  BY <1>1 DEF RowsRecovered, Restarted, FreshStatus
<1>4. \A n \in Node : p.state[n] \notin InFlightStates
  BY <1>1 DEF InFlightStates
<1>5. ASSUME NEW n \in Node PROVE RowOK(p, n)
  <2>1. RowOK(q, n) /\ \A u \in Stage : q.stage[n][u] \in StageStatus
    BY RowTyped DEF Rows
  <2>2. \A s \in Stage : q.stage[n][s] \in TerminalSuccess => p.stage[n][s] = q.stage[n][s]
    BY <1>1, StageNames DEF RowsRecovered, Restarted
  <2>3. /\ FreshStatus(n, "VISUAL_ANALYSIS") = "PENDING"
        /\ FreshStatus(n, "INTERFACE_DESIGN") = "PENDING"
        /\ FreshStatus(n, "TEST_GENERATION") = IF IsLeaf(n) THEN "PENDING" ELSE "SKIPPED"
        /\ FreshStatus(n, "IMPLEMENTATION") = "PENDING"
    BY DEF FreshStatus
  <2>4. IsLeaf(n) <=> q.stage[n]["TEST_GENERATION"] # "SKIPPED"
    BY <2>1 DEF RowOK
  <2>5. ASSUME q.state[n] = "DESIGNING" PROVE RowOK(p, n)
    <3>1. p.state[n] = "UNSEEN" /\ p.designDone[n] = q.designDone[n]
      BY <1>1, <2>5
    <3>2. \A s \in DesignStages : p.stage[n][s] =
            IF q.stage[n][s] \in TerminalSuccess THEN q.stage[n][s] ELSE FreshStatus(n, s)
      BY <1>1, <2>5, StageNames DEF RowsRecovered, Restarted, DesignStages
    <3>3. p.stage[n]["IMPLEMENTATION"] = IF q.stage[n]["IMPLEMENTATION"] = "RUNNING"
            THEN "PENDING" ELSE q.stage[n]["IMPLEMENTATION"]
      BY <1>1, <2>3, <2>5, StageNames DEF RowsRecovered, Restarted, DesignStages
    <3>4. DesignDone(p, n) => DesignDone(q, n)
      BY <3>1 DEF DesignDone, DesignFinishedStates, CompletedStates
    <3>5. /\ p.stage[n]["VISUAL_ANALYSIS"] = IF q.stage[n]["VISUAL_ANALYSIS"] \in TerminalSuccess
                THEN q.stage[n]["VISUAL_ANALYSIS"] ELSE "PENDING"
          /\ p.stage[n]["INTERFACE_DESIGN"] = IF q.stage[n]["INTERFACE_DESIGN"] \in TerminalSuccess
                THEN q.stage[n]["INTERFACE_DESIGN"] ELSE "PENDING"
          /\ p.stage[n]["TEST_GENERATION"] = IF q.stage[n]["TEST_GENERATION"] \in TerminalSuccess
                THEN q.stage[n]["TEST_GENERATION"] ELSE "PENDING"
      BY <2>3, <2>4, <3>2, StageNames DEF DesignStages
    <3>6. /\ p.stage[n]["IMPLEMENTATION"] \notin {"RUNNING", "READY_TO_MERGE", "READY", "RETRY_WAIT"}
          /\ Designed(p, n) <=> Designed(q, n)
          /\ q.stage[n]["INTERFACE_DESIGN"] \in {"PENDING", "RUNNING", "READY_TO_MERGE"}
               => q.stage[n]["TEST_GENERATION"] \in {"PENDING", "SKIPPED"}
          /\ q.stage[n]["INTERFACE_DESIGN"] \in {"PENDING", "RUNNING", "READY_TO_MERGE"} \cup TerminalSuccess
          /\ Designed(q, n) => q.stage[n]["VISUAL_ANALYSIS"] \in TerminalSuccess
          /\ DesignDone(q, n) => Designed(q, n)
      BY <2>1, <2>5, <3>3, <3>5, StageNames DEF RowOK, Designed, StageStatus
    <3>7. /\ p.stage[n]["IMPLEMENTATION"] = "BLOCKED" => ~Designed(p, n)
          /\ p.stage[n]["INTERFACE_DESIGN"] # "BLOCKED" /\ p.stage[n]["TEST_GENERATION"] # "BLOCKED"
      BY <2>1, <2>5, <3>3, <3>5, <3>6, StageNames DEF RowOK
    <3>. QED BY <2>4, <3>1, <3>4, <3>5, <3>6, <3>7, StageNames DEF RowOK, Designed, Unfinished
  <2>6. ASSUME q.state[n] # "DESIGNING" PROVE RowOK(p, n)
    <3>1. /\ p.state[n] = IF q.state[n] = "IMPLEMENTING" THEN "DESIGNED" ELSE q.state[n]
          /\ p.designDone[n] = q.designDone[n]
      BY <1>1, <2>6
    <3>2. DesignDone(p, n) => DesignDone(q, n)
      BY <3>1 DEF DesignDone, DesignFinishedStates, CompletedStates
    <3>3. \A s \in DesignStages : p.stage[n][s] =
            IF q.stage[n][s] = "RUNNING" THEN FreshStatus(n, s) ELSE q.stage[n][s]
      BY <1>1, <2>6, StageNames DEF RowsRecovered, Restarted, DesignStages
    <3>4. /\ p.stage[n]["IMPLEMENTATION"] \in {"PENDING", q.stage[n]["IMPLEMENTATION"]}
          /\ p.stage[n]["IMPLEMENTATION"] \notin {"RUNNING", "READY_TO_MERGE"}
      BY <1>1, <2>1, <2>3, <2>6, StageNames DEF RowsRecovered, Restarted, DesignStages, RowOK
    <3>5. /\ p.stage[n]["VISUAL_ANALYSIS"] = IF q.stage[n]["VISUAL_ANALYSIS"] = "RUNNING"
                THEN "PENDING" ELSE q.stage[n]["VISUAL_ANALYSIS"]
          /\ p.stage[n]["INTERFACE_DESIGN"] = IF q.stage[n]["INTERFACE_DESIGN"] = "RUNNING"
                THEN "PENDING" ELSE q.stage[n]["INTERFACE_DESIGN"]
          /\ p.stage[n]["TEST_GENERATION"] = IF q.stage[n]["TEST_GENERATION"] = "RUNNING"
                THEN "PENDING" ELSE q.stage[n]["TEST_GENERATION"]
      BY <2>3, <2>4, <3>3, StageNames DEF DesignStages
    <3>. QED BY <2>1, <2>4, <2>6, <3>1, <3>2, <3>4, <3>5, StageNames
             DEF RowOK, Designed, Unfinished
  <2>. QED BY <2>5, <2>6
<1>6. Rows(p)
  BY <1>5 DEF Rows
<1>. QED BY <1>1, <1>2, <1>3, <1>4, <1>6 DEF p

-----------------------------------------------------------------------------
(* Retries *)

\* A retry that resets the implementation only finds the design finished.
LEMMA RetryKindIs ==
  ASSUME NEW q \in Queue, NEW n \in Node
  PROVE  /\ RetryKind(q, n) \in ResetKind
         /\ RetryKind(q, n) = "implement" => DesignDone(q, n)
<1>1. RetryKind(q, n) \in ResetKind
  BY DEF RetryKind, ResetKind
<1>2. DesignStatusOf(q, n) = "COMPLETED" => DesignDone(q, n)
  BY DEF DesignStatusOf, TaskStatus, DesignDone, DesignFinishedStates, CompletedStates
<1>. QED BY <1>1, <1>2 DEF RetryKind

\* What the reset of one node makes of its rows and its state.
WasReset(z, q, n, kind) ==
  /\ kind = "implement" =>
       /\ z.state[n] = "DESIGNED"
       /\ z.stage[n]["IMPLEMENTATION"] = FreshStatus(n, "IMPLEMENTATION")
       /\ \A s \in Stage \ {"IMPLEMENTATION"} : z.stage[n][s] = q.stage[n][s]
  /\ kind # "implement" =>
       /\ z.state[n] = "UNSEEN" /\ z.designDone[n] = FALSE
       /\ z.stage[n]["IMPLEMENTATION"]
            \in {FreshStatus(n, "IMPLEMENTATION"), q.stage[n]["IMPLEMENTATION"]}
       /\ \A s \in Stage \ {"IMPLEMENTATION"} : z.stage[n][s] = FreshStatus(n, s)

LEMMA ResetIs ==
  ASSUME NEW q \in Queue, NEW n \in Node, NEW kind \in ResetKind
  PROVE  WasReset(ResetNode(q, n, kind), q, n, kind)
<1>. DEFINE row == ResetRow(q.stage[n], n, kind \in {"design", "full"},
                            kind \in {"implement", "full"}, FALSE)
            st == IF kind = "implement" THEN "DESIGNED" ELSE "UNSEEN"
            done == IF kind = "implement" THEN q.designDone[n] ELSE FALSE
            z == ResetNode(q, n, kind)
<1>3. \A s \in Stage : row[s] =
        IF (s = "IMPLEMENTATION" /\ kind = "design") \/ (s # "IMPLEMENTATION" /\ kind = "implement")
        THEN q.stage[n][s] ELSE FreshStatus(n, s)
  BY DEF ResetRow, Stage, DesignStages, ResetKind
<1>4. z = [q EXCEPT !.state[n] = st, !.designDone[n] = done, !.stage[n] = row]
  BY DEF ResetNode
<1>5. q.stage[n] \in [Stage -> StageStatus]
  BY RowTyped
<1>6. row \in [Stage -> StageStatus]
  BY <1>5, FreshType DEF ResetRow
<1>7. st \in NodeState /\ done \in BOOLEAN
  BY DEF NodeState, Queue
<1>8. /\ st = (IF kind = "implement" THEN "DESIGNED" ELSE "UNSEEN")
      /\ kind # "implement" => done = FALSE
  OBVIOUS
<1>. HIDE DEF row, st, done, z
<1>9. z.state[n] = st /\ z.designDone[n] = done /\ z.stage[n] = row
  <2>1. Written(q, z, n, st, done, row)
    BY <1>4, <1>6, <1>7, WriteNode
  <2>. QED BY <2>1 DEF Written
<1>10. WasReset(z, q, n, kind)
  BY <1>3, <1>8, <1>9, StageNames DEF WasReset
<1>. QED BY <1>10 DEF z

\* A retry of nodes none of which is at work keeps the rows in order and publishes
\* nothing; the other nodes stay as they are.
LEMMA RetriedRows ==
  ASSUME NEW q \in Queue, Rows(q), NEW S \in SUBSET Node,
         \A n \in S : /\ q.state[n] \notin InFlightStates
                      /\ q.stage[n]["IMPLEMENTATION"] # "RUNNING"
  PROVE  LET p == Retried(q, S) IN
         /\ p \in Queue /\ Rows(p)
         /\ \A n \in Node, s \in Stage : p.stage[n][s] \in {"PENDING", "SKIPPED", q.stage[n][s]}
         /\ \A n \in Node, s \in FormalStage : p.stage[n][s] = "PUBLISHED" => q.stage[n][s] = "PUBLISHED"
         /\ \A n \in Node \ S : /\ p.state[n] = q.state[n]
                                /\ \A s \in Stage : p.stage[n][s] = q.stage[n][s]
<1>1. CASE S = {}
  BY <1>1 DEF Retried
<1>2. CASE S # {}
  <2>. DEFINE z == ResetNodes(q, S)
              p == Retried(q, S)
  <2>1. z \in Queue
    BY ResetNodesType
  <2>2. \A n \in S : /\ z.state[n] = ResetNode(q, n, RetryKind(q, n)).state[n]
                     /\ z.designDone[n] = ResetNode(q, n, RetryKind(q, n)).designDone[n]
                     /\ z.stage[n] = ResetNode(q, n, RetryKind(q, n)).stage[n]
    BY DEF ResetNodes
  <2>3. \A n \in Node \ S : /\ z.state[n] = q.state[n]
                            /\ z.designDone[n] = q.designDone[n]
                            /\ z.stage[n] = q.stage[n]
    BY DEF ResetNodes
  <2>4. p = ReleaseDependencyBlocks(z)
    BY <1>2 DEF Retried
  <2>. HIDE DEF z, p
  <2>5. ASSUME NEW n \in S PROVE WasReset(z, q, n, RetryKind(q, n))
    <3>1. WasReset(ResetNode(q, n, RetryKind(q, n)), q, n, RetryKind(q, n))
      BY ResetIs, RetryKindIs
    <3>. QED BY <2>2, <3>1 DEF WasReset
  <2>6. ASSUME NEW n \in S PROVE RowOK(z, n)
    <3>. DEFINE kind == RetryKind(q, n)
    <3>1. /\ RowOK(q, n) /\ q.state[n] \notin InFlightStates
          /\ q.stage[n]["IMPLEMENTATION"] \notin {"RUNNING", "READY_TO_MERGE", "READY", "RETRY_WAIT"}
      <4>1. RowOK(q, n) /\ q.state[n] \notin InFlightStates
            /\ q.stage[n]["IMPLEMENTATION"] # "RUNNING"
        BY DEF Rows
      <4>. QED BY <4>1 DEF RowOK, InFlightStates
    <3>2. kind \in ResetKind /\ (kind = "implement" => DesignDone(q, n))
      BY RetryKindIs
    <3>3. CASE kind = "implement"
      <4>1. /\ z.state[n] = "DESIGNED"
            /\ z.stage[n]["VISUAL_ANALYSIS"] = q.stage[n]["VISUAL_ANALYSIS"]
            /\ z.stage[n]["INTERFACE_DESIGN"] = q.stage[n]["INTERFACE_DESIGN"]
            /\ z.stage[n]["TEST_GENERATION"] = q.stage[n]["TEST_GENERATION"]
            /\ z.stage[n]["IMPLEMENTATION"] = "PENDING"
        <5>1. WasReset(z, q, n, kind)
          BY <2>5
        <5>2. FreshStatus(n, "IMPLEMENTATION") = "PENDING"
          BY DEF FreshStatus
        <5>. HIDE DEF kind
        <5>3. \A s \in Stage \ {"IMPLEMENTATION"} : z.stage[n][s] = q.stage[n][s]
          BY <3>3, <5>1 DEF WasReset
        <5>. QED BY <3>3, <5>1, <5>2, <5>3, StageNames DEF WasReset
      <4>2. Designed(q, n)
        BY <3>1, <3>2, <3>3 DEF RowOK
      <4>. QED BY <3>1, <4>1, <4>2, StageNames DEF RowOK, Designed, Unfinished
    <3>4. CASE kind # "implement"
      <4>1. /\ z.state[n] = "UNSEEN" /\ z.designDone[n] = FALSE
            /\ z.stage[n]["VISUAL_ANALYSIS"] = "PENDING"
            /\ z.stage[n]["INTERFACE_DESIGN"] = "PENDING"
            /\ z.stage[n]["TEST_GENERATION"] = IF IsLeaf(n) THEN "PENDING" ELSE "SKIPPED"
            /\ z.stage[n]["IMPLEMENTATION"] \in {"PENDING", q.stage[n]["IMPLEMENTATION"]}
        <5>1. WasReset(z, q, n, kind)
          BY <2>5
        <5>. HIDE DEF kind
        <5>. QED BY <3>4, <5>1, StageNames DEF WasReset, FreshStatus
      <4>2. ~DesignDone(z, n)
        BY <4>1 DEF DesignDone, DesignFinishedStates, CompletedStates
      <4>. QED BY <3>1, <4>1, <4>2, StageNames DEF RowOK, Designed, Unfinished
    <3>. QED BY <3>3, <3>4
  <2>7. Rows(z)
    <3>1. ASSUME NEW n \in Node \ S PROVE RowOK(z, n)
      <4>1. RowOK(q, n)
        BY DEF Rows
      <4>. QED BY <2>3, <4>1, RowFrame
    <3>. QED BY <2>6, <3>1 DEF Rows
  <2>8. p = z
    <3>1. \A n \in Node : z.state[n] # "BLOCKED_BY_DEPENDENCY"
      BY <2>7 DEF Rows, RowOK
    <3>. QED BY <2>1, <2>4, <3>1, NothingToRelease
  <2>9. \A n \in Node, s \in Stage : p.stage[n][s] \in {"PENDING", "SKIPPED", q.stage[n][s]}
    <3>1. ASSUME NEW n \in S, NEW s \in Stage
          PROVE  z.stage[n][s] \in {FreshStatus(n, s), q.stage[n][s]}
      BY <2>5, StageNames DEF WasReset
    <3>2. ASSUME NEW n \in Node, NEW s \in Stage PROVE FreshStatus(n, s) \in {"PENDING", "SKIPPED"}
      BY DEF FreshStatus
    <3>. QED BY <2>3, <2>8, <3>1, <3>2
  <2>10. \A n \in Node, s \in FormalStage :
           p.stage[n][s] = "PUBLISHED" => q.stage[n][s] = "PUBLISHED"
    BY <2>9, StageNames
  <2>. QED BY <2>1, <2>3, <2>7, <2>8, <2>9, <2>10 DEF p
<1>. QED BY <1>1, <1>2

\* _prepare_visual_ready_tasks skips the analyses that have nothing to look at.
LEMMA SkipVisualRows ==
  ASSUME NEW q \in Queue, Rows(q)
  PROVE  LET p == SkipVisual(q) IN
         /\ p \in Queue /\ Rows(p) /\ Keeps(q, p) /\ p.state = q.state
         /\ \A n \in Node, s \in FormalStage : p.stage[n][s] = q.stage[n][s]
         /\ \A n \in Node : p.stage[n]["VISUAL_ANALYSIS"] =
              IF n \notin HasReferences /\ q.stage[n]["VISUAL_ANALYSIS"] = "PENDING"
              THEN "SKIPPED" ELSE q.stage[n]["VISUAL_ANALYSIS"]
<1>. DEFINE g == [n \in Node |->
                    IF n \notin HasReferences /\ q.stage[n]["VISUAL_ANALYSIS"] = "PENDING"
                    THEN [q.stage[n] EXCEPT !["VISUAL_ANALYSIS"] = "SKIPPED"] ELSE q.stage[n]]
            p == SkipVisual(q)
<1>1. p = [q EXCEPT !.stage = g]
  BY DEF SkipVisual
<1>2. \A n \in Node : q.stage[n] \in [Stage -> StageStatus]
  BY RowTyped
<1>3. /\ g \in [Node -> [Stage -> StageStatus]]
      /\ \A n \in Node, s \in Stage : g[n][s] =
           IF s = "VISUAL_ANALYSIS" /\ n \notin HasReferences
              /\ q.stage[n]["VISUAL_ANALYSIS"] = "PENDING"
           THEN "SKIPPED" ELSE q.stage[n][s]
  BY <1>2, StageNames DEF StageStatus
<1>. HIDE DEF g, p
<1>4. p \in Queue /\ p.state = q.state /\ p.designDone = q.designDone /\ p.stage = g
  BY <1>1, <1>3 DEF Queue
<1>5. \A n \in Node, s \in FormalStage : p.stage[n][s] = q.stage[n][s]
  BY <1>3, <1>4, StageNames
<1>6. \A n \in Node : p.stage[n]["VISUAL_ANALYSIS"] =
         IF n \notin HasReferences /\ q.stage[n]["VISUAL_ANALYSIS"] = "PENDING"
         THEN "SKIPPED" ELSE q.stage[n]["VISUAL_ANALYSIS"]
  BY <1>3, <1>4, StageNames
<1>7. Rows(p)
  <2>. SUFFICES ASSUME NEW n \in Node PROVE RowOK(p, n)
    BY DEF Rows
  <2>1. RowOK(q, n)
    BY DEF Rows
  <2>2. /\ p.stage[n]["INTERFACE_DESIGN"] = q.stage[n]["INTERFACE_DESIGN"]
        /\ p.stage[n]["TEST_GENERATION"] = q.stage[n]["TEST_GENERATION"]
        /\ p.stage[n]["IMPLEMENTATION"] = q.stage[n]["IMPLEMENTATION"]
        /\ \/ p.stage[n]["VISUAL_ANALYSIS"] = q.stage[n]["VISUAL_ANALYSIS"]
           \/ /\ q.stage[n]["VISUAL_ANALYSIS"] = "PENDING"
              /\ p.stage[n]["VISUAL_ANALYSIS"] = "SKIPPED"
    BY <1>5, <1>6, StageNames
  <2>3. DesignDone(p, n) <=> DesignDone(q, n)
    BY <1>4 DEF DesignDone
  <2>. QED BY <1>4, <2>1, <2>2, <2>3, StageNames DEF RowOK, Designed, Unfinished
<1>8. Keeps(q, p)
  <2>1. \A n \in Node : ParentSettled(q, n) => ParentSettled(p, n)
    BY <1>4, <1>5, SettledRows, StageNames DEF Designed
  <2>2. \A n \in Node, s \in Stage : q.stage[n][s] \in TerminalSuccess => p.stage[n][s] \in TerminalSuccess
    BY <1>3, <1>4, StageNames
  <2>. QED BY <1>6, <2>1, <2>2 DEF Keeps
<1>. QED BY <1>4, <1>5, <1>6, <1>7, <1>8 DEF p

-----------------------------------------------------------------------------
(* The inductive invariant *)

RowsOK == Rows(queue)

\* A stage in flight has a running row and an open gate, and while its worker has
\* a worktree the node is in the phase the worker began; during a run every
\* running row has its stage in flight.
FlightOK ==
  /\ \A n \in Node : flight[n] # "none" =>
       /\ working[n] \in FormalStage
       /\ queue.stage[n][working[n]] = "RUNNING"
       /\ PrerequisitesMet(queue, <<n, working[n]>>)
       /\ flight[n] \in {"running", "ready"} =>
            /\ working[n] = "INTERFACE_DESIGN" => queue.state[n] = "DESIGNING"
            /\ working[n] = "IMPLEMENTATION" => queue.state[n] = "IMPLEMENTING"
  /\ Running => \A n \in Node, s \in FormalStage :
                  queue.stage[n][s] = "RUNNING" => flight[n] # "none" /\ working[n] = s

\* An analysis is where its row says, and one that is not over has its task
\* during a run, or nobody attends to it.
AnalysesOK ==
  \A n \in Node :
    /\ visual[n] = "starting" => VisualStatus(n) \in {"PENDING", "RETRY_WAIT"}
    /\ visual[n] = "analyzing" => VisualStatus(n) = "RUNNING"
    /\ n \notin HasReferences => visual[n] = "none" /\ VisualStatus(n) \notin {"RUNNING", "RETRY_WAIT"}
    /\ Running /\ VisualStatus(n) \in Unfinished => n \in LiveVisual \/ Unattended(n)

Merging == coord \in {"merging", "landed"}

\* A publication has an entry of the merge queue once the drain has restored them,
\* the coordinator integrates one whose gate is open, and only tests, which a
\* dependency that was reopened may hold up, can wait behind a closed gate.
MergeOK ==
  /\ Merging => current \in ReadyToMerge(queue) /\ PrerequisitesMet(queue, current)
  /\ coord = "landed" => current \in landed
  /\ Running /\ coord # "restoring" =>
       \A t \in ReadyToMerge(queue) : t \in mergeQueue \/ (Merging /\ t = current)
  /\ Running => \A t \in ReadyToMerge(queue) :
                  t[2] # "TEST_GENERATION" => PrerequisitesMet(queue, t)

Quiet == {"idle", "restoring", "visualWait", "finishing", "drained", "ended"}

\* Nothing is in flight where the coordinator does not wait for it, and no task
\* outlives the process.
QuietOK ==
  /\ coord \in Quiet => \A n \in Node : flight[n] = "none"
  /\ ~Running => mergeQueue = {} /\ \A n \in Node : visual[n] = "none"

\* When the drain is over nothing is left that could have been started.
RestOK ==
  coord \in {"finishing", "drained", "ended"} =>
    /\ LiveVisual = {}
    /\ \A t \in ReadyToMerge(queue) : ~PrerequisitesMet(queue, t)
    /\ ~Clogged => \A t \in StageTask : StatusOf(queue, t) = "PENDING"
                                          => ~PrerequisitesMet(queue, t)
    /\ \A n \in Node : VisualStatus(n) \in Unfinished => Unattended(n)

Inv ==
  /\ TypeOK /\ RowsOK /\ FlightOK /\ AnalysesOK
  /\ MergeOK /\ QuietOK /\ RestOK /\ PublishedIsLanded

-----------------------------------------------------------------------------
(* What a step leaves in place *)

\* A stage task and its row.
LEMMA TaskIs ==
  /\ \A t \in StageTask : t[1] \in Node /\ t[2] \in FormalStage /\ t = <<t[1], t[2]>>
  /\ \A n \in Node, s \in FormalStage : <<n, s>> \in StageTask
  /\ \A q, t : t \in ReadyToMerge(q) <=> t \in StageTask /\ q.stage[t[1]][t[2]] = "READY_TO_MERGE"
BY DEF StageTask, ReadyToMerge, StatusOf

\* The stages in flight stay staffed when their rows and their nodes' states stay
\* and nothing that was settled is unsettled.
LEMMA FlightFrame ==
  ASSUME TypeOK, queue' \in Queue, FlightOK, Keeps(queue, queue'), UNCHANGED <<flight, working>>,
         \A n \in Node : flight[n] # "none" =>
           /\ queue'.stage[n][working[n]] = "RUNNING"
           /\ flight[n] \in {"running", "ready"} => queue'.state[n] = queue.state[n],
         Running' => Running,
         \A n \in Node, s \in FormalStage :
           queue'.stage[n][s] = "RUNNING" => queue.stage[n][s] = "RUNNING"
  PROVE  FlightOK'
<1>1. queue \in Queue
  BY DEF TypeOK
<1>2. ASSUME NEW n \in Node, flight[n] # "none"
      PROVE  PrerequisitesMet(queue', <<n, working[n]>>)
  <2>1. working[n] \in FormalStage /\ PrerequisitesMet(queue, <<n, working[n]>>)
    BY <1>2 DEF FlightOK
  <2>2. <<n, working[n]>> \in StageTask
    BY <2>1, TaskIs
  <2>. QED BY <1>1, <2>1, <2>2, KeepsGate
<1>. QED BY <1>2 DEF FlightOK

\* Publications stay in order when none is added and no gate is closed.
LEMMA MergeFrame ==
  ASSUME TypeOK, queue' \in Queue, MergeOK, Keeps(queue, queue'),
         ReadyToMerge(queue') \subseteq ReadyToMerge(queue),
         UNCHANGED <<current, mergeQueue>>,
         Merging' => Merging /\ current \in ReadyToMerge(queue'),
         Merging /\ ~Merging' => current \notin ReadyToMerge(queue'),
         coord' = "landed" => coord = "landed" /\ landed' = landed,
         Running' => Running, coord = "restoring" => coord' = "restoring"
  PROVE  MergeOK'
<1>1. queue \in Queue
  BY DEF TypeOK
<1>2. \A t \in StageTask : PrerequisitesMet(queue, t) => PrerequisitesMet(queue', t)
  BY <1>1, KeepsGate
<1>3. ReadyToMerge(queue) \subseteq StageTask
  BY TaskIs
<1>. QED BY <1>2, <1>3 DEF MergeOK

\* What fail_stage_task leaves alone.
LEMMA FailFrame ==
  ASSUME NEW q \in Queue, Rows(q), NEW n \in Node, NEW s \in Stage, MayFail(q, n, s)
  PROVE  LET p == FailStage(q, n, s) IN
         /\ \A m \in Node, u \in FormalStage :
              p.stage[m][u] \in {"RUNNING", "READY_TO_MERGE", "PUBLISHED"}
                => q.stage[m][u] = p.stage[m][u] /\ ~(m = n /\ u = s)
         /\ \A m \in Node, u \in FormalStage :
              q.stage[m][u] \in {"RUNNING", "READY_TO_MERGE"} /\ ~(m = n /\ u = s)
                => /\ m # n /\ p.state[m] = q.state[m]
                   /\ p.stage[m][u] = q.stage[m][u]
         /\ \A m \in Node : p.stage[m]["VISUAL_ANALYSIS"] =
              IF m = n /\ s = "VISUAL_ANALYSIS" THEN "FAILED" ELSE q.stage[m]["VISUAL_ANALYSIS"]
<1>. DEFINE p == FailStage(q, n, s)
<1>1. /\ \A m \in Node : p.state[m] = IF m = n THEN "FAILED" ELSE q.state[m]
      /\ \A m \in Node \ {n}, u \in Stage : p.stage[m][u] = q.stage[m][u]
      /\ p.stage[n] = FailedRow(q.stage[n], s)
  BY FailStageIs DEF Written
<1>. HIDE DEF p
<1>2. \A u \in Stage : p.stage[n][u] \in {"FAILED", "BLOCKED", q.stage[n][u]}
  BY <1>1 DEF FailedRow, Behind
<1>3. p.stage[n][s] = "FAILED"
  BY <1>1 DEF FailedRow
<1>4. \A m \in Node, u \in FormalStage :
        p.stage[m][u] \in {"RUNNING", "READY_TO_MERGE", "PUBLISHED"}
          => q.stage[m][u] = p.stage[m][u] /\ ~(m = n /\ u = s)
  BY <1>1, <1>2, <1>3, StageNames
<1>5. ASSUME NEW u \in FormalStage, q.stage[n][u] \in {"RUNNING", "READY_TO_MERGE"}
      PROVE  u = s
  <2>1. RowOK(q, n)
    BY DEF Rows
  <2>2. CASE s = "VISUAL_ANALYSIS"
    BY <1>5, <2>1, <2>2, OneActive DEF MayFail
  <2>3. CASE s # "VISUAL_ANALYSIS"
    <3>1. s \in FormalStage
      BY <2>3 DEF FormalStage
    <3>. QED BY <1>5, <2>1, <2>3, <3>1, OneActive DEF MayFail
  <2>. QED BY <2>2, <2>3
<1>6. \A m \in Node, u \in FormalStage :
        q.stage[m][u] \in {"RUNNING", "READY_TO_MERGE"} /\ ~(m = n /\ u = s)
          => /\ m # n /\ p.state[m] = q.state[m]
             /\ p.stage[m][u] = q.stage[m][u]
  BY <1>1, <1>5, StageNames
<1>7. \A m \in Node : p.stage[m]["VISUAL_ANALYSIS"] =
        IF m = n /\ s = "VISUAL_ANALYSIS" THEN "FAILED" ELSE q.stage[m]["VISUAL_ANALYSIS"]
  <2>1. s # "VISUAL_ANALYSIS" =>
          FailedRow(q.stage[n], s)["VISUAL_ANALYSIS"] = q.stage[n]["VISUAL_ANALYSIS"]
    BY FailedRowBy
  <2>. QED BY <1>1, <1>3, <2>1, StageNames
<1>. QED BY <1>4, <1>6, <1>7 DEF p

-----------------------------------------------------------------------------
(* The invariant holds, action by action.  First the initial states. *)

\* A fresh queue, and nothing at work.
LEMMA InitInv == Init => Inv
<1>. SUFFICES ASSUME Init PROVE Inv
  OBVIOUS
<1>1. queue = FreshQueue /\ queue \in Queue
  BY FreshQueueType DEF Init
<1>2. \A n \in Node : /\ queue.state[n] = "UNSEEN" /\ queue.designDone[n] = FALSE
                      /\ \A s \in Stage : queue.stage[n][s] = FreshStatus(n, s)
  BY <1>1 DEF FreshQueue, FreshRow
<1>3. RowsOK
  <2>. SUFFICES ASSUME NEW n \in Node PROVE RowOK(queue, n)
    BY DEF RowsOK, Rows
  <2>1. ~DesignDone(queue, n)
    BY <1>2 DEF DesignDone, DesignFinishedStates, CompletedStates
  <2>2. /\ queue.stage[n]["VISUAL_ANALYSIS"] = "PENDING"
        /\ queue.stage[n]["INTERFACE_DESIGN"] = "PENDING"
        /\ queue.stage[n]["TEST_GENERATION"] = IF IsLeaf(n) THEN "PENDING" ELSE "SKIPPED"
        /\ queue.stage[n]["IMPLEMENTATION"] = "PENDING"
    BY <1>2, StageNames DEF FreshStatus
  <2>. QED BY <1>2, <2>1, <2>2, StageNames DEF RowOK, Designed
<1>4. \A n \in Node, s \in Stage : queue.stage[n][s] \in {"PENDING", "SKIPPED"}
  BY <1>2 DEF FreshStatus
<1>5. TypeOK
  <2>1. \A n \in Node : attempts[n] \in Nat
    BY DEF Init
  <2>. QED BY <1>1, <2>1, PipelineAssumption
           DEF Init, TypeOK, BranchState, CoordinatorState, FlightState, VisualState
<1>6. coord = "idle" /\ ~Running
  BY DEF Init, Running
<1>7. \A n \in Node : visual[n] = "none" /\ flight[n] = "none"
  BY DEF Init
<1>8. FlightOK /\ QuietOK /\ RestOK /\ MergeOK
  BY <1>6, <1>7 DEF FlightOK, QuietOK, RestOK, MergeOK, Merging, Init
<1>9. AnalysesOK
  BY <1>2, <1>6, <1>7, StageNames DEF AnalysesOK, VisualStatus, FreshStatus
<1>10. PublishedIsLanded
  BY <1>4, TaskIs, StageNames DEF PublishedIsLanded, StatusOf
<1>. QED BY <1>3, <1>5, <1>8, <1>9, <1>10 DEF Inv

-----------------------------------------------------------------------------
(* The steps that leave the queue alone *)

\* Steps of the coordinator that touch neither the queue nor a stage in flight:
\* what the invariant then asks of its own place.
LEMMA CoordinatorFrame ==
  ASSUME Inv, TypeOK', UNCHANGED <<queue, flight, working, retried>>,
         Running' => Running,
         UNCHANGED visual \/ (~Running' /\ \A n \in Node : visual'[n] = "none")
           \/ (LiveVisual = {} /\ \A n \in Node : visual'[n] = "none"),
         landed \subseteq landed'
  PROVE  RowsOK' /\ FlightOK' /\ AnalysesOK' /\ PublishedIsLanded'
<1>1. RowsOK'
  BY DEF Inv, RowsOK
<1>2. FlightOK'
  BY DEF Inv, FlightOK
<1>3. AnalysesOK'
  <2>1. \A n \in Node : VisualStatus(n)' = VisualStatus(n)
    BY DEF VisualStatus
  <2>2. \A n \in Node : Unattended(n) => Unattended(n)'
    BY <2>1 DEF Unattended
  <2>3. CASE UNCHANGED visual
    BY <2>1, <2>2, <2>3 DEF Inv, AnalysesOK, LiveVisual
  <2>4. CASE ~Running' /\ \A n \in Node : visual'[n] = "none"
    BY <2>1, <2>4 DEF Inv, AnalysesOK
  <2>5. CASE LiveVisual = {} /\ \A n \in Node : visual'[n] = "none"
    BY <2>1, <2>2, <2>5 DEF Inv, AnalysesOK
  <2>. QED BY <2>3, <2>4, <2>5
<1>4. PublishedIsLanded'
  BY DEF Inv, PublishedIsLanded
<1>. QED BY <1>1, <1>2, <1>3, <1>4

\* A restored publication enters the merge queue.
LEMMA RestoreInv ==
  ASSUME Inv, NEW t \in StageTask, Restore(t)
  PROVE  Inv'
<1>1. TypeOK'
  BY DEF Inv, TypeOK, Restore, coordVars, flightVars, gitVars, counters
<1>2. RowsOK' /\ FlightOK' /\ AnalysesOK' /\ PublishedIsLanded'
  BY <1>1, CoordinatorFrame DEF Restore, coordVars, flightVars, gitVars, Running
<1>3. MergeOK' /\ QuietOK' /\ RestOK'
  BY DEF Inv, MergeOK, QuietOK, RestOK, Restore, coordVars, flightVars, gitVars, Running,
         Merging, Quiet
<1>. QED BY <1>1, <1>2, <1>3 DEF Inv

\* Every publication of the queue is restored.
LEMMA RestoredInv ==
  ASSUME Inv, Restored
  PROVE  Inv'
<1>1. TypeOK'
  BY DEF Inv, TypeOK, Restored, flightVars, gitVars, counters, CoordinatorState
<1>2. RowsOK' /\ FlightOK' /\ AnalysesOK' /\ PublishedIsLanded'
  BY <1>1, CoordinatorFrame DEF Restored, flightVars, gitVars, Running
<1>3. MergeOK'
  BY DEF Inv, MergeOK, Restored, ToRestore, gitVars, Running, Merging
<1>4. QuietOK' /\ RestOK'
  BY DEF QuietOK, RestOK, Restored, Quiet, Running
<1>. QED BY <1>1, <1>2, <1>3, <1>4 DEF Inv

\* The rebase moves the branch of the current publication.
LEMMA RebaseInv ==
  ASSUME Inv, Rebase
  PROVE  Inv'
<1>1. TypeOK'
  <2>1. current \in StageTask
    BY TaskIs DEF Inv, MergeOK, Merging, Rebase
  <2>. QED BY <2>1 DEF Inv, TypeOK, Rebase, coordVars, flightVars, counters, BranchState
<1>2. RowsOK' /\ FlightOK' /\ AnalysesOK' /\ PublishedIsLanded'
  BY <1>1, CoordinatorFrame DEF Rebase, coordVars, flightVars, Running
<1>3. MergeOK' /\ QuietOK' /\ RestOK'
  BY DEF Inv, MergeOK, QuietOK, RestOK, Rebase, coordVars, flightVars, Running, Merging, Quiet
<1>. QED BY <1>1, <1>2, <1>3 DEF Inv

\* The merge moves HEAD, and the publication is on it.
LEMMA LandInv ==
  ASSUME Inv, Land
  PROVE  Inv'
<1>0. current \in StageTask
  BY TaskIs DEF Inv, MergeOK, Merging, Land
<1>1. TypeOK'
  BY <1>0 DEF Inv, TypeOK, Land, flightVars, counters, CoordinatorState, BranchState
<1>2. RowsOK' /\ FlightOK' /\ AnalysesOK' /\ PublishedIsLanded'
  BY <1>1, CoordinatorFrame DEF Land, flightVars, Running
<1>3. MergeOK'
  BY DEF Inv, MergeOK, Land, Running, Merging
<1>4. QuietOK' /\ RestOK'
  BY DEF QuietOK, RestOK, Land, Quiet, Running
<1>. QED BY <1>1, <1>2, <1>3, <1>4 DEF Inv

\* The coordinator is free again.
LEMMA SettleInv ==
  ASSUME Inv, Settle
  PROVE  Inv'
<1>1. TypeOK'
  BY DEF Inv, TypeOK, Settle, flightVars, gitVars, counters, CoordinatorState
<1>2. RowsOK' /\ FlightOK' /\ AnalysesOK' /\ PublishedIsLanded'
  BY <1>1, CoordinatorFrame DEF Settle, flightVars, gitVars, Running
<1>3. MergeOK'
  BY DEF Inv, MergeOK, Settle, Running, Merging
<1>4. QuietOK' /\ RestOK'
  BY DEF QuietOK, RestOK, Settle, Quiet, Running
<1>. QED BY <1>1, <1>2, <1>3, <1>4 DEF Inv

\* The analyses have been waited for.
LEMMA VisualFinishedInv ==
  ASSUME Inv, VisualFinished
  PROVE  Inv'
<1>1. TypeOK'
  BY DEF Inv, TypeOK, VisualFinished, flightVars, gitVars, counters, CoordinatorState, VisualState
<1>2. RowsOK' /\ FlightOK' /\ AnalysesOK' /\ PublishedIsLanded'
  BY <1>1, CoordinatorFrame DEF VisualFinished, flightVars, gitVars, Running
<1>3. MergeOK' /\ QuietOK'
  BY DEF Inv, MergeOK, QuietOK, VisualFinished, flightVars, gitVars, Running, Merging, Quiet
<1>4. RestOK'
  <2>1. LiveVisual' = {}
    BY DEF VisualFinished, LiveVisual
  <2>. QED BY <2>1 DEF Inv, RestOK, VisualFinished, Clogged, Unattended, VisualStatus
<1>. QED BY <1>1, <1>2, <1>3, <1>4 DEF Inv

\* The run ends, and its memory with it.
LEMMA EndRunInv ==
  ASSUME Inv, EndRun
  PROVE  Inv'
<1>1. TypeOK'
  BY DEF Inv, TypeOK, EndRun, flightVars, gitVars, counters, CoordinatorState, VisualState
<1>2. RowsOK' /\ FlightOK' /\ AnalysesOK' /\ PublishedIsLanded'
  BY <1>1, CoordinatorFrame DEF EndRun, flightVars, gitVars, Running
<1>3. MergeOK' /\ QuietOK'
  BY DEF Inv, MergeOK, QuietOK, EndRun, flightVars, gitVars, Running, Merging, Quiet
<1>4. RestOK'
  <2>1. LiveVisual' = {}
    BY DEF EndRun, LiveVisual
  <2>. QED BY <2>1 DEF Inv, RestOK, EndRun, Clogged, Unattended, VisualStatus
<1>. QED BY <1>1, <1>2, <1>3, <1>4 DEF Inv

\* The process dies: what was in memory is gone, the queue file is not.
LEMMA CrashInv ==
  ASSUME Inv, Crash
  PROVE  Inv'
<1>1. TypeOK'
  BY DEF Inv, TypeOK, Crash, gitVars, counters, CoordinatorState, VisualState, FlightState
<1>2. ~Running'
  BY DEF Crash, Running
<1>3. RowsOK' /\ PublishedIsLanded'
  BY DEF Inv, RowsOK, PublishedIsLanded, Crash, gitVars
<1>4. FlightOK' /\ QuietOK' /\ RestOK' /\ MergeOK'
  BY <1>2 DEF FlightOK, QuietOK, RestOK, MergeOK, Merging, Crash
<1>5. AnalysesOK'
  BY <1>2 DEF Inv, AnalysesOK, VisualStatus, Crash
<1>. QED BY <1>1, <1>3, <1>4, <1>5 DEF Inv

-----------------------------------------------------------------------------
(* The end of the drain *)

\* Of some stage tasks one always comes first.
LEMMA FirstExists ==
  ASSUME NEW S \in SUBSET StageTask, S # {}
  PROVE  First(S) # {}
<1>. DEFINE R == OpToRel(<, Nat)
            T == {StageOrder[t] : t \in S}
<1>1. \A t \in S : t \in Node \X Stage
  BY DEF StageTask, FormalStage
<1>2. \A t \in S : StageOrder[t] \in Nat
  BY <1>1, PipelineAssumption
<1>3. T \subseteq Nat /\ T # {}
  BY <1>2
<1>. HIDE DEF T
<1>4. IsWellFoundedOn(R, Nat)
  BY NatLessThanWellFounded
<1>5. \A x, y \in Nat : <<x, y>> \in R <=> x < y
  BY DEF OpToRel
<1>. HIDE DEF R
<1>6. PICK x \in T : \A y \in T : ~(<<y, x>> \in R)
  BY <1>3, <1>4, WFMin
<1>7. ASSUME NEW y \in T PROVE x <= y
  <2>1. x \in Nat /\ y \in Nat
    BY <1>3
  <2>2. ~(y < x)
    BY <1>5, <1>6, <2>1
  <2>. QED BY <2>1, <2>2
<1>8. PICK t \in S : StageOrder[t] = x
  BY DEF T
<1>9. \A u \in S : StageOrder[t] <= StageOrder[u]
  BY <1>7, <1>8 DEF T
<1>. QED BY <1>9 DEF First

\* Nothing is left behind a gate that is open when the coordinator finds nothing
\* to publish and nothing to start.
LEMMA NothingLeft ==
  ASSUME Inv, coord = "select", NextReady = {}, NextRunnable(queue) = {},
         \A n \in Node : flight[n] = "none"
  PROVE  /\ \A t \in ReadyToMerge(queue) : ~PrerequisitesMet(queue, t)
         /\ ~Clogged => \A t \in StageTask : StatusOf(queue, t) = "PENDING"
                                               => ~PrerequisitesMet(queue, t)
<1>. USE DEF Inv
<1>0. queue \in Queue /\ \A n \in Node : RowOK(queue, n)
  BY DEF TypeOK, RowsOK, Rows
<1>1. \A t \in ReadyToMerge(queue) : ~PrerequisitesMet(queue, t)
  <2>1. \A t \in ReadyToMerge(queue) : t \in StageTask /\ StatusOf(queue, t) = "READY_TO_MERGE"
    BY DEF ReadyToMerge
  <2>2. \A t \in ReadyToMerge(queue) : t \in ActiveEntries
    BY <2>1 DEF MergeOK, ActiveEntries, Running, Merging
  <2>. DEFINE S == {t \in ActiveEntries : PrerequisitesMet(queue, t)}
  <2>3. S \in SUBSET StageTask
    BY DEF ActiveEntries, TypeOK
  <2>4. S = {}
    BY <2>3, FirstExists DEF NextReady
  <2>. QED BY <2>2, <2>4
<1>2. \A t \in ReadyToMerge(queue) : t[2] = "TEST_GENERATION"
  BY <1>1 DEF MergeOK, Running
<1>3. Blockers(queue) = ReadyToMerge(queue)
  <2>1. InFlight = {}
    BY DEF InFlight
  <2>2. ASSUME NEW n \in Node, NEW s \in FormalStage
        PROVE  queue.stage[n][s] \notin {"RUNNING", "READY"}
    <3>1. queue.stage[n][s] # "RUNNING"
      <4>1. FlightOK /\ Running
        BY DEF Running
      <4>. QED BY <4>1 DEF FlightOK
    <3>2. queue.stage[n][s] # "READY"
      <4>1. RowOK(queue, n)
        BY <1>0
      <4>2. {queue.stage[n]["INTERFACE_DESIGN"], queue.stage[n]["TEST_GENERATION"],
             queue.stage[n]["IMPLEMENTATION"]} \cap {"READY", "RETRY_WAIT"} = {}
        BY <4>1 DEF RowOK
      <4>. QED BY <4>2, StageNames
    <3>. QED BY <3>1, <3>2
  <2>3. \A t \in StageTask : StatusOf(queue, t) \notin {"RUNNING", "READY"}
    BY <2>2, TaskIs DEF StatusOf
  <2>. QED BY <2>1, <2>3 DEF Blockers, ReadyToMerge, ActiveStatus
<1>4. ASSUME ~Clogged, NEW t \in StageTask, StatusOf(queue, t) = "PENDING",
             PrerequisitesMet(queue, t)
      PROVE  FALSE
  <2>1. First(Candidates(queue)) = {}
    BY <1>3, <1>4 DEF NextRunnable, Clogged
  <2>2. Candidates(queue) = {}
    BY <2>1, FirstExists DEF Candidates
  <2>. DEFINE n == t[1]
              s == t[2]
  <2>3. n \in Node /\ s \in FormalStage /\ t = <<n, s>> /\ queue.stage[n][s] = "PENDING"
    BY <1>4, TaskIs DEF StatusOf
  <2>. HIDE DEF n, s
  <2>4. RowOK(queue, n) /\ queue.state[n] \in NodeState
    BY <1>0, <2>3, RowTyped
  <2>5. s = "TEST_GENERATION" => IsLeaf(n)
    BY <2>3, <2>4, StageNames DEF RowOK
  <2>6. StageDependenciesMet(queue, t)
    BY <1>4, <2>3, <2>4 DEF StageDependenciesMet
  <2>7. ASSUME NEW u \in Blockers(queue) PROVE OverlapAllowed(t, u)
    <3>1. u \in ReadyToMerge(queue) /\ u[2] = "TEST_GENERATION"
      BY <1>2, <1>3, <2>7
    <3>2. u[1] \in Node /\ queue.stage[u[1]]["TEST_GENERATION"] = "READY_TO_MERGE"
      BY <3>1, TaskIs
    <3>3. ASSUME u[1] = n PROVE FALSE
      <4>1. s # "INTERFACE_DESIGN" => queue.stage[n]["INTERFACE_DESIGN"] \in TerminalSuccess
        BY <1>0, <1>4, <2>3, <2>4, GateRows
      <4>2. s = "IMPLEMENTATION" => Designed(queue, n)
        BY <1>0, <1>4, <2>3, <2>4, GateRows
      <4>. QED BY <2>3, <2>4, <3>2, <3>3, <4>1, <4>2, StageNames DEF RowOK, Designed
    <3>. QED BY <2>3, <3>1, <3>3 DEF OverlapAllowed
  <2>8. t \in Candidates(queue)
    BY <1>4, <2>3, <2>5, <2>6, <2>7 DEF Candidates
  <2>. QED BY <2>2, <2>8
<1>. QED BY <1>1, <1>4

\* An analysis is live only while a formal stage of its node is pending.
LEMMA LiveMeansPending ==
  ASSUME Inv, ~PendingFormal
  PROVE  LiveVisual = {}
<1>. SUFFICES ASSUME NEW n \in Node, visual[n] \in {"starting", "analyzing"} PROVE FALSE
  BY DEF LiveVisual
<1>1. VisualStatus(n) \in Unfinished
  BY DEF Inv, AnalysesOK, Unfinished
<1>2. RowOK(queue, n)
  BY DEF Inv, RowsOK, Rows
<1>3. PICK s \in FormalStage : queue.stage[n][s] = "PENDING"
  BY <1>1, <1>2, StageNames DEF RowOK, VisualStatus
<1>. QED BY <1>3, TaskIs DEF PendingFormal, StatusOf

\* The drain waits, or it is over because there is nothing left to start.
LEMMA StopRefillInv ==
  ASSUME Inv, StopRefill
  PROVE  Inv'
<1>1. TypeOK'
  BY DEF Inv, TypeOK, StopRefill, flightVars, gitVars, counters, CoordinatorState
<1>2. RowsOK' /\ FlightOK' /\ AnalysesOK' /\ PublishedIsLanded'
  BY <1>1, CoordinatorFrame DEF StopRefill, flightVars, gitVars, Running
<1>3. /\ InFlight # {} => coord' = "waiting"
      /\ InFlight = {} /\ PendingFormal /\ LiveVisual # {} => coord' = "visualWait"
      /\ InFlight = {} /\ ~(PendingFormal /\ LiveVisual # {}) =>
            coord' = IF retried THEN "drained" ELSE "finishing"
  BY DEF StopRefill
<1>4. MergeOK'
  <2>1. /\ coord = "select" /\ UNCHANGED <<queue, current, landed, mergeQueue>>
        /\ coord' \in {"waiting", "visualWait", "drained", "finishing"}
    BY <1>3 DEF StopRefill, gitVars
  <2>. QED BY <2>1 DEF Inv, MergeOK, Running, Merging
<1>5. QuietOK'
  <2>1. coord' \in Quiet => InFlight = {}
    BY <1>3 DEF Quiet
  <2>2. \A n \in Node : InFlight = {} => flight[n] = "none"
    BY DEF InFlight
  <2>3. Running' /\ UNCHANGED flight
    BY <1>3 DEF Running, StopRefill, flightVars
  <2>. QED BY <2>1, <2>2, <2>3 DEF QuietOK
<1>6. RestOK'
  <2>. SUFFICES ASSUME coord' \in {"finishing", "drained", "ended"} PROVE RestOK'
    BY DEF RestOK
  <2>1. InFlight = {} /\ ~(PendingFormal /\ LiveVisual # {})
    BY <1>3
  <2>2. LiveVisual = {}
    BY <2>1, LiveMeansPending
  <2>3. \A n \in Node : flight[n] = "none"
    BY <2>1 DEF InFlight
  <2>4. /\ \A t \in ReadyToMerge(queue) : ~PrerequisitesMet(queue, t)
        /\ ~Clogged => \A t \in StageTask : StatusOf(queue, t) = "PENDING"
                                              => ~PrerequisitesMet(queue, t)
    BY <2>3, NothingLeft DEF StopRefill
  <2>5. \A n \in Node : VisualStatus(n) \in Unfinished => Unattended(n)
    BY <2>2 DEF Inv, AnalysesOK, StopRefill, Running
  <2>6. UNCHANGED <<queue, visual, retried>>
    BY DEF StopRefill
  <2>. QED BY <2>2, <2>4, <2>5, <2>6 DEF RestOK, LiveVisual, Clogged, VisualStatus, Unattended
<1>. QED BY <1>1, <1>2, <1>4, <1>5, <1>6 DEF Inv

-----------------------------------------------------------------------------
(* A stage in flight *)

\* A step of a stage in flight that leaves the queue alone: it stays in flight,
\* and only a stage whose worker has begun goes on as one.
LEMMA StageFrame ==
  ASSUME Inv, TypeOK', NEW n \in Node, NEW from, NEW to,
         flight[n] = from, flight' = [flight EXCEPT ![n] = to],
         from # "none", to # "none", to \in {"running", "ready"} => from \in {"running", "ready"},
         UNCHANGED <<queue, landed, coord, current, retried, mergeQueue, working, visual>>
  PROVE  Inv'
<1>1. /\ \A m \in Node : flight[m] # "none" <=> flight'[m] # "none"
      /\ \A m \in Node : flight'[m] \in {"running", "ready"} => flight[m] \in {"running", "ready"}
  BY DEF Inv, TypeOK
<1>2. coord \notin Quiet
  BY DEF Inv, QuietOK
<1>3. RowsOK' /\ AnalysesOK' /\ MergeOK' /\ PublishedIsLanded'
  BY DEF Inv, RowsOK, AnalysesOK, MergeOK, PublishedIsLanded, VisualStatus, LiveVisual, Unattended,
         Running, Merging
<1>4. FlightOK'
  BY <1>1 DEF Inv, FlightOK, Running
<1>5. QuietOK' /\ RestOK'
  BY <1>2 DEF QuietOK, RestOK, Quiet, Running
<1>. QED BY <1>3, <1>4, <1>5 DEF Inv

\* Nothing changes, nothing is taken back.
LEMMA KeepsItself == ASSUME NEW q PROVE Keeps(q, q)
BY DEF Keeps

\* The worktree is there and the phase begins.
LEMMA OpenInv ==
  ASSUME Inv, NEW n \in Node, Open(n), Running,
         UNCHANGED <<attempts, testFailed, landed, coordVars, mergeQueue, working, visual, counters>>
  PROVE  Inv'
<1>. USE DEF Move
<1>1. /\ flight[n] = "opening" /\ flight' = [flight EXCEPT ![n] = "running"]
      /\ UNCHANGED <<landed, coord, current, retried, mergeQueue, working, visual>>
  BY DEF Open, coordVars
<1>. DEFINE s == working[n]
<1>2. s \in FormalStage /\ queue.stage[n][s] = "RUNNING" /\ RowsOK /\ Rows(queue) /\ queue \in Queue
  BY <1>1 DEF Inv, FlightOK, RowsOK, TypeOK
<1>. HIDE DEF s
<1>3. /\ queue' \in Queue /\ Rows(queue') /\ Keeps(queue, queue')
      /\ \A m \in Node, u \in Stage : queue'.stage[m][u] = queue.stage[m][u]
      /\ \A m \in Node \ {n} : queue'.state[m] = queue.state[m]
      /\ s # "TEST_GENERATION" => queue'.state[n] = PhaseState(s)
  <2>1. ASSUME s \in {"INTERFACE_DESIGN", "IMPLEMENTATION"}
        PROVE  /\ queue' \in Queue /\ Rows(queue') /\ Keeps(queue, queue')
               /\ \A m \in Node, u \in Stage : queue'.stage[m][u] = queue.stage[m][u]
               /\ \A m \in Node \ {n} : queue'.state[m] = queue.state[m]
               /\ queue'.state[n] = PhaseState(s)
    <3>1. queue' = BeginTask(queue, n, PhaseOf(s))
      BY <2>1 DEF Open, PhaseOf, s
    <3>. QED BY <1>2, <2>1, <3>1, BeginKeeps, BeginTaskIs
  <2>2. ASSUME s = "TEST_GENERATION" PROVE queue' = queue
    BY <2>2 DEF Open, s
  <2>. QED BY <1>2, <2>1, <2>2, KeepsItself, StageNames
<1>4. TypeOK'
  <2>1. TaskOf(n) \in StageTask
    BY <1>2, TaskIs DEF TaskOf, s
  <2>2. branch' \in [StageTask -> BranchState]
    BY <2>1 DEF Open, Inv, TypeOK, BranchState
  <2>3. flight' \in [Node -> FlightState]
    BY <1>1 DEF Inv, TypeOK, FlightState
  <2>. QED BY <1>3, <2>2, <2>3 DEF Inv, TypeOK, Open, coordVars, counters
<1>5. coord \notin Quiet
  BY <1>1 DEF Inv, QuietOK
<1>6. RowsOK' /\ PublishedIsLanded'
  <2>1. \A t \in StageTask : StatusOf(queue', t) = StatusOf(queue, t)
    BY <1>3, TaskIs, StageNames DEF StatusOf
  <2>. QED BY <1>1, <1>3, <2>1 DEF RowsOK, Inv, PublishedIsLanded
<1>7. FlightOK'
  <2>1. \A t \in StageTask : PrerequisitesMet(queue, t) => PrerequisitesMet(queue', t)
    BY <1>2, <1>3, KeepsGate
  <2>2. \A m \in Node : flight'[m] = IF m = n THEN "running" ELSE flight[m]
    BY <1>1 DEF Inv, TypeOK
  <2>3. ASSUME NEW m \in Node, flight'[m] # "none"
        PROVE  /\ working'[m] \in FormalStage
               /\ queue'.stage[m][working'[m]] = "RUNNING"
               /\ PrerequisitesMet(queue', <<m, working'[m]>>)
               /\ flight'[m] \in {"running", "ready"} =>
                    /\ working'[m] = "INTERFACE_DESIGN" => queue'.state[m] = "DESIGNING"
                    /\ working'[m] = "IMPLEMENTATION" => queue'.state[m] = "IMPLEMENTING"
    <3>1. flight[m] # "none"
      BY <1>1, <2>2, <2>3
    <3>2. /\ working[m] \in FormalStage /\ queue.stage[m][working[m]] = "RUNNING"
          /\ PrerequisitesMet(queue, <<m, working[m]>>)
          /\ flight[m] \in {"running", "ready"} =>
               /\ working[m] = "INTERFACE_DESIGN" => queue.state[m] = "DESIGNING"
               /\ working[m] = "IMPLEMENTATION" => queue.state[m] = "IMPLEMENTING"
      BY <3>1 DEF Inv, FlightOK
    <3>3. <<m, working[m]>> \in StageTask
      BY <3>2, TaskIs
    <3>4. working'[m] = working[m] /\ PrerequisitesMet(queue', <<m, working[m]>>)
      BY <1>1, <2>1, <3>2, <3>3
    <3>5. queue'.stage[m][working[m]] = "RUNNING"
      BY <1>3, <3>2, StageNames
    <3>6. CASE m = n
      BY <1>3, <3>2, <3>4, <3>5, <3>6 DEF PhaseState, s
    <3>7. CASE m # n
      BY <1>3, <2>2, <3>2, <3>4, <3>5, <3>7
    <3>. QED BY <3>6, <3>7
  <2>4. ASSUME Running', NEW m \in Node, NEW u \in FormalStage, queue'.stage[m][u] = "RUNNING"
        PROVE  flight'[m] # "none" /\ working'[m] = u
    <3>1. queue.stage[m][u] = "RUNNING"
      BY <1>3, <2>4, StageNames
    <3>2. flight[m] # "none" /\ working[m] = u
      BY <2>4, <3>1 DEF Inv, FlightOK
    <3>. QED BY <1>1, <2>2, <3>2
  <2>. QED BY <2>3, <2>4 DEF FlightOK
<1>8. AnalysesOK'
  <2>1. \A m \in Node : queue'.stage[m]["VISUAL_ANALYSIS"] = queue.stage[m]["VISUAL_ANALYSIS"]
    BY <1>3, StageNames
  <2>. QED BY <1>1, <2>1 DEF Inv, AnalysesOK, VisualStatus, LiveVisual, Unattended, Running
<1>9. MergeOK'
  <2>1. ReadyToMerge(queue') = ReadyToMerge(queue)
    BY <1>3, TaskIs, StageNames DEF ReadyToMerge, StatusOf
  <2>. QED BY <1>1, <1>3, <2>1, MergeFrame DEF Inv, Running, Merging, MergeOK
<1>10. QuietOK' /\ RestOK'
  BY <1>1, <1>5 DEF QuietOK, RestOK, Quiet, Running
<1>. QED BY <1>4, <1>6, <1>7, <1>8, <1>9, <1>10 DEF Inv

\* Whatever a stage in flight does.
LEMMA StageStepInv ==
  ASSUME Inv, NEW n \in Node, StageStep(n)
  PROVE  Inv'
<1>. USE DEF Move, Discard
<1>1. UNCHANGED <<attempts, testFailed, landed, coordVars, mergeQueue, working, visual, counters>>
      /\ Running
  BY DEF StageStep
<1>2. UNCHANGED <<attempts, testFailed, landed, coord, current, retried, mergeQueue, working,
                  visual, crashes, starts>>
  BY <1>1 DEF coordVars, counters
<1>3. ASSUME flight[n] # "none" PROVE TaskOf(n) \in StageTask
  BY <1>3, TaskIs DEF Inv, FlightOK, TaskOf
<1>4. CASE AcquireSlot(n)
  <2>. DEFINE to == IF Cardinality(workspaces) < MaxConcurrent THEN "opening" ELSE "failed"
  <2>1. /\ flight[n] = "starting" /\ flight' = [flight EXCEPT ![n] = to]
        /\ workspaces' \in {workspaces, workspaces \cup {TaskOf(n)}} /\ UNCHANGED <<queue, branch>>
    BY <1>4 DEF AcquireSlot
  <2>2. to # "none" /\ to \notin {"running", "ready"} /\ to \in FlightState
    BY DEF FlightState
  <2>. HIDE DEF to
  <2>3. TypeOK'
    BY <1>2, <1>3, <2>1, <2>2 DEF Inv, TypeOK
  <2>. QED BY <1>2, <2>1, <2>2, <2>3, StageFrame
<1>5. CASE Open(n)
  BY <1>1, <1>5, OpenInv
<1>6. CASE OpenFails(n)
  <2>1. TypeOK'
    BY <1>2, <1>3, <1>6 DEF OpenFails, Inv, TypeOK, FlightState, BranchState
  <2>. QED BY <1>2, <1>6, <2>1, StageFrame DEF OpenFails
<1>7. CASE StageSucceeds(n)
  <2>1. TypeOK'
    BY <1>2, <1>7 DEF StageSucceeds, Inv, TypeOK, FlightState
  <2>. QED BY <1>2, <1>7, <2>1, StageFrame DEF StageSucceeds
<1>8. CASE StageFails(n)
  <2>1. TypeOK'
    BY <1>2, <1>3, <1>8 DEF StageFails, Inv, TypeOK, FlightState, BranchState
  <2>. QED BY <1>2, <1>8, <2>1, StageFrame DEF StageFails
<1>9. CASE OutageInStage(n)
  <2>1. TypeOK'
    BY <1>2, <1>3, <1>9 DEF OutageInStage, Inv, TypeOK, FlightState, BranchState
  <2>. QED BY <1>2, <1>9, <2>1, StageFrame DEF OutageInStage
<1>. QED BY <1>4, <1>5, <1>6, <1>7, <1>8, <1>9 DEF StageStep

-----------------------------------------------------------------------------
(* A stage starts *)

\* The next stage starts: its gate is open and no other stage of its node is at work.
LEMMA DispatchInv ==
  ASSUME Inv, Dispatch
  PROVE  Inv'
<1>1. PICK t \in NextRunnable(queue) :
        /\ queue' = Transition(queue, t[1], t[2], "RUNNING")
        /\ landed' = landed \ {t}
        /\ flight' = [flight EXCEPT ![t[1]] = "starting"]
        /\ working' = [working EXCEPT ![t[1]] = t[2]]
  BY DEF Dispatch
<1>. DEFINE n == t[1]
            s == t[2]
<1>2. t \in Candidates(queue)
  BY <1>1 DEF NextRunnable, First
<1>3. /\ t \in StageTask /\ n \in Node /\ s \in FormalStage /\ t = <<n, s>>
      /\ queue.stage[n][s] = "PENDING" /\ PrerequisitesMet(queue, t)
      /\ \A u \in Blockers(queue) : n # u[1]
  BY <1>2, TaskIs DEF Candidates, StatusOf, StageDependenciesMet, OverlapAllowed
<1>4. /\ queue' = Transition(queue, n, s, "RUNNING") /\ landed' = landed \ {<<n, s>>}
      /\ flight' = [flight EXCEPT ![n] = "starting"] /\ working' = [working EXCEPT ![n] = s]
  BY <1>1, <1>3
<1>. HIDE DEF n, s
<1>5. flight[n] = "none"
  <2>1. n \in InFlight => TaskOf(n) \in Blockers(queue)
    BY DEF Blockers
  <2>2. TaskOf(n)[1] = n
    BY DEF TaskOf
  <2>. QED BY <1>3, <2>1, <2>2 DEF InFlight
<1>6. queue \in Queue /\ Rows(queue) /\ s \in Stage /\ "RUNNING" \in StageStatus
  BY <1>3, StageNames DEF Inv, TypeOK, RowsOK, StageStatus
<1>7. /\ queue' \in Queue /\ queue'.state = queue.state
      /\ \A m \in Node, u \in Stage :
           queue'.stage[m][u] = IF m = n /\ u = s THEN "RUNNING" ELSE queue.stage[m][u]
  BY <1>3, <1>4, <1>6, TransitionIs
<1>8. Keeps(queue, queue')
  BY <1>3, <1>4, <1>6, TransitionKeeps, StageNames
<1>9. RowsOK'
  BY <1>3, <1>4, <1>6, StartRows DEF RowsOK
<1>10. /\ coord = "select" /\ coord' \in {"select", "waiting"}
       /\ UNCHANGED <<attempts, testFailed, branch, workspaces, current, retried, mergeQueue,
                      visual, crashes, starts>>
  BY DEF Dispatch, counters
<1>11. TypeOK'
  BY <1>3, <1>4, <1>7, <1>10 DEF Inv, TypeOK, FlightState, CoordinatorState
<1>12. PublishedIsLanded'
  <2>. SUFFICES ASSUME NEW u \in StageTask, StatusOf(queue', u) = "PUBLISHED"
                PROVE  u \in landed'
    BY DEF PublishedIsLanded
  <2>1. u # t /\ StatusOf(queue, u) = "PUBLISHED"
    BY <1>3, <1>7, TaskIs, StageNames DEF StatusOf
  <2>. QED BY <1>3, <1>4, <2>1 DEF Inv, PublishedIsLanded
<1>13. FlightOK'
  <2>1. \A u \in StageTask : PrerequisitesMet(queue, u) => PrerequisitesMet(queue', u)
    BY <1>6, <1>7, <1>8, KeepsGate
  <2>2. /\ \A m \in Node : flight'[m] = IF m = n THEN "starting" ELSE flight[m]
        /\ \A m \in Node : working'[m] = IF m = n THEN s ELSE working[m]
    BY <1>4 DEF Inv, TypeOK
  <2>3. ASSUME NEW m \in Node, flight'[m] # "none"
        PROVE  /\ working'[m] \in FormalStage
               /\ queue'.stage[m][working'[m]] = "RUNNING"
               /\ PrerequisitesMet(queue', <<m, working'[m]>>)
               /\ flight'[m] \in {"running", "ready"} =>
                    /\ working'[m] = "INTERFACE_DESIGN" => queue'.state[m] = "DESIGNING"
                    /\ working'[m] = "IMPLEMENTATION" => queue'.state[m] = "IMPLEMENTING"
    <3>1. CASE m = n
      BY <1>3, <1>6, <1>7, <2>1, <2>2, <3>1
    <3>2. ASSUME m # n
          PROVE  /\ working[m] \in FormalStage /\ queue.stage[m][working[m]] = "RUNNING"
                 /\ PrerequisitesMet(queue, <<m, working[m]>>)
                 /\ flight[m] \in {"running", "ready"} =>
                      /\ working[m] = "INTERFACE_DESIGN" => queue.state[m] = "DESIGNING"
                      /\ working[m] = "IMPLEMENTATION" => queue.state[m] = "IMPLEMENTING"
      BY <2>2, <2>3, <3>2 DEF Inv, FlightOK
    <3>3. CASE m # n
      <4>1. <<m, working[m]>> \in StageTask
        BY <3>2, <3>3, TaskIs
      <4>. QED BY <1>7, <2>1, <2>2, <3>2, <3>3, <4>1, StageNames
    <3>. QED BY <3>1, <3>3
  <2>4. ASSUME NEW m \in Node, NEW u \in FormalStage, queue'.stage[m][u] = "RUNNING"
        PROVE  flight'[m] # "none" /\ working'[m] = u
    <3>1. Running
      BY <1>10 DEF Running
    <3>2. queue.stage[m][u] = "RUNNING" => flight[m] # "none" /\ working[m] = u
      BY <3>1 DEF Inv, FlightOK
    <3>. QED BY <1>5, <1>7, <2>2, <2>4, <3>2, StageNames
  <2>. QED BY <2>3, <2>4 DEF FlightOK
<1>14. AnalysesOK'
  <2>1. \A m \in Node : queue'.stage[m]["VISUAL_ANALYSIS"] = queue.stage[m]["VISUAL_ANALYSIS"]
    BY <1>3, <1>7, StageNames
  <2>. QED BY <1>10, <2>1 DEF Inv, AnalysesOK, VisualStatus, LiveVisual, Unattended, Running
<1>15. MergeOK'
  <2>1. ReadyToMerge(queue') \subseteq ReadyToMerge(queue)
    BY <1>7, TaskIs, StageNames
  <2>. QED BY <1>7, <1>8, <1>10, <2>1, MergeFrame DEF Inv, Running, Merging
<1>16. QuietOK' /\ RestOK'
  BY <1>10 DEF QuietOK, RestOK, Quiet, Running
<1>. QED BY <1>9, <1>11, <1>12, <1>13, <1>14, <1>15, <1>16 DEF Inv

-----------------------------------------------------------------------------
(* A background analysis *)

\* A step of an analysis: it leaves the formal stages at work alone.
LEMMA AnalysisFrame ==
  ASSUME Inv, TypeOK', Running, NEW n \in Node, visual[n] \in {"starting", "analyzing"},
         Rows(queue'), Keeps(queue, queue'),
         \A m \in Node, u \in FormalStage :
           queue'.stage[m][u] \in {"RUNNING", "READY_TO_MERGE", "PUBLISHED"}
             => queue.stage[m][u] = queue'.stage[m][u],
         \A m \in Node, u \in FormalStage :
           queue.stage[m][u] \in {"RUNNING", "READY_TO_MERGE"}
             => queue'.state[m] = queue.state[m] /\ queue'.stage[m][u] = queue.stage[m][u],
         \A m \in Node \ {n} :
           /\ queue'.stage[m]["VISUAL_ANALYSIS"] = queue.stage[m]["VISUAL_ANALYSIS"]
           /\ visual'[m] = visual[m],
         \/ visual'[n] = "starting" /\ queue'.stage[n]["VISUAL_ANALYSIS"] = "RETRY_WAIT"
         \/ visual'[n] = "analyzing" /\ queue'.stage[n]["VISUAL_ANALYSIS"] = "RUNNING"
         \/ visual'[n] = "done" /\ queue'.stage[n]["VISUAL_ANALYSIS"] \notin Unfinished,
         coord' = coord \/ (coord = "visualWait" /\ coord' = "select"),
         UNCHANGED <<landed, current, retried, mergeQueue, flight, working>>
  PROVE  Inv'
<1>1. RowsOK'
  BY DEF RowsOK
<1>2. queue \in Queue /\ queue' \in Queue
  BY DEF Inv, TypeOK
<1>3. Running' /\ (Merging' <=> Merging) /\ coord # "idle" /\ coord # "ended"
  BY DEF Running, Merging
<1>4. n \in LiveVisual
  BY DEF LiveVisual
<1>5. coord \notin {"finishing", "drained", "ended"}
  BY <1>4 DEF Inv, RestOK
<1>6. FlightOK'
  <2>1. ASSUME NEW m \in Node, flight[m] # "none"
        PROVE  /\ queue'.stage[m][working[m]] = "RUNNING"
               /\ queue'.state[m] = queue.state[m]
    <3>1. working[m] \in FormalStage /\ queue.stage[m][working[m]] = "RUNNING"
      BY <2>1 DEF Inv, FlightOK
    <3>. QED BY <3>1
  <2>2. TypeOK /\ FlightOK
    BY DEF Inv
  <2>. QED BY <1>2, <2>1, <2>2, FlightFrame
<1>7. AnalysesOK'
  <2>. SUFFICES ASSUME NEW m \in Node
       PROVE /\ visual'[m] = "starting" => VisualStatus(m)' \in {"PENDING", "RETRY_WAIT"}
             /\ visual'[m] = "analyzing" => VisualStatus(m)' = "RUNNING"
             /\ m \notin HasReferences =>
                  visual'[m] = "none" /\ VisualStatus(m)' \notin {"RUNNING", "RETRY_WAIT"}
             /\ VisualStatus(m)' \in Unfinished => m \in LiveVisual' \/ Unattended(m)'
    BY DEF AnalysesOK
  <2>1. CASE m = n
    <3>1. n \in HasReferences
      BY DEF Inv, AnalysesOK
    <3>2. VisualStatus(n)' = queue'.stage[n]["VISUAL_ANALYSIS"]
      BY DEF VisualStatus
    <3>3. visual'[n] \in {"starting", "analyzing"} => n \in LiveVisual'
      BY DEF LiveVisual
    <3>4. visual'[n] = "done" => VisualStatus(n)' \notin Unfinished
      BY <3>2 DEF Unfinished
    <3>. QED BY <2>1, <3>1, <3>2, <3>3, <3>4
  <2>2. CASE m # n
    <3>1. VisualStatus(m)' = VisualStatus(m) /\ visual'[m] = visual[m]
      BY <2>2 DEF VisualStatus
    <3>2. /\ Unattended(m) => Unattended(m)'
          /\ m \in LiveVisual => m \in LiveVisual'
      BY <3>1 DEF Unattended, LiveVisual
    <3>. QED BY <3>1, <3>2 DEF Inv, AnalysesOK
  <2>. QED BY <2>1, <2>2
<1>8. ReadyToMerge(queue') = ReadyToMerge(queue)
  <2>1. ASSUME NEW t \in StageTask
        PROVE  queue'.stage[t[1]][t[2]] = "READY_TO_MERGE"
                 <=> queue.stage[t[1]][t[2]] = "READY_TO_MERGE"
    <3>1. t[1] \in Node /\ t[2] \in FormalStage
      BY TaskIs
    <3>. QED BY <3>1
  <2>. QED BY <2>1 DEF ReadyToMerge, StatusOf
<1>9. MergeOK'
  <2>1. TypeOK /\ MergeOK
    BY DEF Inv
  <2>2. Merging => current \in ReadyToMerge(queue')
    BY <1>8 DEF Inv, MergeOK
  <2>. QED BY <1>2, <1>3, <1>8, <2>1, <2>2, MergeFrame
<1>10. QuietOK' /\ RestOK'
  <2>1. coord' \in Quiet => coord \in Quiet
    BY DEF Quiet
  <2>. QED BY <1>3, <1>5, <2>1 DEF Inv, QuietOK, RestOK
<1>11. PublishedIsLanded'
  <2>1. ASSUME NEW t \in StageTask, StatusOf(queue', t) = "PUBLISHED"
        PROVE  StatusOf(queue, t) = "PUBLISHED"
    <3>1. t[1] \in Node /\ t[2] \in FormalStage
      BY TaskIs
    <3>. QED BY <2>1, <3>1 DEF StatusOf
  <2>. QED BY <2>1 DEF Inv, PublishedIsLanded
<1>. QED BY <1>1, <1>6, <1>7, <1>9, <1>10, <1>11 DEF Inv

\* The rows of the formal stages stay when the row of an analysis changes.
LEMMA AnalysisTransition ==
  ASSUME NEW q \in Queue, Rows(q), NEW n \in Node, NEW st \in {"RUNNING", "READY", "RETRY_WAIT"},
         q.stage[n]["VISUAL_ANALYSIS"] \in Unfinished
  PROVE  LET p == Transition(q, n, "VISUAL_ANALYSIS", st) IN
         /\ p \in Queue /\ Rows(p) /\ Keeps(q, p) /\ p.state = q.state
         /\ \A m \in Node, u \in FormalStage : p.stage[m][u] = q.stage[m][u]
         /\ \A m \in Node : p.stage[m]["VISUAL_ANALYSIS"] =
              IF m = n THEN st ELSE q.stage[m]["VISUAL_ANALYSIS"]
<1>. DEFINE p == Transition(q, n, "VISUAL_ANALYSIS", st)
<1>1. "VISUAL_ANALYSIS" \in Stage /\ st \in StageStatus
  BY StageNames DEF StageStatus
<1>2. /\ p \in Queue /\ p.state = q.state
      /\ \A m \in Node, u \in Stage :
           p.stage[m][u] = IF m = n /\ u = "VISUAL_ANALYSIS" THEN st ELSE q.stage[m][u]
  BY <1>1, TransitionIs
<1>3. Rows(p)
  BY AnalysisRows
<1>4. Keeps(q, p)
  BY <1>1, TransitionKeeps, StageNames DEF Unfinished
<1>. HIDE DEF p
<1>5. /\ \A m \in Node, u \in FormalStage : p.stage[m][u] = q.stage[m][u]
      /\ \A m \in Node : p.stage[m]["VISUAL_ANALYSIS"] =
              IF m = n THEN st ELSE q.stage[m]["VISUAL_ANALYSIS"]
  BY <1>2, StageNames
<1>. QED BY <1>2, <1>3, <1>4, <1>5 DEF p

\* Whatever an analysis does.
LEMMA VisualStepInv ==
  ASSUME Inv, NEW n \in Node, VisualStep(n)
  PROVE  Inv'
<1>1. /\ Running
      /\ UNCHANGED <<testFailed, landed, branch, workspaces, current, retried, mergeQueue,
                     flight, working, crashes, starts>>
  BY DEF VisualStep, gitVars, flightVars, counters
<1>2. queue \in Queue /\ Rows(queue)
  BY DEF Inv, TypeOK, RowsOK
<1>3. ASSUME visual[n] \in {"starting", "analyzing"}
      PROVE  queue.stage[n]["VISUAL_ANALYSIS"] \in Unfinished
  BY <1>3 DEF Inv, AnalysesOK, VisualStatus, Unfinished
<1>4. ASSUME visual[n] \in {"starting", "analyzing"},
             NEW st \in {"RUNNING", "READY", "RETRY_WAIT"}, NEW to \in VisualState,
             queue' = Transition(queue, n, "VISUAL_ANALYSIS", st),
             visual' = [visual EXCEPT ![n] = to],
             <<to, st>> \in {<<"starting", "RETRY_WAIT">>, <<"analyzing", "RUNNING">>,
                             <<"done", "READY">>},
             attempts' \in [Node -> Nat],
             coord' = coord \/ (coord = "visualWait" /\ coord' = "select")
      PROVE  Inv'
  <2>1. /\ queue' \in Queue /\ Rows(queue') /\ Keeps(queue, queue') /\ queue'.state = queue.state
        /\ \A m \in Node, u \in FormalStage : queue'.stage[m][u] = queue.stage[m][u]
        /\ \A m \in Node : queue'.stage[m]["VISUAL_ANALYSIS"] =
              IF m = n THEN st ELSE queue.stage[m]["VISUAL_ANALYSIS"]
    BY <1>2, <1>3, <1>4, AnalysisTransition
  <2>2. TypeOK'
    BY <1>1, <1>4, <2>1 DEF Inv, TypeOK, CoordinatorState
  <2>3. /\ visual'[n] = to /\ \A m \in Node \ {n} : visual'[m] = visual[m]
    BY <1>4 DEF Inv, TypeOK
  <2>. QED BY <1>1, <1>4, <2>1, <2>2, <2>3, AnalysisFrame DEF Unfinished
<1>5. ASSUME visual[n] \in {"starting", "analyzing"},
             queue' = FailStage(queue, n, "VISUAL_ANALYSIS"), VisualDone(n), UNCHANGED attempts
      PROVE  Inv'
  <2>1. "VISUAL_ANALYSIS" \in Stage /\ MayFail(queue, n, "VISUAL_ANALYSIS")
    BY <1>3, <1>5, StageNames DEF MayFail
  <2>2. queue' \in Queue /\ Rows(queue') /\ Keeps(queue, queue')
    BY <1>2, <1>5, <2>1, FailKeeps
  <2>3. /\ \A m \in Node, u \in FormalStage :
             queue'.stage[m][u] \in {"RUNNING", "READY_TO_MERGE", "PUBLISHED"}
               => queue.stage[m][u] = queue'.stage[m][u] /\ ~(m = n /\ u = "VISUAL_ANALYSIS")
        /\ \A m \in Node, u \in FormalStage :
             queue.stage[m][u] \in {"RUNNING", "READY_TO_MERGE"} /\ ~(m = n /\ u = "VISUAL_ANALYSIS")
               => /\ m # n /\ queue'.state[m] = queue.state[m]
                  /\ queue'.stage[m][u] = queue.stage[m][u]
        /\ \A m \in Node : queue'.stage[m]["VISUAL_ANALYSIS"] =
              IF m = n THEN "FAILED" ELSE queue.stage[m]["VISUAL_ANALYSIS"]
    BY <1>2, <1>5, <2>1, FailFrame
  <2>4. "VISUAL_ANALYSIS" \notin FormalStage
    BY StageNames
  <2>5. /\ visual'[n] = "done" /\ \A m \in Node \ {n} : visual'[m] = visual[m]
        /\ coord' = coord \/ (coord = "visualWait" /\ coord' = "select")
    BY <1>5 DEF VisualDone, Inv, TypeOK
  <2>6. TypeOK'
    BY <1>1, <1>5, <2>2, <2>5 DEF Inv, TypeOK, VisualDone, CoordinatorState, VisualState
  <2>. QED BY <1>1, <1>5, <2>2, <2>3, <2>4, <2>5, <2>6, AnalysisFrame DEF Unfinished
<1>6. CASE VisualStarts(n)
  BY <1>4, <1>6 DEF VisualStarts, VisualState, Inv, TypeOK
<1>7. CASE VisualExhausted(n)
  BY <1>5, <1>7 DEF VisualExhausted
<1>8. CASE VisualReady(n)
  BY <1>4, <1>8 DEF VisualReady, VisualState, Inv, TypeOK, VisualDone
<1>9. CASE VisualRetries(n)
  BY <1>4, <1>9 DEF VisualRetries, VisualState, Inv, TypeOK
<1>10. CASE VisualFails(n)
  BY <1>5, <1>10 DEF VisualFails
<1>. QED BY <1>6, <1>7, <1>8, <1>9, <1>10 DEF VisualStep

-----------------------------------------------------------------------------
(* A publication fails *)

\* Its stage fails, and nothing else loses its place.
LEMMA PublicationFails ==
  ASSUME Inv, Running, Running', NEW t \in ReadyToMerge(queue),
         queue' = FailStage(queue, t[1], t[2]),
         UNCHANGED <<landed, flight, working, visual, retried>>
  PROVE  /\ queue' \in Queue /\ RowsOK' /\ FlightOK' /\ AnalysesOK' /\ PublishedIsLanded'
         /\ ReadyToMerge(queue') = ReadyToMerge(queue) \ {t}
         /\ \A u \in StageTask : PrerequisitesMet(queue, u) => PrerequisitesMet(queue', u)
<1>. DEFINE n == t[1]
            s == t[2]
<1>1. t \in StageTask /\ n \in Node /\ s \in FormalStage /\ t = <<n, s>>
  BY TaskIs
<1>2. queue \in Queue /\ Rows(queue) /\ TypeOK /\ FlightOK
  BY DEF Inv, TypeOK, RowsOK
<1>3. queue.stage[n][s] = "READY_TO_MERGE"
  BY TaskIs
<1>4. s \in Stage /\ s # "VISUAL_ANALYSIS" /\ MayFail(queue, n, s)
  BY <1>1, <1>3, StageNames DEF MayFail
<1>5. queue' \in Queue /\ Rows(queue') /\ Keeps(queue, queue')
  BY <1>1, <1>2, <1>4, FailKeeps
<1>6. /\ \A m \in Node, u \in FormalStage :
           queue'.stage[m][u] \in {"RUNNING", "READY_TO_MERGE", "PUBLISHED"}
             => queue.stage[m][u] = queue'.stage[m][u] /\ ~(m = n /\ u = s)
      /\ \A m \in Node, u \in FormalStage :
           queue.stage[m][u] \in {"RUNNING", "READY_TO_MERGE"} /\ ~(m = n /\ u = s)
             => /\ m # n /\ queue'.state[m] = queue.state[m]
                /\ queue'.stage[m][u] = queue.stage[m][u]
      /\ \A m \in Node : queue'.stage[m]["VISUAL_ANALYSIS"] = queue.stage[m]["VISUAL_ANALYSIS"]
  BY <1>1, <1>2, <1>4, FailFrame
<1>. HIDE DEF n, s
<1>7. FlightOK'
  <2>1. ASSUME NEW m \in Node, flight[m] # "none"
        PROVE  /\ queue'.stage[m][working[m]] = "RUNNING"
               /\ queue'.state[m] = queue.state[m]
    <3>1. working[m] \in FormalStage /\ queue.stage[m][working[m]] = "RUNNING"
      BY <1>2, <2>1 DEF FlightOK
    <3>2. ~(m = n /\ working[m] = s)
      BY <1>3, <3>1
    <3>. QED BY <1>6, <3>1, <3>2
  <2>2. \A m \in Node, u \in FormalStage :
          queue'.stage[m][u] = "RUNNING" => queue.stage[m][u] = "RUNNING"
    BY <1>6
  <2>. QED BY <1>2, <1>5, <2>1, <2>2, FlightFrame
<1>8. AnalysesOK'
  <2>1. \A m \in Node : VisualStatus(m)' = VisualStatus(m)
    BY <1>6 DEF VisualStatus
  <2>2. \A m \in Node : Unattended(m) <=> Unattended(m)'
    BY <2>1 DEF Unattended
  <2>3. LiveVisual' = LiveVisual
    BY DEF LiveVisual
  <2>. QED BY <2>1, <2>2, <2>3 DEF Inv, AnalysesOK
<1>9. PublishedIsLanded'
  <2>1. ASSUME NEW u \in StageTask, StatusOf(queue', u) = "PUBLISHED"
        PROVE  StatusOf(queue, u) = "PUBLISHED"
    <3>1. u[1] \in Node /\ u[2] \in FormalStage
      BY TaskIs
    <3>. QED BY <1>6, <2>1, <3>1 DEF StatusOf
  <2>. QED BY <2>1 DEF Inv, PublishedIsLanded
<1>10. ReadyToMerge(queue') = ReadyToMerge(queue) \ {t}
  <2>1. ASSUME NEW u \in StageTask
        PROVE  queue'.stage[u[1]][u[2]] = "READY_TO_MERGE"
                 <=> queue.stage[u[1]][u[2]] = "READY_TO_MERGE" /\ u # t
    <3>1. u[1] \in Node /\ u[2] \in FormalStage /\ u = <<u[1], u[2]>>
      BY TaskIs
    <3>2. u = t <=> u[1] = n /\ u[2] = s
      BY <1>1, <3>1
    <3>. QED BY <1>6, <3>1, <3>2
  <2>. QED BY <2>1 DEF ReadyToMerge, StatusOf
<1>11. \A u \in StageTask : PrerequisitesMet(queue, u) => PrerequisitesMet(queue', u)
  BY <1>2, <1>5, KeepsGate
<1>. QED BY <1>5, <1>7, <1>8, <1>9, <1>10, <1>11 DEF RowsOK

\* A publication that lost its worktree fails when the drain restores the others.
LEMMA RestoreFailsInv ==
  ASSUME Inv, NEW t \in StageTask, RestoreFails(t)
  PROVE  Inv'
<1>1. /\ t \in ReadyToMerge(queue) /\ queue' = FailStage(queue, t[1], t[2])
      /\ coord = "restoring"
      /\ UNCHANGED <<attempts, testFailed, landed, branch, workspaces, coord, current, retried,
                     mergeQueue, flight, working, visual, crashes, starts>>
  BY DEF RestoreFails, ToRestore, gitVars, coordVars, flightVars, counters
<1>2. Running /\ Running'
  BY <1>1 DEF Running
<1>3. /\ queue' \in Queue /\ RowsOK' /\ FlightOK' /\ AnalysesOK' /\ PublishedIsLanded'
      /\ ReadyToMerge(queue') = ReadyToMerge(queue) \ {t}
      /\ \A u \in StageTask : PrerequisitesMet(queue, u) => PrerequisitesMet(queue', u)
  BY <1>1, <1>2, PublicationFails
<1>4. TypeOK'
  BY <1>1, <1>3 DEF Inv, TypeOK
<1>5. MergeOK'
  <2>1. ~Merging'
    BY <1>1 DEF Merging
  <2>2. \A u \in ReadyToMerge(queue) : u \in StageTask
    BY TaskIs
  <2>. QED BY <1>1, <1>2, <1>3, <2>1, <2>2 DEF Inv, MergeOK
<1>6. QuietOK' /\ RestOK'
  BY <1>1, <1>2 DEF Inv, QuietOK, RestOK
<1>. QED BY <1>3, <1>4, <1>5, <1>6 DEF Inv

\* The publication the coordinator is at fails.
LEMMA FailPublicationInv ==
  ASSUME Inv, Running, NEW t \in ReadyToMerge(queue), FailPublication(t),
         current' \in StageTask, mergeQueue' \subseteq StageTask, workspaces' \subseteq StageTask,
         \A u \in ReadyToMerge(queue) : u = t \/ u \in mergeQueue',
         UNCHANGED <<attempts, testFailed, landed, retried, flight, working, visual,
                     crashes, starts>>
  PROVE  Inv'
<1>1. /\ queue' = FailStage(queue, t[1], t[2]) /\ branch' = [branch EXCEPT ![t] = "none"]
      /\ coord' = "settling" /\ Running'
  BY DEF FailPublication, Running
<1>2. /\ queue' \in Queue /\ RowsOK' /\ FlightOK' /\ AnalysesOK' /\ PublishedIsLanded'
      /\ ReadyToMerge(queue') = ReadyToMerge(queue) \ {t}
      /\ \A u \in StageTask : PrerequisitesMet(queue, u) => PrerequisitesMet(queue', u)
  BY <1>1, PublicationFails
<1>3. TypeOK'
  BY <1>1, <1>2 DEF Inv, TypeOK, BranchState, CoordinatorState
<1>4. MergeOK'
  <2>1. ~Merging' /\ coord' # "landed" /\ coord' # "restoring"
    BY <1>1 DEF Merging
  <2>2. \A u \in ReadyToMerge(queue) : u \in StageTask
    BY TaskIs
  <2>. QED BY <1>2, <2>1, <2>2 DEF Inv, MergeOK
<1>5. QuietOK' /\ RestOK'
  BY <1>1 DEF QuietOK, RestOK, Quiet, Running
<1>. QED BY <1>2, <1>3, <1>4, <1>5 DEF Inv

\* It drifted, or its merge failed.
LEMMA MergeFailsInv ==
  ASSUME Inv, PublicationDrifts \/ MergeFails
  PROVE  Inv'
<1>1. /\ coord = "merging" /\ FailPublication(current)
      /\ UNCHANGED <<attempts, testFailed, landed, workspaces, current, retried, mergeQueue,
                     flight, working, visual, crashes, starts>>
  BY DEF PublicationDrifts, MergeFails, flightVars, counters
<1>2. Running /\ Merging /\ coord # "restoring"
  BY <1>1 DEF Running, Merging
<1>3. /\ current \in ReadyToMerge(queue)
      /\ \A u \in ReadyToMerge(queue) : u = current \/ u \in mergeQueue
  BY <1>2 DEF Inv, MergeOK
<1>4. current \in StageTask /\ mergeQueue \subseteq StageTask /\ workspaces \subseteq StageTask
  BY <1>3, TaskIs DEF Inv, TypeOK
<1>. QED BY <1>1, <1>2, <1>3, <1>4, FailPublicationInv

\* The coordinator takes the next publication, or refuses it.
LEMMA TakeEntryInv ==
  ASSUME Inv, TakeEntry
  PROVE  Inv'
<1>1. PICK t \in NextReady :
        /\ mergeQueue' = ActiveEntries \ {t}
        /\ workspaces' = workspaces \ (mergeQueue \ ActiveEntries)
        /\ current' = t
        /\ IF branch[t] = "moved" THEN FailPublication(t)
                                  ELSE coord' = "merging" /\ UNCHANGED <<queue, branch>>
  BY DEF TakeEntry
<1>2. /\ coord = "select" /\ Running /\ ~Merging
      /\ UNCHANGED <<attempts, testFailed, landed, retried, flight, working, visual,
                     crashes, starts>>
  BY DEF TakeEntry, Running, Merging, flightVars, counters
<1>3. mergeQueue \subseteq StageTask /\ workspaces \subseteq StageTask
  BY DEF Inv, TypeOK
<1>4. ActiveEntries = {u \in mergeQueue : u \in ReadyToMerge(queue)}
  BY <1>3 DEF ActiveEntries, ReadyToMerge
<1>5. t \in ActiveEntries /\ PrerequisitesMet(queue, t)
  BY DEF NextReady, First
<1>6. t \in ReadyToMerge(queue) /\ t \in StageTask
  BY <1>4, <1>5, TaskIs
<1>7. \A u \in ReadyToMerge(queue) : u = t \/ u \in mergeQueue'
  BY <1>1, <1>2, <1>4 DEF Inv, MergeOK
<1>8. mergeQueue' \subseteq StageTask /\ workspaces' \subseteq StageTask
  BY <1>1, <1>3, <1>4
<1>9. CASE branch[t] = "moved"
  BY <1>1, <1>2, <1>6, <1>7, <1>8, <1>9, FailPublicationInv
<1>10. CASE branch[t] # "moved"
  <2>1. coord' = "merging" /\ UNCHANGED <<queue, branch>>
    BY <1>1, <1>10
  <2>2. TypeOK'
    BY <1>1, <1>2, <1>6, <1>8, <2>1 DEF Inv, TypeOK, CoordinatorState
  <2>3. RowsOK' /\ FlightOK' /\ AnalysesOK' /\ PublishedIsLanded'
    BY <1>2, <2>1, <2>2, CoordinatorFrame DEF Running
  <2>4. MergeOK'
    BY <1>1, <1>2, <1>5, <1>6, <1>7, <2>1 DEF Inv, MergeOK, Merging
  <2>5. QuietOK' /\ RestOK'
    BY <2>1 DEF QuietOK, RestOK, Quiet, Running
  <2>. QED BY <2>2, <2>3, <2>4, <2>5 DEF Inv
<1>. QED BY <1>9, <1>10

-----------------------------------------------------------------------------
(* A publication succeeds *)

\* What the coordinator merged is published, and with the last stage of a phase
\* the phase completes.
LEMMA PublishInv ==
  ASSUME Inv, Publish
  PROVE  Inv'
<1>. DEFINE n == current[1]
            s == current[2]
<1>1. /\ coord = "landed" /\ coord' = "settling"
      /\ branch' = [branch EXCEPT ![current] = "none"]
      /\ UNCHANGED <<attempts, testFailed, landed, workspaces, current, retried, mergeQueue,
                     flight, working, visual, crashes, starts>>
  BY DEF Publish, flightVars, counters
<1>2. /\ Running /\ Merging /\ Running' /\ ~Merging'
      /\ coord # "restoring" /\ coord' # "restoring" /\ coord' # "landed"
  BY <1>1 DEF Running, Merging
<1>3. /\ current \in ReadyToMerge(queue) /\ PrerequisitesMet(queue, current)
      /\ current \in landed
  BY <1>1, <1>2 DEF Inv, MergeOK
<1>4. /\ current \in StageTask /\ n \in Node /\ s \in FormalStage /\ current = <<n, s>>
      /\ queue.stage[n][s] = "READY_TO_MERGE"
  BY <1>3, TaskIs
<1>5. PICK r \in CompletedStates : queue' = Published(queue, <<n, s>>, r)
  <2>1. PICK r \in Results :
          queue' = FinalizedFor(Transition(queue, n, s, "PUBLISHED"), current, r)
    BY DEF Publish
  <2>2. r \in CompletedStates
    BY PipelineAssumption
  <2>3. queue' = Published(queue, <<n, s>>, r)
    BY <1>4, <2>1 DEF Published
  <2>. QED BY <2>2, <2>3
<1>6. queue \in Queue /\ Rows(queue) /\ TypeOK /\ FlightOK
  BY DEF Inv, TypeOK, RowsOK
<1>. HIDE DEF n, s
<1>7. /\ queue' \in Queue /\ Rows(queue') /\ Keeps(queue, queue')
      /\ \A m \in Node, u \in FormalStage :
           queue'.stage[m][u] = IF m = n /\ u = s THEN "PUBLISHED" ELSE queue.stage[m][u]
      /\ \A m \in Node : queue'.stage[m]["VISUAL_ANALYSIS"] # queue.stage[m]["VISUAL_ANALYSIS"]
           => m = n /\ queue.stage[m]["VISUAL_ANALYSIS"] = "READY"
              /\ queue'.stage[m]["VISUAL_ANALYSIS"] = "PUBLISHED"
      /\ \A m \in Node \ {n} : queue'.state[m] = queue.state[m]
  BY <1>3, <1>4, <1>5, <1>6, PublishKeeps
<1>8. TypeOK'
  BY <1>1, <1>4, <1>6, <1>7 DEF TypeOK, BranchState, CoordinatorState
<1>9. FlightOK'
  <2>1. ASSUME NEW m \in Node, flight[m] # "none"
        PROVE  /\ queue'.stage[m][working[m]] = "RUNNING"
               /\ queue'.state[m] = queue.state[m]
    <3>1. working[m] \in FormalStage /\ queue.stage[m][working[m]] = "RUNNING"
      BY <1>6, <2>1 DEF FlightOK
    <3>2. m # n
      <4>1. RowOK(queue, n)
        BY <1>4, <1>6 DEF Rows
      <4>2. \A u \in FormalStage : queue.stage[n][u] \in {"RUNNING", "READY_TO_MERGE"} => u = s
        BY <1>4, <4>1, OneActive
      <4>. QED BY <1>4, <3>1, <4>2
    <3>. QED BY <1>7, <3>1, <3>2
  <2>2. \A m \in Node, u \in FormalStage :
          queue'.stage[m][u] = "RUNNING" => queue.stage[m][u] = "RUNNING"
    BY <1>7
  <2>. QED BY <1>1, <1>2, <1>6, <1>7, <2>1, <2>2, FlightFrame
<1>10. AnalysesOK'
  <2>1. \A m \in Node : \/ VisualStatus(m)' = VisualStatus(m)
                        \/ VisualStatus(m) = "READY" /\ VisualStatus(m)' = "PUBLISHED"
    BY <1>7 DEF VisualStatus
  <2>2. \A m \in Node : VisualStatus(m)' = VisualStatus(m) => (Unattended(m) <=> Unattended(m)')
    BY <1>1 DEF Unattended
  <2>3. LiveVisual' = LiveVisual
    BY <1>1 DEF LiveVisual
  <2>. QED BY <1>1, <1>2, <2>1, <2>2, <2>3 DEF Inv, AnalysesOK, Unfinished
<1>11. ASSUME NEW u \in StageTask
       PROVE  StatusOf(queue', u) = IF u = current THEN "PUBLISHED" ELSE StatusOf(queue, u)
  <2>1. u[1] \in Node /\ u[2] \in FormalStage /\ u = <<u[1], u[2]>>
    BY TaskIs
  <2>2. u = current <=> u[1] = n /\ u[2] = s
    BY <1>4, <2>1
  <2>. QED BY <1>7, <2>1, <2>2 DEF StatusOf
<1>12. PublishedIsLanded'
  BY <1>1, <1>3, <1>11 DEF Inv, PublishedIsLanded
<1>13. MergeOK'
  <2>1. ReadyToMerge(queue') \subseteq ReadyToMerge(queue) \ {current}
    BY <1>11 DEF ReadyToMerge
  <2>2. TypeOK /\ MergeOK
    BY DEF Inv
  <2>3. UNCHANGED <<current, mergeQueue>>
    BY <1>1
  <2>. QED BY <1>1, <1>2, <1>7, <2>1, <2>2, <2>3, MergeFrame
<1>14. QuietOK' /\ RestOK'
  BY <1>1, <1>2 DEF QuietOK, RestOK, Quiet
<1>. QED BY <1>7, <1>8, <1>9, <1>10, <1>12, <1>13, <1>14 DEF Inv, RowsOK

-----------------------------------------------------------------------------
(* The results of the stages *)

\* What was settled at a node depends on the node alone.
LEMMA NodeKeeps ==
  ASSUME NEW q \in Queue, NEW z \in Queue, NEW p \in Queue, Keeps(q, z), NEW n \in Node,
         p.state[n] = z.state[n], \A s \in Stage : p.stage[n][s] = z.stage[n][s]
  PROVE  /\ \A s \in Stage : q.stage[n][s] \in TerminalSuccess
                               => p.stage[n][s] \in TerminalSuccess
         /\ q.stage[n]["VISUAL_ANALYSIS"] = "READY" =>
              p.stage[n]["VISUAL_ANALYSIS"] \in {"READY"} \cup TerminalSuccess
         /\ ParentSettled(q, n) => ParentSettled(p, n)
<1>1. ParentSettled(z, n) => ParentSettled(p, n)
  BY SettledRows, StageNames DEF Designed
<1>. QED BY <1>1, StageNames DEF Keeps

\* What the coordinator makes of one result: the stage is ready to be merged or
\* it fails, and a node whose stage has not finished stays as it is.
LEMMA ReapedIs ==
  ASSUME Inv, NEW n \in Node
  PROVE  LET z == Reaped(queue, n) IN
         /\ z \in Queue /\ z.designDone[n] = queue.designDone[n] /\ Keeps(queue, z) /\ RowOK(z, n)
         /\ flight[n] \notin Finished => z = queue
         /\ \A u \in FormalStage :
              z.stage[n][u] \in {"RUNNING", "PUBLISHED"}
                => queue.stage[n][u] = z.stage[n][u] /\ ~(flight[n] \in Finished /\ u = working[n])
         /\ \A u \in FormalStage :
              z.stage[n][u] = "READY_TO_MERGE"
                => queue.stage[n][u] = "READY_TO_MERGE" \/ (flight[n] = "ready" /\ u = working[n])
         /\ z.stage[n]["VISUAL_ANALYSIS"] = queue.stage[n]["VISUAL_ANALYSIS"]
<1>. DEFINE z == Reaped(queue, n)
            s == working[n]
<1>1. queue \in Queue /\ Rows(queue) /\ RowOK(queue, n)
  BY DEF Inv, TypeOK, RowsOK, Rows
<1>2. CASE flight[n] \notin Finished
  <2>1. z = queue
    BY <1>2 DEF Reaped
  <2>. QED BY <1>1, <1>2, <2>1, KeepsItself
<1>3. CASE flight[n] \in Finished
  <2>1. /\ flight[n] # "none" /\ s \in FormalStage /\ queue.stage[n][s] = "RUNNING"
        /\ flight[n] = "ready" => /\ s = "INTERFACE_DESIGN" => queue.state[n] = "DESIGNING"
                                  /\ s = "IMPLEMENTATION" => queue.state[n] = "IMPLEMENTING"
    BY <1>3 DEF Inv, FlightOK, Finished
  <2>2. s \in Stage /\ s # "VISUAL_ANALYSIS"
    BY <2>1, StageNames
  <2>3. CASE flight[n] = "ready"
    <3>1. z = Transition(queue, n, s, "READY_TO_MERGE")
      BY <2>1, <2>3 DEF Reaped, Finished
    <3>2. "READY_TO_MERGE" \in StageStatus
      BY DEF StageStatus
    <3>3. /\ z \in Queue /\ z.designDone[n] = queue.designDone[n]
          /\ \A u \in Stage : z.stage[n][u] = IF u = s THEN "READY_TO_MERGE" ELSE queue.stage[n][u]
      BY <1>1, <2>2, <3>1, <3>2, TransitionIs
    <3>4. RowOK(z, n)
      BY <1>1, <2>1, <2>3, <3>1, ReadyRows
    <3>5. Keeps(queue, z)
      BY <1>1, <2>1, <2>2, <3>1, <3>2, TransitionKeeps, StageNames
    <3>. HIDE DEF z, s
    <3>. QED BY <1>3, <2>2, <2>3, <3>3, <3>4, <3>5, StageNames DEF z, s
  <2>4. CASE flight[n] # "ready"
    <3>1. z = FailStage(queue, n, s)
      BY <1>3, <2>1, <2>4 DEF Reaped
    <3>2. MayFail(queue, n, s)
      BY <2>1, <2>2 DEF MayFail
    <3>3. z \in Queue /\ z.designDone[n] = queue.designDone[n]
      BY <1>1, <2>2, <3>1, FailStageIs DEF Written
    <3>4. Rows(z) /\ Keeps(queue, z)
      BY <1>1, <2>2, <3>1, <3>2, FailKeeps
    <3>5. /\ \A u \in FormalStage :
               z.stage[n][u] \in {"RUNNING", "READY_TO_MERGE", "PUBLISHED"}
                 => queue.stage[n][u] = z.stage[n][u] /\ ~(u = s)
          /\ z.stage[n]["VISUAL_ANALYSIS"] = queue.stage[n]["VISUAL_ANALYSIS"]
      BY <1>1, <2>2, <3>1, <3>2, FailFrame
    <3>6. RowOK(z, n)
      BY <3>4 DEF Rows
    <3>. QED BY <1>3, <3>3, <3>4, <3>5, <3>6
  <2>. QED BY <2>3, <2>4
<1>. QED BY <1>2, <1>3

\* Everything that has finished is reaped.
LEMMA ReapInv ==
  ASSUME Inv, Reap
  PROVE  Inv'
<1>. DEFINE done == {n \in Node : flight[n] \in Finished}
            published == {TaskOf(n) : n \in {m \in done : flight[m] = "ready"}}
            states == [n \in Node |-> Reaped(queue, n).state[n]]
            rows == [n \in Node |-> Reaped(queue, n).stage[n]]
<1>1. /\ coord = "waiting" /\ coord' = "select"
      /\ queue' = [queue EXCEPT !.state = states, !.stage = rows]
      /\ mergeQueue' = mergeQueue \cup (published \cap ReadyToMerge(queue'))
      /\ workspaces' \subseteq workspaces
      /\ flight' = [n \in Node |-> IF n \in done THEN "none" ELSE flight[n]]
      /\ working' = [n \in Node |-> IF n \in done THEN "none" ELSE working[n]]
      /\ UNCHANGED <<attempts, testFailed, landed, branch, current, retried, visual,
                     crashes, starts>>
  BY DEF Reap, gitVars, counters
<1>2. queue \in Queue /\ Rows(queue) /\ TypeOK /\ FlightOK
  BY DEF Inv, TypeOK, RowsOK
<1>3. \A n \in Node : Reaped(queue, n) \in Queue
  BY ReapedIs
<1>4. states \in [Node -> NodeState] /\ rows \in [Node -> [Stage -> StageStatus]]
  BY <1>3 DEF Queue
<1>5. \A n \in Node : states[n] = Reaped(queue, n).state[n] /\ rows[n] = Reaped(queue, n).stage[n]
  OBVIOUS
<1>. HIDE DEF states, rows
<1>6. /\ queue' \in Queue /\ queue'.designDone = queue.designDone
      /\ \A n \in Node : /\ queue'.state[n] = Reaped(queue, n).state[n]
                         /\ queue'.stage[n] = Reaped(queue, n).stage[n]
  BY <1>1, <1>2, <1>4, <1>5 DEF Queue
<1>7. ASSUME NEW n \in Node
      PROVE  /\ flight[n] \notin Finished =>
                  queue'.state[n] = queue.state[n] /\ queue'.stage[n] = queue.stage[n]
             /\ \A u \in FormalStage :
                  queue'.stage[n][u] \in {"RUNNING", "PUBLISHED"}
                    => /\ queue.stage[n][u] = queue'.stage[n][u]
                       /\ ~(flight[n] \in Finished /\ u = working[n])
             /\ \A u \in FormalStage :
                  queue'.stage[n][u] = "READY_TO_MERGE"
                    => queue.stage[n][u] = "READY_TO_MERGE" \/ (flight[n] = "ready" /\ u = working[n])
             /\ queue'.stage[n]["VISUAL_ANALYSIS"] = queue.stage[n]["VISUAL_ANALYSIS"]
  BY <1>6, ReapedIs
<1>8. Rows(queue')
  <2>. SUFFICES ASSUME NEW n \in Node PROVE RowOK(queue', n)
    BY DEF Rows
  <2>1. RowOK(Reaped(queue, n), n) /\ Reaped(queue, n).designDone[n] = queue.designDone[n]
    BY ReapedIs
  <2>. QED BY <1>6, <2>1, RowFrame
<1>9. Keeps(queue, queue')
  <2>1. ASSUME NEW n \in Node
        PROVE  /\ \A s \in Stage : queue.stage[n][s] \in TerminalSuccess
                                     => queue'.stage[n][s] \in TerminalSuccess
               /\ queue.stage[n]["VISUAL_ANALYSIS"] = "READY" =>
                    queue'.stage[n]["VISUAL_ANALYSIS"] \in {"READY"} \cup TerminalSuccess
               /\ ParentSettled(queue, n) => ParentSettled(queue', n)
    <3>1. Reaped(queue, n) \in Queue /\ Keeps(queue, Reaped(queue, n))
      BY ReapedIs
    <3>. QED BY <1>2, <1>6, <3>1, NodeKeeps
  <2>. QED BY <2>1 DEF Keeps
<1>10. \A t \in StageTask : PrerequisitesMet(queue, t) => PrerequisitesMet(queue', t)
  BY <1>2, <1>6, <1>9, KeepsGate
<1>11. \A n \in Node : /\ flight'[n] = IF flight[n] \in Finished THEN "none" ELSE flight[n]
                       /\ working'[n] = IF flight[n] \in Finished THEN "none" ELSE working[n]
  BY <1>1
<1>12. TypeOK'
  <2>1. flight' \in [Node -> FlightState] /\ working' \in [Node -> FormalStage \cup {"none"}]
    BY <1>1, <1>2 DEF TypeOK, FlightState
  <2>2. mergeQueue' \subseteq StageTask
    BY <1>1, <1>2, TaskIs DEF TypeOK
  <2>. QED BY <1>1, <1>2, <1>6, <2>1, <2>2 DEF TypeOK, CoordinatorState
<1>13. Running /\ Running' /\ ~Merging /\ ~Merging' /\ coord # "restoring"
  BY <1>1 DEF Running, Merging
<1>14. FlightOK'
  <2>1. ASSUME NEW n \in Node, flight'[n] # "none"
        PROVE  /\ working'[n] \in FormalStage
               /\ queue'.stage[n][working'[n]] = "RUNNING"
               /\ PrerequisitesMet(queue', <<n, working'[n]>>)
               /\ flight'[n] \in {"running", "ready"} =>
                    /\ working'[n] = "INTERFACE_DESIGN" => queue'.state[n] = "DESIGNING"
                    /\ working'[n] = "IMPLEMENTATION" => queue'.state[n] = "IMPLEMENTING"
    <3>1. /\ flight[n] \notin Finished /\ flight'[n] = flight[n] /\ working'[n] = working[n]
          /\ flight[n] # "none"
      BY <1>11, <2>1
    <3>2. queue'.state[n] = queue.state[n] /\ queue'.stage[n] = queue.stage[n]
      BY <1>7, <3>1
    <3>3. <<n, working[n]>> \in StageTask /\ PrerequisitesMet(queue, <<n, working[n]>>)
      BY <1>2, <3>1, TaskIs DEF FlightOK
    <3>. QED BY <1>2, <1>10, <3>1, <3>2, <3>3 DEF FlightOK
  <2>2. ASSUME NEW n \in Node, NEW u \in FormalStage, queue'.stage[n][u] = "RUNNING"
        PROVE  flight'[n] # "none" /\ working'[n] = u
    <3>1. queue.stage[n][u] = "RUNNING" /\ ~(flight[n] \in Finished /\ u = working[n])
      BY <1>7, <2>2
    <3>2. flight[n] # "none" /\ working[n] = u
      BY <1>2, <1>13, <3>1 DEF FlightOK
    <3>. QED BY <1>11, <3>1, <3>2
  <2>. QED BY <2>1, <2>2 DEF FlightOK
<1>15. AnalysesOK'
  <2>1. \A n \in Node : VisualStatus(n)' = VisualStatus(n)
    BY <1>7 DEF VisualStatus
  <2>2. \A n \in Node : Unattended(n) <=> Unattended(n)'
    BY <1>1, <2>1 DEF Unattended
  <2>3. LiveVisual' = LiveVisual
    BY <1>1 DEF LiveVisual
  <2>. QED BY <1>1, <1>13, <2>1, <2>2, <2>3 DEF Inv, AnalysesOK
<1>16. PublishedIsLanded'
  <2>1. ASSUME NEW t \in StageTask, StatusOf(queue', t) = "PUBLISHED"
        PROVE  StatusOf(queue, t) = "PUBLISHED"
    <3>1. t[1] \in Node /\ t[2] \in FormalStage
      BY TaskIs
    <3>. QED BY <1>7, <2>1, <3>1 DEF StatusOf
  <2>. QED BY <1>1, <2>1 DEF Inv, PublishedIsLanded
<1>17. MergeOK'
  <2>1. ASSUME NEW t \in ReadyToMerge(queue')
        PROVE  /\ t \in StageTask
               /\ t \in ReadyToMerge(queue) \/ (t \in published /\ PrerequisitesMet(queue, t))
    <3>1. /\ t \in StageTask /\ t[1] \in Node /\ t[2] \in FormalStage /\ t = <<t[1], t[2]>>
          /\ queue'.stage[t[1]][t[2]] = "READY_TO_MERGE"
      BY TaskIs
    <3>2. CASE queue.stage[t[1]][t[2]] = "READY_TO_MERGE"
      BY <3>1, <3>2, TaskIs
    <3>3. CASE flight[t[1]] = "ready" /\ t[2] = working[t[1]]
      <4>1. t = TaskOf(t[1])
        BY <3>1, <3>3 DEF TaskOf
      <4>2. t \in published
        BY <3>1, <3>3, <4>1 DEF Finished
      <4>3. PrerequisitesMet(queue, <<t[1], working[t[1]]>>)
        BY <1>2, <3>1, <3>3 DEF FlightOK
      <4>. QED BY <3>1, <4>1, <4>2, <4>3 DEF TaskOf
    <3>. QED BY <1>7, <3>1, <3>2, <3>3
  <2>2. \A t \in ReadyToMerge(queue) :
          t \in mergeQueue /\ (t[2] # "TEST_GENERATION" => PrerequisitesMet(queue, t))
    BY <1>13 DEF Inv, MergeOK
  <2>. HIDE DEF done, published
  <2>3. \A t \in ReadyToMerge(queue') : t \in mergeQueue'
    BY <1>1, <2>1, <2>2
  <2>4. \A t \in ReadyToMerge(queue') :
          t[2] # "TEST_GENERATION" => PrerequisitesMet(queue', t)
    BY <1>10, <2>1, <2>2
  <2>. QED BY <1>1, <1>13, <2>3, <2>4 DEF MergeOK
<1>18. QuietOK' /\ RestOK'
  BY <1>1, <1>13 DEF QuietOK, RestOK, Quiet
<1>. QED BY <1>8, <1>12, <1>14, <1>15, <1>16, <1>17, <1>18 DEF Inv, RowsOK

-----------------------------------------------------------------------------
(* A drain begins: on a recovered queue, or again with a retry *)

\* Nothing is in flight, nothing is running, and only tests wait to be merged.
LEMMA DrainBegins ==
  ASSUME TypeOK', Rows(queue'), AnalysesOK', coord' = "restoring",
         \A n \in Node : flight'[n] = "none",
         \A n \in Node, s \in FormalStage : queue'.stage[n][s] # "RUNNING",
         \A n \in Node, s \in FormalStage : queue'.stage[n][s] = "READY_TO_MERGE"
                                              => s = "TEST_GENERATION",
         \A n \in Node, s \in FormalStage : queue'.stage[n][s] = "PUBLISHED"
                                              => <<n, s>> \in landed'
  PROVE  Inv'
<1>1. Running' /\ ~Merging'
  BY DEF Running, Merging
<1>2. FlightOK'
  BY DEF FlightOK
<1>3. \A t \in StageTask : t[1] \in Node /\ t[2] \in FormalStage /\ t = <<t[1], t[2]>>
  BY TaskIs
<1>4. MergeOK'
  <2>1. \A t \in ReadyToMerge(queue') : t[2] = "TEST_GENERATION"
    BY TaskIs
  <2>. QED BY <1>1, <2>1 DEF MergeOK
<1>5. PublishedIsLanded'
  <2>1. ASSUME NEW t \in StageTask, StatusOf(queue', t) = "PUBLISHED" PROVE t \in landed'
    BY <1>3, <2>1 DEF StatusOf
  <2>. QED BY <2>1 DEF PublishedIsLanded
<1>6. QuietOK' /\ RestOK'
  BY <1>1 DEF QuietOK, RestOK
<1>. QED BY <1>2, <1>4, <1>5, <1>6 DEF Inv, RowsOK

\* An invocation recovers the queue, and resets the nodes it is asked to.
LEMMA LoadInv ==
  ASSUME Inv, ~Running, NEW S \in SUBSET Node, LoadAndPrepare(S)
  PROVE  Inv'
<1>. DEFINE q0 == RecoverInterrupted(queue)
            q1 == Retried(q0, S)
            q2 == SkipVisual(q1)
<1>1. /\ queue' = q2 /\ visual' = Started(q2, VisualToStart(q2)) /\ coord' = "restoring"
      /\ branch' = [t \in StageTask |-> IF t \in ReadyToMerge(q2) THEN branch[t] ELSE "none"]
      /\ retried' = FALSE /\ starts' = starts + 1
      /\ UNCHANGED <<attempts, testFailed, landed, workspaces, current, mergeQueue,
                     flight, working, crashes>>
  BY DEF LoadAndPrepare, flightVars
<1>2. /\ \A n \in Node : flight[n] = "none" /\ visual[n] = "none"
      /\ TypeOK /\ queue \in Queue /\ Rows(queue)
  BY DEF Inv, QuietOK, Quiet, Running, TypeOK, RowsOK
<1>3. /\ q0 \in Queue /\ Rows(q0)
      /\ \A n \in Node, s \in Stage : q0.stage[n][s] # "RUNNING"
      /\ \A n \in Node, s \in Stage : q0.stage[n][s] \in {"PUBLISHED", "READY_TO_MERGE", "RETRY_WAIT"}
                                        => queue.stage[n][s] = q0.stage[n][s]
      /\ \A n \in Node : q0.state[n] \notin InFlightStates
  BY <1>2, RecoverRows
<1>. HIDE DEF q0
<1>4. \A n \in S : /\ q0.state[n] \notin InFlightStates
                   /\ q0.stage[n]["IMPLEMENTATION"] # "RUNNING"
  BY <1>3, StageNames
<1>5. /\ q1 \in Queue /\ Rows(q1)
      /\ \A n \in Node, s \in Stage : q1.stage[n][s] \in {"PENDING", "SKIPPED", q0.stage[n][s]}
      /\ \A n \in Node, s \in FormalStage : q1.stage[n][s] = "PUBLISHED" => q0.stage[n][s] = "PUBLISHED"
  BY <1>3, <1>4, RetriedRows
<1>. HIDE DEF q1
<1>6. /\ q2 \in Queue /\ Rows(q2)
      /\ \A n \in Node, s \in FormalStage : q2.stage[n][s] = q1.stage[n][s]
      /\ \A n \in Node : q2.stage[n]["VISUAL_ANALYSIS"] =
           IF n \notin HasReferences /\ q1.stage[n]["VISUAL_ANALYSIS"] = "PENDING"
           THEN "SKIPPED" ELSE q1.stage[n]["VISUAL_ANALYSIS"]
  BY <1>5, SkipVisualRows
<1>. HIDE DEF q2
<1>7. /\ \A n \in Node, s \in FormalStage : q2.stage[n][s] # "RUNNING"
      /\ \A n \in Node, s \in FormalStage :
           q2.stage[n][s] = "READY_TO_MERGE" => q0.stage[n][s] = "READY_TO_MERGE"
      /\ \A n \in Node, s \in FormalStage :
           q2.stage[n][s] = "PUBLISHED" => queue.stage[n][s] = "PUBLISHED"
  BY <1>3, <1>5, <1>6, StageNames
<1>8. \A n \in Node, s \in FormalStage :
        q2.stage[n][s] = "READY_TO_MERGE" => s = "TEST_GENERATION"
  <2>1. ASSUME NEW n \in Node
        PROVE  /\ q0.stage[n]["INTERFACE_DESIGN"] # "READY_TO_MERGE"
               /\ q0.stage[n]["IMPLEMENTATION"] # "READY_TO_MERGE"
    <3>1. RowOK(q0, n)
      BY <1>3 DEF Rows
    <3>. QED BY <1>3, <3>1 DEF RowOK, InFlightStates
  <2>. QED BY <1>7, <2>1, StageNames
<1>9. \A n \in Node, s \in FormalStage : q2.stage[n][s] = "PUBLISHED" => <<n, s>> \in landed
  BY <1>7, TaskIs DEF Inv, PublishedIsLanded, StatusOf
<1>10. \A n \in Node :
         visual'[n] = IF n \in VisualToStart(q2) \cap HasReferences THEN "starting" ELSE "none"
  BY <1>1, <1>2 DEF Started
<1>11. TypeOK'
  <2>1. visual' \in [Node -> VisualState]
    BY <1>1, <1>2 DEF Started, TypeOK, VisualState
  <2>2. branch' \in [StageTask -> BranchState]
    BY <1>1, <1>2 DEF TypeOK, BranchState
  <2>3. starts' \in Nat
    BY <1>1, <1>2 DEF TypeOK
  <2>4. retried' \in BOOLEAN /\ coord' \in CoordinatorState
    BY <1>1 DEF CoordinatorState
  <2>5. queue' \in Queue
    BY <1>1, <1>6
  <2>. QED BY <1>1, <1>2, <2>1, <2>2, <2>3, <2>4, <2>5 DEF TypeOK
<1>12. AnalysesOK'
  <2>1. ASSUME NEW n \in Node
        PROVE  /\ visual'[n] = "starting" => VisualStatus(n)' \in {"PENDING", "RETRY_WAIT"}
               /\ visual'[n] = "analyzing" => VisualStatus(n)' = "RUNNING"
               /\ n \notin HasReferences =>
                    visual'[n] = "none" /\ VisualStatus(n)' \notin {"RUNNING", "RETRY_WAIT"}
               /\ VisualStatus(n)' \in Unfinished => n \in LiveVisual' \/ Unattended(n)'
    <3>1. VisualStatus(n)' = q2.stage[n]["VISUAL_ANALYSIS"]
      BY <1>1 DEF VisualStatus
    <3>2. n \in VisualToStart(q2) <=>
            \/ VisualStatus(n)' = "PENDING"
            \/ Precompute /\ VisualStatus(n)' = "RETRY_WAIT"
      BY <3>1 DEF VisualToStart, VisualRows
    <3>3. VisualStatus(n)' # "RUNNING" /\ (n \notin HasReferences => VisualStatus(n)' # "PENDING")
      BY <1>3, <1>5, <1>6, <3>1, StageNames
    <3>4. VisualStatus(n)' = "RETRY_WAIT" => VisualStatus(n) = "RETRY_WAIT"
      <4>1. ASSUME q2.stage[n]["VISUAL_ANALYSIS"] = "RETRY_WAIT"
            PROVE  q0.stage[n]["VISUAL_ANALYSIS"] = "RETRY_WAIT"
        BY <1>5, <1>6, <4>1, StageNames
      <4>2. q0.stage[n]["VISUAL_ANALYSIS"] = "RETRY_WAIT"
              => queue.stage[n]["VISUAL_ANALYSIS"] = "RETRY_WAIT"
        BY <1>3, StageNames
      <4>. QED BY <3>1, <4>1, <4>2 DEF VisualStatus
    <3>5. VisualStatus(n)' = "RETRY_WAIT" => n \in HasReferences
      BY <3>4 DEF Inv, AnalysesOK
    <3>6. VisualStatus(n)' = "RETRY_WAIT" /\ ~Precompute => Unattended(n)'
      BY DEF Unattended
    <3>7. visual'[n] = "starting" => n \in LiveVisual'
      BY DEF LiveVisual
    <3>. QED BY <1>10, <3>2, <3>3, <3>5, <3>6, <3>7 DEF Unfinished
  <2>. QED BY <2>1 DEF AnalysesOK
<1>. QED BY <1>1, <1>2, <1>6, <1>7, <1>8, <1>9, <1>11, <1>12, DrainBegins

\* The automatic retry resets nodes that failed, after a drain that left nothing
\* at work.
LEMMA AutoRetryInv ==
  ASSUME Inv, AutoRetry
  PROVE  Inv'
<1>. DEFINE q1 == Retried(queue, TddRetryIds)
<1>1. /\ queue' = q1 /\ visual' = Started(q1, VisualRows(q1, {"PENDING"}))
      /\ coord = "drained" /\ coord' = "restoring" /\ ~retried /\ retried' = TRUE
      /\ UNCHANGED <<attempts, testFailed, landed, branch, workspaces, current, mergeQueue,
                     flight, working, crashes, starts>>
  BY DEF AutoRetry, gitVars, flightVars, counters
<1>2. /\ Running /\ LiveVisual = {} /\ \A n \in Node : flight[n] = "none"
      /\ TypeOK /\ queue \in Queue /\ Rows(queue)
      /\ \A n \in Node : VisualStatus(n) \in Unfinished => Unattended(n)
  BY <1>1 DEF Inv, QuietOK, RestOK, Quiet, Running, TypeOK, RowsOK
<1>3. \A n \in Node, s \in FormalStage : queue.stage[n][s] # "RUNNING"
  BY <1>2 DEF Inv, FlightOK
<1>4. \A n \in Node, s \in FormalStage : queue.stage[n][s] = "READY_TO_MERGE" => s = "TEST_GENERATION"
  <2>1. ASSUME NEW t \in ReadyToMerge(queue) PROVE t[2] = "TEST_GENERATION"
    BY <1>1, <1>2 DEF Inv, MergeOK, RestOK
  <2>2. ASSUME NEW n \in Node, NEW s \in FormalStage, queue.stage[n][s] = "READY_TO_MERGE"
        PROVE  s = "TEST_GENERATION"
    <3>1. <<n, s>> \in ReadyToMerge(queue)
      BY <2>2, TaskIs DEF ReadyToMerge, StatusOf
    <3>. QED BY <2>1, <3>1
  <2>. QED BY <2>2
<1>5. /\ TddRetryIds \in SUBSET Node
      /\ \A n \in TddRetryIds : queue.state[n] = "FAILED" /\ queue.stage[n]["IMPLEMENTATION"] # "RUNNING"
  BY <1>2, <1>3, StageNames DEF TddRetryIds, TypeOK
<1>6. /\ q1 \in Queue /\ Rows(q1)
      /\ \A n \in Node, s \in Stage : q1.stage[n][s] \in {"PENDING", "SKIPPED", queue.stage[n][s]}
      /\ \A n \in Node, s \in FormalStage : q1.stage[n][s] = "PUBLISHED" => queue.stage[n][s] = "PUBLISHED"
  <2>1. \A n \in TddRetryIds : queue.state[n] \notin InFlightStates
    BY <1>5 DEF InFlightStates
  <2>. QED BY <1>2, <1>5, <2>1, RetriedRows
<1>. HIDE DEF q1
<1>7. /\ \A n \in Node, s \in FormalStage : q1.stage[n][s] # "RUNNING"
      /\ \A n \in Node, s \in FormalStage : q1.stage[n][s] = "READY_TO_MERGE" => s = "TEST_GENERATION"
  BY <1>3, <1>4, <1>6, StageNames
<1>8. \A n \in Node, s \in FormalStage : q1.stage[n][s] = "PUBLISHED" => <<n, s>> \in landed
  BY <1>6, TaskIs DEF Inv, PublishedIsLanded, StatusOf
<1>9. \A n \in Node :
        visual'[n] = IF n \in HasReferences /\ q1.stage[n]["VISUAL_ANALYSIS"] = "PENDING"
                     THEN "starting" ELSE visual[n]
  BY <1>1, <1>2 DEF Started, VisualRows, LiveVisual
<1>10. TypeOK'
  <2>1. visual' \in [Node -> VisualState]
    BY <1>1, <1>2 DEF Started, TypeOK, VisualState
  <2>. QED BY <1>1, <1>2, <1>6, <2>1 DEF TypeOK, CoordinatorState
<1>11. AnalysesOK'
  <2>1. ASSUME NEW n \in Node
        PROVE  /\ visual'[n] = "starting" => VisualStatus(n)' \in {"PENDING", "RETRY_WAIT"}
               /\ visual'[n] = "analyzing" => VisualStatus(n)' = "RUNNING"
               /\ n \notin HasReferences =>
                    visual'[n] = "none" /\ VisualStatus(n)' \notin {"RUNNING", "RETRY_WAIT"}
               /\ VisualStatus(n)' \in Unfinished => n \in LiveVisual' \/ Unattended(n)'
    <3>1. VisualStatus(n)' = q1.stage[n]["VISUAL_ANALYSIS"]
      BY <1>1 DEF VisualStatus
    <3>2. VisualStatus(n)' \in {"PENDING", "SKIPPED", VisualStatus(n)}
      BY <1>6, <3>1, StageNames DEF VisualStatus
    <3>3. visual[n] \notin {"starting", "analyzing"}
      BY <1>2 DEF LiveVisual
    <3>4. n \notin HasReferences => visual[n] = "none" /\ VisualStatus(n) \notin {"RUNNING", "RETRY_WAIT"}
      BY DEF Inv, AnalysesOK
    <3>5. VisualStatus(n) \in {"RUNNING", "RETRY_WAIT"} => ~Precompute /\ VisualStatus(n) = "RETRY_WAIT"
      BY <1>1, <1>2 DEF Unattended, Unfinished
    <3>6. visual'[n] = "starting" => n \in LiveVisual'
      BY DEF LiveVisual
    <3>7. /\ n \notin HasReferences => Unattended(n)'
          /\ ~Precompute /\ VisualStatus(n)' = "RETRY_WAIT" => Unattended(n)'
      BY <1>1 DEF Unattended
    <3>. QED BY <1>9, <3>1, <3>2, <3>3, <3>4, <3>5, <3>6, <3>7 DEF Unfinished
  <2>. QED BY <2>1 DEF AnalysesOK
<1>. QED BY <1>1, <1>2, <1>6, <1>7, <1>8, <1>10, <1>11, DrainBegins

-----------------------------------------------------------------------------
(* The theorems *)

\* Every step keeps the invariant.
LEMMA NextInv == Inv /\ [Next]_vars => Inv'
<1>. SUFFICES ASSUME Inv, [Next]_vars PROVE Inv'
  OBVIOUS
<1>1. CASE UNCHANGED vars
  <2>1. UNCHANGED <<queue, attempts, testFailed, landed, branch, workspaces, coord, current,
                    retried, mergeQueue, flight, working, visual, crashes, starts>>
    BY <1>1 DEF vars, gitVars, coordVars, flightVars, counters
  <2>2. TypeOK' /\ RowsOK' /\ FlightOK' /\ PublishedIsLanded'
    BY <2>1 DEF Inv, TypeOK, RowsOK, FlightOK, PublishedIsLanded, Running
  <2>3. AnalysesOK' /\ MergeOK' /\ QuietOK'
    BY <2>1 DEF Inv, AnalysesOK, VisualStatus, LiveVisual, Unattended, Running, MergeOK,
                Merging, QuietOK
  <2>4. RestOK'
    BY <2>1 DEF Inv, RestOK, VisualStatus, LiveVisual, Unattended, Clogged
  <2>. QED BY <2>2, <2>3, <2>4 DEF Inv
<1>2. ASSUME FirstStart PROVE Inv'
  <2>1. ~Running /\ LoadAndPrepare({})
    BY <1>2 DEF FirstStart
  <2>. QED BY <2>1, LoadInv
<1>3. ASSUME Resume PROVE Inv'
  <2>1. PICK S \in {{}, RetryFailedIds(RecoverInterrupted(queue))} \cup RetrySets :
          ~Running /\ LoadAndPrepare(S)
    BY <1>3 DEF Resume
  <2>2. S \in SUBSET Node
    BY PipelineAssumption DEF RetryFailedIds
  <2>. QED BY <2>1, <2>2, LoadInv
<1>4. CASE Crash
  BY <1>4, CrashInv
<1>5. ASSUME NEW t \in StageTask, Restore(t) \/ RestoreFails(t) PROVE Inv'
  BY <1>5, RestoreInv, RestoreFailsInv
<1>6. CASE Restored \/ TakeEntry \/ Rebase \/ Land \/ PublicationDrifts \/ MergeFails
  BY <1>6, RestoredInv, TakeEntryInv, RebaseInv, LandInv, MergeFailsInv
<1>7. CASE Publish \/ Settle \/ Dispatch \/ StopRefill \/ Reap
  BY <1>7, PublishInv, SettleInv, DispatchInv, StopRefillInv, ReapInv
<1>8. CASE VisualFinished \/ AutoRetry \/ EndRun
  BY <1>8, VisualFinishedInv, AutoRetryInv, EndRunInv
<1>9. ASSUME NEW n \in Node, StageStep(n) \/ VisualStep(n) PROVE Inv'
  BY <1>9, StageStepInv, VisualStepInv
<1>. QED BY <1>1, <1>2, <1>3, <1>4, <1>5, <1>6, <1>7, <1>8, <1>9
         DEF Next, Environment, Work, Coordinate

\* The inductive invariant holds in every reachable state.
THEOREM Invariance == Spec => []Inv
<1>1. Init => Inv
  BY InitInv
<1>2. Inv /\ [Next]_vars => Inv'
  BY NextInv
<1>. QED BY <1>1, <1>2, PTL DEF Spec

\* Type correctness.
THEOREM TypeCorrect == Spec => []TypeOK
<1>1. Inv => TypeOK
  BY DEF Inv
<1>. QED BY <1>1, Invariance, PTL

\* What the queue calls PUBLISHED is on the integration HEAD and is the work of
\* the latest attempt, whatever crashes, is resumed or retried: the property
\* PublishedIsLanded.
THEOREM PublishedHasLanded == Spec => []PublishedIsLanded
<1>1. Inv => PublishedIsLanded
  BY DEF Inv
<1>. QED BY <1>1, Invariance, PTL

\* A stage stands on published work from its start to the end of its worker and
\* while it is merged: the gate that next_runnable_stage_task read stays open.
THEOREM StagesStandOnPublished == Spec => []StandsOnPublished
<1>1. Inv => StandsOnPublished
  BY DEF Inv, FlightOK, MergeOK, Merging, StandsOnPublished, TaskOf
<1>. QED BY <1>1, Invariance, PTL

\* The steps of the table that the coordinator takes.
LEMMA StepsOfTheDrain ==
  /\ "READY_TO_MERGE" \in AllowedFrom["RUNNING"] /\ "FAILED" \in AllowedFrom["RUNNING"]
  /\ "PUBLISHED" \in AllowedFrom["READY_TO_MERGE"]
<1>1. AllowedFrom["RUNNING"] =
        {"READY", "READY_TO_MERGE", "PUBLISHED", "RETRY_WAIT", "FAILED", "BLOCKED"}
  BY DEF AllowedFrom, StageStatus, TerminalSuccess
<1>2. AllowedFrom["READY_TO_MERGE"] = {"PUBLISHED", "FAILED"}
  BY DEF AllowedFrom, StageStatus, TerminalSuccess
<1>. QED BY <1>1, <1>2

\* transition_stage_task and complete_task never raise in the drain: each is
\* called on a row from which its step is in the table.
THEOREM TransitionsAllowed == Spec => []DrainNeverRaises
<1>1. ASSUME Inv, NEW n \in Node, flight[n] # "none"
      PROVE  /\ TransitionAllowed(queue.stage[n], working[n], "READY_TO_MERGE")
             /\ TransitionAllowed(queue.stage[n], working[n], "FAILED")
  <2>1. queue.stage[n][working[n]] = "RUNNING"
    BY <1>1 DEF Inv, FlightOK
  <2>. QED BY <2>1, StepsOfTheDrain DEF TransitionAllowed
<1>2. ASSUME Inv, Merging
      PROVE  /\ TransitionAllowed(queue.stage[current[1]], current[2], "PUBLISHED")
             /\ ~CompletionRaises(queue, current[1], PhaseOf(current[2]))
  <2>. DEFINE n == current[1]
              s == current[2]
  <2>1. /\ current = <<n, s>> /\ n \in Node /\ s \in FormalStage
        /\ queue.stage[n][s] = "READY_TO_MERGE" /\ PrerequisitesMet(queue, <<n, s>>)
    BY <1>2, TaskIs DEF Inv, MergeOK
  <2>2. queue \in Queue /\ RowOK(queue, n)
    BY <1>2, <2>1 DEF Inv, TypeOK, RowsOK, Rows
  <2>. HIDE DEF n, s
  <2>3. TransitionAllowed(queue.stage[n], s, "PUBLISHED")
    BY <2>1, StepsOfTheDrain DEF TransitionAllowed
  <2>4. s # "INTERFACE_DESIGN" => queue.stage[n]["INTERFACE_DESIGN"] \in TerminalSuccess
    BY <2>1, <2>2, GateRows
  <2>5. s = "INTERFACE_DESIGN" => queue.stage[n]["TEST_GENERATION"] \in {"PENDING", "SKIPPED"}
    BY <2>1, <2>2 DEF RowOK
  <2>6. ~CompletionRaises(queue, n, PhaseOf(s))
    BY <2>1, <2>4, <2>5, StageNames DEF CompletionRaises, PhaseOf
  <2>. QED BY <2>3, <2>6 DEF n, s
<1>3. Inv => DrainNeverRaises
  <2>. SUFFICES ASSUME Inv PROVE DrainNeverRaises
    OBVIOUS
  <2>1. \A n \in Node : visual[n] = "analyzing" => VisualStatus(n) = "RUNNING"
    BY DEF Inv, AnalysesOK
  <2>. QED BY <1>1, <1>2, <2>1 DEF DrainNeverRaises, Merging, PhaseOf
<1>. QED BY <1>3, Invariance, PTL

\* A row of the design is blocked only behind a row of the node that failed, which
\* keeps its gate closed; an implementation behind an open gate has its node past
\* its design.
LEMMA BlockedRows ==
  ASSUME Inv, NEW t \in StageTask, StatusOf(queue, t) = "BLOCKED", PrerequisitesMet(queue, t)
  PROVE  t[2] = "IMPLEMENTATION" /\ queue.state[t[1]] = "DESIGNED"
<1>. DEFINE n == t[1]
            s == t[2]
<1>1. n \in Node /\ s \in FormalStage /\ t = <<n, s>> /\ queue.stage[n][s] = "BLOCKED"
  BY TaskIs DEF StatusOf
<1>. HIDE DEF n, s
<1>2. queue \in Queue /\ RowOK(queue, n)
  BY <1>1 DEF Inv, TypeOK, RowsOK, Rows
<1>3. /\ queue.stage[n]["VISUAL_ANALYSIS"] \in {"READY"} \cup TerminalSuccess
      /\ s # "INTERFACE_DESIGN" => queue.stage[n]["INTERFACE_DESIGN"] \in TerminalSuccess
  BY <1>1, <1>2, GateRows
<1>4. s = "IMPLEMENTATION"
  BY <1>1, <1>2, <1>3, StageNames DEF RowOK
<1>5. queue.state[n] = "DESIGNED"
  BY <1>1, <1>2, <1>4, GateRows DEF RowOK
<1>. QED BY <1>4, <1>5 DEF n, s

\* A run does not end with a stage that waits or is blocked behind an open gate, a
\* publication that could have been merged, or an analysis that is not over, except
\* for the ones that are named: the property NothingForgotten.
THEOREM NothingIsForgotten == Spec => []NothingForgotten
<1>1. Inv => NothingForgotten
  BY BlockedRows DEF Inv, RestOK, NothingForgotten, Unfinished, Stranded
<1>. QED BY <1>1, Invariance, PTL

-----------------------------------------------------------------------------
(* QueueLoading: the edges, one at a time *)

\* The tree order alone has no cycle: for every edge there is a set of tasks,
\* closed under the order, that has its end and not its start.
LEMMA StructureIsAcyclic == Acyclic(StructuralEdges)
<1> SUFFICES ASSUME NEW e \in StructuralEdges
             PROVE  \E S \in SUBSET Vertex :
                      e[2] \in S /\ Closed(S, StructuralEdges) /\ e[1] \notin S
  BY DEF Acyclic, Reaches
<1> USE GraphAssumption DEF Closed, StructuralEdges, Vertex
<1>1. CASE \E n \in Node : e = <<<<"D", n>>, <<"I", n>>>>
  <2> PICK n \in Node : e = <<<<"D", n>>, <<"I", n>>>>
    BY <1>1
  <2> DEFINE S == {"I"} \X Node
  <2>1. S \in SUBSET Vertex /\ e[2] \in S /\ e[1] \notin S
    OBVIOUS
  <2>2. Closed(S, StructuralEdges)
    OBVIOUS
  <2> QED BY <2>1, <2>2
<1>2. CASE \E n \in DOMAIN Parents : e = <<<<"D", Parents[n]>>, <<"D", n>>>>
  <2> PICK n \in DOMAIN Parents : e = <<<<"D", Parents[n]>>, <<"D", n>>>>
    BY <1>2
  <2> DEFINE S == {v \in Vertex : v[1] = "I" \/ Depth[v[2]] >= Depth[n]}
  <2>1. S \in SUBSET Vertex /\ e[2] \in S
    OBVIOUS
  <2>2. e[1] \notin S
    OBVIOUS
  <2>3. ASSUME NEW f \in StructuralEdges, f[1] \in S PROVE f[2] \in S
    <3>1. CASE \E m \in Node : f = <<<<"D", m>>, <<"I", m>>>>
      BY <3>1
    <3>2. CASE \E m \in DOMAIN Parents : f = <<<<"D", Parents[m]>>, <<"D", m>>>>
      BY <3>2, <2>3
    <3>3. CASE \E m \in DOMAIN Parents : f = <<<<"I", m>>, <<"I", Parents[m]>>>>
      BY <3>3
    <3> QED BY <2>3, <3>1, <3>2, <3>3
  <2> QED BY <2>1, <2>2, <2>3
<1>3. CASE \E n \in DOMAIN Parents : e = <<<<"I", n>>, <<"I", Parents[n]>>>>
  <2> PICK n \in DOMAIN Parents : e = <<<<"I", n>>, <<"I", Parents[n]>>>>
    BY <1>3
  <2> DEFINE S == {v \in Vertex : v[1] = "I" /\ Depth[v[2]] < Depth[n]}
  <2>1. S \in SUBSET Vertex /\ e[2] \in S /\ e[1] \notin S
    OBVIOUS
  <2>2. ASSUME NEW f \in StructuralEdges, f[1] \in S PROVE f[2] \in S
    BY <2>2
  <2> QED BY <2>1, <2>2
<1> QED BY <1>1, <1>2, <1>3

\* An edge whose end does not reach its start closes no cycle.  For an old edge
\* one of three sets separates its end from its start: the one that did, the one
\* that separates the new edge's, or what both have in common.
LEMMA KeepingStaysAcyclic ==
  ASSUME NEW edges, NEW s \in Vertex, NEW t \in Vertex,
         edges \subseteq Vertex \X Vertex, Acyclic(edges), ~Reaches(edges, t, s)
  PROVE  Acyclic(edges \cup {<<s, t>>})
<1> DEFINE more == edges \cup {<<s, t>>}
<1>1. PICK S \in SUBSET Vertex : t \in S /\ Closed(S, edges) /\ s \notin S
  BY DEF Reaches
<1>2. Closed(S, more)
  BY <1>1 DEF Closed
<1>3. ~Reaches(more, t, s)
  BY <1>1, <1>2 DEF Reaches
<1>4. ASSUME NEW e \in edges PROVE ~Reaches(more, e[2], e[1])
  <2>1. PICK T \in SUBSET Vertex : e[2] \in T /\ Closed(T, edges) /\ e[1] \notin T
    BY DEF Acyclic, Reaches
  <2>2. CASE s \notin T
    <3>1. Closed(T, more)
      BY <2>1, <2>2 DEF Closed
    <3> QED BY <2>1, <3>1 DEF Reaches
  <2>3. CASE s \in T /\ e[1] \notin S
    <3>1. Closed(S \cup T, more)
      BY <1>1, <2>1 DEF Closed
    <3>2. S \cup T \in SUBSET Vertex /\ e[2] \in S \cup T /\ e[1] \notin S \cup T
      BY <2>1, <2>3
    <3> QED BY <3>1, <3>2 DEF Reaches
  <2>4. CASE e[1] \in S
    <3>1. e[2] \in S
      BY <1>1, <2>4 DEF Closed
    <3>2. Closed(S \cap T, more)
      BY <1>1, <2>1 DEF Closed
    <3>3. S \cap T \in SUBSET Vertex /\ e[2] \in S \cap T /\ e[1] \notin S \cap T
      BY <2>1, <3>1
    <3> QED BY <3>2, <3>3 DEF Reaches
  <2> QED BY <2>2, <2>3, <2>4
<1>5. ASSUME NEW e \in more PROVE ~Reaches(more, e[2], e[1])
  <2>1. CASE e = <<s, t>>
    <3>1. e[1] = s /\ e[2] = t
      BY <2>1
    <3> QED BY <1>3, <3>1
  <2> QED BY <1>4, <2>1
<1> QED BY <1>5 DEF Acyclic

\* The edges of the tree order join tasks.
LEMMA StructureIsTyped == StructuralEdges \subseteq Vertex \X Vertex
BY GraphAssumption DEF StructuralEdges, Vertex

\* So do the edges of the dependencies between nodes of the tree.
LEMMA PrecedenceIsTyped ==
  ASSUME NEW deps, \A e \in deps : Schedulable(e)
  PROVE  Precedence(deps) \subseteq Vertex \X Vertex
BY DEF Precedence, Source, Target, Vertex, Schedulable

\* An edge that closes no cycle is kept, and the tree order stays acyclic.
LEMMA KeepingKeepsAcyclic ==
  ASSUME \A d \in kept : Schedulable(d), KeptIsAcyclic,
         NEW e, Schedulable(e), ~ClosesCycle(e), kept' = kept \cup {e}
  PROVE  KeptIsAcyclic'
<1>. DEFINE edges == StructuralEdges \cup Precedence(kept)
<1>1. Source(e) \in Vertex /\ Target(e) \in Vertex
  BY DEF Source, Target, Vertex, Schedulable
<1>2. edges \subseteq Vertex \X Vertex
  BY StructureIsTyped, PrecedenceIsTyped
<1>3. Acyclic(edges) /\ ~Reaches(edges, Target(e), Source(e))
  BY DEF KeptIsAcyclic, ClosesCycle
<1>4. Acyclic(edges \cup {<<Source(e), Target(e)>>})
  BY <1>1, <1>2, <1>3, KeepingStaysAcyclic
<1>5. StructuralEdges \cup Precedence(kept') = edges \cup {<<Source(e), Target(e)>>}
  BY DEF Precedence
<1>. QED BY <1>4, <1>5 DEF KeptIsAcyclic

\* The tree order is acyclic when nothing is kept.
LEMMA NothingKeptIsAcyclic == kept = {} => KeptIsAcyclic
<1>. SUFFICES ASSUME kept = {} PROVE KeptIsAcyclic
  OBVIOUS
<1>1. StructuralEdges \cup Precedence(kept) = StructuralEdges
  BY DEF Precedence
<1>. QED BY <1>1, StructureIsAcyclic DEF KeptIsAcyclic

\* The types of the three sets, in every behaviour, for every tree and every map
\* a file may hold.
THEOREM GraphTypesCorrect == GraphSpec => []GraphTypeOK
<1>1. GraphInit => GraphTypeOK
  BY DEF GraphInit, GraphTypeOK
<1>2. GraphTypeOK /\ [GraphNext]_graphVars => GraphTypeOK'
  <2> SUFFICES ASSUME GraphTypeOK, [GraphNext]_graphVars PROVE GraphTypeOK'
    OBVIOUS
  <2>1. ASSUME NEW e \in todo, Visit(e) PROVE GraphTypeOK'
    <3>1. e \in Edge
      BY DEF GraphTypeOK
    <3>2. todo' \subseteq Edge
      BY <2>1 DEF GraphTypeOK, Visit
    <3>3. kept' \subseteq Node \X Node
      BY <2>1, <3>1 DEF GraphTypeOK, Visit, Drop, Schedulable, Edge
    <3>4. dropped' \subseteq Edge \X Reason
      BY <2>1, <3>1 DEF GraphTypeOK, Visit, Drop, Reason
    <3> QED BY <3>2, <3>3, <3>4 DEF GraphTypeOK
  <2>2. CASE UNCHANGED graphVars
    BY <2>2 DEF GraphTypeOK, graphVars
  <2> QED BY <2>1, <2>2 DEF GraphNext
<1> QED BY <1>1, <1>2, PTL DEF GraphSpec

\* The edges that are kept and the tree order never form a cycle, whatever the
\* declared graph is and in whatever order it is visited (break_dependency_cycles).
THEOREM KeptStaysAcyclic == GraphSpec => []KeptIsAcyclic
<1>1. GraphInit => KeptIsAcyclic
  BY NothingKeptIsAcyclic DEF GraphInit
<1>2. GraphTypeOK /\ KeptIsAcyclic /\ [GraphNext]_graphVars => KeptIsAcyclic'
  <2> SUFFICES ASSUME GraphTypeOK, KeptIsAcyclic, [GraphNext]_graphVars PROVE KeptIsAcyclic'
    OBVIOUS
  <2>1. ASSUME NEW e \in todo, Visit(e) PROVE KeptIsAcyclic'
    <3>1. CASE kept' = kept
      BY <3>1 DEF KeptIsAcyclic
    <3>2. CASE kept' = kept \cup {e} /\ Schedulable(e) /\ ~ClosesCycle(e)
      BY <3>2, KeepingKeepsAcyclic DEF GraphTypeOK, Schedulable
    <3> QED BY <2>1, <3>1, <3>2 DEF Visit, Drop
  <2>2. CASE UNCHANGED graphVars
    BY <2>2 DEF KeptIsAcyclic, graphVars
  <2> QED BY <2>1, <2>2 DEF GraphNext
<1> QED BY <1>1, <1>2, GraphTypesCorrect, PTL DEF GraphSpec

-----------------------------------------------------------------------------
(* QueueLoading: nothing is lost for nothing *)

\* What is reached along some edges is reached along more.
LEMMA MoreReaches ==
  ASSUME NEW edges, NEW more, edges \subseteq more, NEW x, NEW y, Reaches(edges, x, y)
  PROVE  Reaches(more, x, y)
<1>1. \A S : Closed(S, more) => Closed(S, edges)
  BY DEF Closed
<1>. QED BY <1>1 DEF Reaches

\* A map with more dependencies has more edges.
LEMMA MorePrecedence ==
  ASSUME NEW deps, NEW more, deps \subseteq more
  PROVE  StructuralEdges \cup Precedence(deps) \subseteq StructuralEdges \cup Precedence(more)
BY DEF Precedence

\* Every edge that was declared, visited or not.
Declared == todo \cup kept \cup {d[1] : d \in dropped}

Candidate(e) == Schedulable(e) /\ ~Ancestral(e)

\* What is kept was fit to be kept; and a map that is restored is one whose edges,
\* visited or not, leave the tree order without a cycle.
EdgesInv ==
  /\ \A e \in kept : Candidate(e)
  /\ KeptIsAcyclic
  /\ OnlyCyclesDropped
  /\ reloaded => /\ dropped = {}
                 /\ \A e \in todo : Candidate(e)
                 /\ Acyclic(StructuralEdges \cup Precedence(todo \cup kept))

\* A visit moves an edge and loses none.
LEMMA VisitDeclares ==
  ASSUME NEW e \in todo, Visit(e)
  PROVE  Declared' = Declared
<1>1. todo' = todo \ {e}
  BY DEF Visit
<1>2. \/ kept' = kept \cup {e} /\ dropped' = dropped
      \/ kept' = kept /\ \E reason : dropped' = dropped \cup {<<e, reason>>}
  BY DEF Visit, Drop
<1>3. CASE kept' = kept \cup {e} /\ dropped' = dropped
  BY <1>1, <1>3 DEF Declared
<1>4. ASSUME NEW reason, kept' = kept, dropped' = dropped \cup {<<e, reason>>}
      PROVE  Declared' = Declared
  <2>1. {d[1] : d \in dropped'} = {d[1] : d \in dropped} \cup {e}
    <3>. DEFINE x == <<e, reason>>
    <3>1. x[1] = e
      OBVIOUS
    <3>. HIDE DEF x
    <3>2. dropped' = dropped \cup {x}
      BY <1>4 DEF x
    <3>. QED BY <3>1, <3>2
  <2>. QED BY <1>1, <1>4, <2>1 DEF Declared
<1>. QED BY <1>2, <1>3, <1>4

\* A visit keeps what is known of the edges.
LEMMA VisitInv ==
  ASSUME EdgesInv, NEW e \in todo, Visit(e), reloaded' = reloaded
  PROVE  EdgesInv'
<1>1. \A d \in kept : Schedulable(d)
  BY DEF EdgesInv, Candidate
<1>2. CASE Candidate(e) /\ ~ClosesCycle(e)
  <2>1. kept' = kept \cup {e} /\ dropped' = dropped /\ todo' = todo \ {e}
    BY <1>2 DEF Visit, Candidate
  <2>2. KeptIsAcyclic'
    BY <1>1, <1>2, <2>1, KeepingKeepsAcyclic DEF EdgesInv, Candidate
  <2>3. OnlyCyclesDropped'
    <3>1. Declared' = Declared
      BY VisitDeclares
    <3>. QED BY <2>1, <3>1 DEF EdgesInv, OnlyCyclesDropped, Declared
  <2>4. todo' \cup kept' = todo \cup kept
    BY <2>1
  <2>5. \A d \in kept' : Candidate(d)
    BY <1>2, <2>1 DEF EdgesInv
  <2>6. reloaded' => /\ dropped' = {}
                     /\ \A d \in todo' : Candidate(d)
                     /\ Acyclic(StructuralEdges \cup Precedence(todo' \cup kept'))
    BY <2>1, <2>4 DEF EdgesInv
  <2>. QED BY <2>2, <2>3, <2>5, <2>6 DEF EdgesInv
<1>3. CASE ~(Candidate(e) /\ ~ClosesCycle(e))
  <2>1. PICK reason \in Reason :
          /\ kept' = kept /\ dropped' = dropped \cup {<<e, reason>>} /\ todo' = todo \ {e}
          /\ reason = "cycle" => Candidate(e) /\ ClosesCycle(e)
    BY <1>3 DEF Visit, Candidate, Drop, Reason
  <2>2. ~reloaded
    <3>. SUFFICES ASSUME reloaded PROVE FALSE
      OBVIOUS
    <3>1. Candidate(e) /\ ClosesCycle(e) /\ Acyclic(StructuralEdges \cup Precedence(todo \cup kept))
      BY <1>3 DEF EdgesInv
    <3>2. Reaches(StructuralEdges \cup Precedence(todo \cup kept), Target(e), Source(e))
      BY <3>1, MorePrecedence, MoreReaches DEF ClosesCycle
    <3>3. <<Source(e), Target(e)>> \in StructuralEdges \cup Precedence(todo \cup kept)
      BY DEF Precedence
    <3>. QED BY <3>1, <3>2, <3>3 DEF Acyclic
  <2>3. KeptIsAcyclic'
    BY <2>1 DEF EdgesInv, KeptIsAcyclic
  <2>4. OnlyCyclesDropped'
    <3>. DEFINE edges == StructuralEdges \cup Precedence({f \in Declared : Candidate(f)})
    <3>1. Declared' = Declared
      BY VisitDeclares
    <3>2. \A d \in dropped : d[2] = "cycle" => Reaches(edges, Target(d[1]), Source(d[1]))
      BY DEF EdgesInv, OnlyCyclesDropped, Declared, Candidate
    <3>3. ClosesCycle(e) => Reaches(edges, Target(e), Source(e))
      <4>1. kept \subseteq {f \in Declared : Candidate(f)}
        BY DEF EdgesInv, Declared
      <4>. QED BY <4>1, MorePrecedence, MoreReaches DEF ClosesCycle
    <3>4. \A d \in dropped' : d[2] = "cycle" => Reaches(edges, Target(d[1]), Source(d[1]))
      BY <2>1, <3>2, <3>3
    <3>5. Declared' = todo' \cup kept' \cup {d[1] : d \in dropped'}
      BY DEF Declared
    <3>. QED BY <3>1, <3>4, <3>5 DEF OnlyCyclesDropped, Candidate
  <2>. QED BY <2>1, <2>2, <2>3, <2>4 DEF EdgesInv
<1>. QED BY <1>2, <1>3

\* The edges are in order throughout the loading of a queue, its saving and its
\* second loading.
THEOREM EdgesInOrder == LoadSpec => []EdgesInv
<1>1. LoadInit => EdgesInv
  BY NothingKeptIsAcyclic DEF LoadInit, EdgesInv, OnlyCyclesDropped
<1>2. EdgesInv /\ [LoadNext]_loadVars => EdgesInv'
  <2>. SUFFICES ASSUME EdgesInv, [LoadNext]_loadVars PROVE EdgesInv'
    OBVIOUS
  <2>1. CASE ValidateEdge
    BY <2>1, VisitInv DEF ValidateEdge, GraphNext, fileVars
  <2>2. CASE SaveAndLoadAgain
    <3>1. /\ todo' = kept /\ kept' = {} /\ dropped' = {} /\ todo' \cup kept' = kept
          /\ \A e \in kept : Candidate(e)
          /\ Acyclic(StructuralEdges \cup Precedence(kept))
      BY <2>2 DEF SaveAndLoadAgain, EdgesInv, KeptIsAcyclic
    <3>2. KeptIsAcyclic'
      <4>1. StructuralEdges \cup Precedence(kept') = StructuralEdges
        BY <3>1 DEF Precedence
      <4>. QED BY <4>1, StructureIsAcyclic DEF KeptIsAcyclic
    <3>. QED BY <3>1, <3>2 DEF EdgesInv, OnlyCyclesDropped
  <2>3. CASE LoadFile \/ Incompatible \/ RefuseResume \/ Recover \/ UNCHANGED loadVars
    <3>1. UNCHANGED <<todo, kept, dropped, reloaded>>
      BY <2>3 DEF LoadFile, Incompatible, RefuseResume, Recover, loadVars, graphVars
    <3>. QED BY <3>1 DEF EdgesInv, KeptIsAcyclic, OnlyCyclesDropped
  <2>. QED BY <2>1, <2>2, <2>3 DEF LoadNext
<1>. QED BY <1>1, <1>2, PTL DEF LoadSpec

\* What a compilation waits for never makes the tree order cyclic, not in the map
\* that is saved and not in the one that is restored from it.
THEOREM LoadedStaysAcyclic == LoadSpec => []KeptIsAcyclic
<1>1. EdgesInv => KeptIsAcyclic
  BY DEF EdgesInv
<1>. QED BY <1>1, EdgesInOrder, PTL

\* A dependency is dropped as cyclic only when it closes a cycle of what was
\* declared, and restoring a saved map drops nothing: the property
\* NothingLostForNothing.
THEOREM NoEdgeLostForNothing == LoadSpec => []NothingLostForNothing
<1>1. EdgesInv => NothingLostForNothing
  BY DEF EdgesInv, NothingLostForNothing
<1>. QED BY <1>1, EdgesInOrder, PTL

=============================================================================
