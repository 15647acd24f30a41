------------------------------ MODULE NodePhases ------------------------------
(***************************************************************************)
(* What a node's stages do: core/phases.py.  The stages of one node after  *)
(* another share the node's session file and the traceability store; the   *)
(* queue decides which stage runs.  The model runs one stage at a time,    *)
(* kills the process between any two steps of it, and retries nodes.       *)
(*                                                                         *)
(* An interface design is one of three: it owns contracts ("own"), it      *)
(* only inherits them ("reused"), or none of its records has an id         *)
(* ("none").  A test file stands for its manifest row.                     *)
(***************************************************************************)
EXTENDS StageGates

CONSTANTS
  SuiteFile,          \* the paths of test files
  MaxRejections,      \* DESIGN_BASELINE_MAX_REJECTIONS
  EarlierCheckpoints, \* sets of nodes with an "(implement" commit in the history
  MaxCrashes,         \* bound: process deaths
  MaxRetries          \* bound: retries asked for

ASSUME PhasesAssumption ==
  /\ IsFiniteSet(SuiteFile)
  /\ MaxRejections \in Nat /\ MaxCrashes \in Nat /\ MaxRetries \in Nat
  /\ EarlierCheckpoints \subseteq SUBSET Node

VARIABLES
  queue,        \* the compile queue
  session,      \* [node -> the node's session file]
  registry,     \* [node -> its rows in the traceability store]
  checkpointed, \* the nodes whose implement checkpoint the history shows
  work,         \* the stage being run and its next step
  gate,         \* the local state of the baseline gate
  crashes, retries

vars == <<queue, session, registry, checkpointed, work, gate, crashes, retries>>

Contract == {"none", "own", "reused"}

Scope == {"owned", "exempt", "absent"}   \* dependency and shared are exempt

FileState == {"green", "red", "none"}    \* none: the environment failed

\* No file has run.
Unknown == [f \in SuiteFile |-> "unrun"]

Absent == [f \in SuiteFile |-> "absent"]

\* The session fields a later step reads.
EmptySession ==
  [design |-> "", implement |-> "", contract |-> "none", known |-> FALSE, tests |-> {},
   baseline |-> Unknown, reuse |-> FALSE, result |-> ""]

EmptyRegistry == [contract |-> "none", implemented |-> FALSE, tests |-> {}, passed |-> {}]

Idle == [node |-> "", stage |-> "", step |-> "idle"]

NoGate == [manifest |-> Absent, original |-> {}, state |-> Unknown, evidence |-> {},
           round |-> 0, reuse |-> FALSE]

\* merge_node_session merges dictionaries key by key: an empty dictionary in a
\* patch leaves the one in the session as it is.
Merged(old, patch) == [f \in SuiteFile |-> IF f \in DOMAIN patch THEN patch[f] ELSE old[f]]

Rows(m) == {f \in SuiteFile : m[f] # "absent"}

Owned(m) == {f \in SuiteFile : m[f] = "owned"}

\* _prepare_visual_ready_tasks: no node has a visual reference.
WithoutVisual(q) ==
  [q EXCEPT !.stage = [n \in Node |->
     IF q.stage[n]["VISUAL_ANALYSIS"] = "PENDING"
     THEN [q.stage[n] EXCEPT !["VISUAL_ANALYSIS"] = "SKIPPED"] ELSE q.stage[n]]]

Init ==
  /\ queue = WithoutVisual(FreshQueue)
  /\ session = [n \in Node |-> EmptySession]
  /\ registry = [n \in Node |-> EmptyRegistry]
  /\ checkpointed \in EarlierCheckpoints
  /\ work = Idle
  /\ gate = NoGate
  /\ crashes = 0
  /\ retries = 0

At(stage, step) == work.stage = stage /\ work.step = step

Go(step) == work' = [work EXCEPT !.step = step]

Task == <<work.node, work.stage>>

\* The stage returns FALSE and the coordinator fails it.
Fail ==
  /\ queue' = FailStage(queue, work.node, work.stage)
  /\ work' = Idle
  /\ gate' = NoGate

-----------------------------------------------------------------------------
(* A stage starts *)

\* run_interface_design_stage resets the session before anything else.
Reset(s) ==
  [s EXCEPT !.design = "pending", !.implement = "pending", !.result = "", !.reuse = FALSE]

Start(n, stage) ==
  /\ work = Idle
  /\ StatusOf(queue, <<n, stage>>) = "PENDING"
  /\ StageDependenciesMet(queue, <<n, stage>>)
  /\ LET running == Transition(queue, n, stage, "RUNNING") IN
     CASE stage = "INTERFACE_DESIGN" ->
            /\ queue' = BeginTask(running, n, "DESIGN")
            /\ session' = [session EXCEPT ![n] = Reset(@)]
       [] stage = "TEST_GENERATION" ->
            /\ queue' = running
            /\ UNCHANGED session
       [] stage = "IMPLEMENTATION" ->
            /\ queue' = BeginTask(running, n, "IMPLEMENT")
            /\ session' = IF IsLeaf(n) THEN [session EXCEPT ![n].implement = "in_progress"]
                          ELSE session
  /\ work' = [node |-> n, stage |-> stage, step |-> "run"]
  /\ gate' = NoGate
  /\ UNCHANGED <<registry, checkpointed, crashes, retries>>

-----------------------------------------------------------------------------
(* INTERFACE_DESIGN: _run_interface_design_stage *)

\* A composition node that owns no screen has nothing to design.
SkipComposition ==
  /\ At("INTERFACE_DESIGN", "run") /\ ~IsLeaf(work.node)
  /\ registry' = [registry EXCEPT ![work.node] = EmptyRegistry]
  /\ session' = [session EXCEPT ![work.node].design = "skipped",
                                ![work.node].contract = "none",
                                ![work.node].tests = {}]
  /\ Go("done")
  /\ UNCHANGED <<queue, checkpointed, gate, crashes, retries>>

\* No contract, an invalid contract or an endpoint that has none.
DesignFails ==
  /\ At("INTERFACE_DESIGN", "run") /\ IsLeaf(work.node)
  /\ Fail
  /\ UNCHANGED <<session, registry, checkpointed, crashes, retries>>

\* What prepare_interfaces reads of the store goes into the session.
DesignPrepared(contract) ==
  /\ At("INTERFACE_DESIGN", "run") /\ IsLeaf(work.node)
  /\ session' = [session EXCEPT ![work.node].design = "prepared",
                                ![work.node].contract = contract,
                                ![work.node].known = registry[work.node].implemented]
  /\ Go("register")
  /\ UNCHANGED <<queue, registry, checkpointed, gate, crashes, retries>>

\* Variant for testing RegisteredIsPublished: the old rows are not cleared.
RegisterOverOldRows ==
  /\ At("INTERFACE_DESIGN", "register")
  /\ registry' = [registry EXCEPT ![work.node].contract = session[work.node].contract,
                                  ![work.node].implemented = session[work.node].known]
  /\ Go("done")
  /\ UNCHANGED <<queue, session, checkpointed, gate, crashes, retries>>

\* register_design after the old rows are gone: the new ones keep what was known
\* to be implemented.
DesignRows(s) ==
  [EmptyRegistry EXCEPT !.contract = s.contract, !.implemented = s.known]

RegisterContract ==
  /\ At("INTERFACE_DESIGN", "register")
  /\ registry' = [registry EXCEPT ![work.node] = DesignRows(session[work.node])]
  /\ Go("done")
  /\ UNCHANGED <<queue, session, checkpointed, gate, crashes, retries>>

-----------------------------------------------------------------------------
(* TEST_GENERATION: _run_test_generation_stage_from_session *)

Prepared == session[work.node].design = "prepared"

TestsRefused ==
  /\ At("TEST_GENERATION", "run") /\ ~Prepared
  /\ Fail
  /\ UNCHANGED <<session, registry, checkpointed, crashes, retries>>

\* No manifest, an invalid row, or owned coverage of a foreign contract.
ManifestFails ==
  /\ At("TEST_GENERATION", "run") /\ Prepared
  /\ Fail
  /\ UNCHANGED <<session, registry, checkpointed, crashes, retries>>

\* _validate_http_status_contracts, before the gate and again on a manifest it
\* has revised: tests that assert a status no contract declares fail the stage.
\* What _check_test_contract_satisfiability hands over to the implementation
\* beside it is text for the prompt and is left out.
StatusUndeclared ==
  /\ Fail
  /\ UNCHANGED <<session, registry, checkpointed, crashes, retries>>

StatusFails ==
  /\ At("TEST_GENERATION", "run") /\ Prepared
  /\ StatusUndeclared

\* The tests say that the node is covered, up to the mapping of tests to
\* contracts, which may always be incomplete: every file is green, and contracts
\* of the node itself have owned tests.
CoveredByTests(m, state) ==
  /\ Rows(m) # {}
  /\ \A f \in Rows(m) : state[f] = "green"
  /\ session[work.node].contract = "own" => Owned(m) # {}

\* _required_reuse_checkpoint_ids: an inherited contract rests on the checkpoint
\* of the node that owns it.
OwnerCheckpointed == checkpointed \ {work.node} # {}

\* The nodes whose checkpoints may vouch for a contract by having touched its
\* file: the node itself, its parent and what it depends on.
PathOwners ==
  {work.node} \cup Dependencies[work.node]
    \cup {Parents[n] : n \in {work.node} \cap DOMAIN Parents}

\* The rest of assess_reused_coverage.  Contracts of the node itself are
\* implemented if a checkpoint of an owner touches their file, or if the store
\* says so and the node has a checkpoint.
Implemented ==
  CASE session[work.node].contract = "own"    -> checkpointed \cap PathOwners # {}
    [] session[work.node].contract = "reused" -> OwnerCheckpointed
    [] OTHER -> FALSE

MayReuse(m, state) == CoveredByTests(m, state) /\ Implemented

Witnessed(m) == session[work.node].contract # "none" => Owned(m) # {}

\* What the gate returns to the stage: the manifest and the state of its files.
Accept(m, state, reuse) ==
  /\ gate' = [gate EXCEPT !.manifest = m, !.evidence = {}, !.reuse = reuse,
                          !.state = [f \in SuiteFile |-> IF f \in Rows(m) THEN state[f]
                                                    ELSE "unrun"]]
  /\ Go("store")
  /\ UNCHANGED queue

\* The end of _enforce_design_baseline_red, after the repair rounds.
Finish(m, state) ==
  \/ MayReuse(m, state) /\ Accept(m, state, TRUE)
  \/ Witnessed(m) /\ Accept(m, state, FALSE)
  \/ ~Witnessed(m) /\ Fail

\* Every file of the fresh manifest m runs once, with the outcomes given; an
\* empty manifest ends the gate at once.
Baseline(m, outcome) ==
  LET green == {f \in Owned(m) : outcome[f] = "green"} IN
  /\ At("TEST_GENERATION", "run") /\ Prepared
  /\ \/ Rows(m) = {} /\ Accept(m, Unknown, FALSE)
     \/ Rows(m) # {} /\ MayReuse(m, outcome) /\ Accept(m, outcome, TRUE)
     \/ Rows(m) # {} /\ ~Witnessed(m) /\ Fail
     \/ /\ Rows(m) # {} /\ Witnessed(m)
        /\ IF work.node \in checkpointed THEN Accept(m, outcome, FALSE)
           ELSE IF green = {} THEN Finish(m, outcome)
           ELSE /\ gate' = [manifest |-> m, original |-> Rows(m), evidence |-> green,
                            state |-> Merged(Unknown, [f \in Rows(m) |-> outcome[f]]),
                            round |-> 0, reuse |-> FALSE]
                /\ Go("repair")
                /\ UNCHANGED queue
  /\ UNCHANGED <<session, registry, checkpointed, crashes, retries>>

RoundsLeft == gate.round < MaxRejections

RepairExhausted ==
  /\ At("TEST_GENERATION", "repair") /\ ~RoundsLeft
  /\ Fail
  /\ UNCHANGED <<session, registry, checkpointed, crashes, retries>>

\* An answer without a manifest spends a round.
RepairUnparsed ==
  /\ At("TEST_GENERATION", "repair") /\ RoundsLeft
  /\ gate' = [gate EXCEPT !.round = @ + 1]
  /\ UNCHANGED <<queue, session, registry, checkpointed, work, crashes, retries>>

\* Invalid rows, or nothing but rows that are dropped.
RepairFails ==
  /\ At("TEST_GENERATION", "repair") /\ RoundsLeft
  /\ Fail
  /\ UNCHANGED <<session, registry, checkpointed, crashes, retries>>

\* Variant for testing RenameDoesNotEscape: only the green files run again.
EvidenceOnly(m) == gate.evidence \cap Rows(m)

\* The files that have to prove themselves red in this round: those that were
\* green and those the first manifest did not have.
Rechecked(m) == (gate.evidence \cap Rows(m)) \cup (Rows(m) \ gate.original)

Repair(m, outcome) ==
  LET again == Rechecked(m)
      state == [f \in SuiteFile |-> IF f \in again THEN outcome[f] ELSE gate.state[f]]
      green == {f \in again \cap Owned(m) : outcome[f] = "green"}
  IN  /\ At("TEST_GENERATION", "repair") /\ RoundsLeft
      /\ IF green = {} THEN Finish(m, state)
         ELSE /\ gate' = [gate EXCEPT !.manifest = m, !.state = state, !.evidence = green,
                                      !.round = @ + 1]
              /\ UNCHANGED <<queue, work>>
      /\ UNCHANGED <<session, registry, checkpointed, crashes, retries>>

RevisionFails ==
  /\ At("TEST_GENERATION", "store") /\ gate.original # {}
  /\ StatusUndeclared

\* register_design with the test rows m: a row that is written again has not
\* passed, and set_test_pass_statuses passes the rows of a reuse.
TestsStored(r, m, reuse) ==
  [r EXCEPT !.tests = @ \cup m, !.passed = IF reuse THEN @ \cup m ELSE @ \ m]

StoreTests ==
  /\ At("TEST_GENERATION", "store")
  /\ registry' = [registry EXCEPT ![work.node] =
                    TestsStored(@, Rows(gate.manifest), gate.reuse)]
  /\ Go("record")
  /\ UNCHANGED <<queue, session, checkpointed, gate, crashes, retries>>

RecordDesign ==
  /\ At("TEST_GENERATION", "record")
  /\ session' = [session EXCEPT
       ![work.node].design = "completed",
       ![work.node].tests = Rows(gate.manifest),
       ![work.node].baseline =
          Merged(@, [f \in Rows(gate.manifest) |-> gate.state[f]]),
       ![work.node].reuse = gate.reuse,
       ![work.node].result = IF gate.reuse THEN "CONVERGED" ELSE @]
  /\ Go("done")
  /\ UNCHANGED <<queue, registry, checkpointed, gate, crashes, retries>>

-----------------------------------------------------------------------------
(* IMPLEMENTATION: run_implement_phase *)

\* mark_interfaces_implemented: the contracts of the node carry the mark.
Implement(r) == [r EXCEPT !.implemented = TRUE]

ImplementComposition ==
  /\ At("IMPLEMENTATION", "run") /\ ~IsLeaf(work.node)
  /\ registry' = [registry EXCEPT ![work.node] = Implement(@)]
  /\ session' = [session EXCEPT ![work.node].implement = "completed",
                                ![work.node].result = "CONVERGED"]
  /\ Go("done")
  /\ UNCHANGED <<queue, checkpointed, gate, crashes, retries>>

\* The recorded evidence still names every registered test, all of them green.
ReuseHolds ==
  LET s == session[work.node]
      r == registry[work.node]
  IN  /\ s.reuse /\ r.contract # "none" /\ r.tests # {}
      /\ \A f \in r.tests : f \in s.tests /\ s.baseline[f] = "green"

\* Variant for testing ConvergedIsCovered: the verdicts of the baseline are left
\* to stand for the ones of the implementation.
ImplementUnmarked ==
  /\ At("IMPLEMENTATION", "run") /\ IsLeaf(work.node) /\ ReuseHolds
  /\ registry' = [registry EXCEPT ![work.node] = Implement(@)]
  /\ session' = [session EXCEPT ![work.node].implement = "completed",
                                ![work.node].result = "CONVERGED"]
  /\ Go("done")
  /\ UNCHANGED <<queue, checkpointed, gate, crashes, retries>>

\* set_test_pass_statuses over every registered test of the node.
PassAll(r) == [r EXCEPT !.passed = r.tests]

ImplementByReuse ==
  /\ At("IMPLEMENTATION", "run") /\ IsLeaf(work.node) /\ ReuseHolds
  /\ registry' = [registry EXCEPT ![work.node] = PassAll(Implement(@))]
  /\ session' = [session EXCEPT ![work.node].implement = "completed",
                                ![work.node].result = "CONVERGED"]
  /\ Go("done")
  /\ UNCHANGED <<queue, checkpointed, gate, crashes, retries>>

\* Evidence that does not hold is dropped; without tests there is nothing to do.
ImplementWithoutReuse ==
  LET s == session[work.node]
      r == registry[work.node]
  IN  /\ At("IMPLEMENTATION", "run") /\ IsLeaf(work.node) /\ ~ReuseHolds
      /\ session' = [session EXCEPT
           ![work.node].reuse = FALSE,
           ![work.node].result = IF s.reuse THEN "" ELSE @,
           ![work.node].implement = IF r.tests = {} THEN "completed" ELSE @]
      /\ registry' = [registry EXCEPT ![work.node] = IF r.tests = {} THEN Implement(@) ELSE @]
      /\ Go(IF r.tests = {} THEN "done" ELSE "tdd")
      /\ UNCHANGED <<queue, checkpointed, gate, crashes, retries>>

\* _run_tdd_for_node, whose layers TddLayers describes.
TddPasses ==
  /\ At("IMPLEMENTATION", "tdd")
  /\ registry' = [registry EXCEPT ![work.node] = PassAll(Implement(@))]
  /\ session' = [session EXCEPT ![work.node].implement = "completed"]
  /\ Go("done")
  /\ UNCHANGED <<queue, checkpointed, gate, crashes, retries>>

TddFails ==
  /\ At("IMPLEMENTATION", "tdd")
  /\ \E passed \in SUBSET registry[work.node].tests :
       registry' = [registry EXCEPT ![work.node].passed = passed]
  /\ session' = [session EXCEPT ![work.node].implement = "failed"]
  /\ Fail
  /\ UNCHANGED <<checkpointed, crashes, retries>>

-----------------------------------------------------------------------------
(* Publication, death and retry *)

\* The checkpoints of the stage worktrees are not "(implement" commits.
Publish ==
  /\ work.step = "done"
  /\ queue' = FinalizedFor(Transition(queue, work.node, work.stage, "PUBLISHED"), Task,
                IF session[work.node].result = "CONVERGED" THEN "CONVERGED" ELSE "PASSED")
  /\ work' = Idle
  /\ gate' = NoGate
  /\ UNCHANGED <<session, registry, checkpointed, crashes, retries>>

PublicationFails ==
  /\ work.step = "done"
  /\ Fail
  /\ UNCHANGED <<session, registry, checkpointed, crashes, retries>>

\* recover_interrupted_task, the part it writes to the session.
Interrupted(s, state) ==
  CASE state = "DESIGNING"    -> [s EXCEPT !.design = "interrupted"]
    [] state = "IMPLEMENTING" -> [s EXCEPT !.implement = "interrupted"]
    [] OTHER                  -> s

\* The process dies and is started again with --resume.
CrashAndResume ==
  /\ crashes < MaxCrashes
  /\ crashes' = crashes + 1
  /\ queue' = WithoutVisual(RecoverInterrupted(queue))
  /\ session' = [n \in Node |-> Interrupted(session[n], queue.state[n])]
  /\ work' = Idle
  /\ gate' = NoGate
  /\ UNCHANGED <<registry, checkpointed, retries>>

\* reset_node_for_retry, the part it writes to the session.
ResetSession(s, kind) ==
  CASE kind = "implement" ->
         [s EXCEPT !.implement = "pending", !.result = "",
                   !.baseline = Merged(@, [f \in {} |-> "unrun"])]
    [] kind = "full" ->
         [Reset(s) EXCEPT !.baseline = Merged(@, [f \in {} |-> "unrun"])]
    [] kind = "design" ->
         [Reset(s) EXCEPT !.contract = "none", !.tests = {},
                          !.baseline = Merged(@, [f \in {} |-> "unrun"])]

\* The effects on the store that the reset plan asks for.
ResetRegistry(r, kind) ==
  CASE kind = "implement" -> [r EXCEPT !.passed = {}]
    [] kind = "full"      -> r
    [] kind = "design"    -> EmptyRegistry

\* --retry n and, for a failed node, --retry-failed.
Retry(n) ==
  LET kind == RetryKind(queue, n) IN
  /\ work = Idle /\ retries < MaxRetries
  /\ queue.state[n] \in {"FAILED"} \cup CompletedStates
  /\ retries' = retries + 1
  /\ queue' = WithoutVisual(ReleaseDependencyBlocks(ResetNode(queue, n, kind)))
  /\ session' = [session EXCEPT ![n] = ResetSession(@, kind)]
  /\ registry' = [registry EXCEPT ![n] = ResetRegistry(@, kind)]
  /\ UNCHANGED <<checkpointed, work, gate, crashes>>

InterfaceStage ==
  \/ SkipComposition
  \/ DesignFails
  \/ \E c \in Contract : DesignPrepared(c)
  \/ RegisterContract

Outcomes == [SuiteFile -> FileState]

Manifests == [SuiteFile -> Scope]

TestStage ==
  \/ TestsRefused
  \/ ManifestFails
  \/ StatusFails
  \/ \E m \in Manifests, o \in Outcomes : Baseline(m, o) \/ Repair(m, o)
  \/ RepairExhausted
  \/ RepairUnparsed
  \/ RepairFails
  \/ RevisionFails
  \/ StoreTests
  \/ RecordDesign

ImplementStage ==
  \/ ImplementComposition
  \/ ImplementByReuse
  \/ ImplementWithoutReuse
  \/ TddPasses
  \/ TddFails

Next ==
  \/ \E n \in Node, s \in FormalStage : Start(n, s)
  \/ InterfaceStage
  \/ TestStage
  \/ ImplementStage
  \/ Publish
  \/ PublicationFails
  \/ CrashAndResume
  \/ \E n \in Node : Retry(n)

Spec == Init /\ [][Next]_vars

-----------------------------------------------------------------------------
(* Properties *)

\* The rename escape stays closed: however the repair rounds rename, relabel
\* and delete files, a test that is published as owned coverage after a repair
\* has run, and one that was green when it ran last is one that the first
\* manifest already had.
RenameDoesNotEscape ==
  At("TEST_GENERATION", "store") /\ ~gate.reuse /\ gate.original # {}
    => \A f \in Owned(gate.manifest) :
         /\ gate.state[f] # "unrun"
         /\ gate.state[f] = "green" => f \in gate.original

\* The store, the session and the queue agree on a published design through
\* retries and crashes: the tests registered for a leaf whose test stage is
\* published are those its session describes, without a row of an earlier
\* design, and its contract is the one they were written for.
RegisteredIsPublished ==
  \A n \in Node : IsLeaf(n) /\ queue.stage[n]["TEST_GENERATION"] = "PUBLISHED" =>
    /\ session[n].design = "completed"
    /\ registry[n].tests = session[n].tests
    /\ registry[n].contract = session[n].contract

\* A node that is reported CONVERGED has every registered test recorded as
\* passed and its contract as implemented, whatever was retried before.
ConvergedIsCovered ==
  \A n \in Node : queue.state[n] = "CONVERGED" =>
    registry[n].implemented /\ registry[n].passed = registry[n].tests
=============================================================================
