--------------------------- MODULE StageDiscipline ---------------------------
(***************************************************************************)
(* One pass of a stage agent under StageDisciplineMiddleware (agents/      *)
(* runtime/stage_discipline.py): its declared write set and test manifest, *)
(* the write lock on what it wrote, and the budgets of writes, appends,    *)
(* edits and delete-then-rewrite cycles.  A file call is validated in the  *)
(* event loop, its tool then works in a thread, and its result is recorded *)
(* when the loop gets to it: the calls of one batch interleave.  A blocked *)
(* call changes nothing and is no step, save one that a sibling's claim    *)
(* stops after its units are taken.  Reads and probes are left out.        *)
(***************************************************************************)
EXTENDS Naturals, FiniteSets

CONSTANTS
  Path,             \* the files an agent may name
  TestAsset,        \* is_test_asset: tests and helpers of the node
  TestFile,         \* is_test_file_path: what a manifest may list
  TestNamed,        \* files whose name is a test's, if only "test-..."
  Surface,          \* template files that are never replaced
  Shared,           \* is_shared_test_resource: configuration and fixtures
  ForeignTest,      \* test assets of other nodes
  Existing,         \* [stage -> the files in the directory when it begins]
  MaxDesignWrites,  \* _max_design_writes
  MaxAppends,       \* MAX_APPENDS_PER_FILE
  MaxEdits,         \* _MAX_EDITS_PER_PATH
  MaxRewrites,      \* _MAX_DELETE_REWRITES_PER_PATH
  WriteSets,        \* [stage -> the write sets its agent may ask for]
  MaxFlight,        \* bound on the calls of a batch in flight at a time
  MaxCalls          \* bound [stage -> calls in one pass]

Stages == {"interface_design", "test_generation", "implementation"}
Tools == {"write", "edit", "append", "delete"}

ASSUME DisciplineAssumption ==
  /\ TestFile \subseteq TestAsset \cap TestNamed
  /\ TestAsset \cup TestNamed \cup Surface \cup Shared \cup ForeignTest \subseteq Path
  /\ Existing \in [Stages -> SUBSET Path]
  /\ {MaxDesignWrites, MaxAppends, MaxEdits, MaxRewrites, MaxFlight} \subseteq Nat
  /\ WriteSets \in [Stages -> SUBSET SUBSET Path]
  /\ MaxCalls \in [Stages -> Nat]

VARIABLES
  stage,        \* the stage of the pass
  writeSet,     \* StageWriteSetLock: {} until it is locked, else {the set}
  declared,     \* declared_files of the TestManifestLock
  retryable,    \* _retryable_paths: those of a rejected declaration
  written,      \* _written_paths
  failed,       \* _failed_paths
  testsFailed,  \* _validation_failed
  reserved,     \* _design_write_reservations
  appends,      \* _append_counts
  edits,        \* spent "edit" units of the path ledger
  rewrites,     \* spent "delete_rewrite" units
  flight,       \* the calls that are validated and not yet recorded
  disk,         \* the files in the directory
  calls,        \* counter its bound applies to
  outcome,      \* how the pass ended, or "running"
  registered,   \* the tests it hands to the manifest of the node
  repairs,      \* history: [path -> repairs of a test asset that stood]
  appended,     \* history: [path -> appends that landed]
  crossed       \* history: <<path, tool>> of calls that overlapped on a path

declarations == <<writeSet, declared, retryable>>
locks == <<written, failed, testsFailed>>
budgets == <<reserved, appends, edits, rewrites>>
ending == <<outcome, registered>>
history == <<repairs, appended, crossed>>
passVars == <<stage, declarations, locks, budgets, flight, disk, calls, ending, history>>

Zero == [p \in Path |-> 0]

PassInit ==
  /\ stage \in Stages
  /\ writeSet = {} /\ declared = {} /\ retryable = {}
  /\ written = {} /\ failed = {} /\ testsFailed = FALSE
  /\ reserved = {} /\ appends = Zero /\ edits = Zero /\ rewrites = Zero
  /\ flight = {} /\ disk = Existing[stage] /\ calls = 0
  /\ outcome = "running" /\ registered = {}
  /\ repairs = Zero /\ appended = Zero /\ crossed = {}

-----------------------------------------------------------------------------
(* Declarations.                                                             *)

\* The first accepted write set is final.
DeclareWriteSet(S) ==
  /\ outcome = "running" /\ writeSet = {} /\ S \cap (Shared \cup ForeignTest) = {}
  /\ writeSet' = {S}
  /\ UNCHANGED <<stage, declared, retryable, locks, budgets, flight, disk, calls, ending, history>>

InWriteSet(p) == \E S \in writeSet : p \in S

\* A new path after a declaration that was accepted, unless an earlier
\* declaration named it and was rejected.
Sealed(F) == IF declared = {} THEN {} ELSE F \ (declared \cup retryable)

\* declare_test_manifest of the test files F, those of wrong with a bad type,
\* scope or interface or a file of another node: a rejected declaration
\* remembers its test files, an accepted one adds them.
DeclareManifest(F, wrong) ==
  LET outside == {p \in F \ wrong : ~InWriteSet(p)}
      refused == wrong # {} \/ outside # {}
      sealed == IF refused THEN {} ELSE Sealed(F)
  IN /\ outcome = "running" /\ stage = "test_generation"
     /\ IF refused \/ sealed # {}
        THEN /\ retryable' = retryable \cup
                  (F \ ((IF writeSet = {} THEN {} ELSE outside) \cup sealed))
             /\ UNCHANGED declared
        ELSE declared' = declared \cup F /\ retryable' = retryable \ F
     /\ UNCHANGED <<stage, writeSet, locks, budgets, flight, disk, calls, ending, history>>

-----------------------------------------------------------------------------
(* Validation of a call.                                                     *)

Unlocked(p) == testsFailed \/ p \in failed
Locked(p) == p \in written /\ ~Unlocked(p)

\* _validate_shared_test_resource, for every file tool of every stage.
NotShared(p) == p \notin Shared

\* _validate_node_test_domain
InNodeDomain(p) == p \notin ForeignTest

\* _validate_test_manifest_path: a test file is declared before it is touched.
OnManifest(p) == p \in TestFile => p \in declared

\* The capability table: what a stage may do with a kind of file at all.
Capable(p, tool) ==
  /\ tool = "append" => stage = "interface_design"
  /\ tool = "delete" => stage # "interface_design" /\ p \in TestAsset
  /\ stage = "test_generation" => p \in TestAsset

\* _validate_delete_channel: the implementation deletes only what it wrote.
Deletable(p) ==
  IF stage = "test_generation" THEN OnManifest(p) ELSE p \in written

Permitted(p, tool) ==
  /\ NotShared(p) /\ InNodeDomain(p) /\ InWriteSet(p)
  /\ tool = "write" => p \notin Surface
  /\ Capable(p, tool)
  /\ tool = "delete" => Deletable(p)
  /\ stage = "test_generation" => OnManifest(p)

\* A repair: an edit of a test asset the pass has written and may not rewrite.
IsRepair(p, tool) ==
  stage = "test_generation" /\ tool = "edit" /\ Locked(p) /\ p \in TestAsset

\* Variant for testing RepairsBounded: an edit counts when it is done.
RepairsDone(p) == edits[p] + rewrites[p]

RepairsTaken(p) ==
  edits[p] + rewrites[p] + Cardinality({c \in flight : c.path = p /\ c.repair})

\* Edits and rewrite cycles of a test asset share one budget in TEST
\* generation; elsewhere each has its own.  A failure lifts both.
WithinBudget(p, tool) ==
  CASE tool = "write" -> ~Locked(p)
    [] tool = "append" -> appends[p] < MaxAppends
    [] tool = "edit" ->
         Locked(p) => IF IsRepair(p, tool) THEN RepairsTaken(p) < MaxEdits
                      ELSE edits[p] < MaxEdits
    [] tool = "delete" ->
         \/ Unlocked(p)
         \/ IF stage = "test_generation" THEN RepairsTaken(p) < MaxEdits
            ELSE rewrites[p] < MaxRewrites

Reservable(p) ==
  stage = "interface_design" => p \in reserved \/ Cardinality(reserved) < MaxDesignWrites

\* Variant for testing DesignStaysSmall: the unit is taken by the result.
ReserveNothing(p) == UNCHANGED reserved

\* _reserve_design_write: the unit is taken before the tool runs.
ReserveDesignWrite(p) ==
  reserved' = IF stage = "interface_design" THEN reserved \cup {p} ELSE reserved

Validates(p, tool) ==
  /\ outcome = "running" /\ Cardinality(flight) < MaxFlight
  /\ calls < MaxCalls[stage] /\ calls' = calls + 1
  /\ Permitted(p, tool) /\ WithinBudget(p, tool) /\ Reservable(p)
  /\ ReserveDesignWrite(p)

StartCall(p, tool) ==
  /\ Validates(p, tool)
  /\ appends' = IF tool = "append" THEN [appends EXCEPT ![p] = @ + 1] ELSE appends
  /\ flight' = flight \cup {[id |-> calls', path |-> p, tool |-> tool, result |-> "none",
                             repair |-> IsRepair(p, tool), locked |-> Locked(p)]}
  /\ crossed' = crossed \cup
       LET others == {c \in flight : c.path = p}
       IN {<<p, c.tool>> : c \in others} \cup {<<p, tool>> : c \in others}
  /\ UNCHANGED <<stage, declarations, locks, edits, rewrites, disk, ending, repairs, appended>>

\* A new file that a sibling has claimed: the design unit is already taken.
StopAtClaim(p, tool) ==
  /\ tool # "delete" /\ p \notin disk
  /\ Validates(p, tool)
  /\ UNCHANGED <<stage, declarations, locks, appends, edits, rewrites, flight, disk, ending,
                 history>>

-----------------------------------------------------------------------------
(* The tool and its result.                                                  *)

\* The tool itself: a write needs a free path, the others a file.
RunTool(c) ==
  /\ c \in flight /\ c.result = "none"
  /\ \E ok \in BOOLEAN :
       /\ ok => (c.path \in disk) = (c.tool # "write")
       /\ flight' = (flight \ {c}) \cup {[c EXCEPT !.result = IF ok THEN "ok" ELSE "failed"]}
       /\ disk' = IF ~ok THEN disk
                  ELSE IF c.tool = "delete" THEN disk \ {c.path} ELSE disk \cup {c.path}
       /\ repairs' = IF ok /\ c.locked /\ c.tool \in {"edit", "delete"}
                     THEN [repairs EXCEPT ![c.path] = @ + 1] ELSE repairs
       /\ appended' = IF ok /\ c.tool = "append"
                      THEN [appended EXCEPT ![c.path] = @ + 1] ELSE appended
  /\ UNCHANGED <<stage, declarations, locks, budgets, calls, ending, crossed>>

\* A failure opens the path, and frees the unit of one not yet written.
RecordFailure(c) ==
  /\ failed' = failed \cup {c.path}
  /\ reserved' = IF c.path \in written THEN reserved ELSE reserved \ {c.path}
  /\ UNCHANGED <<written, edits, rewrites>>

\* Variant for testing RegisteredIsReal: a deleted path counts as written.
RecordDeletedOnly(c) ==
  /\ UNCHANGED <<written, reserved>>
  /\ failed' = failed \ {c.path}
  /\ edits' = IF stage = "test_generation" THEN edits ELSE [edits EXCEPT ![c.path] = 0]
  /\ rewrites' = IF c.path \in written THEN [rewrites EXCEPT ![c.path] = @ + 1] ELSE rewrites

\* A delete closes the books on the path, except its count of cycles, and in
\* test generation its edits.
RecordDelete(c) ==
  /\ written' = written \ {c.path} /\ failed' = failed \ {c.path}
  /\ edits' = IF stage = "test_generation" THEN edits ELSE [edits EXCEPT ![c.path] = 0]
  /\ rewrites' = IF c.path \in written THEN [rewrites EXCEPT ![c.path] = @ + 1] ELSE rewrites
  /\ UNCHANGED reserved

RecordWrite(c) ==
  /\ written' = written \cup {c.path}
  /\ edits' = IF c.tool = "edit" THEN [edits EXCEPT ![c.path] = @ + 1] ELSE edits
  /\ UNCHANGED <<failed, rewrites, reserved>>

\* _record_result
Record(c) ==
  /\ c \in flight /\ c.result # "none"
  /\ flight' = flight \ {c}
  /\ \/ c.result = "failed" /\ RecordFailure(c)
     \/ c.result = "ok" /\ c.tool = "delete" /\ RecordDelete(c)
     \/ c.result = "ok" /\ c.tool # "delete" /\ RecordWrite(c)
  /\ UNCHANGED <<stage, declarations, testsFailed, appends, disk, calls, ending, history>>

\* A failed build or test run opens everything written, for good.
FailTests ==
  /\ outcome = "running" /\ stage = "implementation" /\ ~testsFailed
  /\ testsFailed' = TRUE /\ failed' = failed \cup written
  /\ UNCHANGED <<stage, declarations, written, budgets, flight, disk, calls, ending, history>>

-----------------------------------------------------------------------------
(* The end of the pass.                                                      *)

Ends(how, tests) ==
  /\ outcome = "running" /\ flight = {}
  /\ outcome' = how /\ registered' = tests
  /\ UNCHANGED <<stage, declarations, locks, budgets, flight, disk, calls, history>>

\* reconcile_declared_manifest: an undeclared row fails the pass, rows of
\* unwritten files are dropped, and files without a row get theirs back.
ReturnManifest(rows) ==
  /\ stage = "test_generation" /\ declared # {}
  /\ IF rows \subseteq declared
     THEN Ends("tests", (rows \cap written) \cup (declared \cap written))
     ELSE Ends("failed", {})

\* _salvage_step_budget: out of steps with every declared file written.
RunOutOfSteps ==
  /\ stage = "test_generation"
  /\ IF declared # {} /\ written # {} /\ declared \subseteq written
     THEN Ends("tests", declared \cap written)
     ELSE Ends("failed", {})

\* Nothing was declared: the rows the model returned are handed on untouched.
ReturnUndeclared(rows) ==
  /\ stage = "test_generation" /\ declared = {}
  /\ Ends("tests", rows)

ReturnOther ==
  /\ stage # "test_generation"
  /\ Ends("done", {})

\* What git would add: the files the stages before have not committed.
Untracked == disk \ Existing[stage]

\* collect_undeclared_test_files: the tests of the manifest are committed by now.
Diagnostics == Untracked \cap TestNamed

\* All tests pass: what the agent left to localize failures is moved out of the
\* tree before the checkpoint.  A move that fails leaves its file there.
PassImplementation ==
  /\ outcome = "running" /\ flight = {} /\ stage = "implementation"
  /\ outcome' = "passed"
  /\ \E moved \in SUBSET Diagnostics : disk' = disk \ moved
  /\ UNCHANGED <<stage, declarations, locks, budgets, flight, calls, registered, history>>

PassNext ==
  \/ \E S \in WriteSets[stage] : DeclareWriteSet(S)
  \/ \E F \in SUBSET TestFile \ {{}} : \E wrong \in {{}, F} : DeclareManifest(F, wrong)
  \/ \E p \in Path, tool \in Tools : StartCall(p, tool) \/ StopAtClaim(p, tool)
  \/ \E c \in flight : RunTool(c) \/ Record(c)
  \/ FailTests
  \/ \E rows \in SUBSET TestFile : ReturnManifest(rows) \/ ReturnUndeclared(rows)
  \/ RunOutOfSteps \/ ReturnOther \/ PassImplementation

PassSpec == PassInit /\ [][PassNext]_passVars

-----------------------------------------------------------------------------
Overlapped(p) == \E tool \in Tools : <<p, tool>> \in crossed

TypeOK ==
  /\ stage \in Stages /\ writeSet \subseteq SUBSET Path
  /\ {declared, retryable, written, failed, reserved, disk, registered} \subseteq SUBSET Path
  /\ testsFailed \in BOOLEAN /\ calls \in Nat
  /\ {appends, edits, rewrites, repairs, appended} \subseteq [Path -> Nat]
  /\ flight \subseteq [id : Nat, path : Path, tool : Tools, result : {"none", "ok", "failed"},
                       repair : BOOLEAN, locked : BOOLEAN]
  /\ outcome \in {"running", "tests", "failed", "done", "passed"} /\ crossed \subseteq Path \X Tools

\* A batch cannot take a DESIGN pass past its number of files nor a file past
\* its appends: the units are taken before the tools run.  A path two calls
\* of one batch name is outside: the failure of one frees the unit of both.
DesignStaysSmall ==
  stage = "interface_design" =>
    /\ Cardinality({p \in written : ~Overlapped(p)}) <= MaxDesignWrites
    /\ \A p \in Path : appended[p] <= MaxAppends

\* In TEST generation a file that nothing failed on is repaired at most as
\* often as the shared budget says, edits and rewrite cycles together and
\* batches of edits included.  A delete in one batch with another call on the
\* file is outside: it reserves no unit.
RepairsBounded ==
  stage = "test_generation" =>
    \A p \in TestAsset : <<p, "delete">> \notin crossed => repairs[p] <= MaxEdits

\* The tests a pass that declared any hands to the manifest are exactly the
\* declared ones it left in the directory, whatever rows the model returned or
\* dropped and however often a file was deleted and written again, out of steps
\* or not.  A delete that overlapped another call on the file is outside, and so
\* is a pass that declared nothing: its rows are nowhere compared with the files.
RegisteredIsReal ==
  outcome = "tests" /\ declared # {} =>
    /\ registered \subseteq declared
    /\ \A p \in declared : <<p, "delete">> \notin crossed =>
         /\ p \in registered => p \in disk
         /\ p \in disk \ Existing[stage] => p \in registered
=============================================================================
