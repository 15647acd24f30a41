------------------------------ MODULE E2ERuntime ------------------------------
(***************************************************************************)
(* The end-to-end test attempts of one web task (app_type_handler/):       *)
(* E2EAttemptRunner.run_group and run_attempt (e2e_attempt.py), the cache  *)
(* of the frontend build, and BackendRuntime (backend_runtime.py), which   *)
(* keeps one backend server alive between the attempts of a session.       *)
(* The agent edits the sources at any moment, also while an attempt runs,  *)
(* and between two runs may rewrite the output with run_build.  Processes  *)
(* die, hang and outlive their launcher.                                   *)
(* Both caches compare hashes: what the sources hold is a content of a     *)
(* set, and an edit may restore one that was there before.                 *)
(* One attempt runs at a time, on the port of the task's slot.             *)
(***************************************************************************)
EXTENDS Integers, FiniteSets

CONSTANTS
  Suite,      \* the groups of test files: each has a database file of its own
  Source,     \* the contents the sources of one side, frontend or backend, may have
  MaxEdits,   \* edits of the agent
  MaxFaults,  \* process and build faults
  MaxGroups   \* run_tests calls for an E2E group

ASSUME BoundsAssumption == {MaxEdits, MaxFaults, MaxGroups} \subseteq Nat
ASSUME SourceAssumption == "none" \notin Source

PrepareAttempts == 3  \* 1 + len(_E2E_DB_PREPARE_RETRY_DELAYS_SECONDS)

VARIABLES
  front, back, \* the contents of the frontend and of the backend sources
  dist,        \* frontend/dist: built from which content, and whether whole
  record,      \* .arc-build-fingerprint.json inside dist
  server,      \* the backend process tree this runtime started last
  foreign,     \* a process this runtime never started listens on the port
  session,     \* BackendRuntime._session
  rows,        \* the content of each E2E database
  recovered,   \* _spa_static_host_recovery_used
  run,         \* the group call in flight, or the last one
  crossed,     \* history: the builds and starts that read another content than was hashed
  edits, faults, groups

files == <<front, back, dist, record>>
counters == <<edits, faults, groups>>
vars == <<files, server, foreign, session, rows, recovered, run, crossed, counters>>

-----------------------------------------------------------------------------
(* Sources and build output *)

NoDist == [from |-> "none", whole |-> FALSE]
NoRecord == [src |-> "none", dist |-> NoDist]

\* What a build that stops half-way, or is killed by its time-out, leaves.
PartialDist(v) == [from |-> v, whole |-> FALSE]

\* The record vouches for both sides of the cache: the sources as hashed before
\* the build, and the output as hashed after it (no index.html, no fingerprint).
Vouched == dist # NoDist /\ record = [src |-> front, dist |-> dist]

ClearRecord == record' = NoRecord

\* Variant for testing GreenSawTheSources: the recorded source fingerprint is
\* taken after the build instead of before it.
RecordAfterBuild(built) == record' = [src |-> front, dist |-> built]

\* _record_frontend_fingerprint with the fingerprint hashed before the build.
RecordBuild(built) == record' = [src |-> run.front, dist |-> built]

\* History: an edit fell between the hash that names an artefact and the moment
\* the build or the server read the sources.
Cross(side, hashed, read) ==
  crossed' = IF read = hashed THEN crossed
             ELSE [crossed EXCEPT ![side] = @ \cup {<<hashed, read>>}]

-----------------------------------------------------------------------------
(* Processes and the port *)

NoServer == [launcher |-> "none", child |-> FALSE, answers |-> FALSE,
             loaded |-> "none", suite |-> "none"]
NoSession == [suite |-> "none", back |-> "none"]

Occupied == server.child \/ foreign

\* _capture_owned_port_processes: the owners of the port that descend from the
\* launcher now.  A child that outlived its launcher has another parent.
Captured == server.launcher = "alive" /\ server.child

\* Variant for testing LivingServerIsHeld: the tree is only told to stop.
LeftRunning == server

\* finalize_subprocess ends the whole process group of a living launcher and
\* does nothing for a dead one; what was captured before is killed by force;
\* an owner that was not captured is never killed.
AfterTeardown == IF server.launcher = "alive" THEN NoServer ELSE server

\* terminate_backend_process raises: the port is still held by unknown owners.
TeardownFails == foreign \/ (server.child /\ ~Captured)

\* BackendRuntime.terminate: the session is given up whatever happens, and the
\* teardown that fails only leaves its marker in a note.
Terminate ==
  /\ session' = NoSession
  /\ server' = IF session = NoSession THEN server ELSE AfterTeardown

CleanupFailed == session # NoSession /\ TeardownFails

-----------------------------------------------------------------------------
(* The group call *)

Running == run.step # "idle"
Goto(s) == run' = [run EXCEPT !.step = s]

NoRun == [step |-> "idle", suite |-> "none", retry |-> FALSE, tries |-> 0,
          fronts |-> {}, backs |-> {}, during |-> {}, front |-> "none", back |-> "none",
          first |-> FALSE, note |-> FALSE, failed |-> FALSE,
          tested |-> [dist |-> NoDist, back |-> "none", rows |-> "none", own |-> FALSE],
          verdict |-> "none"]

Init ==
  /\ front \in Source /\ back \in Source
  /\ dist = NoDist /\ record = NoRecord
  /\ server = NoServer /\ foreign = FALSE
  /\ session = NoSession
  /\ rows = [s \in Suite |-> "missing"]
  /\ recovered = FALSE
  /\ run = NoRun
  /\ crossed = [front |-> {}, back |-> {}]
  /\ edits = 0 /\ faults = 0 /\ groups = 0

\* run_test_group hands a group of E2E files to E2EAttemptRunner.run_group.
\* fronts and backs are history: the contents the sources have from now on.
StartGroup(s) ==
  /\ ~Running /\ groups < MaxGroups
  /\ run' = [NoRun EXCEPT !.step = "build", !.suite = s, !.fronts = {front}, !.backs = {back}]
  /\ groups' = groups + 1
  /\ UNCHANGED <<files, server, foreign, session, rows, crossed, recovered, edits, faults>>

\* _build_frontend_dist finds the output it has already built.
ReuseDist ==
  /\ run.step = "build" /\ ~run.retry /\ Vouched
  /\ Goto("hash")
  /\ UNCHANGED <<files, server, foreign, session, rows, crossed, recovered, counters>>

\* npm run build starts: the sources were hashed, the old record is removed.
StartBuild ==
  /\ run.step = "build"
  /\ run.retry \/ ~Vouched
  /\ ClearRecord
  /\ run' = [run EXCEPT !.step = "building", !.front = front, !.during = {front}]
  /\ UNCHANGED <<front, back, dist, server, foreign, session, rows, crossed, recovered, counters>>

\* The build read the sources at some moment since then.
FinishBuild ==
  /\ run.step = "building"
  /\ \E v \in run.during :
       /\ dist' = [from |-> v, whole |-> TRUE]
       /\ RecordBuild(dist')
       /\ Cross("front", run.front, v)
  /\ Goto("hash")
  /\ UNCHANGED <<front, back, server, foreign, session, rows, recovered, counters>>

\* Variant for testing GreenIsClean: only the note of the last attempt counts.
FlippedByLast == run.note

\* What turns a green result red: the cleanup marker in the note of either attempt.
Flipped == run.first \/ run.note

Answer(v) ==
  run' = [run EXCEPT !.step = "idle",
                     !.verdict = IF v = "green" /\ Flipped THEN "red" ELSE v]

\* The build fails or is killed: the output stays, is partial, or is gone.
FailBuild ==
  /\ run.step = "building" /\ faults < MaxFaults
  /\ dist' \in {dist, NoDist} \cup {PartialDist(v) : v \in run.during}
  /\ Answer("red")
  /\ faults' = faults + 1
  /\ UNCHANGED <<front, back, record, server, foreign, session, rows, crossed, recovered, edits, groups>>

\* backend_source_fingerprint, in a thread, before the runtime is asked for.
HashBackend ==
  /\ run.step = "hash"
  /\ run' = [run EXCEPT !.step = "ensure", !.back = back]
  /\ UNCHANGED <<files, server, foreign, session, rows, crossed, recovered, counters>>

-----------------------------------------------------------------------------
(* BackendRuntime.ensure *)

\* Variant for testing GreenStartedFromSeed: the database is not part of the key.
ReusableAnySuite == session # NoSession /\ session.back = run.back

Reusable == session = [suite |-> run.suite, back |-> run.back]

Serving == server.launcher = "alive" /\ server.child /\ server.answers

\* reset_db wiped the rows and seeded them again under the living server.
ReuseServer ==
  /\ run.step = "ensure" /\ Reusable /\ Serving
  /\ rows' = [rows EXCEPT ![run.suite] = "seeded"]
  /\ Goto("playwright")
  /\ UNCHANGED <<files, server, foreign, session, crossed, recovered, counters>>

\* The wipe is refused (triggers, a locked or missing file) or the seed fails:
\* the same call falls back to a fresh start.
ResetFails ==
  /\ run.step = "ensure" /\ Reusable /\ Serving /\ faults < MaxFaults
  /\ \E content \in {rows[run.suite], "empty"} : rows' = [rows EXCEPT ![run.suite] = content]
  /\ Goto("stale")
  /\ faults' = faults + 1
  /\ UNCHANGED <<files, server, foreign, session, crossed, recovered, edits, groups>>

NotReusable ==
  /\ run.step = "ensure"
  /\ ~Reusable \/ ~Serving
  /\ Goto("stale")
  /\ UNCHANGED <<files, server, foreign, session, rows, crossed, recovered, counters>>

TerminateStale ==
  /\ run.step = "stale"
  /\ Terminate
  /\ run' = [run EXCEPT !.step = "prepare", !.tries = 0,
                        !.note = @ \/ CleanupFailed, !.failed = @ \/ CleanupFailed]
  /\ UNCHANGED <<files, foreign, rows, crossed, recovered, counters>>

\* db:prepare:e2e recreates and seeds the file.
PrepareDatabase ==
  /\ run.step = "prepare"
  /\ rows' = [rows EXCEPT ![run.suite] = "seeded"]
  /\ Goto("start")
  /\ UNCHANGED <<files, server, foreign, session, crossed, recovered, counters>>

\* Each retry looks at the port first and kills nobody; the third failure ends
\* the attempt in the database stage.
PrepareFails ==
  /\ run.step = "prepare" /\ faults < MaxFaults
  /\ rows' = [rows EXCEPT ![run.suite] = "missing"]
  /\ IF run.tries + 1 < PrepareAttempts
       THEN run' = [run EXCEPT !.tries = @ + 1]
       ELSE Answer("red")
  /\ faults' = faults + 1
  /\ UNCHANGED <<files, server, foreign, session, crossed, recovered, edits, groups>>

\* spawn_backend_process refuses to start while somebody holds the port.
StartRefused ==
  /\ run.step = "start" /\ Occupied
  /\ Answer("red")
  /\ UNCHANGED <<files, server, foreign, session, rows, crossed, recovered, counters>>

StartServer ==
  /\ run.step = "start" /\ ~Occupied
  /\ server' = [launcher |-> "alive", child |-> TRUE, answers |-> FALSE,
                loaded |-> back, suite |-> run.suite]
  /\ Cross("back", run.back, back)
  /\ Goto("starting")
  /\ UNCHANGED <<files, foreign, session, rows, recovered, counters>>

\* The server answers: the session is keyed by the fingerprint hashed before.
ServerReady ==
  /\ run.step = "starting" /\ server.launcher = "alive"
  /\ server' = [server EXCEPT !.answers = TRUE]
  /\ session' = [suite |-> run.suite, back |-> run.back]
  /\ Goto("playwright")
  /\ UNCHANGED <<files, foreign, rows, crossed, recovered, counters>>

\* No answer within 20 seconds: what was started is torn down; a cleanup that
\* fails here ends in the body of the failure only.
ServerNotReady ==
  /\ run.step = "starting"
  /\ \/ server.launcher = "alive" /\ faults < MaxFaults /\ faults' = faults + 1
     \/ server.launcher # "alive" /\ UNCHANGED faults
  /\ server' = AfterTeardown
  /\ Answer("red")
  /\ UNCHANGED <<files, foreign, session, rows, crossed, recovered, edits, groups>>

-----------------------------------------------------------------------------
(* Playwright, the one-shot recovery, and the end of a session *)

\* What the tests of this attempt start on, kept as history.
Tested == [dist |-> dist, back |-> server.loaded, rows |-> rows[run.suite],
           own |-> server.suite = run.suite]

StartPlaywright ==
  /\ run.step = "playwright"
  /\ run' = [run EXCEPT !.step = "testing", !.tested = Tested]
  /\ UNCHANGED <<files, server, foreign, session, rows, crossed, recovered, counters>>

\* The exit code of Playwright is the verdict, after the flip for a failed
\* cleanup; without a server that answers nothing passes.
FinishPlaywright(v) ==
  /\ run.step = "testing"
  /\ v = "green" => server.child /\ server.answers
  /\ rows' = [rows EXCEPT ![run.suite] = "used"]
  /\ Answer(v)
  /\ UNCHANGED <<files, server, foreign, session, crossed, recovered, counters>>

\* The output carries the dead-static-host signature and the budget is there:
\* the server is terminated and a forced build opens the second attempt.
RecoverStaticHost ==
  /\ run.step = "testing" /\ ~recovered
  /\ recovered' = TRUE
  /\ rows' = [rows EXCEPT ![run.suite] = "used"]
  /\ Terminate
  /\ run' = [run EXCEPT !.step = "build", !.retry = TRUE, !.first = run.note,
                        !.note = CleanupFailed, !.failed = @ \/ CleanupFailed]
  /\ UNCHANGED <<crossed, files, foreign, counters>>

\* shutdown_e2e_runtime at the end of the DESIGN gate or of the IMPLEMENT phase.
Shutdown ==
  /\ ~Running /\ session # NoSession
  /\ Terminate
  /\ UNCHANGED <<files, foreign, rows, crossed, recovered, run, counters>>

-----------------------------------------------------------------------------
(* The agent and the machine *)

EditFront(c) ==
  /\ edits < MaxEdits
  /\ front' = c /\ edits' = edits + 1
  /\ run' = IF Running
              THEN [run EXCEPT !.fronts = @ \cup {c},
                               !.during = @ \cup (IF run.step = "building" THEN {c} ELSE {})]
              ELSE run
  /\ UNCHANGED <<back, dist, record, server, foreign, session, rows, recovered, faults, groups>>
  /\ UNCHANGED crossed

EditBack(c) ==
  /\ edits < MaxEdits
  /\ back' = c /\ edits' = edits + 1
  /\ run' = IF Running THEN [run EXCEPT !.backs = @ \cup {c}] ELSE run
  /\ UNCHANGED <<front, dist, record, server, foreign, session, rows, recovered, faults, groups>>
  /\ UNCHANGED crossed

Edit == \E c \in Source : EditFront(c) \/ EditBack(c)

\* The run_build tool between two runs: no record is written, and the output
\* directory, the record in it included, is emptied unless the build stops before.
RunBuild ==
  /\ ~Running /\ edits < MaxEdits
  /\ dist' \in {[from |-> front, whole |-> TRUE], PartialDist(front)}
  /\ record' \in {record, NoRecord}
  /\ edits' = edits + 1
  /\ UNCHANGED <<front, back, server, foreign, session, rows, crossed, recovered, run, faults, groups>>

\* A launcher dies with its child or before it; a server stops answering.
ProcessFault ==
  /\ server.launcher = "alive" /\ faults < MaxFaults
  /\ server' \in {[server EXCEPT !.launcher = "dead"],
                  [NoServer EXCEPT !.launcher = "dead"],
                  [server EXCEPT !.answers = FALSE]}
  /\ faults' = faults + 1
  /\ UNCHANGED <<files, foreign, session, rows, crossed, recovered, run, edits, groups>>

OrphanExits ==
  /\ server.launcher = "dead" /\ server.child
  /\ server' = [NoServer EXCEPT !.launcher = "dead"]
  /\ UNCHANGED <<files, foreign, session, rows, crossed, recovered, run, counters>>

\* Another program takes the free port, not in the moment between the check
\* of the port and the bind of the server.
ForeignProcess ==
  \/ /\ ~Occupied /\ run.step # "starting" /\ faults < MaxFaults
     /\ foreign' = TRUE /\ faults' = faults + 1
     /\ UNCHANGED <<files, server, session, rows, crossed, recovered, run, edits, groups>>
  \/ /\ foreign /\ foreign' = FALSE
     /\ UNCHANGED <<files, server, session, rows, crossed, recovered, run, counters>>

Build == ReuseDist \/ StartBuild \/ FinishBuild \/ FailBuild
Ensure == \/ HashBackend \/ ReuseServer \/ ResetFails \/ NotReusable
          \/ TerminateStale \/ PrepareDatabase \/ PrepareFails
          \/ StartRefused \/ StartServer \/ ServerReady \/ ServerNotReady
Attempt == \/ Build \/ Ensure \/ StartPlaywright \/ RecoverStaticHost
           \/ \E v \in {"green", "red"} : FinishPlaywright(v)
Environment == Edit \/ RunBuild \/ ProcessFault \/ OrphanExits \/ ForeignProcess

Next == Attempt \/ Environment \/ Shutdown \/ \E s \in Suite : StartGroup(s)

Spec == Init /\ [][Next]_vars

-----------------------------------------------------------------------------
(* Properties *)

\* The artefact was made from this content while another one was hashed for it,
\* and the sources had that other one, again, since the agent asked.
Mistaken(mixed, contents, content) == \E hashed \in contents : <<hashed, content>> \in mixed

\* A green verdict, whatever build and server it reused, comes from tests that
\* saw a whole frontend and a backend with contents the sources had since the
\* agent asked for the run: neither cache serves an outdated artefact, but for
\* the one that an edit crossed on its way and that was undone later.
GreenSawTheSources ==
  run.verdict = "green" =>
    /\ run.tested.dist.whole
    /\ \/ run.tested.dist.from \in run.fronts
       \/ Mistaken(crossed.front, run.fronts, run.tested.dist.from)
    /\ \/ run.tested.back \in run.backs
       \/ Mistaken(crossed.back, run.backs, run.tested.back)

\* What the comment on the reuse of the output says: it is reused for the same
\* sources only (e2e_attempt.py:306-308).  It is not: the record names what was
\* hashed before the build, not what the build read.
GreenSawTheFrontend ==
  run.verdict = "green" => run.tested.dist.from \in run.fronts

\* A green verdict comes from tests that started on the prepared and seeded rows
\* of their own database, also when an earlier group left its rows, a server on
\* another database, or a reset that failed half-way.
GreenStartedFromSeed ==
  run.verdict = "green" => run.tested.rows = "seeded" /\ run.tested.own

\* A green verdict is never given by a group one of whose teardowns failed, be
\* it the stale one of either attempt or the one between the two.
GreenIsClean == run.verdict = "green" => ~run.failed

\* Between two calls every server whose launcher lives is held by the session,
\* so the end of the phase can take it down: nothing we started is forgotten.
LivingServerIsHeld ==
  ~Running /\ server.launcher = "alive" => session # NoSession
=============================================================================
