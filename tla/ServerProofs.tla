---------------------------- MODULE ServerProofs ----------------------------
(***************************************************************************)
(* The two servers a run depends on.  The server under test (E2ERuntime):  *)
(* what a green end-to-end verdict means, for every suite and bound - the  *)
(* tests saw the sources that were asked about, unless an edit crossed the *)
(* build or the start, started on seeded rows of their own database and no *)
(* cleanup of the call failed - and a living server is never forgotten     *)
(* between two calls.  The model endpoint                                  *)
(* (ModelCalls), for any number of callers and any budgets: what a call    *)
(* sends is bounded by what it pays, and an endpoint that is down is       *)
(* reported as an outage and left alone.                                   *)
(***************************************************************************)
EXTENDS E2ERuntime, ModelCalls, FiniteSetTheorems, TLAPS


-----------------------------------------------------------------------------
(* The inductive invariant *)

Text == Source \cup {"none"}
Output == [from : Text, whole : BOOLEAN]
Content == {"missing", "empty", "seeded", "used"}
Database == Suite \cup {"none"}
AttemptStep == {"idle", "build", "building", "hash", "ensure", "stale", "prepare", "start",
                "starting", "playwright", "testing"}
Server == [launcher : {"none", "alive", "dead"}, child : BOOLEAN, answers : BOOLEAN,
           loaded : Text, suite : Database]
Tests == [dist : Output, back : Text, rows : Content \cup {"none"}, own : BOOLEAN]
Run == [step : AttemptStep, suite : Database, retry : BOOLEAN, tries : Nat,
        fronts : SUBSET Source, backs : SUBSET Source, during : SUBSET Source,
        front : Text, back : Text,
        first : BOOLEAN, note : BOOLEAN, failed : BOOLEAN,
        tested : Tests, verdict : {"none", "green", "red"}]

RuntimeTypes ==
  /\ front \in Source /\ back \in Source
  /\ dist \in Output /\ record \in [src : Text, dist : Output]
  /\ server \in Server /\ session \in [suite : Database, back : Text]
  /\ rows \in [Suite -> Content] /\ run \in Run
  /\ crossed \in [front : SUBSET (Text \X Text), back : SUBSET (Text \X Text)]

\* An artefact named by one content was made from it, or an edit crossed its making.
MadeFrom(mixed, hashed, content) == content = hashed \/ <<hashed, content>> \in mixed

\* What the sources have had since the call began, or what was mistaken for it.
Current(mixed, contents, content) == content \in contents \/ Mistaken(mixed, contents, content)

\* A record of a build vouches for a whole output made under the hash it names.
RecordHolds ==
  record.dist # NoDist => record.dist.whole /\ MadeFrom(crossed.front, record.src, record.dist.from)

\* A call that is under way has no verdict; its history holds what the sources are now.
Begun(r) ==
  r.step # "idle" => /\ r.suite \in Suite /\ r.verdict = "none"
                     /\ front \in r.fronts /\ back \in r.backs

\* Past the build the output is whole and current; past the hash the content the
\* server is asked for is one the sources had since the call began.
Built == {"hash", "ensure", "stale", "prepare", "start", "starting", "playwright", "testing"}
Hashed == {"ensure", "stale", "prepare", "start", "starting"}

SourcesHold(r) ==
  /\ r.step = "building" => r.front \in r.fronts /\ r.during \subseteq r.fronts
  /\ r.step \in Built => dist.whole /\ Current(crossed.front, r.fronts, dist.from)
  /\ r.step = "testing" => r.tested.dist = dist
  /\ r.step \in Hashed => r.back \in r.backs

\* A living server is the one of the session, or is being started; while it has
\* its process, the tests run on what was asked for.
ServerHeld(r) ==
  /\ r.step \in {"prepare", "start", "starting"} => session = NoSession
  /\ r.step # "starting" /\ server.launcher = "alive" => session # NoSession
  /\ session # NoSession /\ server.launcher = "alive" =>
       MadeFrom(crossed.back, session.back, server.loaded) /\ server.suite = session.suite
  /\ r.step = "starting" /\ server.launcher = "alive" =>
       MadeFrom(crossed.back, r.back, server.loaded) /\ server.suite = r.suite
  /\ r.step = "playwright" /\ server.child =>
       Current(crossed.back, r.backs, server.loaded) /\ server.suite = r.suite
  /\ r.step = "testing" /\ server.child =>
       Current(crossed.back, r.backs, r.tested.back) /\ r.tested.own

RowsSeeded(r) ==
  /\ r.step \in {"start", "starting", "playwright"} => rows[r.suite] = "seeded"
  /\ r.step = "testing" => r.tested.rows = "seeded"

\* A failed cleanup is in one of the notes that flip the verdict: the budget of
\* the second attempt is spent before the first note could be overwritten.
FailureNoted(r) ==
  r.step # "idle" => (r.failed => r.first \/ r.note) /\ (r.first => r.retry) /\ (r.retry => recovered)

Attempted(r) == Begun(r) /\ SourcesHold(r) /\ ServerHeld(r) /\ RowsSeeded(r) /\ FailureNoted(r)

GreenHolds == GreenSawTheSources /\ GreenStartedFromSeed /\ GreenIsClean

RuntimeInv == RuntimeTypes /\ RecordHolds /\ Attempted(run) /\ GreenHolds

-----------------------------------------------------------------------------
(* Types *)

\* A verdict ends the call; it is red unless green and unflipped.
LEMMA AnswerType ==
  ASSUME run \in Run, NEW v \in {"green", "red"}, Answer(v)
  PROVE  /\ run' \in Run /\ run'.step = "idle" /\ run'.verdict \in {v, "red"}
         /\ run'.verdict = "green" => ~run.first /\ ~run.note
         /\ run'.tested = run.tested /\ run'.failed = run.failed
         /\ run'.fronts = run.fronts /\ run'.backs = run.backs
<1>. DEFINE w == IF v = "green" /\ Flipped THEN "red" ELSE v
<1>1. run' = [run EXCEPT !.step = "idle", !.verdict = w]
  BY DEF Answer
<1>2. w \in {"green", "red"} /\ w \in {v, "red"} /\ (w = "green" => ~run.first /\ ~run.note)
  BY DEF Flipped
<1>. HIDE DEF w
<1>3. "idle" \in AttemptStep
  BY DEF AttemptStep
<1>. QED BY <1>1, <1>2, <1>3 DEF Run

\* What a teardown leaves is a server, or none.
LEMMA TeardownType ==
  ASSUME server \in Server
  PROVE  /\ NoServer \in Server /\ AfterTeardown \in Server
         /\ AfterTeardown.launcher # "alive"
         /\ Terminate => server' \in Server /\ session' = NoSession
<1>1. NoServer \in Server /\ NoServer.launcher = "none"
  BY DEF NoServer, Server, Database, Text
<1>2. AfterTeardown \in Server /\ AfterTeardown.launcher # "alive"
  BY <1>1 DEF AfterTeardown
<1>. QED BY <1>1, <1>2 DEF Terminate

\* A session that is given up is one.
LEMMA NoSessionType == NoSession \in [suite : Database, back : Text]
BY DEF NoSession, Database, Text

\* A call starts as a call.
LEMMA NoRunType == NoRun \in Run
<1>1. NoRun.tested \in Tests
  BY DEF NoRun, NoDist, Tests, Output, Text
<1>. QED BY <1>1 DEF NoRun, Run, AttemptStep, Database, Tests, Text

\* What a build leaves is an output, and what it removes was one.
LEMMA OutputType ==
  ASSUME NEW v \in Text
  PROVE  /\ NoDist \in Output /\ PartialDist(v) \in Output
         /\ [from |-> v, whole |-> TRUE] \in Output
         /\ NoRecord \in [src : Text, dist : Output] /\ NoRecord.dist = NoDist
BY DEF NoDist, PartialDist, NoRecord, Output, Text

-----------------------------------------------------------------------------
(* Current contents *)

\* What is current stays so while the history and the crossings only grow.
LEMMA CurrentGrows ==
  ASSUME NEW m, NEW n, NEW S, NEW T, m \subseteq n, S \subseteq T, NEW c, Current(m, S, c)
  PROVE  Current(n, T, c)
BY DEF Current, Mistaken

\* So does what an artefact was made from.
LEMMA MadeFromGrows ==
  ASSUME NEW m, NEW n, m \subseteq n, NEW h, NEW c, MadeFrom(m, h, c)
  PROVE  MadeFrom(n, h, c)
BY DEF MadeFrom

\* An artefact that is named by a content of the call is current for it.
LEMMA MadeIsCurrent ==
  ASSUME NEW m, NEW S, NEW h \in S, NEW c, MadeFrom(m, h, c)
  PROVE  Current(m, S, c)
BY DEF MadeFrom, Current, Mistaken

\* What is made after a hash is recorded as made from it, crossed or not.
LEMMA CrossMade ==
  ASSUME crossed \in [front : SUBSET (Text \X Text), back : SUBSET (Text \X Text)],
         NEW side \in {"front", "back"}, NEW h \in Text, NEW c \in Text, Cross(side, h, c)
  PROVE  /\ crossed' \in [front : SUBSET (Text \X Text), back : SUBSET (Text \X Text)]
         /\ crossed.front \subseteq crossed'.front /\ crossed.back \subseteq crossed'.back
         /\ side = "front" => MadeFrom(crossed'.front, h, c) /\ crossed'.back = crossed.back
         /\ side = "back" => MadeFrom(crossed'.back, h, c) /\ crossed'.front = crossed.front
BY DEF Cross, MadeFrom

-----------------------------------------------------------------------------
(* The steps *)

\* A new call owes nothing yet: what it will be judged by is the sources of now.
LEMMA StartGroupAttempt ==
  ASSUME RuntimeInv, NEW s \in Suite, StartGroup(s)
  PROVE  RuntimeInv'
<1>. USE DEF StartGroup, files, Running
<1>1. RuntimeTypes'
  <2>1. run' \in Run
    BY NoRunType DEF RuntimeInv, RuntimeTypes, Run, AttemptStep, Database
  <2>. QED BY <2>1 DEF RuntimeInv, RuntimeTypes
<1>2. RecordHolds' /\ Attempted(run)'
  BY DEF RuntimeInv, RuntimeTypes, RecordHolds, Attempted, Begun, SourcesHold, Built,
         Hashed, ServerHeld, RowsSeeded, FailureNoted, NoRun
<1>3. GreenHolds'
  BY DEF RuntimeInv, GreenHolds, GreenSawTheSources, GreenStartedFromSeed, GreenIsClean,
         NoRun
<1>. QED BY <1>1, <1>2, <1>3 DEF RuntimeInv

\* An output is reused when the record vouches for it and for the sources of now.
LEMMA ReuseDistAttempt ==
  ASSUME RuntimeInv, ReuseDist
  PROVE  RuntimeInv'
<1>. USE DEF ReuseDist, counters, files, Goto, Vouched, NoDist
<1>1. RuntimeTypes'
  BY DEF RuntimeInv, RuntimeTypes, Database, AttemptStep, Server, Run
<1>2. MadeFrom(crossed.front, front, dist.from) /\ front \in run.fronts
  BY DEF RuntimeInv, RecordHolds, Attempted, Begun
<1>3. Current(crossed.front, run.fronts, dist.from)
  BY <1>2, MadeIsCurrent
<1>4. RecordHolds' /\ Attempted(run)'
  BY <1>3 DEF RuntimeInv, RuntimeTypes, RecordHolds, Attempted, Begun, SourcesHold, Built,
         Hashed, ServerHeld, RowsSeeded, FailureNoted, Output, Server, Run
<1>5. GreenHolds'
  BY DEF RuntimeInv, GreenHolds, GreenSawTheSources, GreenStartedFromSeed, GreenIsClean
<1>. QED BY <1>1, <1>4, <1>5 DEF RuntimeInv

\* The sources are hashed no earlier than the call began, and the old record is gone.
LEMMA StartBuildAttempt ==
  ASSUME RuntimeInv, StartBuild
  PROVE  RuntimeInv'
<1>. USE DEF StartBuild, counters, ClearRecord, NoRecord, NoDist,
             Vouched
<1>1. RuntimeTypes'
  <2>1. run' \in Run
    BY DEF RuntimeInv, RuntimeTypes, Run, AttemptStep, Text
  <2>2. record' \in [src : Text, dist : Output]
    BY DEF Output, Text
  <2>. QED BY <2>1, <2>2 DEF RuntimeInv, RuntimeTypes
<1>2. RecordHolds' /\ Attempted(run)'
  BY DEF RuntimeInv, RuntimeTypes, RecordHolds, Attempted, Begun, SourcesHold, Built,
         Hashed, ServerHeld, RowsSeeded, FailureNoted
<1>3. GreenHolds'
  BY DEF RuntimeInv, GreenHolds, GreenSawTheSources, GreenStartedFromSeed, GreenIsClean
<1>. QED BY <1>1, <1>2, <1>3 DEF RuntimeInv

\* The build read sources at least as new as those hashed before it.
LEMMA FinishBuildAttempt ==
  ASSUME RuntimeInv, FinishBuild
  PROVE  RuntimeInv'
<1>. USE DEF counters, Goto
<1>0. PICK v \in run.during : dist' = [from |-> v, whole |-> TRUE]
                            /\ RecordBuild(dist') /\ Cross("front", run.front, v)
  BY DEF FinishBuild
<1>1. run.front \in Text /\ v \in Text /\ run.front \in run.fronts /\ v \in run.fronts
  BY <1>0 DEF RuntimeInv, RuntimeTypes, Run, Attempted, SourcesHold, FinishBuild, Text
<1>2. /\ crossed' \in [front : SUBSET (Text \X Text), back : SUBSET (Text \X Text)]
      /\ crossed.back = crossed'.back /\ MadeFrom(crossed'.front, run.front, v)
      /\ crossed.front \subseteq crossed'.front
  BY <1>0, <1>1, CrossMade DEF RuntimeInv, RuntimeTypes
<1>3. Current(crossed'.front, run.fronts, v)
  BY <1>1, <1>2, MadeIsCurrent
<1>4. RuntimeTypes'
  <2>1. dist' \in Output /\ record' \in [src : Text, dist : Output]
    BY <1>0, <1>1 DEF Output, RecordBuild
  <2>2. run' \in Run
    BY DEF FinishBuild, RuntimeInv, RuntimeTypes, Run, AttemptStep
  <2>. QED BY <1>2, <2>1, <2>2 DEF FinishBuild, RuntimeInv, RuntimeTypes
<1>5. RecordHolds'
  BY <1>0, <1>2 DEF RecordHolds, RecordBuild
<1>6. Attempted(run)'
  BY <1>0, <1>2, <1>3 DEF FinishBuild, RuntimeInv, RuntimeTypes, Attempted, Begun,
     SourcesHold, Built, Hashed, ServerHeld, RowsSeeded, FailureNoted, Run
<1>7. GreenHolds'
  BY DEF FinishBuild, RuntimeInv, RuntimeTypes, Attempted, Begun, GreenHolds,
         GreenSawTheSources, GreenStartedFromSeed, GreenIsClean, Run
<1>. QED BY <1>4, <1>5, <1>6, <1>7 DEF RuntimeInv

\* A build that fails ends the call with red.
LEMMA FailBuildAttempt ==
  ASSUME RuntimeInv, FailBuild
  PROVE  RuntimeInv'
<1>. USE DEF FailBuild
<1>1. RuntimeTypes'
  <2>1. run' \in Run
    BY AnswerType DEF RuntimeInv, RuntimeTypes
  <2>2. dist' \in Output
    <3>1. run.during \subseteq Text /\ "none" \in Text
      BY DEF RuntimeInv, RuntimeTypes, Run, Text
    <3>2. NoDist \in Output /\ \A v \in run.during : PartialDist(v) \in Output
      BY <3>1, OutputType
    <3>. QED BY <3>2 DEF RuntimeInv, RuntimeTypes
  <2>. QED BY <2>1, <2>2 DEF RuntimeInv, RuntimeTypes
<1>2. RecordHolds' /\ Attempted(run)'
  BY DEF RuntimeInv, RuntimeTypes, RecordHolds, Attempted, Begun, SourcesHold, Built,
         Hashed, ServerHeld, RowsSeeded, FailureNoted, Answer, Flipped
<1>3. GreenHolds'
  BY DEF RuntimeInv, GreenHolds, GreenSawTheSources, GreenStartedFromSeed, GreenIsClean,
         Answer, Flipped
<1>. QED BY <1>1, <1>2, <1>3 DEF RuntimeInv

\* The version the server is asked for is one that exists.
LEMMA HashBackendAttempt ==
  ASSUME RuntimeInv, HashBackend
  PROVE  RuntimeInv'
<1>. USE DEF HashBackend, counters, files
<1>1. RuntimeTypes'
  BY DEF RuntimeInv, RuntimeTypes, Database, AttemptStep, Server, Run, Text
<1>2. RecordHolds' /\ Attempted(run)'
  BY DEF RuntimeInv, RuntimeTypes, RecordHolds, Attempted, Begun, SourcesHold, Built,
         Hashed, ServerHeld, RowsSeeded, FailureNoted
<1>3. GreenHolds'
  BY DEF RuntimeInv, GreenHolds, GreenSawTheSources, GreenStartedFromSeed, GreenIsClean
<1>. QED BY <1>1, <1>2, <1>3 DEF RuntimeInv

\* The server that is reused was loaded no earlier than the version asked for.
LEMMA ReuseServerAttempt ==
  ASSUME RuntimeInv, ReuseServer
  PROVE  RuntimeInv'
<1>. USE DEF ReuseServer, counters, files, Goto, Serving, Reusable
<1>1. RuntimeTypes'
  BY DEF RuntimeInv, RuntimeTypes, Output, Content, Database, AttemptStep, Server, Run
<1>2. run.back \in run.backs /\ MadeFrom(crossed.back, run.back, server.loaded)
  BY DEF RuntimeInv, RuntimeTypes, Attempted, SourcesHold, Hashed, ServerHeld, Begun,
         NoSession
<1>3. Current(crossed.back, run.backs, server.loaded)
  BY <1>2, MadeIsCurrent
<1>4. RecordHolds' /\ Attempted(run)'
  BY <1>3 DEF RuntimeInv, RuntimeTypes, RecordHolds, Attempted, Begun, SourcesHold, Built,
         Hashed, ServerHeld, RowsSeeded, FailureNoted, Server, Run
<1>5. GreenHolds'
  BY DEF RuntimeInv, GreenHolds, GreenSawTheSources, GreenStartedFromSeed, GreenIsClean
<1>. QED BY <1>1, <1>4, <1>5 DEF RuntimeInv

\* A reset that fails leaves the start to a fresh server.
LEMMA ResetFailsAttempt ==
  ASSUME RuntimeInv, ResetFails
  PROVE  RuntimeInv'
<1>. USE DEF ResetFails, files, Goto, Serving, Reusable
<1>1. RuntimeTypes'
  <2>1. run' \in Run
    BY DEF RuntimeInv, RuntimeTypes, Run, AttemptStep
  <2>2. rows' \in [Suite -> Content]
    BY DEF RuntimeInv, RuntimeTypes, Attempted, Begun, Content
  <2>. QED BY <2>1, <2>2 DEF RuntimeInv, RuntimeTypes
<1>2. RecordHolds' /\ Attempted(run)'
  BY DEF RuntimeInv, RuntimeTypes, RecordHolds, Attempted, Begun, SourcesHold, Built,
         Hashed, ServerHeld, RowsSeeded, FailureNoted
<1>3. GreenHolds'
  BY DEF RuntimeInv, GreenHolds, GreenSawTheSources, GreenStartedFromSeed, GreenIsClean
<1>. QED BY <1>1, <1>2, <1>3 DEF RuntimeInv

\* Without a server to reuse the stale one is taken down.
LEMMA NotReusableAttempt ==
  ASSUME RuntimeInv, NotReusable
  PROVE  RuntimeInv'
<1>. USE DEF NotReusable, counters, files, Goto, Serving, Reusable
<1>1. RuntimeTypes'
  BY DEF RuntimeInv, RuntimeTypes, Database, AttemptStep, Server, Run
<1>2. RecordHolds' /\ Attempted(run)'
  BY DEF RuntimeInv, RuntimeTypes, RecordHolds, Attempted, Begun, SourcesHold, Built,
         Hashed, ServerHeld, RowsSeeded, FailureNoted
<1>3. GreenHolds'
  BY DEF RuntimeInv, GreenHolds, GreenSawTheSources, GreenStartedFromSeed, GreenIsClean
<1>. QED BY <1>1, <1>2, <1>3 DEF RuntimeInv

\* The stale server dies or is not alive; a failed cleanup is noted.
LEMMA TerminateStaleAttempt ==
  ASSUME RuntimeInv, TerminateStale
  PROVE  RuntimeInv'
<1>. USE DEF TerminateStale, counters, files
<1>1. RuntimeTypes'
  <2>1. (run.note \/ CleanupFailed) \in BOOLEAN /\ (run.failed \/ CleanupFailed) \in BOOLEAN
    OBVIOUS
  <2>2. run' \in Run
    BY <2>1 DEF RuntimeInv, RuntimeTypes, Run, AttemptStep
  <2>3. server' \in Server /\ session' \in [suite : Database, back : Text]
    BY TeardownType, NoSessionType DEF RuntimeInv, RuntimeTypes
  <2>. QED BY <2>2, <2>3 DEF RuntimeInv, RuntimeTypes
<1>2. RecordHolds' /\ Attempted(run)'
  BY DEF RuntimeInv, RuntimeTypes, RecordHolds, Attempted, Begun, SourcesHold, Built,
         Hashed, ServerHeld, RowsSeeded, FailureNoted, Run, CleanupFailed, TeardownFails,
         Captured, Terminate, AfterTeardown, NoServer
<1>3. GreenHolds'
  BY DEF RuntimeInv, RuntimeTypes, Attempted, Begun, SourcesHold, ServerHeld, RowsSeeded,
         FailureNoted, GreenHolds, GreenSawTheSources, GreenStartedFromSeed, GreenIsClean,
         CleanupFailed, TeardownFails, Captured, Terminate, AfterTeardown, NoServer
<1>. QED BY <1>1, <1>2, <1>3 DEF RuntimeInv

\* A prepared database is seeded.
LEMMA PrepareDatabaseAttempt ==
  ASSUME RuntimeInv, PrepareDatabase
  PROVE  RuntimeInv'
<1>. USE DEF PrepareDatabase, counters, files, Goto
<1>1. RuntimeTypes'
  BY DEF RuntimeInv, RuntimeTypes, Output, Content, Database, AttemptStep, Server, Run
<1>2. RecordHolds' /\ Attempted(run)'
  BY DEF RuntimeInv, RuntimeTypes, RecordHolds, Attempted, Begun, SourcesHold, Built,
         Hashed, ServerHeld, RowsSeeded, FailureNoted
<1>3. GreenHolds'
  BY DEF RuntimeInv, GreenHolds, GreenSawTheSources, GreenStartedFromSeed, GreenIsClean
<1>. QED BY <1>1, <1>2, <1>3 DEF RuntimeInv

\* A preparation is tried again or ends the call with red.
LEMMA PrepareFailsAttempt ==
  ASSUME RuntimeInv, PrepareFails
  PROVE  RuntimeInv'
<1>. USE DEF PrepareFails, files, PrepareAttempts
<1>1. RuntimeTypes'
  <2>1. run' \in Run
    <3>1. CASE run.tries + 1 < PrepareAttempts
      BY <3>1 DEF RuntimeInv, RuntimeTypes, Run
    <3>2. CASE ~(run.tries + 1 < PrepareAttempts)
      BY <3>2, AnswerType DEF RuntimeInv, RuntimeTypes
    <3>. QED BY <3>1, <3>2
  <2>2. rows' \in [Suite -> Content]
    BY DEF RuntimeInv, RuntimeTypes, Content
  <2>. QED BY <2>1, <2>2 DEF RuntimeInv, RuntimeTypes
<1>2. RecordHolds' /\ Attempted(run)'
  <2>1. RecordHolds'
    BY DEF RuntimeInv, RecordHolds
  <2>2. CASE run.tries + 1 < PrepareAttempts
    <3>1. run' = [run EXCEPT !.tries = @ + 1] /\ run' \in Run
      BY <1>1, <2>2 DEF RuntimeTypes
    <3>. QED BY <2>1, <3>1 DEF RuntimeInv, RuntimeTypes, Attempted, Begun, SourcesHold,
                               ServerHeld, RowsSeeded, FailureNoted
  <2>3. CASE ~(run.tries + 1 < PrepareAttempts)
    <3>1. run'.step = "idle" /\ Answer("red")
      BY <2>3, AnswerType DEF RuntimeInv, RuntimeTypes
    <3>. QED BY <2>1, <3>1 DEF RuntimeInv, RuntimeTypes, Attempted, Begun, SourcesHold,
                               Built, Hashed, ServerHeld, RowsSeeded, FailureNoted
  <2>. QED BY <2>2, <2>3
<1>3. GreenHolds'
  BY DEF RuntimeInv, RuntimeTypes, Run, GreenHolds, GreenSawTheSources,
         GreenStartedFromSeed, GreenIsClean, Answer, Flipped
<1>. QED BY <1>1, <1>2, <1>3 DEF RuntimeInv

\* A start that is refused ends the call with red.
LEMMA StartRefusedAttempt ==
  ASSUME RuntimeInv, StartRefused
  PROVE  RuntimeInv'
<1>. USE DEF StartRefused, counters, files, Answer, Flipped,
             Occupied
<1>1. RuntimeTypes'
  BY DEF RuntimeInv, RuntimeTypes, Database, AttemptStep, Server, Run
<1>2. RecordHolds' /\ Attempted(run)'
  BY DEF RuntimeInv, RuntimeTypes, RecordHolds, Attempted, Begun, SourcesHold, Built,
         Hashed, ServerHeld, RowsSeeded, FailureNoted
<1>3. GreenHolds'
  BY DEF RuntimeInv, GreenHolds, GreenSawTheSources, GreenStartedFromSeed, GreenIsClean
<1>. QED BY <1>1, <1>2, <1>3 DEF RuntimeInv

\* A new server loads sources at least as new as the version asked for.
LEMMA StartServerAttempt ==
  ASSUME RuntimeInv, StartServer
  PROVE  RuntimeInv'
<1>. USE DEF counters, files, Goto, Occupied
<1>1. run.back \in Text /\ back \in Text /\ run.back \in run.backs
  BY DEF StartServer, RuntimeInv, RuntimeTypes, Run, Attempted, SourcesHold, Hashed, Text
<1>2. /\ crossed' \in [front : SUBSET (Text \X Text), back : SUBSET (Text \X Text)]
      /\ crossed.front = crossed'.front /\ MadeFrom(crossed'.back, run.back, back)
  BY <1>1, CrossMade DEF StartServer, RuntimeInv, RuntimeTypes
<1>3. RuntimeTypes'
  <2>1. server' \in Server
    BY <1>1 DEF StartServer, RuntimeInv, RuntimeTypes, Server, Database, Run
  <2>2. run' \in Run
    BY DEF StartServer, RuntimeInv, RuntimeTypes, Run, AttemptStep
  <2>. QED BY <1>2, <2>1, <2>2 DEF StartServer, RuntimeInv, RuntimeTypes
<1>4. RecordHolds'
  BY <1>2 DEF StartServer, RuntimeInv, RecordHolds
<1>5. Attempted(run)'
  BY <1>2 DEF StartServer, RuntimeInv, RuntimeTypes, Attempted, Begun, SourcesHold, Built,
     Hashed, ServerHeld, RowsSeeded, FailureNoted, Run
<1>6. GreenHolds'
  BY DEF StartServer, RuntimeInv, RuntimeTypes, Attempted, Begun, GreenHolds,
         GreenSawTheSources, GreenStartedFromSeed, GreenIsClean, Run
<1>. QED BY <1>3, <1>4, <1>5, <1>6 DEF RuntimeInv

\* The server that answers is the session's.
LEMMA ServerReadyAttempt ==
  ASSUME RuntimeInv, ServerReady
  PROVE  RuntimeInv'
<1>. USE DEF ServerReady, counters, files, Goto
<1>1. RuntimeTypes'
  BY DEF RuntimeInv, RuntimeTypes, Database, AttemptStep, Server, Run
<1>2. Current(crossed.back, run.backs, server.loaded)
  BY MadeIsCurrent DEF RuntimeInv, Attempted, SourcesHold, Hashed, ServerHeld
<1>3. run.back # "none"
  BY SourceAssumption DEF RuntimeInv, RuntimeTypes, Attempted, SourcesHold, Hashed, Run
<1>4. session' # NoSession
  BY <1>3 DEF NoSession
<1>5. RecordHolds' /\ Attempted(run)'
  BY <1>2, <1>4 DEF RuntimeInv, RuntimeTypes, RecordHolds, Attempted, Begun, SourcesHold, Built,
         Hashed, ServerHeld, RowsSeeded, FailureNoted, Server, Run
<1>6. GreenHolds'
  BY DEF RuntimeInv, GreenHolds, GreenSawTheSources, GreenStartedFromSeed, GreenIsClean
<1>. QED BY <1>1, <1>5, <1>6 DEF RuntimeInv

\* A server that never answered is taken down.
LEMMA ServerNotReadyAttempt ==
  ASSUME RuntimeInv, ServerNotReady
  PROVE  RuntimeInv'
<1>. USE DEF ServerNotReady, files
<1>1. RuntimeTypes'
  <2>1. run' \in Run
    BY AnswerType DEF RuntimeInv, RuntimeTypes
  <2>2. server' \in Server
    BY TeardownType DEF RuntimeInv, RuntimeTypes
  <2>. QED BY <2>1, <2>2 DEF RuntimeInv, RuntimeTypes
<1>2. RecordHolds' /\ Attempted(run)'
  BY DEF RuntimeInv, RuntimeTypes, RecordHolds, Attempted, Begun, SourcesHold, Built,
         Hashed, ServerHeld, RowsSeeded, FailureNoted,
         Answer, Flipped, AfterTeardown, NoServer
<1>3. GreenHolds'
  BY DEF RuntimeInv, GreenHolds, GreenSawTheSources, GreenStartedFromSeed, GreenIsClean,
         Answer, Flipped
<1>. QED BY <1>1, <1>2, <1>3 DEF RuntimeInv

\* The tests start on the output, the server and the rows of this call.
LEMMA StartPlaywrightAttempt ==
  ASSUME RuntimeInv, StartPlaywright
  PROVE  RuntimeInv'
<1>. USE DEF StartPlaywright, counters, files
<1>1. RuntimeTypes'
  <2>1. Tested \in Tests
    BY DEF Tested, RuntimeInv, RuntimeTypes, Attempted, Begun, Server, Tests
  <2>2. run' \in Run
    BY <2>1 DEF RuntimeInv, RuntimeTypes, Run, AttemptStep
  <2>. QED BY <2>2 DEF RuntimeInv, RuntimeTypes
<1>2. RecordHolds' /\ Attempted(run)'
  BY DEF RuntimeInv, RuntimeTypes, RecordHolds, Attempted, Begun, SourcesHold, Built,
         Hashed, ServerHeld, RowsSeeded, FailureNoted, Run, Tested
<1>3. GreenHolds'
  BY DEF RuntimeInv, RuntimeTypes, Attempted, Begun, SourcesHold, ServerHeld, RowsSeeded,
         FailureNoted, GreenHolds, GreenSawTheSources, GreenStartedFromSeed, GreenIsClean,
         Tested
<1>. QED BY <1>1, <1>2, <1>3 DEF RuntimeInv

\* The verdict is green only for a server that has its process.
LEMMA FinishPlaywrightAttempt ==
  ASSUME RuntimeInv, NEW v \in {"green", "red"}, FinishPlaywright(v)
  PROVE  RuntimeInv'
<1>. USE DEF FinishPlaywright, counters, files
<1>1. RuntimeTypes'
  <2>1. run' \in Run
    BY AnswerType DEF RuntimeInv, RuntimeTypes
  <2>2. rows' \in [Suite -> Content]
    BY DEF RuntimeInv, RuntimeTypes, Content
  <2>. QED BY <2>1, <2>2 DEF RuntimeInv, RuntimeTypes
<1>2. RecordHolds' /\ Attempted(run)'
  BY DEF RuntimeInv, RuntimeTypes, RecordHolds, Attempted, Begun, SourcesHold, Built,
         Hashed, ServerHeld, RowsSeeded, FailureNoted, Answer, Flipped
<1>3. GreenHolds'
  BY DEF RuntimeInv, RuntimeTypes, RecordHolds, Attempted, Begun, SourcesHold, Built,
         Hashed, ServerHeld, RowsSeeded, FailureNoted, GreenHolds, GreenSawTheSources,
         GreenStartedFromSeed, GreenIsClean, Answer, Flipped, Current, Run
<1>. QED BY <1>1, <1>2, <1>3 DEF RuntimeInv

\* The second attempt carries the note of the first.
LEMMA RecoverStaticHostAttempt ==
  ASSUME RuntimeInv, RecoverStaticHost
  PROVE  RuntimeInv'
<1>. USE DEF RecoverStaticHost, counters, files
<1>1. RuntimeTypes'
  <2>1. CleanupFailed \in BOOLEAN /\ (run.failed \/ CleanupFailed) \in BOOLEAN
    BY DEF CleanupFailed
  <2>2. run' \in Run
    BY <2>1 DEF RuntimeInv, RuntimeTypes, Run, AttemptStep
  <2>3. server' \in Server /\ session' \in [suite : Database, back : Text]
    BY TeardownType, NoSessionType DEF RuntimeInv, RuntimeTypes
  <2>4. rows' \in [Suite -> Content]
    BY DEF RuntimeInv, RuntimeTypes, Content
  <2>. QED BY <2>2, <2>3, <2>4 DEF RuntimeInv, RuntimeTypes
<1>2. RecordHolds' /\ Attempted(run)'
  BY DEF RuntimeInv, RuntimeTypes, RecordHolds, Attempted, Begun, SourcesHold, Built,
         Hashed, ServerHeld, RowsSeeded, FailureNoted, CleanupFailed, TeardownFails, Captured,
         Terminate, AfterTeardown, NoServer
<1>3. GreenHolds'
  BY DEF RuntimeInv, RuntimeTypes, Attempted, Begun, SourcesHold, ServerHeld, RowsSeeded,
         FailureNoted, GreenHolds, GreenSawTheSources, GreenStartedFromSeed, GreenIsClean,
         CleanupFailed, TeardownFails, Captured, Terminate, AfterTeardown, NoServer
<1>. QED BY <1>1, <1>2, <1>3 DEF RuntimeInv

\* A shutdown takes the session's server down.
LEMMA ShutdownAttempt ==
  ASSUME RuntimeInv, Shutdown
  PROVE  RuntimeInv'
<1>. USE DEF Shutdown, counters, files, Terminate, AfterTeardown,
             NoServer, NoSession, Running
<1>1. RuntimeTypes'
  BY DEF RuntimeInv, RuntimeTypes, Database, AttemptStep, Server, Text
<1>2. RecordHolds' /\ Attempted(run)'
  BY DEF RuntimeInv, RuntimeTypes, RecordHolds, Attempted, Begun, SourcesHold, Built,
         Hashed, ServerHeld, RowsSeeded, FailureNoted
<1>3. GreenHolds'
  BY DEF RuntimeInv, GreenHolds, GreenSawTheSources, GreenStartedFromSeed, GreenIsClean
<1>. QED BY <1>1, <1>2, <1>3 DEF RuntimeInv

\* An edit of the frontend joins the history of the call, whatever it restores.
LEMMA EditFrontAttempt ==
  ASSUME RuntimeInv, NEW c \in Source, EditFront(c)
  PROVE  RuntimeInv'
<1>. USE DEF EditFront, Running
<1>0. run \in Run
  BY DEF RuntimeInv, RuntimeTypes
<1>1. /\ run' \in Run /\ run'.step = run.step /\ run'.verdict = run.verdict
      /\ run'.suite = run.suite /\ run'.retry = run.retry /\ run'.front = run.front
      /\ run'.back = run.back /\ run'.backs = run.backs /\ run'.first = run.first
      /\ run'.note = run.note /\ run'.failed = run.failed /\ run'.tested = run.tested
      /\ run.fronts \subseteq run'.fronts
      /\ run.step = "idle" => run' = run
      /\ run.step # "idle" => c \in run'.fronts
      /\ run.during \subseteq run.fronts => run'.during \subseteq run'.fronts
  BY <1>0 DEF Run
<1>2. \A x : Current(crossed.front, run.fronts, x) => Current(crossed.front, run'.fronts, x)
  BY <1>1, CurrentGrows
<1>3. RuntimeTypes'
  BY <1>1 DEF RuntimeInv, RuntimeTypes
<1>4. RecordHolds' /\ Attempted(run)'
  BY <1>1, <1>2 DEF RuntimeInv, RecordHolds, Attempted, Begun, SourcesHold, Built,
     Hashed, ServerHeld, RowsSeeded, FailureNoted
<1>5. GreenHolds'
  BY <1>1 DEF RuntimeInv, Attempted, Begun, GreenHolds, GreenSawTheSources,
     GreenStartedFromSeed, GreenIsClean
<1>. QED BY <1>3, <1>4, <1>5 DEF RuntimeInv

\* So does an edit of the backend.
LEMMA EditBackAttempt ==
  ASSUME RuntimeInv, NEW c \in Source, EditBack(c)
  PROVE  RuntimeInv'
<1>. USE DEF EditBack, Running
<1>0. run \in Run
  BY DEF RuntimeInv, RuntimeTypes
<1>1. /\ run' \in Run /\ run'.step = run.step /\ run'.verdict = run.verdict
      /\ run'.suite = run.suite /\ run'.retry = run.retry /\ run'.front = run.front
      /\ run'.back = run.back /\ run'.fronts = run.fronts /\ run'.first = run.first
      /\ run'.note = run.note /\ run'.failed = run.failed /\ run'.tested = run.tested
      /\ run'.during = run.during /\ run.backs \subseteq run'.backs
      /\ run.step = "idle" => run' = run
      /\ run.step # "idle" => c \in run'.backs
  BY <1>0 DEF Run
<1>2. \A x : Current(crossed.back, run.backs, x) => Current(crossed.back, run'.backs, x)
  BY <1>1, CurrentGrows
<1>3. RuntimeTypes'
  BY <1>1 DEF RuntimeInv, RuntimeTypes
<1>4. RecordHolds' /\ Attempted(run)'
  BY <1>1, <1>2 DEF RuntimeInv, RecordHolds, Attempted, Begun, SourcesHold, Built,
     Hashed, ServerHeld, RowsSeeded, FailureNoted
<1>5. GreenHolds'
  BY <1>1 DEF RuntimeInv, Attempted, Begun, GreenHolds, GreenSawTheSources,
     GreenStartedFromSeed, GreenIsClean
<1>. QED BY <1>3, <1>4, <1>5 DEF RuntimeInv

\* run_build writes no record: the one there is speaks of an earlier build.
LEMMA RunBuildAttempt ==
  ASSUME RuntimeInv, RunBuild
  PROVE  RuntimeInv'
<1>. USE DEF RunBuild, Running
<1>1. RuntimeTypes'
  <2>1. dist' \in Output
    BY OutputType DEF RuntimeInv, RuntimeTypes, Text
  <2>2. record' \in [src : Text, dist : Output]
    BY OutputType DEF RuntimeInv, RuntimeTypes
  <2>. QED BY <2>1, <2>2 DEF RuntimeInv, RuntimeTypes
<1>2. RecordHolds' /\ Attempted(run)'
  <2>1. RecordHolds'
    BY OutputType DEF RuntimeInv, RecordHolds, Text
  <2>2. Attempted(run)'
    BY DEF RuntimeInv, RuntimeTypes, Attempted, Begun, SourcesHold, Built, Hashed,
           ServerHeld, RowsSeeded, FailureNoted
  <2>. QED BY <2>1, <2>2
<1>3. GreenHolds'
  BY DEF RuntimeInv, GreenHolds, GreenSawTheSources, GreenStartedFromSeed, GreenIsClean
<1>. QED BY <1>1, <1>2, <1>3 DEF RuntimeInv

\* A fault makes no server alive.
LEMMA ProcessFaultAttempt ==
  ASSUME RuntimeInv, ProcessFault
  PROVE  RuntimeInv'
<1>. USE DEF ProcessFault, files
<1>1. RuntimeTypes'
  <2>1. server' \in Server
    BY TeardownType DEF RuntimeInv, RuntimeTypes, Server
  <2>. QED BY <2>1 DEF RuntimeInv, RuntimeTypes
<1>2. RecordHolds' /\ Attempted(run)'
  BY DEF RuntimeInv, RuntimeTypes, RecordHolds, Attempted, Begun, SourcesHold, Built,
         Hashed, ServerHeld, RowsSeeded, FailureNoted, Server, NoServer
<1>3. GreenHolds'
  BY DEF RuntimeInv, GreenHolds, GreenSawTheSources, GreenStartedFromSeed, GreenIsClean,
         NoServer
<1>. QED BY <1>1, <1>2, <1>3 DEF RuntimeInv

\* An orphan leaves a dead launcher behind.
LEMMA OrphanExitsAttempt ==
  ASSUME RuntimeInv, OrphanExits
  PROVE  RuntimeInv'
<1>. USE DEF OrphanExits, counters, files
<1>1. RuntimeTypes'
  <2>1. server' \in Server
    BY TeardownType DEF RuntimeInv, RuntimeTypes, Server
  <2>. QED BY <2>1 DEF RuntimeInv, RuntimeTypes
<1>2. RecordHolds' /\ Attempted(run)'
  BY DEF RuntimeInv, RuntimeTypes, RecordHolds, Attempted, Begun, SourcesHold, Built,
         Hashed, ServerHeld, RowsSeeded, FailureNoted, NoServer
<1>3. GreenHolds'
  BY DEF RuntimeInv, GreenHolds, GreenSawTheSources, GreenStartedFromSeed, GreenIsClean,
         NoServer
<1>. QED BY <1>1, <1>2, <1>3 DEF RuntimeInv

\* Another program changes nothing of ours.
LEMMA ForeignProcessAttempt ==
  ASSUME RuntimeInv, ForeignProcess
  PROVE  RuntimeInv'
<1>. USE DEF ForeignProcess, counters, files
<1>1. RuntimeTypes'
  BY DEF RuntimeInv, RuntimeTypes
<1>2. RecordHolds' /\ Attempted(run)'
  BY DEF RuntimeInv, RuntimeTypes, RecordHolds, Attempted, Begun, SourcesHold, ServerHeld,
         RowsSeeded, FailureNoted
<1>3. GreenHolds'
  BY DEF RuntimeInv, GreenHolds, GreenSawTheSources, GreenStartedFromSeed, GreenIsClean,
         Occupied
<1>. QED BY <1>1, <1>2, <1>3 DEF RuntimeInv

-----------------------------------------------------------------------------
(* The theorems *)

\* Before the first call nothing is built, started or answered.
LEMMA RuntimeInvInit == Init => RuntimeInv
<1>. SUFFICES ASSUME Init PROVE RuntimeInv
  OBVIOUS
<1>1. RuntimeTypes
  <2>1. server \in Server
    BY DEF Init, NoServer, Server, Database, Text
  <2>2. rows \in [Suite -> Content]
    BY DEF Init, Content
  <2>3. dist \in Output /\ record \in [src : Text, dist : Output]
    BY OutputType DEF Init, Text
  <2>. QED BY <2>1, <2>2, <2>3, NoRunType, NoSessionType DEF Init, RuntimeTypes
<1>2. RecordHolds
  BY DEF Init, RecordHolds, NoRecord
<1>3. Attempted(run)
  BY DEF Init, NoRun, NoServer, Attempted, Begun, SourcesHold, Built, Hashed, ServerHeld,
         RowsSeeded, FailureNoted
<1>4. GreenHolds
  BY DEF Init, NoRun, GreenHolds, GreenSawTheSources, GreenStartedFromSeed, GreenIsClean
<1>. QED BY <1>1, <1>2, <1>3, <1>4 DEF RuntimeInv

\* Every step of a call, of the agent and of the machine keeps it.
LEMMA RuntimeInvStep == RuntimeInv /\ [Next]_vars => RuntimeInv'
<1>. SUFFICES ASSUME RuntimeInv, [Next]_vars PROVE RuntimeInv'
  OBVIOUS
<1>1. CASE Build
  BY <1>1, ReuseDistAttempt, StartBuildAttempt, FinishBuildAttempt, FailBuildAttempt DEF Build
<1>2. CASE Ensure
  BY <1>2, HashBackendAttempt, ReuseServerAttempt, ResetFailsAttempt, NotReusableAttempt,
     TerminateStaleAttempt, PrepareDatabaseAttempt, PrepareFailsAttempt, StartRefusedAttempt,
     StartServerAttempt, ServerReadyAttempt, ServerNotReadyAttempt DEF Ensure
<1>3. CASE StartPlaywright \/ RecoverStaticHost \/ \E v \in {"green", "red"} : FinishPlaywright(v)
  BY <1>3, StartPlaywrightAttempt, RecoverStaticHostAttempt, FinishPlaywrightAttempt
<1>4. CASE Environment
  BY <1>4, EditFrontAttempt, EditBackAttempt, RunBuildAttempt, ProcessFaultAttempt, OrphanExitsAttempt,
     ForeignProcessAttempt DEF Environment, Edit
<1>5. CASE Shutdown \/ \E s \in Suite : StartGroup(s)
  BY <1>5, ShutdownAttempt, StartGroupAttempt
<1>6. CASE UNCHANGED vars
  BY <1>6 DEF vars, files, counters, RuntimeInv, RuntimeTypes, RecordHolds, Attempted, Begun,
       SourcesHold, ServerHeld, RowsSeeded, FailureNoted, GreenHolds, GreenSawTheSources,
       GreenStartedFromSeed, GreenIsClean
<1>. QED BY <1>1, <1>2, <1>3, <1>4, <1>5, <1>6 DEF Next, Attempt

\* The invariant holds in every reachable state.
LEMMA RuntimeInvariant == Spec => []RuntimeInv
BY RuntimeInvInit, RuntimeInvStep, PTL DEF Spec

\* Every variable keeps its type (e2e_attempt.py, backend_runtime.py).
THEOREM RuntimeTypesCorrect == Spec => []RuntimeTypes
<1>1. RuntimeInv => RuntimeTypes
  BY DEF RuntimeInv
<1>. QED BY <1>1, RuntimeInvariant, PTL

\* For every suite, contents and bound: a green verdict comes from tests that saw a
\* whole frontend and a backend with contents the sources had since the agent asked,
\* but for an artefact an edit had crossed (_build_frontend_dist, BackendRuntime.ensure).
THEOREM GreenIsFresh == Spec => []GreenSawTheSources
<1>1. RuntimeInv => GreenSawTheSources
  BY DEF RuntimeInv, GreenHolds
<1>. QED BY <1>1, RuntimeInvariant, PTL

\* For every suite and bound: a green verdict comes from tests that started on the
\* seeded rows of their own database (reset_db, prepare_database).
THEOREM GreenIsSeeded == Spec => []GreenStartedFromSeed
<1>1. RuntimeInv => GreenStartedFromSeed
  BY DEF RuntimeInv, GreenHolds
<1>. QED BY <1>1, RuntimeInvariant, PTL

\* For every suite and bound: no teardown of a call that answered green had failed,
\* in either of its attempts (run_attempt, the cleanup marker).
THEOREM GreenMeansClean == Spec => []GreenIsClean
<1>1. RuntimeInv => GreenIsClean
  BY DEF RuntimeInv, GreenHolds
<1>. QED BY <1>1, RuntimeInvariant, PTL

\* For every suite and bound: between two calls a server whose launcher lives is
\* the session's, so that shutdown_e2e_runtime can take it down.
THEOREM ServersAreHeld == Spec => []LivingServerIsHeld
<1>1. RuntimeInv => LivingServerIsHeld
  BY DEF RuntimeInv, Attempted, ServerHeld, LivingServerIsHeld, Running
<1>. QED BY <1>1, RuntimeInvariant, PTL

-----------------------------------------------------------------------------
(* Calls of the model endpoint *)

\* What a call that is under way may have sent: the transport it is on decides
\* whether its free request is still to come.
Sent(k) == IF k.streamed THEN 2 * k.failed + 1 ELSE 2 * k.failed + 2

Paying(k) ==
  /\ k.streamed => HasStreamedLeg
  /\ k.pc = "asking" => k.sent <= Sent(k) /\ k.failed <= MaxRetries
  /\ k.pc = "waiting" => k.sent < Sent(k) /\ k.failed <= MaxRetries
  /\ k.sent <= 2 * (MaxRetries + 1)

PayingInv == TypeOK /\ \A c \in Caller : Paying(call[c])

\* A call that has only seen an endpoint with a base URL down is at its first request or waits
\* for a probe to succeed.
Seen(k) ==
  k.dead => /\ ~up
            /\ k.pc = "asking" => k.failed = 0 /\ k.verdict = "none"
            /\ k.pc = "waiting" => k.failed = 1 /\ k.probe /\ k.verdict = "none"
            /\ k.pc = "idle" => k.verdict = "outage"

SeenInv == TypeOK /\ (configured => \A c \in Caller : Seen(call[c]))

-----------------------------------------------------------------------------

\* A request leaves the call as it was, but for its count.
LEMMA SendEffect ==
  ASSUME TypeOK, NEW c \in Caller, NEW k \in Call, Send(c, k)
  PROVE  /\ call' \in [Caller -> Call] /\ asked' \in Nat
         /\ \A d \in Caller \ {c} : call'[d] = call[d]
         /\ call'[c].pc = "asking" /\ call'[c].sent = k.sent + 1
         /\ call'[c].streamed = k.streamed /\ call'[c].failed = k.failed
         /\ call'[c].dead = k.dead /\ call'[c].verdict = k.verdict
<1> DEFINE sent == [k EXCEPT !.pc = "asking", !.sent = @ + 1]
<1>1. /\ sent \in Call /\ sent.pc = "asking" /\ sent.sent = k.sent + 1
      /\ sent.streamed = k.streamed /\ sent.failed = k.failed
      /\ sent.dead = k.dead /\ sent.verdict = k.verdict
  <2> DEFINE n == k.sent + 1
  <2>1. n \in Nat
    BY DEF Call
  <2> HIDE DEF n
  <2>2. sent = [k EXCEPT !.pc = "asking", !.sent = n]
    BY DEF n
  <2> HIDE DEF sent
  <2>3. QED
    BY <2>1, <2>2 DEF Call, n
<1> HIDE DEF sent
<1>2. call' = [call EXCEPT ![c] = sent] /\ asked' \in Nat
  BY DEF Send, sent, TypeOK
<1>3. QED
  BY <1>1, <1>2 DEF TypeOK

\* The step of a call that sends nothing.
LEMMA BecomesEffect ==
  ASSUME TypeOK, NEW c \in Caller, NEW k \in Call, Becomes(c, k)
  PROVE  /\ call' \in [Caller -> Call] /\ asked' \in Nat
         /\ \A d \in Caller \ {c} : call'[d] = call[d]
         /\ call'[c] = k
BY DEF Becomes, TypeOK

\* A call that ends keeps everything but its place and its verdict.
LEMMA EndedCall ==
  ASSUME NEW k \in Call, NEW v \in Verdict
  PROVE  /\ Ended(k, v) \in Call
         /\ Ended(k, v).pc = "idle" /\ Ended(k, v).verdict = v
         /\ Ended(k, v).streamed = k.streamed /\ Ended(k, v).failed = k.failed
         /\ Ended(k, v).sent = k.sent /\ Ended(k, v).dead = k.dead
BY DEF Ended, Call

\* Switching changes the transport only, and only where there are two.
LEMMA SwitchedCall ==
  ASSUME NEW k \in Call
  PROVE  /\ Switched(k) \in Call
         /\ Switched(k).pc = k.pc /\ Switched(k).verdict = k.verdict
         /\ Switched(k).streamed \in BOOLEAN
         /\ (k.streamed => HasStreamedLeg) => (Switched(k).streamed => HasStreamedLeg)
         /\ k.streamed /\ HasStreamedLeg => ~Switched(k).streamed
         /\ Switched(k).failed = k.failed /\ Switched(k).sent = k.sent
         /\ Switched(k).dead = k.dead /\ Switched(k).probe = k.probe
<1>1. CASE HasStreamedLeg
  <2>1. Switched(k) = [k EXCEPT !.streamed = ~k.streamed]
    BY <1>1 DEF Switched
  <2>2. QED
    BY <1>1, <2>1 DEF Call
<1>2. CASE ~HasStreamedLeg
  <2>1. Switched(k) = [k EXCEPT !.streamed = k.streamed]
    BY <1>2 DEF Switched
  <2>2. QED
    BY <1>2, <2>1 DEF Call
<1>3. QED
  BY <1>1, <1>2

-----------------------------------------------------------------------------
(* The call after a step, named so that its fields can be used *)

Fresh == [Idle EXCEPT !.streamed = mode = "stream" /\ ~unsupported, !.dead = ~up]

StalledFree(k) == [k EXCEPT !.switches = @ + 1]

StalledPaid(k) == [StalledFree(k) EXCEPT !.failed = @ + 1]

FailedOnce(k) == [k EXCEPT !.failed = @ + 1]

Waiting(k) == [FailedOnce(k) EXCEPT !.pc = "waiting"]

WaitingToProbe(k, failure) == [Waiting(k) EXCEPT !.probe = failure # "empty"]

Probed(k) == [k EXCEPT !.probe = FALSE, !.rounds = 0]

AnotherRound(k) == [k EXCEPT !.rounds = @ + 1]

\* A call starts with nothing paid and nothing sent.
LEMMA FreshCall ==
  ASSUME TypeOK
  PROVE  /\ Fresh \in Call
         /\ Fresh.pc = "idle" /\ Fresh.failed = 0 /\ Fresh.sent = 0
         /\ Fresh.streamed => HasStreamedLeg
         /\ Fresh.dead = ~up /\ Fresh.verdict = "none"
BY DEF Fresh, Idle, Call, Verdict, TypeOK, HasStreamedLeg

\* What the steps after a failure change.
LEMMA StepCalls ==
  ASSUME NEW k \in Call, NEW failure \in Failure
  PROVE  /\ StalledFree(k) \in Call /\ StalledPaid(k) \in Call
         /\ FailedOnce(k) \in Call /\ Waiting(k) \in Call
         /\ WaitingToProbe(k, failure) \in Call
         /\ Probed(k) \in Call /\ AnotherRound(k) \in Call
         /\ \A m \in {StalledFree(k), StalledPaid(k), FailedOnce(k), Waiting(k),
                      WaitingToProbe(k, failure), Probed(k), AnotherRound(k)} :
              /\ m.sent = k.sent /\ m.streamed = k.streamed
              /\ m.dead = k.dead /\ m.verdict = k.verdict
         /\ \A m \in {StalledFree(k), Probed(k), AnotherRound(k)} :
              m.pc = k.pc /\ m.failed = k.failed
         /\ \A m \in {StalledPaid(k), FailedOnce(k), Waiting(k), WaitingToProbe(k, failure)} :
              m.failed = k.failed + 1
         /\ StalledFree(k).switches = k.switches + 1
         /\ StalledPaid(k).pc = k.pc /\ AnotherRound(k).probe = k.probe
         /\ Waiting(k).pc = "waiting" /\ WaitingToProbe(k, failure).pc = "waiting"
         /\ failure # "empty" => WaitingToProbe(k, failure).probe
<1>1. /\ StalledFree(k) \in Call /\ StalledFree(k).sent = k.sent
      /\ StalledFree(k).streamed = k.streamed /\ StalledFree(k).dead = k.dead
      /\ StalledFree(k).verdict = k.verdict /\ StalledFree(k).pc = k.pc
      /\ StalledFree(k).failed = k.failed /\ StalledFree(k).switches = k.switches + 1
  BY DEF StalledFree, Call
<1>2. /\ StalledPaid(k) \in Call /\ StalledPaid(k).sent = k.sent
      /\ StalledPaid(k).streamed = k.streamed /\ StalledPaid(k).dead = k.dead
      /\ StalledPaid(k).verdict = k.verdict /\ StalledPaid(k).pc = k.pc
      /\ StalledPaid(k).failed = k.failed + 1
  BY <1>1 DEF StalledPaid, Call
<1>3. /\ FailedOnce(k) \in Call /\ FailedOnce(k).sent = k.sent
      /\ FailedOnce(k).streamed = k.streamed /\ FailedOnce(k).dead = k.dead
      /\ FailedOnce(k).verdict = k.verdict /\ FailedOnce(k).failed = k.failed + 1
  BY DEF FailedOnce, Call
<1>4. /\ Waiting(k) \in Call /\ Waiting(k).sent = k.sent
      /\ Waiting(k).streamed = k.streamed /\ Waiting(k).dead = k.dead
      /\ Waiting(k).verdict = k.verdict /\ Waiting(k).failed = k.failed + 1
      /\ Waiting(k).pc = "waiting"
  BY <1>3 DEF Waiting, Call
<1>5. /\ WaitingToProbe(k, failure) \in Call /\ WaitingToProbe(k, failure).sent = k.sent
      /\ WaitingToProbe(k, failure).streamed = k.streamed
      /\ WaitingToProbe(k, failure).dead = k.dead
      /\ WaitingToProbe(k, failure).verdict = k.verdict
      /\ WaitingToProbe(k, failure).failed = k.failed + 1
      /\ WaitingToProbe(k, failure).pc = "waiting"
      /\ failure # "empty" => WaitingToProbe(k, failure).probe
  BY <1>4 DEF WaitingToProbe, Call
<1>6. /\ Probed(k) \in Call /\ Probed(k).sent = k.sent /\ Probed(k).streamed = k.streamed
      /\ Probed(k).dead = k.dead /\ Probed(k).verdict = k.verdict
      /\ Probed(k).pc = k.pc /\ Probed(k).failed = k.failed
  BY DEF Probed, Call
<1>7. /\ AnotherRound(k) \in Call /\ AnotherRound(k).sent = k.sent
      /\ AnotherRound(k).streamed = k.streamed /\ AnotherRound(k).dead = k.dead
      /\ AnotherRound(k).verdict = k.verdict /\ AnotherRound(k).pc = k.pc
      /\ AnotherRound(k).failed = k.failed /\ AnotherRound(k).probe = k.probe
  BY DEF AnotherRound, Call
<1>8. QED
  BY <1>1, <1>2, <1>3, <1>4, <1>5, <1>6, <1>7

-----------------------------------------------------------------------------
(* The actions in these terms *)

LEMMA BeginStep ==
  ASSUME NEW c \in Caller, Begin(c)
  PROVE  /\ call[c].pc = "idle"
         /\ Becomes(c, Ended(Fresh, "outage")) \/ Send(c, Fresh)
         /\ UNCHANGED <<mode, configured, up, failures, unsupported>>
BY DEF Begin, Fresh

\* What an outcome may make of a call.
LEMMA OutcomeStep ==
  ASSUME TypeOK, NEW c \in Caller, NEW o \in Failure \cup {"answered"}, Outcome(c, o)
  PROVE  LET k == call[c] IN
         /\ k.pc = "asking" /\ UNCHANGED <<mode, configured, up>>
         /\ failures' \in Nat /\ unsupported' \in BOOLEAN
         /\ \/ up /\ Becomes(c, Ended(k, "answered"))
            \/ up /\ k.streamed /\ Send(c, [k EXCEPT !.streamed = FALSE])
            \/ up /\ \/ StalledPaid(k).failed > MaxRetries
                        /\ Becomes(c, Ended(StalledPaid(k), "failed"))
                     \/ ~(StalledPaid(k).failed > MaxRetries)
                        /\ Send(c, Switched(StalledPaid(k)))
            \/ up /\ Becomes(c, Ended(StalledFree(k), "failed"))
            \/ up /\ k.streamed /\ Send(c, Switched(StalledFree(k)))
            \/ /\ up \/ FailedOnce(k).failed > MaxRetries
               /\ Becomes(c, Ended(FailedOnce(k), "failed"))
            \/ FailedOnce(k).failed <= MaxRetries /\
               \/ Becomes(c, Switched(WaitingToProbe(k, "lost")))
               \/ up /\ Becomes(c, Switched(WaitingToProbe(k, "empty")))
               \/ up /\ Becomes(c, Waiting(k))
<1> DEFINE k == call[c]
<1>0. k \in Call /\ k.pc = "asking" /\ (up \/ o = "lost") /\ UNCHANGED <<mode, configured, up>>
  BY DEF Outcome, TypeOK
<1>1. CASE o = "answered"
  BY <1>0, <1>1 DEF Outcome, Answered, TypeOK
<1>2. CASE o = "rejected" /\ k.streamed
  BY <1>0, <1>2 DEF Outcome, StreamRejected, TypeOK
<1>3. CASE o = "stalled" /\ (k.streamed \/ k.switches > 0)
  <2>1. up /\ Stalled(c)
    BY <1>0, <1>3 DEF Outcome
  <2>2. k.switches \in Nat /\ StalledFree(k).switches = k.switches + 1
    BY <1>0, StepCalls DEF Call, Failure
  <2>3. CASE StalledFree(k).switches = 1
    <3>1. k.streamed
      BY <1>3, <2>2, <2>3
    <3>2. Becomes(c, Ended(StalledFree(k), "failed")) \/ Send(c, Switched(StalledFree(k)))
      BY <2>1, <2>3 DEF Stalled, StalledFree
    <3>3. failures' \in Nat /\ unsupported' \in BOOLEAN
      BY <2>1 DEF Stalled, TypeOK
    <3>4. QED
      BY <1>0, <2>1, <3>1, <3>2, <3>3
  <2>4. CASE StalledFree(k).switches # 1
    <3>1. IF StalledPaid(k).failed > MaxRetries
          THEN Becomes(c, Ended(StalledPaid(k), "failed"))
          ELSE Send(c, Switched(StalledPaid(k)))
      BY <2>1, <2>4 DEF Stalled, StalledFree, StalledPaid
    <3>2. failures' \in Nat /\ unsupported' \in BOOLEAN
      BY <2>1 DEF Stalled, TypeOK
    <3>3. QED
      BY <1>0, <2>1, <3>1, <3>2
  <2>5. QED
    BY <2>3, <2>4
<1>4. CASE Failed(c, o)
  <2>1. failures' \in Nat /\ unsupported' \in BOOLEAN
    BY <1>4 DEF Failed, TypeOK
  <2>2. CASE ~(o \in Retryable /\ FailedOnce(k).failed <= MaxRetries)
    <3>1. Becomes(c, Ended(FailedOnce(k), "failed"))
      BY <1>4, <2>2 DEF Failed, FailedOnce
    <3>2. FailedOnce(k).failed \in Nat
      BY <1>0, StepCalls DEF Call, Failure
    <3>3. up \/ FailedOnce(k).failed > MaxRetries
      BY <1>0, <2>2, <3>2, CallsAssumption DEF Retryable
    <3>4. QED
      BY <1>0, <2>1, <3>1, <3>3
  <2>3. CASE o \in Retryable /\ FailedOnce(k).failed <= MaxRetries
    <3>1. Becomes(c, IF o \in ConnectionFailure THEN Switched(WaitingToProbe(k, o))
                     ELSE Waiting(k))
      BY <1>4, <2>3 DEF Failed, FailedOnce, Waiting, WaitingToProbe
    <3>2. CASE o = "lost"
      BY <1>0, <2>1, <2>3, <3>1, <3>2 DEF ConnectionFailure
    <3>3. CASE o = "empty"
      BY <1>0, <2>1, <2>3, <3>1, <3>3 DEF ConnectionFailure
    <3>4. CASE o = "busy"
      BY <1>0, <2>1, <2>3, <3>1, <3>4 DEF ConnectionFailure
    <3>5. QED
      BY <2>3, <3>2, <3>3, <3>4 DEF Retryable
  <2>4. QED
    BY <2>2, <2>3
<1>5. QED
  BY <1>1, <1>2, <1>3, <1>4 DEF Outcome

LEMMA ProbeStep ==
  ASSUME TypeOK, NEW c \in Caller, NEW r \in BOOLEAN, Probe(c, r)
  PROVE  LET k == call[c] IN
         /\ k.pc = "waiting" /\ k.probe /\ UNCHANGED <<mode, configured, up, unsupported>>
         /\ failures' \in Nat
         /\ \/ (configured => up) /\ Send(c, Probed(k))
            \/ Becomes(c, Ended(AnotherRound(k), "outage"))
            \/ Becomes(c, AnotherRound(k))
BY DEF Probe, Probes, Probed, AnotherRound, TypeOK

-----------------------------------------------------------------------------
(* Types *)

\* The records stay what they are: the calls, the mark and the counters.
LEMMA TypeStep == TypeOK /\ [CallsNext]_callsVars => TypeOK'
<1> SUFFICES ASSUME TypeOK, [CallsNext]_callsVars PROVE TypeOK'
  OBVIOUS
<1>1. ASSUME NEW c \in Caller, Begin(c) PROVE TypeOK'
  <2>1. Fresh \in Call /\ Ended(Fresh, "outage") \in Call
    BY FreshCall, EndedCall DEF Verdict
  <2>2. call' \in [Caller -> Call] /\ asked' \in Nat
    BY <1>1, <2>1, BeginStep, SendEffect, BecomesEffect
  <2>3. QED
    BY <1>1, <2>2, BeginStep DEF TypeOK
<1>2. ASSUME NEW c \in Caller, NEW o \in Failure \cup {"answered"}, Outcome(c, o)
      PROVE TypeOK'
  <2> DEFINE k == call[c]
  <2>1. k \in Call /\ "lost" \in Failure /\ "empty" \in Failure
    BY DEF TypeOK, Failure
  <2>2. /\ StalledFree(k) \in Call /\ StalledPaid(k) \in Call /\ FailedOnce(k) \in Call
        /\ Waiting(k) \in Call /\ WaitingToProbe(k, "lost") \in Call
        /\ WaitingToProbe(k, "empty") \in Call
    BY <2>1, StepCalls
  <2>3. \A m \in Call : /\ Ended(m, "answered") \in Call /\ Ended(m, "failed") \in Call
                        /\ Switched(m) \in Call /\ [m EXCEPT !.streamed = FALSE] \in Call
    <3>1. TAKE m \in Call
    <3>2. [m EXCEPT !.streamed = FALSE] \in Call
      BY DEF Call
    <3>3. QED
      BY <3>2, EndedCall, SwitchedCall DEF Verdict
  <2>4. call' \in [Caller -> Call] /\ asked' \in Nat
    BY <1>2, <2>1, <2>2, <2>3, OutcomeStep, SendEffect, BecomesEffect
  <2>5. QED
    BY <1>2, <2>4, OutcomeStep DEF TypeOK
<1>3. ASSUME NEW c \in Caller, Resend(c) PROVE TypeOK'
  <2>1. call' \in [Caller -> Call] /\ asked' \in Nat
    BY <1>3, SendEffect DEF Resend, TypeOK
  <2>2. QED
    BY <1>3, <2>1 DEF Resend, TypeOK
<1>4. ASSUME NEW c \in Caller, NEW r \in BOOLEAN, Probe(c, r) PROVE TypeOK'
  <2> DEFINE k == call[c]
  <2>1. k \in Call /\ "lost" \in Failure
    BY DEF TypeOK, Failure
  <2>2. Probed(k) \in Call /\ AnotherRound(k) \in Call
    BY <2>1, StepCalls
  <2>3. Ended(AnotherRound(k), "outage") \in Call
    BY <2>2, EndedCall DEF Verdict
  <2>4. call' \in [Caller -> Call] /\ asked' \in Nat
    BY <1>4, <2>2, <2>3, ProbeStep, SendEffect, BecomesEffect
  <2>5. QED
    BY <1>4, <2>4, ProbeStep DEF TypeOK
<1>5. ASSUME NEW left \in 0..(failures - 1), ForgetFailures(left) PROVE TypeOK'
  BY <1>5 DEF ForgetFailures, TypeOK
<1>6. CASE ForgetMark
  BY <1>6 DEF ForgetMark, TypeOK
<1>7. CASE GoDown
  BY <1>7 DEF GoDown, TypeOK
<1>8. CASE ComeBack
  <2>1. \A m \in Call : [m EXCEPT !.dead = FALSE] \in Call
    BY DEF Call
  <2>2. QED
    BY <1>8, <2>1 DEF ComeBack, TypeOK
<1>9. CASE UNCHANGED callsVars
  BY <1>9 DEF callsVars, TypeOK
<1>10. QED
  BY <1>1, <1>2, <1>3, <1>4, <1>5, <1>6, <1>7, <1>8, <1>9 DEF CallsNext, Step

\* A call that was never made is a call.
LEMMA IdleCall == Idle \in Call /\ Idle.sent = 0 /\ ~Idle.streamed /\ ~Idle.dead /\ Idle.pc = "idle"
BY DEF Idle, Call, Verdict

\* The first state has its types.
LEMMA InitialTypes == CallsInit => TypeOK
<1>1. SUFFICES ASSUME CallsInit PROVE TypeOK
  OBVIOUS
<1>2. call \in [Caller -> Call]
  BY <1>1, IdleCall DEF CallsInit
<1>3. QED
  BY <1>1, <1>2 DEF CallsInit, TypeOK

\* Whatever the callers, the budgets and the order of events, the variables keep
\* their types.
THEOREM CallTypesCorrect == CallsSpec => []TypeOK
BY InitialTypes, TypeStep, PTL DEF CallsSpec

-----------------------------------------------------------------------------
(* What a call sends *)

\* A step of one call leaves it paying for what it sends.
LEMMA PayingStep == PayingInv /\ [CallsNext]_callsVars => PayingInv'
<1> SUFFICES ASSUME PayingInv, [CallsNext]_callsVars
             PROVE  \A c \in Caller : Paying(call[c])'
  BY TypeStep DEF PayingInv
<1>0. TypeOK /\ MaxRetries \in Nat /\ \A c \in Caller : call[c] \in Call /\ Paying(call[c])
  BY CallsAssumption DEF PayingInv, TypeOK
<1>1. ASSUME NEW c \in Caller, mode' = mode, Paying(call'[c]),
             \A d \in Caller \ {c} : call'[d] = call[d]
      PROVE  \A d \in Caller : Paying(call[d])'
  BY <1>0, <1>1 DEF Paying, HasStreamedLeg, Sent
<1>2. ASSUME NEW c \in Caller, NEW k \in Call, mode' = mode, Send(c, k),
             k.streamed => HasStreamedLeg, k.sent < Sent(k), k.failed <= MaxRetries
      PROVE  \A d \in Caller : Paying(call[d])'
  <2>1. /\ call'[c].pc = "asking" /\ call'[c].sent = k.sent + 1
        /\ call'[c].streamed = k.streamed /\ call'[c].failed = k.failed
        /\ \A d \in Caller \ {c} : call'[d] = call[d]
    BY <1>0, <1>2, SendEffect
  <2>2. k.sent \in Nat /\ k.failed \in Nat /\ k.streamed \in BOOLEAN
    BY DEF Call
  <2>3. Paying(call'[c])
    BY <1>0, <1>2, <2>1, <2>2 DEF Paying, Sent
  <2>4. QED
    BY <1>1, <1>2, <2>1, <2>3
<1>3. ASSUME NEW c \in Caller, NEW k \in Call, mode' = mode, Becomes(c, k), Paying(k)
      PROVE  \A d \in Caller : Paying(call[d])'
  BY <1>0, <1>1, <1>3, BecomesEffect
<1>4. ASSUME NEW k \in Call, NEW v \in Verdict, k.streamed => HasStreamedLeg,
             k.sent <= 2 * (MaxRetries + 1)
      PROVE  Ended(k, v) \in Call /\ Paying(Ended(k, v))
  BY <1>4, EndedCall DEF Paying
<1>5. ASSUME NEW c \in Caller, Begin(c) PROVE \A d \in Caller : Paying(call[d])'
  <2>1. Fresh.sent < Sent(Fresh) /\ Fresh.failed <= MaxRetries
    BY <1>0, FreshCall DEF Sent
  <2>2. Ended(Fresh, "outage") \in Call /\ Paying(Ended(Fresh, "outage"))
    BY <1>0, <1>4, FreshCall DEF Verdict
  <2>3. QED
    BY <1>0, <1>2, <1>3, <1>5, <2>1, <2>2, BeginStep, FreshCall
<1>6. ASSUME NEW c \in Caller, NEW o \in Failure \cup {"answered"}, Outcome(c, o)
      PROVE \A d \in Caller : Paying(call[d])'
  <2> DEFINE k == call[c]
  <2>1. /\ k \in Call /\ k.pc = "asking" /\ mode' = mode
        /\ k.sent \in Nat /\ k.failed \in Nat /\ k.streamed \in BOOLEAN
        /\ "lost" \in Failure /\ "empty" \in Failure
    BY <1>0, <1>6, OutcomeStep DEF Call, Failure
  <2>2. /\ k.streamed => HasStreamedLeg
        /\ k.sent <= Sent(k) /\ k.failed <= MaxRetries /\ k.sent <= 2 * (MaxRetries + 1)
    BY <1>0, <2>1 DEF Paying
  <2>3. ASSUME NEW v \in Verdict PROVE \A m \in {k, StalledPaid(k), StalledFree(k), FailedOnce(k)} :
             Ended(m, v) \in Call /\ Paying(Ended(m, v))
    <3>1. \A m \in {k, StalledPaid(k), StalledFree(k), FailedOnce(k)} :
            m \in Call /\ m.sent = k.sent /\ m.streamed = k.streamed
      BY <2>1, StepCalls
    <3>2. QED
      BY <1>4, <2>2, <3>1
  <2>4. ASSUME k.streamed, Send(c, [k EXCEPT !.streamed = FALSE])
        PROVE  \A d \in Caller : Paying(call[d])'
    <3>1. LET m == [k EXCEPT !.streamed = FALSE] IN
          m \in Call /\ ~m.streamed /\ m.sent = k.sent /\ m.failed = k.failed
      BY <2>1 DEF Call
    <3>2. LET m == [k EXCEPT !.streamed = FALSE] IN m.sent < Sent(m)
      BY <2>1, <2>2, <2>4, <3>1 DEF Sent
    <3>3. QED
      BY <1>2, <2>1, <2>2, <2>4, <3>1, <3>2
  <2>5. ASSUME StalledPaid(k).failed <= MaxRetries, Send(c, Switched(StalledPaid(k)))
        PROVE  \A d \in Caller : Paying(call[d])'
    <3> DEFINE m == Switched(StalledPaid(k))
    <3>1. /\ m \in Call /\ m.sent = k.sent /\ m.failed = k.failed + 1
          /\ m.failed <= MaxRetries /\ m.streamed \in BOOLEAN
          /\ m.streamed => HasStreamedLeg
      <4>1. /\ StalledPaid(k) \in Call /\ StalledPaid(k).streamed = k.streamed
            /\ StalledPaid(k).sent = k.sent /\ StalledPaid(k).failed = k.failed + 1
        BY <2>1, StepCalls
      <4>2. QED
        BY <2>2, <2>5, <4>1, SwitchedCall
    <3>2. m.sent < Sent(m)
      <4> HIDE DEF m
      <4>1. QED
        BY <2>1, <2>2, <3>1 DEF Sent
    <3>3. QED
      BY <1>2, <2>1, <2>5, <3>1, <3>2
  <2>6. ASSUME k.streamed, Send(c, Switched(StalledFree(k)))
        PROVE  \A d \in Caller : Paying(call[d])'
    <3> DEFINE m == Switched(StalledFree(k))
    <3>0. /\ StalledFree(k) \in Call /\ StalledFree(k).streamed = k.streamed
          /\ StalledFree(k).sent = k.sent /\ StalledFree(k).failed = k.failed
      BY <2>1, StepCalls
    <3>1. m \in Call /\ m.sent = k.sent /\ m.failed = k.failed /\ ~m.streamed
      BY <2>2, <2>6, <3>0, SwitchedCall
    <3>2. m.sent < Sent(m) /\ m.failed <= MaxRetries
      <4> HIDE DEF m
      <4>1. QED
        BY <2>1, <2>2, <2>6, <3>1 DEF Sent
    <3>3. QED
      BY <1>2, <2>1, <2>6, <3>1, <3>2
  <2>7. ASSUME FailedOnce(k).failed <= MaxRetries
        PROVE  \A m \in {Switched(WaitingToProbe(k, "lost")),
                         Switched(WaitingToProbe(k, "empty")), Waiting(k)} :
                 m \in Call /\ Paying(m)
    <3>1. k.failed + 1 <= MaxRetries
      BY <2>1, <2>7, StepCalls
    <3>2. \A m \in {WaitingToProbe(k, "lost"), WaitingToProbe(k, "empty"), Waiting(k)} :
            /\ m \in Call /\ m.sent = k.sent /\ m.streamed = k.streamed
            /\ m.failed = k.failed + 1 /\ m.pc = "waiting"
      BY <2>1, StepCalls
    <3>3. \A m \in {Switched(WaitingToProbe(k, "lost")),
                    Switched(WaitingToProbe(k, "empty")), Waiting(k)} :
            /\ m \in Call /\ m.sent = k.sent /\ m.failed = k.failed + 1
            /\ m.pc = "waiting" /\ m.streamed \in BOOLEAN
            /\ m.streamed => HasStreamedLeg
      <4>1. \A m \in {WaitingToProbe(k, "lost"), WaitingToProbe(k, "empty")} :
              /\ Switched(m) \in Call /\ Switched(m).sent = k.sent
              /\ Switched(m).failed = k.failed + 1 /\ Switched(m).pc = "waiting"
              /\ Switched(m).streamed \in BOOLEAN
              /\ Switched(m).streamed => HasStreamedLeg
        BY <2>2, <3>2, SwitchedCall
      <4>2. QED
        BY <2>1, <2>2, <3>2, <4>1
    <3>4. QED
      BY <1>0, <2>1, <2>2, <3>1, <3>3 DEF Paying, Sent
  <2>8. QED
    <3>1. "answered" \in Verdict /\ "failed" \in Verdict
      BY DEF Verdict
    <3>2. StalledPaid(k).failed \in Nat
      BY <2>1, StepCalls DEF Call
    <3>3. StalledPaid(k).failed > MaxRetries \/ StalledPaid(k).failed <= MaxRetries
      BY <1>0, <3>2
    <3>4. QED
      BY <1>0, <1>3, <1>6, <2>1, <2>3, <2>4, <2>5, <2>6, <2>7, <3>1, <3>3, OutcomeStep
<1>7. ASSUME NEW c \in Caller, Resend(c) PROVE \A d \in Caller : Paying(call[d])'
  <2>1. /\ call[c].pc = "waiting" /\ Send(c, call[c]) /\ mode' = mode
    BY <1>7 DEF Resend
  <2>2. QED
    BY <1>0, <1>2, <2>1 DEF Paying
<1>8. ASSUME NEW c \in Caller, NEW r \in BOOLEAN, Probe(c, r)
      PROVE \A d \in Caller : Paying(call[d])'
  <2> DEFINE k == call[c]
  <2>1. k \in Call /\ "lost" \in Failure /\ k.pc = "waiting" /\ mode' = mode
    BY <1>0, <1>8, ProbeStep DEF Failure
  <2>2. /\ k.streamed => HasStreamedLeg
        /\ k.sent < Sent(k) /\ k.failed <= MaxRetries /\ k.sent <= 2 * (MaxRetries + 1)
    BY <1>0, <2>1 DEF Paying
  <2>3. \A m \in {Probed(k), AnotherRound(k)} :
          /\ m \in Call /\ m.sent = k.sent /\ m.streamed = k.streamed
          /\ m.failed = k.failed /\ m.pc = k.pc
    BY <2>1, StepCalls
  <2>4. Probed(k).sent < Sent(Probed(k)) /\ Paying(AnotherRound(k))
    BY <2>1, <2>2, <2>3 DEF Paying, Sent
  <2>5. Ended(AnotherRound(k), "outage") \in Call /\ Paying(Ended(AnotherRound(k), "outage"))
    BY <1>4, <2>2, <2>3 DEF Verdict
  <2>6. QED
    BY <1>0, <1>2, <1>3, <1>8, <2>1, <2>2, <2>3, <2>4, <2>5, ProbeStep
<1>9. ASSUME UNCHANGED <<mode, configured, call>> PROVE \A d \in Caller : Paying(call[d])'
  BY <1>0, <1>9 DEF Paying, HasStreamedLeg, Sent
<1>10. CASE ComeBack
  <2>1. \A m \in Call : LET n == [m EXCEPT !.dead = FALSE] IN
          /\ n.pc = m.pc /\ n.sent = m.sent /\ n.failed = m.failed /\ n.streamed = m.streamed
    BY DEF Call
  <2>2. \A d \in Caller : call'[d] = [call[d] EXCEPT !.dead = FALSE] /\ mode' = mode
    BY <1>10 DEF ComeBack
  <2>3. QED
    <3>1. SUFFICES ASSUME NEW d \in Caller PROVE Paying(call[d])'
      OBVIOUS
    <3>2. /\ call'[d].pc = call[d].pc /\ call'[d].sent = call[d].sent /\ mode' = mode
          /\ call'[d].failed = call[d].failed /\ call'[d].streamed = call[d].streamed
      BY <1>0, <2>1, <2>2
    <3>3. QED
      BY <1>0, <3>2 DEF Paying, HasStreamedLeg, Sent
<1>11. QED
  BY <1>5, <1>6, <1>7, <1>8, <1>9, <1>10
     DEF CallsNext, Step, ForgetFailures, ForgetMark, GoDown, callsVars

\* For any retry budget: rejected streams and stalls cannot make a call ask
\* without end, two requests per paid attempt are the most it sends.
THEOREM RequestsBounded == CallsSpec => []AttemptsBounded
<1>1. CallsInit => PayingInv
  <2>1. SUFFICES ASSUME CallsInit PROVE PayingInv
    OBVIOUS
  <2>2. \A c \in Caller : call[c] = Idle
    BY <2>1 DEF CallsInit
  <2>3. Paying(Idle)
    BY CallsAssumption, IdleCall DEF Paying
  <2>4. QED
    BY <2>1, <2>2, <2>3, InitialTypes DEF PayingInv
<1>2. PayingInv => AttemptsBounded
  BY DEF PayingInv, Paying, AttemptsBounded
<1>3. QED
  BY <1>1, <1>2, PayingStep, PTL DEF CallsSpec

-----------------------------------------------------------------------------
(* What a call sees *)

\* Whether there is a base URL is settled before the first call.
LEMMA ConfiguredStays == [CallsNext]_callsVars => configured' = configured
BY DEF CallsNext, callsVars, Step, Begin, Outcome, Resend, Probe, ForgetFailures, ForgetMark,
       GoDown, ComeBack

\* With a retry to pay for, a lost connection leads to probes and nowhere else.
LEMMA SeenStep ==
  ASSUME MaxRetries >= 1
  PROVE  SeenInv /\ [CallsNext]_callsVars => SeenInv'
<1> SUFFICES ASSUME SeenInv, [CallsNext]_callsVars, configured
             PROVE  \A c \in Caller : Seen(call[c])'
  BY TypeStep, ConfiguredStays DEF SeenInv
<1>0. /\ TypeOK /\ MaxRetries \in Nat /\ \A c \in Caller : call[c] \in Call /\ Seen(call[c])
      /\ "lost" \in Failure /\ "empty" \in Failure
  BY CallsAssumption DEF SeenInv, TypeOK, Failure
<1>1. ASSUME NEW c \in Caller, up' = up, Seen(call'[c]),
             \A d \in Caller \ {c} : call'[d] = call[d]
      PROVE  \A d \in Caller : Seen(call[d])'
  BY <1>0, <1>1 DEF Seen
<1>2. ASSUME NEW c \in Caller, NEW k \in Call, up' = up, Send(c, k),
             k.dead => ~up /\ k.failed = 0 /\ k.verdict = "none"
      PROVE  \A d \in Caller : Seen(call[d])'
  <2>1. /\ call'[c].pc = "asking" /\ call'[c].dead = k.dead
        /\ call'[c].failed = k.failed /\ call'[c].verdict = k.verdict
        /\ \A d \in Caller \ {c} : call'[d] = call[d]
    BY <1>0, <1>2, SendEffect
  <2>2. Seen(call'[c])
    BY <1>2, <2>1 DEF Seen
  <2>3. QED
    BY <1>1, <1>2, <2>1, <2>2
<1>3. ASSUME NEW c \in Caller, NEW k \in Call, up' = up, Becomes(c, k), Seen(k)
      PROVE  \A d \in Caller : Seen(call[d])'
  BY <1>0, <1>1, <1>3, BecomesEffect
<1>4. ASSUME NEW c \in Caller, Begin(c) PROVE \A d \in Caller : Seen(call[d])'
  <2>1. Ended(Fresh, "outage") \in Call /\ Seen(Ended(Fresh, "outage"))
    BY <1>0, FreshCall, EndedCall DEF Seen, Verdict
  <2>2. QED
    BY <1>0, <1>2, <1>3, <1>4, <2>1, BeginStep, FreshCall
<1>5. ASSUME NEW c \in Caller, NEW o \in Failure \cup {"answered"}, Outcome(c, o)
      PROVE \A d \in Caller : Seen(call[d])'
  <2> DEFINE k == call[c]
  <2>1. /\ k \in Call /\ k.pc = "asking" /\ up' = up /\ Seen(k)
        /\ "answered" \in Verdict /\ "failed" \in Verdict
    BY <1>0, <1>5, OutcomeStep DEF Verdict
  <2>2. \A m \in {StalledPaid(k), StalledFree(k), FailedOnce(k), Waiting(k)} :
          m \in Call /\ m.dead = k.dead /\ m.verdict = k.verdict
    BY <1>0, <2>1, StepCalls
  <2>3. CASE up
    <3>1. ~k.dead
      BY <2>1, <2>3 DEF Seen
    <3>2. \A m \in Call : ~m.dead => Seen(m)
      BY DEF Seen
    <3>3. \A m \in {k, StalledPaid(k), StalledFree(k), FailedOnce(k)}, v \in {"answered", "failed"} :
            Ended(m, v) \in Call /\ ~Ended(m, v).dead
      <4>1. \A m \in {k, StalledPaid(k), StalledFree(k), FailedOnce(k)} : m \in Call /\ ~m.dead
        BY <2>1, <2>2, <3>1
      <4>2. \A v \in {"answered", "failed"} : v \in Verdict
        BY <2>1
      <4>3. \A m \in Call, v \in Verdict : Ended(m, v) \in Call /\ Ended(m, v).dead = m.dead
        BY EndedCall
      <4>4. QED
        BY <4>1, <4>2, <4>3
    <3>4. \A m \in {Switched(StalledPaid(k)), Switched(StalledFree(k))} : m \in Call /\ ~m.dead
      BY <2>2, <3>1, SwitchedCall
    <3>5. \A m \in {WaitingToProbe(k, "lost"), WaitingToProbe(k, "empty")} :
            m \in Call /\ ~m.dead
      <4>1. WaitingToProbe(k, "lost") \in Call /\ WaitingToProbe(k, "lost").dead = k.dead
        BY <1>0, <2>1, StepCalls
      <4>2. WaitingToProbe(k, "empty") \in Call /\ WaitingToProbe(k, "empty").dead = k.dead
        BY <1>0, <2>1, StepCalls
      <4>3. QED
        BY <3>1, <4>1, <4>2
    <3>6. \A m \in {WaitingToProbe(k, "lost"), WaitingToProbe(k, "empty")} :
            Switched(m) \in Call /\ ~Switched(m).dead
      BY <3>5, SwitchedCall
    <3>7. LET m == [k EXCEPT !.streamed = FALSE] IN m \in Call /\ ~m.dead
      BY <2>1, <3>1 DEF Call
    <3>8. QED
      BY <1>0, <1>2, <1>3, <1>5, <2>1, <2>2, <3>1, <3>2, <3>3, <3>4, <3>6, <3>7, OutcomeStep
  <2>4. CASE ~up
    <3>1. \/ /\ FailedOnce(k).failed > MaxRetries
             /\ Becomes(c, Ended(FailedOnce(k), "failed"))
          \/ Becomes(c, Switched(WaitingToProbe(k, "lost")))
      BY <1>0, <1>5, <2>4, OutcomeStep
    <3>2. /\ WaitingToProbe(k, "lost") \in Call /\ WaitingToProbe(k, "lost").pc = "waiting"
          /\ WaitingToProbe(k, "lost").failed = k.failed + 1
          /\ WaitingToProbe(k, "lost").dead = k.dead
          /\ WaitingToProbe(k, "lost").verdict = k.verdict
          /\ WaitingToProbe(k, "lost").probe
          /\ FailedOnce(k).failed = k.failed + 1
      <4> DEFINE m == WaitingToProbe(k, "lost")
      <4>1. m \in Call /\ m.pc = "waiting" /\ m.failed = k.failed + 1
        BY <1>0, <2>1, StepCalls
      <4>2. m.dead = k.dead /\ m.verdict = k.verdict
        BY <1>0, <2>1, StepCalls
      <4>3. m.probe /\ FailedOnce(k).failed = k.failed + 1
        BY <1>0, <2>1, StepCalls
      <4>4. QED
        BY <4>1, <4>2, <4>3
    <3>3. CASE Becomes(c, Switched(WaitingToProbe(k, "lost")))
      <4>1. LET m == Switched(WaitingToProbe(k, "lost")) IN
            /\ m \in Call /\ m.pc = "waiting" /\ m.failed = k.failed + 1
            /\ m.dead = k.dead /\ m.verdict = k.verdict /\ m.probe
        BY <3>2, SwitchedCall
      <4>2. Seen(Switched(WaitingToProbe(k, "lost")))
        BY <2>1, <2>4, <4>1 DEF Seen
      <4>3. QED
        BY <1>3, <2>1, <3>3, <4>1, <4>2
    <3>4. CASE FailedOnce(k).failed > MaxRetries /\ Becomes(c, Ended(FailedOnce(k), "failed"))
      <4>1. ~k.dead
        BY <1>0, <2>1, <3>2, <3>4 DEF Seen, Call
      <4>2. Ended(FailedOnce(k), "failed") \in Call /\ ~Ended(FailedOnce(k), "failed").dead
        BY <2>1, <2>2, <4>1, EndedCall
      <4>3. QED
        BY <1>3, <2>1, <3>4, <4>2 DEF Seen
    <3>5. QED
      BY <3>1, <3>3, <3>4
  <2>5. QED
    BY <2>3, <2>4
<1>6. ASSUME NEW c \in Caller, Resend(c) PROVE \A d \in Caller : Seen(call[d])'
  <2>1. call[c].pc = "waiting" /\ ~call[c].probe /\ Send(c, call[c]) /\ up' = up
    BY <1>6 DEF Resend
  <2>2. ~call[c].dead
    BY <1>0, <2>1 DEF Seen
  <2>3. QED
    BY <1>0, <1>2, <2>1, <2>2
<1>7. ASSUME NEW c \in Caller, NEW r \in BOOLEAN, Probe(c, r)
      PROVE \A d \in Caller : Seen(call[d])'
  <2> DEFINE k == call[c]
  <2>1. k \in Call /\ k.pc = "waiting" /\ k.probe /\ up' = up /\ Seen(k) /\ "outage" \in Verdict
    BY <1>0, <1>7, ProbeStep DEF Verdict
  <2>2. /\ Probed(k) \in Call /\ Probed(k).dead = k.dead
        /\ AnotherRound(k) \in Call /\ AnotherRound(k).dead = k.dead
        /\ AnotherRound(k).pc = k.pc /\ AnotherRound(k).failed = k.failed
        /\ AnotherRound(k).verdict = k.verdict /\ AnotherRound(k).probe = k.probe
    BY <1>0, <2>1, StepCalls
  <2>3. Seen(AnotherRound(k))
    BY <2>1, <2>2 DEF Seen
  <2>4. Ended(AnotherRound(k), "outage") \in Call /\ Seen(Ended(AnotherRound(k), "outage"))
    BY <2>1, <2>2, EndedCall DEF Seen
  <2>5. ASSUME up, Send(c, Probed(k)) PROVE \A d \in Caller : Seen(call[d])'
    <3>1. ~Probed(k).dead
      BY <2>1, <2>2, <2>5 DEF Seen
    <3>2. QED
      BY <1>2, <2>1, <2>2, <2>5, <3>1
  <2>6. QED
    BY <1>0, <1>3, <1>7, <2>1, <2>2, <2>3, <2>4, <2>5, ProbeStep
<1>8. ASSUME UNCHANGED call, up' \in BOOLEAN, up' => up PROVE \A d \in Caller : Seen(call[d])'
  BY <1>0, <1>8 DEF Seen
<1>9. CASE ComeBack
  <2>1. \A m \in Call : ~[m EXCEPT !.dead = FALSE].dead
    BY DEF Call
  <2>2. \A d \in Caller : call'[d] = [call[d] EXCEPT !.dead = FALSE]
    BY <1>9 DEF ComeBack
  <2>3. \A d \in Caller : ~call'[d].dead
    BY <1>0, <2>1, <2>2
  <2>4. QED
    BY <2>3 DEF Seen
<1>10. QED
  <2>1. ASSUME UNCHANGED <<up, call>> PROVE \A d \in Caller : Seen(call[d])'
    BY <1>0, <2>1 DEF Seen
  <2>2. CASE GoDown
    BY <1>8, <2>2 DEF GoDown
  <2>3. QED
    BY <1>4, <1>5, <1>6, <1>7, <1>9, <2>1, <2>2
       DEF CallsNext, Step, ForgetFailures, ForgetMark, callsVars

\* With at least one retry, a call that never saw the endpoint up ends with the
\* verdict that pauses the run, never with one that fails its task, when the endpoint
\* has a base URL to probe.
THEOREM OutageReported ==
  ASSUME MaxRetries >= 1
  PROVE  CallsSpec => []DeadIsOutage
<1>1. CallsInit => SeenInv
  <2>1. SUFFICES ASSUME CallsInit PROVE SeenInv
    OBVIOUS
  <2>2. \A c \in Caller : call[c] = Idle
    BY <2>1 DEF CallsInit
  <2>3. Seen(Idle)
    BY IdleCall DEF Seen
  <2>4. QED
    BY <2>1, <2>2, <2>3, InitialTypes DEF SeenInv
<1>2. SeenInv => DeadIsOutage
  BY DEF SeenInv, Seen, DeadIsOutage, TypeOK, Call
<1>3. SeenInv /\ [CallsNext]_callsVars => SeenInv'
  BY SeenStep
<1>4. QED
  BY <1>1, <1>2, <1>3, PTL DEF CallsSpec

-----------------------------------------------------------------------------
(* What an endpoint that is down is asked *)

\* The rounds of a call belong to the probes of its present attempt.
RoundsOK(k) ==
  /\ k.pc = "asking" => k.rounds = 0
  /\ k.pc = "waiting" => k.rounds <= ProbeRounds /\ (~k.probe => k.rounds = 0)

\* A call whose probes spend the budget of the endpoint for all before it ends.
Closing(k) ==
  \/ k.pc = "asking" /\ k.dead
  \/ k.pc = "waiting" /\ k.probe /\ failures + ProbeRounds + 1 - k.rounds >= MaxFailures

\* A call that asks again without a probe.
Paused(k) == k.pc = "waiting" /\ ~k.probe

\* Who may still ask an endpoint that stays down: a call that is paused, and who
\* may begin one; and who may do both.
MayAsk == {c \in Caller : Paused(call[c]) \/ (~BudgetSpent /\ ~Closing(call[c]))}
MayAskTwice == {c \in Caller : Paused(call[c]) /\ ~BudgetSpent}

Askable == asked + Cardinality(MayAsk) + Cardinality(MayAskTwice) <= 2 * Cardinality(Caller)

SparedInv ==
  /\ SeenInv
  /\ \A c \in Caller : RoundsOK(call[c])
  /\ up => asked = 0
  /\ configured => Askable

\* What the steps of a call do to its rounds.
LEMMA RoundsCalls ==
  ASSUME NEW k \in Call, NEW failure \in Failure
  PROVE  /\ \A m \in {StalledFree(k), StalledPaid(k), FailedOnce(k), Waiting(k),
                      WaitingToProbe(k, failure), Switched(k), [k EXCEPT !.streamed = FALSE]} :
              m.rounds = k.rounds
         /\ Probed(k).rounds = 0 /\ ~Probed(k).probe
         /\ AnotherRound(k).rounds = k.rounds + 1
         /\ Waiting(k).probe = k.probe
<1>1. StalledFree(k).rounds = k.rounds /\ StalledFree(k) \in Call
  BY DEF StalledFree, Call
<1>2. StalledPaid(k).rounds = k.rounds
  BY <1>1 DEF StalledPaid, Call
<1>3. FailedOnce(k).rounds = k.rounds /\ FailedOnce(k).probe = k.probe /\ FailedOnce(k) \in Call
  BY DEF FailedOnce, Call
<1>4. Waiting(k).rounds = k.rounds /\ Waiting(k).probe = k.probe /\ Waiting(k) \in Call
  BY <1>3 DEF Waiting, Call
<1>5. WaitingToProbe(k, failure).rounds = k.rounds
  BY <1>4 DEF WaitingToProbe, Call
<1>6. /\ [k EXCEPT !.streamed = FALSE].rounds = k.rounds
      /\ [k EXCEPT !.streamed = ~@].rounds = k.rounds
      /\ [k EXCEPT !.streamed = @].rounds = k.rounds
  BY DEF Call
<1>7. Switched(k).rounds = k.rounds
  BY <1>6 DEF Switched
<1>8. Probed(k).rounds = 0 /\ ~Probed(k).probe /\ AnotherRound(k).rounds = k.rounds + 1
  BY DEF Probed, AnotherRound, Call
<1>. QED BY <1>1, <1>2, <1>3, <1>4, <1>5, <1>6, <1>7, <1>8

\* A request keeps the rounds of the call and is counted when it is in vain.
LEMMA SendAsks ==
  ASSUME TypeOK, NEW c \in Caller, NEW k \in Call, Send(c, k)
  PROVE  /\ call'[c].rounds = k.rounds /\ call'[c].probe = k.probe
         /\ asked' = IF up THEN asked ELSE asked + 1
<1> DEFINE n == k.sent + 1
           sent == [k EXCEPT !.pc = "asking", !.sent = n]
<1>1. n \in Nat
  BY DEF Call
<1>2. call' = [call EXCEPT ![c] = sent] /\ asked' = IF up THEN asked ELSE asked + 1
  BY DEF Send
<1> HIDE DEF n
<1>3. sent.rounds = k.rounds /\ sent.probe = k.probe
  BY <1>1 DEF Call
<1> HIDE DEF sent
<1>4. call'[c] = sent
  BY <1>2 DEF TypeOK
<1>. QED BY <1>2, <1>3, <1>4

\* The rounds of a call are in step with its place after every step.
LEMMA RoundsStep ==
  ASSUME TypeOK, [CallsNext]_callsVars, \A c \in Caller : RoundsOK(call[c])
  PROVE  \A c \in Caller : RoundsOK(call'[c])
<1>0. /\ ProbeRounds \in Nat /\ \A c \in Caller : call[c] \in Call
      /\ "lost" \in Failure /\ "empty" \in Failure
      /\ {"answered", "failed", "outage"} \subseteq Verdict
  BY CallsAssumption DEF TypeOK, Failure, Verdict
<1>1. ASSUME NEW c \in Caller, NEW k \in Call, Send(c, k), k.rounds = 0
      PROVE  \A d \in Caller : RoundsOK(call'[d])
  <2>1. call'[c].pc = "asking" /\ call'[c].rounds = 0 /\ \A d \in Caller \ {c} : call'[d] = call[d]
    BY <1>1, SendEffect, SendAsks
  <2>. QED BY <2>1 DEF RoundsOK
<1>2. ASSUME NEW c \in Caller, NEW k \in Call, Becomes(c, k), RoundsOK(k)
      PROVE  \A d \in Caller : RoundsOK(call'[d])
  BY <1>2, BecomesEffect
<1>3. \A k \in Call, v \in Verdict : Ended(k, v) \in Call /\ RoundsOK(Ended(k, v))
  BY EndedCall DEF RoundsOK
<1>4. ASSUME NEW c \in Caller, Begin(c) PROVE \A d \in Caller : RoundsOK(call'[d])
  <2>1. Fresh \in Call /\ Fresh.rounds = 0
    BY FreshCall DEF Fresh, Idle
  <2>2. Ended(Fresh, "outage") \in Call /\ RoundsOK(Ended(Fresh, "outage"))
    BY <1>0, <1>3, <2>1
  <2>. QED BY <1>1, <1>2, <1>4, <2>1, <2>2, BeginStep
<1>5. ASSUME NEW c \in Caller, NEW o \in Failure \cup {"answered"}, Outcome(c, o)
      PROVE  \A d \in Caller : RoundsOK(call'[d])
  <2> DEFINE k == call[c]
  <2>1. k \in Call /\ k.pc = "asking" /\ k.rounds = 0
    BY <1>0, <1>5, OutcomeStep DEF RoundsOK
  <2>2. \A m \in {StalledFree(k), StalledPaid(k), FailedOnce(k), Waiting(k),
                  WaitingToProbe(k, "lost"), WaitingToProbe(k, "empty")} :
          m \in Call /\ m.rounds = 0
    <3>1. /\ StalledFree(k) \in Call /\ StalledPaid(k) \in Call /\ FailedOnce(k) \in Call
          /\ Waiting(k) \in Call
          /\ WaitingToProbe(k, "lost") \in Call /\ WaitingToProbe(k, "empty") \in Call
      BY <1>0, <2>1, StepCalls
    <3>2. \A f \in {"lost", "empty"} :
            /\ StalledFree(k).rounds = 0 /\ StalledPaid(k).rounds = 0 /\ FailedOnce(k).rounds = 0
            /\ Waiting(k).rounds = 0 /\ WaitingToProbe(k, f).rounds = 0
      BY <1>0, <2>1, RoundsCalls
    <3>. QED BY <3>1, <3>2
  <2>3. \A m \in Call : m.rounds = 0 => Switched(m) \in Call /\ Switched(m).rounds = 0
    BY <1>0, SwitchedCall, RoundsCalls
  <2>4. [k EXCEPT !.streamed = FALSE] \in Call /\ [k EXCEPT !.streamed = FALSE].rounds = 0
    BY <2>1 DEF Call
  <2>5. \A m \in Call : m.rounds = 0 => RoundsOK(m)
    BY <1>0 DEF RoundsOK
  <2>6. \A m \in {Waiting(k), Switched(WaitingToProbe(k, "lost")), Switched(WaitingToProbe(k, "empty"))} :
          m \in Call /\ RoundsOK(m)
    BY <2>2, <2>3, <2>5
  <2>7. \A m \in {k, StalledFree(k), StalledPaid(k), FailedOnce(k)}, v \in {"answered", "failed"} :
          Ended(m, v) \in Call /\ RoundsOK(Ended(m, v))
    BY <1>0, <1>3, <2>1, <2>2
  <2>8. \A m \in {[k EXCEPT !.streamed = FALSE], Switched(StalledPaid(k)), Switched(StalledFree(k))} :
          m \in Call /\ m.rounds = 0
    BY <2>2, <2>3, <2>4
  <2>. QED BY <1>1, <1>2, <1>5, <2>1, <2>6, <2>7, <2>8, OutcomeStep
<1>6. ASSUME NEW c \in Caller, Resend(c) PROVE \A d \in Caller : RoundsOK(call'[d])
  BY <1>0, <1>1, <1>6 DEF Resend, RoundsOK
<1>7. ASSUME NEW c \in Caller, NEW r \in BOOLEAN, Probe(c, r)
      PROVE  \A d \in Caller : RoundsOK(call'[d])
  <2> DEFINE k == call[c]
  <2>1. k \in Call /\ k.pc = "waiting" /\ k.probe
    BY <1>0, <1>7, ProbeStep
  <2>2. /\ Probed(k) \in Call /\ Probed(k).rounds = 0
        /\ AnotherRound(k) \in Call /\ AnotherRound(k).pc = "waiting" /\ AnotherRound(k).probe
        /\ AnotherRound(k).rounds = k.rounds + 1
    BY <1>0, <2>1, StepCalls, RoundsCalls
  <2>3. Ended(AnotherRound(k), "outage") \in Call /\ RoundsOK(Ended(AnotherRound(k), "outage"))
    BY <1>0, <1>3, <2>2
  <2>4. IF r THEN Send(c, Probed(k))
        ELSE Becomes(c, IF AnotherRound(k).rounds > ProbeRounds THEN Ended(AnotherRound(k), "outage")
                        ELSE AnotherRound(k))
    BY <1>7 DEF Probe, Probed, AnotherRound
  <2>5. ~(AnotherRound(k).rounds > ProbeRounds) => RoundsOK(AnotherRound(k))
    BY <1>0, <2>1, <2>2 DEF RoundsOK, Call
  <2>. QED BY <1>1, <1>2, <2>2, <2>3, <2>4, <2>5
<1>8. CASE ComeBack
  <2>1. \A m \in Call : LET n == [m EXCEPT !.dead = FALSE] IN
          n.pc = m.pc /\ n.rounds = m.rounds /\ n.probe = m.probe
    BY DEF Call
  <2>2. \A d \in Caller : call'[d] = [call[d] EXCEPT !.dead = FALSE]
    BY <1>8 DEF ComeBack
  <2>3. \A d \in Caller : /\ call'[d].pc = call[d].pc /\ call'[d].rounds = call[d].rounds
                          /\ call'[d].probe = call[d].probe
    BY <1>0, <2>1, <2>2
  <2>. QED BY <2>3 DEF RoundsOK
<1>9. ASSUME UNCHANGED call PROVE \A d \in Caller : RoundsOK(call'[d])
  BY <1>9
<1>. QED BY <1>4, <1>5, <1>6, <1>7, <1>8, <1>9
            DEF CallsNext, Step, ForgetFailures, ForgetMark, GoDown, callsVars

\* A step of a call while the endpoint is down: a call is refused, begins, loses its
\* request, asks again, or has a probe fail.
LEMMA DownStep ==
  ASSUME SeenInv, configured, ~up, MaxRetries >= 1, \A c \in Caller : RoundsOK(call[c]),
         NEW c \in Caller, Step(c)
  PROVE  LET k == call[c]
             m == call'[c]
         IN  /\ up' = up /\ \A d \in Caller \ {c} : call'[d] = call[d]
             /\ \/ /\ k.pc = "idle" /\ m.pc = "idle" /\ BudgetSpent
                   /\ failures' = failures /\ asked' = asked
                \/ /\ k.pc = "idle" /\ m.pc = "asking" /\ m.dead /\ ~BudgetSpent
                   /\ failures' = failures /\ asked' = asked + 1
                \/ /\ k.pc = "asking" /\ failures' = failures + 1 /\ asked' = asked
                   /\ \/ m.pc = "idle" /\ ~k.dead
                      \/ m.pc = "waiting" /\ m.probe /\ m.rounds = 0
                \/ /\ Paused(k) /\ m.pc = "asking" /\ ~m.dead
                   /\ failures' = failures /\ asked' = asked + 1
                \/ /\ k.pc = "waiting" /\ k.probe /\ failures' = failures + 1 /\ asked' = asked
                   /\ \/ m.pc = "idle" /\ k.rounds = ProbeRounds
                      \/ m.pc = "waiting" /\ m.probe /\ m.rounds = k.rounds + 1
<1> DEFINE k == call[c]
           m == call'[c]
<1>0. /\ TypeOK /\ k \in Call /\ Seen(k) /\ RoundsOK(k) /\ ProbeRounds \in Nat /\ MaxRetries \in Nat
      /\ "lost" \in Failure /\ "outage" \in Verdict /\ "failed" \in Verdict
  BY CallsAssumption DEF SeenInv, TypeOK, Failure, Verdict
<1>1. CASE Begin(c)
  <2>1. Fresh \in Call /\ Fresh.dead /\ Ended(Fresh, "outage") \in Call
        /\ Ended(Fresh, "outage").pc = "idle"
    BY <1>0, FreshCall, EndedCall
  <2>2. k.pc = "idle" /\ up' = up /\ failures' = failures
        /\ IF BudgetSpent THEN Becomes(c, Ended(Fresh, "outage")) ELSE Send(c, Fresh)
    BY <1>1 DEF Begin, Fresh
  <2>3. CASE BudgetSpent
    BY <1>0, <2>1, <2>2, <2>3, BecomesEffect DEF Becomes
  <2>4. CASE ~BudgetSpent
    BY <1>0, <2>1, <2>2, <2>4, SendEffect, SendAsks
  <2>. QED BY <2>3, <2>4
<1>2. ASSUME NEW o \in Failure \cup {"answered"}, Outcome(c, o)
      PROVE  /\ up' = up /\ \A d \in Caller \ {c} : call'[d] = call[d]
             /\ k.pc = "asking" /\ failures' = failures + 1 /\ asked' = asked
             /\ \/ m.pc = "idle" /\ ~k.dead
                \/ m.pc = "waiting" /\ m.probe /\ m.rounds = 0
  <2>1. /\ o = "lost" /\ k.pc = "asking" /\ up' = up /\ Failed(c, "lost")
    BY <1>2 DEF Outcome
  <2>2. /\ failures' = failures + 1
        /\ Becomes(c, IF FailedOnce(k).failed <= MaxRetries THEN Switched(WaitingToProbe(k, "lost"))
                      ELSE Ended(FailedOnce(k), "failed"))
    BY <2>1 DEF Failed, ConnectionFailure, Retryable, FailedOnce, Waiting, WaitingToProbe
  <2>3. k.rounds = 0 /\ k.failed \in Nat
    BY <1>0, <2>1 DEF RoundsOK, Call
  <2>4. FailedOnce(k) \in Call /\ FailedOnce(k).failed = k.failed + 1
    BY <1>0, StepCalls
  <2>5. CASE FailedOnce(k).failed <= MaxRetries
    <3> DEFINE w == WaitingToProbe(k, "lost")
    <3>1. w \in Call /\ w.pc = "waiting" /\ w.rounds = k.rounds
      BY <1>0, StepCalls, RoundsCalls
    <3>2. w.probe
      BY <1>0, StepCalls
    <3> HIDE DEF w
    <3>3. Switched(w) \in Call /\ Switched(w).pc = "waiting" /\ Switched(w).probe = w.probe
      BY <3>1, SwitchedCall
    <3>4. Switched(w).rounds = w.rounds
      BY <1>0, <3>1, RoundsCalls
    <3>5. Becomes(c, Switched(w))
      BY <2>2, <2>5 DEF w
    <3>6. m = Switched(w) /\ asked' = asked /\ \A d \in Caller \ {c} : call'[d] = call[d]
      BY <1>0, <3>3, <3>5, BecomesEffect DEF Becomes
    <3>. QED BY <2>1, <2>2, <2>3, <3>1, <3>2, <3>3, <3>4, <3>6
  <2>6. CASE ~(FailedOnce(k).failed <= MaxRetries)
    <3>1. ~k.dead
      BY <1>0, <2>1, <2>3, <2>4, <2>6 DEF Seen
    <3>2. Ended(FailedOnce(k), "failed") \in Call /\ Ended(FailedOnce(k), "failed").pc = "idle"
      BY <1>0, <2>4, EndedCall
    <3>3. Becomes(c, Ended(FailedOnce(k), "failed"))
      BY <2>2, <2>6
    <3>4. m = Ended(FailedOnce(k), "failed") /\ asked' = asked
          /\ \A d \in Caller \ {c} : call'[d] = call[d]
      BY <1>0, <3>2, <3>3, BecomesEffect DEF Becomes
    <3>. QED BY <2>1, <2>2, <3>1, <3>2, <3>4
  <2>. QED BY <2>5, <2>6
<1>3. CASE Resend(c)
  <2>1. Paused(k) /\ Send(c, k) /\ up' = up /\ failures' = failures
    BY <1>3 DEF Resend, Paused
  <2>2. ~k.dead
    BY <1>0, <2>1 DEF Seen, Paused
  <2>. QED BY <1>0, <2>1, <2>2, SendEffect, SendAsks
<1>4. ASSUME NEW r \in BOOLEAN, Probe(c, r)
      PROVE  /\ up' = up /\ \A d \in Caller \ {c} : call'[d] = call[d]
             /\ k.pc = "waiting" /\ k.probe /\ failures' = failures + 1 /\ asked' = asked
             /\ \/ m.pc = "idle" /\ k.rounds = ProbeRounds
                \/ m.pc = "waiting" /\ m.probe /\ m.rounds = k.rounds + 1
  <2> DEFINE a == AnotherRound(k)
  <2>1. /\ k.pc = "waiting" /\ k.probe /\ up' = up /\ failures' = failures + 1
        /\ Becomes(c, IF a.rounds > ProbeRounds THEN Ended(a, "outage") ELSE a)
    BY <1>4 DEF Probe, Probes, AnotherRound
  <2>2. a \in Call /\ a.pc = "waiting" /\ a.probe = k.probe
    BY <1>0, <2>1, StepCalls
  <2>3. a.rounds = k.rounds + 1
    BY <1>0, RoundsCalls
  <2> HIDE DEF a
  <2>4. Ended(a, "outage") \in Call /\ Ended(a, "outage").pc = "idle"
    BY <1>0, <2>2, EndedCall
  <2>5. asked' = asked
    BY <2>1 DEF Becomes
  <2>6. CASE a.rounds > ProbeRounds
    <3>1. m = Ended(a, "outage") /\ \A d \in Caller \ {c} : call'[d] = call[d]
      BY <1>0, <2>1, <2>4, <2>6, BecomesEffect
    <3>2. k.rounds \in Nat /\ k.rounds <= ProbeRounds
      BY <1>0, <2>1 DEF RoundsOK, Call
    <3>3. k.rounds = ProbeRounds
      BY <1>0, <2>3, <2>6, <3>2
    <3>. QED BY <2>1, <2>4, <2>5, <3>1, <3>3
  <2>7. CASE ~(a.rounds > ProbeRounds)
    <3>1. m = a /\ \A d \in Caller \ {c} : call'[d] = call[d]
      BY <1>0, <2>1, <2>2, <2>7, BecomesEffect
    <3>. QED BY <2>1, <2>2, <2>3, <2>5, <3>1
  <2>. QED BY <2>6, <2>7
<1>. QED BY <1>1, <1>2, <1>3, <1>4 DEF Step

\* What another caller may still ask does not grow while failures are recorded.
LEMMA OthersAskNoMore ==
  ASSUME TypeOK, failures' \in Nat, failures' >= failures, NEW d \in Caller, call'[d] = call[d],
         RoundsOK(call[d])
  PROVE  /\ BudgetSpent => BudgetSpent'
         /\ d \in MayAsk' => d \in MayAsk
         /\ d \in MayAskTwice' => d \in MayAskTwice
<1>1. /\ failures \in Nat /\ MaxFailures \in Nat /\ ProbeRounds \in Nat /\ call[d].rounds \in Nat
  BY CallsAssumption DEF TypeOK, Call
<1>2. BudgetSpent => BudgetSpent'
  BY <1>1 DEF BudgetSpent
<1>3. Closing(call[d]) => Closing(call[d])'
  BY <1>1 DEF Closing
<1>. QED BY <1>2, <1>3 DEF MayAsk, MayAskTwice, Paused

\* A set that loses a member has one less.
LEMMA OneLess ==
  ASSUME NEW S, IsFiniteSet(S), NEW T, T \subseteq S, NEW x \in S, x \notin T
  PROVE  Cardinality(T) + 1 <= Cardinality(S)
<1>1. /\ IsFiniteSet(S \ {x}) /\ Cardinality(S \ {x}) = Cardinality(S) - 1
  BY FS_RemoveElement
<1>2. T \subseteq S \ {x}
  OBVIOUS
<1>3. IsFiniteSet(T) /\ Cardinality(T) <= Cardinality(S \ {x})
  BY <1>1, <1>2, FS_Subset
<1>4. Cardinality(T) \in Nat /\ Cardinality(S) \in Nat
  BY <1>3, FS_CardinalityType
<1>. QED BY <1>1, <1>3, <1>4

\* A set that grows by none has no more members.
LEMMA NoMore ==
  ASSUME NEW S, IsFiniteSet(S), NEW T, T \subseteq S
  PROVE  Cardinality(T) \in Nat /\ Cardinality(S) \in Nat /\ Cardinality(T) <= Cardinality(S)
BY FS_Subset, FS_CardinalityType

\* While the endpoint is down, who asks it gives up one of the requests that were
\* left, and the probes that fail never give one back.
LEMMA DownAsks ==
  ASSUME SparedInv, configured, ~up, MaxRetries >= 1, 0 < MaxFailures, MaxFailures <= ProbeRounds + 2,
         NEW c \in Caller, Step(c)
  PROVE  Askable'
<1> DEFINE k == call[c]
           m == call'[c]
<1>1. /\ TypeOK /\ SeenInv /\ \A d \in Caller : RoundsOK(call[d]) /\ Askable
      /\ asked \in Nat /\ failures \in Nat /\ MaxFailures \in Nat /\ ProbeRounds \in Nat
      /\ k \in Call /\ k.rounds \in Nat
  BY CallsAssumption DEF SparedInv, SeenInv, TypeOK, Call
<1>2. /\ up' = up /\ \A d \in Caller \ {c} : call'[d] = call[d]
      /\ \/ /\ k.pc = "idle" /\ m.pc = "idle" /\ BudgetSpent
            /\ failures' = failures /\ asked' = asked
         \/ /\ k.pc = "idle" /\ m.pc = "asking" /\ m.dead /\ ~BudgetSpent
            /\ failures' = failures /\ asked' = asked + 1
         \/ /\ k.pc = "asking" /\ failures' = failures + 1 /\ asked' = asked
            /\ \/ m.pc = "idle" /\ ~k.dead
               \/ m.pc = "waiting" /\ m.probe /\ m.rounds = 0
         \/ /\ Paused(k) /\ m.pc = "asking" /\ ~m.dead
            /\ failures' = failures /\ asked' = asked + 1
         \/ /\ k.pc = "waiting" /\ k.probe /\ failures' = failures + 1 /\ asked' = asked
            /\ \/ m.pc = "idle" /\ k.rounds = ProbeRounds
               \/ m.pc = "waiting" /\ m.probe /\ m.rounds = k.rounds + 1
  BY <1>1, DownStep
<1>3. failures' \in Nat /\ failures' >= failures
  BY <1>1, <1>2
<1>4. /\ BudgetSpent => BudgetSpent'
      /\ \A d \in Caller \ {c} : /\ d \in MayAsk' => d \in MayAsk
                                 /\ d \in MayAskTwice' => d \in MayAskTwice
  <2>1. BudgetSpent => BudgetSpent'
    BY <1>1, <1>3 DEF BudgetSpent
  <2>. QED BY <1>1, <1>2, <1>3, <2>1, OthersAskNoMore
<1>5. /\ IsFiniteSet(MayAsk) /\ IsFiniteSet(MayAskTwice)
      /\ Cardinality(Caller) \in Nat
      /\ MayAsk' \subseteq Caller /\ MayAskTwice' \subseteq Caller
  <2>1. MayAsk \subseteq Caller /\ MayAskTwice \subseteq Caller
    BY DEF MayAsk, MayAskTwice
  <2>2. MayAsk' \subseteq Caller /\ MayAskTwice' \subseteq Caller
    BY DEF MayAsk, MayAskTwice
  <2>. QED BY <2>1, <2>2, CallsAssumption, FS_Subset, FS_CardinalityType
<1>6. /\ c \in MayAsk <=> Paused(k) \/ (~BudgetSpent /\ ~Closing(k))
      /\ c \in MayAskTwice <=> Paused(k) /\ ~BudgetSpent
      /\ c \in MayAsk' <=> Paused(m) \/ (~BudgetSpent' /\ ~Closing(call[c])')
      /\ c \in MayAskTwice' <=> Paused(m) /\ ~BudgetSpent'
  BY DEF MayAsk, MayAskTwice, Paused
<1>7. Closing(call[c])' <=> \/ m.pc = "asking" /\ m.dead
                            \/ m.pc = "waiting" /\ m.probe
                               /\ failures' + ProbeRounds + 1 - m.rounds >= MaxFailures
  BY DEF Closing
<1>8. ASSUME asked' = asked, c \in MayAsk' => c \in MayAsk, c \in MayAskTwice' => c \in MayAskTwice
      PROVE  Askable'
  <2>1. MayAsk' \subseteq MayAsk /\ MayAskTwice' \subseteq MayAskTwice
    BY <1>4, <1>5, <1>8
  <2>. QED BY <1>1, <1>5, <1>8, <2>1, NoMore DEF Askable
<1>9. CASE /\ k.pc = "idle" /\ m.pc = "idle" /\ BudgetSpent /\ asked' = asked
  BY <1>4, <1>6, <1>8, <1>9 DEF Paused
<1>10. CASE /\ k.pc = "idle" /\ m.pc = "asking" /\ m.dead /\ ~BudgetSpent /\ asked' = asked + 1
  <2>1. c \in MayAsk /\ c \notin MayAsk' /\ c \notin MayAskTwice'
    BY <1>6, <1>7, <1>10 DEF Paused, Closing
  <2>2. MayAsk' \subseteq MayAsk /\ MayAskTwice' \subseteq MayAskTwice
    BY <1>4, <1>5, <2>1
  <2>3. Cardinality(MayAsk') + 1 <= Cardinality(MayAsk)
    BY <1>5, <2>1, <2>2, OneLess
  <2>. QED BY <1>1, <1>5, <1>10, <2>2, <2>3, NoMore DEF Askable
<1>11. CASE /\ k.pc = "asking" /\ failures' = failures + 1 /\ asked' = asked
            /\ \/ m.pc = "idle" /\ ~k.dead
               \/ m.pc = "waiting" /\ m.probe /\ m.rounds = 0
  <2>1. c \notin MayAskTwice' /\ ~Paused(m)
    BY <1>6, <1>11 DEF Paused
  <2>2. CASE m.pc = "idle" /\ ~k.dead
    BY <1>4, <1>6, <1>8, <1>11, <2>1, <2>2 DEF Closing
  <2>3. CASE m.pc = "waiting" /\ m.probe /\ m.rounds = 0
    <3>1. Closing(call[c])'
      BY <1>1, <1>7, <1>11, <2>3
    <3>. QED BY <1>6, <1>8, <1>11, <2>1, <3>1
  <2>. QED BY <1>11, <2>2, <2>3
<1>12. CASE Paused(k) /\ m.pc = "asking" /\ ~m.dead /\ failures' = failures /\ asked' = asked + 1
  <2>1. c \in MayAsk /\ ~Paused(m) /\ c \notin MayAskTwice' /\ (BudgetSpent' <=> BudgetSpent)
    BY <1>6, <1>12 DEF Paused, BudgetSpent
  <2>2. MayAsk' \subseteq MayAsk /\ MayAskTwice' \subseteq MayAskTwice
    BY <1>4, <1>5, <2>1
  <2>3. CASE BudgetSpent
    <3>1. c \notin MayAsk'
      BY <1>6, <2>1, <2>3
    <3>2. Cardinality(MayAsk') + 1 <= Cardinality(MayAsk)
      BY <1>5, <2>1, <2>2, <3>1, OneLess
    <3>. QED BY <1>1, <1>5, <1>12, <2>2, <3>2, NoMore DEF Askable
  <2>4. CASE ~BudgetSpent
    <3>1. c \in MayAskTwice
      BY <1>6, <1>12, <2>4
    <3>2. Cardinality(MayAskTwice') + 1 <= Cardinality(MayAskTwice)
      BY <1>5, <2>1, <2>2, <3>1, OneLess
    <3>. QED BY <1>1, <1>5, <1>12, <2>2, <3>2, NoMore DEF Askable
  <2>. QED BY <2>3, <2>4
<1>13. CASE /\ k.pc = "waiting" /\ k.probe /\ failures' = failures + 1 /\ asked' = asked
            /\ \/ m.pc = "idle" /\ k.rounds = ProbeRounds
               \/ m.pc = "waiting" /\ m.probe /\ m.rounds = k.rounds + 1
  <2>1. c \notin MayAskTwice' /\ ~Paused(m)
    BY <1>6, <1>13 DEF Paused
  <2>2. CASE m.pc = "idle" /\ k.rounds = ProbeRounds
    <3>1. Closing(k) => BudgetSpent'
      BY <1>1, <1>13, <2>2 DEF Closing, BudgetSpent
    <3>. QED BY <1>4, <1>6, <1>8, <1>13, <2>1, <3>1
  <2>3. CASE m.pc = "waiting" /\ m.probe /\ m.rounds = k.rounds + 1
    <3>1. Closing(k) => Closing(call[c])'
      BY <1>1, <1>7, <1>13, <2>3 DEF Closing
    <3>. QED BY <1>4, <1>6, <1>8, <1>13, <2>1, <3>1
  <2>. QED BY <1>13, <2>2, <2>3
<1>. QED BY <1>2, <1>9, <1>10, <1>11, <1>12, <1>13

\* With nothing asked there is enough left for everybody.
LEMMA NothingAsked ==
  ASSUME asked' = 0
  PROVE  Askable'
<1>1. MayAsk' \subseteq Caller /\ MayAskTwice' \subseteq Caller
  BY DEF MayAsk, MayAskTwice
<1>. QED BY <1>1, CallsAssumption, NoMore DEF Askable

\* The invariant is kept by every step.
LEMMA SparedStep ==
  ASSUME MaxRetries >= 1, 0 < MaxFailures, MaxFailures <= ProbeRounds + 2
  PROVE  SparedInv /\ [CallsNext]_callsVars => SparedInv'
<1> SUFFICES ASSUME SparedInv, [CallsNext]_callsVars PROVE SparedInv'
  OBVIOUS
<1>1. SeenInv' /\ \A c \in Caller : RoundsOK(call'[c])
  BY SeenStep, RoundsStep DEF SparedInv, SeenInv
<1>2. ASSUME NEW c \in Caller, Step(c) PROVE up' = up /\ (up => asked' = 0) /\ (configured => Askable')
  <2>1. up' = up
    BY <1>2 DEF Step, Begin, Outcome, Resend, Probe
  <2>2. CASE up
    <3>1. asked = 0
      BY <2>2 DEF SparedInv
    <3>2. asked' = asked
      BY <1>2, <2>2 DEF Step, Begin, Outcome, Resend, Probe, Send, Becomes,
                        Answered, StreamRejected, Stalled, Failed
    <3>. QED BY <2>1, <3>1, <3>2, NothingAsked
  <2>3. CASE ~up
    BY <1>2, <2>1, <2>3, DownAsks
  <2>. QED BY <2>1, <2>2, <2>3
<1>3. ASSUME UNCHANGED <<up, call, asked, failures>> PROVE (up' => asked' = 0) /\ (configured => Askable')
  BY <1>3 DEF SparedInv, Askable, MayAsk, MayAskTwice, BudgetSpent, Closing
<1>4. ASSUME asked' = 0 PROVE (up' => asked' = 0) /\ (configured => Askable')
  BY <1>4, NothingAsked
<1>5. (up' => asked' = 0) /\ (configured => Askable')
  <2>1. CASE ForgetMark \/ UNCHANGED callsVars
    BY <1>3, <2>1 DEF ForgetMark, callsVars
  <2>2. ASSUME NEW left \in 0..(failures - 1), ForgetFailures(left) PROVE asked' = 0
    BY <2>2 DEF ForgetFailures
  <2>3. CASE GoDown \/ ComeBack
    BY <1>4, <2>3 DEF GoDown, ComeBack
  <2>. QED BY <1>2, <1>4, <2>1, <2>2, <2>3 DEF CallsNext
<1>. QED BY <1>1, <1>5, ConfiguredStays DEF SparedInv, RoundsOK

\* For any number of agents, when a call retries at least once and its own probes
\* can spend the budget of the endpoint (5 failures and 3 rounds by default): an
\* endpoint with a base URL that is down is asked at most twice by each within a
\* recovery window.
THEOREM DeadIsSpared ==
  ASSUME MaxRetries >= 1, 0 < MaxFailures, MaxFailures <= ProbeRounds + 2
  PROVE  CallsSpec => []DeadEndpointSpared
<1>1. CallsInit => SparedInv
  <2>1. SUFFICES ASSUME CallsInit PROVE SparedInv
    OBVIOUS
  <2>2. \A c \in Caller : call[c] = Idle
    BY <2>1 DEF CallsInit
  <2>3. Seen(Idle) /\ RoundsOK(Idle)
    BY IdleCall DEF Seen, RoundsOK
  <2>4. SeenInv /\ \A c \in Caller : RoundsOK(call[c])
    BY <2>1, <2>2, <2>3, InitialTypes DEF SeenInv
  <2>5. MayAsk \subseteq Caller /\ MayAskTwice \subseteq Caller
    BY DEF MayAsk, MayAskTwice
  <2>6. asked = 0 /\ Askable
    BY <2>1, <2>5, CallsAssumption, NoMore DEF CallsInit, Askable
  <2>. QED BY <2>4, <2>6 DEF SparedInv
<1>2. SparedInv => DeadEndpointSpared
  <2>1. SUFFICES ASSUME SparedInv PROVE DeadEndpointSpared
    OBVIOUS
  <2>2. MayAsk \subseteq Caller /\ MayAskTwice \subseteq Caller
    BY DEF MayAsk, MayAskTwice
  <2>3. asked \in Nat
    BY <2>1 DEF SparedInv, SeenInv, TypeOK
  <2>. QED BY <2>1, <2>2, <2>3, CallsAssumption, NoMore DEF SparedInv, Askable, DeadEndpointSpared
<1>3. SparedInv /\ [CallsNext]_callsVars => SparedInv'
  BY SparedStep
<1>. QED BY <1>1, <1>2, <1>3, PTL DEF CallsSpec
=============================================================================
