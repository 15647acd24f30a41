------------------------------ MODULE TddLayers ------------------------------
(***************************************************************************)
(* The TDD loop of one leaf: _run_tdd_for_node of core/phases.py over the  *)
(* executor of core/test_executor.py.  The layers are visited once each,   *)
(* in order; agent sessions call run_tests, which has a budget per layer   *)
(* and may hand the session on to the next layer.  A call is charged when  *)
(* it starts and judged when its run answers; the calls of one batch of an *)
(* agent overlap.  What an agent edits between two runs is the outcome of  *)
(* the second.                                                             *)
(***************************************************************************)
EXTENDS Integers, Sequences, FiniteSets

CONSTANTS
  Layers,          \* the scheduled layers in order
  Files,           \* [layer -> its registered test files]
  Cases,           \* [file -> its test cases]
  Filterable,      \* the layers whose runner takes a case filter (E2E)
  Call,            \* the calls of run_tests that may be under way at once
  RunBudget,       \* TDD_RUN_TESTS_BUDGET
  StallThreshold   \* TDD_STALL_THRESHOLD

Layer == {Layers[k] : k \in DOMAIN Layers}

ASSUME LayersAssumption ==
  /\ Layers \in Seq(STRING) /\ Layers # <<>>
  /\ \A j, k \in DOMAIN Layers : Layers[j] = Layers[k] => j = k
  /\ DOMAIN Files = Layer
  /\ \A l \in Layer : IsFiniteSet(Files[l]) /\ Files[l] # {} /\ Files[l] \subseteq DOMAIN Cases
  /\ RunBudget \in Nat \ {0} /\ StallThreshold \in Nat \ {0}

VARIABLES
  at,          \* the step of the loop: [pc, the index of the layer]
  usage,       \* [layer -> run_tests calls that were charged]
  states,      \* [layer -> [file -> green, red or none]]
  passed,      \* the layers that are closed by a pass
  proof,       \* [layer -> the cases its latest run found passing, if it passed]
  streak,      \* [layer -> the failures in a row that are the same]
  lastFiles,   \* [layer -> the files of the last failure with a fingerprint]
  stopped,     \* the layers closed by the stall governance
  installs,    \* the layers that had their extra attempt for a package
  filter,      \* [layer -> the cases the next run is narrowed to]
  active,      \* the layer run_tests accepts, or "none"
  calls,       \* [call -> its layer, its files and the filter it was given]
  back,        \* in this session an answer took it back from a later layer
  environment, \* the environment failure that is not repaired, or "none"
  session,     \* sessions opened, and the charged calls before the last one
  reverified   \* the layers the verdict ran again

vars == <<at, usage, states, passed, proof, streak, lastFiles, stopped, installs, filter,
          active, calls, back, environment, session, reverified>>

\* What only run_tests changes.
counters == <<usage, streak, lastFiles, stopped, installs, filter, calls>>
ledger == <<counters, back>>

FileState == {"green", "red", "none"}

EnvironmentFailure == {"package", "other"}

Idle == [layer |-> "none", files |-> {}, narrowed |-> {}]

CasesOf(files) == UNION {Cases[f] : f \in files}

Init ==
  /\ at = [pc |-> "preflight", layer |-> 1]
  /\ usage = [l \in Layer |-> 0]
  /\ states \in [Layer -> UNION {[Files[l] -> FileState] : l \in Layer}]
  /\ \A l \in Layer : DOMAIN states[l] = Files[l]
  /\ passed = {}
  /\ proof = [l \in Layer |-> {}]
  /\ streak = [l \in Layer |-> 0]
  /\ lastFiles = [l \in Layer |-> {}]
  /\ stopped = {}
  /\ installs = {}
  /\ filter = [l \in Layer |-> {}]
  /\ active = "none"
  /\ calls = [c \in Call |-> Idle]
  /\ back = FALSE
  /\ environment = "none"
  /\ session = [count |-> 0, before |-> 0]
  /\ reverified = {}

Here == Layers[at.layer]

Scheduled == at.layer \in DOMAIN Layers

Spent(l) == usage[l] >= RunBudget

AllGreen(l) == \A f \in Files[l] : states[l][f] = "green"

Go(pc) == at' = [at EXCEPT !.pc = pc]

NextLayer(pc) == at' = [pc |-> pc, layer |-> at.layer + 1]

\* Files that are verified green keep their state when a run of several fails.
Demoted(l, files) ==
  [states EXCEPT ![l] =
     [f \in Files[l] |-> IF f \in files /\ @[f] # "green" THEN "red" ELSE @[f]]]

\* run_full_layer: one run of all files by the system, outside the budget.
FullRun(l, ok) ==
  /\ passed' = IF ok THEN passed \cup {l} ELSE passed
  /\ states' = IF ok THEN states ELSE Demoted(l, Files[l])
  /\ proof' = [proof EXCEPT ![l] = IF ok THEN CasesOf(Files[l]) ELSE {}]

-----------------------------------------------------------------------------
(* The loop over the layers *)

\* A test contract that cannot hold stops the pass before any layer.
Preflight(holds) ==
  /\ at.pc = "preflight"
  /\ Go(IF holds THEN "enter" ELSE "refused")
  /\ UNCHANGED <<ledger, states, passed, proof, active, environment, session, reverified>>

\* A layer is skipped when it is closed; an environment failure skips the rest.
Enter ==
  /\ at.pc = "enter"
  /\ IF ~Scheduled \/ environment # "none" THEN at' = [pc |-> "verdict", layer |-> 1]
     ELSE IF Here \in passed THEN NextLayer("enter")
     ELSE Go("baseline")
  /\ UNCHANGED <<ledger, states, passed, proof, active, environment, session, reverified>>

\* Each file without a state runs alone; an environment failure ends the
\* baseline and leaves the file red for the first session.
BaselineFile(f, outcome) ==
  /\ at.pc = "baseline" /\ f \in Files[Here] /\ states[Here][f] = "none"
  /\ states' = [states EXCEPT ![Here][f] = IF outcome = "green" THEN "green" ELSE "red"]
  /\ IF outcome = "environment" THEN Go("loop") /\ active' = Here
     ELSE UNCHANGED <<at, active>>
  /\ UNCHANGED <<ledger, passed, proof, environment, session, reverified>>

Baselined == \A f \in Files[Here] : states[Here][f] # "none"

\* The fast path: a layer whose files are all green needs no session when the
\* full run passes.
FastPath(ok) ==
  /\ at.pc = "baseline" /\ Baselined /\ AllGreen(Here)
  /\ FullRun(Here, ok)
  /\ IF ok THEN NextLayer("enter") /\ UNCHANGED active
     ELSE Go("loop") /\ active' = Here
  /\ UNCHANGED <<ledger, environment, session, reverified>>

Pin ==
  /\ at.pc = "baseline" /\ Baselined /\ ~AllGreen(Here)
  /\ Go("loop") /\ active' = Here
  /\ UNCHANGED <<ledger, states, passed, proof, environment, session, reverified>>

Leave == NextLayer("enter") /\ active' = "none"

Settled == Here \in passed \/ environment # "none"

LeaveSettled ==
  /\ at.pc = "loop" /\ Settled
  /\ Leave
  /\ UNCHANGED <<ledger, states, passed, proof, environment, session, reverified>>

\* Files that are green one by one are closed by a run of the system.
CloseBySystem(ok) ==
  /\ at.pc = "loop" /\ ~Settled /\ AllGreen(Here)
  /\ FullRun(Here, ok)
  /\ IF ok THEN Leave ELSE Go("open") /\ UNCHANGED active
  /\ UNCHANGED <<ledger, environment, session, reverified>>

MaxSessions == RunBudget * Len(Layers)

OpenSession ==
  /\ at.pc = "open" \/ (at.pc = "loop" /\ ~Settled /\ ~AllGreen(Here))
  /\ IF Spent(Here) \/ session.count >= MaxSessions THEN Leave /\ UNCHANGED session
     ELSE /\ session' = [count |-> session.count + 1, before |-> usage[Here]]
          /\ Go("session")
          /\ UNCHANGED active
  /\ back' = FALSE
  /\ UNCHANGED <<counters, states, passed, proof, environment, reverified>>

-----------------------------------------------------------------------------
(* run_tests in a session *)

\* The next layer becomes the active one; the last one stays.
Successor(l) ==
  LET later == {k \in DOMAIN Layers : k > 1 /\ Layers[k - 1] = l} IN
  IF later = {} THEN l ELSE Layers[CHOOSE k \in later : TRUE]

Callable == at.pc = "session" /\ active \notin stopped /\ ~Spent(active)

\* A call of the active layer is charged and takes its filter along; then its
\* run is awaited.
StartRun(c, files) ==
  /\ Callable /\ calls[c] = Idle /\ files # {} /\ files \subseteq Files[active]
  /\ usage' = [usage EXCEPT ![active] = @ + 1]
  /\ calls' = [calls EXCEPT ![c] =
                 [layer |-> active, files |-> files, narrowed |-> filter[active]]]
  /\ UNCHANGED <<at, states, passed, proof, streak, lastFiles, stopped, installs, filter,
                 active, back, environment, session, reverified>>

\* The cases a run executes: the ones an earlier failure named, if it named any.
Selected(run) ==
  IF run.narrowed = {} THEN CasesOf(run.files) ELSE CasesOf(run.files) \cap run.narrowed

\* Variant for testing ClosedIsProved: the case filter is not looked at.
ClosesNarrowed(run) == run.files = Files[run.layer]

\* A passing run closes its layer when it ran every file without a case filter.
Closes(run) == run.files = Files[run.layer] /\ run.narrowed = {}

Answered(c) ==
  /\ at.pc = "session" /\ calls[c] # Idle
  /\ calls' = [calls EXCEPT ![c] = Idle]

\* The end of run_requested: an answer for a layer that is closed hands the session
\* to the next layer, whatever layer was active meanwhile.
HandOn(layer) ==
  /\ active' = IF layer \in passed' /\ Successor(layer) # layer THEN Successor(layer)
               ELSE active
  /\ back' = (back \/ (layer # active /\ active' # active))

RunPasses(c) ==
  LET run == calls[c] IN
  /\ Answered(c)
  /\ Selected(run) # {}
  /\ proof' = [proof EXCEPT ![run.layer] = Selected(run)]
  /\ filter' = [filter EXCEPT ![run.layer] = {}]
  /\ streak' = [streak EXCEPT ![run.layer] = 0]
  /\ lastFiles' = [lastFiles EXCEPT ![run.layer] = {}]
  /\ states' = [states EXCEPT ![run.layer] =
                  [f \in Files[run.layer] |-> IF f \in run.files THEN "green" ELSE @[f]]]
  /\ environment' = "none"
  /\ passed' = IF Closes(run) THEN passed \cup {run.layer} ELSE passed
  /\ HandOn(run.layer)
  /\ UNCHANGED <<at, usage, stopped, installs, session, reverified>>

Likeness == {"blank", "new", "repeated"}

\* _observe_failure: a failure repeats the last one when it has its fingerprint
\* and its files and nothing was changed in between.
Observed(run, likeness) ==
  /\ likeness = "repeated" => lastFiles[run.layer] = run.files
  /\ streak' = [streak EXCEPT ![run.layer] = CASE likeness = "blank"    -> 0
                                               [] likeness = "new"      -> 1
                                               [] likeness = "repeated" -> @ + 1]
  /\ lastFiles' = [lastFiles EXCEPT ![run.layer] = IF likeness = "blank" THEN {}
                                                   ELSE run.files]
  /\ stopped' = IF streak'[run.layer] >= StallThreshold THEN stopped \cup {run.layer}
                ELSE stopped

\* What every failing answer does to its layer.
Failed(c, likeness, named) ==
  LET run == calls[c] IN
  /\ Answered(c)
  /\ proof' = [proof EXCEPT ![run.layer] = {}]
  /\ filter' = [filter EXCEPT ![run.layer] = named]
  /\ Observed(run, likeness)
  /\ states' = Demoted(run.layer, run.files)
  /\ UNCHANGED <<at, passed, session, reverified>>
  /\ HandOn(run.layer)

\* An assertion fails, or the filter matches no case of the files.  The names
\* of the failing cases may not be recognized.
RunFails(c, likeness, named) ==
  /\ named \subseteq Selected(calls[c])
  /\ calls[c].layer \notin Filterable => named = {}
  /\ Failed(c, likeness, named)
  /\ environment' = IF calls[c].layer \in stopped' THEN environment ELSE "none"
  /\ UNCHANGED <<usage, installs>>

\* The workspace is broken.  The first failure allows one repair, a second one
\* for a package one more; then the budget of the layer is gone.
RunBreaks(c, likeness, failure) ==
  LET layer == calls[c].layer
      again == environment # "none" /\ layer \notin stopped'
      install == again /\ failure = "package" /\ layer \notin installs
  IN  /\ Failed(c, likeness, {})
      /\ installs' = IF install THEN installs \cup {layer} ELSE installs
      /\ usage' = IF again /\ ~install THEN [usage EXCEPT ![layer] = RunBudget] ELSE usage
      /\ environment' = IF layer \in stopped' \/ (again /\ ~install) THEN environment
                        ELSE failure

\* A call beyond the budget is refused and hands the session to the next layer.
AdvanceExhausted ==
  /\ at.pc = "session" /\ active \notin stopped /\ Spent(active)
  /\ environment = "none" /\ Successor(active) # active
  /\ active' = Successor(active)
  /\ UNCHANGED <<at, ledger, states, passed, proof, environment, session, reverified>>

\* Variant for testing SessionsSuffice: a session that ran nothing is followed
\* by another one.
LayerEndsWithoutIdle == Here \in passed \/ Here \in stopped \/ Spent(Here)

\* A session that ran no test of its layer is the last one of it.
LayerEnds == Here \in passed \/ Here \in stopped \/ Spent(Here) \/ usage[Here] = session.before

SessionEnds ==
  /\ at.pc = "session" /\ \A c \in Call : calls[c] = Idle
  /\ IF LayerEnds THEN Leave ELSE Go("loop") /\ UNCHANGED active
  /\ UNCHANGED <<ledger, states, passed, proof, environment, session, reverified>>

-----------------------------------------------------------------------------
(* The verdict *)

\* Variant for testing LateFixCounts: the budget has to be exceeded.
LateFixBeyondBudget(l) ==
  /\ l \notin passed /\ usage[l] > RunBudget /\ environment = "none"
  /\ \E k \in DOMAIN Layers : k > at.layer /\ Layers[k] \in passed

\* _reverify_budget_exhausted_layer: the fix may have landed in a later session.
LateFixPossible(l) ==
  /\ l \notin passed /\ Spent(l) /\ environment = "none"
  /\ \E k \in DOMAIN Layers : k > at.layer /\ Layers[k] \in passed

Verdict ==
  /\ at.pc = "verdict" /\ Scheduled /\ ~LateFixPossible(Here)
  /\ NextLayer("verdict")
  /\ UNCHANGED <<ledger, states, passed, proof, active, environment, session, reverified>>

Reverify(ok) ==
  /\ at.pc = "verdict" /\ Scheduled /\ LateFixPossible(Here)
  /\ FullRun(Here, ok)
  /\ reverified' = reverified \cup {Here}
  /\ NextLayer("verdict")
  /\ UNCHANGED <<ledger, active, environment, session>>

Finish ==
  /\ at.pc = "verdict" /\ ~Scheduled
  /\ Go(IF Layer = passed THEN "passed" ELSE "failed")
  /\ UNCHANGED <<ledger, states, passed, proof, active, environment, session, reverified>>

RunTests ==
  /\ at.pc = "session"
  /\ \E c \in Call :
       \/ \E files \in SUBSET Files[active] : StartRun(c, files)
       \/ RunPasses(c)
       \/ \E likeness \in Likeness :
            \/ \E named \in SUBSET Selected(calls[c]) : RunFails(c, likeness, named)
            \/ \E failure \in EnvironmentFailure : RunBreaks(c, likeness, failure)

Schedule ==
  \/ \E ok \in BOOLEAN :
       Preflight(ok) \/ FastPath(ok) \/ CloseBySystem(ok) \/ Reverify(ok)
  \/ Enter
  \/ at.pc = "baseline" /\ \E f \in Files[Here], outcome \in {"green", "red", "environment"} :
       BaselineFile(f, outcome)
  \/ Pin
  \/ LeaveSettled
  \/ OpenSession
  \/ SessionEnds
  \/ Verdict
  \/ Finish

Next == Schedule \/ RunTests \/ AdvanceExhausted

Spec == Init /\ [][Next]_vars

-----------------------------------------------------------------------------
(* Properties *)

Starts(c) == calls[c] = Idle /\ calls'[c] # Idle

\* A run of a layer that is closed, of which there is none to come but for the last.
RunsAgain(c) == Starts(c) /\ active \in passed /\ Successor(active) # active

\* The run that closes a layer executed every case of every file, in one go, and
\* all passed: no run narrowed to files or to failing cases closes it, however the
\* calls of a batch overlap.  No run of a closed layer but the last is started,
\* unless the answer of a call of an earlier layer took the session back.
ClosedIsProved ==
  [][/\ \A l \in Layer : l \in passed' \ passed => proof'[l] = CasesOf(Files[l])
     /\ \A c \in Call : RunsAgain(c) => back]_vars

\* What run_tests tells the agent: "further calls are rejected without consuming
\* budget" (core/test_executor.py:829).  It does not hold: an answer of an earlier
\* layer makes a closed layer the active one again.
ClosedIsNotRun == [][\A c \in Call : ~RunsAgain(c)]_vars

\* A layer is not failed for its budget alone while a fix may have landed later:
\* if it is failed with its budget spent, in a workspace that works, and a later
\* layer passed, then it was run once more.
LateFixCounts ==
  at.pc = "failed" /\ environment = "none" =>
    \A j, k \in DOMAIN Layers :
      j < k /\ Layers[k] \in passed /\ Layers[j] \notin passed /\ Spent(Layers[j])
        => Layers[j] \in reverified

\* The bound of sessions never cuts a pass short: a layer that still has budget
\* and is not closed finds one, since every session but the last of a layer was
\* charged for a run of it.
SessionsSuffice ==
  at.pc \in {"loop", "open"} /\ ~Settled /\ ~Spent(Here) => session.count < MaxSessions
=============================================================================
