--------------------------- MODULE TddLayersProofs ---------------------------
(***************************************************************************)
(* What TddLayers guarantees for every list of layers, every set of files  *)
(* and every budget: the bound of sessions cuts nothing short, a layer is  *)
(* closed by a run of all of it and left alone afterwards, and a layer     *)
(* that a later fix may have mended is not failed without another run.     *)
(***************************************************************************)
EXTENDS TddLayers, TLAPS

\* The sessions that the layers before the k-th one may have used.
Before(k) == RunBudget * (k - 1)

\* What the earlier layers may open is a number, and grows by a budget a layer.
LEMMA BeforeFacts ==
  /\ Before(1) = 0
  /\ \A k \in Nat \ {0} : Before(k) \in Nat /\ Before(k + 1) = Before(k) + RunBudget
  /\ \A k \in DOMAIN Layers : Before(k) + RunBudget <= MaxSessions
<1>1. RunBudget \in Nat \ {0} /\ Len(Layers) \in Nat /\ DOMAIN Layers = 1..Len(Layers)
  BY LayersAssumption
<1>2. Before(1) = 0
  BY <1>1 DEF Before
<1>3. ASSUME NEW k \in Nat \ {0}
      PROVE Before(k) \in Nat /\ Before(k + 1) = Before(k) + RunBudget
  <2>1. k - 1 \in Nat /\ (k + 1) - 1 = (k - 1) + 1
    OBVIOUS
  <2>2. ASSUME NEW m \in Nat PROVE RunBudget * m \in Nat /\ RunBudget * (m + 1) = RunBudget * m + RunBudget
    BY <1>1, <2>2
  <2> QED BY <2>1, <2>2 DEF Before
<1>4. ASSUME NEW k \in DOMAIN Layers
      PROVE Before(k) + RunBudget <= MaxSessions
  <2>1. PICK m \in Nat : Len(Layers) = k + m
    <3>1. Len(Layers) - k \in Nat /\ Len(Layers) = k + (Len(Layers) - k)
      BY <1>1
    <3> QED BY <3>1
  <2>2. MaxSessions = RunBudget * k + RunBudget * m
    BY <1>1, <2>1 DEF MaxSessions
  <2>3. Before(k) + RunBudget = RunBudget * k
    BY <1>1 DEF Before
  <2>4. RunBudget * k \in Nat /\ RunBudget * m \in Nat
    BY <1>1
  <2> QED BY <2>2, <2>3, <2>4
<1> QED BY <1>2, <1>3, <1>4

\* The successor of a layer is the one after it in the list.
LEMMA SuccessorIs ==
  ASSUME NEW i \in DOMAIN Layers
  PROVE /\ i + 1 \in DOMAIN Layers => Successor(Layers[i]) = Layers[i + 1]
        /\ i + 1 \notin DOMAIN Layers => Successor(Layers[i]) = Layers[i]
<1> DEFINE later == {k \in DOMAIN Layers : k > 1 /\ Layers[k - 1] = Layers[i]}
<1>1. DOMAIN Layers = 1..Len(Layers) /\ Len(Layers) \in Nat
  BY LayersAssumption
<1>2. ASSUME NEW k \in later PROVE k = i + 1
  <2>1. k \in DOMAIN Layers /\ k - 1 \in DOMAIN Layers /\ Layers[k - 1] = Layers[i]
    BY <1>1
  <2>2. k - 1 = i
    BY <2>1, LayersAssumption
  <2> QED BY <2>1, <2>2, <1>1
<1>3. CASE i + 1 \in DOMAIN Layers
  <2>1. i + 1 \in later
    BY <1>1, <1>3
  <2>2. (CHOOSE k \in later : TRUE) = i + 1
    BY <2>1, <1>2
  <2>3. Successor(Layers[i]) = Layers[CHOOSE k \in later : TRUE]
    BY <2>1 DEF Successor
  <2> QED BY <2>2, <2>3, <1>3
<1>4. CASE i + 1 \notin DOMAIN Layers
  <2>1. later = {}
    BY <1>2, <1>4
  <2> QED BY <2>1, <1>4 DEF Successor
<1> QED BY <1>3, <1>4

-----------------------------------------------------------------------------
(* The inductive invariant *)

TypeOK ==
  /\ at \in [pc : {"preflight", "refused", "enter", "baseline", "loop", "open", "session",
                   "verdict", "passed", "failed"},
             layer : Nat \ {0}]
  /\ usage \in [Layer -> 0..RunBudget]
  /\ session \in [count : Nat, before : Nat]
  /\ passed \subseteq Layer
  /\ DOMAIN proof = Layer
  /\ DOMAIN calls = Call

Within == {"baseline", "loop", "open", "session"}

\* Each session of a layer but the last was charged for a run of that layer.
Counted ==
  /\ at.pc = "preflight" => at.layer = 1 /\ session.count = 0
  /\ at.pc \in {"enter", "baseline"} => session.count <= Before(at.layer)
  /\ at.pc \in {"loop", "open"} => session.count <= Before(at.layer) + usage[Here]
  /\ at.pc = "session" =>
       /\ session.count <= Before(at.layer) + session.before + 1
       /\ session.before < RunBudget
       /\ session.before <= usage[Here]

Done(k) == Layers[k] \in passed \/ Spent(Layers[k])

\* A layer that is still to come is closed only behind layers that are done.
InTurn ==
  at.pc \in Within \cup {"enter"} =>
    \A k \in DOMAIN Layers : Layers[k] \in passed =>
      \A j \in DOMAIN Layers : at.layer <= j /\ j < k => Done(j)

\* The session may get to the i-th layer: the ones before it are done.
Reached(i) ==
  /\ at.layer <= i
  /\ \A j \in DOMAIN Layers : at.layer <= j /\ j < i => Done(j)

\* The active layer of a session.  Unless an answer took the session back, none
\* behind it is closed, and it is closed only as the last one.
ActiveIs(i) ==
  /\ active = Layers[i] /\ Reached(i)
  /\ ~back => /\ \A k \in DOMAIN Layers : i < k => Layers[k] \notin passed
              /\ Layers[i] \in passed => i + 1 \notin DOMAIN Layers

\* The call is under way for the m-th layer, which the session had reached.
CallIs(c, m) == calls[c].layer = Layers[m] /\ Reached(m)

\* The calls under way are for the active layer or, unless it was taken back, for
\* one before it.
Flying(i) ==
  \A c \in Call : calls[c] # Idle =>
    \E m \in DOMAIN Layers : CallIs(c, m) /\ (~back => m <= i)

Quiet == \A c \in Call : calls[c] = Idle

Placed ==
  /\ at.pc = "preflight" => passed = {}
  /\ at.pc \in Within => at.layer \in DOMAIN Layers
  /\ at.pc \in {"baseline", "loop", "open"} => Here \notin passed
  /\ at.pc \in {"loop", "open"} => active = Here
  /\ at.pc # "session" => Quiet
  /\ at.pc = "session" => \E i \in DOMAIN Layers : ActiveIs(i) /\ Flying(i)

IInv == TypeOK /\ Counted /\ InTurn /\ Placed

-----------------------------------------------------------------------------
(* Its preservation *)

\* Layers are numbered from one; the last is one of them.
LEMMA LayerFacts ==
  /\ RunBudget \in Nat \ {0}
  /\ DOMAIN Layers = 1..Len(Layers) /\ Len(Layers) \in Nat \ {0}
  /\ \A k \in DOMAIN Layers : Layers[k] \in Layer
  /\ \A l \in Layer : \E k \in DOMAIN Layers : l = Layers[k]
  /\ \A j, k \in DOMAIN Layers : Layers[j] = Layers[k] => j = k
<1>1. DOMAIN Layers = 1..Len(Layers) /\ Len(Layers) \in Nat /\ Len(Layers) # 0
  BY LayersAssumption
<1> QED BY <1>1, LayersAssumption DEF Layer

\* Within a layer its budget and the sessions before it are numbers.
LEMMA WithinFacts ==
  ASSUME IInv
  PROVE  /\ Before(at.layer) \in Nat /\ session.count \in Nat /\ session.before \in Nat
         /\ at.layer \in DOMAIN Layers => Here \in Layer /\ usage[Here] \in 0..RunBudget
<1>1. at.layer \in Nat \ {0} /\ session.count \in Nat /\ session.before \in Nat
      /\ usage \in [Layer -> 0..RunBudget]
  BY DEF IInv, TypeOK
<1>2. Before(at.layer) \in Nat
  BY <1>1, BeforeFacts
<1>3. at.layer \in DOMAIN Layers => Here \in Layer
  BY LayerFacts DEF Here
<1> QED BY <1>1, <1>2, <1>3

\* The loop starts within its bounds.
LEMMA InitInv == Init => IInv
<1> SUFFICES ASSUME Init PROVE IInv
  OBVIOUS
<1>1. TypeOK
  BY LayerFacts DEF Init, TypeOK
<1>2. Counted /\ InTurn /\ Placed
  BY DEF Init, Counted, InTurn, Placed, Within, Quiet
<1> QED BY <1>1, <1>2 DEF IInv

\* The loop goes on to the next layer, this one closed or not.
LEMMA Advances ==
  ASSUME IInv, at.pc \in Within \cup {"enter"}, at.layer \in DOMAIN Layers,
         session.count <= Before(at.layer) + RunBudget,
         NextLayer("enter"), usage' = usage, session' = session, DOMAIN proof' = Layer,
         Quiet', DOMAIN calls' = Call,
         passed' \in {passed, passed \cup {Here}}
  PROVE  IInv'
<1>1. at' = [pc |-> "enter", layer |-> at.layer + 1] /\ at.layer \in Nat \ {0}
  BY DEF IInv, TypeOK, NextLayer
<1>2. Here \in Layer
  BY LayerFacts DEF Here
<1>3. TypeOK'
  BY <1>1, <1>2 DEF IInv, TypeOK
<1>4. Counted'
  BY <1>1, BeforeFacts DEF Counted
<1>5. InTurn'
  <2> SUFFICES ASSUME NEW k \in DOMAIN Layers, Layers[k] \in passed',
                      NEW j \in DOMAIN Layers, at.layer + 1 <= j, j < k
               PROVE  Done(j)'
    BY <1>1 DEF InTurn
  <2>1. at.layer <= j /\ at.layer < k
    BY <1>1, LayerFacts
  <2>2. Layers[k] \in passed
    BY <2>1, LayerFacts DEF Here
  <2>3. Done(j)
    BY <2>1, <2>2 DEF IInv, InTurn
  <2> QED BY <2>3 DEF Done, Spent
<1>6. Placed'
  BY <1>1 DEF Placed, Within
<1> QED BY <1>3, <1>4, <1>5, <1>6 DEF IInv

\* A step within a layer that leaves its ledgers and the count alone.
LEMMA Stays ==
  ASSUME IInv, at.pc \in {"baseline", "loop"}, at.layer \in DOMAIN Layers,
         NEW pc \in {"baseline", "loop", "open"}, Go(pc),
         at.pc = "loop" => pc # "baseline",
         usage' = usage, session' = session, DOMAIN proof' = Layer, passed' = passed,
         Quiet', DOMAIN calls' = Call,
         pc # "baseline" => active' = Here
  PROVE  IInv'
<1>1. at' = [pc |-> pc, layer |-> at.layer] /\ at.layer \in Nat \ {0}
  BY DEF IInv, TypeOK, Go
<1>2. TypeOK' /\ Here' = Here
  BY <1>1 DEF IInv, TypeOK, Here
<1>3. Counted'
  <2>1. usage[Here] \in Nat /\ session.count \in Nat /\ Before(at.layer) \in Nat
    BY WithinFacts, LayerFacts
  <2>2. CASE at.pc = "baseline"
    BY <1>1, <1>2, <2>1, <2>2 DEF IInv, Counted
  <2>3. CASE at.pc = "loop"
    BY <1>1, <1>2, <2>3 DEF IInv, Counted
  <2> QED BY <2>2, <2>3
<1>4. InTurn'
  BY <1>1 DEF IInv, InTurn, Within, Done, Spent
<1>5. Placed'
  BY <1>1, <1>2 DEF IInv, Placed, Within
<1> QED BY <1>2, <1>3, <1>4, <1>5 DEF IInv

\* More charges and more closed layers leave what is done done.
LEMMA DoneStays ==
  ASSUME at' = at, passed \subseteq passed',
         \A l \in Layer : usage[l] \in Nat /\ usage'[l] \in Nat /\ usage[l] <= usage'[l]
  PROVE  /\ \A j \in DOMAIN Layers : Done(j) => Done(j)'
         /\ \A i \in DOMAIN Layers : Reached(i) => Reached(i)'
<1>1. ASSUME NEW j \in DOMAIN Layers, Done(j) PROVE Done(j)'
  BY <1>1, LayerFacts DEF Done, Spent
<1> QED BY <1>1 DEF Reached

\* A call is charged to the active layer.
LEMMA StartKeeps ==
  ASSUME IInv, NEW c \in Call, NEW files, StartRun(c, files) PROVE IInv'
<1> USE LayerFacts
<1>1. PICK i \in DOMAIN Layers : ActiveIs(i) /\ Flying(i)
  BY DEF IInv, Placed, StartRun, Callable
<1>2. active = Layers[i] /\ active \in Layer /\ Reached(i)
  BY <1>1 DEF ActiveIs
<1>3. /\ at.pc = "session" /\ at' = at /\ session' = session /\ passed' = passed
      /\ proof' = proof /\ active' = active /\ back' = back /\ ~Spent(active)
      /\ usage' = [usage EXCEPT ![active] = usage[active] + 1]
      /\ calls' = [calls EXCEPT ![c] =
                     [layer |-> active, files |-> files, narrowed |-> filter[active]]]
  BY DEF StartRun, Callable
<1>4. /\ TypeOK'
      /\ \A l \in Layer : usage[l] \in Nat /\ usage'[l] \in Nat /\ usage[l] <= usage'[l]
  BY <1>2, <1>3 DEF IInv, TypeOK, Spent
<1>5. /\ \A j \in DOMAIN Layers : Done(j) => Done(j)'
      /\ \A j \in DOMAIN Layers : Reached(j) => Reached(j)'
  BY <1>3, <1>4, DoneStays
<1>6. Counted'
  <2>1. Here' = Here /\ at.layer \in DOMAIN Layers /\ Here \in Layer
    BY <1>3 DEF Here, IInv, Placed, Within
  <2>2. session.before \in Nat
    BY DEF IInv, TypeOK
  <2> QED BY <1>3, <1>4, <2>1, <2>2 DEF IInv, Counted
<1>7. InTurn'
  BY <1>3, <1>5 DEF IInv, InTurn
<1>8. ActiveIs(i)'
  BY <1>1, <1>3, <1>5 DEF ActiveIs
<1>9. Flying(i)'
  <2> SUFFICES ASSUME NEW d \in Call, calls'[d] # Idle
               PROVE  \E m \in DOMAIN Layers : CallIs(d, m)' /\ (~back => m <= i)
    BY <1>3 DEF Flying
  <2>1. DOMAIN calls = Call
    BY DEF IInv, TypeOK
  <2>2. CASE d = c
    BY <1>2, <1>3, <1>5, <2>1, <2>2 DEF CallIs
  <2>3. CASE d # c
    <3>1. calls'[d] = calls[d]
      BY <1>3, <2>1, <2>3
    <3>2. PICK m \in DOMAIN Layers : CallIs(d, m) /\ (~back => m <= i)
      BY <1>1, <3>1 DEF Flying
    <3> QED BY <1>5, <3>1, <3>2 DEF CallIs
  <2> QED BY <2>2, <2>3
<1>10. Placed'
  BY <1>3, <1>8, <1>9 DEF IInv, Placed, Within
<1> QED BY <1>4, <1>6, <1>7, <1>10 DEF IInv

\* An answer may close its layer and hand the session on, or take it back.
LEMMA AnswerKeeps ==
  ASSUME IInv, NEW c \in Call, Answered(c), at' = at, session' = session,
         DOMAIN proof' = Layer, HandOn(calls[c].layer),
         usage' = usage \/ usage' = [usage EXCEPT ![calls[c].layer] = RunBudget],
         passed' = passed \/ passed' = passed \cup {calls[c].layer}
  PROVE  IInv'
<1> USE LayerFacts
<1>1. PICK i \in DOMAIN Layers : ActiveIs(i) /\ Flying(i)
  BY DEF IInv, Placed, Answered
<1>2. PICK m \in DOMAIN Layers : CallIs(c, m) /\ (~back => m <= i)
  BY <1>1 DEF Flying, Answered
<1>3. /\ calls[c].layer = Layers[m] /\ Layers[m] \in Layer /\ Reached(m)
      /\ active = Layers[i] /\ active \in Layer /\ Reached(i)
      /\ at.pc = "session" /\ DOMAIN calls = Call
  BY <1>1, <1>2 DEF CallIs, ActiveIs, Answered, IInv, TypeOK
<1>4. /\ TypeOK'
      /\ \A l \in Layer : usage[l] \in Nat /\ usage'[l] \in Nat /\ usage[l] <= usage'[l]
  BY <1>3 DEF IInv, TypeOK, Answered
<1>5. /\ \A j \in DOMAIN Layers : Done(j) => Done(j)'
      /\ \A j \in DOMAIN Layers : Reached(j) => Reached(j)'
  BY <1>4, DoneStays
<1>6. Counted'
  <2>1. Here' = Here /\ at.layer \in DOMAIN Layers /\ Here \in Layer
    BY <1>3 DEF Here, IInv, Placed, Within
  <2>2. session.before \in Nat
    BY DEF IInv, TypeOK
  <2> QED BY <1>3, <1>4, <2>1, <2>2 DEF IInv, Counted
<1>7. \A k \in DOMAIN Layers : Layers[k] \in passed' => Layers[k] \in passed \/ k = m
  BY <1>3
<1>8. InTurn'
  <2> SUFFICES ASSUME NEW k \in DOMAIN Layers, Layers[k] \in passed',
                      NEW j \in DOMAIN Layers, at.layer <= j, j < k
               PROVE  Done(j)'
    BY DEF InTurn
  <2>1. CASE Layers[k] \in passed
    BY <1>3, <1>5, <2>1 DEF IInv, InTurn, Within
  <2>2. CASE k = m
    BY <1>3, <1>5, <2>2 DEF Reached
  <2> QED BY <1>7, <2>1, <2>2
<1>9. ASSUME NEW e \in DOMAIN Layers, ~back' => ~back /\ i <= e PROVE Flying(e)'
  <2> SUFFICES ASSUME NEW d \in Call, calls'[d] # Idle
               PROVE  \E n \in DOMAIN Layers : CallIs(d, n)' /\ (~back' => n <= e)
    BY DEF Flying
  <2>1. d # c /\ calls'[d] = calls[d]
    BY <1>3 DEF Answered
  <2>2. PICK n \in DOMAIN Layers : CallIs(d, n) /\ (~back => n <= i)
    BY <1>1, <2>1 DEF Flying
  <2>3. ~back' => n <= e
    BY <1>9, <2>2
  <2> QED BY <1>5, <2>1, <2>2, <2>3 DEF CallIs
<1>10. ASSUME NEW e \in DOMAIN Layers, ActiveIs(e)', ~back' => ~back /\ i <= e PROVE IInv'
  <2>1. Placed'
    BY <1>3, <1>9, <1>10 DEF IInv, Placed, Within
  <2> QED BY <1>4, <1>6, <1>8, <2>1 DEF IInv
<1>11. CASE active' = active
  <2>1. back' <=> back
    BY <1>11 DEF HandOn
  <2>2. ASSUME ~back, NEW k \in DOMAIN Layers, i < k PROVE Layers[k] \notin passed'
    BY <1>1, <1>2, <1>7, <2>2 DEF ActiveIs
  <2>3. ASSUME ~back, Layers[i] \in passed' PROVE i + 1 \notin DOMAIN Layers
    <3>1. CASE Layers[i] \in passed
      BY <1>1, <2>3, <3>1 DEF ActiveIs
    <3>2. CASE i = m
      <4>1. Successor(Layers[i]) = Layers[i]
        BY <1>3, <1>11, <2>3, <3>2 DEF HandOn
      <4> QED BY <4>1, SuccessorIs
    <3> QED BY <1>7, <2>3, <3>1, <3>2
  <2>4. ActiveIs(i)'
    BY <1>3, <1>5, <1>11, <2>1, <2>2, <2>3 DEF ActiveIs
  <2> QED BY <1>10, <2>1, <2>4
<1>12. CASE active' # active
  <2>1. Layers[m] \in passed' /\ Successor(Layers[m]) # Layers[m] /\ active' = Successor(Layers[m])
    BY <1>3, <1>12 DEF HandOn
  <2>2. m + 1 \in DOMAIN Layers /\ active' = Layers[m + 1]
    BY <2>1, SuccessorIs
  <2>3. Reached(m + 1)'
    <3>1. Done(m)' /\ Reached(m)'
      BY <1>3, <1>5, <2>1 DEF Done
    <3>2. at.layer <= m + 1 /\ at.layer \in Nat
      BY <1>3 DEF Reached, IInv, TypeOK
    <3> QED BY <3>1, <3>2 DEF Reached
  <2>4. ASSUME ~back' PROVE ~back /\ m = i
    BY <1>3, <1>12, <2>4 DEF HandOn
  <2>5. ASSUME ~back', NEW k \in DOMAIN Layers, i < k PROVE Layers[k] \notin passed'
    BY <1>1, <1>7, <2>4, <2>5 DEF ActiveIs
  <2>6. ActiveIs(m + 1)'
    BY <2>2, <2>3, <2>4, <2>5 DEF ActiveIs
  <2> QED BY <1>10, <2>2, <2>4, <2>6
<1> QED BY <1>11, <1>12

\* The loop has not begun or is over: nothing of the layers is claimed.
LEMMA Outside ==
  ASSUME IInv, at'.pc \in {"refused", "verdict", "passed", "failed"},
         at' \in [pc : {"refused", "verdict", "passed", "failed"}, layer : Nat \ {0}],
         usage' = usage, session' = session, DOMAIN proof' = Layer, passed' \subseteq Layer,
         Quiet', DOMAIN calls' = Call
  PROVE  IInv'
BY DEF IInv, TypeOK, Counted, InTurn, Placed, Within

\* No call is under way when the loop goes on.
LEMMA ScheduleIsQuiet ==
  ASSUME IInv, Schedule PROVE calls' = calls /\ DOMAIN calls' = Call /\ Quiet'
<1>1. DOMAIN calls = Call /\ (at.pc # "session" => Quiet)
  BY DEF IInv, TypeOK, Placed
<1>2. calls' = calls /\ Quiet
  <2>1. ASSUME NEW ok \in BOOLEAN, Preflight(ok) \/ FastPath(ok) \/ CloseBySystem(ok) \/ Reverify(ok)
        PROVE  calls' = calls /\ at.pc # "session"
    BY <2>1 DEF Preflight, FastPath, CloseBySystem, Reverify, ledger, counters
  <2>2. ASSUME NEW f, NEW outcome, BaselineFile(f, outcome)
        PROVE  calls' = calls /\ at.pc # "session"
    BY <2>2 DEF BaselineFile, ledger, counters
  <2>3. CASE Enter \/ Pin \/ LeaveSettled \/ OpenSession \/ Verdict \/ Finish
    BY <1>1, <2>3 DEF Enter, Pin, LeaveSettled, OpenSession, Verdict, Finish, ledger, counters
  <2>4. CASE SessionEnds
    BY <2>4 DEF SessionEnds, Quiet, ledger, counters
  <2> QED BY <1>1, <2>1, <2>2, <2>3, <2>4 DEF Schedule
<1> QED BY <1>1, <1>2 DEF Quiet

\* A session is opened only within the budget of its layer and the bound.
LEMMA SessionBegins ==
  ASSUME IInv, OpenSession PROVE IInv'
<1> USE LayerFacts
<1>1. at.pc \in {"loop", "open"} /\ at.layer \in DOMAIN Layers /\ Here \in Layer
  BY DEF OpenSession, IInv, Placed, Within, Here
<1>2. usage[Here] \in 0..RunBudget /\ Before(at.layer) \in Nat /\ session.count \in Nat
  BY <1>1, WithinFacts
<1>3. session.count <= Before(at.layer) + usage[Here]
  BY <1>1 DEF IInv, Counted
<1>0. calls' = calls /\ DOMAIN calls' = Call /\ Quiet'
  BY ScheduleIsQuiet DEF Schedule
<1>4. CASE Leave /\ UNCHANGED session
  <2>1. session.count <= Before(at.layer) + RunBudget
    BY <1>2, <1>3
  <2>2. DOMAIN proof' = Layer /\ usage' = usage /\ passed' = passed
    BY DEF OpenSession, counters, IInv, TypeOK
  <2> QED BY <1>0, <1>1, <1>4, <2>1, <2>2, Advances DEF Leave, Within
<1>5. CASE /\ ~Spent(Here) /\ Go("session") /\ UNCHANGED active
           /\ session' = [count |-> session.count + 1, before |-> usage[Here]]
  <2>1. at' = [pc |-> "session", layer |-> at.layer] /\ usage' = usage /\ passed' = passed
        /\ proof' = proof /\ active' = active
    BY <1>5 DEF OpenSession, counters, IInv, TypeOK, Go
  <2>2. TypeOK' /\ Here' = Here
    BY <1>0, <1>2, <1>5, <2>1 DEF IInv, TypeOK, Here
  <2>3. Counted'
    BY <1>2, <1>3, <1>5, <2>1, <2>2 DEF Counted, Spent
  <2>4. InTurn'
    BY <1>1, <2>1 DEF IInv, InTurn, Within, Done, Spent
  <2>5. active = Here /\ Here \notin passed /\ ~Done(at.layer)
    BY <1>1, <1>5 DEF IInv, Placed, Done, Here
  <2>6. ASSUME NEW k \in DOMAIN Layers, at.layer < k PROVE Layers[k] \notin passed
    BY <1>1, <2>5, <2>6 DEF IInv, InTurn, Within
  <2>7. ActiveIs(at.layer)'
    BY <1>1, <2>1, <2>5, <2>6 DEF ActiveIs, Reached, Here
  <2>8. Placed'
    BY <1>0, <1>1, <2>1, <2>7 DEF Placed, Flying, Quiet
  <2> QED BY <2>2, <2>3, <2>4, <2>8 DEF IInv
<1> QED BY <1>1, <1>4, <1>5 DEF OpenSession

\* A session without a run of its layer is the last one there, so the count holds.
LEMMA SessionIsOver ==
  ASSUME IInv, SessionEnds PROVE IInv'
<1> USE LayerFacts
<1>1. at.pc = "session" /\ at.layer \in DOMAIN Layers /\ Here \in Layer
  BY DEF SessionEnds, IInv, Placed, Within, Here
<1>2. usage[Here] \in 0..RunBudget /\ Before(at.layer) \in Nat
      /\ session.count \in Nat /\ session.before \in Nat
  BY <1>1, WithinFacts
<1>3. usage' = usage /\ passed' = passed /\ proof' = proof /\ session' = session
  BY DEF SessionEnds, ledger, counters
<1>4. /\ session.count <= Before(at.layer) + session.before + 1
      /\ session.before < RunBudget /\ session.before <= usage[Here]
  BY <1>1 DEF IInv, Counted
<1>0. calls' = calls /\ DOMAIN calls' = Call /\ Quiet'
  BY ScheduleIsQuiet DEF Schedule
<1>5. CASE Leave
  <2>1. session.count <= Before(at.layer) + RunBudget
    BY <1>2, <1>4
  <2> QED BY <1>0, <1>1, <1>3, <1>5, <2>1, Advances DEF Leave, Within, IInv, TypeOK
<1>6. CASE ~LayerEnds /\ Go("loop") /\ UNCHANGED active
  <2>1. at' = [pc |-> "loop", layer |-> at.layer]
    BY <1>6 DEF Go, IInv, TypeOK
  <2>2. TypeOK' /\ Here' = Here
    BY <1>0, <1>3, <2>1, LayerFacts DEF IInv, TypeOK, Here
  <2>3. Counted'
    BY <1>2, <1>3, <1>4, <1>6, <2>1, <2>2 DEF Counted, LayerEnds
  <2>4. InTurn'
    BY <1>1, <1>3, <2>1 DEF IInv, InTurn, Within, Done, Spent
  <2>5. PICK i \in DOMAIN Layers : ActiveIs(i)
    BY <1>1 DEF IInv, Placed
  <2>6. ~Done(at.layer) /\ Here \notin passed
    BY <1>6 DEF LayerEnds, Done, Here
  <2>7. i = at.layer
    BY <1>1, <2>5, <2>6 DEF ActiveIs, Reached
  <2>8. Placed'
    BY <1>0, <1>1, <1>3, <1>6, <2>1, <2>2, <2>5, <2>6, <2>7 DEF Placed, ActiveIs, Here
  <2> QED BY <2>2, <2>3, <2>4, <2>8 DEF IInv
<1> QED BY <1>5, <1>6 DEF SessionEnds

\* A refused call moves the session on behind a layer whose budget is spent.
LEMMA SessionMovesOn ==
  ASSUME IInv, AdvanceExhausted PROVE IInv'
<1> USE LayerFacts
<1>1. /\ at.pc = "session" /\ Spent(active) /\ Successor(active) # active
      /\ active' = Successor(active) /\ at' = at /\ usage' = usage /\ passed' = passed
      /\ proof' = proof /\ session' = session /\ calls' = calls /\ back' = back
  BY DEF AdvanceExhausted, ledger, counters
<1>2. PICK i \in DOMAIN Layers : ActiveIs(i) /\ Flying(i)
  BY <1>1 DEF IInv, Placed
<1>3. i + 1 \in DOMAIN Layers /\ active' = Layers[i + 1] /\ Done(i)
  BY <1>1, <1>2, SuccessorIs DEF ActiveIs, Done
<1>4. at.layer <= i + 1 /\ at.layer \in DOMAIN Layers
  BY <1>1, <1>2 DEF ActiveIs, Reached, IInv, TypeOK, Placed, Within
<1>5. \A j \in DOMAIN Layers : Reached(j) => Reached(j)'
  BY <1>1 DEF Reached, Done, Spent
<1>6. Reached(i + 1)'
  BY <1>1, <1>2, <1>3, <1>4 DEF ActiveIs, Reached, Done, Spent
<1>7. ASSUME ~back
      PROVE  /\ \A k \in DOMAIN Layers : i + 1 < k => Layers[k] \notin passed
             /\ Layers[i + 1] \notin passed
  BY <1>2, <1>3, <1>7 DEF ActiveIs
<1>8. ActiveIs(i + 1)'
  BY <1>1, <1>3, <1>6, <1>7 DEF ActiveIs
<1>9. Flying(i + 1)'
  <2> SUFFICES ASSUME NEW d \in Call, calls[d] # Idle
               PROVE  \E m \in DOMAIN Layers : CallIs(d, m)' /\ (~back => m <= i + 1)
    BY <1>1 DEF Flying
  <2>1. PICK m \in DOMAIN Layers : CallIs(d, m) /\ (~back => m <= i)
    BY <1>2 DEF Flying
  <2> QED BY <1>1, <1>5, <2>1 DEF CallIs
<1>10. TypeOK' /\ Counted' /\ InTurn'
  BY <1>1 DEF IInv, TypeOK, Counted, InTurn, Within, Done, Spent, Here
<1>11. Placed'
  BY <1>1, <1>3, <1>4, <1>8, <1>9 DEF Placed
<1> QED BY <1>10, <1>11 DEF IInv

\* A test run is one of these steps.
LEMMA RunTestsIs ==
  ASSUME RunTests
  PROVE  \E c \in Call :
           \/ \E files : StartRun(c, files)
           \/ RunPasses(c)
           \/ \E likeness, named : RunFails(c, likeness, named)
           \/ \E likeness, failure : RunBreaks(c, likeness, failure)
BY DEF RunTests

\* What every failing answer leaves alone.
LEMMA FailedIs ==
  ASSUME NEW c, NEW likeness, NEW named, Failed(c, likeness, named)
  PROVE  /\ Answered(c) /\ at' = at /\ session' = session /\ passed' = passed
         /\ DOMAIN proof' = DOMAIN proof /\ HandOn(calls[c].layer)
BY DEF Failed

\* A test run charges and closes layers within the bounds.
LEMMA RunTestsKeeps ==
  ASSUME IInv, RunTests PROVE IInv'
<1>1. DOMAIN proof = Layer
  BY DEF IInv, TypeOK
<1>2. ASSUME NEW c \in Call, RunPasses(c) PROVE IInv'
  <2>1. /\ Answered(c) /\ at' = at /\ session' = session /\ DOMAIN proof' = Layer
        /\ usage' = usage /\ HandOn(calls[c].layer)
        /\ passed' = passed \/ passed' = passed \cup {calls[c].layer}
    BY <1>1, <1>2 DEF RunPasses
  <2> QED BY <2>1, AnswerKeeps
<1>3. ASSUME NEW c \in Call, NEW likeness, NEW named, RunFails(c, likeness, named) PROVE IInv'
  <2>1. Failed(c, likeness, named) /\ usage' = usage
    BY <1>3 DEF RunFails
  <2> QED BY <1>1, <2>1, FailedIs, AnswerKeeps
<1>4. ASSUME NEW c \in Call, NEW likeness, NEW failure, RunBreaks(c, likeness, failure) PROVE IInv'
  <2>1. /\ Failed(c, likeness, {})
        /\ usage' = usage \/ usage' = [usage EXCEPT ![calls[c].layer] = RunBudget]
    BY <1>4 DEF RunBreaks
  <2> QED BY <1>1, <2>1, FailedIs, AnswerKeeps
<1> QED BY <1>2, <1>3, <1>4, RunTestsIs, StartKeeps

\* The steps of the loop between sessions keep the invariant.
LEMMA ScheduleKeeps ==
  ASSUME IInv, Schedule PROVE IInv'
<1> USE LayerFacts
<1>0. calls' = calls /\ DOMAIN calls' = Call /\ Quiet'
  BY ScheduleIsQuiet
<1>1. /\ at \in [pc : {"preflight", "refused", "enter", "baseline", "loop", "open", "session",
                       "verdict", "passed", "failed"}, layer : Nat \ {0}]
      /\ passed \subseteq Layer /\ DOMAIN proof = Layer
      /\ at.pc \in Within => at.layer \in DOMAIN Layers /\ Here \in Layer
  BY DEF IInv, TypeOK, Placed, Here
<1>2. at.pc \in {"enter", "baseline"} => session.count <= Before(at.layer) + RunBudget
  <2>1. session.count \in Nat /\ Before(at.layer) \in Nat
    BY WithinFacts
  <2> QED BY <2>1 DEF IInv, Counted
<1>3. at.pc = "loop" => session.count <= Before(at.layer) + RunBudget
  <2> SUFFICES ASSUME at.pc = "loop" PROVE session.count <= Before(at.layer) + RunBudget
    OBVIOUS
  <2>1. session.count \in Nat /\ Before(at.layer) \in Nat /\ usage[Here] \in 0..RunBudget
    BY <1>1, WithinFacts DEF Within
  <2> QED BY <2>1 DEF IInv, Counted
<1>4. ASSUME NEW ok \in BOOLEAN, Preflight(ok) PROVE IInv'
  <2>1. at.pc = "preflight" /\ usage' = usage /\ passed' = passed /\ proof' = proof
        /\ session' = session
    BY <1>4 DEF Preflight, ledger, counters
  <2>2. CASE ok
    <3>1. at' = [pc |-> "enter", layer |-> 1] /\ session.count = 0 /\ passed = {}
      BY <1>1, <1>4, <2>1, <2>2 DEF Preflight, Go, IInv, Counted, Placed
    <3>2. TypeOK' /\ Counted' /\ InTurn' /\ Placed'
      BY <1>0, <2>1, <3>1, BeforeFacts DEF IInv, TypeOK, Counted, InTurn, Placed, Within
    <3> QED BY <3>2 DEF IInv
  <2>3. CASE ~ok
    BY <1>0, <1>1, <1>4, <2>1, <2>3, Outside DEF Preflight, Go
  <2> QED BY <2>2, <2>3
<1>5. CASE Enter
  <2>1. at.pc = "enter" /\ usage' = usage /\ passed' = passed /\ proof' = proof
        /\ session' = session
    BY <1>5 DEF Enter, ledger, counters
  <2>2. CASE at' = [pc |-> "verdict", layer |-> 1]
    BY <1>0, <1>1, <2>1, <2>2, Outside
  <2>3. CASE Scheduled /\ NextLayer("enter")
    BY <1>0, <1>1, <1>2, <2>1, <2>3, Advances DEF Scheduled
  <2>4. CASE Scheduled /\ Here \notin passed /\ Go("baseline")
    <3>1. at' = [pc |-> "baseline", layer |-> at.layer] /\ at.layer \in DOMAIN Layers
      BY <1>1, <2>4 DEF Go, Scheduled
    <3>2. TypeOK' /\ Here' = Here
      BY <1>0, <1>1, <2>1, <3>1 DEF IInv, TypeOK, Here
    <3>3. Counted' /\ InTurn' /\ Placed'
      BY <1>0, <2>1, <2>4, <3>1, <3>2 DEF IInv, Counted, InTurn, Placed, Within, Done, Spent
    <3> QED BY <3>2, <3>3 DEF IInv
  <2> QED BY <1>5, <2>2, <2>3, <2>4 DEF Enter
<1>6. ASSUME NEW f, NEW outcome, BaselineFile(f, outcome) PROVE IInv'
  <2>1. at.pc = "baseline" /\ usage' = usage /\ passed' = passed /\ proof' = proof
        /\ session' = session
    BY <1>6 DEF BaselineFile, ledger, counters
  <2>2. CASE Go("loop") /\ active' = Here
    BY <1>0, <1>1, <2>1, <2>2, Stays DEF Within
  <2>3. CASE UNCHANGED at
    <3>1. Go("baseline")
      BY <1>1, <2>1, <2>3 DEF Go
    <3> QED BY <1>0, <1>1, <2>1, <3>1, Stays DEF Within
  <2> QED BY <1>6, <2>2, <2>3 DEF BaselineFile
<1>7. ASSUME NEW ok \in BOOLEAN, FastPath(ok) PROVE IInv'
  <2>1. at.pc = "baseline" /\ usage' = usage /\ session' = session /\ DOMAIN proof' = Layer
        /\ passed' \in {passed, passed \cup {Here}} /\ (~ok => passed' = passed)
    BY <1>1, <1>7 DEF FastPath, FullRun, ledger, counters
  <2>2. CASE ok
    BY <1>0, <1>1, <1>2, <1>7, <2>1, <2>2, Advances DEF FastPath, Within
  <2>3. CASE ~ok
    BY <1>0, <1>1, <1>7, <2>1, <2>3, Stays DEF FastPath, Within
  <2> QED BY <2>2, <2>3
<1>8. CASE Pin
  <2>1. at.pc = "baseline" /\ usage' = usage /\ passed' = passed /\ proof' = proof
        /\ session' = session /\ Go("loop") /\ active' = Here
    BY <1>8 DEF Pin, ledger, counters
  <2> QED BY <1>0, <1>1, <2>1, Stays DEF Within
<1>9. CASE LeaveSettled
  <2>1. at.pc = "loop" /\ usage' = usage /\ passed' = passed /\ proof' = proof
        /\ session' = session /\ NextLayer("enter")
    BY <1>9 DEF LeaveSettled, Leave, ledger, counters
  <2> QED BY <1>0, <1>1, <1>3, <2>1, Advances DEF Within
<1>10. ASSUME NEW ok \in BOOLEAN, CloseBySystem(ok) PROVE IInv'
  <2>1. at.pc = "loop" /\ usage' = usage /\ session' = session /\ DOMAIN proof' = Layer
        /\ passed' \in {passed, passed \cup {Here}} /\ (~ok => passed' = passed)
    BY <1>1, <1>10 DEF CloseBySystem, FullRun, ledger, counters
  <2>2. CASE ok
    BY <1>0, <1>1, <1>3, <1>10, <2>1, <2>2, Advances DEF CloseBySystem, Leave, Within
  <2>3. CASE ~ok
    <3>1. active' = Here /\ Go("open")
      BY <1>10, <2>1, <2>3 DEF CloseBySystem, IInv, Placed
    <3> QED BY <1>0, <1>1, <2>1, <2>3, <3>1, Stays DEF Within
  <2> QED BY <2>2, <2>3
<1>11. CASE Verdict
  <2>1. at' = [pc |-> "verdict", layer |-> at.layer + 1] /\ usage' = usage /\ passed' = passed
        /\ proof' = proof /\ session' = session
    BY <1>11 DEF Verdict, NextLayer, ledger, counters
  <2> QED BY <1>0, <1>1, <2>1, Outside
<1>12. ASSUME NEW ok \in BOOLEAN, Reverify(ok) PROVE IInv'
  <2>1. at' = [pc |-> "verdict", layer |-> at.layer + 1] /\ usage' = usage /\ session' = session
        /\ DOMAIN proof' = Layer /\ passed' \in {passed, passed \cup {Here}} /\ Here \in Layer
    BY <1>1, <1>12 DEF Reverify, NextLayer, FullRun, ledger, counters, Scheduled, Here
  <2> QED BY <1>0, <1>1, <2>1, Outside
<1>13. CASE Finish
  <2>1. PICK pc \in {"passed", "failed"} : Go(pc)
    BY <1>13 DEF Finish
  <2>2. at' = [pc |-> pc, layer |-> at.layer] /\ usage' = usage /\ passed' = passed
        /\ proof' = proof /\ session' = session
    BY <1>1, <1>13, <2>1 DEF Finish, Go, ledger, counters
  <2> QED BY <1>0, <1>1, <2>2, Outside
<1> QED BY <1>4, <1>5, <1>6, <1>7, <1>8, <1>9, <1>10, <1>11, <1>12, <1>13,
           SessionBegins, SessionIsOver DEF Schedule

\* So does a step that changes nothing.
LEMMA StutterKeeps ==
  ASSUME IInv, UNCHANGED vars PROVE IInv'
BY DEF vars, IInv, TypeOK, Counted, InTurn, Placed, ActiveIs, Flying, CallIs, Reached,
       Quiet, Done, Spent, Here

\* The invariant holds in every state the loop reaches.
THEOREM TypesAndTurns == Spec => []IInv
<1>1. IInv /\ [Next]_vars => IInv'
  BY ScheduleKeeps, RunTestsKeeps, SessionMovesOn, StutterKeeps DEF Next
<1> QED BY InitInv, <1>1, PTL DEF Spec

\* The bound of sessions never cuts a pass short: a layer that is not closed and
\* has budget left finds one more (_run_tdd_for_node, the loop over sessions).
THEOREM SessionsAreEnough == Spec => []SessionsSuffice
<1>1. IInv => SessionsSuffice
  <2> SUFFICES ASSUME IInv, at.pc \in {"loop", "open"}, ~Spent(Here)
               PROVE  session.count < MaxSessions
    BY DEF SessionsSuffice
  <2>1. at.layer \in DOMAIN Layers /\ Here \in Layer
    BY LayerFacts DEF IInv, Placed, Within, Here
  <2>2. usage[Here] \in Nat /\ session.count \in Nat /\ Before(at.layer) \in Nat
    BY <2>1, LayerFacts, WithinFacts
  <2>3. Before(at.layer) + RunBudget <= MaxSessions
    BY <2>1, BeforeFacts
  <2>5. MaxSessions \in Nat
    BY LayerFacts DEF MaxSessions
  <2>4. usage[Here] < RunBudget
    BY <2>2, LayerFacts DEF Spent
  <2> QED BY <2>2, <2>3, <2>4, <2>5, LayerFacts DEF IInv, Counted
<1> QED BY <1>1, TypesAndTurns, PTL

-----------------------------------------------------------------------------
(* A layer is closed by all of its cases, and left alone afterwards *)

\* What ClosedIsProved says of one step.
ClosedStep ==
  /\ \A l \in Layer : l \in passed' \ passed => proof'[l] = CasesOf(Files[l])
  /\ \A c \in Call : RunsAgain(c) => back

\* A step that runs no test closes nothing and starts nothing.
LEMMA NoRun ==
  ASSUME passed' = passed, calls' = calls PROVE ClosedStep
BY DEF ClosedStep, RunsAgain, Starts

\* The system's own run of a layer.
LEMMA FullRunCloses ==
  ASSUME IInv, NEW l \in Layer, NEW ok \in BOOLEAN, FullRun(l, ok), calls' = calls
  PROVE  ClosedStep
<1>1. proof' = [proof EXCEPT ![l] = IF ok THEN CasesOf(Files[l]) ELSE {}]
      /\ passed' = IF ok THEN passed \cup {l} ELSE passed
  BY DEF FullRun
<1>2. DOMAIN proof = Layer
  BY DEF IInv, TypeOK
<1>3. ASSUME NEW m \in Layer, m \in passed' \ passed PROVE proof'[m] = CasesOf(Files[m])
  <2>1. m = l /\ ok
    BY <1>1, <1>3
  <2> QED BY <1>1, <1>2, <2>1
<1> QED BY <1>3 DEF ClosedStep, RunsAgain, Starts

\* A run is started for the active layer, which is closed only as the last one.
LEMMA StartCloses ==
  ASSUME IInv, NEW c \in Call, NEW files, StartRun(c, files) PROVE ClosedStep
<1>1. PICK i \in DOMAIN Layers : ActiveIs(i)
  BY DEF IInv, Placed, StartRun, Callable
<1>2. active \in passed /\ ~back => Successor(active) = active
  BY <1>1, SuccessorIs DEF ActiveIs
<1> QED BY <1>2 DEF ClosedStep, RunsAgain, StartRun

\* An answer starts nothing; it closes its layer when it passed and had all of it.
LEMMA AnswerCloses ==
  ASSUME IInv, NEW c \in Call, Answered(c),
         \/ passed' = passed
         \/ /\ passed' = passed \cup {calls[c].layer}
            /\ proof' = [proof EXCEPT ![calls[c].layer] = CasesOf(Files[calls[c].layer])]
  PROVE  ClosedStep
<1>1. DOMAIN proof = Layer /\ DOMAIN calls = Call
  BY DEF IInv, TypeOK
<1>2. ASSUME NEW d \in Call PROVE ~Starts(d)
  <2>1. calls' = [calls EXCEPT ![c] = Idle]
    BY DEF Answered
  <2>2. calls'[d] = Idle \/ calls'[d] = calls[d]
    BY <1>1, <2>1
  <2> QED BY <2>2 DEF Starts
<1>3. ASSUME NEW l \in Layer, l \in passed' \ passed PROVE proof'[l] = CasesOf(Files[l])
  BY <1>1, <1>3
<1> QED BY <1>2, <1>3 DEF ClosedStep, RunsAgain

\* Only a passing run of all the cases of a layer closes it.
LEMMA RunTestsCloses ==
  ASSUME IInv, RunTests PROVE ClosedStep
<1>1. ASSUME NEW c \in Call, RunPasses(c) PROVE ClosedStep
  <2> DEFINE run == calls[c]
  <2>1. /\ Answered(c) /\ proof' = [proof EXCEPT ![run.layer] = Selected(run)]
        /\ passed' = IF Closes(run) THEN passed \cup {run.layer} ELSE passed
    BY <1>1 DEF RunPasses
  <2>2. Closes(run) => Selected(run) = CasesOf(Files[run.layer])
    BY DEF Closes, Selected
  <2> QED BY <2>1, <2>2, AnswerCloses
<1>2. ASSUME NEW c \in Call, NEW likeness, NEW named, RunFails(c, likeness, named)
      PROVE ClosedStep
  <2>1. Failed(c, likeness, named)
    BY <1>2 DEF RunFails
  <2> QED BY <2>1, FailedIs, AnswerCloses
<1>3. ASSUME NEW c \in Call, NEW likeness, NEW failure, RunBreaks(c, likeness, failure)
      PROVE ClosedStep
  <2>1. Failed(c, likeness, {})
    BY <1>3 DEF RunBreaks
  <2> QED BY <2>1, FailedIs, AnswerCloses
<1> QED BY <1>1, <1>2, <1>3, RunTestsIs, StartCloses

\* The run that closes a layer executed every case of it and all passed, however
\* the calls overlap; unless an answer took the session back, no run of a closed
\* layer but the last is started (run_requested, _run_tdd_for_node).
THEOREM ClosedMeansProved == Spec => ClosedIsProved
<1>1. ASSUME IInv, Schedule PROVE ClosedStep
  <2>1. at.pc \in {"baseline", "loop"} => Here \in Layer /\ Here \notin passed
    BY <1>1, LayerFacts DEF IInv, Placed, Within, Here
  <2>2. ASSUME NEW ok \in BOOLEAN, FastPath(ok) \/ CloseBySystem(ok) PROVE ClosedStep
    <3>1. at.pc \in {"baseline", "loop"} /\ FullRun(Here, ok) /\ calls' = calls
      BY <2>2 DEF FastPath, CloseBySystem, ledger, counters
    <3> QED BY <1>1, <2>1, <3>1, FullRunCloses
  <2>3. ASSUME NEW ok \in BOOLEAN, Reverify(ok) PROVE ClosedStep
    <3>1. Here \in Layer /\ FullRun(Here, ok) /\ calls' = calls
      BY <2>3, LayerFacts DEF Reverify, Scheduled, LateFixPossible, Here, ledger, counters
    <3> QED BY <1>1, <3>1, FullRunCloses
  <2>4. ASSUME NEW ok \in BOOLEAN, Preflight(ok) PROVE ClosedStep
    BY <2>4, NoRun DEF Preflight, ledger, counters
  <2>5. ASSUME NEW f, NEW outcome, BaselineFile(f, outcome) PROVE ClosedStep
    BY <2>5, NoRun DEF BaselineFile, ledger, counters
  <2>6. CASE Enter \/ Pin \/ LeaveSettled
    BY <2>6, NoRun DEF Enter, Pin, LeaveSettled, ledger, counters
  <2>7. CASE OpenSession \/ SessionEnds
    BY <2>7, NoRun DEF OpenSession, SessionEnds, ledger, counters
  <2>8. CASE Verdict \/ Finish
    BY <2>8, NoRun DEF Verdict, Finish, ledger, counters
  <2> QED BY <1>1, <2>2, <2>3, <2>4, <2>5, <2>6, <2>7, <2>8 DEF Schedule
<1>2. ASSUME IInv, AdvanceExhausted PROVE ClosedStep
  BY <1>2, NoRun DEF AdvanceExhausted, ledger, counters
<1>3. IInv /\ [Next]_vars => [ClosedStep]_vars
  BY <1>1, <1>2, RunTestsCloses DEF Next
<1>4. [ClosedStep]_vars <=>
      [/\ \A l \in Layer : l \in passed' \ passed => proof'[l] = CasesOf(Files[l])
       /\ \A c \in Call : RunsAgain(c) => back]_vars
  BY DEF ClosedStep
<1> QED BY <1>3, <1>4, TypesAndTurns, PTL DEF Spec, ClosedIsProved

-----------------------------------------------------------------------------
(* The late fix *)

\* The layer may owe its failure to its budget, though a later one passed.
Owed(j) ==
  /\ Layers[j] \notin passed /\ Spent(Layers[j])
  /\ \E k \in DOMAIN Layers : j < k /\ Layers[k] \in passed

\* The verdict has run every such layer it went past once more.
LateInv ==
  /\ at.pc \in {"verdict", "failed"} /\ environment = "none" =>
       \A j \in DOMAIN Layers : j < at.layer /\ Owed(j) => Layers[j] \in reverified
  /\ at.pc = "failed" => at.layer \notin DOMAIN Layers

\* The verdict goes past a layer that owes nothing, or was run again.  A layer
\* that passes so late makes none before it owe anything: it was itself behind a
\* layer that had passed.
LEMMA GoesPast ==
  ASSUME IInv, LateInv, at.pc = "verdict", Scheduled, NextLayer("verdict"),
         environment' = environment, usage' = usage,
         \/ ~LateFixPossible(Here) /\ passed' = passed /\ reverified' = reverified
         \/ /\ LateFixPossible(Here) /\ passed' \in {passed, passed \cup {Here}}
            /\ reverified' = reverified \cup {Here}
  PROVE  LateInv'
<1>1. /\ at' = [pc |-> "verdict", layer |-> at.layer + 1] /\ at.layer \in Nat
      /\ at.layer \in DOMAIN Layers /\ Here = Layers[at.layer]
  BY DEF NextLayer, Scheduled, Here, IInv, TypeOK
<1>2. DOMAIN Layers \subseteq Nat
  BY LayerFacts
<1> SUFFICES ASSUME environment = "none", NEW j \in DOMAIN Layers, j < at.layer + 1, Owed(j)'
             PROVE  Layers[j] \in reverified'
  BY <1>1 DEF LateInv
<1>3. PICK k \in DOMAIN Layers : j < k /\ Layers[k] \in passed'
  BY DEF Owed
<1>4. Layers[j] \notin passed /\ Spent(Layers[j])
  BY DEF Owed, Spent
<1>5. Owed(j)
  <2>1. CASE Layers[k] \in passed
    BY <1>3, <1>4, <2>1 DEF Owed
  <2>2. CASE Layers[k] \notin passed
    <3>1. LateFixPossible(Here) /\ Layers[k] = Layers[at.layer]
      BY <1>1, <1>3, <2>2
    <3>2. k = at.layer
      BY <1>1, <3>1, LayerFacts
    <3>3. PICK m \in DOMAIN Layers : m > at.layer /\ Layers[m] \in passed
      BY <3>1 DEF LateFixPossible
    <3>4. j < m
      BY <1>2, <1>3, <3>2, <3>3
    <3> QED BY <1>4, <3>3, <3>4 DEF Owed
  <2> QED BY <2>1, <2>2
<1>6. CASE j < at.layer
  BY <1>5, <1>6 DEF LateInv
<1>7. CASE j = at.layer
  <2>1. LateFixPossible(Here)
    BY <1>1, <1>2, <1>5, <1>7 DEF Owed, LateFixPossible
  <2> QED BY <1>1, <1>7, <2>1
<1> QED BY <1>1, <1>2, <1>6, <1>7

\* The verdict is reached from the first layer, and nothing runs beside it.
LEMMA LateStep ==
  ASSUME IInv, LateInv, [Next]_vars PROVE LateInv'
<1>1. /\ at = [pc |-> at.pc, layer |-> at.layer] /\ at.layer \in Nat \ {0}
      /\ DOMAIN Layers = 1..Len(Layers) /\ Len(Layers) \in Nat
  BY LayerFacts DEF IInv, TypeOK
<1>2. ASSUME at'.pc \notin {"verdict", "failed"} PROVE LateInv'
  BY <1>2 DEF LateInv
<1>3. CASE Verdict
  BY <1>3, GoesPast DEF Verdict, ledger, counters
<1>4. ASSUME NEW ok \in BOOLEAN, Reverify(ok) PROVE LateInv'
  BY <1>4, GoesPast DEF Reverify, FullRun, ledger, counters
<1>5. CASE Finish
  <2>1. at.pc = "verdict" /\ at.layer \notin DOMAIN Layers /\ at'.layer = at.layer
    BY <1>1, <1>5 DEF Finish, Scheduled, Go
  <2>2. UNCHANGED <<usage, passed, environment, reverified>>
    BY <1>5 DEF Finish, ledger, counters
  <2> QED BY <2>1, <2>2 DEF LateInv, Owed, Spent
<1>6. CASE Enter
  <2>1. CASE at' = [pc |-> "verdict", layer |-> 1]
    BY <1>1, <2>1 DEF LateInv
  <2>2. CASE at'.pc \in {"enter", "baseline"}
    BY <1>2, <2>2
  <2>3. NextLayer("enter") \/ Go("baseline") => at'.pc \in {"enter", "baseline"}
    BY <1>1 DEF NextLayer, Go
  <2> QED BY <1>6, <2>1, <2>2, <2>3 DEF Enter
<1>7. ASSUME NEW ok \in BOOLEAN, Preflight(ok) \/ FastPath(ok) \/ CloseBySystem(ok) PROVE LateInv'
  <2>1. PICK pc \in {"enter", "refused", "loop", "open"} : Go(pc) \/ NextLayer(pc)
    BY <1>7 DEF Preflight, FastPath, CloseBySystem, Leave
  <2> QED BY <1>1, <1>2, <2>1 DEF Go, NextLayer
<1>8. ASSUME at.pc \notin {"verdict", "failed"}, UNCHANGED at PROVE LateInv'
  BY <1>2, <1>8
<1>9. ASSUME NEW f, NEW outcome, BaselineFile(f, outcome) PROVE LateInv'
  BY <1>1, <1>2, <1>8, <1>9 DEF BaselineFile, Go
<1>10. CASE Pin \/ LeaveSettled \/ OpenSession \/ SessionEnds
  <2>1. PICK pc \in {"enter", "loop", "session"} : Go(pc) \/ NextLayer(pc)
    BY <1>10 DEF Pin, LeaveSettled, OpenSession, SessionEnds, Leave
  <2> QED BY <1>1, <1>2, <2>1 DEF Go, NextLayer
<1>11. CASE RunTests
  <2>1. at.pc = "session" /\ UNCHANGED at
    BY <1>11, RunTestsIs, FailedIs DEF StartRun, Callable, Answered, RunPasses, RunFails, RunBreaks
  <2> QED BY <1>8, <2>1
<1>12. CASE AdvanceExhausted
  BY <1>8, <1>12 DEF AdvanceExhausted
<1>13. CASE UNCHANGED vars
  BY <1>13 DEF vars, LateInv, Owed, Spent
<1> QED BY <1>3, <1>4, <1>5, <1>6, <1>7, <1>9, <1>10, <1>11, <1>12, <1>13 DEF Next, Schedule

\* A layer is not failed for its budget alone while a fix may have landed later,
\* for every list of layers and every budget (_reverify_budget_exhausted_layer).
THEOREM LateFixesCount == Spec => []LateFixCounts
<1>1. Init => LateInv
  BY DEF Init, LateInv
<1>2. IInv /\ LateInv => LateFixCounts
  <2> SUFFICES ASSUME IInv, LateInv, at.pc = "failed", environment = "none",
                      NEW j \in DOMAIN Layers, NEW k \in DOMAIN Layers, j < k,
                      Layers[k] \in passed, Layers[j] \notin passed, Spent(Layers[j])
               PROVE  Layers[j] \in reverified
    BY DEF LateFixCounts
  <2>1. j < at.layer
    BY LayerFacts DEF LateInv, IInv, TypeOK
  <2> QED BY <2>1 DEF LateInv, Owed
<1> QED BY <1>1, <1>2, LateStep, TypesAndTurns, PTL DEF Spec
=============================================================================
