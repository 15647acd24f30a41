-------------------------- MODULE StageAgentsProofs --------------------------
(***************************************************************************)
(* Proofs about what the passes of the stage agents promise, and about     *)
(* what the stages they work for make of it.                               *)
(* DesignContracts, for any rows and files, any batch size and any number  *)
(* of repairs: a design whose files embody contracts gets some, the fill   *)
(* records every row that is alone in its file, and what is handed on      *)
(* after a write boots.  StageDiscipline, for any paths, budgets and calls *)
(* in flight: a design stays small, repairs are bounded, and the registry  *)
(* names what the pass really wrote.  NodePhases, for any tree, any test   *)
(* files, any history and any number of deaths, retries and rejections: no *)
(* test escapes the baseline gate by a new name, and the queue, the        *)
(* session and the store agree on what is published and what is passed.    *)
(***************************************************************************)
EXTENDS DesignContracts, StageDiscipline, NodePhases, QueueLemmas, FiniteSetTheorems, TLAPS

\* From the end of the fill on there are contracts for the files, and before
\* it there is a row to ask for.
ContractInv ==
  /\ cards \in {"none", "typed", "untyped"}
  /\ step = "fill" => Skeletons # {}
  /\ step = "batches" => todo # {}
  /\ step \in {"reask", "reuse"} => Skeletons = {}
  /\ step \in {"types", "smoke", "returned", "blind"} /\ Skeletons # {} => cards # "none"
  /\ step = "blind" => cards = "none"

-----------------------------------------------------------------------------
(* The fill never returns empty-handed *)

\* The cards of a set are none, typed or untyped.
LEMMA CardsTyped == \A S : CardsOf(S) \in {"none", "typed", "untyped"}
  BY DEF CardsOf

\* Rows are not none.
LEMMA CardsOfSome == \A S : S # {} => CardsOf(S) # "none"
  BY DEF CardsOf

\* Whoever has no record covers no row.
LEMMA NothingCovers == \A rows : Gaps(rows, {}) = rows
  BY DEF Gaps, Covered

\* Gaps are recorded mechanically, so a fill with rows or gaps has records.
LEMMA SomeRecorded ==
  ASSUME NEW records, NEW gaps, records # {} \/ gaps # {}
  PROVE  WithMechanical(records, gaps) # {}
<1>1. CASE records # {}
  BY <1>1 DEF WithMechanical
<1>2. CASE gaps # {}
  <2>1. PICK r : r \in gaps
    BY <1>2
  <2>2. OwnRecord(r, TRUE) \in Mechanical(gaps)
    BY <2>1 DEF Mechanical
  <2>3. QED
    BY <2>2 DEF WithMechanical
<1>3. QED
  BY <1>1, <1>2

\* The end of a fill, with all its gaps, of at least one row.
LEMMA FilledHasCards ==
  ASSUME NEW rows, NEW records, rows # {}, Filled(records, Gaps(rows, records))
  PROVE  cards' \in {"typed", "untyped"}
<1>1. records # {} \/ Gaps(rows, records) # {}
  BY NothingCovers
<1>2. WithMechanical(records, Gaps(rows, records)) # {}
  BY <1>1, SomeRecorded
<1>3. cards' = CardsOf(WithMechanical(records, Gaps(rows, records)))
  BY DEF Filled
<1>4. QED
  BY <1>2, <1>3, CardsTyped, CardsOfSome

-----------------------------------------------------------------------------
(* The invariant, action by action *)

\* The invariant holds before the first session.
LEMMA InitialContracts == ContractsInit => ContractInv
  BY DEF ContractsInit, ContractInv

\* A recovered answer is of one of the three kinds.
LEMMA RecoveredKinds ==
  ASSUME NEW kind \in {"none", "typed", "untyped"}, NEW form
  PROVE  Recovered(kind, form) \in {"none", "typed", "untyped"}
  BY DEF Recovered

\* So is whatever a session hands in.
LEMMA AnsweredKinds ==
  ASSUME Answered PROVE cards' \in {"none", "typed", "untyped"}
  BY RecoveredKinds DEF Answered

\* What the pass has materialized decides the rows.
LEMMA SameRows ==
  ASSUME UNCHANGED materialized PROVE Skeletons' = Skeletons
  BY DEF Skeletons

\* The first session leaves rows without a record only to the fill.
LEMMA FirstStep == ContractInv /\ FirstSession => ContractInv'
<1>1. SUFFICES ASSUME ContractInv, FirstSession PROVE ContractInv'
  OBVIOUS
<1>2. cards' \in {"none", "typed", "untyped"}
  BY <1>1, AnsweredKinds DEF FirstSession
<1>3. Skeletons' = {r \in Row : FileOf[r] \in materialized'}
  BY DEF Skeletons
<1>4. (\E r \in Row : FileOf[r] \in materialized') <=> Skeletons' # {}
  BY <1>3
<1>5. step' = IF cards' # "none" THEN "types"
              ELSE IF Skeletons' # {} THEN "fill"
              ELSE IF materialized' # {} \/ claimed' THEN "reask" ELSE "reuse"
  BY <1>1, <1>4 DEF FirstSession
<1>6. QED
  BY <1>2, <1>5 DEF ContractInv

\* A batch, or the end of all batches, leaves no row without a record.
LEMMA FillStep == ContractInv /\ (FillAll \/ FillBatch) => ContractInv'
<1>1. SUFFICES ASSUME ContractInv, FillAll \/ FillBatch PROVE ContractInv'
  OBVIOUS
<1>2. Skeletons' = Skeletons
  BY <1>1, SameRows DEF FillAll, FillBatch
<1>3. CASE FillAll
  <2>1. PICK records \in FillsOf(Skeletons) :
          IF Gaps(Skeletons, records) = {} THEN Filled(records, {})
          ELSE /\ step' = "batches" /\ todo' = Gaps(Skeletons, records)
               /\ UNCHANGED cards
    BY <1>3 DEF FillAll
  <2>2. Skeletons # {}
    BY <1>1, <1>3 DEF ContractInv, FillAll
  <2>3. CASE Gaps(Skeletons, records) = {}
    <3>1. Filled(records, Gaps(Skeletons, records))
      BY <2>1, <2>3
    <3>2. cards' \in {"typed", "untyped"}
      BY <2>2, <3>1, FilledHasCards
    <3>3. step' = "types"
      BY <3>1 DEF Filled
    <3>4. QED
      BY <3>2, <3>3 DEF ContractInv
  <2>4. CASE Gaps(Skeletons, records) # {}
    BY <1>1, <2>1, <2>4 DEF ContractInv
  <2>5. QED
    BY <2>3, <2>4
<1>4. CASE FillBatch
  <2>0. PICK batch \in SUBSET todo : \E records \in FillsOf(batch) :
          IF batch = todo
          THEN Filled(merged \cup records, Gaps(Skeletons, merged \cup records))
          ELSE todo' = todo \ batch /\ UNCHANGED <<step, cards>>
    BY <1>4 DEF FillBatch
  <2>1. PICK records \in FillsOf(batch) :
          IF batch = todo
          THEN Filled(merged \cup records, Gaps(Skeletons, merged \cup records))
          ELSE todo' = todo \ batch /\ UNCHANGED <<step, cards>>
    BY <2>0
  <2>2. step = "batches"
    BY <1>4 DEF FillBatch
  <2>3. CASE batch = todo
    <3>1. Filled(merged \cup records, Gaps(Skeletons, merged \cup records))
      BY <2>1, <2>3
    <3>2. step' = "types"
      BY <3>1 DEF Filled
    <3>3. cards' \in {"none", "typed", "untyped"}
      BY <3>1, CardsTyped DEF Filled
    <3>4. Skeletons # {} => cards' # "none"
      BY <3>1, FilledHasCards
    <3>5. QED
      BY <1>2, <3>2, <3>3, <3>4 DEF ContractInv
  <2>4. CASE batch # todo
    <3>1. todo' # {}
      BY <2>1, <2>4
    <3>2. QED
      BY <1>1, <2>1, <2>2, <2>4, <3>1 DEF ContractInv
  <2>5. QED
    BY <2>3, <2>4
<1>5. QED
  BY <1>1, <1>3, <1>4

\* The questions take no record away.
LEMMA QuestionStep == ContractInv /\ (AskAgain \/ AskForReuse \/ NoReuse \/ AskForTypes)
                        => ContractInv'
<1>1. SUFFICES ASSUME ContractInv, AskAgain \/ AskForReuse \/ NoReuse \/ AskForTypes
               PROVE  ContractInv'
  OBVIOUS
<1>2. Skeletons' = Skeletons
  BY <1>1, SameRows DEF AskAgain, AskForReuse, NoReuse, AskForTypes
<1>3. CASE AskAgain \/ AskForReuse \/ NoReuse
  <2>1. Skeletons = {} /\ step' = "types"
    BY <1>1, <1>3 DEF ContractInv, AskAgain, AskForReuse, NoReuse
  <2>2. cards' \in {"none", "typed", "untyped"}
    BY <1>1, <1>3, AnsweredKinds DEF ContractInv, AskAgain, AskForReuse, NoReuse
  <2>3. QED
    BY <1>2, <2>1, <2>2 DEF ContractInv
<1>4. CASE AskForTypes
  BY <1>1, <1>2, <1>4 DEF ContractInv, AskForTypes
<1>5. QED
  BY <1>1, <1>3, <1>4

\* Nor does a repair of the boot.
LEMMA RepairStep == ContractInv /\ RepairBoot => ContractInv'
<1>1. SUFFICES ASSUME ContractInv, RepairBoot PROVE ContractInv'
  OBVIOUS
<1>2. Skeletons' = Skeletons /\ step = "smoke" /\ step' = "smoke"
  BY <1>1, SameRows DEF RepairBoot
<1>3. PICK kind \in {"none", "typed", "untyped"} : \E form \in {"fields", "summary"} :
        cards' = IF Recovered(kind, form) = "none" THEN cards ELSE kind
  BY <1>1 DEF RepairBoot
<1>4. \A form : Recovered(kind, form) # "none" => kind # "none"
  BY DEF Recovered
<1>5. QED
  BY <1>1, <1>2, <1>3, <1>4 DEF ContractInv

\* Nor does the end of the stage.
LEMMA EndStep == ContractInv /\ (SessionRaises \/ SmokePasses \/ SmokeFails \/ Verdict)
                   => ContractInv'
<1>1. SUFFICES ASSUME ContractInv, SessionRaises \/ SmokePasses \/ SmokeFails \/ Verdict
               PROVE  ContractInv'
  OBVIOUS
<1>2. Skeletons' = Skeletons /\ cards' = cards
  BY <1>1, SameRows DEF SessionRaises, SmokePasses, SmokeFails, Verdict
<1>3. CASE SessionRaises \/ SmokePasses \/ SmokeFails
  BY <1>1, <1>2, <1>3 DEF ContractInv, SessionRaises, SmokePasses, SmokeFails
<1>4. CASE Verdict
  <2>1. step = "returned" /\ step' \in {"blind", "refused", "stored"}
    BY <1>4 DEF Verdict
  <2>2. step' = "blind" => cards = "none"
    BY <1>4 DEF Verdict
  <2>3. QED
    BY <1>1, <1>2, <2>1, <2>2 DEF ContractInv
<1>5. QED
  BY <1>1, <1>3, <1>4

\* Hence the invariant holds after every step.
LEMMA ContractStep == ContractInv /\ [ContractsNext]_contractVars => ContractInv'
<1>1. ContractInv /\ UNCHANGED contractVars => ContractInv'
  BY SameRows DEF ContractInv, contractVars, repairVars
<1>2. QED
  BY <1>1, FirstStep, FillStep, QuestionStep, RepairStep, EndStep DEF ContractsNext

\* A design whose files embody contracts is never refused for lack of any, for
\* every set of rows and whatever any session answers.
THEOREM ContractsAreFound == ContractsSpec => []NeverBlind
<1>1. ContractInv => NeverBlind
  BY DEF ContractInv, NeverBlind
<1>2. QED
  BY <1>1, InitialContracts, ContractStep, PTL DEF ContractsSpec

-----------------------------------------------------------------------------
(* The boot smoke *)

\* Only a smoke that passes hands a design on.
LEMMA BootStep == ReturnedBoots /\ [ContractsNext]_contractVars => ReturnedBoots'
<1>1. SUFFICES ASSUME ReturnedBoots, [ContractsNext]_contractVars, step' \in {"returned", "stored"}, Smoked'
               PROVE  boots'
  BY DEF ReturnedBoots
<1>2. ASSUME UNCHANGED <<materialized, claimed>> PROVE Smoked
  BY <1>1, <1>2 DEF Smoked, Evidence
<1>3. CASE SmokePasses
  BY <1>2, <1>3 DEF SmokePasses
<1>4. CASE Verdict
  BY <1>1, <1>2, <1>4 DEF Verdict, ReturnedBoots
<1>5. CASE UNCHANGED contractVars
  BY <1>1, <1>2, <1>5 DEF contractVars, ReturnedBoots
<1>6. ASSUME FirstSession \/ SessionRaises \/ FillAll \/ FillBatch \/ AskAgain \/ AskForReuse
               \/ NoReuse \/ AskForTypes \/ RepairBoot \/ SmokeFails
      PROVE  FALSE
  BY <1>1, <1>6 DEF FirstSession, SessionRaises, FillAll, FillBatch, Filled, AskAgain,
     AskForReuse, NoReuse, AskForTypes, RepairBoot, SmokeFails
<1>7. QED
  BY <1>1, <1>3, <1>4, <1>5, <1>6 DEF ContractsNext

\* A design that goes on to the gates after a write has a backend that boots as
\* the last session left it, for any number of repair rounds.
THEOREM BackendBoots == ContractsSpec => []ReturnedBoots
<1>1. ContractsInit => ReturnedBoots
  BY DEF ContractsInit, ReturnedBoots
<1>2. QED
  BY <1>1, BootStep, PTL DEF ContractsSpec

-----------------------------------------------------------------------------
(* The rows of the fill *)

\* What a session can answer for a contract, and the fill can record of it.
Records == {OwnRecord(r, TRUE) : r \in Row} \cup {OwnRecord(r, FALSE) : r \in Row}
             \cup MintedRecords \cup ForeignRecords

\* The row has a record: its own, or one the model made up for its file.
Recorded(records, r) ==
  \E x \in records : x.id = r \/ (x.id = Minted /\ x.path = FileOf[r])

Sole(r) == \A s \in Row \ {r} : FileOf[s] # FileOf[r]

\* The fill keeps what was answered, and leaves records only to the question
\* about types.
SoleInv ==
  /\ merged \subseteq Records
  /\ step \notin {"batches", "types"} => merged = {}
  /\ SoleRowsRecorded

\* A record of a row is one, blank or not.
LEMMA OwnIsRecord == \A r \in Row, filled \in BOOLEAN : OwnRecord(r, filled) \in Records
<1>1. SUFFICES ASSUME NEW r \in Row, NEW filled \in BOOLEAN PROVE OwnRecord(r, filled) \in Records
  OBVIOUS
<1>2. OwnRecord(r, TRUE) \in Records /\ OwnRecord(r, FALSE) \in Records
  BY Zenon DEF Records
<1>3. filled = TRUE \/ filled = FALSE
  OBVIOUS
<1>4. QED
  BY <1>2, <1>3, Zenon

\* An answer consists of records.
LEMMA AnswerRecords == \A a \in Answers : a \subseteq Records
<1>1. SUFFICES ASSUME NEW a \in Answers PROVE a \subseteq Records
  OBVIOUS
<1>2. PICK said \in [Row -> {"absent", "blank", "filled"}],
           m \in AtMostOne(MintedRecords), f \in AtMostOne(ForeignRecords) :
        a = {OwnRecord(r, said[r] = "filled") : r \in {x \in Row : said[x] # "absent"}}
              \cup m \cup f
  BY DEF Answers
<1>3. m \subseteq MintedRecords /\ f \subseteq ForeignRecords
  BY DEF AtMostOne
<1>4. \A r \in Row : OwnRecord(r, said[r] = "filled") \in Records
  <2>1. \A r \in Row : (said[r] = "filled") \in BOOLEAN
    OBVIOUS
  <2>2. QED
    BY <2>1, OwnIsRecord, Zenon
<1>5. QED
  BY <1>2, <1>3, <1>4 DEF Records

\* So does what a pass of the fill makes of it.
LEMMA FillRecords ==
  ASSUME NEW rows, NEW records \in FillsOf(rows)
  PROVE  records \subseteq Records
<1>1. PICK fill \in Fills : records = fill.records
  BY DEF FillsOf
<1>2. PICK asked \in SUBSET Row, a \in Answers :
        \E first \in Firsts(a) : fill = [rows |-> asked, records |-> Merge(asked, a, first)]
  BY DEF Fills
<1>3. PICK first \in Firsts(a) : records = Merge(asked, a, first)
  BY <1>1, <1>2
<1>4. \A x \in Merge(asked, a, first) : x \in a \/ \E r \in Row : x = OwnRecord(r, TRUE)
  BY DEF Merge
<1>5. \A r \in Row : OwnRecord(r, TRUE) \in Records
  BY OwnIsRecord
<1>6. QED
  BY <1>3, <1>4, <1>5, AnswerRecords

\* A row alone in its file is covered only by a record of its own, or one made up
\* for the file: the record of another row has another path, a reused one does
\* not count.
LEMMA CoveredIsRecorded ==
  ASSUME NEW records, records \subseteq Records, NEW r \in Row, Sole(r), Covered(records, r)
  PROVE  Recorded(records, r)
<1>1. PICK x \in records : x.id = r \/ (x.path = FileOf[r] /\ ~Reused(x))
  BY DEF Covered
<1>2. CASE x.id = r
  BY <1>2 DEF Recorded
<1>3. CASE x.path = FileOf[r] /\ ~Reused(x)
  <2>1. x \notin ForeignRecords
    BY <1>3 DEF ForeignRecords, Reused
  <2>2. CASE x \in MintedRecords
    BY <1>3, <2>2 DEF MintedRecords, Recorded
  <2>3. CASE \E s \in Row : x = OwnRecord(s, TRUE) \/ x = OwnRecord(s, FALSE)
    <3>1. PICK s \in Row : x.id = s /\ x.path = FileOf[s]
      BY <2>3 DEF OwnRecord
    <3>2. s = r
      BY <1>3, <3>1 DEF Sole
    <3>3. QED
      BY <3>1, <3>2 DEF Recorded
  <2>4. QED
    BY <2>1, <2>2, <2>3 DEF Records
<1>4. QED
  BY <1>1, <1>2, <1>3

\* The end of a fill records every row of it that is alone in its file.
LEMMA FilledRecordsRows ==
  ASSUME NEW records, records \subseteq Records, Filled(records, Gaps(Skeletons, records)),
         UNCHANGED materialized
  PROVE  SoleInv'
<1>1. merged' = records \cup Mechanical(Gaps(Skeletons, records)) /\ step' = "types"
  BY DEF Filled, WithMechanical
<1>2. Gaps(Skeletons, records) \subseteq Row
  BY DEF Gaps, Skeletons
<1>3. merged' \subseteq Records
  BY <1>1, <1>2, OwnIsRecord DEF Mechanical
<1>4. ASSUME NEW r \in Skeletons, Sole(r) PROVE Recorded(merged', r)
  <2>1. r \in Row
    BY DEF Skeletons
  <2>2. CASE Covered(records, r)
    <3>1. Recorded(records, r)
      BY <1>4, <2>1, <2>2, CoveredIsRecorded
    <3>2. QED
      BY <1>1, <3>1 DEF Recorded
  <2>3. CASE ~Covered(records, r)
    <3>1. OwnRecord(r, TRUE) \in merged'
      BY <1>1, <2>3 DEF Gaps, Mechanical
    <3>2. OwnRecord(r, TRUE).id = r
      BY DEF OwnRecord
    <3>3. QED
      BY <3>1, <3>2 DEF Recorded
  <2>4. QED
    BY <2>2, <2>3
<1>5. SoleRowsRecorded'
  BY <1>4, SameRows DEF SoleRowsRecorded, Sole, Recorded
<1>6. QED
  BY <1>1, <1>3, <1>5 DEF SoleInv

\* The fill, in one session and in batches.
LEMMA FillKeepsRows == SoleInv /\ (FillAll \/ FillBatch) => SoleInv'
<1>1. SUFFICES ASSUME SoleInv, FillAll \/ FillBatch PROVE SoleInv'
  OBVIOUS
<1>2. UNCHANGED materialized
  BY <1>1 DEF FillAll, FillBatch
<1>3. ASSUME NEW records, merged' = records, records \subseteq Records, step' = "batches"
      PROVE  SoleInv'
  BY <1>3 DEF SoleInv, SoleRowsRecorded
<1>4. CASE FillAll
  <2>1. PICK records \in FillsOf(Skeletons) :
          IF Gaps(Skeletons, records) = {} THEN Filled(records, {})
          ELSE step' = "batches" /\ merged' = records
    BY <1>4 DEF FillAll
  <2>2. records \subseteq Records
    BY FillRecords
  <2>3. CASE Gaps(Skeletons, records) = {}
    <3>1. Filled(records, Gaps(Skeletons, records))
      BY <2>1, <2>3
    <3>2. QED
      BY <1>2, <2>2, <3>1, FilledRecordsRows
  <2>4. CASE Gaps(Skeletons, records) # {}
    BY <1>3, <2>1, <2>2, <2>4
  <2>5. QED
    BY <2>3, <2>4
<1>5. CASE FillBatch
  <2>1. PICK batch \in SUBSET todo : \E records \in FillsOf(batch) :
          IF batch = todo
          THEN Filled(merged \cup records, Gaps(Skeletons, merged \cup records))
          ELSE merged' = merged \cup records /\ UNCHANGED <<step, cards>>
    BY <1>5 DEF FillBatch
  <2>2. PICK records \in FillsOf(batch) :
          IF batch = todo
          THEN Filled(merged \cup records, Gaps(Skeletons, merged \cup records))
          ELSE merged' = merged \cup records /\ UNCHANGED <<step, cards>>
    BY <2>1
  <2>3. merged \cup records \subseteq Records
    BY <1>1, FillRecords DEF SoleInv
  <2>4. CASE batch = todo
    BY <1>2, <2>2, <2>3, <2>4, FilledRecordsRows
  <2>5. CASE batch # todo
    <3>1. step = "batches"
      BY <1>5 DEF FillBatch
    <3>2. QED
      BY <1>3, <2>2, <2>3, <2>5, <3>1
  <2>6. QED
    BY <2>4, <2>5
<1>6. QED
  BY <1>1, <1>4, <1>5

\* No other step has records to lose.
LEMMA SoleStep == SoleInv /\ [ContractsNext]_contractVars => SoleInv'
<1>1. SUFFICES ASSUME SoleInv, [ContractsNext]_contractVars PROVE SoleInv'
  OBVIOUS
<1>2. ASSUME merged' = {}  PROVE SoleInv'
  BY <1>2 DEF SoleInv, SoleRowsRecorded
<1>3. CASE FirstSession \/ SessionRaises \/ AskAgain \/ AskForReuse \/ NoReuse
           \/ SmokePasses \/ RepairBoot \/ SmokeFails \/ Verdict
  <2>1. merged = {} /\ merged' = merged
    BY <1>1, <1>3 DEF SoleInv, FirstSession, SessionRaises, AskAgain, AskForReuse, NoReuse,
       SmokePasses, RepairBoot, SmokeFails, Verdict, repairVars
  <2>2. QED
    BY <1>2, <2>1
<1>4. CASE AskForTypes
  BY <1>2, <1>4 DEF AskForTypes
<1>5. CASE UNCHANGED contractVars
  BY <1>1, <1>5, SameRows DEF SoleInv, SoleRowsRecorded, contractVars, repairVars
<1>6. QED
  BY <1>1, <1>3, <1>4, <1>5, FillKeepsRows DEF ContractsNext

\* After the fill a row that is alone in its file is recorded, for every set of
\* rows and files and every batch size: no answer, and no record of a reused
\* contract, hides it (_find_filled_record, merge_filled_contracts).
THEOREM RowsAreRecorded == ContractsSpec => []SoleRowsRecorded
<1>1. ContractsInit => SoleInv
  BY DEF ContractsInit, SoleInv, SoleRowsRecorded
<1>2. SoleInv => SoleRowsRecorded
  BY DEF SoleInv
<1>3. QED
  BY <1>1, <1>2, SoleStep, PTL DEF ContractsSpec

-----------------------------------------------------------------------------
(* The discipline of a pass: the calls in flight *)

\* A call is known by its number; two calls on one path have crossed; a pass ends
\* with nothing in flight, and a failed test run is the implementation's.
FlightInv ==
  /\ TypeOK
  /\ IsFiniteSet(flight)
  /\ \A c \in flight : c.id <= calls
  /\ \A c, d \in flight : c # d =>
       /\ c.id # d.id
       /\ c.path = d.path => {<<c.path, c.tool>>, <<c.path, d.tool>>} \subseteq crossed
  /\ outcome # "running" => flight = {}
  /\ stage # "implementation" => ~testsFailed

FileCall == [id : Nat, path : Path, tool : Tools, result : {"none", "ok", "failed"},
             repair : BOOLEAN, locked : BOOLEAN]

\* The types, one by one.
LEMMA PassTypes ==
  ASSUME TypeOK
  PROVE  /\ stage \in Stages /\ writeSet \subseteq SUBSET Path
         /\ declared \subseteq Path /\ retryable \subseteq Path /\ written \subseteq Path
         /\ failed \subseteq Path /\ reserved \subseteq Path /\ disk \subseteq Path
         /\ registered \subseteq Path /\ testsFailed \in BOOLEAN /\ calls \in Nat
         /\ appends \in [Path -> Nat] /\ edits \in [Path -> Nat] /\ rewrites \in [Path -> Nat]
         /\ repairs \in [Path -> Nat] /\ appended \in [Path -> Nat]
         /\ flight \subseteq FileCall /\ crossed \subseteq Path \X Tools
         /\ outcome \in {"running", "tests", "failed", "done", "passed"}
BY DEF TypeOK, FileCall

\* A call that passes its validation joins the calls in flight, with a number of
\* its own.
LEMMA StartedCall ==
  ASSUME FlightInv, NEW p \in Path, NEW tool \in Tools, StartCall(p, tool)
  PROVE  \E n \in FileCall :
           /\ n \notin flight /\ flight' = flight \cup {n} /\ n.id = calls'
           /\ n.path = p /\ n.tool = tool /\ n.result = "none"
           /\ n.repair = IsRepair(p, tool) /\ n.locked = Locked(p)
<1>. DEFINE n == [id |-> calls', path |-> p, tool |-> tool, result |-> "none",
                  repair |-> IsRepair(p, tool), locked |-> Locked(p)]
<1>1. calls \in Nat /\ calls' = calls + 1 /\ \A c \in flight : c.id <= calls
  BY PassTypes DEF StartCall, Validates, FlightInv
<1>2. IsRepair(p, tool) \in BOOLEAN /\ Locked(p) \in BOOLEAN
  BY DEF IsRepair, Locked
<1>3. n \in FileCall
  BY <1>1, <1>2 DEF FileCall
<1>4. flight' = flight \cup {n}
  BY DEF StartCall
<1>5. n \notin flight
  BY <1>1
<1>. QED BY <1>3, <1>4, <1>5

\* A tool that ran gives its call a result and changes nothing else of it.
LEMMA RanCall ==
  ASSUME FlightInv, NEW c \in flight, RunTool(c)
  PROVE  \E n \in FileCall, ok \in BOOLEAN :
           /\ n \notin flight /\ flight' = (flight \ {c}) \cup {n} /\ c.result = "none"
           /\ n.result = (IF ok THEN "ok" ELSE "failed")
           /\ n.id = c.id /\ n.path = c.path /\ n.tool = c.tool
           /\ n.repair = c.repair /\ n.locked = c.locked
           /\ ok => (c.path \in disk <=> c.tool # "write")
           /\ disk' = (IF ~ok THEN disk
                       ELSE IF c.tool = "delete" THEN disk \ {c.path} ELSE disk \cup {c.path})
           /\ repairs' = (IF ok /\ c.locked /\ c.tool \in {"edit", "delete"}
                          THEN [repairs EXCEPT ![c.path] = @ + 1] ELSE repairs)
           /\ appended' = (IF ok /\ c.tool = "append"
                           THEN [appended EXCEPT ![c.path] = @ + 1] ELSE appended)
<1>1. c \in FileCall
  BY PassTypes DEF FlightInv
<1>2. c.result = "none"
  BY DEF RunTool
<1>3. PICK ok \in BOOLEAN :
        /\ ok => (c.path \in disk) = (c.tool # "write")
        /\ flight' = (flight \ {c}) \cup {[c EXCEPT !.result = IF ok THEN "ok" ELSE "failed"]}
        /\ disk' = IF ~ok THEN disk
                   ELSE IF c.tool = "delete" THEN disk \ {c.path} ELSE disk \cup {c.path}
        /\ repairs' = IF ok /\ c.locked /\ c.tool \in {"edit", "delete"}
                      THEN [repairs EXCEPT ![c.path] = @ + 1] ELSE repairs
        /\ appended' = IF ok /\ c.tool = "append"
                       THEN [appended EXCEPT ![c.path] = @ + 1] ELSE appended
  BY Zenon DEF RunTool
<1>. DEFINE r == IF ok THEN "ok" ELSE "failed"
            n == [c EXCEPT !.result = r]
<1>4. r \in {"ok", "failed"} /\ r # "none"
  OBVIOUS
<1>5. flight' = (flight \ {c}) \cup {n}
  BY <1>3
<1>. HIDE DEF r
<1>6. n \in FileCall /\ n.result = r /\ n.id = c.id /\ n.path = c.path /\ n.tool = c.tool
      /\ n.repair = c.repair /\ n.locked = c.locked
  BY <1>1, <1>4 DEF FileCall
<1>7. n \notin flight
  <2>1. n # c
    BY <1>2, <1>4, <1>6
  <2>. QED BY <1>6, <2>1 DEF FlightInv
<1>. HIDE DEF n
<1>8. n.result = (IF ok THEN "ok" ELSE "failed")
  BY <1>6 DEF r
<1>9. ok => (c.path \in disk <=> c.tool # "write")
  BY <1>3
<1>. QED BY <1>2, <1>3, <1>5, <1>6, <1>7, <1>8, <1>9

-----------------------------------------------------------------------------
(* Types and numbers of the calls *)

\* The steps that start no call and let none go on.
Aside ==
  \/ \E S \in WriteSets[stage] : DeclareWriteSet(S)
  \/ \E F \in SUBSET TestFile \ {{}} : \E wrong \in {{}, F} : DeclareManifest(F, wrong)
  \/ FailTests
  \/ \E rows \in SUBSET TestFile : ReturnManifest(rows) \/ ReturnUndeclared(rows)
  \/ RunOutOfSteps \/ ReturnOther \/ PassImplementation
  \/ UNCHANGED passVars

\* A pass steps aside, or a call is validated, runs or is recorded.
LEMMA PassSteps ==
  [PassNext]_passVars =>
    \/ Aside
    \/ \E p \in Path, tool \in Tools : StartCall(p, tool) \/ StopAtClaim(p, tool)
    \/ \E c \in flight : RunTool(c) \/ Record(c)
BY Zenon DEF PassNext, Aside

\* Aside of the calls nothing of theirs changes.
LEMMA AsideFrame ==
  ASSUME Aside
  PROVE  /\ UNCHANGED <<stage, flight, calls, reserved, appends, edits, rewrites, written>>
         /\ UNCHANGED <<repairs, appended, crossed>>
         /\ stage # "implementation" => UNCHANGED <<disk, testsFailed>>
BY DEF Aside, DeclareWriteSet, DeclareManifest, FailTests, ReturnManifest, ReturnUndeclared,
       RunOutOfSteps, ReturnOther, PassImplementation, Ends, passVars, declarations, locks, budgets, ending,
       history

\* The types, all at once.
LEMMA PassTypesBack ==
  ASSUME stage \in Stages, writeSet \subseteq SUBSET Path,
         declared \subseteq Path, retryable \subseteq Path, written \subseteq Path,
         failed \subseteq Path, reserved \subseteq Path, disk \subseteq Path,
         registered \subseteq Path, testsFailed \in BOOLEAN, calls \in Nat,
         appends \in [Path -> Nat], edits \in [Path -> Nat], rewrites \in [Path -> Nat],
         repairs \in [Path -> Nat], appended \in [Path -> Nat],
         flight \subseteq FileCall, crossed \subseteq Path \X Tools,
         outcome \in {"running", "tests", "failed", "done", "passed"}
  PROVE  TypeOK
BY DEF TypeOK, FileCall

\* A declaration and an end of the pass keep the types.
LEMMA AsideType ==
  ASSUME TypeOK, Aside
  PROVE  TypeOK'
<1>. USE PassTypes, DisciplineAssumption
<1>1. CASE \E S \in WriteSets[stage] : DeclareWriteSet(S)
  <2>1. PICK S \in WriteSets[stage] : DeclareWriteSet(S)
    BY <1>1
  <2>2. S \subseteq Path
    OBVIOUS
  <2>. QED BY <2>1, <2>2, PassTypesBack
         DEF TypeOK, DeclareWriteSet, locks, budgets, ending, history
<1>2. CASE \E F \in SUBSET TestFile \ {{}} : \E wrong \in {{}, F} : DeclareManifest(F, wrong)
  <2>1. PICK F \in SUBSET TestFile, wrong \in SUBSET TestFile : DeclareManifest(F, wrong)
    BY <1>2
  <2>2. F \subseteq Path
    OBVIOUS
  <2>3. declared' \subseteq Path /\ retryable' \subseteq Path
    <3>1. declared' \in {declared, declared \cup F}
      BY <2>1 DEF DeclareManifest
    <3>2. \E G \in SUBSET F : retryable' = retryable \cup G \/ retryable' = retryable \ F
      BY <2>1 DEF DeclareManifest
    <3>. QED BY <2>2, <3>1, <3>2
  <2>. QED BY <2>1, <2>3 DEF TypeOK, DeclareManifest, locks, budgets, ending, history
<1>3. CASE FailTests
  BY <1>3 DEF TypeOK, FailTests, declarations, budgets, ending, history
<1>4. CASE \E rows \in SUBSET TestFile : ReturnManifest(rows) \/ ReturnUndeclared(rows)
  <2>1. PICK rows \in SUBSET TestFile : ReturnManifest(rows) \/ ReturnUndeclared(rows)
    BY <1>4
  <2>2. /\ registered' \subseteq Path
        /\ outcome' \in {"running", "tests", "failed", "done", "passed"}
        /\ UNCHANGED <<stage, declarations, locks, budgets, flight, disk, calls, history>>
    BY <2>1 DEF ReturnManifest, ReturnUndeclared, Ends
  <2>. QED BY <2>2 DEF TypeOK, declarations, locks, budgets, history
<1>5. CASE RunOutOfSteps \/ ReturnOther
  <2>1. /\ registered' \subseteq Path
        /\ outcome' \in {"running", "tests", "failed", "done", "passed"}
        /\ UNCHANGED <<stage, declarations, locks, budgets, flight, disk, calls, history>>
    BY <1>5 DEF RunOutOfSteps, ReturnOther, Ends
  <2>. QED BY <2>1 DEF TypeOK, declarations, locks, budgets, history
<1>6. CASE PassImplementation
  BY <1>6 DEF TypeOK, PassImplementation, declarations, locks, budgets, history
<1>7. CASE UNCHANGED passVars
  BY <1>7 DEF TypeOK, passVars, declarations, locks, budgets, ending, history
<1>. QED BY <1>1, <1>2, <1>3, <1>4, <1>5, <1>6, <1>7 DEF Aside

\* The calls in flight keep what is said of them.
LEMMA FlightStep ==
  ASSUME FlightInv, [PassNext]_passVars
  PROVE  FlightInv'
<1>. USE PassTypes DEF FlightInv
<1>1. CASE Aside
  <2>1. TypeOK' /\ flight' = flight /\ calls' = calls /\ crossed' = crossed /\ stage' = stage
    BY <1>1, AsideType, AsideFrame
  <2>2. stage # "implementation" => ~testsFailed'
    BY <1>1, AsideFrame
  <2>3. outcome' # "running" => flight = {}
    BY <1>1 DEF Aside, DeclareWriteSet, DeclareManifest, FailTests, ReturnManifest,
                ReturnUndeclared, RunOutOfSteps, ReturnOther, PassImplementation, Ends, passVars, ending
  <2>. QED BY <2>1, <2>2, <2>3
<1>2. ASSUME NEW p \in Path, NEW tool \in Tools, StartCall(p, tool)
      PROVE  FlightInv'
  <2>1. PICK n \in FileCall : /\ n \notin flight /\ flight' = flight \cup {n} /\ n.id = calls'
                              /\ n.path = p /\ n.tool = tool
    BY <1>2, StartedCall
  <2>2. calls' = calls + 1 /\ outcome = "running" /\ outcome' = outcome
    BY <1>2 DEF StartCall, Validates, ending
  <2>3. UNCHANGED <<stage, testsFailed>>
    BY <1>2 DEF StartCall, locks
  <2>4. crossed' = crossed \cup ({<<p, c.tool>> : c \in {d \in flight : d.path = p}}
                                 \cup {<<p, tool>> : c \in {d \in flight : d.path = p}})
    BY <1>2 DEF StartCall
  <2>5. TypeOK'
    <3>1. crossed' \subseteq Path \X Tools
      BY <2>4 DEF FileCall
    <3>2. flight' \subseteq FileCall /\ calls' \in Nat
      BY <2>1, <2>2
    <3>3. reserved' \subseteq Path
      BY <1>2 DEF StartCall, Validates, ReserveDesignWrite
    <3>4. appends' \in [Path -> Nat]
      BY <1>2 DEF StartCall
    <3>. QED BY <1>2, <3>1, <3>2, <3>3, <3>4
           DEF StartCall, TypeOK, FileCall, declarations, locks, ending
  <2>6. IsFiniteSet(flight')
    BY <2>1, FS_AddElement
  <2>7. \A c \in flight' : c.id <= calls'
    BY <2>1, <2>2 DEF FileCall
  <2>8. \A c, d \in flight' : c # d =>
          /\ c.id # d.id
          /\ c.path = d.path => {<<c.path, c.tool>>, <<c.path, d.tool>>} \subseteq crossed'
    <3>1. \A c \in flight : c.id # n.id
      BY <2>1, <2>2 DEF FileCall
    <3>2. \A c \in flight : c.path = n.path =>
            {<<c.path, c.tool>>, <<c.path, n.tool>>} \subseteq crossed'
      BY <2>1, <2>4
    <3>. QED BY <2>1, <2>4, <3>1, <3>2
  <2>. QED BY <2>2, <2>3, <2>5, <2>6, <2>7, <2>8
<1>3. ASSUME NEW p \in Path, NEW tool \in Tools, StopAtClaim(p, tool)
      PROVE  FlightInv'
  <2>1. /\ UNCHANGED <<stage, declarations, locks, appends, edits, rewrites, flight, disk,
                       ending, history>>
        /\ calls' = calls + 1
    BY <1>3 DEF StopAtClaim, Validates
  <2>2. reserved' \subseteq Path
    BY <1>3 DEF StopAtClaim, Validates, ReserveDesignWrite
  <2>3. TypeOK'
    BY <2>1, <2>2 DEF TypeOK, declarations, locks, ending, history
  <2>. QED BY <2>1, <2>3 DEF locks, ending, history, FileCall
<1>4. ASSUME NEW c \in flight, RunTool(c)
      PROVE  FlightInv'
  <2>1. PICK n \in FileCall, ok \in BOOLEAN :
           /\ n \notin flight /\ flight' = (flight \ {c}) \cup {n}
           /\ n.id = c.id /\ n.path = c.path /\ n.tool = c.tool
           /\ disk' = (IF ~ok THEN disk
                       ELSE IF c.tool = "delete" THEN disk \ {c.path} ELSE disk \cup {c.path})
           /\ repairs' = (IF ok /\ c.locked /\ c.tool \in {"edit", "delete"}
                          THEN [repairs EXCEPT ![c.path] = @ + 1] ELSE repairs)
           /\ appended' = (IF ok /\ c.tool = "append"
                           THEN [appended EXCEPT ![c.path] = @ + 1] ELSE appended)
    BY <1>4, RanCall
  <2>2. UNCHANGED <<stage, declarations, locks, budgets, calls, ending, crossed>>
    BY <1>4 DEF RunTool
  <2>3. c \in FileCall /\ c.path \in Path
    BY DEF FileCall
  <2>4. TypeOK'
    <3>1. disk' \subseteq Path /\ repairs' \in [Path -> Nat] /\ appended' \in [Path -> Nat]
      BY <2>1, <2>3
    <3>2. flight' \subseteq FileCall
      BY <2>1
    <3>. QED BY <2>2, <3>1, <3>2 DEF TypeOK, FileCall, declarations, locks, budgets, ending
  <2>5. IsFiniteSet(flight')
    BY <2>1, FS_AddElement, FS_RemoveElement
  <2>. QED BY <2>1, <2>2, <2>4, <2>5 DEF locks, ending
<1>5. ASSUME NEW c \in flight, Record(c)
      PROVE  FlightInv'
  <2>1. /\ flight' = flight \ {c}
        /\ UNCHANGED <<stage, declarations, testsFailed, appends, disk, calls, ending, history>>
    BY <1>5 DEF Record
  <2>2. c.path \in Path
    BY DEF FileCall
  <2>3. written' \subseteq Path /\ failed' \subseteq Path /\ reserved' \subseteq Path
        /\ edits' \in [Path -> Nat] /\ rewrites' \in [Path -> Nat]
    <3>1. CASE RecordFailure(c)
      BY <2>2, <3>1 DEF RecordFailure
    <3>2. CASE RecordDelete(c)
      BY <2>2, <3>2 DEF RecordDelete
    <3>3. CASE RecordWrite(c)
      BY <2>2, <3>3 DEF RecordWrite
    <3>. QED BY <1>5, <3>1, <3>2, <3>3 DEF Record
  <2>4. TypeOK'
    <3>1. flight' \subseteq FileCall
      BY <2>1
    <3>. QED BY <2>1, <2>3, <3>1 DEF TypeOK, FileCall, declarations, ending, history
  <2>5. IsFiniteSet(flight')
    BY <2>1, FS_RemoveElement
  <2>. QED BY <2>1, <2>4, <2>5 DEF ending, history
<1>. QED BY <1>1, <1>2, <1>3, <1>4, <1>5, PassSteps

-----------------------------------------------------------------------------
(* A DESIGN pass stays small *)

\* The appends to a file that are validated and have not run.
Appending(p) == {c \in flight : c.path = p /\ c.tool = "append" /\ c.result = "none"}

\* Every append on disk or about to be has taken its unit.
AppendsPaid ==
  \A p \in Path : /\ appended[p] + Cardinality(Appending(p)) <= appends[p]
                  /\ appends[p] <= MaxAppends

\* In a DESIGN pass every path that is written or in flight holds a unit, unless
\* two calls of one batch crossed on it; no call deletes.
UnitsTaken ==
  /\ IsFiniteSet(reserved)
  /\ stage = "interface_design" =>
       /\ Cardinality(reserved) <= MaxDesignWrites
       /\ \A c \in flight : c.tool # "delete"
       /\ \A p \in Path : ~Overlapped(p) =>
            /\ p \in written => p \in reserved
            /\ \A c \in flight : c.path = p => p \in reserved

SmallInv == FlightInv /\ AppendsPaid /\ UnitsTaken

\* A part of what is in flight is finite.
LEMMA InFlightFinite ==
  ASSUME FlightInv, NEW S \in SUBSET flight
  PROVE  IsFiniteSet(S) /\ Cardinality(S) \in Nat
BY FS_Subset, FS_CardinalityType DEF FlightInv

\* Without one of its members a part of what is in flight has one fewer.
LEMMA LessOne ==
  ASSUME FlightInv, NEW S \in SUBSET flight, NEW c \in S
  PROVE  Cardinality(S) = Cardinality(S \ {c}) + 1 /\ Cardinality(S \ {c}) \in Nat
<1>1. IsFiniteSet(S \ {c}) /\ Cardinality(S \ {c}) \in Nat
  BY InFlightFinite
<1>2. S = (S \ {c}) \cup {c} /\ c \notin S \ {c}
  OBVIOUS
<1>. QED BY <1>1, <1>2, FS_AddElement

\* An append takes its unit when it is validated, before it runs.
LEMMA AppendsStep ==
  ASSUME FlightInv, AppendsPaid, [PassNext]_passVars
  PROVE  AppendsPaid'
<1>. USE PassTypes, DisciplineAssumption DEF FlightInv
<1>. SUFFICES ASSUME NEW q \in Path
              PROVE  /\ appended'[q] + Cardinality(Appending(q)') <= appends'[q]
                     /\ appends'[q] <= MaxAppends
  BY DEF AppendsPaid
<1>1. /\ appended[q] \in Nat /\ appends[q] \in Nat /\ MaxAppends \in Nat
      /\ appended[q] + Cardinality(Appending(q)) <= appends[q] /\ appends[q] <= MaxAppends
      /\ Appending(q) \in SUBSET flight
  BY DEF AppendsPaid, Appending
<1>2. IsFiniteSet(Appending(q)) /\ Cardinality(Appending(q)) \in Nat
  BY <1>1, InFlightFinite
<1>3. CASE Aside
  BY <1>1, <1>3, AsideFrame DEF Appending
<1>4. ASSUME NEW p \in Path, NEW tool \in Tools, StartCall(p, tool)
      PROVE  /\ appended'[q] + Cardinality(Appending(q)') <= appends'[q]
             /\ appends'[q] <= MaxAppends
  <2>1. PICK n \in FileCall : /\ n \notin flight /\ flight' = flight \cup {n}
                              /\ n.path = p /\ n.tool = tool /\ n.result = "none"
    BY <1>4, StartedCall
  <2>2. /\ appended' = appended
        /\ appends' = (IF tool = "append" THEN [appends EXCEPT ![p] = @ + 1] ELSE appends)
        /\ tool = "append" => appends[p] < MaxAppends
    BY <1>4 DEF StartCall, Validates, WithinBudget
  <2>3. CASE p = q /\ tool = "append"
    <3>1. Appending(q)' = Appending(q) \cup {n} /\ n \notin Appending(q)
      BY <2>1, <2>3 DEF Appending
    <3>2. Cardinality(Appending(q)') = Cardinality(Appending(q)) + 1
      BY <1>2, <3>1, FS_AddElement
    <3>3. appends'[q] = appends[q] + 1
      BY <2>2, <2>3
    <3>. QED BY <1>1, <1>2, <2>2, <2>3, <3>2, <3>3
  <2>4. CASE ~(p = q /\ tool = "append")
    <3>1. Appending(q)' = Appending(q)
      BY <2>1, <2>4 DEF Appending
    <3>2. appends'[q] = appends[q]
      BY <2>2, <2>4
    <3>. QED BY <1>1, <2>2, <3>1, <3>2
  <2>. QED BY <2>3, <2>4
<1>5. ASSUME NEW p \in Path, NEW tool \in Tools, StopAtClaim(p, tool)
      PROVE  /\ appended'[q] + Cardinality(Appending(q)') <= appends'[q]
             /\ appends'[q] <= MaxAppends
  BY <1>1, <1>5 DEF StopAtClaim, Appending, history
<1>6. ASSUME NEW c \in flight, RunTool(c)
      PROVE  /\ appended'[q] + Cardinality(Appending(q)') <= appends'[q]
             /\ appends'[q] <= MaxAppends
  <2>1. PICK n \in FileCall, ok \in BOOLEAN :
           /\ flight' = (flight \ {c}) \cup {n} /\ c.result = "none"
           /\ n.result = (IF ok THEN "ok" ELSE "failed")
           /\ appended' = (IF ok /\ c.tool = "append"
                           THEN [appended EXCEPT ![c.path] = @ + 1] ELSE appended)
    BY <1>6, RanCall
  <2>2. appends' = appends
    BY <1>6 DEF RunTool, budgets
  <2>3. Appending(q)' = Appending(q) \ {c}
    BY <2>1 DEF Appending
  <2>4. CASE c.path = q /\ c.tool = "append"
    <3>1. c \in Appending(q)
      BY <2>1, <2>4 DEF Appending
    <3>2. /\ Cardinality(Appending(q)) = Cardinality(Appending(q) \ {c}) + 1
          /\ Cardinality(Appending(q) \ {c}) \in Nat
      BY <1>1, <1>2, <3>1, LessOne
    <3>3. appended'[q] = appended[q] \/ appended'[q] = appended[q] + 1
      BY <2>1, <2>4
    <3>. QED BY <1>1, <1>2, <2>2, <2>3, <3>2, <3>3
  <2>5. CASE ~(c.path = q /\ c.tool = "append")
    <3>1. Appending(q)' = Appending(q)
      BY <2>3, <2>5 DEF Appending
    <3>2. appended'[q] = appended[q]
      BY <2>1, <2>5
    <3>. QED BY <1>1, <2>2, <3>1, <3>2
  <2>. QED BY <2>4, <2>5
<1>7. ASSUME NEW c \in flight, Record(c)
      PROVE  /\ appended'[q] + Cardinality(Appending(q)') <= appends'[q]
             /\ appends'[q] <= MaxAppends
  <2>1. /\ c.result # "none" /\ flight' = flight \ {c}
        /\ appends' = appends /\ appended' = appended
    BY <1>7 DEF Record, history
  <2>2. Appending(q)' = Appending(q)
    BY <2>1 DEF Appending
  <2>. QED BY <1>1, <2>1, <2>2
<1>. QED BY <1>3, <1>4, <1>5, <1>6, <1>7, PassSteps

\* A unit is taken when a call is validated and given back only by a failure on a
\* path that is not written and that no other call is on.
LEMMA UnitsStep ==
  ASSUME FlightInv, FlightInv', UnitsTaken, [PassNext]_passVars
  PROVE  UnitsTaken'
<1>. USE PassTypes, DisciplineAssumption DEF FlightInv
<1>1. CASE Aside
  BY <1>1, AsideFrame DEF UnitsTaken, Overlapped
<1>2. ASSUME NEW p \in Path, NEW tool \in Tools, Validates(p, tool), stage' = stage
      PROVE  /\ IsFiniteSet(reserved')
             /\ stage = "interface_design" =>
                  /\ Cardinality(reserved') <= MaxDesignWrites
                  /\ p \in reserved' /\ reserved \subseteq reserved' /\ tool # "delete"
  <2>1. reserved' = IF stage = "interface_design" THEN reserved \cup {p} ELSE reserved
    BY <1>2 DEF Validates, ReserveDesignWrite
  <2>2. stage = "interface_design" =>
          /\ tool # "delete"
          /\ p \in reserved \/ Cardinality(reserved) < MaxDesignWrites
    BY <1>2 DEF Validates, Reservable, Permitted, Capable
  <2>3. IsFiniteSet(reserved) /\ Cardinality(reserved) \in Nat
    BY FS_CardinalityType DEF UnitsTaken
  <2>4. IsFiniteSet(reserved')
    BY <2>1, <2>3, FS_AddElement
  <2>5. CASE stage = "interface_design"
    <3>1. Cardinality(reserved) <= MaxDesignWrites
      BY <2>5 DEF UnitsTaken
    <3>2. CASE p \in reserved
      <4>1. reserved' = reserved
        BY <2>1, <3>2
      <4>. QED BY <2>2, <2>4, <2>5, <3>1, <3>2, <4>1
    <3>3. CASE p \notin reserved
      <4>1. Cardinality(reserved') = Cardinality(reserved) + 1
        BY <2>1, <2>3, <2>5, <3>3, FS_AddElement
      <4>2. MaxDesignWrites \in Nat
        OBVIOUS
      <4>. QED BY <2>1, <2>2, <2>3, <2>4, <2>5, <3>3, <4>1, <4>2
    <3>. QED BY <3>2, <3>3
  <2>. QED BY <2>4, <2>5
<1>3. ASSUME NEW p \in Path, NEW tool \in Tools, StartCall(p, tool)
      PROVE  UnitsTaken'
  <2>1. PICK n \in FileCall : /\ flight' = flight \cup {n} /\ n.path = p /\ n.tool = tool
    BY <1>3, StartedCall
  <2>2. stage' = stage /\ written' = written /\ crossed \subseteq crossed'
    BY <1>3 DEF StartCall, locks
  <2>3. Validates(p, tool)
    BY <1>3 DEF StartCall
  <2>4. /\ IsFiniteSet(reserved')
        /\ stage = "interface_design" =>
             /\ Cardinality(reserved') <= MaxDesignWrites
             /\ p \in reserved' /\ reserved \subseteq reserved' /\ tool # "delete"
    BY <1>2, <2>2, <2>3
  <2>5. ASSUME stage = "interface_design"
        PROVE  /\ \A c \in flight' : c.tool # "delete"
               /\ \A q \in Path : ~Overlapped(q)' =>
                    /\ q \in written => q \in reserved'
                    /\ \A c \in flight' : c.path = q => q \in reserved'
    <3>1. \A q \in Path : ~Overlapped(q)' => ~Overlapped(q)
      BY <2>2 DEF Overlapped
    <3>. QED BY <2>1, <2>4, <2>5, <3>1 DEF UnitsTaken
  <2>. QED BY <2>2, <2>4, <2>5 DEF UnitsTaken
<1>4. ASSUME NEW p \in Path, NEW tool \in Tools, StopAtClaim(p, tool)
      PROVE  UnitsTaken'
  <2>1. /\ stage' = stage /\ written' = written /\ crossed' = crossed /\ flight' = flight
        /\ Validates(p, tool)
    BY <1>4 DEF StopAtClaim, locks, history
  <2>. QED BY <1>2, <2>1 DEF UnitsTaken, Overlapped
<1>5. ASSUME NEW c \in flight, RunTool(c)
      PROVE  UnitsTaken'
  <2>1. PICK n \in FileCall : /\ flight' = (flight \ {c}) \cup {n}
                              /\ n.path = c.path /\ n.tool = c.tool
    BY <1>5, RanCall
  <2>2. UNCHANGED <<stage, written, reserved, crossed>>
    BY <1>5 DEF RunTool, locks, budgets
  <2>. QED BY <2>1, <2>2 DEF UnitsTaken, Overlapped
<1>6. ASSUME NEW c \in flight, Record(c)
      PROVE  UnitsTaken'
  <2>1. flight' = flight \ {c} /\ stage' = stage /\ crossed' = crossed
    BY <1>6 DEF Record, history
  <2>2. c.path \in Path /\ c.tool \in Tools
    BY DEF FileCall
  <2>3. CASE RecordFailure(c)
    <3>1. /\ written' = written
          /\ reserved' = IF c.path \in written THEN reserved ELSE reserved \ {c.path}
      BY <2>3 DEF RecordFailure
    <3>2. IsFiniteSet(reserved) /\ Cardinality(reserved) \in Nat
      BY FS_CardinalityType DEF UnitsTaken
    <3>3. IsFiniteSet(reserved') /\ Cardinality(reserved') <= Cardinality(reserved)
      BY <3>1, <3>2, FS_Subset
    <3>4. Cardinality(reserved') \in Nat
      BY <3>3, FS_CardinalityType
    <3>5. \A d \in flight' : d.path = c.path => Overlapped(c.path)
      BY <2>1, <2>2 DEF Overlapped
    <3>6. MaxDesignWrites \in Nat
      OBVIOUS
    <3>7. CASE stage = "interface_design"
      <4>1. Cardinality(reserved') <= MaxDesignWrites
        BY <3>2, <3>3, <3>4, <3>6, <3>7 DEF UnitsTaken
      <4>2. \A p \in Path : Overlapped(p)' <=> Overlapped(p)
        BY <2>1 DEF Overlapped
      <4>3. ASSUME NEW p \in Path, ~Overlapped(p)
            PROVE  /\ p \in written => p \in reserved'
                   /\ \A d \in flight' : d.path = p => p \in reserved'
        BY <2>1, <3>1, <3>5, <3>7, <4>3 DEF UnitsTaken
      <4>. QED BY <2>1, <3>1, <3>3, <3>7, <4>1, <4>2, <4>3 DEF UnitsTaken
    <3>. QED BY <2>1, <3>3, <3>7 DEF UnitsTaken
  <2>4. CASE c.tool = "delete" /\ RecordDelete(c)
    BY <2>1, <2>4 DEF UnitsTaken, RecordDelete
  <2>5. CASE RecordWrite(c)
    BY <2>1, <2>5 DEF UnitsTaken, RecordWrite, Overlapped
  <2>. QED BY <1>6, <2>3, <2>4, <2>5 DEF Record
<1>. QED BY <1>1, <1>3, <1>4, <1>5, <1>6, PassSteps

\* A pass starts with nothing in flight and nothing spent.
LEMMA PassBegins ==
  ASSUME PassInit
  PROVE  FlightInv /\ flight = {} /\ crossed = {} /\ outcome = "running"
<1>1. Existing[stage] \subseteq Path /\ Zero \in [Path -> Nat]
  BY DisciplineAssumption DEF PassInit, Zero
<1>2. TypeOK
  BY <1>1, PassTypesBack DEF PassInit
<1>. QED BY <1>2, FS_EmptySet DEF PassInit, FlightInv

\* What is in flight is as said in every reachable state.
LEMMA FlightInvariant == PassSpec => []FlightInv
BY PassBegins, FlightStep, PTL DEF PassSpec

\* For every set of files, budgets and batches: a DESIGN pass leaves at most the
\* allowed number of files and of appends to one file, save on paths two calls of one
\* batch named (_reserve_design_write, _validate_append).
THEOREM DesignIsSmall == PassSpec => []DesignStaysSmall
<1>1. PassInit => SmallInv
  <2>. SUFFICES ASSUME PassInit PROVE SmallInv
    OBVIOUS
  <2>1. FlightInv /\ flight = {}
    BY PassBegins
  <2>2. \A p \in Path : Appending(p) = {} /\ appended[p] = 0 /\ appends[p] = 0
    BY <2>1 DEF Appending, PassInit, Zero
  <2>3. MaxAppends \in Nat /\ MaxDesignWrites \in Nat
    BY DisciplineAssumption
  <2>4. AppendsPaid
    BY <2>2, <2>3, FS_EmptySet DEF AppendsPaid
  <2>5. UnitsTaken
    BY <2>3, FS_EmptySet DEF UnitsTaken, PassInit
  <2>. QED BY <2>1, <2>4, <2>5 DEF SmallInv
<1>2. SmallInv /\ [PassNext]_passVars => SmallInv'
  BY FlightStep, AppendsStep, UnitsStep DEF SmallInv
<1>3. SmallInv => DesignStaysSmall
  <2>. SUFFICES ASSUME SmallInv, stage = "interface_design"
                PROVE  /\ Cardinality({p \in written : ~Overlapped(p)}) <= MaxDesignWrites
                       /\ \A p \in Path : appended[p] <= MaxAppends
    BY DEF DesignStaysSmall
  <2>1. written \subseteq Path /\ MaxDesignWrites \in Nat /\ MaxAppends \in Nat
        /\ appended \in [Path -> Nat] /\ appends \in [Path -> Nat]
    BY PassTypes, DisciplineAssumption DEF SmallInv, FlightInv
  <2>2. {p \in written : ~Overlapped(p)} \subseteq reserved /\ IsFiniteSet(reserved)
        /\ Cardinality(reserved) <= MaxDesignWrites
    BY <2>1 DEF SmallInv, UnitsTaken
  <2>3. /\ Cardinality({p \in written : ~Overlapped(p)}) <= Cardinality(reserved)
        /\ Cardinality({p \in written : ~Overlapped(p)}) \in Nat
        /\ Cardinality(reserved) \in Nat
    BY <2>2, FS_Subset, FS_CardinalityType
  <2>4. \A p \in Path : appended[p] <= MaxAppends
    <3>. TAKE p \in Path
    <3>1. /\ appended[p] + Cardinality(Appending(p)) <= appends[p] /\ appends[p] <= MaxAppends
          /\ Appending(p) \in SUBSET flight
      BY DEF SmallInv, AppendsPaid, Appending
    <3>2. Cardinality(Appending(p)) \in Nat
      BY <3>1, InFlightFinite DEF SmallInv
    <3>. QED BY <2>1, <3>1, <3>2
  <2>. QED BY <2>1, <2>2, <2>3, <2>4
<1>. QED BY <1>1, <1>2, <1>3, PTL DEF PassSpec

-----------------------------------------------------------------------------
(* Repairs are bounded *)

\* No delete has crossed with another call on the path.
Alone(p) == <<p, "delete">> \notin crossed

\* The repairs of a path in flight that have not failed, and those still to run.
Repairing(p) ==
  {c \in flight : c.path = p /\ c.locked /\ c.tool \in {"edit", "delete"} /\ c.result # "failed"}
Pending(p) == {c \in Repairing(p) : c.result = "none"}

\* The repairs that stood and those that may yet stand are within the budget, because
\* each of them is on the ledger or in flight.
RepairsPaid(p) ==
  /\ repairs[p] + Cardinality(Pending(p)) <= MaxEdits
  /\ repairs[p] + Cardinality(Pending(p)) <= edits[p] + rewrites[p] + Cardinality(Repairing(p))

\* An edit of a locked file is a repair; a delete of one finds it written.
RepairsKnown ==
  \A c \in flight :
    /\ c.locked /\ c.tool = "edit" /\ c.path \in TestAsset => c.repair
    /\ c.locked /\ c.tool = "delete" /\ Alone(c.path) => c.path \in written

RepairInv ==
  /\ FlightInv
  /\ stage = "test_generation" =>
       RepairsKnown /\ \A p \in TestAsset : Alone(p) => RepairsPaid(p)

\* A path that is alone now was alone before, and has one delete in flight or none.
LEMMA AloneFlight ==
  ASSUME FlightInv
  PROVE  /\ [PassNext]_passVars => \A p \in Path : Alone(p)' => Alone(p)
         /\ \A c, d \in flight : c # d /\ c.path = d.path /\ Alone(c.path) =>
              c.tool # "delete" /\ d.tool # "delete"
<1>1. [PassNext]_passVars => crossed \subseteq crossed'
  <2>. SUFFICES ASSUME [PassNext]_passVars PROVE crossed \subseteq crossed'
    OBVIOUS
  <2>1. CASE Aside
    BY <2>1, AsideFrame
  <2>2. CASE \E p \in Path, tool \in Tools : StartCall(p, tool) \/ StopAtClaim(p, tool)
    BY <2>2 DEF StartCall, StopAtClaim, history
  <2>3. CASE \E c \in flight : RunTool(c) \/ Record(c)
    BY <2>3 DEF RunTool, Record, history
  <2>. QED BY <2>1, <2>2, <2>3, PassSteps
<1>. QED BY <1>1 DEF Alone, FlightInv

\* The repairs in flight are finite sets.
LEMMA RepairingFinite ==
  ASSUME FlightInv, NEW p
  PROVE  /\ Repairing(p) \in SUBSET flight /\ Pending(p) \in SUBSET flight
         /\ IsFiniteSet(Repairing(p)) /\ Cardinality(Repairing(p)) \in Nat
         /\ IsFiniteSet(Pending(p)) /\ Cardinality(Pending(p)) \in Nat
<1>1. Repairing(p) \in SUBSET flight /\ Pending(p) \in SUBSET flight
  BY DEF Repairing, Pending
<1>. QED BY <1>1, InFlightFinite

\* A repair is validated only when the ledger and the repairs in flight leave room.
LEMMA RepairStart ==
  ASSUME RepairInv, stage = "test_generation",
         NEW p \in Path, NEW tool \in Tools, StartCall(p, tool)
  PROVE  /\ RepairsKnown'
         /\ \A q \in TestAsset : Alone(q)' => RepairsPaid(q)'
<1>. USE PassTypes, DisciplineAssumption DEF FlightInv, RepairInv
<1>1. PICK n \in FileCall : /\ n \notin flight /\ flight' = flight \cup {n}
                            /\ n.path = p /\ n.tool = tool /\ n.result = "none"
                            /\ n.repair = IsRepair(p, tool) /\ n.locked = Locked(p)
  BY StartedCall
<1>2. UNCHANGED <<stage, written, edits, rewrites, repairs>>
  BY DEF StartCall, locks
<1>3. \A q \in Path : Alone(q)' => Alone(q)
  <2>1. [PassNext]_passVars
    BY DEF PassNext
  <2>. QED BY <2>1, AloneFlight
<1>4. RepairsKnown'
  <2>1. n.locked /\ n.tool = "edit" /\ n.path \in TestAsset => n.repair
    BY <1>1 DEF IsRepair
  <2>2. n.locked => n.path \in written
    BY <1>1 DEF Locked
  <2>3. \A c \in flight : c.path \in Path
    BY DEF FileCall
  <2>. QED BY <1>1, <1>2, <1>3, <2>1, <2>2, <2>3 DEF RepairsKnown
<1>5. ASSUME NEW q \in TestAsset, Alone(q)'
      PROVE  RepairsPaid(q)'
  <2>. DEFINE R == Repairing(q)
              P == Pending(q)
              r == Cardinality(R)
              k == Cardinality(P)
  <2>1. q \in Path /\ Alone(q)
    BY <1>3, <1>5
  <2>2. /\ repairs[q] + k <= MaxEdits
        /\ repairs[q] + k <= edits[q] + rewrites[q] + r
    BY <2>1 DEF RepairsPaid
  <2>3. r \in Nat /\ k \in Nat /\ IsFiniteSet(R) /\ IsFiniteSet(P)
    BY RepairingFinite
  <2>4. CASE p = q /\ Locked(p) /\ tool \in {"edit", "delete"}
    <3>1. Repairing(q)' = R \cup {n} /\ Pending(q)' = P \cup {n} /\ n \notin R /\ n \notin P
      BY <1>1, <2>4 DEF Repairing, Pending
    <3>2. Cardinality(Repairing(q)') = r + 1 /\ Cardinality(Pending(q)') = k + 1
      BY <2>3, <3>1, FS_AddElement
    <3>3. edits[q] + rewrites[q] + r < MaxEdits
      <4>. DEFINE F == {c \in flight : c.path = p /\ c.repair}
      <4>1. edits[p] + rewrites[p] + Cardinality(F) < MaxEdits
        <5>1. WithinBudget(p, tool)
          BY DEF StartCall, Validates
        <5>2. CASE tool = "edit"
          <6>1. IsRepair(p, tool)
            BY <2>4, <5>2 DEF IsRepair
          <6>. QED BY <2>4, <5>1, <5>2, <6>1 DEF WithinBudget, RepairsTaken
        <5>3. CASE tool = "delete"
          <6>1. ~Unlocked(p)
            BY <2>4 DEF Locked
          <6>. QED BY <5>1, <5>3, <6>1 DEF WithinBudget, RepairsTaken
        <5>. QED BY <2>4, <5>2, <5>3
      <4>2. R \subseteq F
        <5>. SUFFICES ASSUME NEW c \in R PROVE c \in F
          OBVIOUS
        <5>1. c \in flight /\ c.path = p /\ c.locked /\ c.tool \in {"edit", "delete"}
          BY <2>4 DEF Repairing
        <5>2. c.tool # "delete"
          <6>1. <<p, c.tool>> \in crossed'
            BY <5>1 DEF StartCall
          <6>. QED BY <1>5, <2>4, <6>1 DEF Alone
        <5>. QED BY <2>4, <5>1, <5>2 DEF RepairsKnown
      <4>3. F \in SUBSET flight
        OBVIOUS
      <4>4. IsFiniteSet(F) /\ Cardinality(F) \in Nat
        BY <4>3, InFlightFinite
      <4>. HIDE DEF F
      <4>5. r <= Cardinality(F)
        BY <4>2, <4>4, FS_Subset
      <4>6. edits[p] \in Nat /\ rewrites[p] \in Nat /\ MaxEdits \in Nat
        OBVIOUS
      <4>. HIDE DEF r, R
      <4>. QED BY <2>3, <2>4, <4>1, <4>4, <4>5, <4>6
    <3>4. /\ repairs[q] \in Nat /\ edits[q] \in Nat /\ rewrites[q] \in Nat /\ MaxEdits \in Nat
      BY <2>1
    <3>. HIDE DEF r, k, R, P
    <3>. QED BY <1>2, <2>2, <2>3, <3>2, <3>3, <3>4 DEF RepairsPaid
  <2>5. CASE ~(p = q /\ Locked(p) /\ tool \in {"edit", "delete"})
    <3>1. Repairing(q)' = R /\ Pending(q)' = P
      BY <1>1, <2>5 DEF Repairing, Pending
    <3>. QED BY <1>2, <2>2, <3>1 DEF RepairsPaid
  <2>. QED BY <2>4, <2>5
<1>. QED BY <1>4, <1>5

\* A repair that stands moves from those to run to those that stood.
LEMMA RepairRun ==
  ASSUME RepairInv, stage = "test_generation", NEW c \in flight, RunTool(c)
  PROVE  /\ RepairsKnown'
         /\ \A q \in TestAsset : Alone(q)' => RepairsPaid(q)'
<1>. USE PassTypes, DisciplineAssumption DEF FlightInv, RepairInv
<1>1. PICK n \in FileCall, ok \in BOOLEAN :
         /\ n \notin flight /\ flight' = (flight \ {c}) \cup {n} /\ c.result = "none"
         /\ n.result = (IF ok THEN "ok" ELSE "failed")
         /\ n.path = c.path /\ n.tool = c.tool /\ n.repair = c.repair /\ n.locked = c.locked
         /\ repairs' = (IF ok /\ c.locked /\ c.tool \in {"edit", "delete"}
                        THEN [repairs EXCEPT ![c.path] = @ + 1] ELSE repairs)
  BY RanCall
<1>2. UNCHANGED <<stage, written, edits, rewrites, crossed>>
  BY DEF RunTool, locks, budgets
<1>3. RepairsKnown'
  BY <1>1, <1>2 DEF RepairsKnown, Alone
<1>4. ASSUME NEW q \in TestAsset, Alone(q)'
      PROVE  RepairsPaid(q)'
  <2>. DEFINE R == Repairing(q)
              P == Pending(q)
              r == Cardinality(R)
              k == Cardinality(P)
  <2>1. q \in Path /\ Alone(q)
    BY <1>2, <1>4 DEF Alone
  <2>2. /\ repairs[q] + k <= MaxEdits
        /\ repairs[q] + k <= edits[q] + rewrites[q] + r
    BY <2>1 DEF RepairsPaid
  <2>3. /\ r \in Nat /\ k \in Nat /\ IsFiniteSet(R) /\ IsFiniteSet(P)
        /\ R \in SUBSET flight /\ P \in SUBSET flight
    BY RepairingFinite
  <2>a. repairs[q] \in Nat /\ edits[q] \in Nat /\ rewrites[q] \in Nat /\ MaxEdits \in Nat
    BY <2>1
  <2>4. CASE c.path = q /\ c.locked /\ c.tool \in {"edit", "delete"}
    <3>1. c \in R /\ c \in P /\ Pending(q)' = P \ {c}
      BY <1>1, <2>4 DEF Repairing, Pending
    <3>2. Repairing(q)' = IF ok THEN (R \ {c}) \cup {n} ELSE R \ {c}
      BY <1>1, <2>4 DEF Repairing
    <3>3. k = Cardinality(P \ {c}) + 1 /\ Cardinality(P \ {c}) \in Nat
      BY <2>3, <3>1, LessOne
    <3>4. r = Cardinality(R \ {c}) + 1 /\ Cardinality(R \ {c}) \in Nat
      BY <2>3, <3>1, LessOne
    <3>5. CASE ok
      <4>1. n \notin R \ {c} /\ IsFiniteSet(R \ {c})
        BY <1>1, <2>3, FS_Subset
      <4>2. Cardinality((R \ {c}) \cup {n}) = r
        BY <3>4, <4>1, FS_AddElement
      <4>3. repairs'[q] = repairs[q] + 1
        BY <1>1, <2>1, <2>4, <3>5
      <4>. HIDE DEF r, k, R, P
      <4>. QED BY <1>2, <2>2, <2>3, <2>a, <3>1, <3>2, <3>3, <3>5, <4>2, <4>3 DEF RepairsPaid
    <3>6. CASE ~ok
      <4>1. repairs' = repairs
        BY <1>1, <3>6
      <4>. HIDE DEF r, k, R, P
      <4>. QED BY <1>2, <2>2, <2>3, <2>a, <3>1, <3>2, <3>3, <3>4, <3>6, <4>1 DEF RepairsPaid
    <3>. QED BY <3>5, <3>6
  <2>5. CASE ~(c.path = q /\ c.locked /\ c.tool \in {"edit", "delete"})
    <3>1. Repairing(q)' = R /\ Pending(q)' = P
      BY <1>1, <2>5 DEF Repairing, Pending
    <3>2. repairs'[q] = repairs[q]
      BY <1>1, <2>1, <2>5
    <3>. QED BY <1>2, <2>2, <3>1, <3>2 DEF RepairsPaid
  <2>. QED BY <2>4, <2>5
<1>. QED BY <1>3, <1>4

\* A repair that is recorded goes on the ledger.
LEMMA RepairRecord ==
  ASSUME RepairInv, stage = "test_generation", NEW c \in flight, Record(c)
  PROVE  /\ RepairsKnown'
         /\ \A q \in TestAsset : Alone(q)' => RepairsPaid(q)'
<1>. USE PassTypes, DisciplineAssumption DEF FlightInv, RepairInv
<1>1. /\ c.result # "none" /\ flight' = flight \ {c}
      /\ UNCHANGED <<stage, repairs, crossed>>
      /\ \/ c.result = "failed" /\ RecordFailure(c)
         \/ c.result = "ok" /\ c.tool = "delete" /\ RecordDelete(c)
         \/ c.result = "ok" /\ c.tool # "delete" /\ RecordWrite(c)
  BY DEF Record, history
<1>2. c.path \in Path /\ c.tool \in Tools /\ c.result \in {"none", "ok", "failed"}
  BY DEF FileCall
<1>3. \A q \in Path \ {c.path} : /\ edits'[q] = edits[q] /\ rewrites'[q] = rewrites[q]
                                 /\ q \in written' <=> q \in written
  BY <1>1, <1>2 DEF RecordFailure, RecordDelete, RecordWrite
<1>4. RepairsKnown'
  <2>1. ASSUME NEW d \in flight', d.locked, d.tool = "delete", Alone(d.path)
        PROVE  d.path \in written'
    <3>1. d \in flight /\ d # c /\ d.path \in Path
      BY <1>1, <2>1 DEF FileCall
    <3>2. d.path # c.path
      BY <2>1, <3>1, AloneFlight
    <3>3. d.path \in written
      BY <2>1, <3>1 DEF RepairsKnown
    <3>. QED BY <1>3, <3>1, <3>2, <3>3
  <2>. QED BY <1>1, <2>1 DEF RepairsKnown, Alone
<1>5. ASSUME NEW q \in TestAsset, Alone(q)'
      PROVE  RepairsPaid(q)'
  <2>. DEFINE R == Repairing(q)
              P == Pending(q)
              r == Cardinality(R)
              k == Cardinality(P)
  <2>1. q \in Path /\ Alone(q)
    BY <1>1, <1>5 DEF Alone
  <2>2. /\ repairs[q] + k <= MaxEdits
        /\ repairs[q] + k <= edits[q] + rewrites[q] + r
    BY <2>1 DEF RepairsPaid
  <2>3. /\ r \in Nat /\ k \in Nat /\ IsFiniteSet(R) /\ R \in SUBSET flight
    BY RepairingFinite
  <2>a. repairs[q] \in Nat /\ edits[q] \in Nat /\ rewrites[q] \in Nat /\ MaxEdits \in Nat
    BY <2>1
  <2>4. Pending(q)' = P /\ Repairing(q)' = R \ {c}
    BY <1>1 DEF Repairing, Pending
  <2>5. CASE c \in R
    <3>1. c.path = q /\ c.result = "ok" /\ c.locked /\ c.tool \in {"edit", "delete"}
      BY <1>1, <1>2, <2>5 DEF Repairing
    <3>2. r = Cardinality(R \ {c}) + 1 /\ Cardinality(R \ {c}) \in Nat
      BY <2>3, <2>5, LessOne
    <3>3. edits'[q] + rewrites'[q] = edits[q] + rewrites[q] + 1
      <4>1. CASE c.tool = "edit"
        BY <1>1, <2>1, <2>a, <3>1, <4>1 DEF RecordWrite
      <4>2. CASE c.tool = "delete"
        <5>1. c.path \in written
          BY <2>1, <3>1, <4>2 DEF RepairsKnown
        <5>2. RecordDelete(c)
          BY <1>1, <3>1, <4>2
        <5>3. edits' = edits /\ rewrites' = [rewrites EXCEPT ![c.path] = @ + 1]
          BY <5>1, <5>2 DEF RecordDelete
        <5>. QED BY <2>1, <2>a, <3>1, <5>3
      <4>. QED BY <3>1, <4>1, <4>2
    <3>4. edits'[q] \in Nat /\ rewrites'[q] \in Nat
      <4>1. edits' \in [Path -> Nat] /\ rewrites' \in [Path -> Nat]
        BY <1>1, <1>2 DEF RecordFailure, RecordDelete, RecordWrite
      <4>. QED BY <2>1, <4>1
    <3>5. /\ repairs'[q] = repairs[q] /\ Cardinality(Pending(q)') = k
          /\ Cardinality(Repairing(q)') + 1 = r /\ Cardinality(Repairing(q)') \in Nat
      BY <1>1, <2>4, <3>2
    <3>. HIDE DEF r, k, R, P
    <3>. QED BY <2>2, <2>3, <2>a, <3>3, <3>4, <3>5 DEF RepairsPaid
  <2>6. CASE c \notin R
    <3>1. Repairing(q)' = R
      BY <2>4, <2>6
    <3>2. /\ edits'[q] \in Nat /\ rewrites'[q] \in Nat
          /\ edits[q] <= edits'[q] /\ rewrites[q] <= rewrites'[q]
      <4>1. CASE RecordFailure(c)
        BY <2>a, <4>1 DEF RecordFailure
      <4>2. CASE RecordDelete(c)
        BY <1>2, <2>1, <2>a, <4>2 DEF RecordDelete
      <4>3. CASE RecordWrite(c)
        BY <1>2, <2>1, <2>a, <4>3 DEF RecordWrite
      <4>. QED BY <1>1, <4>1, <4>2, <4>3
    <3>3. /\ repairs'[q] = repairs[q] /\ Cardinality(Pending(q)') = k
          /\ Cardinality(Repairing(q)') = r
      BY <1>1, <2>4, <3>1
    <3>. HIDE DEF r, k, R, P
    <3>. QED BY <2>2, <2>3, <2>a, <3>2, <3>3 DEF RepairsPaid
  <2>. QED BY <2>5, <2>6
<1>. QED BY <1>4, <1>5

\* Every step keeps the repairs within the budget.
LEMMA RepairsKept ==
  ASSUME RepairInv, [PassNext]_passVars
  PROVE  RepairInv'
<1>1. FlightInv'
  BY FlightStep DEF RepairInv
<1>2. stage' = stage
  <2>1. CASE Aside
    BY <2>1, AsideFrame
  <2>2. CASE \E p \in Path, tool \in Tools : StartCall(p, tool) \/ StopAtClaim(p, tool)
    BY <2>2 DEF StartCall, StopAtClaim
  <2>3. CASE \E c \in flight : RunTool(c) \/ Record(c)
    BY <2>3 DEF RunTool, Record
  <2>. QED BY <2>1, <2>2, <2>3, PassSteps
<1>. SUFFICES ASSUME stage = "test_generation"
              PROVE  /\ RepairsKnown'
                     /\ \A q \in TestAsset : Alone(q)' => RepairsPaid(q)'
  BY <1>1, <1>2 DEF RepairInv
<1>3. ASSUME UNCHANGED <<flight, written, edits, rewrites, repairs, crossed>>
      PROVE  /\ RepairsKnown'
             /\ \A q \in TestAsset : Alone(q)' => RepairsPaid(q)'
  BY <1>3 DEF RepairInv, RepairsKnown, RepairsPaid, Repairing, Pending, Alone
<1>4. CASE Aside
  BY <1>3, <1>4, AsideFrame
<1>5. CASE \E p \in Path, tool \in Tools : StopAtClaim(p, tool)
  BY <1>3, <1>5 DEF StopAtClaim, locks, history
<1>6. CASE \E p \in Path, tool \in Tools : StartCall(p, tool)
  BY <1>6, RepairStart
<1>7. CASE \E c \in flight : RunTool(c) \/ Record(c)
  BY <1>7, RepairRun, RepairRecord
<1>. QED BY <1>4, <1>5, <1>6, <1>7, PassSteps

\* For every set of files, budgets and batches: in TEST generation a test file that
\* nothing failed on is repaired at most as often as the shared budget says, unless a
\* delete of it crossed with another call (_repair_budget_exhausted).
THEOREM RepairsAreBounded == PassSpec => []RepairsBounded
<1>1. PassInit => RepairInv
  <2>. SUFFICES ASSUME PassInit PROVE RepairInv
    OBVIOUS
  <2>1. FlightInv /\ flight = {}
    BY PassBegins
  <2>2. TestAsset \subseteq Path /\ MaxEdits \in Nat
    BY DisciplineAssumption
  <2>3. \A p \in Path : /\ Repairing(p) = {} /\ Pending(p) = {}
                        /\ repairs[p] = 0 /\ edits[p] = 0 /\ rewrites[p] = 0
    BY <2>1 DEF Repairing, Pending, PassInit, Zero
  <2>4. \A p \in TestAsset : RepairsPaid(p)
    BY <2>2, <2>3, FS_EmptySet DEF RepairsPaid
  <2>. QED BY <2>1, <2>4 DEF RepairInv, RepairsKnown
<1>2. RepairInv => RepairsBounded
  <2>. SUFFICES ASSUME RepairInv, stage = "test_generation", NEW p \in TestAsset, Alone(p)
                PROVE  repairs[p] <= MaxEdits
    BY DEF RepairsBounded, Alone
  <2>1. repairs[p] + Cardinality(Pending(p)) <= MaxEdits
    BY DEF RepairInv, RepairsPaid
  <2>2. Cardinality(Pending(p)) \in Nat
    BY RepairingFinite DEF RepairInv
  <2>3. repairs[p] \in Nat /\ MaxEdits \in Nat
    BY PassTypes, DisciplineAssumption DEF RepairInv, FlightInv
  <2>. QED BY <2>1, <2>2, <2>3
<1>. QED BY <1>1, <1>2, RepairsKept, PTL DEF PassSpec

-----------------------------------------------------------------------------
(* What is registered is real *)

\* A tool of this kind has run on the path and is not recorded yet.
Landed(p, tools) == \E c \in flight : c.path = p /\ c.result = "ok" /\ c.tool \in tools

\* Where the books on a path and the directory may differ: by what is in flight.
BooksOf(p) ==
  /\ p \in written => p \in disk \/ Landed(p, {"delete"})
  /\ p \in disk \ Existing[stage] => p \in written \/ Landed(p, Tools \ {"delete"})
  /\ \A c \in flight : c.path = p /\ c.result = "ok" => (p \in disk <=> c.tool # "delete")

RealInv ==
  /\ FlightInv
  /\ declared \subseteq TestFile
  /\ outcome = "tests" /\ declared # {} =>
       stage = "test_generation" /\ registered = declared \cap written
  /\ stage = "test_generation" => \A p \in Path : Alone(p) => BooksOf(p)

\* The books of a path follow what its calls do.
LEMMA BooksStep ==
  ASSUME RealInv, stage = "test_generation", [PassNext]_passVars, NEW q \in Path, Alone(q)'
  PROVE  BooksOf(q)'
<1>. USE PassTypes DEF FlightInv, RealInv
<1>1. Alone(q) /\ BooksOf(q)
  BY AloneFlight
<1>2. CASE Aside
  BY <1>1, <1>2, AsideFrame DEF BooksOf, Landed
<1>3. ASSUME NEW p \in Path, NEW tool \in Tools, StartCall(p, tool)
      PROVE  BooksOf(q)'
  <2>1. PICK n \in FileCall : flight' = flight \cup {n} /\ n.result = "none"
    BY <1>3, StartedCall
  <2>2. UNCHANGED <<stage, written, disk>>
    BY <1>3 DEF StartCall, locks
  <2>. QED BY <1>1, <2>1, <2>2 DEF BooksOf, Landed
<1>4. ASSUME NEW p \in Path, NEW tool \in Tools, StopAtClaim(p, tool)
      PROVE  BooksOf(q)'
  BY <1>1, <1>4 DEF StopAtClaim, locks, BooksOf, Landed
<1>5. ASSUME NEW c \in flight, RunTool(c)
      PROVE  BooksOf(q)'
  <2>1. PICK n \in FileCall, ok \in BOOLEAN :
           /\ flight' = (flight \ {c}) \cup {n} /\ c.result = "none"
           /\ n.result = (IF ok THEN "ok" ELSE "failed")
           /\ n.path = c.path /\ n.tool = c.tool
           /\ ok => (c.path \in disk <=> c.tool # "write")
           /\ disk' = (IF ~ok THEN disk
                       ELSE IF c.tool = "delete" THEN disk \ {c.path} ELSE disk \cup {c.path})
    BY <1>5, RanCall
  <2>2. UNCHANGED <<stage, written>>
    BY <1>5 DEF RunTool, locks
  <2>3. c.tool \in Tools /\ c.path \in Path
    BY DEF FileCall
  <2>4. CASE ok /\ c.path = q
    <3>1. \A d \in flight : d.path = q /\ d # c => d.tool # "delete" /\ c.tool # "delete"
      BY <1>1, <2>4, AloneFlight
    <3>2. n \in flight' /\ n.path = q /\ n.result = "ok" /\ n.tool = c.tool
      BY <2>1, <2>4
    <3>3. q \in disk' <=> c.tool # "delete"
      BY <2>1, <2>4
    <3>4. \A d \in flight' : d.path = q /\ d.result = "ok" => (q \in disk' <=> d.tool # "delete")
      BY <2>1, <3>1, <3>2, <3>3
    <3>5. IF c.tool = "delete" THEN Landed(q, {"delete"})' ELSE Landed(q, Tools \ {"delete"})'
      BY <2>3, <3>2 DEF Landed
    <3>. QED BY <2>2, <3>3, <3>4, <3>5 DEF BooksOf
  <2>5. CASE ~(ok /\ c.path = q)
    <3>1. q \in disk' <=> q \in disk
      BY <2>1, <2>5
    <3>2. \A tools : Landed(q, tools)' <=> Landed(q, tools)
      BY <2>1, <2>5 DEF Landed
    <3>3. \A d \in flight' : d.path = q /\ d.result = "ok" => d \in flight
      BY <2>1, <2>5
    <3>. QED BY <1>1, <2>2, <3>1, <3>2, <3>3 DEF BooksOf
  <2>. QED BY <2>4, <2>5
<1>6. ASSUME NEW c \in flight, Record(c)
      PROVE  BooksOf(q)'
  <2>1. /\ c.result # "none" /\ flight' = flight \ {c}
        /\ UNCHANGED <<stage, disk>>
        /\ \/ c.result = "failed" /\ RecordFailure(c)
           \/ c.result = "ok" /\ c.tool = "delete" /\ RecordDelete(c)
           \/ c.result = "ok" /\ c.tool # "delete" /\ RecordWrite(c)
    BY <1>6 DEF Record
  <2>2. c.tool \in Tools /\ c.path \in Path
    BY DEF FileCall
  <2>3. CASE c.path = q /\ c.result = "ok" /\ c.tool = "delete"
    <3>1. written' = written \ {q} /\ q \notin disk
      BY <1>1, <2>1, <2>3 DEF RecordDelete, BooksOf
    <3>. QED BY <1>1, <2>1, <3>1 DEF BooksOf
  <2>4. CASE c.path = q /\ c.result = "ok" /\ c.tool # "delete"
    <3>1. written' = written \cup {q} /\ q \in disk
      BY <1>1, <2>1, <2>4 DEF RecordWrite, BooksOf
    <3>. QED BY <1>1, <2>1, <3>1 DEF BooksOf
  <2>5. CASE ~(c.path = q /\ c.result = "ok")
    <3>1. q \in written' <=> q \in written
      BY <2>1, <2>5 DEF RecordFailure, RecordDelete, RecordWrite
    <3>2. \A tools : Landed(q, tools)' <=> Landed(q, tools)
      BY <2>1, <2>5 DEF Landed
    <3>. QED BY <1>1, <2>1, <3>1, <3>2 DEF BooksOf
  <2>. QED BY <2>3, <2>4, <2>5
<1>. QED BY <1>2, <1>3, <1>4, <1>5, <1>6, PassSteps

\* A pass hands over its tests with nothing in flight, and stops there.
LEMMA RealStep ==
  ASSUME RealInv, [PassNext]_passVars
  PROVE  RealInv'
<1>1. FlightInv'
  BY FlightStep DEF RealInv
<1>2. ASSUME UNCHANGED <<stage, declared, outcome, registered>>,
             outcome = "tests" => written' = written
      PROVE  /\ declared' \subseteq TestFile /\ stage' = stage
             /\ outcome' = "tests" /\ declared' # {} =>
                  stage' = "test_generation" /\ registered' = declared' \cap written'
  BY <1>2 DEF RealInv
<1>3. /\ declared' \subseteq TestFile /\ stage' = stage
      /\ outcome' = "tests" /\ declared' # {} =>
           stage' = "test_generation" /\ registered' = declared' \cap written'
  <2>1. CASE \E S \in WriteSets[stage] : DeclareWriteSet(S)
    BY <1>2, <2>1 DEF DeclareWriteSet, locks, ending
  <2>2. CASE \E F \in SUBSET TestFile \ {{}} : \E wrong \in {{}, F} : DeclareManifest(F, wrong)
    <3>1. PICK F \in SUBSET TestFile, wrong \in SUBSET TestFile : DeclareManifest(F, wrong)
      BY <2>2
    <3>2. declared' \in {declared, declared \cup F}
      BY <3>1 DEF DeclareManifest
    <3>3. outcome = "running" /\ outcome' = outcome /\ stage' = stage
      BY <3>1 DEF DeclareManifest, ending
    <3>. QED BY <3>2, <3>3 DEF RealInv
  <2>3. CASE FailTests
    BY <1>2, <2>3 DEF FailTests, declarations, ending
  <2>4. CASE \E rows \in SUBSET TestFile : ReturnManifest(rows) \/ ReturnUndeclared(rows)
    <3>1. PICK rows \in SUBSET TestFile : ReturnManifest(rows) \/ ReturnUndeclared(rows)
      BY <2>4
    <3>2. CASE ReturnManifest(rows)
      BY <3>2 DEF ReturnManifest, Ends, declarations, locks, RealInv
    <3>3. CASE ReturnUndeclared(rows)
      BY <3>3 DEF ReturnUndeclared, Ends, declarations, locks, RealInv
    <3>. QED BY <3>1, <3>2, <3>3
  <2>5. CASE RunOutOfSteps \/ ReturnOther
    BY <2>5 DEF RunOutOfSteps, ReturnOther, Ends, declarations, locks, RealInv
  <2>6. CASE PassImplementation
    BY <2>6 DEF PassImplementation, declarations, RealInv
  <2>7. CASE UNCHANGED passVars
    BY <1>2, <2>7 DEF passVars, declarations, locks, ending
  <2>8. CASE \E p \in Path, tool \in Tools : StartCall(p, tool) \/ StopAtClaim(p, tool)
    BY <1>2, <2>8 DEF StartCall, StopAtClaim, declarations, locks, ending
  <2>9. CASE \E c \in flight : RunTool(c) \/ Record(c)
    <3>1. outcome = "running"
      BY <2>9 DEF RealInv, FlightInv
    <3>2. UNCHANGED <<stage, declared, outcome, registered>>
      BY <2>9 DEF RunTool, Record, declarations, ending
    <3>. QED BY <1>2, <3>1, <3>2
  <2>. QED BY <2>1, <2>2, <2>3, <2>4, <2>5, <2>6, <2>7, <2>8, <2>9, PassSteps DEF Aside
<1>4. stage = "test_generation" => \A p \in Path : Alone(p)' => BooksOf(p)'
  BY BooksStep
<1>. QED BY <1>1, <1>3, <1>4 DEF RealInv

\* For every set of files and tests: the tests a pass that declared any hands to the
\* manifest are exactly the declared ones it left in the directory, unless a delete of
\* one crossed with another call (reconcile_declared_manifest, _salvage_step_budget).
\* A pass that declared nothing is outside: its rows are handed on untouched.
THEOREM RegisteredAreReal == PassSpec => []RegisteredIsReal
<1>1. PassInit => RealInv
  <2>. SUFFICES ASSUME PassInit PROVE RealInv
    OBVIOUS
  <2>1. FlightInv /\ flight = {} /\ outcome = "running"
    BY PassBegins
  <2>. QED BY <2>1 DEF RealInv, PassInit, BooksOf
<1>2. RealInv => RegisteredIsReal
  <2>. SUFFICES ASSUME RealInv, outcome = "tests", declared # {} PROVE RegisteredIsReal
    BY DEF RegisteredIsReal
  <2>1. flight = {} /\ declared \subseteq Path /\ stage = "test_generation"
    BY PassTypes DEF RealInv, FlightInv
  <2>2. registered = declared \cap written
    BY DEF RealInv
  <2>3. ASSUME NEW p \in declared, Alone(p)
        PROVE  /\ p \in registered => p \in disk
               /\ p \in disk \ Existing[stage] => p \in registered
    <3>1. BooksOf(p)
      BY <2>1, <2>3 DEF RealInv
    <3>. QED BY <2>1, <2>2, <2>3, <3>1 DEF BooksOf, Landed
  <2>. QED BY <2>2, <2>3 DEF RegisteredIsReal, Alone
<1>. QED BY <1>1, <1>2, RealStep, PTL DEF PassSpec

-----------------------------------------------------------------------------
(* NodePhases: the rows of a node whose stages run one at a time *)

\* The rows of a node, by their names.
InterfaceRow(q, n) == q.stage[n]["INTERFACE_DESIGN"]
TestRow(q, n) == q.stage[n]["TEST_GENERATION"]
ImplementRow(q, n) == q.stage[n]["IMPLEMENTATION"]

\* Generated tests stand on a design that is no longer being made, and a node
\* that is done has all its stages behind it.
RowInv(q, n) ==
  /\ q.state[n] # "BLOCKED_BY_DEPENDENCY"
  /\ IsLeaf(n) <=> TestRow(q, n) # "SKIPPED"
  /\ IsLeaf(n) /\ TestRow(q, n) = "PUBLISHED" =>
       InterfaceRow(q, n) \in TerminalSuccess /\ q.state[n] # "DESIGNING"
  /\ q.state[n] \in CompletedStates =>
       {InterfaceRow(q, n), TestRow(q, n), ImplementRow(q, n)} \subseteq TerminalSuccess

\* The steps of a stage at work.
Step == {"run", "register", "repair", "store", "record", "tdd", "done"}

\* A stage at work.
Work == [node : Node, stage : FormalStage, step : Step]

\* The stage that is run is the one the queue says is running, on what it needs.
WorkInv(q, w) ==
  \/ w = Idle
  \/ /\ w \in Work
     /\ q.stage[w.node][w.stage] = "RUNNING"
     /\ w.stage = "INTERFACE_DESIGN" => q.state[w.node] = "DESIGNING"
     /\ w.stage = "TEST_GENERATION" =>
          IsLeaf(w.node) /\ InterfaceRow(q, w.node) \in TerminalSuccess
     /\ w.stage = "IMPLEMENTATION" =>
          {InterfaceRow(q, w.node), TestRow(q, w.node)} \subseteq TerminalSuccess

\* The queue and the stage at work are in order.
QueueInv ==
  /\ queue \in Queue
  /\ \A n \in Node : RowInv(queue, n)
  /\ WorkInv(queue, work)

\* The formal stages and their place among the stages, by name.
LEMMA FormalNames ==
  /\ Stage = {"VISUAL_ANALYSIS", "INTERFACE_DESIGN", "TEST_GENERATION", "IMPLEMENTATION"}
  /\ FormalStage = {"INTERFACE_DESIGN", "TEST_GENERATION", "IMPLEMENTATION"}
  /\ TerminalSuccess = {"PUBLISHED", "SKIPPED"}
BY DEF Stage, FormalStage, TerminalSuccess

\* Nothing is at work.
LEMMA IdleIs == Idle.node = "" /\ Idle.stage = "" /\ Idle.step = "idle"
BY DEF Idle

\* A working stage is a stage of a node.
LEMMA WorkIs ==
  ASSUME NEW q, NEW w, WorkInv(q, w), w.stage # "" \/ w.step # "idle"
  PROVE  /\ w \in Work /\ w.node \in Node /\ w.stage \in FormalStage /\ w.stage \in Stage
         /\ w # Idle /\ q.stage[w.node][w.stage] = "RUNNING"
<1>1. w # Idle
  BY IdleIs
<1>2. w \in Work /\ q.stage[w.node][w.stage] = "RUNNING"
  BY <1>1 DEF WorkInv
<1>3. w.node \in Node /\ w.stage \in FormalStage
  BY <1>2 DEF Work
<1>. QED BY <1>1, <1>2, <1>3, FormalNames

\* What the rows of a node say depends on the node alone.
LEMMA RowInvFrame ==
  ASSUME NEW q, NEW p, NEW n, RowInv(q, n), p.state[n] = q.state[n],
         \A u \in FormalStage : p.stage[n][u] = q.stage[n][u]
  PROVE  RowInv(p, n)
BY FormalNames DEF RowInv, InterfaceRow, TestRow, ImplementRow

\* A step of the stage of one node leaves the others alone.
Elsewhere(q, p, n) ==
  \A m \in Node \ {n} :
    p.state[m] = q.state[m] /\ \A u \in FormalStage : p.stage[m][u] = q.stage[m][u]

\* No node has a visual reference: the formal stages are left alone.
LEMMA WithoutVisualIs ==
  ASSUME NEW q \in Queue
  PROVE  LET p == WithoutVisual(q) IN
         /\ p \in Queue /\ p.state = q.state /\ p.designDone = q.designDone
         /\ \A m \in Node, u \in FormalStage : p.stage[m][u] = q.stage[m][u]
<1>. DEFINE g == [n \in Node |->
                    IF q.stage[n]["VISUAL_ANALYSIS"] = "PENDING"
                    THEN [q.stage[n] EXCEPT !["VISUAL_ANALYSIS"] = "SKIPPED"] ELSE q.stage[n]]
            p == WithoutVisual(q)
<1>1. p = [q EXCEPT !.stage = g]
  BY DEF WithoutVisual
<1>2. \A m \in Node : q.stage[m] \in [Stage -> StageStatus]
  BY RowTyped
<1>3. g \in [Node -> [Stage -> StageStatus]]
  BY <1>2 DEF StageStatus
<1>4. \A m \in Node, u \in FormalStage : g[m][u] = q.stage[m][u]
  BY <1>2, FormalNames
<1>. HIDE DEF g, p
<1>5. p \in Queue /\ p.state = q.state /\ p.designDone = q.designDone /\ p.stage = g
  BY <1>1, <1>3 DEF Queue
<1>. QED BY <1>4, <1>5 DEF p

-----------------------------------------------------------------------------
(* What each kind of step makes of the queue *)

\* A stage starts: its row runs, and the first stage of a phase begins the phase.
StartedState(q, n, s) ==
  CASE s = "INTERFACE_DESIGN" -> "DESIGNING"
    [] s = "TEST_GENERATION"  -> q.state[n]
    [] s = "IMPLEMENTATION"   -> "IMPLEMENTING"

\* What starting a stage makes of the queue.
LEMMA StartIs ==
  ASSUME queue \in Queue, NEW n \in Node, NEW s \in FormalStage, Start(n, s)
  PROVE  /\ queue' \in Queue /\ Elsewhere(queue, queue', n)
         /\ queue'.state[n] = StartedState(queue, n, s)
         /\ \A u \in FormalStage :
              queue'.stage[n][u] = IF u = s THEN "RUNNING" ELSE queue.stage[n][u]
         /\ work' = [node |-> n, stage |-> s, step |-> "run"]
<1>. DEFINE running == Transition(queue, n, s, "RUNNING")
<1>1. s \in Stage /\ "RUNNING" \in StageStatus /\ FormalStage \subseteq Stage
  BY FormalNames DEF StageStatus
<1>2. /\ running \in Queue /\ running.state = queue.state
      /\ \A m \in Node, u \in Stage :
           running.stage[m][u] = IF m = n /\ u = s THEN "RUNNING" ELSE queue.stage[m][u]
  BY <1>1, TransitionIs
<1>3. work' = [node |-> n, stage |-> s, step |-> "run"]
  BY DEF Start
<1>4. /\ s = "INTERFACE_DESIGN" => queue' = BeginTask(running, n, "DESIGN")
      /\ s = "TEST_GENERATION" => queue' = running
      /\ s = "IMPLEMENTATION" => queue' = BeginTask(running, n, "IMPLEMENT")
  <2>1. CASE s = "INTERFACE_DESIGN"
    BY <2>1 DEF Start
  <2>2. CASE s = "TEST_GENERATION"
    BY <2>2 DEF Start
  <2>3. CASE s = "IMPLEMENTATION"
    BY <2>3 DEF Start
  <2>. QED BY <2>1, <2>2, <2>3, FormalNames
<1>. HIDE DEF running
<1>5. CASE s = "TEST_GENERATION"
  BY <1>1, <1>2, <1>3, <1>4, <1>5 DEF Elsewhere, StartedState
<1>6. CASE s # "TEST_GENERATION"
  <2>1. s \in {"INTERFACE_DESIGN", "IMPLEMENTATION"}
    BY <1>6, FormalNames
  <2>2. queue' = BeginTask(running, n, PhaseOf(s))
    BY <1>4, <2>1 DEF PhaseOf
  <2>3. running.stage[n][s] = "RUNNING"
    BY <1>1, <1>2
  <2>4. LET p == BeginTask(running, n, PhaseOf(s)) IN
         /\ p \in Queue /\ p.designDone = running.designDone
         /\ \A m \in Node : p.state[m] = IF m = n THEN PhaseState(s) ELSE running.state[m]
         /\ \A m \in Node, u \in Stage : p.stage[m][u] = running.stage[m][u]
    BY <1>2, <2>1, <2>3, BeginTaskIs
  <2>5. /\ queue' \in Queue
        /\ \A m \in Node : queue'.state[m] = IF m = n THEN PhaseState(s) ELSE queue.state[m]
        /\ \A m \in Node, u \in Stage :
             queue'.stage[m][u] = IF m = n /\ u = s THEN "RUNNING" ELSE queue.stage[m][u]
    BY <1>2, <2>2, <2>4
  <2>6. PhaseState(s) = StartedState(queue, n, s)
    BY <2>1 DEF PhaseState, StartedState
  <2>. QED BY <1>1, <1>3, <2>5, <2>6 DEF Elsewhere
<1>. QED BY <1>5, <1>6

\* A stage fails.
LEMMA FailIs ==
  ASSUME queue \in Queue, work.node \in Node, work.stage \in Stage, Fail
  PROVE  /\ queue' \in Queue /\ Elsewhere(queue, queue', work.node) /\ work' = Idle
         /\ queue'.state[work.node] = "FAILED"
         /\ queue'.stage[work.node] = FailedRow(queue.stage[work.node], work.stage)
<1>. DEFINE p == FailStage(queue, work.node, work.stage)
<1>1. queue' = p /\ work' = Idle
  BY DEF Fail
<1>2. Written(queue, p, work.node, "FAILED", queue.designDone[work.node],
              FailedRow(queue.stage[work.node], work.stage))
  BY FailStageIs
<1>3. FormalStage \subseteq Stage
  BY FormalNames
<1>. HIDE DEF p
<1>. QED BY <1>1, <1>2, <1>3 DEF Written, Elsewhere

\* A stage is published: its row says so, and the last stage of a phase completes
\* the phase.
PublishedNodeState(q, n, s, result) ==
  CASE s = "INTERFACE_DESIGN" /\ IsLeaf(n)  -> q.state[n]
    [] s = "INTERFACE_DESIGN" /\ ~IsLeaf(n) -> "DESIGNED"
    [] s = "TEST_GENERATION"                -> "DESIGNED"
    [] s = "IMPLEMENTATION"                 -> result

\* What the last row of a publication makes of the queue.
LEMMA FinalizedIs ==
  ASSUME NEW q \in Queue, NEW n \in Node, NEW s \in FormalStage, NEW r \in CompletedStates,
         RowInv(q, n), q.stage[n][s] = "RUNNING",
         s = "TEST_GENERATION" => IsLeaf(n) /\ InterfaceRow(q, n) \in TerminalSuccess
  PROVE  LET p == FinalizedFor(Transition(q, n, s, "PUBLISHED"), <<n, s>>, r) IN
         /\ p \in Queue /\ Elsewhere(q, p, n)
         /\ p.state[n] = PublishedNodeState(q, n, s, r)
         /\ \A u \in FormalStage : p.stage[n][u] = IF u = s THEN "PUBLISHED" ELSE q.stage[n][u]
<1>. DEFINE q1 == Transition(q, n, s, "PUBLISHED")
            p == FinalizedFor(q1, <<n, s>>, r)
<1>1. s \in Stage /\ FormalStage \subseteq Stage
      /\ "PUBLISHED" \in StageStatus /\ "SKIPPED" \in StageStatus
  BY FormalNames DEF StageStatus
<1>2. /\ q1 \in Queue /\ q1.state = q.state /\ q1.designDone = q.designDone
      /\ \A m \in Node, u \in Stage :
           q1.stage[m][u] = IF m = n /\ u = s THEN "PUBLISHED" ELSE q.stage[m][u]
  BY <1>1, TransitionIs
<1>3. q1.stage[n] \in [Stage -> StageStatus]
  BY <1>2, RowTyped
<1>8. \A m \in Node \ {n} :
        q1.state[m] = q.state[m] /\ \A u \in Stage : q1.stage[m][u] = q.stage[m][u]
  BY <1>2
<1>4. "DESIGNED" \in NodeState /\ r \in NodeState
  BY DEF NodeState
<1>. HIDE DEF q1
<1>5. CASE s = "TEST_GENERATION" \/ (s = "INTERFACE_DESIGN" /\ ~IsLeaf(n))
  <2>. DEFINE row1 == SetIfAllowed(q1.stage[n], "VISUAL_ANALYSIS", "PUBLISHED")
              row2 == SetIfAllowed(row1, "INTERFACE_DESIGN", "PUBLISHED")
              row3 == SetIfAllowed(row2, "TEST_GENERATION",
                                   IF IsLeaf(n) THEN "PUBLISHED" ELSE "SKIPPED")
  <2>1. p = [q1 EXCEPT !.state[n] = "DESIGNED", !.designDone[n] = TRUE, !.stage[n] = row3]
    <3>1. p = CompleteTask(q1, n, "DESIGN", r)
      BY <1>5 DEF FinalizedFor
    <3>. QED BY <3>1 DEF CompleteTask
  <2>2. /\ q1.stage[n]["INTERFACE_DESIGN"] \in TerminalSuccess
        /\ q1.stage[n]["TEST_GENERATION"] \in TerminalSuccess
    BY <1>2, <1>5, FormalNames DEF RowInv, TestRow, InterfaceRow
  <2>3. /\ row1 \in [Stage -> StageStatus]
        /\ \A u \in FormalStage : row1[u] = q1.stage[n][u]
    BY <1>1, <1>3, FormalNames DEF SetIfAllowed
  <2>. HIDE DEF row1
  <2>4. row2 = row1
    BY <2>2, <2>3, FormalNames DEF SetIfAllowed
  <2>. HIDE DEF row2
  <2>5. row3 = row1
    BY <2>2, <2>3, <2>4, FormalNames DEF SetIfAllowed
  <2>. HIDE DEF row3, p
  <2>6. Written(q1, p, n, "DESIGNED", TRUE, row3)
    BY <1>2, <1>4, <2>1, <2>3, <2>5, WriteNode
  <2>7. PublishedNodeState(q, n, s, r) = "DESIGNED"
    BY <1>5 DEF PublishedNodeState
  <2>8. \A m \in Node \ {n} :
          p.state[m] = q.state[m] /\ \A u \in Stage : p.stage[m][u] = q.stage[m][u]
    <3>1. \A m \in Node \ {n} :
            p.state[m] = q1.state[m] /\ \A u \in Stage : p.stage[m][u] = q1.stage[m][u]
      BY <2>6 DEF Written
    <3>2. ASSUME NEW m \in Node \ {n}
          PROVE  p.state[m] = q.state[m] /\ \A u \in Stage : p.stage[m][u] = q.stage[m][u]
      <4>1. p.state[m] = q1.state[m] /\ \A u \in Stage : p.stage[m][u] = q1.stage[m][u]
        BY <3>1
      <4>2. q1.state[m] = q.state[m] /\ \A u \in Stage : q1.stage[m][u] = q.stage[m][u]
        BY <1>8
      <4>. QED BY <4>1, <4>2
    <3>. QED BY <3>2
  <2>9. \A u \in FormalStage : p.stage[n][u] = IF u = s THEN "PUBLISHED" ELSE q.stage[n][u]
    BY <1>1, <1>2, <2>3, <2>5, <2>6 DEF Written
  <2>10. Elsewhere(q, p, n)
    BY <1>1, <2>8 DEF Elsewhere
  <2>11. p \in Queue /\ p.state[n] = "DESIGNED"
    BY <2>6 DEF Written
  <2>. QED BY <2>7, <2>9, <2>10, <2>11 DEF p, q1
<1>6. CASE s = "IMPLEMENTATION"
  <2>. DEFINE row == SetIfAllowed(q1.stage[n], "IMPLEMENTATION", "PUBLISHED")
  <2>1. p = [q1 EXCEPT !.state[n] = r, !.stage[n] = row]
    <3>1. p = CompleteTask(q1, n, "IMPLEMENT", r)
      BY <1>6 DEF FinalizedFor
    <3>. QED BY <3>1 DEF CompleteTask
  <2>2. row = q1.stage[n]
    BY <1>2, <1>6, FormalNames DEF SetIfAllowed
  <2>. HIDE DEF row, p
  <2>3. Written(q1, p, n, r, q1.designDone[n], row)
    BY <1>2, <1>3, <1>4, <2>1, <2>2, WriteRow
  <2>4. PublishedNodeState(q, n, s, r) = r
    BY <1>6 DEF PublishedNodeState
  <2>5. \A m \in Node \ {n} :
          p.state[m] = q.state[m] /\ \A u \in Stage : p.stage[m][u] = q.stage[m][u]
    <3>1. \A m \in Node \ {n} :
            p.state[m] = q1.state[m] /\ \A u \in Stage : p.stage[m][u] = q1.stage[m][u]
      BY <2>3 DEF Written
    <3>2. ASSUME NEW m \in Node \ {n}
          PROVE  p.state[m] = q.state[m] /\ \A u \in Stage : p.stage[m][u] = q.stage[m][u]
      <4>1. p.state[m] = q1.state[m] /\ \A u \in Stage : p.stage[m][u] = q1.stage[m][u]
        BY <3>1
      <4>2. q1.state[m] = q.state[m] /\ \A u \in Stage : q1.stage[m][u] = q.stage[m][u]
        BY <1>8
      <4>. QED BY <4>1, <4>2
    <3>. QED BY <3>2
  <2>6. \A u \in FormalStage : p.stage[n][u] = IF u = s THEN "PUBLISHED" ELSE q.stage[n][u]
    BY <1>1, <1>2, <2>2, <2>3 DEF Written
  <2>7. Elsewhere(q, p, n)
    BY <1>1, <2>5 DEF Elsewhere
  <2>8. p \in Queue /\ p.state[n] = r
    BY <2>3 DEF Written
  <2>. QED BY <2>4, <2>6, <2>7, <2>8 DEF p, q1
<1>7. CASE s = "INTERFACE_DESIGN" /\ IsLeaf(n)
  <2>1. p = q1
    BY <1>7 DEF FinalizedFor
  <2>2. PublishedNodeState(q, n, s, r) = q.state[n]
    BY <1>7 DEF PublishedNodeState
  <2>. HIDE DEF p
  <2>3. Elsewhere(q, p, n)
    BY <1>1, <1>8, <2>1 DEF Elsewhere
  <2>4. p \in Queue /\ p.state[n] = q.state[n]
    BY <1>2, <2>1
  <2>5. \A u \in FormalStage : p.stage[n][u] = IF u = s THEN "PUBLISHED" ELSE q.stage[n][u]
    BY <1>1, <1>2, <2>1
  <2>. QED BY <2>2, <2>3, <2>4, <2>5 DEF p, q1
<1>. QED BY <1>5, <1>6, <1>7, FormalNames

\* The process dies and is started again.
LEMMA CrashIs ==
  ASSUME queue \in Queue, CrashAndResume
  PROVE  /\ queue' \in Queue /\ work' = Idle
         /\ \A m \in Node :
              /\ queue'.state[m] =
                   IF queue.state[m] = "DESIGNING" THEN "UNSEEN"
                   ELSE IF queue.state[m] = "IMPLEMENTING" THEN "DESIGNED" ELSE queue.state[m]
              /\ \A u \in FormalStage : queue'.stage[m][u] = RowsRecovered(queue, m, u)
<1>. DEFINE p == RecoverInterrupted(queue)
<1>1. queue' = WithoutVisual(p) /\ work' = Idle
  BY DEF CrashAndResume
<1>2. /\ p \in Queue
      /\ \A m \in Node : p.state[m] =
           IF queue.state[m] = "DESIGNING" THEN "UNSEEN"
           ELSE IF queue.state[m] = "IMPLEMENTING" THEN "DESIGNED" ELSE queue.state[m]
      /\ \A m \in Node, u \in Stage : p.stage[m][u] = RowsRecovered(queue, m, u)
  BY RecoverIs
<1>3. FormalStage \subseteq Stage
  BY FormalNames
<1>. HIDE DEF p
<1>4. /\ queue' \in Queue /\ queue'.state = p.state
      /\ \A m \in Node, u \in FormalStage : queue'.stage[m][u] = p.stage[m][u]
  BY <1>1, <1>2, WithoutVisualIs
<1>. QED BY <1>1, <1>2, <1>3, <1>4

\* The reset of one node for a retry, row by row.
LEMMA ResetIs ==
  ASSUME NEW q \in Queue, NEW n \in Node, NEW k \in ResetKind
  PROVE  LET z == ResetNode(q, n, k) IN
         /\ z \in Queue
         /\ z.state[n] = IF k = "implement" THEN "DESIGNED" ELSE "UNSEEN"
         /\ \A s \in Stage : z.stage[n][s] =
              IF k = "full" \/ (k = "implement" <=> s = "IMPLEMENTATION")
              THEN FreshStatus(n, s) ELSE q.stage[n][s]
         /\ \A m \in Node \ {n} :
              z.state[m] = q.state[m] /\ \A u \in Stage : z.stage[m][u] = q.stage[m][u]
<1>. DEFINE row == ResetRow(q.stage[n], n, k \in {"design", "full"},
                            k \in {"implement", "full"}, FALSE)
            st == IF k = "implement" THEN "DESIGNED" ELSE "UNSEEN"
            done == IF k = "implement" THEN q.designDone[n] ELSE FALSE
            z == ResetNode(q, n, k)
<1>1. k = "design" \/ k = "implement" \/ k = "full"
  BY DEF ResetKind
<1>2. \A s \in Stage : row[s] =
        IF k = "full" \/ (k = "implement" <=> s = "IMPLEMENTATION")
        THEN FreshStatus(n, s) ELSE q.stage[n][s]
  BY <1>1 DEF ResetRow, Stage, DesignStages
<1>3. z = [q EXCEPT !.state[n] = st, !.designDone[n] = done, !.stage[n] = row]
  BY DEF ResetNode
<1>4. row \in [Stage -> StageStatus]
  BY RowTyped, FreshType DEF ResetRow
<1>5. st \in NodeState /\ done \in BOOLEAN
  BY DEF NodeState, Queue
<1>. HIDE DEF row, done, z
<1>6. Written(q, z, n, st, done, row)
  BY <1>3, <1>4, <1>5, WriteNode
<1>7. \A m \in Node \ {n} :
        z.state[m] = q.state[m] /\ \A u \in Stage : z.stage[m][u] = q.stage[m][u]
  BY <1>6 DEF Written
<1>. QED BY <1>2, <1>6, <1>7 DEF Written, z

\* A node is retried: no node is blocked by another here, so nothing is released.
LEMMA RetryIs ==
  ASSUME QueueInv, NEW n \in Node, Retry(n)
  PROVE  LET k == RetryKind(queue, n) IN
         /\ queue' \in Queue /\ Elsewhere(queue, queue', n) /\ work = Idle /\ work' = Idle
         /\ queue'.state[n] = IF k = "implement" THEN "DESIGNED" ELSE "UNSEEN"
         /\ \A u \in FormalStage : queue'.stage[n][u] =
              IF k = "full" \/ (k = "implement" <=> u = "IMPLEMENTATION")
              THEN FreshStatus(n, u) ELSE queue.stage[n][u]
<1>. DEFINE k == RetryKind(queue, n)
            z == ResetNode(queue, n, k)
<1>1. k \in ResetKind /\ queue \in Queue
  BY RetryKindType DEF QueueInv
<1>2. /\ queue' = WithoutVisual(ReleaseDependencyBlocks(z))
      /\ work = Idle /\ work' = Idle
  BY DEF Retry
<1>. HIDE DEF k
<1>3. /\ z \in Queue
      /\ z.state[n] = IF k = "implement" THEN "DESIGNED" ELSE "UNSEEN"
      /\ \A s \in Stage : z.stage[n][s] =
           IF k = "full" \/ (k = "implement" <=> s = "IMPLEMENTATION")
           THEN FreshStatus(n, s) ELSE queue.stage[n][s]
      /\ \A m \in Node \ {n} :
           z.state[m] = queue.state[m] /\ \A u \in Stage : z.stage[m][u] = queue.stage[m][u]
  BY <1>1, ResetIs
<1>. HIDE DEF z
<1>4. \A m \in Node : z.state[m] # "BLOCKED_BY_DEPENDENCY"
  <2>1. \A m \in Node \ {n} : z.state[m] # "BLOCKED_BY_DEPENDENCY"
    BY <1>3 DEF QueueInv, RowInv
  <2>. QED BY <1>3, <2>1
<1>5. queue' = WithoutVisual(z)
  BY <1>2, <1>3, <1>4, NothingToRelease
<1>6. /\ queue' \in Queue /\ queue'.state = z.state
      /\ \A m \in Node, u \in FormalStage : queue'.stage[m][u] = z.stage[m][u]
  BY <1>3, <1>5, WithoutVisualIs
<1>7. FormalStage \subseteq Stage
  BY FormalNames
<1>8. Elsewhere(queue, queue', n)
  BY <1>3, <1>6, <1>7 DEF Elsewhere
<1>9. queue'.state[n] = IF k = "implement" THEN "DESIGNED" ELSE "UNSEEN"
  BY <1>3, <1>6
<1>10. \A u \in FormalStage : queue'.stage[n][u] =
         IF k = "full" \/ (k = "implement" <=> u = "IMPLEMENTATION")
         THEN FreshStatus(n, u) ELSE queue.stage[n][u]
  BY <1>3, <1>6, <1>7
<1>. QED BY <1>2, <1>6, <1>8, <1>9, <1>10 DEF k

-----------------------------------------------------------------------------
(* Every step keeps the rows in order *)

\* A step that writes the rows of one node.
LEMMA OneNodeRows ==
  ASSUME NEW q, NEW p, NEW n \in Node, \A m \in Node : RowInv(q, m),
         Elsewhere(q, p, n), RowInv(p, n)
  PROVE  \A m \in Node : RowInv(p, m)
<1>1. ASSUME NEW m \in Node, m # n PROVE RowInv(p, m)
  <2>1. RowInv(q, m) /\ p.state[m] = q.state[m] /\ \A u \in FormalStage : p.stage[m][u] = q.stage[m][u]
    BY <1>1 DEF Elsewhere
  <2>. QED BY <2>1, RowInvFrame
<1>. QED BY <1>1

\* What the formal stages start from.
LEMMA FreshFormal ==
  ASSUME NEW n
  PROVE  /\ FreshStatus(n, "INTERFACE_DESIGN") = "PENDING"
         /\ FreshStatus(n, "IMPLEMENTATION") = "PENDING"
         /\ FreshStatus(n, "TEST_GENERATION") = IF IsLeaf(n) THEN "PENDING" ELSE "SKIPPED"
BY DEF FreshStatus

\* What a stage that may start finds published.
LEMMA StartNeeds ==
  ASSUME QueueInv, NEW n \in Node, NEW s \in FormalStage, Start(n, s)
  PROVE  /\ queue.stage[n][s] = "PENDING"
         /\ s # "INTERFACE_DESIGN" => InterfaceRow(queue, n) \in TerminalSuccess
         /\ s = "IMPLEMENTATION" => TestRow(queue, n) \in TerminalSuccess
<1>1. queue.stage[n][s] = "PENDING" /\ PrerequisitesMet(queue, <<n, s>>)
  BY DEF Start, StatusOf, StageDependenciesMet
<1>2. s # "INTERFACE_DESIGN" => InterfaceRow(queue, n) \in TerminalSuccess
  BY <1>1 DEF PrerequisitesMet, InterfaceRow
<1>3. ASSUME s = "IMPLEMENTATION" PROVE TestRow(queue, n) \in TerminalSuccess
  <2>1. AggregatePhaseStatus(queue, n, "DESIGN") = "COMPLETED"
    BY <1>1, <1>3 DEF PrerequisitesMet, ImplementationDependenciesMet
  <2>. QED BY <2>1 DEF AggregatePhaseStatus, TestRow
<1>. QED BY <1>1, <1>2, <1>3

\* A stage that starts finds below it what it needs.
LEMMA StartQueueInv ==
  ASSUME QueueInv, NEW n \in Node, NEW s \in FormalStage, Start(n, s)
  PROVE  QueueInv'
<1>1. /\ queue \in Queue /\ RowInv(queue, n) /\ \A m \in Node : RowInv(queue, m)
  BY DEF QueueInv
<1>2. /\ queue' \in Queue /\ Elsewhere(queue, queue', n)
      /\ queue'.state[n] = StartedState(queue, n, s)
      /\ \A u \in FormalStage :
           queue'.stage[n][u] = IF u = s THEN "RUNNING" ELSE queue.stage[n][u]
      /\ work' = [node |-> n, stage |-> s, step |-> "run"]
  BY <1>1, StartIs
<1>3. /\ queue.stage[n][s] = "PENDING"
      /\ s # "INTERFACE_DESIGN" => InterfaceRow(queue, n) \in TerminalSuccess
      /\ s = "IMPLEMENTATION" => TestRow(queue, n) \in TerminalSuccess
  BY StartNeeds
<1>4. /\ InterfaceRow(queue', n) = IF s = "INTERFACE_DESIGN" THEN "RUNNING" ELSE InterfaceRow(queue, n)
      /\ TestRow(queue', n) = IF s = "TEST_GENERATION" THEN "RUNNING" ELSE TestRow(queue, n)
      /\ ImplementRow(queue', n) = IF s = "IMPLEMENTATION" THEN "RUNNING" ELSE ImplementRow(queue, n)
  BY <1>2, FormalNames DEF InterfaceRow, TestRow, ImplementRow
<1>5. s = "INTERFACE_DESIGN" \/ s = "TEST_GENERATION" \/ s = "IMPLEMENTATION"
  BY FormalNames
<1>6. RowInv(queue', n)
  <2>1. queue.state[n] \notin CompletedStates
    BY <1>1, <1>3, <1>5, FormalNames DEF RowInv, InterfaceRow, TestRow, ImplementRow
  <2>2. queue'.state[n] \notin CompletedStates /\ queue'.state[n] # "BLOCKED_BY_DEPENDENCY"
    BY <1>1, <1>2, <1>5, <2>1 DEF StartedState, CompletedStates, RowInv
  <2>3. IsLeaf(n) <=> TestRow(queue', n) # "SKIPPED"
    BY <1>1, <1>3, <1>4, <1>5 DEF RowInv, TestRow
  <2>4. ASSUME IsLeaf(n), TestRow(queue', n) = "PUBLISHED"
        PROVE  InterfaceRow(queue', n) \in TerminalSuccess /\ queue'.state[n] # "DESIGNING"
    <3>1. s # "TEST_GENERATION" /\ TestRow(queue, n) = "PUBLISHED"
      BY <1>4, <2>4
    <3>2. InterfaceRow(queue, n) \in TerminalSuccess /\ queue.state[n] # "DESIGNING"
      BY <1>1, <2>4, <3>1 DEF RowInv
    <3>3. s = "IMPLEMENTATION"
      BY <1>3, <1>5, <3>1, <3>2, FormalNames DEF InterfaceRow
    <3>. QED BY <1>2, <1>4, <3>2, <3>3 DEF StartedState
  <2>. QED BY <2>2, <2>3, <2>4 DEF RowInv
<1>7. \A m \in Node : RowInv(queue', m)
  BY <1>1, <1>2, <1>6, OneNodeRows
<1>8. WorkInv(queue', work')
  <2>1. work' \in Work /\ work'.node = n /\ work'.stage = s
    BY <1>2 DEF Work, Step
  <2>2. queue'.stage[n][s] = "RUNNING"
    BY <1>2
  <2>3. s = "INTERFACE_DESIGN" => queue'.state[n] = "DESIGNING"
    BY <1>2 DEF StartedState
  <2>4. s = "TEST_GENERATION" => IsLeaf(n) /\ InterfaceRow(queue', n) \in TerminalSuccess
    BY <1>1, <1>3, <1>4 DEF RowInv, TestRow
  <2>5. s = "IMPLEMENTATION" =>
          {InterfaceRow(queue', n), TestRow(queue', n)} \subseteq TerminalSuccess
    BY <1>3, <1>4
  <2>. QED BY <2>1, <2>2, <2>3, <2>4, <2>5 DEF WorkInv
<1>. QED BY <1>2, <1>7, <1>8 DEF QueueInv

\* A stage that fails keeps the rows of its node in order.
LEMMA FailQueueInv ==
  ASSUME QueueInv, work # Idle, Fail
  PROVE  QueueInv'
<1>. DEFINE n == work.node
            s == work.stage
            f == FailedRow(queue.stage[n], s)
<1>1. /\ work \in Work /\ n \in Node /\ s \in FormalStage /\ s \in Stage /\ queue \in Queue
      /\ RowInv(queue, n) /\ \A m \in Node : RowInv(queue, m)
      /\ queue.stage[n][s] = "RUNNING"
      /\ s = "INTERFACE_DESIGN" => queue.state[n] = "DESIGNING"
  BY FormalNames DEF QueueInv, WorkInv, Work
<1>2. /\ queue' \in Queue /\ Elsewhere(queue, queue', n) /\ work' = Idle
      /\ queue'.state[n] = "FAILED" /\ queue'.stage[n] = f
  BY <1>1, FailIs
<1>3. \A u \in Stage : f[u] \in {"FAILED", Behind(queue.stage[n][u]), queue.stage[n][u]}
  BY DEF FailedRow
<1>4. \A u \in Stage : /\ f[u] = "SKIPPED" <=> queue.stage[n][u] = "SKIPPED" /\ u # s
                       /\ f[u] = "PUBLISHED" => queue.stage[n][u] = "PUBLISHED"
  BY DEF FailedRow, Behind, ActiveStatus
<1>. HIDE DEF f
<1>5. RowInv(queue', n)
  <2>1. IsLeaf(n) <=> TestRow(queue', n) # "SKIPPED"
    BY <1>1, <1>2, <1>4, FormalNames DEF RowInv, TestRow
  <2>2. ASSUME IsLeaf(n), TestRow(queue', n) = "PUBLISHED"
        PROVE  InterfaceRow(queue', n) \in TerminalSuccess
    <3>1. TestRow(queue, n) = "PUBLISHED" /\ s # "TEST_GENERATION"
      BY <1>1, <1>2, <1>4, <2>2, FormalNames DEF TestRow
    <3>2. InterfaceRow(queue, n) \in TerminalSuccess /\ queue.state[n] # "DESIGNING"
      BY <1>1, <2>2, <3>1 DEF RowInv
    <3>3. s = "IMPLEMENTATION"
      BY <1>1, <3>1, <3>2, FormalNames
    <3>4. InterfaceRow(queue', n) = InterfaceRow(queue, n)
      BY <1>1, <1>2, <3>3, FailedRowBy DEF InterfaceRow, f
    <3>. QED BY <3>2, <3>4
  <2>. QED BY <1>2, <2>1, <2>2 DEF RowInv, CompletedStates
<1>6. \A m \in Node : RowInv(queue', m)
  BY <1>1, <1>2, <1>5, OneNodeRows
<1>. QED BY <1>2, <1>6 DEF QueueInv, WorkInv

\* What a publication makes of the queue.
LEMMA PublishIs ==
  ASSUME QueueInv, Publish
  PROVE  LET n == work.node
             s == work.stage
             r == IF session[n].result = "CONVERGED" THEN "CONVERGED" ELSE "PASSED"
         IN  /\ n \in Node /\ s \in FormalStage /\ work \in Work
             /\ queue' \in Queue /\ Elsewhere(queue, queue', n) /\ work' = Idle
             /\ queue'.state[n] = PublishedNodeState(queue, n, s, r)
             /\ \A u \in FormalStage :
                  queue'.stage[n][u] = IF u = s THEN "PUBLISHED" ELSE queue.stage[n][u]
<1>. DEFINE n == work.node
            s == work.stage
            r == IF session[n].result = "CONVERGED" THEN "CONVERGED" ELSE "PASSED"
            p == FinalizedFor(Transition(queue, n, s, "PUBLISHED"), <<n, s>>, r)
<1>1. work # Idle
  BY IdleIs DEF Publish
<1>2. /\ work \in Work /\ n \in Node /\ s \in FormalStage /\ queue \in Queue
      /\ RowInv(queue, n) /\ queue.stage[n][s] = "RUNNING"
      /\ s = "TEST_GENERATION" => IsLeaf(n) /\ InterfaceRow(queue, n) \in TerminalSuccess
  BY <1>1, FormalNames DEF QueueInv, WorkInv, Work
<1>3. r \in CompletedStates
  BY DEF CompletedStates
<1>4. queue' = p /\ work' = Idle
  BY DEF Publish, Task
<1>. HIDE DEF n, s, r
<1>5. /\ p \in Queue /\ Elsewhere(queue, p, n)
      /\ p.state[n] = PublishedNodeState(queue, n, s, r)
      /\ \A u \in FormalStage :
           p.stage[n][u] = IF u = s THEN "PUBLISHED" ELSE queue.stage[n][u]
  BY <1>2, <1>3, FinalizedIs
<1>. HIDE DEF p
<1>. QED BY <1>2, <1>4, <1>5 DEF n, s, r

\* A published row is the last of the rows that stand on the node's design.
LEMMA PublishQueueInv ==
  ASSUME QueueInv, Publish
  PROVE  QueueInv'
<1>. DEFINE n == work.node
            s == work.stage
            r == IF session[n].result = "CONVERGED" THEN "CONVERGED" ELSE "PASSED"
<1>1. /\ n \in Node /\ s \in FormalStage /\ work \in Work
      /\ queue' \in Queue /\ Elsewhere(queue, queue', n) /\ work' = Idle
      /\ queue'.state[n] = PublishedNodeState(queue, n, s, r)
      /\ \A u \in FormalStage :
           queue'.stage[n][u] = IF u = s THEN "PUBLISHED" ELSE queue.stage[n][u]
  BY PublishIs
<1>2. work # Idle
  BY IdleIs DEF Publish
<1>3. /\ RowInv(queue, n) /\ \A m \in Node : RowInv(queue, m)
      /\ queue.stage[n][s] = "RUNNING"
      /\ s = "INTERFACE_DESIGN" => queue.state[n] = "DESIGNING"
      /\ s = "TEST_GENERATION" => IsLeaf(n) /\ InterfaceRow(queue, n) \in TerminalSuccess
      /\ s = "IMPLEMENTATION" =>
           {InterfaceRow(queue, n), TestRow(queue, n)} \subseteq TerminalSuccess
  BY <1>1, <1>2 DEF QueueInv, WorkInv
<1>4. /\ InterfaceRow(queue', n) = IF s = "INTERFACE_DESIGN" THEN "PUBLISHED" ELSE InterfaceRow(queue, n)
      /\ TestRow(queue', n) = IF s = "TEST_GENERATION" THEN "PUBLISHED" ELSE TestRow(queue, n)
      /\ ImplementRow(queue', n) = IF s = "IMPLEMENTATION" THEN "PUBLISHED" ELSE ImplementRow(queue, n)
  BY <1>1, FormalNames DEF InterfaceRow, TestRow, ImplementRow
<1>5. r \in {"CONVERGED", "PASSED"}
  OBVIOUS
<1>. HIDE DEF n, s, r
<1>6. RowInv(queue', n)
  <2>1. CASE s = "INTERFACE_DESIGN"
    <3>1. queue'.state[n] = IF IsLeaf(n) THEN "DESIGNING" ELSE "DESIGNED"
      BY <1>1, <1>3, <2>1 DEF PublishedNodeState
    <3>2. ~(IsLeaf(n) /\ TestRow(queue, n) = "PUBLISHED")
      BY <1>3, <2>1 DEF RowInv
    <3>. QED BY <1>3, <1>4, <2>1, <3>1, <3>2 DEF RowInv, CompletedStates
  <2>2. CASE s = "TEST_GENERATION"
    <3>1. queue'.state[n] = "DESIGNED"
      BY <1>1, <2>2 DEF PublishedNodeState
    <3>. QED BY <1>3, <1>4, <2>2, <3>1 DEF RowInv, CompletedStates
  <2>3. CASE s = "IMPLEMENTATION"
    <3>1. queue'.state[n] \in {"CONVERGED", "PASSED"}
      BY <1>1, <1>5, <2>3 DEF PublishedNodeState
    <3>. QED BY <1>3, <1>4, <2>3, <3>1, FormalNames DEF RowInv, CompletedStates
  <2>. QED BY <1>1, <2>1, <2>2, <2>3, FormalNames
<1>7. \A m \in Node : RowInv(queue', m)
  BY <1>1, <1>3, <1>6, OneNodeRows
<1>. QED BY <1>1, <1>7 DEF QueueInv, WorkInv

\* The recovery after a death keeps the rows in order.
LEMMA CrashQueueInv ==
  ASSUME QueueInv, CrashAndResume
  PROVE  QueueInv'
<1>1. queue \in Queue
  BY DEF QueueInv
<1>2. /\ queue' \in Queue /\ work' = Idle
      /\ \A m \in Node :
           /\ queue'.state[m] =
                IF queue.state[m] = "DESIGNING" THEN "UNSEEN"
                ELSE IF queue.state[m] = "IMPLEMENTING" THEN "DESIGNED" ELSE queue.state[m]
           /\ \A u \in FormalStage : queue'.stage[m][u] = RowsRecovered(queue, m, u)
  BY <1>1, CrashIs
<1>3. ASSUME NEW m \in Node PROVE RowInv(queue', m)
  <2>1. RowInv(queue, m)
    BY DEF QueueInv
  <2>2. \A u \in FormalStage :
          /\ queue.stage[m][u] \in TerminalSuccess => queue'.stage[m][u] = queue.stage[m][u]
          /\ queue.stage[m][u] \notin TerminalSuccess =>
               queue'.stage[m][u] \in {queue.stage[m][u], FreshStatus(m, u)}
    BY <1>2, FormalNames DEF RowsRecovered, Restarted
  <2>3. IsLeaf(m) <=> TestRow(queue', m) # "SKIPPED"
    BY <2>1, <2>2, FormalNames, FreshFormal DEF RowInv, TestRow
  <2>4. TestRow(queue', m) = "PUBLISHED" => TestRow(queue, m) = "PUBLISHED"
    BY <2>2, FormalNames, FreshFormal DEF TestRow
  <2>5. /\ InterfaceRow(queue, m) \in TerminalSuccess => InterfaceRow(queue', m) \in TerminalSuccess
        /\ TestRow(queue, m) \in TerminalSuccess => TestRow(queue', m) \in TerminalSuccess
        /\ ImplementRow(queue, m) \in TerminalSuccess => ImplementRow(queue', m) \in TerminalSuccess
    BY <2>2, FormalNames DEF InterfaceRow, TestRow, ImplementRow
  <2>6. /\ queue'.state[m] \notin {"DESIGNING", "IMPLEMENTING", "BLOCKED_BY_DEPENDENCY"}
        /\ queue'.state[m] \in CompletedStates => queue.state[m] \in CompletedStates
    BY <1>2, <2>1 DEF RowInv, CompletedStates
  <2>. QED BY <2>1, <2>3, <2>4, <2>5, <2>6 DEF RowInv
<1>. QED BY <1>2, <1>3 DEF QueueInv, WorkInv

\* A retry keeps the rows in order.
LEMMA RetryQueueInv ==
  ASSUME QueueInv, NEW n \in Node, Retry(n)
  PROVE  QueueInv'
<1>. DEFINE k == RetryKind(queue, n)
<1>1. /\ queue' \in Queue /\ Elsewhere(queue, queue', n) /\ work = Idle /\ work' = Idle
      /\ queue'.state[n] = IF k = "implement" THEN "DESIGNED" ELSE "UNSEEN"
      /\ \A u \in FormalStage : queue'.stage[n][u] =
           IF k = "full" \/ (k = "implement" <=> u = "IMPLEMENTATION")
           THEN FreshStatus(n, u) ELSE queue.stage[n][u]
  BY RetryIs
<1>2. RowInv(queue, n) /\ \A m \in Node : RowInv(queue, m)
  BY DEF QueueInv
<1>. HIDE DEF k
<1>3. RowInv(queue', n)
  <2>1. CASE k = "implement"
    <3>1. TestRow(queue', n) = TestRow(queue, n) /\ InterfaceRow(queue', n) = InterfaceRow(queue, n)
      BY <1>1, <2>1, FormalNames DEF TestRow, InterfaceRow
    <3>. QED BY <1>1, <1>2, <2>1, <3>1 DEF RowInv, CompletedStates
  <2>2. CASE k # "implement"
    <3>1. TestRow(queue', n) = IF IsLeaf(n) THEN "PENDING" ELSE "SKIPPED"
      BY <1>1, <2>2, FormalNames, FreshFormal DEF TestRow
    <3>. QED BY <1>1, <2>2, <3>1 DEF RowInv, CompletedStates
  <2>. QED BY <2>1, <2>2
<1>4. \A m \in Node : RowInv(queue', m)
  BY <1>1, <1>2, <1>3, OneNodeRows
<1>. QED BY <1>1, <1>4 DEF QueueInv, WorkInv

\* A step inside a stage goes on with it or fails it.
WithinStage ==
  /\ work # Idle
  /\ \/ Fail
     \/ UNCHANGED <<queue, work>>
     \/ UNCHANGED queue /\ \E s \in Step : Go(s)

\* The steps within a stage leave the rows as they are, or fail the stage.
LEMMA WithinQueueInv ==
  ASSUME QueueInv, WithinStage
  PROVE  QueueInv'
<1>1. CASE Fail
  BY <1>1, FailQueueInv DEF WithinStage
<1>2. CASE UNCHANGED <<queue, work>>
  BY <1>2 DEF QueueInv
<1>3. CASE UNCHANGED queue /\ \E s \in Step : Go(s)
  <2>1. PICK s \in Step : work' = [work EXCEPT !.step = s]
    BY <1>3 DEF Go
  <2>2. work \in Work
    BY DEF WithinStage, QueueInv, WorkInv
  <2>3. work' \in Work /\ work'.node = work.node /\ work'.stage = work.stage
    BY <2>1, <2>2 DEF Work
  <2>4. WorkInv(queue, work')
    BY <2>3 DEF WithinStage, QueueInv, WorkInv
  <2>. QED BY <1>3, <2>4 DEF QueueInv
<1>. QED BY <1>1, <1>2, <1>3 DEF WithinStage

\* A stage at a step is being run.
LEMMA AtWorks == \A formal \in FormalStage : \A s : At(formal, s) => work # Idle
BY IdleIs, FormalNames DEF At

\* The names of the formal stages and of the steps.
LEMMA StepNames ==
  /\ {"INTERFACE_DESIGN", "TEST_GENERATION", "IMPLEMENTATION"} \subseteq FormalStage
  /\ {"run", "register", "repair", "store", "record", "tdd", "done"} \subseteq Step
BY FormalNames DEF Step

\* The steps of the interface stage are steps within a stage.
LEMMA InterfaceWithin == InterfaceStage => WithinStage
BY AtWorks, StepNames DEF InterfaceStage, WithinStage, SkipComposition, DesignFails,
   DesignPrepared, RegisterContract

\* The gate returns to the stage.
LEMMA FinishWithin ==
  ASSUME NEW m, NEW state, work # Idle, Finish(m, state)
  PROVE  WithinStage
BY StepNames DEF Finish, Accept, WithinStage

\* So is the first pass of the baseline gate.
LEMMA BaselineWithin ==
  ASSUME NEW m, NEW o, Baseline(m, o)
  PROVE  WithinStage
<1>1. work # Idle
  BY AtWorks, StepNames DEF Baseline
<1>2. CASE \E state, reuse : Accept(m, state, reuse)
  BY <1>1, <1>2, StepNames DEF Accept, WithinStage
<1>3. CASE Fail
  BY <1>1, <1>3 DEF WithinStage
<1>4. CASE Finish(m, o)
  BY <1>1, <1>4, FinishWithin
<1>5. CASE Go("repair") /\ UNCHANGED queue
  BY <1>1, <1>5, StepNames DEF WithinStage
<1>. QED BY <1>2, <1>3, <1>4, <1>5 DEF Baseline

\* So is a round of its repair.
LEMMA RepairWithin ==
  ASSUME NEW m, NEW o, Repair(m, o)
  PROVE  WithinStage
<1>1. work # Idle
  BY AtWorks, StepNames DEF Repair
<1>2. CASE \E state : Finish(m, state)
  BY <1>1, <1>2, FinishWithin
<1>3. CASE UNCHANGED <<queue, work>>
  BY <1>1, <1>3 DEF WithinStage
<1>. QED BY <1>2, <1>3 DEF Repair

\* So are all the steps of the test stage.
LEMMA TestWithin == TestStage => WithinStage
<1>1. ASSUME TestsRefused \/ ManifestFails \/ StatusFails \/ RepairExhausted \/ RepairFails \/ RevisionFails
      PROVE  WithinStage
  BY <1>1, AtWorks, StepNames DEF TestsRefused, ManifestFails, StatusFails, StatusUndeclared,
     RepairExhausted, RepairFails, RevisionFails, WithinStage
<1>2. ASSUME RepairUnparsed \/ StoreTests \/ RecordDesign
      PROVE  WithinStage
  BY <1>2, AtWorks, StepNames DEF RepairUnparsed, StoreTests, RecordDesign, WithinStage
<1>. QED BY <1>1, <1>2, BaselineWithin, RepairWithin DEF TestStage

\* So are the steps of the implementation.
LEMMA ImplementWithin == ImplementStage => WithinStage
<1>1. ASSUME ImplementWithoutReuse PROVE WithinStage
  <2>1. /\ UNCHANGED queue /\ work # Idle
        /\ Go(IF registry[work.node].tests = {} THEN "done" ELSE "tdd")
    BY <1>1, AtWorks, StepNames DEF ImplementWithoutReuse
  <2>. QED BY <2>1, StepNames DEF WithinStage
<1>2. ASSUME ImplementComposition \/ ImplementByReuse \/ TddPasses PROVE WithinStage
  BY <1>2, AtWorks, StepNames DEF ImplementComposition, ImplementByReuse, TddPasses, WithinStage
<1>3. ASSUME TddFails PROVE WithinStage
  BY <1>3, AtWorks, StepNames DEF TddFails, WithinStage
<1>. QED BY <1>1, <1>2, <1>3 DEF ImplementStage

\* A fresh queue has its rows in order.
LEMMA QueueInvInit == Init => QueueInv
<1>. SUFFICES ASSUME Init PROVE QueueInv
  OBVIOUS
<1>1. /\ queue \in Queue /\ queue.state = FreshQueue.state
      /\ \A m \in Node, u \in FormalStage : queue.stage[m][u] = FreshQueue.stage[m][u]
  BY FreshQueueType, WithoutVisualIs DEF Init
<1>2. \A m \in Node : /\ queue.state[m] = "UNSEEN"
                      /\ \A u \in FormalStage : queue.stage[m][u] = FreshStatus(m, u)
  BY <1>1, FormalNames DEF FreshQueue, FreshRow
<1>3. ASSUME NEW m \in Node PROVE RowInv(queue, m)
  BY <1>2, FormalNames, FreshFormal DEF RowInv, TestRow, CompletedStates
<1>. QED BY <1>1, <1>3 DEF Init, QueueInv, WorkInv

\* Every step keeps the rows in order.
LEMMA QueueInvNext == QueueInv /\ [Next]_vars => QueueInv'
<1>. SUFFICES ASSUME QueueInv, [Next]_vars PROVE QueueInv'
  OBVIOUS
<1>1. CASE \E n \in Node, s \in FormalStage : Start(n, s)
  BY <1>1, StartQueueInv
<1>2. CASE InterfaceStage \/ TestStage \/ ImplementStage
  BY <1>2, InterfaceWithin, TestWithin, ImplementWithin, WithinQueueInv
<1>3. CASE Publish
  BY <1>3, PublishQueueInv
<1>4. CASE PublicationFails
  BY <1>4, IdleIs, FailQueueInv DEF PublicationFails
<1>5. CASE CrashAndResume
  BY <1>5, CrashQueueInv
<1>6. CASE \E n \in Node : Retry(n)
  BY <1>6, RetryQueueInv
<1>7. CASE UNCHANGED vars
  BY <1>7 DEF vars, QueueInv
<1>. QED BY <1>1, <1>2, <1>3, <1>4, <1>5, <1>6, <1>7 DEF Next

-----------------------------------------------------------------------------
(* A rename does not escape the baseline gate *)

\* What is known of a file: the outcome of its run, if it ran.
RunState == FileState \cup {"unrun"}

\* The local state of the baseline gate.
Gate ==
  [manifest : [SuiteFile -> Scope], original : SUBSET SuiteFile, state : [SuiteFile -> RunState],
   evidence : SUBSET SuiteFile, round : Nat, reuse : BOOLEAN]

\* While the gate repairs, every file of the first manifest has run.
GateInv ==
  /\ gate \in Gate
  /\ At("TEST_GENERATION", "run") => gate = NoGate
  /\ At("TEST_GENERATION", "repair") =>
       /\ gate.original # {} /\ ~gate.reuse
       /\ \A f \in gate.original : gate.state[f] # "unrun"
  /\ RenameDoesNotEscape

\* A gate that has not begun is a gate.
LEMMA NoGateTyped == NoGate \in Gate
BY DEF NoGate, Gate, Absent, Unknown, Scope, RunState

\* Outside of the generation of tests there is nothing to say about the gate.
LEMMA GateAway ==
  ASSUME gate' \in Gate,
         ~At("TEST_GENERATION", "run")' \/ gate' = NoGate,
         ~At("TEST_GENERATION", "repair")', ~At("TEST_GENERATION", "store")'
  PROVE  GateInv'
BY DEF GateInv, RenameDoesNotEscape

\* A failed stage has no gate.
LEMMA FailGate == Fail => GateInv'
BY IdleIs, NoGateTyped, GateAway DEF Fail, At

\* What the gate hands on.
LEMMA AcceptGate ==
  ASSUME gate \in Gate, work \in Work, NEW m \in Manifests, NEW state \in [SuiteFile -> RunState],
         NEW reuse \in BOOLEAN, Accept(m, state, reuse),
         \/ gate.original = {} \/ reuse
         \/ \A f \in Owned(m) : state[f] # "unrun" /\ (state[f] = "green" => f \in gate.original)
  PROVE  GateInv'
<1>. DEFINE ran == [f \in SuiteFile |-> IF f \in Rows(m) THEN state[f] ELSE "unrun"]
<1>1. /\ gate' = [gate EXCEPT !.manifest = m, !.evidence = {}, !.reuse = reuse, !.state = ran]
      /\ work' = [work EXCEPT !.step = "store"]
  BY DEF Accept, Go
<1>2. ran \in [SuiteFile -> RunState] /\ \A f \in Owned(m) : ran[f] = state[f]
  BY DEF RunState, Rows, Owned
<1>3. m \in [SuiteFile -> Scope]
  BY DEF Manifests
<1>. HIDE DEF ran
<1>4. /\ gate' \in Gate /\ gate'.manifest = m /\ gate'.reuse = reuse /\ gate'.state = ran
      /\ gate'.original = gate.original
  BY <1>1, <1>2, <1>3 DEF Gate
<1>5. work'.step = "store"
  BY <1>1 DEF Work
<1>6. RenameDoesNotEscape'
  BY <1>2, <1>4 DEF RenameDoesNotEscape
<1>. QED BY <1>4, <1>5, <1>6 DEF GateInv, At

\* The end of the gate, for files of which every owned one that does not vouch for
\* the rest was in the first manifest.
LEMMA FinishGate ==
  ASSUME gate \in Gate, work \in Work, NEW m \in Manifests, NEW state \in [SuiteFile -> RunState],
         Finish(m, state),
         \/ gate.original = {}
         \/ \A f \in Owned(m) : state[f] # "unrun" /\ (state[f] = "green" => f \in gate.original)
  PROVE  GateInv'
BY AcceptGate, FailGate DEF Finish

\* The first pass of the gate goes to repair only with a manifest that has run.
LEMMA BaselineGate ==
  ASSUME GateInv, work \in Work, NEW m \in Manifests, NEW o \in Outcomes, Baseline(m, o)
  PROVE  GateInv'
<1>1. gate \in Gate /\ gate.original = {}
  BY NoGateTyped DEF GateInv, Baseline, NoGate
<1>2. o \in [SuiteFile -> RunState] /\ Unknown \in [SuiteFile -> RunState]
  BY DEF Outcomes, RunState, Unknown
<1>3. ASSUME NEW state \in [SuiteFile -> RunState], NEW reuse \in BOOLEAN, Accept(m, state, reuse)
      PROVE  GateInv'
  BY <1>1, <1>3, AcceptGate
<1>4. CASE Fail
  BY <1>4, FailGate
<1>5. CASE Finish(m, o)
  BY <1>1, <1>2, <1>5, FinishGate
<1>. DEFINE green == {f \in Owned(m) : o[f] = "green"}
            ran == Merged(Unknown, [f \in Rows(m) |-> o[f]])
<1>6. ASSUME green # {}, Go("repair"),
             gate' = [manifest |-> m, original |-> Rows(m), evidence |-> green,
                      state |-> ran, round |-> 0, reuse |-> FALSE]
      PROVE  GateInv'
  <2>1. ran \in [SuiteFile -> RunState] /\ \A f \in Rows(m) : ran[f] # "unrun"
    BY <1>2 DEF Merged, Rows, Outcomes, FileState, RunState
  <2>2. Rows(m) \subseteq SuiteFile /\ Rows(m) # {} /\ green \subseteq SuiteFile
    BY <1>6 DEF Rows, Owned
  <2>3. m \in [SuiteFile -> Scope]
    BY DEF Manifests
  <2>. HIDE DEF ran, green
  <2>4. gate' \in Gate
    BY <1>6, <2>1, <2>2, <2>3 DEF Gate
  <2>5. gate'.original = Rows(m) /\ gate'.state = ran /\ gate'.reuse = FALSE
    BY <1>6
  <2>6. work'.step = "repair"
    BY <1>6 DEF Go, Work
  <2>. QED BY <2>1, <2>2, <2>4, <2>5, <2>6 DEF GateInv, RenameDoesNotEscape, At
<1>. HIDE DEF ran
<1>. QED BY <1>2, <1>3, <1>4, <1>5, <1>6 DEF Baseline, ran

\* A round of repair runs every file the first manifest did not have, and those
\* that were green.
LEMMA RepairGate ==
  ASSUME GateInv, work \in Work, NEW m \in Manifests, NEW o \in Outcomes, Repair(m, o)
  PROVE  GateInv'
<1>. DEFINE again == Rechecked(m)
            state == [f \in SuiteFile |-> IF f \in again THEN o[f] ELSE gate.state[f]]
            green == {f \in again \cap Owned(m) : o[f] = "green"}
<1>1. /\ At("TEST_GENERATION", "repair") /\ gate \in Gate /\ gate.original # {} /\ ~gate.reuse
      /\ \A f \in gate.original : gate.state[f] # "unrun"
  BY DEF GateInv, Repair
<1>2. \A f \in SuiteFile : o[f] \in FileState /\ o[f] # "unrun"
  BY DEF Outcomes, FileState
<1>3. state \in [SuiteFile -> RunState]
  BY <1>1, <1>2 DEF Gate, RunState
<1>4. \A f \in SuiteFile : state[f] = IF f \in again THEN o[f] ELSE gate.state[f]
  OBVIOUS
<1>5. gate.original \subseteq SuiteFile /\ Owned(m) \subseteq Rows(m) /\ Rows(m) \subseteq SuiteFile
  BY <1>1 DEF Gate, Owned, Rows
<1>6. \A f \in Rows(m) \ again : f \in gate.original
  BY DEF Rechecked
<1>7. CASE green = {}
  <2>1. Finish(m, state)
    BY <1>7 DEF Repair
  <2>2. ASSUME NEW f \in Owned(m)
        PROVE  state[f] # "unrun" /\ (state[f] = "green" => f \in gate.original)
    <3>1. CASE f \in again
      BY <1>2, <1>4, <1>5, <1>7, <3>1
    <3>2. CASE f \notin again
      BY <1>1, <1>4, <1>5, <1>6, <3>2
    <3>. QED BY <3>1, <3>2
  <2>. HIDE DEF state
  <2>. QED BY <1>1, <1>3, <2>1, <2>2, FinishGate
<1>8. CASE green # {}
  <2>1. /\ gate' = [gate EXCEPT !.manifest = m, !.state = state, !.evidence = green,
                                !.round = @ + 1]
        /\ work' = work
    BY <1>8 DEF Repair
  <2>2. green \subseteq SuiteFile /\ m \in [SuiteFile -> Scope]
    BY <1>5 DEF Manifests
  <2>3. \A f \in gate.original : state[f] # "unrun"
    BY <1>1, <1>2, <1>4, <1>5
  <2>6. gate.round + 1 \in Nat
    BY <1>1 DEF Gate
  <2>7. gate' = [gate EXCEPT !.manifest = m, !.state = state, !.evidence = green,
                             !.round = gate.round + 1]
    BY <2>1
  <2>. HIDE DEF state, green
  <2>8. gate' \in Gate
    BY <1>1, <1>3, <2>2, <2>6, <2>7 DEF Gate
  <2>4. /\ gate' \in Gate /\ gate'.state = state /\ gate'.original = gate.original
        /\ gate'.reuse = gate.reuse
    BY <1>1, <2>7, <2>8 DEF Gate
  <2>5. work'.stage = "TEST_GENERATION" /\ work'.step = "repair"
    BY <1>1, <2>1 DEF At
  <2>. QED BY <1>1, <2>3, <2>4, <2>5 DEF GateInv, RenameDoesNotEscape, At
<1>. QED BY <1>7, <1>8

\* Every step keeps the gate in order.
LEMMA GateInvNext == QueueInv /\ GateInv /\ [Next]_vars => GateInv'
<1>. SUFFICES ASSUME QueueInv, GateInv, [Next]_vars PROVE GateInv'
  OBVIOUS
<1>0. /\ work # Idle => work \in Work
      /\ gate \in Gate
  BY DEF QueueInv, WorkInv, GateInv
<1>1. CASE \E n \in Node, s \in FormalStage : Start(n, s)
  <2>1. gate' = NoGate /\ work'.step = "run"
    BY <1>1 DEF Start
  <2>. QED BY <2>1, NoGateTyped, GateAway DEF At
<1>2. CASE InterfaceStage \/ ImplementStage
  <2>1. work.stage # "TEST_GENERATION" /\ work # Idle
    BY <1>2, AtWorks, StepNames DEF InterfaceStage, SkipComposition, DesignFails, DesignPrepared,
       RegisterContract, ImplementStage, ImplementComposition, ImplementByReuse,
       ImplementWithoutReuse, TddPasses, TddFails, At
  <2>2. CASE Fail
    BY <2>2, FailGate
  <2>3. CASE ~Fail
    <3>1. gate' = gate /\ \E s : Go(s)
      BY <1>2, <2>3 DEF InterfaceStage, SkipComposition, DesignFails, DesignPrepared,
         RegisterContract, ImplementStage, ImplementComposition, ImplementByReuse,
         ImplementWithoutReuse, TddPasses, TddFails
    <3>2. work'.stage = work.stage
      BY <1>0, <2>1, <3>1 DEF Go, Work
    <3>. QED BY <1>0, <2>1, <3>1, <3>2, GateAway DEF At
  <2>. QED BY <2>2, <2>3
<1>3. CASE TestStage
  <2>1. ASSUME NEW m \in Manifests, NEW o \in Outcomes, Baseline(m, o) PROVE GateInv'
    <3>1. work # Idle
      BY <2>1, AtWorks, StepNames DEF Baseline
    <3>. QED BY <1>0, <2>1, <3>1, BaselineGate
  <2>2. ASSUME NEW m \in Manifests, NEW o \in Outcomes, Repair(m, o) PROVE GateInv'
    <3>1. work # Idle
      BY <2>2, AtWorks, StepNames DEF Repair
    <3>. QED BY <1>0, <2>2, <3>1, RepairGate
  <2>3. CASE RepairUnparsed
    <3>1. /\ At("TEST_GENERATION", "repair") /\ work' = work
          /\ gate' = [gate EXCEPT !.round = @ + 1]
      BY <2>3 DEF RepairUnparsed
    <3>2. /\ gate' \in Gate /\ gate'.original = gate.original /\ gate'.state = gate.state
          /\ gate'.reuse = gate.reuse
      BY <1>0, <3>1 DEF Gate
    <3>3. work'.step = "repair"
      BY <3>1 DEF At
    <3>. QED BY <3>1, <3>2, <3>3 DEF GateInv, RenameDoesNotEscape, At
  <2>4. CASE StoreTests \/ RecordDesign
    <3>1. /\ gate' = gate /\ work # Idle
          /\ Go("record") \/ Go("done")
      BY <2>4, AtWorks, StepNames DEF StoreTests, RecordDesign
    <3>2. work'.step = "record" \/ work'.step = "done"
      BY <1>0, <3>1 DEF Go, Work
    <3>. QED BY <1>0, <3>1, <3>2, GateAway DEF At
  <2>5. CASE Fail
    BY <2>5, FailGate
  <2>. QED BY <1>3, <2>1, <2>2, <2>3, <2>4, <2>5 DEF TestStage, TestsRefused, ManifestFails,
       StatusFails, StatusUndeclared, RepairExhausted, RepairFails, RevisionFails
<1>4. CASE Publish
  BY <1>4, IdleIs, NoGateTyped, GateAway DEF Publish, At
<1>5. CASE PublicationFails
  BY <1>5, FailGate DEF PublicationFails
<1>6. CASE CrashAndResume
  BY <1>6, IdleIs, NoGateTyped, GateAway DEF CrashAndResume, At
<1>7. CASE \E n \in Node : Retry(n)
  BY <1>0, <1>7, IdleIs, GateAway DEF Retry, At
<1>8. CASE UNCHANGED vars
  BY <1>8 DEF vars, GateInv, RenameDoesNotEscape, At
<1>. QED BY <1>1, <1>2, <1>3, <1>4, <1>5, <1>6, <1>7, <1>8 DEF Next

-----------------------------------------------------------------------------
(* The store, the session and the queue agree *)

\* What a session file says of the design and of the implementation.
DesignStatus == {"", "pending", "skipped", "prepared", "completed", "interrupted"}

ImplementStatus == {"", "pending", "in_progress", "completed", "failed", "interrupted"}

\* A session file.
SessionRecord ==
  [design : DesignStatus, implement : ImplementStatus, contract : Contract, known : BOOLEAN,
   tests : SUBSET SuiteFile, baseline : [SuiteFile -> RunState], reuse : BOOLEAN,
   result : {"", "CONVERGED"}]

\* The rows of a node in the store.
Registry ==
  [contract : Contract, implemented : BOOLEAN, tests : SUBSET SuiteFile,
   passed : SUBSET SuiteFile]

\* Between the session and the store: one of the two is written, the other is not.
Writing(w, n) ==
  /\ w.node = n
  /\ \/ w.stage = "INTERFACE_DESIGN" /\ w.step = "register"
     \/ w.stage = "TEST_GENERATION" /\ w.step = "record"

\* The session file and the store say the same of the tests and the contract.
Agree(s, r) == r.tests = s.tests /\ r.contract = s.contract

\* What the session s and the rows r of node n hold beside the queue.  A prepared
\* design has its contract and no tests in the store, and is being made for as
\* long as its tests are not.
StoreInv(q, s, r, w, n) ==
  /\ r.passed \subseteq r.tests
  /\ ~IsLeaf(n) => r.tests = {}
  /\ IsLeaf(n) /\ s.design = "prepared" =>
       /\ TestRow(q, n) \in {"PENDING", "RUNNING"} => q.state[n] = "DESIGNING"
       /\ ~Writing(w, n) => r.tests = {} /\ r.contract = s.contract
  /\ IsLeaf(n) /\ TestRow(q, n) = "PUBLISHED" => s.design = "completed" /\ Agree(s, r)
  /\ q.state[n] = "CONVERGED" => r.implemented /\ r.passed = r.tests

\* What the steps of a stage have established.
DoneInv(w, s, r, g) ==
  LET at(formal, i) == w.stage = formal /\ w.step = i IN
  /\ at("INTERFACE_DESIGN", "register") => s.design = "prepared"
  /\ at("TEST_GENERATION", "repair") \/ at("TEST_GENERATION", "store") => s.design = "prepared"
  /\ at("TEST_GENERATION", "record") =>
       s.design = "prepared" /\ r.tests = Rows(g.manifest) /\ r.contract = s.contract
  /\ at("TEST_GENERATION", "done") => s.design = "completed" /\ Agree(s, r)
  /\ at("IMPLEMENTATION", "done") => r.implemented /\ r.passed = r.tests

\* The sessions and the store are in order with the queue and the stage at work.
StoresInv ==
  /\ session \in [Node -> SessionRecord]
  /\ registry \in [Node -> Registry]
  /\ \A n \in Node : StoreInv(queue, session[n], registry[n], work, n)
  /\ work # Idle => DoneInv(work, session[work.node], registry[work.node], gate)

\* The steps of a stage touch the session and the rows of its node.
Apart(n) ==
  /\ Elsewhere(queue, queue', n)
  /\ \A m \in Node \ {n} : session'[m] = session[m] /\ registry'[m] = registry[m]

\* A step that is all about one node keeps the stores of the others in order.
LEMMA OneNodeStore ==
  ASSUME StoresInv, NEW n \in Node, Apart(n), work = Idle \/ work.node = n,
         session' \in [Node -> SessionRecord], registry' \in [Node -> Registry],
         StoreInv(queue', session'[n], registry'[n], work', n),
         work' # Idle => work'.node = n /\ DoneInv(work', session'[n], registry'[n], gate')
  PROVE  StoresInv'
<1>1. ASSUME NEW m \in Node, m # n
      PROVE  StoreInv(queue', session'[m], registry'[m], work', m)
  <2>1. /\ queue'.state[m] = queue.state[m] /\ TestRow(queue', m) = TestRow(queue, m)
        /\ session'[m] = session[m] /\ registry'[m] = registry[m]
    BY <1>1, FormalNames DEF Apart, Elsewhere, TestRow
  <2>2. ~Writing(work, m)
    BY <1>1, IdleIs DEF Writing
  <2>3. StoreInv(queue, session[m], registry[m], work, m)
    BY DEF StoresInv
  <2>. QED BY <2>1, <2>2, <2>3 DEF StoreInv
<1>. QED BY <1>1 DEF StoresInv

\* The same with only the session or only the store written, or none of them.
LEMMA SameQueueApart ==
  ASSUME NEW n \in Node, queue' = queue,
         \A m \in Node \ {n} : session'[m] = session[m] /\ registry'[m] = registry[m]
  PROVE  Apart(n)
BY DEF Apart, Elsewhere

\* What is known where a stage works.
LEMMA AtWork ==
  ASSUME QueueInv, StoresInv, NEW formal \in FormalStage, NEW pc, At(formal, pc)
  PROVE  /\ work # Idle /\ work \in Work /\ work.node \in Node
         /\ work.stage = formal /\ work.step = pc
         /\ session[work.node] \in SessionRecord /\ registry[work.node] \in Registry
         /\ queue.stage[work.node][formal] = "RUNNING"
         /\ RowInv(queue, work.node)
         /\ StoreInv(queue, session[work.node], registry[work.node], work, work.node)
         /\ DoneInv(work, session[work.node], registry[work.node], gate)
<1>1. work # Idle /\ work.stage = formal /\ work.step = pc
  BY AtWorks DEF At
<1>2. work \in Work /\ queue.stage[work.node][formal] = "RUNNING"
  BY <1>1 DEF QueueInv, WorkInv
<1>3. work.node \in Node
  BY <1>2 DEF Work
<1>. QED BY <1>1, <1>2, <1>3 DEF QueueInv, StoresInv

\* Going on to the next step.
LEMMA GoTo ==
  ASSUME work \in Work, NEW pc \in Step, Go(pc)
  PROVE  /\ work'.node = work.node /\ work'.stage = work.stage /\ work'.step = pc
         /\ work' # Idle \/ pc = "idle"
<1>1. work'.node = work.node /\ work'.stage = work.stage /\ work'.step = pc
  BY DEF Go, Work
<1>. QED BY <1>1, IdleIs

\* No row is published while its stage runs, and a node with a running stage is
\* not done.
LEMMA RunningNode ==
  ASSUME NEW q, NEW n, NEW s \in FormalStage, RowInv(q, n), q.stage[n][s] = "RUNNING"
  PROVE  q.state[n] \notin CompletedStates
BY FormalNames DEF RowInv, InterfaceRow, TestRow, ImplementRow

-----------------------------------------------------------------------------
(* The interface stage *)

\* The step SkipComposition keeps the stores in order; so do the steps below,
\* each named by its lemma.
LEMMA SkipCompositionStore ==
  ASSUME QueueInv, StoresInv, SkipComposition
  PROVE  StoresInv'
<1>. DEFINE n == work.node
            s == session[n]
            r == registry[n]
<1>1. At("INTERFACE_DESIGN", "run") /\ ~IsLeaf(n) /\ Go("done") /\ queue' = queue
  BY DEF SkipComposition
<1>2. /\ work # Idle /\ work \in Work /\ n \in Node /\ work.stage = "INTERFACE_DESIGN"
      /\ s \in SessionRecord /\ queue.stage[n]["INTERFACE_DESIGN"] = "RUNNING" /\ RowInv(queue, n)
  BY <1>1, AtWork, StepNames
<1>3. queue.state[n] # "CONVERGED"
  BY <1>2, RunningNode, StepNames DEF CompletedStates
<1>4. /\ registry' = [registry EXCEPT ![n] = EmptyRegistry]
      /\ session' = [session EXCEPT ![n].design = "skipped", ![n].contract = "none",
                                    ![n].tests = {}]
  BY DEF SkipComposition
<1>5. session \in [Node -> SessionRecord] /\ registry \in [Node -> Registry]
  BY DEF StoresInv
<1>6. EmptyRegistry \in Registry
  BY DEF EmptyRegistry, Registry, Contract
<1>7. /\ registry' \in [Node -> Registry] /\ registry'[n] = EmptyRegistry
      /\ \A m \in Node \ {n} : registry'[m] = registry[m]
  BY <1>2, <1>4, <1>5, <1>6
<1>8. session'[n] = [s EXCEPT !.design = "skipped", !.contract = "none", !.tests = {}]
  BY <1>2, <1>4, <1>5
<1>9. \A m \in Node \ {n} : session'[m] = session[m]
  BY <1>2, <1>4, <1>5
<1>10. session' \in [Node -> SessionRecord]
  <2>1. [s EXCEPT !.design = "skipped", !.contract = "none", !.tests = {}] \in SessionRecord
    BY <1>2 DEF SessionRecord, DesignStatus, Contract
  <2>. QED BY <1>2, <1>4, <1>5, <1>8, <1>9, <2>1
<1>11. work'.node = n /\ work'.stage = "INTERFACE_DESIGN" /\ work'.step = "done" /\ work' # Idle
  BY <1>1, <1>2, GoTo, StepNames
<1>12. StoreInv(queue', session'[n], registry'[n], work', n)
  BY <1>1, <1>3, <1>7 DEF StoreInv, EmptyRegistry
<1>13. DoneInv(work', session'[n], registry'[n], gate')
  BY <1>11 DEF DoneInv
<1>14. Apart(n)
  BY <1>1, <1>2, <1>7, <1>9, SameQueueApart
<1>. QED BY <1>2, <1>7, <1>10, <1>11, <1>12, <1>13, <1>14, OneNodeStore

\* The session says prepared before the store has the contract.
LEMMA DesignPreparedStore ==
  ASSUME QueueInv, StoresInv, NEW c \in Contract, DesignPrepared(c)
  PROVE  StoresInv'
<1>. DEFINE n == work.node
            s == session[n]
            r == registry[n]
            t == [s EXCEPT !.design = "prepared", !.contract = c, !.known = r.implemented]
<1>1. /\ At("INTERFACE_DESIGN", "run") /\ IsLeaf(n) /\ Go("register")
      /\ queue' = queue /\ registry' = registry
  BY DEF DesignPrepared
<1>2. /\ work # Idle /\ work \in Work /\ n \in Node /\ work.stage = "INTERFACE_DESIGN"
      /\ s \in SessionRecord /\ r \in Registry
      /\ queue.stage[n]["INTERFACE_DESIGN"] = "RUNNING" /\ RowInv(queue, n)
      /\ StoreInv(queue, s, r, work, n)
  BY <1>1, AtWork, StepNames
<1>3. queue.state[n] = "DESIGNING" /\ TestRow(queue, n) # "PUBLISHED"
  BY <1>1, <1>2 DEF QueueInv, WorkInv, RowInv
<1>4. session \in [Node -> SessionRecord] /\ registry \in [Node -> Registry]
  BY DEF StoresInv
<1>5. session' = [session EXCEPT ![n].design = "prepared", ![n].contract = c,
                                 ![n].known = registry[n].implemented]
  BY DEF DesignPrepared
<1>6. t \in SessionRecord /\ t.design = "prepared"
  BY <1>2 DEF SessionRecord, Registry, DesignStatus
<1>7. session'[n] = t /\ \A m \in Node \ {n} : session'[m] = session[m]
  BY <1>2, <1>4, <1>5
<1>8. session' \in [Node -> SessionRecord]
  BY <1>2, <1>4, <1>5, <1>6, <1>7
<1>9. work'.node = n /\ work'.stage = "INTERFACE_DESIGN" /\ work'.step = "register" /\ work' # Idle
  BY <1>1, <1>2, GoTo, StepNames
<1>. HIDE DEF t
<1>10. StoreInv(queue', session'[n], registry'[n], work', n)
  BY <1>1, <1>2, <1>3, <1>7, <1>9 DEF StoreInv, Writing
<1>11. DoneInv(work', session'[n], registry'[n], gate')
  BY <1>6, <1>7, <1>9 DEF DoneInv
<1>12. Apart(n)
  BY <1>1, <1>2, <1>7, SameQueueApart
<1>. QED BY <1>1, <1>2, <1>4, <1>8, <1>9, <1>10, <1>11, <1>12, OneNodeStore

\* The contract is registered and the tests of an earlier design are gone.
LEMMA RegisterContractStore ==
  ASSUME QueueInv, StoresInv, RegisterContract
  PROVE  StoresInv'
<1>. DEFINE n == work.node
            s == session[n]
            r == DesignRows(s)
<1>1. /\ At("INTERFACE_DESIGN", "register") /\ Go("done")
      /\ queue' = queue /\ session' = session
      /\ registry' = [registry EXCEPT ![n] = r]
  BY DEF RegisterContract
<1>2. /\ work # Idle /\ work \in Work /\ n \in Node /\ work.stage = "INTERFACE_DESIGN"
      /\ s \in SessionRecord /\ queue.stage[n]["INTERFACE_DESIGN"] = "RUNNING" /\ RowInv(queue, n)
      /\ StoreInv(queue, s, registry[n], work, n)
  BY <1>1, AtWork, StepNames
<1>3. queue.state[n] = "DESIGNING" /\ (IsLeaf(n) => TestRow(queue, n) # "PUBLISHED")
  BY <1>2 DEF QueueInv, WorkInv, RowInv
<1>4. session \in [Node -> SessionRecord] /\ registry \in [Node -> Registry]
  BY DEF StoresInv
<1>5. r \in Registry /\ r.tests = {} /\ r.passed = {} /\ r.contract = s.contract
  BY <1>2 DEF DesignRows, EmptyRegistry, Registry, SessionRecord, Contract
<1>. HIDE DEF r
<1>6. /\ registry' \in [Node -> Registry] /\ registry'[n] = r
      /\ \A m \in Node \ {n} : registry'[m] = registry[m]
  BY <1>1, <1>2, <1>4, <1>5
<1>7. work'.node = n /\ work'.stage = "INTERFACE_DESIGN" /\ work'.step = "done" /\ work' # Idle
  BY <1>1, <1>2, GoTo, StepNames
<1>8. StoreInv(queue', session'[n], registry'[n], work', n)
  BY <1>1, <1>2, <1>3, <1>5, <1>6, <1>7 DEF StoreInv, Writing
<1>9. DoneInv(work', session'[n], registry'[n], gate')
  BY <1>7 DEF DoneInv
<1>10. Apart(n)
  BY <1>1, <1>2, <1>6, SameQueueApart
<1>. QED BY <1>1, <1>2, <1>4, <1>6, <1>7, <1>8, <1>9, <1>10, OneNodeStore

-----------------------------------------------------------------------------
(* A stage fails *)

\* The rows of a node whose stage failed.
LEMMA FailRows ==
  ASSUME QueueInv, work # Idle, Fail
  PROVE  LET n == work.node IN
         /\ work \in Work /\ n \in Node /\ work' = Idle
         /\ Elsewhere(queue, queue', n) /\ queue'.state[n] = "FAILED"
         /\ TestRow(queue', n) \notin {"PENDING", "RUNNING"}
         /\ IsLeaf(n) /\ TestRow(queue', n) = "PUBLISHED" => TestRow(queue, n) = "PUBLISHED"
<1>. DEFINE n == work.node
            s == work.stage
<1>1. /\ work \in Work /\ n \in Node /\ s \in FormalStage /\ s \in Stage /\ queue \in Queue
      /\ queue.stage[n][s] = "RUNNING"
      /\ s = "IMPLEMENTATION" => TestRow(queue, n) \in TerminalSuccess
  BY FormalNames DEF QueueInv, WorkInv, Work
<1>2. /\ Elsewhere(queue, queue', n) /\ work' = Idle
      /\ queue'.state[n] = "FAILED" /\ queue'.stage[n] = FailedRow(queue.stage[n], s)
  BY <1>1, FailIs
<1>3. TestRow(queue', n) =
        IF s = "INTERFACE_DESIGN" THEN Behind(TestRow(queue, n))
        ELSE IF s = "TEST_GENERATION" THEN "FAILED" ELSE TestRow(queue, n)
  BY <1>1, <1>2, FailedRowBy, FormalNames DEF TestRow
<1>4. TestRow(queue', n) \notin {"PENDING", "RUNNING"}
  BY <1>1, <1>3, FormalNames DEF Behind, ActiveStatus
<1>5. TestRow(queue', n) = "PUBLISHED" => TestRow(queue, n) = "PUBLISHED"
  BY <1>3 DEF Behind, ActiveStatus
<1>. QED BY <1>1, <1>2, <1>4, <1>5

\* A failure that may have cleared marks of the registered tests.
LEMMA FailWithStore ==
  ASSUME QueueInv, StoresInv, work # Idle, Fail, ~Writing(work, work.node),
         session' \in [Node -> SessionRecord], registry' \in [Node -> Registry],
         \A m \in Node \ {work.node} : session'[m] = session[m] /\ registry'[m] = registry[m],
         session'[work.node].design = session[work.node].design,
         session'[work.node].contract = session[work.node].contract,
         session'[work.node].tests = session[work.node].tests,
         registry'[work.node].tests = registry[work.node].tests,
         registry'[work.node].contract = registry[work.node].contract,
         registry'[work.node].passed \subseteq registry[work.node].tests
  PROVE  StoresInv'
<1>. DEFINE n == work.node
<1>1. /\ work \in Work /\ n \in Node /\ work' = Idle
      /\ Elsewhere(queue, queue', n) /\ queue'.state[n] = "FAILED"
      /\ TestRow(queue', n) \notin {"PENDING", "RUNNING"}
      /\ IsLeaf(n) /\ TestRow(queue', n) = "PUBLISHED" => TestRow(queue, n) = "PUBLISHED"
  BY FailRows
<1>2. StoreInv(queue, session[n], registry[n], work, n)
  BY <1>1 DEF StoresInv
<1>3. StoreInv(queue', session'[n], registry'[n], work', n)
  BY <1>1, <1>2 DEF StoreInv, Agree
<1>4. Apart(n)
  BY <1>1 DEF Apart
<1>. QED BY <1>1, <1>3, <1>4, OneNodeStore

\* A stage that fails before or after its two writes keeps the stores in order.
LEMMA FailStore ==
  ASSUME QueueInv, StoresInv, work # Idle, Fail, ~Writing(work, work.node),
         UNCHANGED <<session, registry>>
  PROVE  StoresInv'
<1>1. session \in [Node -> SessionRecord] /\ registry \in [Node -> Registry]
  BY DEF StoresInv
<1>2. work.node \in Node
  BY FailRows
<1>3. registry[work.node].passed \subseteq registry[work.node].tests
  BY <1>2 DEF StoresInv, StoreInv
<1>. QED BY <1>1, <1>3, FailWithStore

-----------------------------------------------------------------------------
(* The test stage *)

\* A step that goes on and writes neither the session nor the store.
LEMMA GoOnStore ==
  ASSUME QueueInv, StoresInv, work \in Work, work # Idle, work' # Idle,
         work'.node = work.node, UNCHANGED <<queue, session, registry>>,
         ~Writing(work, work.node),
         DoneInv(work', session[work.node], registry[work.node], gate')
  PROVE  StoresInv'
<1>. DEFINE n == work.node
<1>1. n \in Node
  BY DEF Work
<1>2. /\ session \in [Node -> SessionRecord] /\ registry \in [Node -> Registry]
      /\ StoreInv(queue, session[n], registry[n], work, n)
  BY <1>1 DEF StoresInv
<1>3. StoreInv(queue', session'[n], registry'[n], work', n)
  BY <1>2 DEF StoreInv
<1>4. Apart(n)
  BY <1>1, SameQueueApart
<1>. QED BY <1>1, <1>2, <1>3, <1>4, OneNodeStore

\* A step of the test stage up to its gate's end.
LEMMA GateStepStore ==
  ASSUME QueueInv, StoresInv, NEW pc, At("TEST_GENERATION", pc), pc \in {"run", "repair"},
         session[work.node].design = "prepared", UNCHANGED <<session, registry>>,
         \/ Fail
         \/ UNCHANGED <<queue, work>>
         \/ UNCHANGED queue /\ \E next \in {"repair", "store"} : Go(next)
  PROVE  StoresInv'
<1>1. /\ work # Idle /\ work \in Work /\ work.stage = "TEST_GENERATION" /\ work.step = pc
      /\ DoneInv(work, session[work.node], registry[work.node], gate)
  BY AtWork, StepNames
<1>2. ~Writing(work, work.node)
  BY <1>1 DEF Writing
<1>3. CASE Fail
  BY <1>1, <1>2, <1>3, FailStore
<1>4. CASE UNCHANGED <<queue, work>>
  <2>1. DoneInv(work', session[work.node], registry[work.node], gate')
    BY <1>1, <1>4 DEF DoneInv
  <2>. QED BY <1>1, <1>2, <1>4, <2>1, GoOnStore
<1>5. CASE UNCHANGED queue /\ \E next \in {"repair", "store"} : Go(next)
  <2>1. PICK next \in {"repair", "store"} : Go(next)
    BY <1>5
  <2>2. /\ work'.node = work.node /\ work'.stage = "TEST_GENERATION" /\ work'.step = next
        /\ work' # Idle
    BY <1>1, <2>1, GoTo, StepNames
  <2>3. DoneInv(work', session[work.node], registry[work.node], gate')
    BY <2>2 DEF DoneInv
  <2>. QED BY <1>1, <1>2, <1>5, <2>2, <2>3, GoOnStore
<1>. QED BY <1>3, <1>4, <1>5

\* The gate's first pass writes neither store.
LEMMA BaselineStore ==
  ASSUME QueueInv, StoresInv, NEW m, NEW o, Baseline(m, o)
  PROVE  StoresInv'
<1>1. /\ At("TEST_GENERATION", "run") /\ session[work.node].design = "prepared"
      /\ UNCHANGED <<session, registry>>
  BY DEF Baseline, Prepared
<1>2. ASSUME NEW state, NEW reuse, Accept(m, state, reuse)
      PROVE  UNCHANGED queue /\ Go("store")
  BY <1>2 DEF Accept
<1>3. ASSUME Finish(m, o)
      PROVE  Fail \/ (UNCHANGED queue /\ Go("store"))
  BY <1>2, <1>3 DEF Finish
<1>4. Fail \/ (UNCHANGED queue /\ \E next \in {"repair", "store"} : Go(next))
  BY <1>2, <1>3 DEF Baseline
<1>. QED BY <1>1, <1>4, GateStepStore

\* Nor does a round of repair.
LEMMA RepairStore ==
  ASSUME QueueInv, StoresInv, NEW m, NEW o, Repair(m, o)
  PROVE  StoresInv'
<1>1. At("TEST_GENERATION", "repair") /\ UNCHANGED <<session, registry>>
  BY DEF Repair
<1>2. session[work.node].design = "prepared"
  BY <1>1, AtWork, StepNames DEF DoneInv
<1>3. ASSUME NEW state, Finish(m, state)
      PROVE  Fail \/ (UNCHANGED queue /\ Go("store"))
  BY <1>3 DEF Finish, Accept
<1>4. \/ Fail
      \/ UNCHANGED <<queue, work>>
      \/ UNCHANGED queue /\ \E next \in {"repair", "store"} : Go(next)
  BY <1>3 DEF Repair
<1>. QED BY <1>1, <1>2, <1>4, GateStepStore

\* The tests are stored before the session says completed.
LEMMA StoreTestsStore ==
  ASSUME QueueInv, StoresInv, StoreTests
  PROVE  StoresInv'
<1>. DEFINE n == work.node
            s == session[n]
            m == Rows(gate.manifest)
            t == TestsStored(registry[n], m, gate.reuse)
<1>1. /\ At("TEST_GENERATION", "store") /\ Go("record")
      /\ queue' = queue /\ session' = session /\ gate' = gate
      /\ registry' = [registry EXCEPT ![n] = t]
  BY DEF StoreTests
<1>2. /\ work # Idle /\ work \in Work /\ n \in Node /\ work.stage = "TEST_GENERATION"
      /\ work.step = "store"
      /\ s \in SessionRecord /\ registry[n] \in Registry /\ RowInv(queue, n)
      /\ queue.stage[n]["TEST_GENERATION"] = "RUNNING"
      /\ StoreInv(queue, s, registry[n], work, n)
      /\ DoneInv(work, s, registry[n], gate)
  BY <1>1, AtWork, StepNames
<1>3. IsLeaf(n) /\ s.design = "prepared" /\ ~Writing(work, n)
  BY <1>2 DEF QueueInv, WorkInv, DoneInv, Writing
<1>4. /\ registry[n].tests = {} /\ registry[n].passed = {}
      /\ registry[n].contract = s.contract
  BY <1>2, <1>3 DEF StoreInv
<1>5. m \subseteq SuiteFile
  BY DEF Rows
<1>6. queue.state[n] # "CONVERGED" /\ TestRow(queue, n) # "PUBLISHED"
  BY <1>2, RunningNode, StepNames DEF CompletedStates, TestRow
<1>7. session \in [Node -> SessionRecord] /\ registry \in [Node -> Registry]
  BY DEF StoresInv
<1>. HIDE DEF m
<1>8. t \in Registry /\ t.tests = m /\ t.passed \subseteq m /\ t.contract = s.contract
  BY <1>2, <1>4, <1>5 DEF TestsStored, Registry
<1>. HIDE DEF t
<1>9. /\ registry' \in [Node -> Registry] /\ registry'[n] = t
      /\ \A k \in Node \ {n} : registry'[k] = registry[k]
  BY <1>1, <1>2, <1>7, <1>8
<1>10. work'.node = n /\ work'.stage = "TEST_GENERATION" /\ work'.step = "record" /\ work' # Idle
  BY <1>1, <1>2, GoTo, StepNames
<1>11. StoreInv(queue', session'[n], registry'[n], work', n)
  BY <1>1, <1>2, <1>3, <1>6, <1>8, <1>9, <1>10 DEF StoreInv, Writing
<1>12. DoneInv(work', session'[n], registry'[n], gate')
  BY <1>1, <1>3, <1>8, <1>9, <1>10 DEF DoneInv, m
<1>13. Apart(n)
  BY <1>1, <1>2, <1>9, SameQueueApart
<1>. QED BY <1>1, <1>2, <1>7, <1>9, <1>10, <1>11, <1>12, <1>13, OneNodeStore

\* The session says completed of the tests that are in the store.
LEMMA RecordDesignStore ==
  ASSUME QueueInv, StoresInv, gate \in Gate, RecordDesign
  PROVE  StoresInv'
<1>. DEFINE n == work.node
            s == session[n]
            r == registry[n]
            m == Rows(gate.manifest)
            base == Merged(s.baseline, [f \in m |-> gate.state[f]])
            res == IF gate.reuse THEN "CONVERGED" ELSE s.result
            t == [s EXCEPT !.design = "completed", !.tests = m, !.baseline = base,
                           !.reuse = gate.reuse, !.result = res]
<1>1. /\ At("TEST_GENERATION", "record") /\ Go("done")
      /\ queue' = queue /\ registry' = registry
  BY DEF RecordDesign
<1>2. /\ work # Idle /\ work \in Work /\ n \in Node /\ work.stage = "TEST_GENERATION"
      /\ s \in SessionRecord /\ r \in Registry /\ RowInv(queue, n)
      /\ queue.stage[n]["TEST_GENERATION"] = "RUNNING"
      /\ StoreInv(queue, s, r, work, n)
      /\ work.step = "record" /\ DoneInv(work, s, r, gate)
  BY <1>1, AtWork, StepNames
<1>3. IsLeaf(n) /\ r.tests = m /\ r.contract = s.contract
  BY <1>2 DEF QueueInv, WorkInv, DoneInv
<1>4. m \subseteq SuiteFile
  BY DEF Rows
<1>5. base \in [SuiteFile -> RunState]
  BY <1>2, <1>4 DEF Merged, Gate, SessionRecord
<1>6. res \in {"", "CONVERGED"} /\ gate.reuse \in BOOLEAN
  BY <1>2 DEF SessionRecord, Gate
<1>7. session \in [Node -> SessionRecord] /\ registry \in [Node -> Registry]
  BY DEF StoresInv
<1>8. session'[n] = t /\ \A k \in Node \ {n} : session'[k] = session[k]
  BY <1>2, <1>7 DEF RecordDesign
<1>. HIDE DEF m, base, res
<1>9. t \in SessionRecord /\ t.design = "completed" /\ t.tests = m /\ t.contract = s.contract
  BY <1>2, <1>4, <1>5, <1>6 DEF SessionRecord, DesignStatus
<1>. HIDE DEF t
<1>10. session' \in [Node -> SessionRecord]
  <2>1. DOMAIN session' = Node /\ session' = [k \in Node |-> session'[k]]
    BY <1>7 DEF RecordDesign
  <2>2. \A k \in Node : session'[k] \in SessionRecord
    BY <1>7, <1>8, <1>9
  <2>. QED BY <2>1, <2>2
<1>11. work'.node = n /\ work'.stage = "TEST_GENERATION" /\ work'.step = "done" /\ work' # Idle
  BY <1>1, <1>2, GoTo, StepNames
<1>12. StoreInv(queue', session'[n], registry'[n], work', n)
  BY <1>1, <1>2, <1>3, <1>8, <1>9 DEF StoreInv, Agree
<1>13. DoneInv(work', session'[n], registry'[n], gate')
  BY <1>1, <1>3, <1>8, <1>9, <1>11 DEF DoneInv, Agree
<1>14. Apart(n)
  BY <1>1, <1>2, <1>8, SameQueueApart
<1>. QED BY <1>1, <1>2, <1>7, <1>10, <1>11, <1>12, <1>13, <1>14, OneNodeStore

\* Every step of the test stage keeps the stores in order.
LEMMA TestStore ==
  ASSUME QueueInv, GateInv, StoresInv, TestStage
  PROVE  StoresInv'
<1>1. CASE TestsRefused \/ ManifestFails \/ StatusFails \/ RepairExhausted \/ RepairFails
           \/ RevisionFails
  <2>1. /\ Fail /\ UNCHANGED <<session, registry>>
        /\ \E pc \in {"run", "repair", "store"} : At("TEST_GENERATION", pc)
    BY <1>1 DEF TestsRefused, ManifestFails, StatusFails, StatusUndeclared, RepairExhausted,
       RepairFails, RevisionFails
  <2>2. work # Idle /\ ~Writing(work, work.node)
    BY <2>1, AtWorks, StepNames DEF At, Writing
  <2>. QED BY <2>1, <2>2, FailStore
<1>2. CASE RepairUnparsed
  <2>1. At("TEST_GENERATION", "repair") /\ UNCHANGED <<queue, session, registry, work>>
    BY <1>2 DEF RepairUnparsed
  <2>2. session[work.node].design = "prepared"
    BY <2>1, AtWork, StepNames DEF DoneInv
  <2>. QED BY <2>1, <2>2, GateStepStore
<1>3. CASE StoreTests
  BY <1>3, StoreTestsStore
<1>4. CASE RecordDesign
  BY <1>4, RecordDesignStore DEF GateInv
<1>. QED BY <1>1, <1>2, <1>3, <1>4, BaselineStore, RepairStore DEF TestStage

-----------------------------------------------------------------------------
(* The interface and the implementation stage *)

\* Every step of the interface stage keeps the stores in order.
LEMMA InterfaceStore ==
  ASSUME QueueInv, StoresInv, InterfaceStage
  PROVE  StoresInv'
<1>1. CASE DesignFails
  <2>1. At("INTERFACE_DESIGN", "run") /\ Fail /\ UNCHANGED <<session, registry>>
    BY <1>1 DEF DesignFails
  <2>2. work # Idle /\ ~Writing(work, work.node)
    BY <2>1, AtWorks, StepNames DEF At, Writing
  <2>. QED BY <2>1, <2>2, FailStore
<1>. QED BY <1>1, SkipCompositionStore, DesignPreparedStore, RegisterContractStore
     DEF InterfaceStage

\* A step of the implementation that goes on keeps the registered tests, and is
\* done when all of them have passed.
LEMMA ImplementStepStore ==
  ASSUME QueueInv, StoresInv, NEW pc, At("IMPLEMENTATION", pc), queue' = queue,
         NEW next \in {"tdd", "done"}, Go(next),
         NEW s \in SessionRecord, session' = [session EXCEPT ![work.node] = s],
         NEW r \in Registry, registry' = [registry EXCEPT ![work.node] = r],
         s.design = session[work.node].design, s.contract = session[work.node].contract,
         Agree(session[work.node], registry[work.node]) => Agree(s, r),
         r.tests = registry[work.node].tests, r.contract = registry[work.node].contract,
         r.passed \subseteq r.tests,
         next = "done" => r.implemented /\ r.passed = r.tests
  PROVE  StoresInv'
<1>. DEFINE n == work.node
<1>1. /\ work # Idle /\ work \in Work /\ n \in Node /\ work.stage = "IMPLEMENTATION"
      /\ queue.stage[n]["IMPLEMENTATION"] = "RUNNING" /\ RowInv(queue, n)
      /\ StoreInv(queue, session[n], registry[n], work, n)
  BY AtWork, StepNames
<1>2. queue.state[n] # "CONVERGED" /\ ~Writing(work, n)
  BY <1>1, RunningNode, StepNames DEF CompletedStates, Writing
<1>3. session \in [Node -> SessionRecord] /\ registry \in [Node -> Registry]
  BY DEF StoresInv
<1>4. /\ session' \in [Node -> SessionRecord] /\ session'[n] = s
      /\ registry' \in [Node -> Registry] /\ registry'[n] = r
      /\ \A m \in Node \ {n} : session'[m] = session[m] /\ registry'[m] = registry[m]
  BY <1>1, <1>3
<1>5. /\ work'.node = n /\ work'.stage = "IMPLEMENTATION" /\ work'.step = next /\ work' # Idle
  BY <1>1, GoTo, StepNames
<1>6. StoreInv(queue', session'[n], registry'[n], work', n)
  BY <1>1, <1>2, <1>4 DEF StoreInv
<1>7. DoneInv(work', session'[n], registry'[n], gate')
  BY <1>4, <1>5 DEF DoneInv
<1>8. Apart(n)
  BY <1>1, <1>4, SameQueueApart
<1>. QED BY <1>1, <1>4, <1>5, <1>6, <1>7, <1>8, OneNodeStore

\* What the marks of the store do to a row of it.
LEMMA MarkedRow ==
  ASSUME NEW r \in Registry
  PROVE  /\ Implement(r) \in Registry /\ Implement(r).implemented
         /\ Implement(r).tests = r.tests /\ Implement(r).passed = r.passed
         /\ Implement(r).contract = r.contract
         /\ PassAll(r) \in Registry /\ PassAll(r).passed = r.tests
         /\ PassAll(r).tests = r.tests /\ PassAll(r).contract = r.contract
         /\ PassAll(r).implemented = r.implemented
BY DEF Implement, PassAll, Registry

\* The session of an implementation that is over.
LEMMA DoneSession ==
  ASSUME session \in [Node -> SessionRecord], NEW n \in Node
  PROVE  LET s == [session[n] EXCEPT !.implement = "completed", !.result = "CONVERGED"]
             t == [session[n] EXCEPT !.implement = "completed"]
         IN  /\ s \in SessionRecord /\ s.design = session[n].design
             /\ s.contract = session[n].contract /\ s.tests = session[n].tests
             /\ t \in SessionRecord /\ t.design = session[n].design
             /\ t.contract = session[n].contract /\ t.tests = session[n].tests
             /\ [session EXCEPT ![n].implement = "completed", ![n].result = "CONVERGED"] =
                  [session EXCEPT ![n] = s]
             /\ [session EXCEPT ![n].implement = "completed"] = [session EXCEPT ![n] = t]
BY DEF SessionRecord, ImplementStatus

\* A composition is done without tests.
LEMMA ImplementCompositionStore ==
  ASSUME QueueInv, StoresInv, ImplementComposition
  PROVE  StoresInv'
<1>. DEFINE n == work.node
            s == [session[n] EXCEPT !.implement = "completed", !.result = "CONVERGED"]
            r == Implement(registry[n])
<1>1. /\ At("IMPLEMENTATION", "run") /\ ~IsLeaf(n) /\ Go("done") /\ queue' = queue
      /\ registry' = [registry EXCEPT ![n] = r]
      /\ session' = [session EXCEPT ![n].implement = "completed", ![n].result = "CONVERGED"]
  BY DEF ImplementComposition
<1>2. /\ n \in Node /\ registry[n] \in Registry /\ session \in [Node -> SessionRecord]
      /\ StoreInv(queue, session[n], registry[n], work, n)
  BY <1>1, AtWork, StepNames DEF StoresInv
<1>3. /\ s \in SessionRecord /\ s.design = session[n].design
      /\ s.contract = session[n].contract /\ s.tests = session[n].tests
      /\ session' = [session EXCEPT ![n] = s]
  BY <1>1, <1>2, DoneSession
<1>4. /\ r \in Registry /\ r.tests = registry[n].tests /\ r.contract = registry[n].contract
      /\ r.implemented /\ r.passed = registry[n].passed
  BY <1>2, MarkedRow
<1>5. registry[n].passed = {} /\ registry[n].tests = {}
  BY <1>1, <1>2 DEF StoreInv
<1>. HIDE DEF s, r
<1>6. /\ Agree(session[n], registry[n]) => Agree(s, r)
      /\ r.passed \subseteq r.tests /\ r.passed = r.tests
  BY <1>3, <1>4, <1>5 DEF Agree
<1>. QED BY <1>1, <1>3, <1>4, <1>6, ImplementStepStore

\* Evidence that holds has every registered test marked as passed.
LEMMA ImplementByReuseStore ==
  ASSUME QueueInv, StoresInv, ImplementByReuse
  PROVE  StoresInv'
<1>. DEFINE n == work.node
            s == [session[n] EXCEPT !.implement = "completed", !.result = "CONVERGED"]
            r == PassAll(Implement(registry[n]))
<1>1. /\ At("IMPLEMENTATION", "run") /\ Go("done") /\ queue' = queue
      /\ registry' = [registry EXCEPT ![n] = r]
      /\ session' = [session EXCEPT ![n].implement = "completed", ![n].result = "CONVERGED"]
  BY DEF ImplementByReuse
<1>2. n \in Node /\ registry[n] \in Registry /\ session \in [Node -> SessionRecord]
  BY <1>1, AtWork, StepNames DEF StoresInv
<1>3. /\ s \in SessionRecord /\ s.design = session[n].design
      /\ s.contract = session[n].contract /\ s.tests = session[n].tests
      /\ session' = [session EXCEPT ![n] = s]
  BY <1>1, <1>2, DoneSession
<1>4. /\ r \in Registry /\ r.tests = registry[n].tests /\ r.contract = registry[n].contract
      /\ r.implemented /\ r.passed = r.tests
  BY <1>2, MarkedRow
<1>. HIDE DEF s, r
<1>5. /\ Agree(session[n], registry[n]) => Agree(s, r)
      /\ r.passed \subseteq r.tests
  BY <1>3, <1>4 DEF Agree
<1>. QED BY <1>1, <1>3, <1>4, <1>5, ImplementStepStore

\* Evidence that does not hold is dropped: without tests there is nothing to do.
LEMMA ImplementWithoutReuseStore ==
  ASSUME QueueInv, StoresInv, ImplementWithoutReuse
  PROVE  StoresInv'
<1>. DEFINE n == work.node
            old == registry[n]
            none == old.tests = {}
            res == IF session[n].reuse THEN "" ELSE session[n].result
            impl == IF none THEN "completed" ELSE session[n].implement
            s == [session[n] EXCEPT !.reuse = FALSE, !.result = res, !.implement = impl]
            r == IF none THEN Implement(old) ELSE old
            next == IF none THEN "done" ELSE "tdd"
<1>1. /\ At("IMPLEMENTATION", "run") /\ Go(next) /\ queue' = queue
      /\ registry' = [registry EXCEPT ![n] = r]
  BY DEF ImplementWithoutReuse
<1>2. /\ n \in Node /\ old \in Registry /\ session \in [Node -> SessionRecord]
      /\ session[n] \in SessionRecord
      /\ StoreInv(queue, session[n], old, work, n)
  BY <1>1, AtWork, StepNames DEF StoresInv
<1>3. session' = [session EXCEPT ![n] = s]
  BY <1>2 DEF ImplementWithoutReuse
<1>4. res \in {"", "CONVERGED"} /\ impl \in ImplementStatus
  BY <1>2 DEF SessionRecord, ImplementStatus
<1>5. old.passed \subseteq old.tests
  BY <1>2 DEF StoreInv
<1>. HIDE DEF res, impl
<1>6. /\ s \in SessionRecord /\ s.design = session[n].design
      /\ s.contract = session[n].contract /\ s.tests = session[n].tests
  BY <1>2, <1>4 DEF SessionRecord
<1>7. /\ r \in Registry /\ r.tests = old.tests /\ r.contract = old.contract
      /\ r.passed = old.passed /\ (none => r.implemented)
  BY <1>2, MarkedRow
<1>8. next \in {"tdd", "done"} /\ (next = "done" => none)
  OBVIOUS
<1>. HIDE DEF s, r, next
<1>9. /\ Agree(session[n], registry[n]) => Agree(s, r)
      /\ r.passed \subseteq r.tests
      /\ next = "done" => r.implemented /\ r.passed = r.tests
  BY <1>5, <1>6, <1>7, <1>8 DEF Agree
<1>. QED BY <1>1, <1>3, <1>6, <1>7, <1>8, <1>9, ImplementStepStore

\* The TDD loop records the tests that are stored as passed.
LEMMA TddPassesStore ==
  ASSUME QueueInv, StoresInv, TddPasses
  PROVE  StoresInv'
<1>. DEFINE n == work.node
            s == [session[n] EXCEPT !.implement = "completed"]
            r == PassAll(Implement(registry[n]))
<1>1. /\ At("IMPLEMENTATION", "tdd") /\ Go("done") /\ queue' = queue
      /\ registry' = [registry EXCEPT ![n] = r]
      /\ session' = [session EXCEPT ![n].implement = "completed"]
  BY DEF TddPasses
<1>2. n \in Node /\ registry[n] \in Registry /\ session \in [Node -> SessionRecord]
  BY <1>1, AtWork, StepNames DEF StoresInv
<1>3. /\ s \in SessionRecord /\ s.design = session[n].design
      /\ s.contract = session[n].contract /\ s.tests = session[n].tests
      /\ session' = [session EXCEPT ![n] = s]
  BY <1>1, <1>2, DoneSession
<1>4. /\ r \in Registry /\ r.tests = registry[n].tests /\ r.contract = registry[n].contract
      /\ r.implemented /\ r.passed = r.tests
  BY <1>2, MarkedRow
<1>. HIDE DEF s, r
<1>5. /\ Agree(session[n], registry[n]) => Agree(s, r)
      /\ r.passed \subseteq r.tests
  BY <1>3, <1>4 DEF Agree
<1>. QED BY <1>1, <1>3, <1>4, <1>5, ImplementStepStore

\* A TDD loop that gives up fails the stage.
LEMMA TddFailsStore ==
  ASSUME QueueInv, StoresInv, TddFails
  PROVE  StoresInv'
<1>. DEFINE n == work.node
            s == [session[n] EXCEPT !.implement = "failed"]
<1>1. At("IMPLEMENTATION", "tdd") /\ Fail
  BY DEF TddFails
<1>2. /\ work # Idle /\ work.stage = "IMPLEMENTATION"
      /\ n \in Node /\ registry[n] \in Registry /\ session[n] \in SessionRecord
      /\ session \in [Node -> SessionRecord] /\ registry \in [Node -> Registry]
  BY <1>1, AtWork, StepNames DEF StoresInv
<1>3. PICK passed \in SUBSET registry[n].tests :
        registry' = [registry EXCEPT ![n].passed = passed]
  BY DEF TddFails
<1>. DEFINE r == [registry[n] EXCEPT !.passed = passed]
<1>4. session' = [session EXCEPT ![n] = s] /\ registry' = [registry EXCEPT ![n] = r]
  BY <1>3 DEF TddFails
<1>5. /\ s \in SessionRecord /\ s.design = session[n].design
      /\ s.contract = session[n].contract /\ s.tests = session[n].tests
  BY <1>2 DEF SessionRecord, ImplementStatus
<1>6. /\ r \in Registry /\ r.tests = registry[n].tests /\ r.contract = registry[n].contract
      /\ r.passed \subseteq registry[n].tests
  BY <1>2 DEF Registry
<1>. HIDE DEF s, r
<1>7. /\ session' \in [Node -> SessionRecord] /\ session'[n] = s
      /\ registry' \in [Node -> Registry] /\ registry'[n] = r
      /\ \A m \in Node \ {n} : session'[m] = session[m] /\ registry'[m] = registry[m]
  BY <1>2, <1>4, <1>5, <1>6
<1>8. ~Writing(work, n)
  BY <1>2 DEF Writing
<1>. QED BY <1>1, <1>2, <1>5, <1>6, <1>7, <1>8, FailWithStore

\* Every step of the implementation keeps the stores in order.
LEMMA ImplementStore ==
  ASSUME QueueInv, StoresInv, ImplementStage
  PROVE  StoresInv'
BY ImplementCompositionStore, ImplementByReuseStore, ImplementWithoutReuseStore,
   TddPassesStore, TddFailsStore DEF ImplementStage

-----------------------------------------------------------------------------
(* Start, publication, death and retry *)

\* The session a design starts from.
LEMMA ResetTyped ==
  ASSUME NEW s \in SessionRecord
  PROVE  /\ Reset(s) \in SessionRecord /\ Reset(s).design = "pending"
         /\ Reset(s).contract = s.contract /\ Reset(s).tests = s.tests
         /\ Reset(s).baseline = s.baseline
BY DEF Reset, SessionRecord, DesignStatus, ImplementStatus

\* A stage that starts resets what it is about to make.
LEMMA StartStore ==
  ASSUME QueueInv, StoresInv, NEW n \in Node, NEW formal \in FormalStage, Start(n, formal)
  PROVE  StoresInv'
<1>. DEFINE s == session[n]
            t == [s EXCEPT !.implement = "in_progress"]
<1>1. /\ queue \in Queue /\ RowInv(queue, n) /\ work = Idle /\ registry' = registry
      /\ session \in [Node -> SessionRecord] /\ registry \in [Node -> Registry]
      /\ s \in SessionRecord /\ StoreInv(queue, s, registry[n], work, n)
  BY DEF QueueInv, StoresInv, Start
<1>2. /\ Elsewhere(queue, queue', n)
      /\ queue'.state[n] = StartedState(queue, n, formal)
      /\ \A u \in FormalStage :
           queue'.stage[n][u] = IF u = formal THEN "RUNNING" ELSE queue.stage[n][u]
      /\ work' = [node |-> n, stage |-> formal, step |-> "run"]
  BY <1>1, StartIs
<1>3. /\ queue.stage[n][formal] = "PENDING"
      /\ formal = "IMPLEMENTATION" => TestRow(queue, n) \in TerminalSuccess
  BY StartNeeds
<1>4. TestRow(queue', n) = IF formal = "TEST_GENERATION" THEN "RUNNING" ELSE TestRow(queue, n)
  BY <1>2, FormalNames DEF TestRow
<1>5. work'.node = n /\ work'.step = "run" /\ ~Writing(work, n)
  BY <1>1, <1>2, IdleIs DEF Writing
<1>6. DoneInv(work', session'[n], registry'[n], gate')
  BY <1>5 DEF DoneInv
<1>7. t \in SessionRecord /\ t.design = s.design /\ t.contract = s.contract /\ t.tests = s.tests
  BY <1>1 DEF SessionRecord, ImplementStatus
<1>8. /\ formal = "INTERFACE_DESIGN" => session' = [session EXCEPT ![n] = Reset(s)]
      /\ formal = "TEST_GENERATION" => session' = session
      /\ formal = "IMPLEMENTATION" =>
           session' = [session EXCEPT ![n] = t] \/ session' = session
  BY DEF Start
<1>. HIDE DEF t
<1>9. /\ session' \in [Node -> SessionRecord]
      /\ \A m \in Node \ {n} : session'[m] = session[m]
      /\ formal = "INTERFACE_DESIGN" => session'[n].design = "pending"
      /\ formal # "INTERFACE_DESIGN" =>
           /\ session'[n].design = s.design /\ session'[n].contract = s.contract
           /\ session'[n].tests = s.tests
  BY <1>1, <1>7, <1>8, ResetTyped, FormalNames
<1>10. StoreInv(queue', session'[n], registry'[n], work', n)
  <2>1. CASE formal = "INTERFACE_DESIGN"
    <3>1. ~(IsLeaf(n) /\ TestRow(queue, n) = "PUBLISHED")
      BY <1>1, <1>3, <2>1, FormalNames DEF RowInv, InterfaceRow
    <3>2. queue'.state[n] = "DESIGNING"
      BY <1>2, <2>1 DEF StartedState
    <3>. QED BY <1>1, <1>4, <1>9, <2>1, <3>1, <3>2 DEF StoreInv
  <2>2. CASE formal = "TEST_GENERATION"
    <3>1. queue'.state[n] = queue.state[n] /\ TestRow(queue, n) = "PENDING"
      BY <1>2, <1>3, <2>2 DEF StartedState, TestRow
    <3>. QED BY <1>1, <1>4, <1>5, <1>9, <2>2, <3>1 DEF StoreInv
  <2>3. CASE formal = "IMPLEMENTATION"
    <3>1. queue'.state[n] = "IMPLEMENTING"
      BY <1>2, <2>3 DEF StartedState
    <3>. QED BY <1>1, <1>3, <1>4, <1>5, <1>9, <2>3, <3>1, FormalNames DEF StoreInv, Agree
  <2>. QED BY <2>1, <2>2, <2>3, FormalNames
<1>11. Apart(n)
  BY <1>1, <1>2, <1>9 DEF Apart
<1>. QED BY <1>1, <1>5, <1>6, <1>9, <1>10, <1>11, OneNodeStore

\* What a publication says of a node, its stage has established.
LEMMA PublishStore ==
  ASSUME QueueInv, StoresInv, Publish
  PROVE  StoresInv'
<1>. DEFINE n == work.node
            formal == work.stage
            r == IF session[n].result = "CONVERGED" THEN "CONVERGED" ELSE "PASSED"
<1>1. /\ n \in Node /\ formal \in FormalStage /\ work \in Work
      /\ Elsewhere(queue, queue', n) /\ work' = Idle
      /\ queue'.state[n] = PublishedNodeState(queue, n, formal, r)
      /\ \A u \in FormalStage :
           queue'.stage[n][u] = IF u = formal THEN "PUBLISHED" ELSE queue.stage[n][u]
  BY PublishIs
<1>2. work.step = "done" /\ work # Idle /\ UNCHANGED <<session, registry>>
  BY IdleIs DEF Publish
<1>3. /\ session \in [Node -> SessionRecord] /\ registry \in [Node -> Registry]
      /\ StoreInv(queue, session[n], registry[n], work, n)
      /\ DoneInv(work, session[n], registry[n], gate)
  BY <1>1, <1>2 DEF StoresInv
<1>4. /\ formal = "INTERFACE_DESIGN" => queue.state[n] = "DESIGNING"
      /\ formal = "IMPLEMENTATION" => TestRow(queue, n) \in TerminalSuccess
  BY <1>2 DEF QueueInv, WorkInv
<1>5. TestRow(queue', n) = IF formal = "TEST_GENERATION" THEN "PUBLISHED" ELSE TestRow(queue, n)
  BY <1>1, FormalNames DEF TestRow
<1>6. ~Writing(work, n)
  BY <1>2 DEF Writing
<1>. HIDE DEF r
<1>7. StoreInv(queue', session'[n], registry'[n], work', n)
  <2>1. CASE formal = "INTERFACE_DESIGN"
    <3>1. queue'.state[n] = IF IsLeaf(n) THEN "DESIGNING" ELSE "DESIGNED"
      BY <1>1, <1>4, <2>1 DEF PublishedNodeState
    <3>. QED BY <1>2, <1>3, <1>5, <1>6, <2>1, <3>1 DEF StoreInv
  <2>2. CASE formal = "TEST_GENERATION"
    <3>1. queue'.state[n] = "DESIGNED"
      BY <1>1, <2>2 DEF PublishedNodeState
    <3>2. session[n].design = "completed" /\ Agree(session[n], registry[n])
      BY <1>2, <1>3, <2>2 DEF DoneInv
    <3>. QED BY <1>2, <1>3, <1>5, <1>6, <2>2, <3>1, <3>2 DEF StoreInv
  <2>3. CASE formal = "IMPLEMENTATION"
    <3>1. registry[n].implemented /\ registry[n].passed = registry[n].tests
      BY <1>2, <1>3, <2>3 DEF DoneInv
    <3>. QED BY <1>2, <1>3, <1>4, <1>5, <1>6, <2>3, <3>1, FormalNames DEF StoreInv
  <2>. QED BY <1>1, <2>1, <2>2, <2>3, FormalNames
<1>8. Apart(n)
  BY <1>1, <1>2 DEF Apart
<1>. QED BY <1>1, <1>2, <1>3, <1>7, <1>8, OneNodeStore

\* What an interruption leaves of a session.
LEMMA InterruptedSession ==
  ASSUME NEW s \in SessionRecord, NEW state
  PROVE  /\ Interrupted(s, state) \in SessionRecord
         /\ state = "DESIGNING" => Interrupted(s, state).design = "interrupted"
         /\ state # "DESIGNING" => Interrupted(s, state).design = s.design
         /\ Interrupted(s, state).contract = s.contract
         /\ Interrupted(s, state).tests = s.tests
<1>1. CASE state = "DESIGNING"
  BY <1>1 DEF Interrupted, SessionRecord, DesignStatus
<1>2. CASE state = "IMPLEMENTING"
  BY <1>2 DEF Interrupted, SessionRecord, ImplementStatus
<1>3. CASE state \notin {"DESIGNING", "IMPLEMENTING"}
  BY <1>3 DEF Interrupted
<1>. QED BY <1>1, <1>2, <1>3

\* A recovery writes the sessions of the nodes it interrupts, and no row of the store.
LEMMA CrashStore ==
  ASSUME QueueInv, StoresInv, CrashAndResume
  PROVE  StoresInv'
<1>1. /\ queue \in Queue /\ session \in [Node -> SessionRecord] /\ registry \in [Node -> Registry]
      /\ registry' = registry
      /\ session' = [m \in Node |-> Interrupted(session[m], queue.state[m])]
  BY DEF QueueInv, StoresInv, CrashAndResume
<1>2. /\ work' = Idle
      /\ \A m \in Node :
           /\ queue'.state[m] =
                IF queue.state[m] = "DESIGNING" THEN "UNSEEN"
                ELSE IF queue.state[m] = "IMPLEMENTING" THEN "DESIGNED" ELSE queue.state[m]
           /\ \A u \in FormalStage : queue'.stage[m][u] = RowsRecovered(queue, m, u)
  BY <1>1, CrashIs
<1>3. session' \in [Node -> SessionRecord]
  BY <1>1, InterruptedSession
<1>4. ASSUME NEW m \in Node
      PROVE  StoreInv(queue', session'[m], registry'[m], work', m)
  <2>1. RowInv(queue, m) /\ StoreInv(queue, session[m], registry[m], work, m)
    BY DEF QueueInv, StoresInv
  <2>2. /\ queue.state[m] = "DESIGNING" => session'[m].design = "interrupted"
        /\ queue.state[m] # "DESIGNING" => session'[m].design = session[m].design
        /\ session'[m].contract = session[m].contract /\ session'[m].tests = session[m].tests
    BY <1>1, InterruptedSession
  <2>3. queue'.state[m] = "CONVERGED" => queue.state[m] = "CONVERGED"
    BY <1>2
  <2>4. TestRow(queue', m) = RowsRecovered(queue, m, "TEST_GENERATION")
    BY <1>2, FormalNames DEF TestRow
  <2>5. TestRow(queue', m) = "PUBLISHED" => TestRow(queue, m) = "PUBLISHED"
    BY <2>4, FreshFormal DEF RowsRecovered, Restarted, TestRow
  <2>6. CASE queue.state[m] = "DESIGNING"
    <3>1. ~(IsLeaf(m) /\ TestRow(queue', m) = "PUBLISHED")
      BY <2>1, <2>5, <2>6 DEF RowInv
    <3>. QED BY <1>1, <2>1, <2>2, <2>3, <2>6, <3>1 DEF StoreInv
  <2>7. CASE queue.state[m] # "DESIGNING"
    <3>1. ASSUME IsLeaf(m), session[m].design = "prepared"
          PROVE  ~Writing(work, m) /\ TestRow(queue', m) \notin {"PENDING", "RUNNING"}
      <4>1. TestRow(queue, m) \notin {"PENDING", "RUNNING"}
        BY <2>1, <2>7, <3>1 DEF StoreInv
      <4>2. TestRow(queue', m) = TestRow(queue, m)
        BY <2>4, <2>7, <4>1 DEF RowsRecovered, Restarted, TestRow, DesignStages
      <4>3. ~Writing(work, m)
        BY <2>7, <4>1, IdleIs DEF Writing, QueueInv, WorkInv, TestRow
      <4>. QED BY <4>1, <4>2, <4>3
    <3>. QED BY <1>1, <2>1, <2>2, <2>3, <2>5, <2>7, <3>1 DEF StoreInv, Agree
  <2>. QED BY <2>6, <2>7
<1>. QED BY <1>1, <1>2, <1>3, <1>4 DEF StoresInv

\* What a retry leaves of a session and of the rows in the store.
LEMMA RetriedTyped ==
  ASSUME NEW s \in SessionRecord, NEW r \in Registry, NEW k \in ResetKind
  PROVE  LET t == ResetSession(s, k)
             z == ResetRegistry(r, k)
         IN  /\ t \in SessionRecord /\ z \in Registry
             /\ k = "implement" => /\ t.design = s.design /\ t.contract = s.contract
                                   /\ t.tests = s.tests /\ z.tests = r.tests
                                   /\ z.contract = r.contract /\ z.passed = {}
             /\ k = "full" => t.design = "pending" /\ z = r
             /\ k = "design" => t.design = "pending" /\ z.tests = {} /\ z.passed = {}
<1>. DEFINE base == Merged(s.baseline, [f \in {} |-> "unrun"])
<1>1. base \in [SuiteFile -> RunState]
  BY DEF Merged, SessionRecord
<1>2. Reset(s) \in SessionRecord /\ Reset(s).design = "pending" /\ Reset(s).baseline = s.baseline
  BY ResetTyped
<1>. HIDE DEF base
<1>3. CASE k = "implement"
  <2>1. ResetSession(s, k) = [s EXCEPT !.implement = "pending", !.result = "", !.baseline = base]
    BY <1>3 DEF ResetSession, base
  <2>2. ResetRegistry(r, k) = [r EXCEPT !.passed = {}]
    BY <1>3 DEF ResetRegistry
  <2>. QED BY <1>1, <1>3, <2>1, <2>2 DEF SessionRecord, Registry, ImplementStatus
<1>4. CASE k = "full"
  <2>1. ResetSession(s, k) = [Reset(s) EXCEPT !.baseline = base]
    BY <1>2, <1>4 DEF ResetSession, base
  <2>2. ResetRegistry(r, k) = r
    BY <1>4 DEF ResetRegistry
  <2>. QED BY <1>1, <1>2, <1>4, <2>1, <2>2 DEF SessionRecord
<1>5. CASE k = "design"
  <2>1. ResetSession(s, k) = [Reset(s) EXCEPT !.contract = "none", !.tests = {}, !.baseline = base]
    BY <1>2, <1>5 DEF ResetSession, base
  <2>2. ResetRegistry(r, k) = EmptyRegistry
    BY <1>5 DEF ResetRegistry
  <2>3. EmptyRegistry \in Registry /\ EmptyRegistry.tests = {} /\ EmptyRegistry.passed = {}
    BY DEF Registry, EmptyRegistry, Contract
  <2>. DEFINE t == Reset(s)
  <2>4. t \in SessionRecord /\ t.design = "pending"
    BY <1>2
  <2>. HIDE DEF t
  <2>5. [t EXCEPT !.contract = "none", !.tests = {}, !.baseline = base] \in SessionRecord
    BY <1>1, <2>4 DEF SessionRecord, Contract
  <2>6. [t EXCEPT !.contract = "none", !.tests = {}, !.baseline = base].design = "pending"
    BY <2>4 DEF SessionRecord
  <2>7. ResetSession(s, k) \in SessionRecord /\ ResetSession(s, k).design = "pending"
    BY <2>1, <2>5, <2>6 DEF t
  <2>. QED BY <1>5, <2>2, <2>3, <2>7
<1>. QED BY <1>3, <1>4, <1>5 DEF ResetKind

\* A retry resets the stores with the rows of the queue.
LEMMA RetryStore ==
  ASSUME QueueInv, StoresInv, NEW n \in Node, Retry(n)
  PROVE  StoresInv'
<1>. DEFINE k == RetryKind(queue, n)
            t == ResetSession(session[n], k)
            z == ResetRegistry(registry[n], k)
<1>1. /\ Elsewhere(queue, queue', n) /\ work = Idle /\ work' = Idle
      /\ queue'.state[n] = IF k = "implement" THEN "DESIGNED" ELSE "UNSEEN"
      /\ \A u \in FormalStage : queue'.stage[n][u] =
           IF k = "full" \/ (k = "implement" <=> u = "IMPLEMENTATION")
           THEN FreshStatus(n, u) ELSE queue.stage[n][u]
  BY RetryIs
<1>2. /\ session \in [Node -> SessionRecord] /\ registry \in [Node -> Registry]
      /\ session[n] \in SessionRecord /\ registry[n] \in Registry
      /\ StoreInv(queue, session[n], registry[n], work, n)
  BY DEF StoresInv
<1>3. k \in ResetKind
  BY RetryKindType
<1>4. /\ queue.state[n] # "DESIGNING"
      /\ session' = [session EXCEPT ![n] = t] /\ registry' = [registry EXCEPT ![n] = z]
  BY DEF Retry, CompletedStates
<1>5. /\ t \in SessionRecord /\ z \in Registry
      /\ k = "implement" => /\ t.design = session[n].design /\ t.contract = session[n].contract
                            /\ t.tests = session[n].tests /\ z.tests = registry[n].tests
                            /\ z.contract = registry[n].contract /\ z.passed = {}
      /\ k = "full" => t.design = "pending" /\ z = registry[n]
      /\ k = "design" => t.design = "pending" /\ z.tests = {} /\ z.passed = {}
  BY <1>2, <1>3, RetriedTyped
<1>. HIDE DEF k, t, z
<1>6. /\ session' \in [Node -> SessionRecord] /\ session'[n] = t
      /\ registry' \in [Node -> Registry] /\ registry'[n] = z
      /\ \A m \in Node \ {n} : session'[m] = session[m] /\ registry'[m] = registry[m]
  BY <1>2, <1>4, <1>5
<1>7. ~Writing(work, n)
  BY <1>1, IdleIs DEF Writing
<1>8. StoreInv(queue', session'[n], registry'[n], work', n)
  <2>1. CASE k = "implement"
    <3>1. TestRow(queue', n) = TestRow(queue, n) /\ queue'.state[n] = "DESIGNED"
      BY <1>1, <2>1, FormalNames DEF TestRow
    <3>. QED BY <1>2, <1>4, <1>5, <1>6, <1>7, <2>1, <3>1 DEF StoreInv, Agree
  <2>2. CASE k # "implement"
    <3>1. /\ TestRow(queue', n) = IF IsLeaf(n) THEN "PENDING" ELSE "SKIPPED"
          /\ queue'.state[n] = "UNSEEN"
      BY <1>1, <2>2, FormalNames, FreshFormal DEF TestRow
    <3>2. t.design = "pending" /\ z.passed \subseteq z.tests /\ (~IsLeaf(n) => z.tests = {})
      BY <1>2, <1>3, <1>5, <2>2 DEF StoreInv, ResetKind
    <3>. QED BY <1>6, <3>1, <3>2 DEF StoreInv
  <2>. QED BY <2>1, <2>2
<1>9. Apart(n)
  BY <1>1, <1>6 DEF Apart
<1>. QED BY <1>1, <1>6, <1>8, <1>9, OneNodeStore

-----------------------------------------------------------------------------
(* The theorems *)

\* The inductive invariant.
PhasesInv == QueueInv /\ GateInv /\ StoresInv

\* The invariant holds at first ...
LEMMA PhasesInvInit == Init => PhasesInv
<1>. SUFFICES ASSUME Init PROVE PhasesInv
  OBVIOUS
<1>1. QueueInv
  BY QueueInvInit
<1>2. /\ session = [n \in Node |-> EmptySession] /\ registry = [n \in Node |-> EmptyRegistry]
      /\ work = Idle /\ gate = NoGate
  BY DEF Init
<1>3. GateInv
  BY <1>2, NoGateTyped, IdleIs DEF GateInv, RenameDoesNotEscape, At
<1>4. EmptySession \in SessionRecord
  <2>1. Unknown \in [SuiteFile -> RunState]
    BY DEF Unknown, RunState
  <2>. QED BY <2>1 DEF EmptySession, SessionRecord, DesignStatus, ImplementStatus, Contract
<1>5. EmptyRegistry \in Registry
  BY DEF EmptyRegistry, Registry, Contract
<1>6. ASSUME NEW n \in Node
      PROVE  StoreInv(queue, session[n], registry[n], work, n)
  <2>1. queue.state[n] = "UNSEEN" /\ TestRow(queue, n) = FreshStatus(n, "TEST_GENERATION")
    <3>1. /\ queue.state = FreshQueue.state
          /\ \A u \in FormalStage : queue.stage[n][u] = FreshQueue.stage[n][u]
      BY FreshQueueType, WithoutVisualIs DEF Init
    <3>. QED BY <3>1, FormalNames DEF FreshQueue, FreshRow, TestRow
  <2>2. TestRow(queue, n) # "PUBLISHED"
    BY <2>1, FreshFormal
  <2>. QED BY <1>2, <2>1, <2>2 DEF StoreInv, EmptySession, EmptyRegistry
<1>. QED BY <1>1, <1>2, <1>3, <1>4, <1>5, <1>6 DEF PhasesInv, StoresInv

\* ... is kept by every step ...
LEMMA PhasesInvNext == PhasesInv /\ [Next]_vars => PhasesInv'
<1>. SUFFICES ASSUME PhasesInv, [Next]_vars PROVE PhasesInv'
  OBVIOUS
<1>1. QueueInv /\ GateInv /\ StoresInv
  BY DEF PhasesInv
<1>2. QueueInv' /\ GateInv'
  BY <1>1, QueueInvNext, GateInvNext
<1>3. StoresInv'
  <2>1. CASE \E n \in Node, s \in FormalStage : Start(n, s)
    BY <1>1, <2>1, StartStore
  <2>2. CASE InterfaceStage \/ TestStage \/ ImplementStage
    BY <1>1, <2>2, InterfaceStore, TestStore, ImplementStore
  <2>3. CASE Publish
    BY <1>1, <2>3, PublishStore
  <2>4. CASE PublicationFails
    BY <1>1, <2>4, IdleIs, FailStore DEF PublicationFails, Writing
  <2>5. CASE CrashAndResume
    BY <1>1, <2>5, CrashStore
  <2>6. CASE \E n \in Node : Retry(n)
    BY <1>1, <2>6, RetryStore
  <2>7. CASE UNCHANGED vars
    BY <1>1, <2>7 DEF vars, StoresInv
  <2>. QED BY <2>1, <2>2, <2>3, <2>4, <2>5, <2>6, <2>7 DEF Next
<1>. QED BY <1>2, <1>3 DEF PhasesInv

\* ... and so holds throughout.
LEMMA PhasesInvariance == Spec => []PhasesInv
<1>. QED BY PhasesInvInit, PhasesInvNext, PTL DEF Spec

\* The queue, the session files, the rows of the store and the gate of the phases
\* keep their types.
THEOREM PhaseTypesCorrect ==
  Spec => [](queue \in Queue /\ session \in [Node -> SessionRecord]
             /\ registry \in [Node -> Registry] /\ gate \in Gate)
<1>1. PhasesInv => /\ queue \in Queue /\ session \in [Node -> SessionRecord]
                   /\ registry \in [Node -> Registry] /\ gate \in Gate
  BY DEF PhasesInv, QueueInv, GateInv, StoresInv
<1>. QED BY <1>1, PhasesInvariance, PTL

\* When the baseline gate of _generate_tests ends, no file of the manifest it began
\* with has left it by a new name: the property RenameDoesNotEscape.
THEOREM RenamesAreCaught == Spec => []RenameDoesNotEscape
<1>1. PhasesInv => RenameDoesNotEscape
  BY DEF PhasesInv, GateInv
<1>. QED BY <1>1, PhasesInvariance, PTL

\* A leaf whose tests are published has in the store what its session file says,
\* whatever stages failed, were retried or killed: the property RegisteredIsPublished.
THEOREM PublishedDesignsAgree == Spec => []RegisteredIsPublished
<1>1. PhasesInv => RegisteredIsPublished
  BY DEF PhasesInv, StoresInv, StoreInv, Agree, TestRow, RegisteredIsPublished
<1>. QED BY <1>1, PhasesInvariance, PTL

\* A node is converged only with all its registered tests passed: the property
\* ConvergedIsCovered.
THEOREM ConvergedNodesAreCovered == Spec => []ConvergedIsCovered
<1>1. PhasesInv => ConvergedIsCovered
  BY DEF PhasesInv, StoresInv, StoreInv, ConvergedIsCovered
<1>. QED BY <1>1, PhasesInvariance, PTL
=============================================================================
