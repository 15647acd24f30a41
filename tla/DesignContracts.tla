--------------------------- MODULE DesignContracts ---------------------------
(***************************************************************************)
(* The pass of the interface designer over one node and the verdict on it  *)
(* (agents/interface_designer.py run, agents/design/contract_skeleton.py,  *)
(* core/phases.py): the session that writes the skeleton files, the        *)
(* repairs of an answer without contract records, of records without a     *)
(* type and of a backend that does not boot, and the gates in front of the *)
(* traceability store.                                                     *)
(*                                                                         *)
(* A row is a contract that can be read off a written file; several tables *)
(* of one schema module are several rows of one file.  A record is what    *)
(* the model answers for a contract.  Prose, prompts and the texts of the  *)
(* records are left out: a record is blank or not.  Any session may write  *)
(* files, whatever it is asked.                                            *)
(***************************************************************************)
EXTENDS Naturals, FiniteSets

CONSTANTS
  Row,           \* the contracts the files can embody
  File,          \* the files the pass may write
  FileOf,        \* [row -> the file it is derived from]
  Minted,        \* an id the model makes up for a contract of its own
  Foreign,       \* the contract of a parent or dependency
  BatchSize,     \* rows per retry of the fill
  RepairRounds,  \* DESIGN_BOOT_SMOKE_REPAIR_ROUNDS
  BootSmoke      \* the smoke is on, and there is a backend to boot

ASSUME DesignAssumption ==
  /\ FileOf \in [Row -> File]
  /\ Minted \notin Row /\ Foreign \notin Row /\ Minted # Foreign
  /\ BatchSize \in Nat \ {0} /\ RepairRounds \in Nat /\ BootSmoke \in BOOLEAN

VARIABLES
  step,          \* where the pass is, and how it ended
  leaf,          \* the node has no children
  materialized,  \* files the discipline had seen written at the first answer
  claimed,       \* the answer lists files_written, though none was seen written
  seen,          \* the discipline has seen a write
  boots,         \* the backend of the workspace starts
  merged,        \* the records of the skeleton fill so far
  todo,          \* rows the batches of its retry still ask for
  cards,         \* the contracts of the bundle: none, typed, untyped
  rounds         \* boot repairs asked for

repairVars == <<merged, todo, rounds>>
contractVars == <<step, leaf, materialized, claimed, seen, boots, cards, repairVars>>

\* The files that embody contracts; the path of a record matters only there.
Contractual == {FileOf[r] : r \in Row}

\* A record of a row, of a made-up id that tells no type, of a reused contract.
\* That it is reused is said by its relation, or only by the owner it names.
\* Records that the fill would drop at once (no known id and no path, a blank
\* one of a made-up id) are no records here.
OwnRecord(r, filled) ==
  [id |-> r, path |-> FileOf[r], filled |-> filled, typed |-> TRUE, reused |-> "no"]
MintedRecords ==
  [id : {Minted}, path : Contractual, filled : {TRUE}, typed : {FALSE}, reused : {"no"}]
ForeignRecords ==
  [id : {Foreign}, path : Contractual, filled : {TRUE}, typed : {TRUE},
   reused : {"relation", "owner"}]

AtMostOne(S) == {{}} \cup {{x} : x \in S}

Answers ==
  {{OwnRecord(r, said[r] = "filled") : r \in {x \in Row : said[x] # "absent"}} \cup m \cup f :
     said \in [Row -> {"absent", "blank", "filled"}],
     m \in AtMostOne(MintedRecords), f \in AtMostOne(ForeignRecords)}

\* What a bundle keeps of an answer.
CardsOf(records) ==
  IF records = {} THEN "none"
  ELSE IF \A x \in records : x.typed THEN "typed" ELSE "untyped"

Evidence == materialized # {} \/ claimed

\* derive_contract_skeletons of what was materialized.
Skeletons == {r \in Row : FileOf[r] \in materialized}

-----------------------------------------------------------------------------
ContractsInit ==
  /\ step = "session" /\ leaf \in BOOLEAN
  /\ materialized = {} /\ claimed = FALSE /\ seen = FALSE
  /\ boots = TRUE
  /\ merged = {} /\ todo = {} /\ cards = "none" /\ rounds = 0

\* _normalize_with_recovery: records that the structured answer lacks are taken
\* from the JSON in its summary, but only if a write was seen, and from the
\* final message when there is no structured answer at all.
Recovered(kind, form) == IF form = "summary" /\ ~seen' THEN "none" ELSE kind

\* A session of the agent may write.  Nobody sees the writes of an agent that
\* was rebuilt for a narrower answer: it has a discipline of its own.
Session == boots' \in BOOLEAN /\ seen' \in {seen, TRUE}

\* The answer has records of some kind, perhaps in the wrong place.
Answered ==
  \E kind \in {"none", "typed", "untyped"}, form \in {"fields", "summary"} :
    cards' = Recovered(kind, form)

\* run up to the first bundle; without records it is repaired from what the
\* pass has written, or claims to have written.
FirstSession ==
  /\ step = "session"
  /\ materialized' \in SUBSET File
  /\ claimed' \in IF materialized' = {} THEN BOOLEAN ELSE {FALSE}
  /\ seen' = (materialized' # {})
  /\ boots' \in IF seen' THEN BOOLEAN ELSE {boots}
  /\ Answered
  /\ step' = IF cards' # "none" THEN "types"
             ELSE IF \E r \in Row : FileOf[r] \in materialized' THEN "fill"
             ELSE IF materialized' # {} \/ claimed' THEN "reask" ELSE "reuse"
  /\ UNCHANGED <<leaf, repairVars>>

\* The sessions whose exceptions leave the pass.  No session is run twice: only
\* a stream refused before its first event is replaced by a plain invocation
\* (_try_astream_stage_agent).
SessionRaises ==
  /\ step \in {"session", "reask"}
  /\ step' = "raised"
  /\ UNCHANGED <<leaf, materialized, claimed, seen, boots, cards, repairVars>>

-----------------------------------------------------------------------------
(* Contracts for the files: _repair_empty_interfaces *)

Reused(x) == x.reused # "no"

\* Variant for testing SoleRowsRecorded: a reused record counts by its path.
CoveredByPath(records, r) ==
  \E x \in records : x.id = r \/ x.path = FileOf[r]

\* _find_filled_record: by id, or by the path of a record of this node.
Covered(records, r) ==
  \E x \in records : x.id = r \/ (x.path = FileOf[r] /\ ~Reused(x))

\* The records a row may be matched with when none has its id: the first one
\* with its path, in the order of the answer, unless its relation is reuse.
ByPath(answer, f) == {x \in answer : x.path = f /\ x.reused # "relation"}

\* merge_filled_contracts over the rows that were asked for: every row takes
\* the words of its record, of a reused one never; records that filled no row
\* stay if they have words.  Blank ones are dropped (_drop_blank_records).
Merge(rows, answer, first) ==
  LET named(r) == {x \in answer : x.id = r}
      source(r) == {x \in IF named(r) # {} THEN named(r) ELSE first[FileOf[r]] : ~Reused(x)}
      consumed == UNION {source(r) : r \in rows}
  IN {OwnRecord(r, TRUE) : r \in {s \in rows : \E x \in source(s) : x.filled}}
     \cup {x \in answer \ consumed : x.filled}

\* The orders of an answer, as far as they matter: the first record per path.
Firsts(a) ==
  {c \in [Contractual -> AtMostOne(a)] :
     \A f \in Contractual : c[f] \subseteq ByPath(a, f) /\ (c[f] = {} => ByPath(a, f) = {})}

\* What one pass of the fill over some rows can return.  An answer that breaks
\* the schema is salvaged; a session that fails otherwise has answered nothing.
Fills ==
  UNION {{[rows |-> rows, records |-> Merge(rows, a, first)] : first \in Firsts(a)} :
           rows \in SUBSET Row, a \in Answers}

FillsOf(rows) == {fill.records : fill \in {x \in Fills : x.rows = rows}}

Gaps(rows, records) == {r \in rows : ~Covered(records, r)}

\* _mechanical_records
Mechanical(rows) == {OwnRecord(r, TRUE) : r \in rows}

\* Variant for testing NeverBlind: rows are recorded only beside answered ones.
MechanicalBeside(records, gaps) ==
  IF records = {} THEN {} ELSE records \cup Mechanical(gaps)

WithMechanical(records, gaps) == records \cup Mechanical(gaps)

\* The fill is over: what the retry left open is recorded mechanically.
Filled(records, gaps) ==
  /\ step' = "types"
  /\ merged' = WithMechanical(records, gaps)
  /\ cards' = CardsOf(merged')
  /\ todo' = {}

FillAll ==
  /\ step = "fill" /\ Session
  /\ \E records \in FillsOf(Skeletons) :
       LET gaps == Gaps(Skeletons, records)
       IN IF gaps = {} THEN Filled(records, {})
          ELSE step' = "batches" /\ merged' = records /\ todo' = gaps /\ UNCHANGED cards
  /\ UNCHANGED <<leaf, materialized, claimed, rounds>>

\* One batch of the retry over the gaps.
FillBatch ==
  /\ step = "batches" /\ Session
  /\ \E batch \in SUBSET todo :
       /\ Cardinality(batch) = IF Cardinality(todo) < BatchSize THEN Cardinality(todo) ELSE BatchSize
       /\ \E records \in FillsOf(batch) :
            IF batch = todo
            THEN Filled(merged \cup records, Gaps(Skeletons, merged \cup records))
            ELSE /\ merged' = merged \cup records
                 /\ todo' = todo \ batch
                 /\ UNCHANGED <<step, cards>>
  /\ UNCHANGED <<leaf, materialized, claimed, rounds>>

\* No row to go by: the question is asked again on the same thread.
AskAgain ==
  /\ step = "reask" /\ Session /\ Answered
  /\ step' = "types"
  /\ UNCHANGED <<leaf, materialized, claimed, repairVars>>

\* _repair_reuse_only_interfaces: a leaf that wrote nothing is offered the
\* contracts of its parent and dependencies.
AskForReuse ==
  /\ step = "reuse" /\ leaf
  /\ Session /\ Answered
  /\ step' = "types"
  /\ UNCHANGED <<leaf, materialized, claimed, repairVars>>

\* _leaf_reuse_candidates finds none: the node is no leaf, none is registered,
\* or the store cannot be read; and a session that fails has answered nothing.
NoReuse ==
  /\ step = "reuse"
  /\ step' = "types"
  /\ UNCHANGED <<leaf, materialized, claimed, seen, boots, cards, repairVars>>

-----------------------------------------------------------------------------
(* Types, the boot smoke and the verdict *)

\* _repair_missing_interface_types: one question, whose failure is swallowed.
AskForTypes ==
  /\ step = "types" /\ step' = "smoke"
  /\ IF cards = "untyped" THEN Session /\ cards' \in {"typed", "untyped"}
                          ELSE UNCHANGED <<boots, cards, seen>>
  /\ merged' = {}
  /\ UNCHANGED <<leaf, materialized, claimed, todo, rounds>>

Smoked == Evidence /\ BootSmoke

SmokePasses ==
  /\ step = "smoke" /\ (Smoked => boots)
  /\ step' = "returned"
  /\ UNCHANGED <<leaf, materialized, claimed, seen, boots, cards, repairVars>>

\* Variant for testing ReturnedBoots: the repair is taken at its word.
RepairUnchecked ==
  /\ step = "smoke" /\ Smoked /\ ~boots /\ rounds < RepairRounds
  /\ Session
  /\ step' = "returned" /\ rounds' = rounds + 1
  /\ UNCHANGED <<leaf, materialized, claimed, cards, merged, todo>>

\* A repair round; records it returns replace those of the bundle.
RepairBoot ==
  /\ step = "smoke" /\ Smoked /\ ~boots /\ rounds < RepairRounds
  /\ Session
  /\ rounds' = rounds + 1
  /\ \E kind \in {"none", "typed", "untyped"}, form \in {"fields", "summary"} :
       cards' = IF Recovered(kind, form) = "none" THEN cards ELSE kind
  /\ UNCHANGED <<step, leaf, materialized, claimed, merged, todo>>

\* DesignBootSmokeError: the rounds are spent, or the repair itself failed.
SmokeFails ==
  /\ step = "smoke" /\ Smoked /\ ~boots
  /\ step' = "raised"
  /\ UNCHANGED <<leaf, materialized, claimed, seen, boots, cards, repairVars>>

\* The gates of the phase: no contract at all, a record whose type nobody knows,
\* a written route that no contract names.
Verdict ==
  /\ step = "returned"
  /\ step' \in IF cards = "none" /\ (materialized # {} \/ leaf) THEN {"blind"}
               ELSE IF cards = "untyped" THEN {"refused"}
               ELSE IF Evidence THEN {"refused", "stored"} ELSE {"stored"}
  /\ UNCHANGED <<leaf, materialized, claimed, seen, boots, cards, repairVars>>

Ended == step \in {"raised", "blind", "refused", "stored"}

ContractsNext ==
  \/ FirstSession \/ SessionRaises
  \/ FillAll \/ FillBatch \/ AskAgain \/ AskForReuse \/ NoReuse
  \/ AskForTypes \/ SmokePasses \/ RepairBoot \/ SmokeFails
  \/ Verdict

ContractsSpec == ContractsInit /\ [][ContractsNext]_contractVars

-----------------------------------------------------------------------------
\* A design whose files embody contracts is never refused for lack of any, no
\* matter what the model answered to whom (_fill_skeletons against the gate of
\* core/phases.py).
NeverBlind == step = "blind" => Skeletons = {}

\* After the fill a row that is alone in its file is recorded: under its own id,
\* or under the id the model made up for that file.  A reused record never
\* hides it (_find_filled_record, merge_filled_contracts).
SoleRowsRecorded ==
  step = "types" /\ merged # {} =>
    \A r \in Skeletons :
      (\A s \in Row \ {r} : FileOf[s] # FileOf[r]) =>
        \E x \in merged : x.id = r \/ (x.id = Minted /\ x.path = FileOf[r])

\* A design that goes on to the gates after writing, or saying that it wrote,
\* has a backend that boots as the last session left it (_enforce_boot_smoke).
ReturnedBoots == step \in {"returned", "stored"} /\ Smoked => boots
=============================================================================
