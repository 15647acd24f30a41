------------------------------ MODULE Compilation ------------------------------
(***************************************************************************)
(* What a compilation promises to somebody who sees nothing of the queue's *)
(* node states, stage rows, blocks, worktrees and merges: only whether an  *)
(* invocation runs, which tasks are running, which are finished in memory  *)
(* and in the saved queue, and whose work is on the integration HEAD.      *)
(*                                                                         *)
(*  - A task begins on finished prerequisites and is not begun again once  *)
(*    it is finished; what a running task stands on is not undone.         *)
(*  - It is finished only with its work on HEAD, and the file says so      *)
(*    before anything else can happen.                                     *)
(*  - Only an invocation of the operator takes finished work back, and     *)
(*    only in memory: the file follows with the next save.                 *)
(*  - A process that dies loses the running tasks and nothing that is      *)
(*    saved; an invocation that ends leaves nothing running or unsaved.    *)
(***************************************************************************)

CONSTANTS
  Task,    \* the tasks of the requirement tree
  Needs    \* [task -> the tasks that are finished before it may begin]

VARIABLES
  open,      \* an invocation runs
  running,   \* the tasks that run
  finished,  \* the tasks the queue in memory calls completed
  kept,      \* those the saved queue calls completed
  landed     \* the tasks whose work is on the integration HEAD

vars == <<open, running, finished, kept, landed>>

Init ==
  /\ open = FALSE
  /\ running = {} /\ finished = {} /\ kept = {} /\ landed = {}

\* An invocation starts from the file; what it retries is not finished any more.
Start ==
  /\ ~open /\ open' = TRUE
  /\ finished' \subseteq kept
  /\ UNCHANGED <<running, kept, landed>>

Save ==
  /\ open
  /\ kept' = finished
  /\ UNCHANGED <<open, running, finished, landed>>

Begin(t) ==
  /\ open
  /\ t \notin finished \cup running
  /\ Needs[t] \subseteq finished
  /\ running' = running \cup {t}
  /\ kept' = finished
  /\ UNCHANGED <<open, finished, landed>>

Land(t) ==
  /\ t \in running
  /\ landed' = landed \cup {t}
  /\ UNCHANGED <<open, running, finished, kept>>

\* The work may land with the same step that finishes the task.
Finish(t) ==
  /\ t \in running
  /\ landed' \in {landed, landed \cup {t}} /\ t \in landed'
  /\ running' = running \ {t}
  /\ finished' = finished \cup {t}
  /\ kept' = finished'
  /\ UNCHANGED open

\* A failure, an outage or a requeue: the file may follow later.
GiveUp(t) ==
  /\ t \in running
  /\ running' = running \ {t}
  /\ kept' \in {kept, finished}
  /\ UNCHANGED <<open, finished, landed>>

Stop ==
  /\ open /\ running = {} /\ kept = finished
  /\ open' = FALSE
  /\ UNCHANGED <<running, finished, kept, landed>>

Die ==
  /\ open /\ open' = FALSE
  /\ running' = {}
  /\ finished' = kept
  /\ UNCHANGED <<kept, landed>>

Next ==
  \/ Start \/ Save \/ Stop \/ Die
  \/ \E t \in Task : Begin(t) \/ Land(t) \/ Finish(t) \/ GiveUp(t)

Spec == Init /\ [][Next]_vars

\* What follows of every compilation: saved work is on HEAD, and what memory calls
\* finished is saved.
WorkIsSafe == finished \subseteq kept /\ kept \subseteq landed
=============================================================================
