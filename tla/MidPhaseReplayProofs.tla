------------------------- MODULE MidPhaseReplayProofs -------------------------
(***************************************************************************)
(* What the mid-phase replay promises for any tasks, files, batches and    *)
(* conflicts: a gate that stood down leaves no rebase open, no step loses  *)
(* a checkpoint, and two tasks never create one file apart.                *)
(***************************************************************************)
EXTENDS MidPhaseReplay, TLAPS

NewFile == File \ Existing

Tree == [File -> SUBSET (Node \X Nat)]

Places == {"idle", "opening", "running", "waiting", "failing", "landed", "merged",
           "refused", "failed", "broken"}

FileCall == [file : File, tool : {"edit", "create"}, id : Nat]

RebaseState == [on : BOOLEAN, before : Tree, onto : Tree, tree : Tree,
                unmerged : SUBSET File, markers : SUBSET File, more : BOOLEAN]

LeftoverState == [on : BOOLEAN, orig : Tree, base : Tree]

GateCall == [node : Node \cup {NoNode}, file : File \cup {NoNode},
             tool : {"none", "read", "edit", "create"},
             step : {"none", "serve", "continue", "replay"}]

GitTypes ==
  /\ integration \in Tree
  /\ base \in [Node -> Tree] /\ head \in [Node -> Tree] /\ work \in [Node -> Tree]
  /\ rebase \in [Node -> RebaseState] /\ leftover \in [Node -> LeftoverState]

CallTypes ==
  /\ call \in GateCall
  /\ call.step # "none" => call.node \in Node
  /\ call.tool \in {"edit", "create"} => call.file \in File
  /\ call.tool = "none" => call = NoCall
  /\ flight \in [Node -> SUBSET FileCall] /\ edits \in [Node -> Nat]

RegistryTypes ==
  /\ marked \subseteq Node /\ pending \subseteq Node /\ disarmed \subseteq Node
  /\ conflicts \in [Node -> Nat]
  /\ claims \in [NewFile -> Node \cup {NoNode}]
  /\ snapshot \in [Node -> [loaded : BOOLEAN, files : SUBSET File]]
  /\ made \in [Node -> SUBSET File] /\ behind \subseteq Node /\ abandoned \subseteq File

TypeInv ==
  /\ task \in [Node -> Places] /\ started \in [Node -> Nat] /\ mishaps \in Nat
  /\ GitTypes /\ CallTypes /\ RegistryTypes

-----------------------------------------------------------------------------
(* Types *)

\* Trees are put together from trees.
LEMMA TreeTypes ==
  /\ Empty \in Tree
  /\ \A t, u \in Tree : Both(t, u) \in Tree
  /\ NoRebase \in RebaseState
  /\ NoLeftover \in LeftoverState
  /\ NoCall \in GateCall
BY DEF Empty, Tree, Both, NoRebase, RebaseState, NoLeftover, LeftoverState, NoCall, GateCall

\* A reset directory is a tree.
LEMMA ResetType ==
  ASSUME GitTypes, NEW n \in Node, NEW t \in Tree, NEW c \in Tree
  PROVE  Reset(n, t, c) \in Tree
BY DEF GitTypes, Reset, Tree

\* The conflicts of a rebase are files whose contents differ.
LEMMA ConflictType ==
  ASSUME NEW b, NEW t, NEW u, NEW c \in ConflictSets(b, t, u)
  PROVE  c \subseteq BothChanged(b, t, u) /\ c \subseteq File
BY DEF ConflictSets, BothChanged

\* Where a first replay can stop.
LEMMA FirstStopType ==
  ASSUME GitTypes, NEW n \in Node, NEW new \in FirstStops(n)
  PROVE  /\ new \in RebaseState
         /\ new.on /\ new.before = head[n] /\ new.onto = integration
         /\ new.unmerged # {}
         /\ \/ /\ new.tree = Both(work[n], integration)
               /\ new.unmerged \in ConflictSets(base[n], work[n], integration)
            \/ /\ new.tree = Both(head[n], integration)
               /\ new.unmerged \in ConflictSets(base[n], head[n], integration)
<1>0. /\ head[n] \in Tree /\ work[n] \in Tree /\ integration \in Tree
      /\ Both(work[n], integration) \in Tree /\ Both(head[n], integration) \in Tree
  BY TreeTypes DEF GitTypes
<1>1. \/ \E c \in ConflictSets(base[n], work[n], integration) \ {{}} :
           new = StoppedAt(n, Both(work[n], integration), c, FALSE)
      \/ \E c \in ConflictSets(base[n], head[n], integration) \ {{}} :
           new = StoppedAt(n, Both(head[n], integration), c, TRUE)
  <2>. DEFINE two == IF head[n] = base[n] \/ work[n] = head[n] THEN {}
                     ELSE ConflictSets(base[n], head[n], integration) \ {{}}
  <2>1. two \subseteq ConflictSets(base[n], head[n], integration) \ {{}}
    OBVIOUS
  <2>2. \/ \E c \in ConflictSets(base[n], work[n], integration) \ {{}} :
             new = StoppedAt(n, Both(work[n], integration), c, FALSE)
        \/ \E c \in two : new = StoppedAt(n, Both(head[n], integration), c, TRUE)
    BY Zenon DEF FirstStops
  <2>. HIDE DEF two
  <2>. QED BY <2>1, <2>2
<1>2. ASSUME NEW tree \in Tree, NEW c \in SUBSET File, NEW more \in BOOLEAN,
             new = StoppedAt(n, tree, c, more)
      PROVE  /\ new \in RebaseState /\ new.tree = tree /\ new.unmerged = c
             /\ new.on /\ new.before = head[n] /\ new.onto = integration
  BY <1>0, <1>2 DEF StoppedAt, RebaseState
<1>. QED BY <1>0, <1>1, <1>2, ConflictType

-----------------------------------------------------------------------------
(* The tree of a branch, its checkpoint and its directory *)

\* Every edit in t is in u, file by file.
Kept(t, u) == \A f \in File : t[f] \subseteq u[f]

\* Nothing comes from nowhere: every edit of t was in n's directory, on its branch
\* or on the integration branch.
From(n, t) == \A f \in File : t[f] \subseteq work[n][f] \cup head[n][f] \cup integration[f]

\* In a rebase the branch to restore is in the checkpoint, and the tree rebased
\* onto in the index, whose files are in the directory.
Suspended(n) ==
  /\ Kept(base[n], rebase[n].before) /\ Kept(rebase[n].before, head[n])
  /\ Kept(rebase[n].onto, rebase[n].tree) /\ Kept(rebase[n].tree, work[n])
  /\ \A f \in rebase[n].unmerged : Exists(rebase[n].tree, f)

\* The branch a rebase of an earlier task began on had its base.
LeftoverKept(n) == leftover[n].on => Kept(leftover[n].base, leftover[n].orig)

Directory(n) ==
  /\ LeftoverKept(n)
  /\ Kept(base[n], head[n])
  /\ ~rebase[n].on => Kept(head[n], work[n])
  /\ rebase[n].on => Suspended(n)

\* What the gates of a call may do to the directory of its task.
Untouched(n) ==
  /\ base' = base /\ head' = head /\ work' = work /\ rebase' = rebase /\ leftover' = leftover
  /\ snapshot' = snapshot /\ marked' = marked /\ disarmed' = disarmed

GivenUp(n) ==
  /\ base' = base /\ snapshot' = snapshot /\ leftover' = leftover
  /\ disarmed' \in {disarmed, disarmed \cup {n}} /\ behind' = behind \cup {n}
  /\ rebase'[n] = NoRebase /\ marked' = marked \ {n}
  /\ Kept(base[n], head'[n]) /\ Kept(head'[n], work'[n])
  /\ From(n, head'[n]) /\ From(n, work'[n])
  /\ Kept(head[n], work'[n])
  /\ ~rebase[n].on => Kept(work[n], work'[n])

CaughtUp(n) ==
  /\ ~rebase'[n].on /\ marked' = marked \ {n} /\ disarmed' = disarmed
  /\ snapshot' = [snapshot EXCEPT ![n] = Unloaded] /\ leftover' = leftover
  /\ Kept(base'[n], head'[n]) /\ Kept(head'[n], work'[n])
  /\ Kept(head[n], work'[n]) /\ Kept(work[n], work'[n])
  /\ From(n, head'[n]) /\ From(n, work'[n])
  /\ \/ behind' = behind
     \/ behind' = behind \ {n} /\ Kept(integration, work'[n])

Halted(n) ==
  /\ base' = base /\ snapshot' = snapshot /\ disarmed' = disarmed /\ behind' = behind
  /\ leftover' = leftover
  /\ rebase'[n].on /\ rebase'[n].unmerged # {} /\ marked' = marked \cup {n}
  /\ Suspended(n)'
  /\ Kept(base[n], head'[n]) /\ Kept(head[n], head'[n])
  /\ From(n, head'[n]) /\ From(n, work'[n])
  /\ ~rebase[n].on => Kept(work[n], head'[n])
  /\ (Kept(work[n], work'[n]) /\ head'[n] = head[n]) \/ Kept(integration, work'[n])

\* The abort of the rebase an earlier task had left there.
Dropped(n) ==
  /\ leftover[n].on /\ leftover'[n] = NoLeftover
  /\ ~rebase[n].on /\ rebase' = rebase
  /\ marked' = marked /\ disarmed' = disarmed /\ snapshot' = snapshot
  /\ base'[n] = leftover[n].base
  /\ head'[n] = leftover[n].orig /\ work'[n] = leftover[n].orig
  /\ behind' = behind \cup {n}

\* The directories of the others stay as they are.
OnlyOf(n) ==
  \A m \in Node \ {n} :
    /\ base'[m] = base[m] /\ head'[m] = head[m] /\ work'[m] = work[m]
    /\ rebase'[m] = rebase[m] /\ leftover'[m] = leftover[m] /\ snapshot'[m] = snapshot[m]

\* Both(t, u) holds what t and u hold.
LEMMA KeptFacts ==
  /\ \A t \in Tree : Kept(t, t) /\ Kept(Empty, t)
  /\ \A t, u, v \in Tree : Kept(t, u) /\ Kept(u, v) => Kept(t, v)
  /\ \A t, u \in Tree : /\ Kept(t, Both(t, u)) /\ Kept(u, Both(t, u))
                        /\ \A f \in File : Both(t, u)[f] = t[f] \cup u[f]
BY DEF Kept, Tree, Empty, Both

\* Giving a rebase up keeps the checkpoint, and the whole directory if the
\* checkpoint was made of it.
LEMMA TakeBackOutcome ==
  ASSUME GitTypes, NEW n \in Node, NEW t \in Tree, NEW c \in Tree, NEW b \in Tree,
         TakeBack(n, t, c, b), integration' = integration, base' = base,
         leftover' = leftover, snapshot' = snapshot, disarmed' \in {disarmed, disarmed \cup {n}},
         Kept(base[n], b), Kept(b, c), From(n, c), Kept(head[n], c),
         ~rebase[n].on => c = work[n]
  PROVE  GivenUp(n) /\ OnlyOf(n) /\ GitTypes'
<1>1. /\ Reset(n, t, c) \in Tree /\ NoRebase \in RebaseState
  BY ResetType, TreeTypes
<1>2. /\ work'[n] = Reset(n, t, c) /\ head'[n] = b /\ rebase'[n] = NoRebase
      /\ marked' = marked \ {n} /\ behind' = behind \cup {n}
  BY DEF TakeBack, GitTypes
<1>3. OnlyOf(n) /\ GitTypes'
  BY <1>1 DEF OnlyOf, TakeBack, GitTypes
<1>4. /\ work[n] \in Tree /\ head[n] \in Tree /\ integration \in Tree
  BY DEF GitTypes
<1>5. \A f \in File : /\ c[f] \subseteq Reset(n, t, c)[f]
                      /\ Reset(n, t, c)[f] = c[f] \/ Reset(n, t, c)[f] = work[n][f]
  BY <1>4 DEF Reset, Exists, Tree
<1>6. Kept(c, work'[n]) /\ From(n, work'[n])
  BY <1>2, <1>5 DEF Kept, From
<1>7. From(n, head'[n])
  <2>1. \A f \in File : b[f] \subseteq c[f] /\ c[f] \subseteq work[n][f] \cup head[n][f] \cup integration[f]
    BY DEF From, Kept
  <2>2. From(n, b)
    BY <2>1 DEF From
  <2>. QED BY <1>2, <2>2
<1>. QED BY <1>1, <1>2, <1>3, <1>4, <1>6, <1>7, KeptFacts DEF GivenUp

\* A replay that goes through keeps what it is made of.
LEMMA ReplayedOutcome ==
  ASSUME GitTypes, NEW n \in Node, NEW t \in Tree, NEW onto \in Tree,
         Replayed(n, t, onto), integration' = integration, leftover' = leftover,
         Kept(work[n], t), Kept(head[n], t), Kept(onto, t), From(n, t)
  PROVE  CaughtUp(n) /\ OnlyOf(n) /\ GitTypes'
<1>1. /\ work'[n] = t /\ head'[n] = t /\ base'[n] = onto /\ rebase'[n] = NoRebase
  BY DEF Replayed, GitTypes
<1>2. OnlyOf(n) /\ GitTypes'
  BY TreeTypes DEF OnlyOf, Replayed, GitTypes
<1>3. \/ behind' = behind
      \/ behind' = behind \ {n} /\ Kept(integration, t)
  BY DEF Replayed
<1>4. Kept(t, t)
  BY KeptFacts
<1>. QED BY <1>1, <1>2, <1>3, <1>4 DEF CaughtUp, Replayed, NoRebase

\* A rebase that stops keeps the checkpoint.
LEMMA StoppedOutcome ==
  ASSUME GitTypes, NEW n \in Node, NEW c \in Tree, NEW new \in RebaseState,
         Stopped(n, c, new), integration' = integration, base' = base,
         leftover' = leftover, snapshot' = snapshot, disarmed' = disarmed,
         new.on, new.unmerged # {}, Kept(base[n], new.before), Kept(new.before, c),
         Kept(new.onto, new.tree), \A f \in new.unmerged : Exists(new.tree, f),
         From(n, new.tree), From(n, c), Kept(head[n], c), ~rebase[n].on => c = work[n],
         (Kept(work[n], new.tree) /\ c = head[n]) \/ Kept(integration, new.tree)
  PROVE  Halted(n) /\ OnlyOf(n) /\ GitTypes'
<1>1. new.tree \in Tree /\ new.before \in Tree
  BY DEF RebaseState
<1>2. /\ work'[n] = new.tree /\ head'[n] = c /\ rebase'[n] = new /\ base'[n] = base[n]
  BY DEF Stopped, GitTypes
<1>3. OnlyOf(n) /\ GitTypes'
  BY <1>1 DEF OnlyOf, Stopped, GitTypes
<1>4. Kept(base[n], c) /\ Kept(new.tree, new.tree) /\ Kept(c, c)
  BY <1>1, KeptFacts DEF GitTypes
<1>5. Suspended(n)'
  BY <1>2, <1>4 DEF Suspended, Kept, Exists
<1>. QED BY <1>2, <1>3, <1>4, <1>5 DEF Halted, Stopped

\* At the limit a conflict gives the rebase up, before it the rebase stops.
LEMMA ConflictedOutcome ==
  ASSUME GitTypes, NEW n \in Node, NEW c \in Tree, NEW new \in RebaseState,
         Conflicted(n, c, new), integration' = integration, base' = base,
         leftover' = leftover, snapshot' = snapshot,
         new.on, new.unmerged # {}, Kept(base[n], new.before), Kept(new.before, c),
         Kept(new.onto, new.tree), \A f \in new.unmerged : Exists(new.tree, f),
         From(n, new.tree), From(n, c), Kept(head[n], c), ~rebase[n].on => c = work[n],
         (Kept(work[n], new.tree) /\ c = head[n]) \/ Kept(integration, new.tree)
  PROVE  (GivenUp(n) \/ Halted(n)) /\ OnlyOf(n) /\ GitTypes'
<1>1. new.tree \in Tree /\ new.before \in Tree
  BY DEF RebaseState
<1>2. CASE conflicts[n] + 1 >= MaxConflictReplays
  <2>1. /\ TakeBack(n, new.tree, c, new.before)
        /\ disarmed' \in {disarmed, disarmed \cup {n}}
    BY <1>2 DEF Conflicted
  <2>. QED BY <1>1, <2>1, TakeBackOutcome
<1>3. CASE ~(conflicts[n] + 1 >= MaxConflictReplays)
  <2>1. Stopped(n, c, new) /\ disarmed' = disarmed
    BY <1>3 DEF Conflicted
  <2>. QED BY <2>1, StoppedOutcome
<1>. QED BY <1>2, <1>3

\* The files in conflict are in both versions together.
LEMMA ConflictsExist ==
  ASSUME NEW b \in Tree, NEW t \in Tree, NEW u \in Tree, NEW c \in ConflictSets(b, t, u)
  PROVE  \A f \in c : f \in File /\ Exists(Both(t, u), f)
<1>1. \A f \in c : f \in File /\ t[f] # u[f]
  BY ConflictType DEF BothChanged
<1>2. \A f \in File : t[f] # u[f] => t[f] \cup u[f] # {}
  OBVIOUS
<1>. QED BY <1>1, <1>2, KeptFacts DEF Exists

Outcome(n) == Untouched(n) \/ GivenUp(n) \/ CaughtUp(n) \/ Halted(n) \/ Dropped(n)

\* A resolved rebase goes on, to its end or into the next conflict, or is given up
\* and replayed anew; with markers left nothing happens.
LEMMA ContinueOutcome ==
  ASSUME TypeInv, NEW n \in Node, Directory(n), rebase[n].on, Continue(n)
  PROVE  /\ Outcome(n) /\ OnlyOf(n) /\ GitTypes' /\ integration' = integration
         /\ pending' = pending /\ claims' = claims
         /\ Untouched(n) => behind' = behind
         /\ \/ call' = [call EXCEPT !.step = "serve"]
            \/ /\ call' = [call EXCEPT !.step = "replay"] /\ GivenUp(n)
               /\ disarmed' = disarmed
<1>. DEFINE r == rebase[n]
            final == Both(work[n], head[n])
<1>1. /\ GitTypes /\ work[n] \in Tree /\ head[n] \in Tree /\ integration \in Tree
      /\ base[n] \in Tree /\ r \in RebaseState
  BY DEF TypeInv, GitTypes
<1>2. /\ r.tree \in Tree /\ r.onto \in Tree /\ r.before \in Tree
  BY <1>1 DEF RebaseState
<1>3. /\ final \in Tree /\ Kept(work[n], final) /\ Kept(head[n], final) /\ From(n, final)
  BY <1>1, TreeTypes, KeptFacts DEF From
<1>4. /\ Kept(base[n], r.before) /\ Kept(r.before, head[n])
      /\ Kept(r.onto, r.tree) /\ Kept(r.tree, work[n])
  BY DEF Directory, Suspended
<1>5. Kept(r.onto, final) /\ Kept(base[n], head[n])
  <2>1. Kept(r.onto, work[n])
    BY <1>1, <1>2, <1>4, KeptFacts
  <2>. QED BY <1>1, <1>2, <1>3, <2>1, KeptFacts DEF Directory
<1>6. From(n, head[n]) /\ Kept(head[n], head[n])
  BY <1>1, KeptFacts DEF From
<1>7. CASE MarkersLeft(n)
  <2>1. Untouched(n) /\ OnlyOf(n)
    BY <1>7 DEF MarkersLeft, Untouched, OnlyOf, gitVars, replayVars, claimVars
  <2>2. GitTypes'
    BY <1>1, <1>7 DEF MarkersLeft, GitTypes, gitVars
  <2>. QED BY <1>7, <2>1, <2>2 DEF MarkersLeft, Outcome, Goes, gitVars, replayVars, claimVars
<1>8. CASE GiveUp(n)
  <2>1. /\ TakeBack(n, r.tree, head[n], r.before) /\ disarmed' = disarmed
        /\ integration' = integration /\ base' = base /\ pending' = pending
        /\ claims' = claims /\ snapshot' = snapshot /\ leftover' = leftover
        /\ call' = [call EXCEPT !.step = "replay"]
    BY <1>8 DEF GiveUp, Recover, claimVars, Goes
  <2>2. GivenUp(n) /\ OnlyOf(n) /\ GitTypes'
    BY <1>1, <1>2, <1>4, <1>6, <2>1, TakeBackOutcome
  <2>3. ~Untouched(n)
    BY <1>1, <2>2 DEF Untouched, GivenUp, NoRebase
  <2>. QED BY <2>1, <2>2, <2>3 DEF Outcome
<1>9. CASE GoOn(n)
  <2>1. ASSUME Replayed(n, final, r.onto)
        PROVE  CaughtUp(n) /\ OnlyOf(n) /\ GitTypes'
    BY <1>1, <1>2, <1>3, <1>5, <1>9, <2>1, ReplayedOutcome DEF GoOn
  <2>2. ASSUME NEW c \in NextStops(n), c # {}, UNCHANGED <<base, snapshot>>,
               Conflicted(n, head[n], StoppedAgain(n, c))
        PROVE  (GivenUp(n) \/ Halted(n)) /\ OnlyOf(n) /\ GitTypes'
    <3>. DEFINE new == StoppedAgain(n, c)
    <3>1. c \in ConflictSets(r.before, work[n], head[n])
      BY <2>2 DEF NextStops
    <3>2. /\ c \subseteq File /\ \A f \in c : Exists(final, f)
      BY <1>1, <1>2, <3>1, ConflictsExist, ConflictType
    <3>3. /\ new \in RebaseState /\ new.on /\ new.unmerged = c /\ new.before = r.before
          /\ new.onto = r.onto /\ new.tree = final
      BY <1>1, <1>3, <3>2 DEF RebaseState, StoppedAgain
    <3>4. \A f \in new.unmerged : Exists(new.tree, f)
      BY <3>2, <3>3
    <3>5. /\ integration' = integration /\ base' = base /\ snapshot' = snapshot
          /\ leftover' = leftover
      BY <1>9, <2>2 DEF GoOn
    <3>. HIDE DEF new, final, r
    <3>6. Conflicted(n, head[n], new) /\ (~rebase[n].on => head[n] = work[n])
      BY <2>2 DEF new, r
    <3>7. /\ Kept(new.onto, new.tree) /\ From(n, new.tree) /\ Kept(work[n], new.tree)
          /\ Kept(base[n], new.before) /\ Kept(new.before, head[n])
      BY <1>3, <1>4, <1>5, <3>3
    <3>8. new.on /\ new.unmerged # {} /\ new \in RebaseState
      BY <2>2, <3>3
    <3>. QED BY <1>1, <1>6, <3>4, <3>5, <3>6, <3>7, <3>8, ConflictedOutcome
  <2>3. /\ CaughtUp(n) \/ GivenUp(n) \/ Halted(n)
        /\ OnlyOf(n) /\ GitTypes'
    <3>. HIDE DEF final, r
    <3>1. PICK c \in NextStops(n) :
            \/ Replayed(n, final, rebase[n].onto)
            \/ /\ c # {} /\ Conflicted(n, head[n], StoppedAgain(n, c))
               /\ UNCHANGED <<base, snapshot>>
      BY <1>9 DEF GoOn, final
    <3>. QED BY <2>1, <2>2, <3>1 DEF r
  <2>4. ASSUME Untouched(n) PROVE behind' = behind
    <3>1. CASE GivenUp(n)
      BY <1>1, <2>4, <3>1 DEF Untouched, GivenUp, NoRebase
    <3>2. CASE CaughtUp(n)
      BY <1>1, <2>4, <3>2 DEF Untouched, CaughtUp, NoRebase
    <3>3. CASE Halted(n)
      BY <3>3 DEF Halted
    <3>. QED BY <2>3, <3>1, <3>2, <3>3
  <2>. QED BY <1>9, <2>3, <2>4 DEF GoOn, Outcome, Goes
<1>. QED BY <1>7, <1>8, <1>9 DEF Continue

\* A replay that is due brings the integration branch into the directory, or the
\* task falls behind.
LEMMA ReplayDone ==
  ASSUME TypeInv, NEW n \in Node, Directory(n), ~rebase[n].on, n \notin marked, Replay(n)
  PROVE  /\ Outcome(n) /\ OnlyOf(n) /\ GitTypes' /\ integration' = integration
         /\ pending' = pending \ {n} /\ claims' = claims
         /\ behind \subseteq behind' \cup {n} /\ behind' \subseteq behind \cup {n}
         /\ n \notin pending => Untouched(n) /\ behind' = behind
         /\ n \in pending => n \in behind' \/ Kept(integration, work'[n])
         /\ call' = [call EXCEPT !.step = "serve"]
<1>1. /\ GitTypes /\ work[n] \in Tree /\ head[n] \in Tree /\ integration \in Tree
      /\ base[n] \in Tree
  BY DEF TypeInv, GitTypes
<1>2. Kept(base[n], head[n]) /\ Kept(head[n], work[n])
  BY DEF Directory
<1>3. /\ From(n, work[n]) /\ Kept(work[n], work[n]) /\ Kept(integration, integration)
      /\ Kept(head[n], head[n])
  BY <1>1, KeptFacts DEF From
<1>4. Untouched(n) /\ UNCHANGED gitVars => OnlyOf(n) /\ GitTypes'
  BY <1>1 DEF Untouched, OnlyOf, GitTypes, gitVars
<1>5. /\ pending' = pending \ {n} /\ claims' = claims
      /\ call' = [call EXCEPT !.step = "serve"]
  BY DEF Replay, Goes
<1>6. CASE /\ n \notin pending
           /\ UNCHANGED <<gitVars, marked, conflicts, disarmed, snapshot, mishaps, behind>>
  <2>1. Untouched(n) /\ behind' = behind /\ integration' = integration
    BY <1>6 DEF Untouched, gitVars
  <2>. QED BY <1>4, <1>5, <1>6, <2>1 DEF Outcome
<1>7. CASE n \in pending /\ AtHead(n) /\ head[n] = integration
  <2>1. /\ base'[n] = integration /\ head'[n] = integration /\ work'[n] = work[n]
        /\ rebase'[n] = rebase[n]
    BY <1>1, <1>7 DEF AtHead, GitTypes
  <2>2. Kept(integration, work'[n]) /\ n \notin marked
    BY <1>2, <1>7, <2>1
  <2>3. OnlyOf(n) /\ GitTypes'
    BY <1>1, <1>7 DEF AtHead, OnlyOf, GitTypes, RegistryTypes
  <2>4. marked' = marked \ {n}
    BY <1>7, <2>2 DEF AtHead
  <2>5. From(n, integration)
    BY DEF From
  <2>6. /\ Kept(base'[n], head'[n]) /\ Kept(head'[n], work'[n]) /\ ~rebase'[n].on
        /\ Kept(head[n], work'[n]) /\ Kept(work[n], work'[n])
        /\ From(n, head'[n]) /\ From(n, work'[n])
    BY <1>2, <1>3, <1>7, <2>1, <2>2, <2>5
  <2>7. /\ disarmed' = disarmed /\ leftover' = leftover /\ behind' = behind \ {n}
        /\ snapshot' = [snapshot EXCEPT ![n] = Unloaded] /\ integration' = integration
    BY <1>7 DEF AtHead
  <2>8. CaughtUp(n)
    BY <2>2, <2>4, <2>6, <2>7 DEF CaughtUp
  <2>. QED BY <1>5, <1>7, <2>2, <2>3, <2>7, <2>8 DEF Outcome
<1>10. CASE n \in pending /\ GoesThrough(n)
  <2>. DEFINE t == Both(work[n], integration)
  <2>0. t \in Tree /\ Kept(work[n], t) /\ Kept(integration, t)
    BY <1>1, TreeTypes, KeptFacts
  <2>1. t \in Tree /\ Kept(work[n], t) /\ Kept(integration, t) /\ From(n, t)
    BY <1>1, <2>0, KeptFacts DEF From
  <2>2. Kept(head[n], t)
    BY <1>1, <1>2, <2>1, KeptFacts
  <2>3. Replayed(n, t, integration) /\ integration' = integration /\ leftover' = leftover
    BY <1>10 DEF GoesThrough
  <2>. HIDE DEF t
  <2>4. CaughtUp(n) /\ OnlyOf(n) /\ GitTypes'
    BY <1>1, <2>1, <2>2, <2>3, ReplayedOutcome
  <2>5. work'[n] = t
    BY <1>1, <2>3 DEF Replayed, GitTypes
  <2>6. behind \subseteq behind' \cup {n} /\ behind' \subseteq behind \cup {n}
    BY <2>3 DEF Replayed
  <2>. QED BY <1>5, <1>10, <2>1, <2>3, <2>4, <2>5, <2>6 DEF Outcome
<1>8. CASE n \in pending /\ StopsFirst(n)
  <2>1. PICK new \in FirstStops(n) : Conflicted(n, work[n], new)
    BY <1>8 DEF StopsFirst
  <2>2. /\ new \in RebaseState /\ new.on /\ new.before = head[n] /\ new.onto = integration
        /\ new.unmerged # {}
    BY <1>1, <2>1, FirstStopType
  <2>3. /\ Kept(integration, new.tree) /\ From(n, new.tree)
        /\ \A f \in new.unmerged : Exists(new.tree, f)
    <3>1. CASE /\ new.tree = Both(work[n], integration)
               /\ new.unmerged \in ConflictSets(base[n], work[n], integration)
      BY <1>1, <3>1, KeptFacts, ConflictsExist DEF From
    <3>2. CASE /\ new.tree = Both(head[n], integration)
               /\ new.unmerged \in ConflictSets(base[n], head[n], integration)
      BY <1>1, <3>2, KeptFacts, ConflictsExist DEF From
    <3>. QED BY <1>1, <2>1, <3>1, <3>2, FirstStopType
  <2>4. /\ integration' = integration /\ base' = base /\ snapshot' = snapshot
        /\ leftover' = leftover
    BY <1>8 DEF StopsFirst
  <2>5. (GivenUp(n) \/ Halted(n)) /\ OnlyOf(n) /\ GitTypes'
    BY <1>1, <1>2, <1>3, <2>1, <2>2, <2>3, <2>4, ConflictedOutcome
  <2>6. n \in behind' \/ work'[n] = new.tree
    BY <1>1, <2>1 DEF Conflicted, TakeBack, Stopped, GitTypes
  <2>7. behind \subseteq behind' /\ behind' \subseteq behind \cup {n}
    BY <2>5 DEF GivenUp, Halted
  <2>. QED BY <1>5, <1>8, <2>3, <2>4, <2>5, <2>6, <2>7 DEF Outcome
<1>9. CASE n \in pending /\ FallsBack(n)
  <2>1. /\ Untouched(n) /\ integration' = integration /\ UNCHANGED gitVars
        /\ behind' = behind \cup {n}
    BY <1>9 DEF FallsBack, Untouched, gitVars
  <2>. QED BY <1>4, <1>5, <1>9, <2>1 DEF Outcome
<1>11. CASE n \in pending /\ leftover[n].on /\ DropsCheckpoint(n)
  <2>1. leftover[n].orig \in Tree /\ leftover[n].base \in Tree
    BY <1>1 DEF GitTypes, LeftoverState
  <2>2. GitTypes'
    BY <1>1, <1>11, <2>1, TreeTypes DEF DropsCheckpoint, GitTypes
  <2>3. Dropped(n)
    BY <1>1, <1>11 DEF DropsCheckpoint, Dropped, GitTypes
  <2>4. OnlyOf(n) /\ integration' = integration
    BY <1>1, <1>11 DEF DropsCheckpoint, OnlyOf, GitTypes
  <2>. QED BY <1>5, <1>11, <2>2, <2>3, <2>4 DEF Dropped, Outcome
<1>. QED BY <1>6, <1>7, <1>8, <1>9, <1>10, <1>11 DEF Replay, ReplayPending

-----------------------------------------------------------------------------
(* The bookkeeping of tasks and calls *)

\* What is known of a task by its place: an unsettled rebase is known to the manager,
\* only a running task has calls, and what has landed is on the integration branch.
Placed(n) ==
  /\ task[n] \in {"idle", "failed", "opening", "broken"} =>
       n \notin marked /\ n \notin pending /\ made[n] = {}
  /\ task[n] \in {"idle", "opening"} => ~rebase[n].on
  /\ task[n] = "opening" => snapshot[n] = Unloaded
  /\ task[n] = "running" => (n \in marked <=> rebase[n].on)
  /\ task[n] = "running" /\ rebase[n].on => rebase[n].unmerged # {}
  /\ task[n] # "running" => flight[n] = {} /\ call.node # n
  /\ task[n] \in {"landed", "merged"} => Kept(head[n], integration)

\* A gate that stood down has given a rebase up and lets its calls through; the
\* others resolve or replay, a write in a rebase only what is unmerged.
CallInv ==
  /\ disarmed \subseteq behind
  /\ call.step \in {"continue", "replay"} => call.node \notin disarmed
  /\ call.step = "continue" =>
       /\ call.node \in marked
       /\ call.tool # "read" => call.file \in rebase[call.node].unmerged
  /\ call.step = "replay" => call.node \notin marked

Core ==
  /\ TypeInv
  /\ \A n \in Node : Directory(n)
  /\ \A n \in Node : Placed(n)
  /\ CallInv

\* Types, one by one.
LEMMA TypesOf ==
  ASSUME TypeInv
  PROVE  /\ task \in [Node -> Places] /\ started \in [Node -> Nat] /\ mishaps \in Nat
         /\ GitTypes /\ CallTypes /\ RegistryTypes
BY DEF TypeInv

\* A started task has its types.
LEMMA OpenTypes ==
  ASSUME TypeInv, NEW n \in Node, Open(n)
  PROVE  TypeInv'
<1>1. CASE /\ task' = [task EXCEPT ![n] = "broken"] /\ UNCHANGED <<gitVars, behind>>
  BY <1>1 DEF TypeInv, Open, Places, GitTypes, CallTypes, RegistryTypes, callVars, Unloaded,
              gitVars
<1>2. CASE ~(rebase[n].on /\ rebase[n].unmerged # {})
  <2>1. [on |-> TRUE, orig |-> head[n], base |-> base[n]] \in LeftoverState
    BY DEF TypeInv, GitTypes, LeftoverState
  <2>2. leftover' \in [Node -> LeftoverState] /\ rebase' \in [Node -> RebaseState]
    BY <1>2, <2>1, TreeTypes DEF Open, Prepare, TypeInv, GitTypes
  <2>3. /\ integration' = integration /\ base' \in [Node -> Tree]
        /\ head' \in [Node -> Tree] /\ work' \in [Node -> Tree]
    BY <1>2 DEF Open, Prepare, TypeInv, GitTypes
  <2>4. GitTypes'
    BY <2>2, <2>3 DEF TypeInv, GitTypes
  <2>5. behind' \in {behind \ {n}, behind \cup {n}} /\ task' = [task EXCEPT ![n] = "opening"]
    BY <1>2 DEF Open, Prepare
  <2>6. RegistryTypes'
    BY <2>5 DEF Open, TypeInv, RegistryTypes, Unloaded
  <2>. QED BY <2>4, <2>5, <2>6 DEF Open, TypeInv, CallTypes, callVars, Places
<1>. QED BY <1>1, <1>2 DEF Open, Prepare

\* So has a call that starts.
LEMMA CallTypesStep ==
  ASSUME TypeInv, NEW n \in Node,
         \/ \E f \in File, tool \in {"read", "edit", "create"} : StartCall(n, f, tool)
         \/ Serve(n)
         \/ \E c \in flight[n] : EndCall(n, c)
  PROVE  TypeInv'
<1>. USE TypesOf
<1>1. ASSUME NEW f \in File, NEW tool \in {"read", "edit", "create"}, StartCall(n, f, tool)
      PROVE  TypeInv'
  <2>1. GitTypes' /\ task' = task /\ started' = started /\ mishaps' = mishaps
    BY <1>1 DEF StartCall, taskVars, gitVars, GitTypes
  <2>2. Tracked(n) \subseteq File
    BY DEF Tracked
  <2>3. NewSnapshot(n) \in [loaded : BOOLEAN, files : SUBSET File]
    BY <2>2 DEF NewSnapshot, RegistryTypes
  <2>4. f \in NewFile => [claims EXCEPT ![f] = n] \in [NewFile -> Node \cup {NoNode}]
    BY DEF RegistryTypes
  <2>5. IsNew(n, f) => f \in NewFile
    BY DEF IsNew, NewFile
  <2>6. RegistryTypes'
    BY <1>1, <2>3, <2>4, <2>5 DEF StartCall, RegistryTypes, replayVars, history
  <2>7. call' \in GateCall /\ (call'.step # "none" => call'.node \in Node)
    BY <1>1 DEF StartCall, NoCall, GateCall
  <2>8. /\ call'.tool \in {"edit", "create"} => call'.file \in File
        /\ call'.tool = "none" => call' = NoCall
    BY <1>1 DEF StartCall, NoCall
  <2>9. flight' = flight /\ edits' \in [Node -> Nat]
    BY <1>1 DEF StartCall, CallTypes
  <2>. QED BY <2>1, <2>6, <2>7, <2>8, <2>9 DEF TypeInv, CallTypes
<1>2. CASE Serve(n)
  <2>1. GitTypes' /\ RegistryTypes' /\ task' = task /\ started' = started /\ mishaps' = mishaps
    BY <1>2 DEF Serve, taskVars, gitVars, replayVars, claimVars, history, GitTypes,
                RegistryTypes
  <2>2. call.tool # "read" => [file |-> call.file, tool |-> call.tool, id |-> edits[n]] \in FileCall
    <3>1. call.node = n /\ call.step = "serve" /\ call.tool # "none"
      BY <1>2 DEF Serve, AtStep, CallTypes, NoCall
    <3>. QED BY <3>1 DEF CallTypes, FileCall, GateCall
  <2>3. flight' \in [Node -> SUBSET FileCall]
    BY <1>2, <2>2 DEF Serve, CallTypes
  <2>4. call' = NoCall /\ edits' = edits
    BY <1>2 DEF Serve
  <2>. QED BY <2>1, <2>3, <2>4, TreeTypes DEF TypeInv, CallTypes, NoCall
<1>3. ASSUME NEW c \in flight[n], EndCall(n, c) PROVE TypeInv'
  <2>1. c \in FileCall
    BY <1>3 DEF CallTypes
  <2>2. /\ c.file \in File /\ <<n, c.id>> \in Node \X Nat
    BY <2>1 DEF FileCall
  <2>3. work' \in [Node -> Tree] /\ rebase' \in [Node -> RebaseState] /\ made' \in [Node -> SUBSET File]
    <3>1. [work EXCEPT ![n][c.file] = @ \cup {<<n, c.id>>}] \in [Node -> Tree]
      BY <2>2 DEF GitTypes, Tree
    <3>2. [rebase EXCEPT ![n].markers = @ \ {c.file}] \in [Node -> RebaseState]
      BY DEF GitTypes, RebaseState
    <3>3. [made EXCEPT ![n] = IF c.tool = "create" THEN @ \cup {c.file} ELSE @]
            \in [Node -> SUBSET File]
      BY <2>2 DEF RegistryTypes
    <3>. QED BY <1>3, <3>1, <3>2, <3>3 DEF EndCall, GitTypes, RegistryTypes
  <2>4. flight' \in [Node -> SUBSET FileCall]
    BY <1>3 DEF EndCall, CallTypes
  <2>. QED BY <1>3, <2>3, <2>4 DEF EndCall, TypeInv, taskVars, replayVars, claimVars, GitTypes,
                                  CallTypes, RegistryTypes
<1>. QED BY <1>1, <1>2, <1>3

\* What the gates of a call leave alone.
LEMMA GateFrame ==
  ASSUME TypeInv, NEW n \in Node, Continue(n) \/ Replay(n)
  PROVE  /\ call.node = n /\ task' = task /\ started' = started /\ flight' = flight
         /\ edits' = edits /\ made' = made /\ abandoned' = abandoned
         /\ conflicts' \in [Node -> Nat] /\ mishaps' \in Nat
         /\ Continue(n) => call.step = "continue"
         /\ Replay(n) => call.step = "replay"
<1>1. [conflicts EXCEPT ![n] = @ + 1] \in [Node -> Nat]
      /\ [conflicts EXCEPT ![n] = 0] \in [Node -> Nat]
  BY DEF TypeInv, RegistryTypes
<1>2. \A c, new : Conflicted(n, c, new) => conflicts' \in [Node -> Nat]
  BY <1>1 DEF Conflicted
<1>3. conflicts \in [Node -> Nat] /\ mishaps \in Nat
  BY DEF TypeInv, RegistryTypes
<1>4. CASE Continue(n)
  <2>1. conflicts' \in [Node -> Nat] /\ mishaps' \in Nat
    BY <1>2, <1>3, <1>4 DEF Continue, MarkersLeft, GiveUp, GoOn, replayVars
  <2>. QED BY <1>4, <2>1 DEF Continue, AtStep, taskVars, Replay
<1>5. CASE Replay(n)
  <2>1. conflicts' \in [Node -> Nat] /\ mishaps' \in Nat
    BY <1>1, <1>2, <1>3, <1>5
       DEF Replay, ReplayPending, AtHead, GoesThrough, StopsFirst, FallsBack, DropsCheckpoint
  <2>. QED BY <1>5, <2>1 DEF Replay, AtStep, taskVars, Continue
<1>. QED BY <1>4, <1>5

\* The gates keep the types.
LEMMA GateTypes ==
  ASSUME TypeInv, NEW n \in Node, Continue(n) \/ Replay(n),
         Outcome(n), GitTypes', pending' \subseteq pending, claims' = claims,
         behind' \subseteq behind \cup {n},
         \E s \in {"serve", "replay"} : call' = [call EXCEPT !.step = s]
  PROVE  TypeInv'
<1>. USE TypesOf
<1>1. /\ marked' \subseteq Node /\ disarmed' \subseteq Node
      /\ snapshot' \in [Node -> [loaded : BOOLEAN, files : SUBSET File]]
  <2>1. /\ marked' \in {marked, marked \ {n}, marked \cup {n}}
        /\ disarmed' \in {disarmed, disarmed \cup {n}}
        /\ snapshot' \in {snapshot, [snapshot EXCEPT ![n] = Unloaded]}
    BY Zenon DEF Outcome, Untouched, GivenUp, CaughtUp, Halted, Dropped
  <2>2. Unloaded \in [loaded : BOOLEAN, files : SUBSET File]
    BY DEF Unloaded
  <2>. QED BY <2>1, <2>2 DEF RegistryTypes
<1>2. RegistryTypes'
  BY <1>1, GateFrame DEF RegistryTypes
<1>3. call.node \in Node
  BY GateFrame
<1>4. /\ call' \in GateCall /\ call'.node \in Node
      /\ call'.tool = call.tool /\ call'.file = call.file
  BY <1>3 DEF CallTypes, GateCall
<1>5. call.tool # "none"
  BY <1>3, ReplayAssumption DEF CallTypes, NoCall
<1>6. CallTypes'
  BY <1>4, <1>5, GateFrame DEF CallTypes
<1>. QED BY <1>2, <1>6, GateFrame DEF TypeInv

\* So do the steps that end a task.
LEMMA EndTypes ==
  ASSUME TypeInv, NEW n \in Node,
         \/ Register(n) \/ Merge(n) \/ Attach(n)
         \/ \E verdict \in {"waiting", "failing"} : EndPhase(n, verdict)
         \/ SettleMerged(n) \/ SettleFailed(n) \/ SettleReset(n)
  PROVE  TypeInv'
<1>. USE TypesOf
<1>1. CASE Register(n) \/ (\E verdict \in {"waiting", "failing"} : EndPhase(n, verdict))
  <2>1. task' \in [Node -> Places]
    BY <1>1 DEF Register, EndPhase, Places
  <2>. QED BY <1>1, <2>1 DEF Register, EndPhase, TypeInv, GitTypes, CallTypes, RegistryTypes,
                gitVars, replayVars, claimVars, callVars, history
<1>2. CASE Merge(n)
  <2>. DEFINE tip == IF rebase[n].on THEN head[n] ELSE work[n]
  <2>1. tip \in Tree /\ Both(integration, tip) \in Tree
    BY TreeTypes DEF GitTypes
  <2>2. [rebase EXCEPT ![n].unmerged = {}, ![n].markers = {}] \in [Node -> RebaseState]
    BY DEF GitTypes, RebaseState
  <2>3. task' \in [Node -> Places] /\ GitTypes'
    BY <1>2, <2>1, <2>2 DEF Merge, Places, GitTypes
  <2>. QED BY <1>2, <2>3 DEF Merge, TypeInv, CallTypes, RegistryTypes,
                replayVars, claimVars, callVars, history
<1>3. CASE Attach(n)
  <2>1. task' \in [Node -> Places] /\ Registered \subseteq Node
    BY <1>3 DEF Attach, Places, Registered
  <2>. QED BY <1>3, <2>1 DEF Attach, TypeInv, GitTypes, CallTypes, RegistryTypes,
                gitVars, claimVars, callVars
<1>4. CASE Settled(n) /\ GitTypes' /\ task' \in [Node -> Places] /\ abandoned' \subseteq File
  <2>1. claims' \in [NewFile -> Node \cup {NoNode}]
    BY <1>4 DEF Settled, RegistryTypes
  <2>2. made' \in [Node -> SUBSET File]
    BY <1>4 DEF Settled, RegistryTypes
  <2>. QED BY <1>4, <2>1, <2>2 DEF Settled, TypeInv, CallTypes, RegistryTypes, callVars
<1>5. CASE SettleMerged(n)
  <2>1. GitTypes' /\ task' \in [Node -> Places] /\ abandoned' \subseteq File
    BY <1>5, TreeTypes DEF SettleMerged, Settled, GitTypes, Places, RegistryTypes
  <2>. QED BY <1>4, <1>5, <2>1 DEF SettleMerged
<1>6. CASE SettleFailed(n)
  <2>1. GitTypes' /\ task' \in [Node -> Places] /\ abandoned' \subseteq File
    BY <1>6 DEF SettleFailed, Settled, GitTypes, Places, RegistryTypes
  <2>. QED BY <1>4, <1>6, <2>1 DEF SettleFailed
<1>7. CASE SettleReset(n)
  <2>1. GitTypes' /\ task' \in [Node -> Places] /\ abandoned' \subseteq File
    BY <1>7, TreeTypes DEF SettleReset, Settled, GitTypes, Places, RegistryTypes
  <2>. QED BY <1>4, <1>7, <2>1 DEF SettleReset
<1>. QED BY <1>1, <1>2, <1>3, <1>5, <1>6, <1>7

\* What the gates of a call do, in one place.
LEMMA GateStep ==
  ASSUME Core, NEW n \in Node, Continue(n) \/ Replay(n)
  PROVE  /\ Outcome(n) /\ OnlyOf(n) /\ TypeInv' /\ integration' = integration
         /\ claims' = claims /\ task[n] = "running" /\ n \notin disarmed
         /\ behind \subseteq behind' \cup {n} /\ behind' \subseteq behind \cup {n}
         /\ pending' \in {pending, pending \ {n}}
         /\ \/ call' = [call EXCEPT !.step = "serve"]
            \/ /\ call' = [call EXCEPT !.step = "replay"] /\ GivenUp(n)
               /\ disarmed' = disarmed
<1>1. TypeInv /\ Directory(n) /\ Placed(n) /\ CallInv
  BY DEF Core
<1>2. task[n] = "running" /\ call.node = n /\ n \notin disarmed
  BY <1>1, GateFrame DEF Placed, CallInv
<1>3. CASE Continue(n)
  <2>1. rebase[n].on
    BY <1>1, <1>2, <1>3, GateFrame DEF Placed, CallInv
  <2>2. /\ Outcome(n) /\ OnlyOf(n) /\ GitTypes' /\ integration' = integration
        /\ pending' = pending /\ claims' = claims
        /\ Untouched(n) => behind' = behind
        /\ \/ call' = [call EXCEPT !.step = "serve"]
           \/ /\ call' = [call EXCEPT !.step = "replay"] /\ GivenUp(n)
              /\ disarmed' = disarmed
    BY <1>1, <1>3, <2>1, ContinueOutcome
  <2>3. behind \subseteq behind' \cup {n} /\ behind' \subseteq behind \cup {n}
    <3>1. behind' \in {behind, behind \cup {n}, behind \ {n}}
      BY <2>2, Zenon DEF Outcome, GivenUp, CaughtUp, Halted, Dropped
    <3>. QED BY <3>1
  <2>4. TypeInv'
    BY <1>1, <1>3, <2>2, <2>3, GateTypes
  <2>. QED BY <1>2, <2>2, <2>3, <2>4
<1>4. CASE Replay(n)
  <2>1. ~rebase[n].on /\ n \notin marked
    BY <1>1, <1>2, <1>4, GateFrame DEF Placed, CallInv
  <2>2. /\ Outcome(n) /\ OnlyOf(n) /\ GitTypes' /\ integration' = integration
        /\ pending' = pending \ {n} /\ claims' = claims
        /\ behind \subseteq behind' \cup {n} /\ behind' \subseteq behind \cup {n}
        /\ call' = [call EXCEPT !.step = "serve"]
    BY <1>1, <1>4, <2>1, ReplayDone
  <2>3. TypeInv'
    BY <1>1, <1>4, <2>2, GateTypes
  <2>. QED BY <1>2, <2>2, <2>3
<1>. QED BY <1>3, <1>4

\* A directory that nothing touches stays as it was.
LEMMA DirectoryFrame ==
  ASSUME NEW m \in Node, Directory(m), base'[m] = base[m], head'[m] = head[m],
         work'[m] = work[m], rebase'[m] = rebase[m], leftover'[m] = leftover[m]
  PROVE  Directory(m)'
BY DEF Directory, LeftoverKept, Suspended, Kept, Exists

\* A rebase left behind is aborted or stays what it was.
LEMMA LeftoverFrame ==
  ASSUME NEW m \in Node, LeftoverKept(m), leftover'[m] \in {leftover[m], NoLeftover}
  PROVE  LeftoverKept(m)'
BY DEF LeftoverKept, NoLeftover, Kept

\* A task that nothing touches stays where it was.
LEMMA PlacedFrame ==
  ASSUME NEW m \in Node, TypeInv, Placed(m), task'[m] = task[m], rebase'[m] = rebase[m],
         snapshot'[m] = snapshot[m], head'[m] = head[m], Kept(integration, integration'),
         m \in marked' <=> m \in marked,
         m \in pending' /\ m \notin pending => task[m] \in {"running", "waiting", "landed",
                                                             "merged", "refused", "failing"},
         made'[m] = made[m], flight'[m] = flight[m],
         call'.node = m => task[m] = "running"
  PROVE  Placed(m)'
<1>1. Kept(head[m], integration) => Kept(head'[m], integration')
  BY DEF Kept
<1>. QED BY <1>1 DEF Placed, Kept

\* A rebase that is not in progress leaves the directory over its branch.
LEMMA WholeDirectory ==
  ASSUME NEW m \in Node, ~rebase'[m].on, LeftoverKept(m)',
         Kept(base'[m], head'[m]), Kept(head'[m], work'[m])
  PROVE  Directory(m)'
BY DEF Directory, Kept

-----------------------------------------------------------------------------
(* Every step keeps the core invariant. *)

\* A task that starts.
LEMMA OpenCore ==
  ASSUME Core, NEW n \in Node, Open(n)
  PROVE  Core'
<1>1. /\ TypeInv /\ TypeInv' /\ CallInv /\ call = NoCall /\ call' = call
      /\ \A m \in Node : Directory(m) /\ Placed(m)
  BY OpenTypes DEF Core, Open, LoopIsFree, callVars
<1>2. /\ n \notin marked /\ n \notin pending /\ made[n] = {} /\ flight[n] = {}
      /\ marked' = marked /\ pending' = pending /\ made' = made /\ flight' = flight
      /\ disarmed' = disarmed \ {n} /\ snapshot' = [snapshot EXCEPT ![n] = Unloaded]
  BY <1>1 DEF Open, Placed, callVars
<1>3. GitTypes /\ RegistryTypes /\ task \in [Node -> Places]
  BY <1>1 DEF TypeInv
<1>4. \/ /\ task' = [task EXCEPT ![n] = "broken"] /\ UNCHANGED <<gitVars, behind>>
      \/ /\ task' = [task EXCEPT ![n] = "opening"]
         /\ rebase' = [rebase EXCEPT ![n] = NoRebase]
         /\ leftover' \in {leftover, [leftover EXCEPT ![n] = [on |-> TRUE, orig |-> head[n],
                                                              base |-> base[n]]]}
         /\ \/ /\ base' = [base EXCEPT ![n] = integration]
               /\ head' = [head EXCEPT ![n] = integration]
               /\ work' = [work EXCEPT ![n] = integration]
            \/ /\ base' = base /\ head' = head
               /\ work' = [work EXCEPT ![n] = head[n]] \/ (work' = work /\ ~rebase[n].on)
         /\ behind' \in {behind \ {n}, behind \cup {n}}
         /\ UNCHANGED integration
  BY DEF Open, Prepare
<1>5. integration' = integration /\ behind \ {n} \subseteq behind'
  BY <1>4 DEF gitVars
<1>6. CallInv'
  BY <1>1, <1>2, <1>5 DEF CallInv, NoCall
<1>7. ASSUME NEW m \in Node, m # n PROVE Directory(m)' /\ Placed(m)'
  <2>1. /\ base'[m] = base[m] /\ head'[m] = head[m] /\ work'[m] = work[m]
        /\ rebase'[m] = rebase[m] /\ task'[m] = task[m] /\ leftover'[m] = leftover[m]
    BY <1>3, <1>4, <1>7 DEF gitVars, GitTypes
  <2>2. snapshot'[m] = snapshot[m] /\ call'.node # m
    BY <1>1, <1>2, <1>3, <1>7, ReplayAssumption DEF RegistryTypes, NoCall
  <2>3. Kept(integration, integration')
    BY <1>3, <1>5, KeptFacts DEF GitTypes
  <2>. QED BY <1>1, <1>2, <2>1, <2>2, <2>3, DirectoryFrame, PlacedFrame
<1>8. Directory(n)'
  <2>1. CASE UNCHANGED gitVars
    BY <1>1, <2>1, DirectoryFrame DEF gitVars
  <2>2. CASE /\ rebase' = [rebase EXCEPT ![n] = NoRebase]
             /\ leftover' \in {leftover, [leftover EXCEPT ![n] = [on |-> TRUE, orig |-> head[n],
                                                                  base |-> base[n]]]}
             /\ \/ /\ base' = [base EXCEPT ![n] = integration]
                   /\ head' = [head EXCEPT ![n] = integration]
                   /\ work' = [work EXCEPT ![n] = integration]
                \/ /\ base' = base /\ head' = head
                   /\ work' = [work EXCEPT ![n] = head[n]] \/ (work' = work /\ ~rebase[n].on)
    <3>1. ~rebase'[n].on
      BY <1>3, <2>2 DEF GitTypes, NoRebase
    <3>2. /\ Kept(integration, integration) /\ Kept(base[n], head[n]) /\ Kept(head[n], head[n])
          /\ LeftoverKept(n) /\ (~rebase[n].on => Kept(head[n], work[n]))
      BY <1>1, <1>3, KeptFacts DEF Directory, GitTypes
    <3>3. Kept(base'[n], head'[n]) /\ Kept(head'[n], work'[n])
      <4>1. \/ /\ base'[n] = integration /\ head'[n] = integration
               /\ work'[n] = integration
            \/ /\ base'[n] = base[n] /\ head'[n] = head[n]
               /\ work'[n] = head[n] \/ (work'[n] = work[n] /\ ~rebase[n].on)
        BY <1>3, <2>2 DEF GitTypes
      <4>. QED BY <3>2, <4>1
    <3>4. LeftoverKept(n)'
      <4>1. CASE leftover' = leftover
        BY <3>2, <4>1, LeftoverFrame
      <4>2. CASE leftover' = [leftover EXCEPT ![n] = [on |-> TRUE, orig |-> head[n],
                                                      base |-> base[n]]]
        <5>1. leftover'[n].base = base[n] /\ leftover'[n].orig = head[n]
          BY <1>3, <4>2 DEF GitTypes
        <5>. QED BY <3>2, <5>1 DEF LeftoverKept, Kept
      <4>. QED BY <2>2, <4>1, <4>2
    <3>. QED BY <3>1, <3>3, <3>4, WholeDirectory
  <2>. QED BY <1>4, <2>1, <2>2
<1>9. Placed(n)'
  <2>1. task'[n] \in {"opening", "broken"} /\ snapshot'[n] = Unloaded /\ call'.node # n
    BY <1>1, <1>2, <1>3, <1>4, ReplayAssumption DEF RegistryTypes, NoCall
  <2>2. task'[n] = "opening" => ~rebase'[n].on
    BY <1>3, <1>4 DEF GitTypes, NoRebase
  <2>. QED BY <1>2, <2>1, <2>2 DEF Placed
<1>. QED BY <1>1, <1>6, <1>7, <1>8, <1>9 DEF Core

\* A call of a file tool that starts: in a rebase it goes to what is unmerged.
LEMMA StartCallCore ==
  ASSUME Core, NEW n \in Node, NEW f \in File, NEW tool \in {"read", "edit", "create"},
         StartCall(n, f, tool)
  PROVE  Core'
<1>1. /\ TypeInv /\ TypeInv' /\ CallInv /\ task[n] = "running"
      /\ \A m \in Node : Directory(m) /\ Placed(m)
  BY CallTypesStep DEF Core, StartCall
<1>2. GitTypes /\ RegistryTypes
  BY <1>1 DEF TypeInv
<1>3. UNCHANGED <<taskVars, gitVars, replayVars, flight, mishaps, history>>
  BY DEF StartCall
<1>4. \A m \in Node \ {n} : snapshot'[m] = snapshot[m]
  BY <1>2 DEF StartCall, RegistryTypes
<1>5. call'.node \in {n, NoNode}
  BY DEF StartCall, NoCall
<1>6. \A m \in Node : Directory(m)'
  BY <1>1, <1>3, DirectoryFrame DEF gitVars
<1>7. ASSUME NEW m \in Node, m # n PROVE Placed(m)'
  <2>1. call'.node # m /\ snapshot'[m] = snapshot[m] /\ Kept(integration, integration')
    BY <1>2, <1>3, <1>4, <1>5, <1>7, ReplayAssumption, KeptFacts DEF gitVars, GitTypes
  <2>. QED BY <1>1, <1>3, <2>1, PlacedFrame DEF taskVars, gitVars, replayVars, history
<1>8. Placed(n)'
  <2>1. Placed(n) /\ task'[n] = "running"
    BY <1>1, <1>3 DEF taskVars
  <2>. QED BY <1>3, <2>1 DEF Placed, gitVars, replayVars, taskVars
<1>9. CallInv'
  <2>1. CASE CallBlocked(n, f, tool)
    BY <1>1, <1>3, <2>1 DEF CallInv, StartCall, NoCall, replayVars, history
  <2>2. CASE ~CallBlocked(n, f, tool)
    <3>1. /\ call'.node = n /\ call'.tool = tool
          /\ tool # "read" => call'.file = f
          /\ call'.step = IF n \in disarmed THEN "serve"
                          ELSE IF n \in marked THEN "continue" ELSE "replay"
      BY <2>2 DEF StartCall
    <3>2. n \in marked => rebase[n].unmerged # {}
      BY <1>1 DEF Placed
    <3>3. n \in marked /\ tool # "read" => f \in rebase[n].unmerged
      BY <2>2, <3>2 DEF CallBlocked, Refused
    <3>. QED BY <1>1, <1>3, <3>1, <3>3 DEF CallInv, replayVars, history, gitVars
  <2>. QED BY <2>1, <2>2
<1>. QED BY <1>1, <1>6, <1>7, <1>8, <1>9 DEF Core

\* The gates of a call: the directory is as an outcome says, and the gate stands
\* down only over a rebase that was given up.
LEMMA GateCore ==
  ASSUME Core, NEW n \in Node, Continue(n) \/ Replay(n)
  PROVE  Core'
<1>1. /\ TypeInv /\ TypeInv' /\ CallInv /\ task[n] = "running" /\ n \notin disarmed
      /\ \A m \in Node : Directory(m) /\ Placed(m)
  BY GateStep DEF Core
<1>2. GitTypes /\ GitTypes' /\ CallTypes /\ RegistryTypes
  BY <1>1 DEF TypeInv
<1>3. /\ Outcome(n) /\ OnlyOf(n) /\ integration' = integration
      /\ behind \subseteq behind' \cup {n} /\ pending' \in {pending, pending \ {n}}
  BY GateStep
<1>4. /\ call.node = n /\ task' = task /\ flight' = flight /\ made' = made
  BY <1>1, GateFrame
<1>5. call'.node = n
  BY <1>4, GateStep, <1>2 DEF CallTypes, GateCall
<1>6. marked' \in {marked, marked \ {n}, marked \cup {n}}
  BY <1>3, Zenon DEF Outcome, Untouched, GivenUp, CaughtUp, Halted, Dropped
<1>7. ASSUME NEW m \in Node, m # n PROVE Directory(m)' /\ Placed(m)'
  <2>1. /\ base'[m] = base[m] /\ head'[m] = head[m] /\ work'[m] = work[m]
        /\ rebase'[m] = rebase[m] /\ snapshot'[m] = snapshot[m] /\ leftover'[m] = leftover[m]
    BY <1>3, <1>7 DEF OnlyOf
  <2>2. call'.node # m /\ Kept(integration, integration')
    BY <1>2, <1>3, <1>5, <1>7, KeptFacts DEF GitTypes
  <2>3. (m \in marked' <=> m \in marked) /\ (m \in pending' => m \in pending)
    BY <1>3, <1>6, <1>7
  <2>. QED BY <1>1, <1>4, <2>1, <2>2, <2>3, DirectoryFrame, PlacedFrame
<1>8. /\ leftover'[n] \in {leftover[n], NoLeftover}
      /\ \/ /\ base'[n] = base[n] /\ head'[n] = head[n] /\ work'[n] = work[n]
            /\ rebase'[n] = rebase[n] /\ leftover'[n] = leftover[n]
         \/ ~rebase'[n].on /\ Kept(base'[n], head'[n]) /\ Kept(head'[n], work'[n])
         \/ rebase'[n].on /\ Kept(base'[n], head'[n]) /\ Suspended(n)'
  <2>1. CASE Untouched(n)
    BY <2>1 DEF Untouched
  <2>2. CASE GivenUp(n)
    BY <2>2 DEF GivenUp, NoRebase
  <2>3. CASE CaughtUp(n)
    BY <2>3 DEF CaughtUp
  <2>4. CASE Halted(n)
    BY <2>4 DEF Halted
  <2>5. CASE Dropped(n)
    <3>1. Kept(leftover[n].base, leftover[n].orig) /\ leftover[n].orig \in Tree
      BY <1>1, <1>2, <2>5 DEF Directory, LeftoverKept, Dropped, GitTypes, LeftoverState
    <3>2. Kept(leftover[n].orig, leftover[n].orig)
      BY <3>1, KeptFacts
    <3>. QED BY <2>5, <3>1, <3>2 DEF Dropped
  <2>. QED BY <1>3, <2>1, <2>2, <2>3, <2>4, <2>5 DEF Outcome
<1>9. Directory(n)'
  <2>0. LeftoverKept(n)'
    <3>1. LeftoverKept(n)
      BY <1>1 DEF Directory
    <3>. QED BY <1>8, <3>1, LeftoverFrame
  <2>1. CASE /\ base'[n] = base[n] /\ head'[n] = head[n] /\ work'[n] = work[n]
             /\ rebase'[n] = rebase[n] /\ leftover'[n] = leftover[n]
    BY <1>1, <2>1, DirectoryFrame
  <2>2. CASE ~rebase'[n].on /\ Kept(base'[n], head'[n]) /\ Kept(head'[n], work'[n])
    BY <2>0, <2>2, WholeDirectory
  <2>3. CASE rebase'[n].on /\ Kept(base'[n], head'[n]) /\ Suspended(n)'
    BY <2>0, <2>3 DEF Directory, Kept
  <2>. QED BY <1>8, <2>1, <2>2, <2>3
<1>10. /\ n \in marked' <=> rebase'[n].on
       /\ rebase'[n].on => rebase'[n].unmerged # {}
       /\ \/ disarmed' = disarmed
          \/ n \in behind' /\ disarmed' = disarmed \cup {n}
  <2>1. /\ n \in marked <=> rebase[n].on
        /\ rebase[n].on => rebase[n].unmerged # {}
    BY <1>1 DEF Placed
  <2>2. CASE Untouched(n)
    BY <2>1, <2>2 DEF Untouched
  <2>3. CASE GivenUp(n)
    BY <2>3 DEF GivenUp, NoRebase
  <2>4. CASE CaughtUp(n)
    BY <2>4 DEF CaughtUp
  <2>5. CASE Halted(n)
    BY <2>5 DEF Halted
  <2>6. CASE Dropped(n)
    BY <2>1, <2>6 DEF Dropped
  <2>. QED BY <1>3, <2>2, <2>3, <2>4, <2>5, <2>6 DEF Outcome
<1>11. Placed(n)'
  BY <1>1, <1>4, <1>10 DEF Placed
<1>12. CallInv'
  <2>1. disarmed' \subseteq behind'
    BY <1>1, <1>3, <1>10 DEF CallInv
  <2>2. CASE call' = [call EXCEPT !.step = "serve"]
    <3>1. call'.step = "serve"
      BY <1>2, <2>2 DEF CallTypes, GateCall
    <3>. QED BY <2>1, <3>1 DEF CallInv
  <2>3. CASE call' = [call EXCEPT !.step = "replay"] /\ GivenUp(n) /\ disarmed' = disarmed
    <3>1. call'.step = "replay" /\ n \notin marked'
      BY <1>2, <2>3 DEF CallTypes, GateCall, GivenUp
    <3>. QED BY <1>1, <1>5, <2>1, <2>3, <3>1 DEF CallInv
  <2>. QED BY <2>2, <2>3, GateStep
<1>. QED BY <1>1, <1>7, <1>9, <1>11, <1>12 DEF Core

\* The tool of a call, started and finished: a write only adds to the directory.
LEMMA ToolCore ==
  ASSUME Core, NEW n \in Node, Serve(n) \/ \E c \in flight[n] : EndCall(n, c)
  PROVE  Core'
<1>1. /\ TypeInv /\ TypeInv' /\ CallInv
      /\ \A m \in Node : Directory(m) /\ Placed(m)
  BY CallTypesStep DEF Core
<1>2. GitTypes /\ GitTypes' /\ CallTypes /\ RegistryTypes
  BY <1>1 DEF TypeInv
<1>3. CASE Serve(n)
  <2>1. /\ UNCHANGED <<taskVars, gitVars, replayVars, claimVars, edits, mishaps, history>>
        /\ call' = NoCall /\ task[n] = "running"
        /\ \A m \in Node \ {n} : flight'[m] = flight[m]
    BY <1>1, <1>2, <1>3 DEF Serve, AtStep, Placed, CallTypes
  <2>2. \A m \in Node : Directory(m)'
    BY <1>1, <2>1, DirectoryFrame DEF gitVars
  <2>3. \A m \in Node : call'.node # m
    BY <2>1, ReplayAssumption DEF NoCall
  <2>4. \A m \in Node : m # n => Placed(m)'
    BY <1>1, <1>2, <2>1, <2>3, PlacedFrame, KeptFacts
       DEF taskVars, gitVars, replayVars, claimVars, history, GitTypes
  <2>5. Placed(n)'
    <3>1. Placed(n)
      BY <1>1
    <3>. QED BY <2>1, <3>1 DEF Placed, taskVars, gitVars, replayVars, claimVars, history
  <2>6. CallInv'
    BY <1>1, <2>1 DEF CallInv, NoCall, replayVars, history
  <2>. QED BY <1>1, <2>2, <2>4, <2>5, <2>6 DEF Core
<1>4. ASSUME NEW c \in flight[n], EndCall(n, c) PROVE Core'
  <2>1. task[n] = "running"
    BY <1>1, <1>4 DEF Placed
  <2>2. UNCHANGED <<taskVars, integration, base, head, leftover, replayVars, claimVars, call,
                    edits, mishaps, behind, abandoned>>
    BY <1>4 DEF EndCall
  <2>3. \A m \in Node \ {n} : /\ work'[m] = work[m] /\ rebase'[m] = rebase[m]
                              /\ made'[m] = made[m] /\ flight'[m] = flight[m]
    BY <1>2, <1>4 DEF EndCall, GitTypes, RegistryTypes, CallTypes
  <2>4. \A f \in File : work[n][f] \subseteq work'[n][f]
    <3>1. \/ work' = work
          \/ work'[n] = [work[n] EXCEPT ![c.file] = @ \cup {<<n, c.id>>}]
      BY <1>2, <1>4 DEF EndCall, GitTypes
    <3>2. work[n] \in Tree
      BY <1>2 DEF GitTypes
    <3>. QED BY <3>1, <3>2 DEF Tree
  <2>5. /\ rebase'[n].on = rebase[n].on /\ rebase'[n].before = rebase[n].before
        /\ rebase'[n].onto = rebase[n].onto /\ rebase'[n].tree = rebase[n].tree
        /\ rebase'[n].unmerged = rebase[n].unmerged
    <3>1. rebase[n] \in RebaseState
      BY <1>2 DEF GitTypes
    <3>. QED BY <1>2, <1>4, <3>1 DEF EndCall, RebaseState, GitTypes
  <2>6. Directory(n)'
    <3>1. LeftoverKept(n)'
      BY <1>1, <2>2, LeftoverFrame DEF Directory
    <3>. QED BY <1>1, <2>2, <2>4, <2>5, <3>1 DEF Directory, Suspended, Kept, Exists
  <2>7. Placed(n)'
    <3>1. Placed(n)
      BY <1>1
    <3>. QED BY <2>1, <2>2, <2>5, <3>1 DEF Placed, taskVars, replayVars, claimVars
  <2>8. ASSUME NEW m \in Node, m # n PROVE Directory(m)' /\ Placed(m)'
    <3>1. Kept(integration, integration') /\ (call'.node = m => task[m] = "running")
      BY <1>1, <1>2, <2>2, KeptFacts DEF GitTypes, Placed
    <3>. QED BY <1>1, <2>2, <2>3, <2>8, <3>1, DirectoryFrame, PlacedFrame
             DEF taskVars, replayVars, claimVars
  <2>9. CallInv'
    <3>1. \A m \in Node : rebase'[m].unmerged = rebase[m].unmerged
      BY <2>3, <2>5
    <3>2. call.step = "continue" => call.node \in Node
      BY <1>2 DEF CallTypes
    <3>. QED BY <1>1, <2>2, <3>1, <3>2 DEF CallInv, replayVars
  <2>. QED BY <1>1, <2>6, <2>7, <2>8, <2>9 DEF Core
<1>. QED BY <1>3, <1>4

\* A task that is registered, or whose phase ends, keeps its directory.
LEMMA PhaseCore ==
  ASSUME Core, NEW n \in Node,
         Register(n) \/ \E verdict \in {"waiting", "failing"} : EndPhase(n, verdict)
  PROVE  Core'
<1>1. /\ TypeInv /\ TypeInv' /\ CallInv
      /\ \A m \in Node : Directory(m) /\ Placed(m)
  BY EndTypes DEF Core
<1>2. GitTypes /\ task \in [Node -> Places]
  BY <1>1 DEF TypeInv
<1>3. /\ UNCHANGED <<started, gitVars, replayVars, claimVars, callVars, mishaps, history>>
      /\ call = NoCall
      /\ \/ task[n] = "opening" /\ task' = [task EXCEPT ![n] = "running"]
         \/ /\ flight[n] = {} /\ task[n] = "running"
            /\ \E verdict \in {"waiting", "failing"} : task' = [task EXCEPT ![n] = verdict]
  BY DEF Register, EndPhase, LoopIsFree
<1>4. \A m \in Node : Directory(m)' /\ call'.node # m
  BY <1>1, <1>3, DirectoryFrame, ReplayAssumption DEF gitVars, callVars, NoCall
<1>5. ASSUME NEW m \in Node, m # n PROVE Placed(m)'
  <2>1. task'[m] = task[m] /\ Kept(integration, integration')
    BY <1>2, <1>3, <1>5, KeptFacts DEF GitTypes, gitVars
  <2>. QED BY <1>1, <1>3, <1>4, <2>1, PlacedFrame
           DEF gitVars, replayVars, claimVars, callVars, history
<1>6. Placed(n)'
  <2>1. Placed(n) /\ call'.node # n
    BY <1>1, <1>4
  <2>2. CASE task[n] = "opening" /\ task' = [task EXCEPT ![n] = "running"]
    BY <1>2, <1>3, <2>1, <2>2
       DEF Placed, gitVars, replayVars, claimVars, callVars, history
  <2>3. CASE /\ flight[n] = {} /\ task[n] = "running"
             /\ \E verdict \in {"waiting", "failing"} : task' = [task EXCEPT ![n] = verdict]
    <3>1. task'[n] \in {"waiting", "failing"} /\ flight'[n] = {}
      BY <1>2, <1>3, <2>3 DEF callVars
    <3>. QED BY <2>1, <3>1 DEF Placed
  <2>. QED BY <1>3, <2>2, <2>3
<1>7. CallInv'
  BY <1>1, <1>3 DEF CallInv, gitVars, replayVars, callVars, history
<1>. QED BY <1>1, <1>4, <1>5, <1>6, <1>7 DEF Core

\* A merge moves the branch to what it brings in, and leaves no path unmerged.
LEMMA MergeCore ==
  ASSUME Core, NEW n \in Node, Merge(n)
  PROVE  Core'
<1>. DEFINE tip == IF rebase[n].on THEN head[n] ELSE work[n]
<1>1. /\ TypeInv /\ TypeInv' /\ CallInv /\ task[n] = "waiting"
      /\ \A m \in Node : Directory(m) /\ Placed(m)
  BY EndTypes DEF Core, Merge
<1>2. GitTypes /\ GitTypes' /\ task \in [Node -> Places] /\ CallTypes
  BY <1>1 DEF TypeInv
<1>3. /\ head' = [head EXCEPT ![n] = tip]
      /\ rebase' = [rebase EXCEPT ![n].unmerged = {}, ![n].markers = {}]
      /\ \/ /\ integration' = Both(integration, tip)
            /\ \E place \in {"merged", "landed"} : task' = [task EXCEPT ![n] = place]
         \/ integration' = integration /\ task' = [task EXCEPT ![n] = "refused"]
      /\ UNCHANGED <<started, base, work, leftover, replayVars, claimVars, callVars, mishaps,
                     history>>
  BY DEF Merge
<1>4. /\ tip \in Tree /\ integration \in Tree
      /\ base[n] \in Tree /\ work[n] \in Tree /\ head[n] \in Tree
  BY <1>2 DEF GitTypes
<1>. HIDE DEF tip
<1>5. /\ Kept(integration, Both(integration, tip)) /\ Kept(tip, Both(integration, tip))
      /\ Kept(integration, integration) /\ Kept(tip, tip)
  BY <1>4, KeptFacts
<1>6. Kept(integration, integration')
  BY <1>3, <1>5
<1>7. head'[n] = tip
  BY <1>2, <1>3 DEF GitTypes
<1>8. /\ rebase'[n].on = rebase[n].on /\ rebase'[n].before = rebase[n].before
      /\ rebase'[n].onto = rebase[n].onto /\ rebase'[n].tree = rebase[n].tree
      /\ rebase'[n].unmerged = {}
  <2>1. rebase[n] \in RebaseState
    BY <1>2 DEF GitTypes
  <2>. QED BY <1>2, <1>3, <2>1 DEF RebaseState, GitTypes
<1>9. Directory(n)'
  <2>0. LeftoverKept(n)'
    BY <1>1, <1>3, LeftoverFrame DEF Directory
  <2>1. CASE rebase[n].on
    <3>1. tip = head[n]
      BY <2>1 DEF tip
    <3>. QED BY <1>1, <1>3, <1>7, <1>8, <2>0, <2>1, <3>1 DEF Directory, Suspended, Kept
  <2>2. CASE ~rebase[n].on
    <3>1. tip = work[n] /\ Kept(base[n], work[n])
      BY <1>1, <1>4, <2>2, KeptFacts DEF tip, Directory
    <3>2. Kept(base'[n], head'[n]) /\ Kept(head'[n], work'[n]) /\ ~rebase'[n].on
      BY <1>3, <1>5, <1>7, <1>8, <2>2, <3>1
    <3>. QED BY <2>0, <3>2, WholeDirectory
  <2>. QED BY <2>1, <2>2
<1>10. Placed(n)'
  <2>1. /\ task'[n] \in {"merged", "landed", "refused"}
        /\ task'[n] # "refused" => Kept(head'[n], integration')
    BY <1>2, <1>3, <1>5, <1>7
  <2>2. flight'[n] = {} /\ call'.node # n
    BY <1>1, <1>3 DEF Placed, callVars
  <2>. QED BY <2>1, <2>2 DEF Placed
<1>11. ASSUME NEW m \in Node, m # n PROVE Directory(m)' /\ Placed(m)'
  <2>1. /\ head'[m] = head[m] /\ rebase'[m] = rebase[m] /\ task'[m] = task[m]
    BY <1>2, <1>3, <1>11 DEF GitTypes
  <2>2. call'.node = m => task[m] = "running"
    BY <1>1, <1>3 DEF Placed, callVars
  <2>. QED BY <1>1, <1>3, <1>6, <2>1, <2>2, DirectoryFrame, PlacedFrame
           DEF replayVars, claimVars, callVars, history
<1>12. CallInv'
  <2>1. call.node # n
    BY <1>1 DEF Placed
  <2>2. call.step = "continue" => call.node \in Node
    BY <1>2 DEF CallTypes
  <2>3. call.step = "continue" => rebase'[call.node] = rebase[call.node]
    BY <1>2, <1>3, <2>1, <2>2 DEF GitTypes
  <2>. QED BY <1>1, <1>3, <2>3 DEF CallInv, replayVars, callVars, history
<1>. QED BY <1>1, <1>9, <1>10, <1>11, <1>12 DEF Core

\* A landed merge is attached to the registered tasks.
LEMMA AttachCore ==
  ASSUME Core, NEW n \in Node, Attach(n)
  PROVE  Core'
<1>1. /\ TypeInv /\ TypeInv' /\ CallInv /\ task[n] = "landed" /\ call = NoCall
      /\ \A m \in Node : Directory(m) /\ Placed(m)
  BY EndTypes DEF Core, Attach, LoopIsFree
<1>2. GitTypes /\ task \in [Node -> Places]
  BY <1>1 DEF TypeInv
<1>3. /\ task' = [task EXCEPT ![n] = "merged"]
      /\ pending' = pending \cup (Registered \ {n}) /\ behind \subseteq behind'
      /\ UNCHANGED <<started, gitVars, marked, conflicts, disarmed, claimVars, callVars,
                     mishaps, made, abandoned>>
  BY DEF Attach
<1>4. \A m \in Node : Directory(m)' /\ call'.node # m
  BY <1>1, <1>3, DirectoryFrame, ReplayAssumption DEF gitVars, callVars, NoCall
<1>5. ASSUME NEW m \in Node, m # n PROVE Placed(m)'
  <2>1. task'[m] = task[m] /\ Kept(integration, integration')
    BY <1>2, <1>3, <1>5, KeptFacts DEF GitTypes, gitVars
  <2>2. m \in pending' /\ m \notin pending => task[m] \in {"running", "waiting", "landed",
                                                          "merged", "refused", "failing"}
    BY <1>3 DEF Registered
  <2>. QED BY <1>1, <1>3, <1>4, <2>1, <2>2, PlacedFrame DEF gitVars, claimVars, callVars
<1>6. Placed(n)'
  <2>1. task'[n] = "merged" /\ flight'[n] = {} /\ Kept(head'[n], integration')
    <3>1. Placed(n)
      BY <1>1
    <3>. QED BY <1>1, <1>2, <1>3, <3>1 DEF Placed, callVars, gitVars, Kept
  <2>. QED BY <1>4, <2>1 DEF Placed
<1>7. CallInv'
  BY <1>1, <1>3 DEF CallInv, callVars, NoCall
<1>. QED BY <1>1, <1>4, <1>5, <1>6, <1>7 DEF Core

\* What the end of a task does to its directory: it stays, or it holds one tree.
LEMMA SettledOutcome ==
  ASSUME TypeInv, NEW n \in Node, SettleMerged(n) \/ SettleFailed(n) \/ SettleReset(n)
  PROVE  /\ Settled(n) /\ task[n] \in {"merged", "failing", "refused"}
         /\ \A m \in Node \ {n} : /\ base'[m] = base[m] /\ head'[m] = head[m]
                                  /\ work'[m] = work[m] /\ rebase'[m] = rebase[m]
                                  /\ leftover'[m] = leftover[m] /\ task'[m] = task[m]
         /\ \/ /\ task'[n] = "failed" /\ UNCHANGED <<base, head, work, rebase, leftover>>
            \/ /\ task'[n] = "idle" /\ rebase'[n] = NoRebase /\ leftover'[n] = NoLeftover
               /\ base'[n] = head'[n] /\ work'[n] = head'[n]
               /\ head'[n] \in {head[n], integration}
<1>1. GitTypes /\ task \in [Node -> Places]
  BY DEF TypeInv
<1>2. CASE SettleMerged(n)
  BY <1>1, <1>2 DEF SettleMerged, GitTypes
<1>3. CASE SettleFailed(n)
  BY <1>1, <1>3 DEF SettleFailed
<1>4. CASE SettleReset(n)
  BY <1>1, <1>4 DEF SettleReset, GitTypes
<1>. QED BY <1>2, <1>3, <1>4

\* A task that is settled is unknown to the manager.
LEMMA SettleCore ==
  ASSUME Core, NEW n \in Node, SettleMerged(n) \/ SettleFailed(n) \/ SettleReset(n)
  PROVE  Core'
<1>1. /\ TypeInv /\ TypeInv' /\ CallInv /\ Settled(n)
      /\ task[n] \in {"merged", "failing", "refused"} /\ call = NoCall
      /\ \A m \in Node : Directory(m) /\ Placed(m)
  BY EndTypes, SettledOutcome DEF Core, Settled, LoopIsFree
<1>2. GitTypes /\ GitTypes' /\ RegistryTypes
  BY <1>1 DEF TypeInv
<1>3. /\ marked' = marked \ {n} /\ pending' = pending \ {n} /\ integration' = integration
      /\ made' = [made EXCEPT ![n] = {}] /\ call' = call /\ flight' = flight
      /\ disarmed' = disarmed /\ snapshot' = snapshot /\ behind' = behind
  BY <1>1 DEF Settled, callVars
<1>4. /\ \A m \in Node \ {n} : /\ base'[m] = base[m] /\ head'[m] = head[m]
                               /\ work'[m] = work[m] /\ rebase'[m] = rebase[m]
                               /\ leftover'[m] = leftover[m] /\ task'[m] = task[m]
      /\ \/ /\ task'[n] = "failed" /\ UNCHANGED <<base, head, work, rebase, leftover>>
         \/ /\ task'[n] = "idle" /\ rebase'[n] = NoRebase /\ leftover'[n] = NoLeftover
            /\ base'[n] = head'[n] /\ work'[n] = head'[n]
  BY <1>1, SettledOutcome
<1>5. \A m \in Node : call'.node # m
  BY <1>1, <1>3, ReplayAssumption DEF NoCall
<1>6. ASSUME NEW m \in Node, m # n PROVE Directory(m)' /\ Placed(m)'
  <2>1. made'[m] = made[m] /\ Kept(integration, integration')
    BY <1>2, <1>3, <1>6, KeptFacts DEF RegistryTypes, GitTypes
  <2>. QED BY <1>1, <1>3, <1>4, <1>5, <1>6, <2>1, DirectoryFrame, PlacedFrame
<1>7. Directory(n)'
  <2>1. CASE UNCHANGED <<base, head, work, rebase, leftover>>
    BY <1>1, <2>1, DirectoryFrame
  <2>2. CASE /\ rebase'[n] = NoRebase /\ leftover'[n] = NoLeftover
             /\ base'[n] = head'[n] /\ work'[n] = head'[n]
    <3>1. Kept(head'[n], head'[n]) /\ ~rebase'[n].on /\ LeftoverKept(n)'
      BY <1>1, <1>2, <2>2, KeptFacts, LeftoverFrame DEF GitTypes, NoRebase, Directory
    <3>. QED BY <2>2, <3>1, WholeDirectory
  <2>. QED BY <1>4, <2>1, <2>2
<1>8. Placed(n)'
  <2>1. /\ task'[n] \in {"failed", "idle"} /\ n \notin marked' /\ n \notin pending'
        /\ made'[n] = {} /\ (task'[n] = "idle" => ~rebase'[n].on)
    BY <1>2, <1>3, <1>4 DEF RegistryTypes, NoRebase
  <2>2. flight'[n] = {}
    BY <1>1, <1>3 DEF Placed
  <2>. QED BY <1>5, <2>1, <2>2 DEF Placed
<1>9. CallInv'
  BY <1>1, <1>3 DEF CallInv, NoCall
<1>. QED BY <1>1, <1>6, <1>7, <1>8, <1>9 DEF Core

\* The core invariant holds before the first task.
LEMMA CoreInit == ASSUME Init PROVE Core
<1>1. /\ Empty \in Tree /\ NoRebase \in RebaseState /\ NoCall \in GateCall
      /\ Kept(Empty, Empty) /\ NoLeftover \in LeftoverState
  BY TreeTypes, KeptFacts
<1>2. GitTypes
  BY <1>1 DEF Init, GitTypes
<1>3. CallTypes
  BY <1>1 DEF Init, CallTypes, NoCall
<1>4. RegistryTypes
  BY DEF Init, RegistryTypes, NewFile, Unloaded
<1>5. TypeInv
  BY <1>2, <1>3, <1>4 DEF Init, TypeInv, Places
<1>6. \A m \in Node : Directory(m)
  BY <1>1 DEF Init, Directory, NoRebase, NoLeftover, LeftoverKept
<1>7. \A m \in Node : Placed(m)
  BY ReplayAssumption DEF Init, Placed, NoCall, NoRebase
<1>8. CallInv
  BY DEF Init, CallInv, NoCall
<1>. QED BY <1>5, <1>6, <1>7, <1>8 DEF Core

\* No step breaks it.
LEMMA CoreStep == ASSUME Core, [Next]_vars PROVE Core'
<1>1. CASE UNCHANGED vars
  <2>1. TypeInv'
    BY <1>1 DEF Core, TypeInv, GitTypes, CallTypes, RegistryTypes, vars, taskVars, gitVars,
                replayVars, claimVars, callVars, history
  <2>2. \A m \in Node : Directory(m)'
    BY <1>1, DirectoryFrame DEF Core, vars, gitVars
  <2>3. \A m \in Node : Placed(m)'
    BY <1>1 DEF Core, Placed, vars, taskVars, gitVars, replayVars, claimVars, callVars,
                history, Kept
  <2>4. CallInv'
    BY <1>1 DEF Core, CallInv, vars, gitVars, replayVars, callVars, history
  <2>. QED BY <2>1, <2>2, <2>3, <2>4 DEF Core
<1>2. CASE Next
  BY <1>2, OpenCore, PhaseCore, StartCallCore, GateCore, ToolCore, MergeCore, AttachCore,
     SettleCore DEF Next
<1>. QED BY <1>1, <1>2

\* Every reachable state has its types.
THEOREM TypeCorrect == Spec => []TypeInv
<1>. QED BY CoreInit, CoreStep, PTL DEF Spec, Core

-----------------------------------------------------------------------------
(* A gate that stood down works outside a rebase. *)

\* No step makes a gate stand down inside a rebase, or starts one behind it.
LEMMA StoodDownStep ==
  ASSUME Core, StoodDownIsOutside, [Next]_vars
  PROVE  StoodDownIsOutside'
<1>1. /\ TypeInv /\ GitTypes /\ \A m \in Node : Placed(m)
  BY DEF Core, TypeInv
<1>2. SUFFICES \/ disarmed' \subseteq disarmed /\ \A m \in disarmed' : rebase'[m].on => rebase[m].on
               \/ \E n \in Node : /\ ~rebase'[n].on /\ disarmed' \subseteq disarmed \cup {n}
                                  /\ \A m \in Node \ {n} : rebase'[m].on = rebase[m].on
               \/ \E n \in Node : /\ n \notin disarmed /\ disarmed' \subseteq disarmed
                                  /\ \A m \in Node \ {n} : rebase'[m].on = rebase[m].on
  <2>1. disarmed' \subseteq Node
    BY CoreStep DEF Core, TypeInv, RegistryTypes
  <2>. QED BY <1>2, <2>1 DEF StoodDownIsOutside
<1>3. CASE UNCHANGED vars
  BY <1>3 DEF vars, gitVars, replayVars
<1>4. ASSUME NEW n \in Node, Open(n)
      PROVE  disarmed' \subseteq disarmed /\ \A m \in disarmed' : rebase'[m].on => rebase[m].on
  <2>1. disarmed' = disarmed \ {n} /\ disarmed \subseteq Node
    BY <1>1, <1>4 DEF Open, TypeInv, RegistryTypes
  <2>2. \A m \in Node \ {n} : rebase'[m] = rebase[m]
    BY <1>1, <1>4 DEF Open, Prepare, gitVars, GitTypes
  <2>. QED BY <2>1, <2>2
<1>5. ASSUME NEW n \in Node, Continue(n) \/ Replay(n)
      PROVE  \/ \E m \in Node : /\ ~rebase'[m].on /\ disarmed' \subseteq disarmed \cup {m}
                                /\ \A k \in Node \ {m} : rebase'[k].on = rebase[k].on
             \/ \E m \in Node : /\ m \notin disarmed /\ disarmed' \subseteq disarmed
                                /\ \A k \in Node \ {m} : rebase'[k].on = rebase[k].on
  <2>1. Outcome(n) /\ OnlyOf(n) /\ n \notin disarmed
    BY <1>5, GateStep
  <2>2. \A k \in Node \ {n} : rebase'[k].on = rebase[k].on
    BY <2>1 DEF OnlyOf
  <2>3. CASE GivenUp(n)
    <3>1. ~rebase'[n].on /\ disarmed' \subseteq disarmed \cup {n}
      BY <2>3 DEF GivenUp, NoRebase
    <3>. QED BY <2>2, <3>1
  <2>4. CASE Untouched(n) \/ CaughtUp(n) \/ Halted(n) \/ Dropped(n)
    <3>1. disarmed' = disarmed
      BY <2>4, Zenon DEF Untouched, CaughtUp, Halted, Dropped
    <3>. QED BY <2>1, <2>2, <3>1
  <2>. QED BY <2>1, <2>3, <2>4 DEF Outcome
<1>6. ASSUME NEW n \in Node, NEW c \in flight[n], EndCall(n, c)
      PROVE  disarmed' = disarmed /\ \A m \in Node : rebase'[m].on = rebase[m].on
  <2>1. rebase[n] \in RebaseState
    BY <1>1 DEF GitTypes
  <2>. QED BY <1>1, <1>6, <2>1 DEF EndCall, replayVars, GitTypes, RebaseState
<1>7. ASSUME NEW n \in Node, Merge(n)
      PROVE  disarmed' = disarmed /\ \A m \in Node : rebase'[m].on = rebase[m].on
  <2>1. rebase[n] \in RebaseState
    BY <1>1 DEF GitTypes
  <2>. QED BY <1>1, <1>7, <2>1 DEF Merge, replayVars, GitTypes, RebaseState
<1>8. ASSUME NEW n \in Node, SettleMerged(n) \/ SettleFailed(n) \/ SettleReset(n)
      PROVE  disarmed' = disarmed /\ \A m \in Node : rebase'[m].on => rebase[m].on
  BY <1>1, <1>8, SettledOutcome DEF Settled, NoRebase
<1>9. ASSUME NEW n \in Node,
             \/ Register(n) \/ Attach(n) \/ Serve(n)
             \/ \E verdict \in {"waiting", "failing"} : EndPhase(n, verdict)
             \/ \E f \in File, tool \in {"read", "edit", "create"} : StartCall(n, f, tool)
      PROVE  disarmed' = disarmed /\ rebase' = rebase
  BY <1>9 DEF Register, Attach, Serve, EndPhase, StartCall, gitVars, replayVars
<1>10. disarmed \subseteq Node
  BY <1>1 DEF TypeInv, RegistryTypes
<1>. QED BY <1>3, <1>4, <1>5, <1>6, <1>7, <1>8, <1>9, <1>10 DEF Next

\* A gate stands down only outside a rebase, at every limit on the conflicts.
THEOREM StoodDown == Spec => []StoodDownIsOutside
<1>1. Init => StoodDownIsOutside
  BY DEF Init, StoodDownIsOutside
<1>. QED BY <1>1, CoreInit, CoreStep, StoodDownStep, PTL DEF Spec

-----------------------------------------------------------------------------
(* No step loses what a task has checkpointed. *)

\* A tree that keeps every file's edits keeps the edits.
LEMMA EditsKept ==
  ASSUME NEW t, NEW u, Kept(t, u)
  PROVE  EditsIn(t) \subseteq EditsIn(u)
BY DEF Kept, EditsIn

\* Which steps of the others, and of the task, can touch a running task's directory.
LEMMA RunningDirectory ==
  ASSUME Core, [Next]_vars, NEW n \in Node, task[n] = "running"
  PROVE  \/ head'[n] = head[n] /\ Kept(work[n], work'[n])
         \/ Outcome(n)
<1>1. /\ TypeInv /\ GitTypes /\ GitTypes' /\ Kept(work[n], work[n])
  BY CoreStep, KeptFacts DEF Core, TypeInv, GitTypes
<1>2. CASE UNCHANGED vars
  BY <1>1, <1>2 DEF vars, gitVars
<1>3. ASSUME NEW m \in Node, Open(m)
      PROVE  head'[n] = head[n] /\ work'[n] = work[n]
  BY <1>1, <1>3 DEF Open, Prepare, gitVars, GitTypes
<1>4. ASSUME NEW m \in Node, Continue(m) \/ Replay(m)
      PROVE  Outcome(n) \/ (head'[n] = head[n] /\ work'[n] = work[n])
  BY <1>4, GateStep DEF OnlyOf
<1>5. ASSUME NEW m \in Node, NEW c \in flight[m], EndCall(m, c)
      PROVE  head'[n] = head[n] /\ Kept(work[n], work'[n])
  <2>1. head' = head
    BY <1>5 DEF EndCall
  <2>2. m # n => work'[n] = work[n]
    BY <1>1, <1>5 DEF EndCall, GitTypes
  <2>3. \/ work' = work
        \/ work'[m] = [work[m] EXCEPT ![c.file] = @ \cup {<<m, c.id>>}]
    BY <1>1, <1>5 DEF EndCall, GitTypes
  <2>4. work[m] \in Tree
    BY <1>1 DEF GitTypes
  <2>5. \A f \in File : work[m][f] \subseteq work'[m][f]
    BY <2>3, <2>4 DEF Tree
  <2>. QED BY <1>1, <2>1, <2>2, <2>5 DEF Kept
<1>6. ASSUME NEW m \in Node, Merge(m)
      PROVE  head'[n] = head[n] /\ work'[n] = work[n]
  BY <1>1, <1>6 DEF Merge, GitTypes
<1>7. ASSUME NEW m \in Node, SettleMerged(m) \/ SettleFailed(m) \/ SettleReset(m)
      PROVE  head'[n] = head[n] /\ work'[n] = work[n]
  BY <1>1, <1>7, SettledOutcome
<1>8. ASSUME NEW m \in Node,
             \/ Register(m) \/ Attach(m) \/ Serve(m)
             \/ \E verdict \in {"waiting", "failing"} : EndPhase(m, verdict)
             \/ \E f \in File, tool \in {"read", "edit", "create"} : StartCall(m, f, tool)
      PROVE  head'[n] = head[n] /\ work'[n] = work[n]
  BY <1>8 DEF Register, Attach, Serve, EndPhase, StartCall, gitVars
<1>. QED BY <1>1, <1>2, <1>3, <1>4, <1>5, <1>6, <1>7, <1>8 DEF Next

\* Whatever a replay runs into, the checkpoint stays in the directory or on the
\* branch, and outside a rebase every other edit does too, unless the step aborts
\* the rebase of an earlier task.
LEMMA NoEditLost ==
  ASSUME Core, [Next]_vars, NEW n \in Node, task[n] = "running",
         leftover[n].on => leftover'[n].on
  PROVE  EditsIn(head[n]) \cup (IF rebase[n].on THEN {} ELSE EditsIn(work[n]))
           \subseteq EditsIn(head'[n]) \cup EditsIn(work'[n])
<1>1. CASE head'[n] = head[n] /\ Kept(work[n], work'[n])
  BY <1>1, EditsKept
<1>2. CASE Untouched(n)
  BY <1>2 DEF Untouched
<1>3. CASE GivenUp(n)
  BY <1>3, EditsKept DEF GivenUp
<1>4. CASE CaughtUp(n)
  BY <1>4, EditsKept DEF CaughtUp
<1>5. CASE Halted(n)
  BY <1>5, EditsKept DEF Halted
<1>6. ~Dropped(n)
  BY DEF Dropped, NoLeftover
<1>. QED BY <1>1, <1>2, <1>3, <1>4, <1>5, <1>6, RunningDirectory DEF Outcome

\* No replay, given up, halted or gone through, loses an edit of the checkpoint:
\* only the abort of a rebase an earlier task had left in the directory may.
THEOREM CheckpointsSurvive == Spec => CheckpointSurvives
<1>1. ASSUME Core, [Next]_vars
      PROVE  [\A n \in Node :
                task[n] = "running" /\ task'[n] = "running"
                  /\ (leftover[n].on => leftover'[n].on) =>
                  EditsIn(head[n]) \cup (IF rebase[n].on THEN {} ELSE EditsIn(work[n]))
                    \subseteq EditsIn(head'[n]) \cup EditsIn(work'[n])]_vars
  BY <1>1, NoEditLost
<1>. QED BY <1>1, CoreInit, CoreStep, PTL DEF Spec, CheckpointSurvives

-----------------------------------------------------------------------------
(* Two tasks never create one file apart. *)

Holds(n, f) == work[n][f] # {} \/ head[n][f] # {}

InFlight(n, f) == \E c \in flight[n] : c.file = f

Writing(n, f) == call.node = n /\ call.tool # "read" /\ call.file = f

\* The agent has created the file, has it in its snapshot or is writing it.
AtHand(n, f) ==
  f \in made[n] \/ f \in snapshot[n].files \/ InFlight(n, f) \/ Writing(n, f)

Meets(n, f) == work[n][f] \cap integration[f] # {}

\* Nobody has merged the file yet, and no failed task has left it behind.
Unknown(f) == integration[f] = {} /\ f \notin abandoned

\* The abort of an earlier task's rebase would bring the file back.
LeftBehind(n, f) == leftover[n].on /\ leftover[n].orig[f] # {}

\* Who has an unknown new file, or has it at hand, owns it; a failed task has left
\* none, nor is one in a rebase it left behind.
Owned(n, f) ==
  Unknown(f) => /\ Holds(n, f) => claims[f] = n /\ task[n] # "failed"
                /\ AtHand(n, f) /\ task[n] = "running" => claims[f] = n
                /\ ~LeftBehind(n, f)

\* A running task meets the merged version in every new file it has or writes,
\* unless the write still waits for the replay.
Joined(n, f) ==
  /\ Holds(n, f) \/ f \in made[n] \/ InFlight(n, f) => Meets(n, f)
  /\ Writing(n, f) /\ call.step = "serve" => Meets(n, f)
  /\ Writing(n, f) /\ call.step = "replay" => Meets(n, f) \/ n \in pending

\* A merge that has landed and is not attached yet: its task still owns the file,
\* which the others do not have.
Landing(n, f) ==
  /\ ~Holds(n, f) /\ ~AtHand(n, f)
  /\ \E m \in Node \ {n} : task[m] = "landed" /\ claims[f] = m

Seen(n, f) == n \in pending \/ Meets(n, f) \/ Landing(n, f)

Together(n, f) ==
  n \notin behind /\ f \notin abandoned /\ integration[f] # {} =>
    /\ task[n] = "running" => Joined(n, f)
    /\ task[n] \in {"opening", "running"} => Seen(n, f)

Rivals ==
  /\ \A n \in Node : made[n] \subseteq NewFile
  /\ \A n \in Node, f \in NewFile : Owned(n, f) /\ Together(n, f)

\* What keeps the owner of a file its owner.
LEMMA OwnedFrame ==
  ASSUME NEW n \in Node, NEW f \in NewFile, Owned(n, f), Unknown(f)' => Unknown(f),
         Holds(n, f)' => Holds(n, f), LeftBehind(n, f)' => LeftBehind(n, f),
         task'[n] = "failed" => task[n] = "failed",
         AtHand(n, f)' /\ task'[n] = "running" => AtHand(n, f) /\ task[n] = "running",
         claims[f] = n => claims'[f] = n
  PROVE  Owned(n, f)'
BY DEF Owned

\* What keeps a task that nothing touches together with the merged version.
LEMMA TogetherFrame ==
  ASSUME NEW n \in Node, NEW f \in NewFile, Together(n, f),
         n \in behind => n \in behind', f \in abandoned => f \in abandoned',
         integration' = integration,
         task'[n] = task[n] \/ task'[n] \notin {"opening", "running"},
         work'[n] = work[n], head'[n] = head[n], made'[n] = made[n], flight'[n] = flight[n],
         snapshot'[n] = snapshot[n], call' = call \/ call'.node # n,
         task[n] \in {"opening", "running"} /\ n \in pending => n \in pending',
         \A m \in Node \ {n} : task[m] = "landed" /\ claims[f] = m =>
                                 task'[m] = "landed" /\ claims'[f] = m
  PROVE  Together(n, f)'
<1>1. /\ Holds(n, f)' <=> Holds(n, f)
      /\ Meets(n, f)' <=> Meets(n, f)
      /\ InFlight(n, f)' <=> InFlight(n, f)
      /\ Writing(n, f)' => call' = call /\ Writing(n, f)
  BY DEF Holds, Meets, InFlight, Writing
<1>2. AtHand(n, f)' => AtHand(n, f)
  BY <1>1 DEF AtHand
<1>3. Landing(n, f) => Landing(n, f)'
  BY <1>1, <1>2 DEF Landing
<1>4. task'[n] = "running" => task[n] = "running"
  OBVIOUS
<1>5. task[n] \in {"opening", "running"} /\ Seen(n, f) => Seen(n, f)'
  BY <1>1, <1>3 DEF Seen
<1>6. task[n] = "running" /\ Joined(n, f) => Joined(n, f)'
  BY <1>1 DEF Joined
<1>. QED BY <1>4, <1>5, <1>6 DEF Together

\* The snapshot of a claim gate holds what the agent has.
LEMMA SnapshotFiles ==
  ASSUME Core, NEW n \in Node, task[n] = "running", NEW f \in NewFile,
         f \in NewSnapshot(n).files
  PROVE  f \in snapshot[n].files \/ Holds(n, f)
<1>1. CASE snapshot[n].loaded
  BY <1>1 DEF NewSnapshot
<1>2. CASE ~snapshot[n].loaded
  <2>1. f \in Tracked(n) /\ f \notin Existing
    BY <1>2 DEF NewSnapshot, NewFile
  <2>2. CASE rebase[n].on
    <3>1. rebase[n].tree[f] # {} /\ f \in File
      BY <2>1, <2>2 DEF Tracked, Exists
    <3>2. rebase[n].tree[f] \subseteq work[n][f]
      BY <2>2, <3>1 DEF Core, Directory, Suspended, Kept
    <3>. QED BY <3>1, <3>2 DEF Holds
  <2>3. CASE ~rebase[n].on
    BY <2>1, <2>3 DEF Tracked, Exists, Holds
  <2>. QED BY <2>2, <2>3
<1>. QED BY <1>1, <1>2

\* A call that is let through to a new file has claimed it.
LEMMA LetThrough ==
  ASSUME Core, Rivals, NEW n \in Node, NEW f \in NewFile, NEW tool \in {"read", "edit", "create"},
         StartCall(n, f, tool), tool # "read", call' # NoCall
  PROVE  claims'[f] = n \/ f \in snapshot[n].files \/ Holds(n, f)
<1>1. ~CallBlocked(n, f, tool) /\ task[n] = "running"
  BY DEF StartCall
<1>2. CASE IsNew(n, f)
  <2>1. claims[f] \in {NoNode, n}
    BY <1>1, <1>2 DEF CallBlocked, ClaimedBySibling
  <2>2. claims \in [NewFile -> Node \cup {NoNode}]
    BY DEF Core, TypeInv, RegistryTypes
  <2>. QED BY <1>2, <2>1, <2>2 DEF StartCall
<1>3. CASE ~IsNew(n, f)
  <2>1. f \in NewSnapshot(n).files
    BY <1>3 DEF IsNew, NewFile
  <2>. QED BY <1>1, <2>1, SnapshotFiles
<1>. QED BY <1>2, <1>3

\* A call that starts: its file is claimed, or a sibling's claim blocks it.
LEMMA StartCallRivals ==
  ASSUME Core, Rivals, NEW n \in Node, NEW f0 \in File,
         NEW tool \in {"read", "edit", "create"}, StartCall(n, f0, tool)
  PROVE  Rivals'
<1>1. /\ TypeInv /\ TypeInv' /\ GitTypes /\ RegistryTypes /\ CallInv
  BY CallTypesStep DEF Core, TypeInv
<1>2. /\ UNCHANGED <<taskVars, gitVars, replayVars, flight, mishaps, history>>
      /\ task[n] = "running" /\ call = NoCall
  BY DEF StartCall, LoopIsFree
<1>3. \A m \in Node \ {n} : snapshot'[m] = snapshot[m]
  BY <1>1 DEF StartCall, RegistryTypes
<1>4. snapshot'[n] \in {snapshot[n], NewSnapshot(n)}
  BY <1>1 DEF StartCall, RegistryTypes
<1>5. call'.node \in {n, NoNode}
  BY DEF StartCall, NoCall
<1>6. \A f \in NewFile : Writing(n, f)' =>
        f = f0 /\ tool # "read" /\ call' # NoCall /\ (call'.step = "serve" => n \in disarmed)
  <2>1. CASE CallBlocked(n, f0, tool)
    BY <2>1, ReplayAssumption DEF StartCall, Writing, NoCall
  <2>2. CASE ~CallBlocked(n, f0, tool)
    <3>1. /\ call'.node = n /\ call'.tool = tool
          /\ call'.step = "serve" => n \in disarmed
          /\ tool # "read" => call'.file = f0
      BY <2>2 DEF StartCall
    <3>2. call' # NoCall
      BY <3>1, ReplayAssumption DEF NoCall
    <3>. QED BY <3>1, <3>2 DEF Writing
  <2>. QED BY <2>1, <2>2
<1>7. ASSUME NEW f \in NewFile, NEW m \in Node, claims[f] = m PROVE claims'[f] = m
  <2>1. IsNew(n, f0) => f0 \in NewFile
    BY DEF IsNew, NewFile
  <2>. QED BY <1>1, <1>7, <2>1, ReplayAssumption DEF StartCall, RegistryTypes
<1>8. ASSUME NEW m \in Node \ {n}, NEW f \in NewFile PROVE ~Writing(m, f)' /\ ~Writing(m, f)
  BY <1>2, <1>5, ReplayAssumption DEF Writing, NoCall
<1>9. \A m \in Node, f \in NewFile :
        /\ Holds(m, f)' <=> Holds(m, f)
        /\ Unknown(f)' <=> Unknown(f)
        /\ InFlight(m, f)' <=> InFlight(m, f)
        /\ Meets(m, f)' <=> Meets(m, f)
  BY <1>2 DEF Holds, Unknown, InFlight, Meets, gitVars, history
<1>10. ASSUME NEW m \in Node \ {n}, NEW f \in NewFile PROVE Owned(m, f)' /\ Together(m, f)'
  <2>1. AtHand(m, f)' => AtHand(m, f)
    BY <1>2, <1>3, <1>8, <1>9 DEF AtHand, history
  <2>2. LeftBehind(m, f)' <=> LeftBehind(m, f)
    BY <1>2 DEF LeftBehind, gitVars
  <2>3. Owned(m, f) /\ Together(m, f)
    BY DEF Rivals
  <2>4. Owned(m, f)'
    BY <1>2, <1>7, <1>9, <2>1, <2>2, <2>3, OwnedFrame DEF taskVars
  <2>5. call'.node # m
    BY <1>5, ReplayAssumption
  <2>6. Together(m, f)'
    BY <1>2, <1>3, <1>7, <2>3, <2>5, TogetherFrame
       DEF taskVars, gitVars, replayVars, history
  <2>. QED BY <2>4, <2>6
<1>11. ASSUME NEW f \in NewFile, AtHand(n, f)'
       PROVE  claims'[f] = n \/ AtHand(n, f) \/ Holds(n, f)
  <2>1. CASE Writing(n, f)'
    BY <1>6, <2>1, LetThrough DEF AtHand
  <2>2. CASE f \in snapshot'[n].files
    BY <1>2, <1>4, <2>2, SnapshotFiles DEF AtHand
  <2>3. CASE f \in made'[n] \/ InFlight(n, f)'
    BY <1>2, <1>9, <2>3 DEF AtHand, history
  <2>. QED BY <1>11, <2>1, <2>2, <2>3 DEF AtHand
<1>12. ASSUME NEW f \in NewFile PROVE Owned(n, f)'
  <2>1. Owned(n, f) /\ (LeftBehind(n, f)' <=> LeftBehind(n, f)) /\ task'[n] = "running"
    BY <1>2 DEF Rivals, LeftBehind, gitVars, taskVars
  <2>2. Unknown(f) /\ Holds(n, f) => claims'[f] = n
    BY <1>7, <2>1 DEF Owned
  <2>3. Unknown(f) /\ AtHand(n, f)' => claims'[f] = n
    BY <1>2, <1>7, <1>11, <2>1, <2>2 DEF Owned
  <2>. QED BY <1>9, <2>1, <2>2, <2>3 DEF Owned
<1>13. ASSUME NEW f \in NewFile PROVE Together(n, f)'
  <2>. SUFFICES ASSUME n \notin behind, f \notin abandoned, integration[f] # {}
                PROVE  Joined(n, f)' /\ Seen(n, f)'
    BY <1>2 DEF Together, gitVars, history
  <2>1. Joined(n, f) /\ Seen(n, f) /\ n \notin disarmed
    BY <1>1, <1>2 DEF Rivals, Together, CallInv
  <2>2. Landing(n, f) => ~AtHand(n, f)'
    BY <1>7, <1>11 DEF Landing
  <2>3. Landing(n, f) => Landing(n, f)'
    BY <1>2, <1>7, <1>9, <2>2 DEF Landing, taskVars
  <2>4. Seen(n, f)'
    BY <1>2, <1>9, <2>1, <2>3 DEF Seen, replayVars
  <2>5. Writing(n, f)' => Meets(n, f) \/ n \in pending
    BY <2>1, <2>2 DEF Seen, AtHand
  <2>6. Joined(n, f)'
    BY <1>2, <1>6, <1>9, <2>1, <2>5 DEF Joined, history, replayVars
  <2>. QED BY <2>4, <2>6
<1>14. \A m \in Node : made'[m] \subseteq NewFile
  BY <1>2 DEF Rivals, history
<1>. QED BY <1>10, <1>12, <1>13, <1>14 DEF Rivals

\* A replay that was due is done, or the task falls behind.
LEMMA GateReplay ==
  ASSUME Core, NEW n \in Node, Continue(n) \/ Replay(n)
  PROVE  /\ \/ behind' = behind \/ n \in behind' \/ Kept(integration, work'[n])
            \/ ~Untouched(n)
         /\ n \in pending => \/ n \in behind' \/ Kept(integration, work'[n])
                             \/ Continue(n) /\ n \in pending'
<1>1. TypeInv /\ Directory(n) /\ Placed(n) /\ CallInv
  BY DEF Core
<1>2. task[n] = "running" /\ call.node = n
  BY <1>1, GateFrame DEF Placed
<1>3. CASE Continue(n)
  <2>1. rebase[n].on
    BY <1>1, <1>2, <1>3, GateFrame DEF Placed, CallInv
  <2>2. pending' = pending /\ (Untouched(n) => behind' = behind)
    BY <1>1, <1>3, <2>1, ContinueOutcome
  <2>. QED BY <1>3, <2>2
<1>4. CASE Replay(n)
  <2>1. ~rebase[n].on /\ n \notin marked
    BY <1>1, <1>2, <1>4, GateFrame DEF Placed, CallInv
  <2>2. /\ n \notin pending => behind' = behind
        /\ n \in pending => n \in behind' \/ Kept(integration, work'[n])
    BY <1>1, <1>4, <2>1, ReplayDone
  <2>. QED BY <2>2
<1>. QED BY <1>3, <1>4

\* A write in a rebase goes to a file that is there.
LEMMA UnmergedIsHeld ==
  ASSUME Core, NEW n \in Node, NEW f \in NewFile, Writing(n, f), call.step = "continue"
  PROVE  Holds(n, f)
<1>1. /\ f \in rebase[n].unmerged /\ n \in marked /\ task[n] = "running"
  BY DEF Core, CallInv, Placed, Writing
<1>2. rebase[n].on /\ Directory(n)
  BY <1>1 DEF Core, Placed
<1>3. rebase[n].tree[f] # {} /\ rebase[n].tree[f] \subseteq work[n][f]
  BY <1>1, <1>2 DEF Directory, Suspended, Kept, Exists, NewFile
<1>. QED BY <1>3 DEF Holds

\* The gates bring nothing into the directory but what the task had and what was
\* merged.
LEMMA GateRivals ==
  ASSUME Core, Rivals, NEW n \in Node, Continue(n) \/ Replay(n)
  PROVE  Rivals'
<1>1. /\ TypeInv /\ GitTypes /\ CallTypes /\ RegistryTypes /\ call.node = n
      /\ task[n] = "running"
  BY GateStep, GateFrame DEF Core, TypeInv
<1>2. /\ claims' = claims /\ task' = task /\ made' = made /\ flight' = flight
      /\ abandoned' = abandoned /\ integration' = integration
      /\ behind \subseteq behind' \cup {n} /\ behind' \subseteq behind \cup {n}
      /\ pending' \in {pending, pending \ {n}}
      /\ Outcome(n) /\ OnlyOf(n)
  BY <1>1, GateStep, GateFrame
<1>3. /\ call'.node = n /\ call'.file = call.file /\ call'.tool = call.tool
      /\ call'.step = "serve" \/ GivenUp(n)
  BY <1>1, GateStep DEF CallTypes, GateCall
<1>4. \/ Dropped(n)
      \/ /\ leftover'[n] = leftover[n]
         /\ \A f \in File : /\ work'[n][f] \subseteq work[n][f] \cup head[n][f] \cup integration[f]
                            /\ head'[n][f] \subseteq work[n][f] \cup head[n][f] \cup integration[f]
  <2>1. CASE Untouched(n)
    BY <2>1 DEF Untouched
  <2>2. CASE GivenUp(n) \/ Halted(n) \/ CaughtUp(n)
    <3>1. From(n, head'[n]) /\ From(n, work'[n]) /\ leftover' = leftover
      BY <2>2 DEF GivenUp, Halted, CaughtUp
    <3>. QED BY <3>1 DEF From
  <2>. QED BY <1>2, <2>1, <2>2 DEF Outcome
<1>5. snapshot'[n].files \subseteq snapshot[n].files
  <2>1. snapshot' \in {snapshot, [snapshot EXCEPT ![n] = Unloaded]}
    BY <1>2, Zenon DEF Outcome, Untouched, GivenUp, CaughtUp, Halted, Dropped
  <2>. QED BY <1>1, <2>1 DEF RegistryTypes, Unloaded
<1>6. \A f \in NewFile : /\ Writing(n, f)' <=> Writing(n, f)
                         /\ InFlight(n, f)' <=> InFlight(n, f)
                         /\ AtHand(n, f)' => AtHand(n, f)
  BY <1>1, <1>2, <1>3, <1>5 DEF Writing, InFlight, AtHand
<1>7. ASSUME NEW m \in Node \ {n}, NEW f \in NewFile PROVE Owned(m, f)' /\ Together(m, f)'
  <2>1. /\ work'[m] = work[m] /\ head'[m] = head[m] /\ rebase'[m] = rebase[m]
        /\ snapshot'[m] = snapshot[m] /\ leftover'[m] = leftover[m]
    BY <1>2 DEF OnlyOf
  <2>2. ~Writing(m, f)' /\ ~Writing(m, f) /\ call'.node # m
    BY <1>1, <1>3 DEF Writing
  <2>3. Owned(m, f) /\ Together(m, f)
    BY DEF Rivals
  <2>4. Owned(m, f)'
    <3>1. /\ Holds(m, f)' <=> Holds(m, f)
          /\ AtHand(m, f)' <=> AtHand(m, f)
          /\ LeftBehind(m, f)' <=> LeftBehind(m, f)
          /\ Unknown(f)' <=> Unknown(f)
      BY <1>2, <2>1, <2>2 DEF Holds, AtHand, InFlight, LeftBehind, Unknown
    <3>. QED BY <1>2, <2>3, <3>1, OwnedFrame
  <2>5. Together(m, f)'
    <3>1. (m \in behind => m \in behind') /\ (m \in pending => m \in pending')
      BY <1>2
    <3>. QED BY <1>2, <2>1, <2>2, <2>3, <3>1, TogetherFrame
  <2>. QED BY <2>4, <2>5
<1>8. ASSUME NEW f \in NewFile PROVE Owned(n, f)'
  <2>1. Owned(n, f)
    BY DEF Rivals
  <2>2. Unknown(f)' => Unknown(f)
    BY <1>2 DEF Unknown
  <2>3. CASE Dropped(n)
    <3>1. Holds(n, f)' => LeftBehind(n, f)
      BY <2>3 DEF Dropped, Holds, LeftBehind
    <3>2. ~LeftBehind(n, f)'
      BY <2>3 DEF Dropped, LeftBehind, NoLeftover
    <3>. QED BY <1>1, <1>2, <1>6, <2>1, <2>2, <3>1, <3>2 DEF Owned
  <2>4. CASE ~Dropped(n)
    <3>1. Unknown(f) /\ Holds(n, f)' => Holds(n, f)
      BY <1>4, <2>4 DEF Unknown, Holds, NewFile
    <3>2. LeftBehind(n, f)' <=> LeftBehind(n, f)
      BY <1>4, <2>4 DEF LeftBehind, Dropped
    <3>. QED BY <1>1, <1>2, <1>6, <2>1, <2>2, <3>1, <3>2 DEF Owned
  <2>. QED BY <2>3, <2>4
<1>9. ASSUME NEW f \in NewFile PROVE Together(n, f)'
  <2>. SUFFICES ASSUME n \notin behind', f \notin abandoned, integration[f] # {}
                PROVE  Joined(n, f)' /\ Seen(n, f)'
    BY <1>2 DEF Together
  <2>0. f \in File /\ integration' = integration
    BY <1>2 DEF NewFile
  <2>1. CASE Kept(integration, work'[n])
    <3>1. Meets(n, f)'
      BY <2>0, <2>1 DEF Kept, Meets
    <3>. QED BY <3>1 DEF Joined, Seen
  <2>2. CASE ~Kept(integration, work'[n])
    <3>1. ~GivenUp(n) /\ ~Dropped(n) /\ n \notin behind
      <4>1. ~GivenUp(n) /\ ~Dropped(n)
        BY DEF GivenUp, Dropped
      <4>2. CASE Untouched(n)
        BY <2>2, <4>1, <4>2, GateReplay
      <4>3. CASE CaughtUp(n)
        BY <2>2, <4>1, <4>3 DEF CaughtUp
      <4>4. CASE Halted(n)
        BY <4>1, <4>4 DEF Halted
      <4>. QED BY <1>2, <4>1, <4>2, <4>3, <4>4 DEF Outcome
    <3>2. Joined(n, f) /\ Seen(n, f)
      BY <1>1, <3>1 DEF Rivals, Together
    <3>3. Meets(n, f) => Meets(n, f)'
      <4>1. Untouched(n) \/ Kept(work[n], work'[n])
        BY <1>2, <2>2, <3>1 DEF Outcome, CaughtUp, Halted
      <4>2. work[n][f] \subseteq work'[n][f]
        BY <2>0, <4>1 DEF Untouched, Kept
      <4>. QED BY <2>0, <4>2 DEF Meets
    <3>4. ~Holds(n, f) /\ Holds(n, f)' => Meets(n, f)'
      <4>. SUFFICES ASSUME ~Holds(n, f), Holds(n, f)' PROVE Meets(n, f)'
        OBVIOUS
      <4>1. work'[n][f] \subseteq integration[f]
        BY <1>4, <2>0, <3>1 DEF Holds
      <4>2. \/ work'[n] = work[n] /\ head'[n] = head[n]
            \/ Kept(head'[n], work'[n])
            \/ head'[n] = head[n]
        BY <1>2, <2>2, <3>1 DEF Outcome, Untouched, CaughtUp, Halted
      <4>3. work'[n][f] # {}
        BY <2>0, <4>2 DEF Holds, Kept
      <4>. QED BY <2>0, <4>1, <4>3 DEF Meets
    <3>5. Writing(n, f) => Meets(n, f)
      <4>1. CASE Continue(n)
        BY <3>2, <4>1, GateFrame, <1>1, UnmergedIsHeld DEF Joined
      <4>2. CASE Replay(n)
        <5>1. n \notin pending
          BY <1>1, <2>2, <4>2, GateReplay, GateFrame
        <5>. QED BY <1>1, <3>2, <4>2, <5>1, GateFrame DEF Joined
      <4>. QED BY <4>1, <4>2
    <3>6. Joined(n, f)'
      BY <1>2, <1>3, <1>6, <3>1, <3>2, <3>3, <3>4, <3>5 DEF Joined
    <3>7. Seen(n, f)'
      <4>1. CASE n \in pending
        BY <2>2, <4>1, GateReplay DEF Seen
      <4>2. CASE Meets(n, f)
        BY <3>3, <4>2 DEF Seen
      <4>3. CASE Landing(n, f)
        <5>1. ~Holds(n, f) /\ ~AtHand(n, f)' /\ \E m \in Node \ {n} : task'[m] = "landed" /\ claims'[f] = m
          BY <1>2, <1>6, <4>3 DEF Landing
        <5>. QED BY <3>4, <5>1 DEF Landing, Seen
      <4>. QED BY <3>2, <4>1, <4>2, <4>3 DEF Seen
    <3>. QED BY <3>6, <3>7
  <2>. QED BY <2>1, <2>2
<1>10. \A m \in Node : made'[m] \subseteq NewFile
  BY <1>2 DEF Rivals
<1>. QED BY <1>7, <1>8, <1>9, <1>10 DEF Rivals

\* A task that nothing touches, in a step that changes neither claims nor merges.
LEMMA BystanderRivals ==
  ASSUME Rivals, NEW m \in Node, NEW f \in NewFile,
         integration' = integration, abandoned' = abandoned, claims' = claims,
         work'[m] = work[m], head'[m] = head[m], leftover'[m] = leftover[m],
         snapshot'[m] = snapshot[m], made'[m] = made[m], flight'[m] = flight[m],
         task'[m] = task[m], call' = call \/ (call'.node # m /\ call.node # m),
         m \in behind => m \in behind',
         task[m] \in {"opening", "running"} /\ m \in pending => m \in pending',
         \A k \in Node \ {m} : task[k] = "landed" => task'[k] = "landed"
  PROVE  Owned(m, f)' /\ Together(m, f)'
<1>1. /\ Holds(m, f)' <=> Holds(m, f)
      /\ LeftBehind(m, f)' <=> LeftBehind(m, f)
      /\ Unknown(f)' <=> Unknown(f)
      /\ InFlight(m, f)' <=> InFlight(m, f)
      /\ Writing(m, f)' <=> Writing(m, f)
  BY DEF Holds, InFlight, LeftBehind, Unknown, Writing
<1>2. AtHand(m, f)' <=> AtHand(m, f)
  BY <1>1 DEF AtHand
<1>3. Owned(m, f) /\ Together(m, f)
  BY DEF Rivals
<1>. QED BY <1>1, <1>2, <1>3, OwnedFrame, TogetherFrame

\* The tool of a write starts: the file passed the gates.
LEMMA ServeRivals ==
  ASSUME Core, Rivals, NEW n \in Node, Serve(n)
  PROVE  Rivals'
<1>1. /\ TypeInv /\ GitTypes /\ CallTypes /\ RegistryTypes
      /\ call.node = n /\ call.step = "serve" /\ call' = NoCall
      /\ UNCHANGED <<taskVars, gitVars, replayVars, claimVars, edits, mishaps, history>>
  BY DEF Core, TypeInv, Serve, AtStep
<1>2. task[n] = "running"
  BY <1>1 DEF Core, Placed
<1>3. \A m \in Node \ {n} : flight'[m] = flight[m]
  BY <1>1 DEF Serve, CallTypes
<1>4. \A f \in NewFile : InFlight(n, f)' => InFlight(n, f) \/ Writing(n, f)
  BY <1>1 DEF Serve, CallTypes, InFlight, Writing
<1>5. \A m \in Node, f \in NewFile : ~Writing(m, f)'
  BY <1>1, ReplayAssumption DEF Writing, NoCall
<1>6. ASSUME NEW m \in Node \ {n}, NEW f \in NewFile PROVE Owned(m, f)' /\ Together(m, f)'
  BY <1>1, <1>3, <1>6, ReplayAssumption, BystanderRivals
     DEF taskVars, gitVars, replayVars, claimVars, history, NoCall
<1>7. ASSUME NEW f \in NewFile PROVE Owned(n, f)' /\ Together(n, f)'
  <2>1. /\ Holds(n, f)' <=> Holds(n, f)
        /\ Meets(n, f)' <=> Meets(n, f)
        /\ Unknown(f)' <=> Unknown(f)
        /\ LeftBehind(n, f)' <=> LeftBehind(n, f)
    BY <1>1 DEF Holds, Meets, Unknown, LeftBehind, gitVars, history
  <2>2. AtHand(n, f)' => AtHand(n, f)
    BY <1>1, <1>4, <1>5 DEF AtHand, claimVars, history
  <2>3. Owned(n, f) /\ Together(n, f)
    BY DEF Rivals
  <2>4. Owned(n, f)'
    BY <1>1, <2>1, <2>2, <2>3, OwnedFrame DEF taskVars, claimVars
  <2>. SUFFICES ASSUME n \notin behind, f \notin abandoned, integration[f] # {}
                PROVE  Joined(n, f)' /\ Seen(n, f)'
    BY <1>1, <2>4 DEF Together, replayVars, gitVars, history
  <2>5. Joined(n, f) /\ Seen(n, f)
    BY <1>2, <2>3 DEF Together
  <2>6. Joined(n, f)'
    BY <1>1, <1>4, <1>5, <2>1, <2>5 DEF Joined, history
  <2>7. Landing(n, f) => Landing(n, f)'
    BY <1>1, <2>1, <2>2 DEF Landing, taskVars, claimVars
  <2>. QED BY <1>1, <2>1, <2>5, <2>6, <2>7 DEF Seen, replayVars
<1>8. \A m \in Node : made'[m] \subseteq NewFile
  BY <1>1 DEF Rivals, history
<1>. QED BY <1>6, <1>7, <1>8 DEF Rivals

\* The tool of a write ends: what it creates was not there, and its file was met.
LEMMA EndCallRivals ==
  ASSUME Core, Rivals, NEW n \in Node, NEW c \in flight[n], EndCall(n, c)
  PROVE  Rivals'
<1>1. /\ TypeInv /\ GitTypes /\ CallTypes /\ RegistryTypes /\ task[n] = "running"
  BY DEF Core, TypeInv, Placed
<1>2. UNCHANGED <<taskVars, integration, base, head, leftover, replayVars, claimVars, call,
                  edits, mishaps, behind, abandoned>>
  BY DEF EndCall
<1>3. \A m \in Node \ {n} : /\ work'[m] = work[m] /\ rebase'[m] = rebase[m]
                            /\ made'[m] = made[m] /\ flight'[m] = flight[m]
  BY <1>1 DEF EndCall, GitTypes, CallTypes, RegistryTypes
<1>4. /\ c.file \in File /\ made[n] \subseteq NewFile /\ work[n] \in Tree
  BY <1>1 DEF CallTypes, FileCall, Rivals, GitTypes
<1>5. \/ work'[n] = work[n] /\ made'[n] = made[n]
      \/ /\ work'[n] = [work[n] EXCEPT ![c.file] = @ \cup {<<n, c.id>>}]
         /\ Exists(work[n], c.file) = (c.tool = "edit")
         /\ made'[n] = IF c.tool = "create" THEN made[n] \cup {c.file} ELSE made[n]
  BY <1>1 DEF EndCall, GitTypes, RegistryTypes
<1>6. /\ made'[n] \subseteq NewFile /\ made'[n] \subseteq made[n] \cup {c.file}
  <2>1. Exists(work[n], c.file) = (c.tool = "edit") /\ c.tool = "create" => c.file \in NewFile
    BY <1>4 DEF Exists, NewFile
  <2>. QED BY <1>4, <1>5, <2>1
<1>7. \A f \in File : /\ work[n][f] \subseteq work'[n][f]
                      /\ f # c.file => work'[n][f] = work[n][f]
  BY <1>4, <1>5 DEF Tree
<1>8. flight'[n] \subseteq flight[n]
  BY <1>1 DEF EndCall, CallTypes
<1>9. ASSUME NEW m \in Node \ {n}, NEW f \in NewFile PROVE Owned(m, f)' /\ Together(m, f)'
  BY <1>2, <1>3, <1>9, BystanderRivals DEF taskVars, replayVars, claimVars
<1>10. ASSUME NEW f \in NewFile PROVE Owned(n, f)' /\ Together(n, f)'
  <2>0. f \in File /\ InFlight(n, c.file)
    BY DEF NewFile, InFlight
  <2>1. /\ Holds(n, f)' => Holds(n, f) \/ f = c.file
        /\ Meets(n, f) => Meets(n, f)'
        /\ Unknown(f)' <=> Unknown(f)
        /\ InFlight(n, f)' => InFlight(n, f)
        /\ Writing(n, f)' <=> Writing(n, f)
        /\ LeftBehind(n, f)' <=> LeftBehind(n, f)
    BY <1>2, <1>7, <1>8, <2>0 DEF Holds, Meets, Unknown, InFlight, Writing, LeftBehind
  <2>2. AtHand(n, f)' => AtHand(n, f)
    BY <1>2, <1>6, <2>0, <2>1 DEF AtHand, claimVars
  <2>3. Owned(n, f) /\ Together(n, f)
    BY DEF Rivals
  <2>4. Owned(n, f)'
    BY <1>1, <1>2, <2>0, <2>1, <2>2, <2>3 DEF Owned, AtHand, claimVars, taskVars
  <2>. SUFFICES ASSUME n \notin behind, f \notin abandoned, integration[f] # {}
                PROVE  Joined(n, f)' /\ Seen(n, f)'
    BY <1>2, <2>4 DEF Together
  <2>5. Joined(n, f) /\ Seen(n, f)
    BY <1>1, <2>3 DEF Together
  <2>6. Joined(n, f)'
    BY <1>2, <1>6, <2>0, <2>1, <2>5 DEF Joined, replayVars
  <2>7. Landing(n, f) => Landing(n, f)'
    BY <1>2, <2>0, <2>1, <2>2 DEF Landing, AtHand, taskVars, claimVars
  <2>. QED BY <1>2, <2>1, <2>5, <2>6, <2>7 DEF Seen, replayVars
<1>. QED BY <1>3, <1>6, <1>9, <1>10 DEF Rivals

\* A task that starts up to date has every merged file.
LEMMA OpenRivals ==
  ASSUME Core, Core', Rivals, NEW n \in Node, Open(n)
  PROVE  Rivals'
<1>1. /\ TypeInv /\ TypeInv' /\ GitTypes /\ RegistryTypes /\ task \in [Node -> Places]
      /\ task[n] \in {"idle", "failed"} /\ call = NoCall /\ call' = call
      /\ claims' = claims /\ pending' = pending /\ made' = made /\ flight' = flight
      /\ abandoned' = abandoned /\ snapshot' = [snapshot EXCEPT ![n] = Unloaded]
  BY DEF Core, TypeInv, Open, LoopIsFree, callVars
<1>2. /\ integration' = integration
      /\ \A m \in Node \ {n} : /\ work'[m] = work[m] /\ head'[m] = head[m]
                               /\ leftover'[m] = leftover[m] /\ task'[m] = task[m]
                               /\ snapshot'[m] = snapshot[m]
                               /\ m \in behind <=> m \in behind'
  BY <1>1 DEF Open, Prepare, gitVars, GitTypes, RegistryTypes
<1>3. ASSUME NEW m \in Node \ {n}, NEW f \in NewFile PROVE Owned(m, f)' /\ Together(m, f)'
  BY <1>1, <1>2, <1>3, BystanderRivals
<1>4. /\ task'[n] \in {"opening", "broken"}
      /\ task'[n] = "opening" /\ n \notin behind' => base'[n] = integration
      /\ \/ head'[n] = integration /\ work'[n] = integration
         \/ head'[n] = head[n] /\ work'[n] \in {head[n], work[n]}
  BY <1>1 DEF Open, Prepare, GitTypes, gitVars
<1>7. \/ leftover'[n] = leftover[n]
      \/ /\ task[n] = "failed"
         /\ leftover'[n] = [on |-> TRUE, orig |-> head[n], base |-> base[n]]
  <2>1. task[n] = "idle" => ~rebase[n].on
    BY DEF Core, Placed
  <2>. QED BY <1>1, <2>1 DEF Open, Prepare, GitTypes, gitVars
<1>5. ASSUME NEW f \in NewFile PROVE Owned(n, f)' /\ Together(n, f)'
  <2>1. Owned(n, f) /\ (Unknown(f)' <=> Unknown(f))
    BY <1>1, <1>2 DEF Rivals, Unknown
  <2>2. Owned(n, f)'
    <3>1. Unknown(f) /\ Holds(n, f)' => Holds(n, f)
      BY <1>4 DEF Unknown, Holds
    <3>2. LeftBehind(n, f)' => LeftBehind(n, f) \/ (task[n] = "failed" /\ Holds(n, f))
      BY <1>7 DEF LeftBehind, Holds
    <3>. QED BY <1>1, <1>4, <2>1, <3>1, <3>2 DEF Owned
  <2>3. ASSUME n \notin behind', integration'[f] # {}, task'[n] = "opening"
        PROVE  Meets(n, f)'
    <3>1. base'[n] = integration' /\ f \in File
      BY <1>2, <1>4, <2>3 DEF NewFile
    <3>2. Kept(base'[n], head'[n]) /\ Kept(head'[n], work'[n])
      BY <2>3 DEF Core, Placed, Directory, Kept
    <3>. QED BY <2>3, <3>1, <3>2 DEF Kept, Meets
  <2>. QED BY <1>4, <2>2, <2>3 DEF Together, Seen
<1>6. \A m \in Node : made'[m] \subseteq NewFile
  BY <1>1 DEF Rivals
<1>. QED BY <1>3, <1>5, <1>6 DEF Rivals

\* A registered task has seen every merge, or it is landing now.
LEMMA PhaseRivals ==
  ASSUME Core, Rivals, NEW n \in Node,
         Register(n) \/ \E verdict \in {"waiting", "failing"} : EndPhase(n, verdict)
  PROVE  Rivals'
<1>1. /\ task \in [Node -> Places] /\ call = NoCall
      /\ UNCHANGED <<started, gitVars, replayVars, claimVars, callVars, mishaps, history>>
      /\ \/ task[n] = "opening" /\ task' = [task EXCEPT ![n] = "running"]
         \/ /\ task[n] = "running"
            /\ \E verdict \in {"waiting", "failing"} : task' = [task EXCEPT ![n] = verdict]
  BY DEF Core, TypeInv, Register, EndPhase, LoopIsFree
<1>2. \A m \in Node : task[m] = "landed" => task'[m] = "landed"
  BY <1>1
<1>3. ASSUME NEW m \in Node \ {n}, NEW f \in NewFile PROVE Owned(m, f)' /\ Together(m, f)'
  <2>1. task'[m] = task[m]
    BY <1>1
  <2>. QED BY <1>1, <1>2, <2>1, BystanderRivals
           DEF gitVars, replayVars, claimVars, callVars, history
<1>4. ASSUME NEW f \in NewFile PROVE Owned(n, f)' /\ Together(n, f)'
  <2>1. /\ Holds(n, f)' <=> Holds(n, f)
        /\ Meets(n, f)' <=> Meets(n, f)
        /\ Unknown(f)' <=> Unknown(f)
        /\ InFlight(n, f)' <=> InFlight(n, f)
        /\ AtHand(n, f)' <=> AtHand(n, f)
        /\ ~Writing(n, f)'
        /\ LeftBehind(n, f)' <=> LeftBehind(n, f)
    BY <1>1, ReplayAssumption
       DEF Holds, Meets, Unknown, InFlight, AtHand, Writing, LeftBehind, NoCall, gitVars,
           claimVars, callVars, history
  <2>2. Owned(n, f) /\ Together(n, f) /\ Placed(n)
    BY DEF Rivals, Core
  <2>3. task[n] = "opening" => ~AtHand(n, f)
    BY <2>2 DEF Placed, AtHand, InFlight, Writing, Unloaded
  <2>4. Owned(n, f)'
    BY <1>1, <2>1, <2>2, <2>3 DEF Owned, claimVars
  <2>5. Landing(n, f) => Landing(n, f)'
    BY <1>1, <1>2, <2>1 DEF Landing, claimVars
  <2>6. ASSUME task[n] = "opening", task'[n] = "running", n \notin behind,
               f \notin abandoned, integration[f] # {}
        PROVE  Joined(n, f)' /\ Seen(n, f)'
    <3>1. n \notin pending /\ Seen(n, f) /\ ~AtHand(n, f)
      BY <2>2, <2>3, <2>6 DEF Together, Placed
    <3>2. Meets(n, f) \/ (Landing(n, f) /\ ~Holds(n, f))
      BY <3>1 DEF Seen, Landing
    <3>3. Joined(n, f)'
      BY <1>1, <2>1, <3>1, <3>2 DEF Joined, AtHand, history
    <3>. QED BY <2>1, <2>5, <3>2, <3>3 DEF Seen
  <2>7. task[n] = "running" => task'[n] \in {"waiting", "failing"}
    BY <1>1
  <2>8. task[n] = "opening" => task'[n] = "running"
    BY <1>1
  <2>. QED BY <1>1, <2>4, <2>6, <2>7, <2>8 DEF Together, replayVars, gitVars, history
<1>5. \A m \in Node : made'[m] \subseteq NewFile
  BY <1>1 DEF Rivals, history
<1>. QED BY <1>3, <1>4, <1>5 DEF Rivals

\* A file that lands is its task's, and nobody else has it.
LEMMA MergeRivals ==
  ASSUME Core, Rivals, NEW n \in Node, Merge(n)
  PROVE  Rivals'
<1>. DEFINE tip == IF rebase[n].on THEN head[n] ELSE work[n]
<1>1. /\ TypeInv /\ GitTypes /\ task \in [Node -> Places] /\ integration \in Tree
      /\ tip \in Tree
  BY DEF Core, TypeInv, GitTypes
<1>2. /\ task[n] = "waiting" /\ \A m \in Node : task[m] # "landed"
      /\ UNCHANGED <<started, base, work, leftover, replayVars, claimVars, callVars, mishaps,
                     history>>
      /\ head' = [head EXCEPT ![n] = tip]
      /\ rebase' = [rebase EXCEPT ![n].unmerged = {}, ![n].markers = {}]
  BY DEF Merge
<1>3. /\ integration' \in {integration, Both(integration, tip)}
      /\ task'[n] \notin {"opening", "running", "failed"}
      /\ integration' # integration => task'[n] = "landed"
  BY <1>1 DEF Merge
<1>4. \A m \in Node \ {n} : head'[m] = head[m] /\ rebase'[m] = rebase[m] /\ task'[m] = task[m]
  BY <1>1 DEF Merge, GitTypes
<1>5. \A f \in File : /\ integration[f] \subseteq integration'[f]
                      /\ integration'[f] \subseteq integration[f] \cup tip[f]
  BY <1>1, <1>3, KeptFacts
<1>6. head'[n] = tip
  BY <1>1, <1>2 DEF GitTypes
<1>7. \A f \in File : tip[f] # {} => Holds(n, f)
  BY DEF Holds
<1>. HIDE DEF tip
<1>8. \A m \in Node, f \in NewFile :
        /\ AtHand(m, f)' <=> AtHand(m, f)
        /\ InFlight(m, f)' <=> InFlight(m, f)
        /\ Writing(m, f)' <=> Writing(m, f)
  BY <1>2 DEF AtHand, InFlight, Writing, claimVars, callVars, history
<1>9. \A m \in Node, f \in NewFile :
        /\ m # n => (Holds(m, f)' <=> Holds(m, f))
        /\ LeftBehind(m, f)' <=> LeftBehind(m, f)
  BY <1>2, <1>4 DEF Holds, LeftBehind
<1>10. ASSUME NEW f \in NewFile PROVE Unknown(f)' => Unknown(f)
  BY <1>2, <1>5 DEF Unknown, NewFile, history
<1>11. ASSUME NEW m \in Node, NEW f \in NewFile PROVE Owned(m, f)'
  <2>1. Owned(m, f) /\ claims' = claims
    BY <1>2 DEF Rivals, claimVars
  <2>2. CASE m = n
    <3>1. task'[n] \notin {"running", "failed"}
      BY <1>3
    <3>2. Holds(n, f)' => Holds(n, f)
      BY <1>2, <1>6, <1>7 DEF Holds, NewFile
    <3>. QED BY <1>9, <1>10, <2>1, <2>2, <3>1, <3>2 DEF Owned
  <2>3. CASE m # n
    BY <1>4, <1>8, <1>9, <1>10, <2>1, <2>3, OwnedFrame
  <2>. QED BY <2>2, <2>3
<1>12. ASSUME NEW m \in Node, NEW f \in NewFile PROVE Together(m, f)'
  <2>. SUFFICES ASSUME m # n, m \notin behind, f \notin abandoned, integration'[f] # {},
                       task[m] \in {"opening", "running"}
                PROVE  Seen(m, f)' /\ (task[m] = "running" => Joined(m, f)')
    BY <1>2, <1>3, <1>4 DEF Together, history
  <2>1. f \in File /\ Owned(m, f) /\ Together(m, f) /\ Owned(n, f)
    BY DEF NewFile, Rivals
  <2>2. CASE integration[f] # {}
    <3>1. Meets(m, f) => Meets(m, f)'
      BY <1>2, <1>5, <2>1 DEF Meets
    <3>2. Seen(m, f) /\ (task[m] = "running" => Joined(m, f))
      BY <2>1, <2>2 DEF Together
    <3>3. ~Landing(m, f)
      BY <1>2 DEF Landing
    <3>. QED BY <1>2, <1>8, <1>9, <3>1, <3>2, <3>3 DEF Seen, Joined, replayVars, callVars, history
  <2>3. CASE integration[f] = {}
    <3>1. /\ claims[f] = n /\ integration' # integration
      BY <1>5, <1>7, <2>1, <2>3 DEF Owned, Unknown
    <3>2. ~Holds(m, f)
      BY <2>1, <2>3, <3>1 DEF Owned, Unknown
    <3>3. ~AtHand(m, f)
      <4>1. CASE task[m] = "running"
        BY <2>1, <2>3, <3>1, <4>1 DEF Owned, Unknown
      <4>2. CASE task[m] = "opening"
        BY <4>2 DEF Core, Placed, AtHand, InFlight, Writing, Unloaded
      <4>. QED BY <4>1, <4>2
    <3>4. Landing(m, f)'
      BY <1>2, <1>3, <1>8, <1>9, <3>1, <3>2, <3>3 DEF Landing, claimVars
    <3>5. Joined(m, f)'
      BY <1>8, <1>9, <3>2, <3>3, <3>4 DEF Joined, Landing, AtHand
    <3>. QED BY <3>4, <3>5 DEF Seen
  <2>. QED BY <2>2, <2>3
<1>13. \A m \in Node : made'[m] \subseteq NewFile
  BY <1>2 DEF Rivals, history
<1>. QED BY <1>11, <1>12, <1>13 DEF Rivals

\* Attached, the merge waits for the registered tasks; the ones that are opening
\* have it, or they are behind.
LEMMA AttachRivals ==
  ASSUME Core, Rivals, NEW n \in Node, Attach(n)
  PROVE  Rivals'
<1>1. /\ task \in [Node -> Places] /\ call = NoCall /\ task[n] = "landed"
      /\ task' = [task EXCEPT ![n] = "merged"]
      /\ pending' = pending \cup (Registered \ {n})
      /\ behind' = behind \cup {m \in Node : task[m] = "opening" /\ base[m] # integration}
      /\ UNCHANGED <<started, gitVars, marked, conflicts, disarmed, claimVars, callVars,
                     mishaps, made, abandoned>>
  BY DEF Core, TypeInv, Attach, LoopIsFree
<1>2. \A m \in Node, f \in NewFile :
        /\ Holds(m, f)' <=> Holds(m, f)
        /\ Meets(m, f)' <=> Meets(m, f)
        /\ Unknown(f)' <=> Unknown(f)
        /\ InFlight(m, f)' <=> InFlight(m, f)
        /\ Writing(m, f)' <=> Writing(m, f)
        /\ AtHand(m, f)' <=> AtHand(m, f)
  BY <1>1 DEF Holds, Meets, Unknown, InFlight, Writing, AtHand, gitVars, claimVars, callVars
<1>3. ASSUME NEW m \in Node, NEW f \in NewFile PROVE Owned(m, f)'
  <2>1. /\ LeftBehind(m, f)' => LeftBehind(m, f)
        /\ task'[m] \in {"running", "failed"} => task'[m] = task[m]
    BY <1>1 DEF LeftBehind, gitVars
  <2>2. Owned(m, f)
    BY DEF Rivals
  <2>. QED BY <1>1, <1>2, <2>1, <2>2, OwnedFrame DEF claimVars
<1>4. ASSUME NEW m \in Node, NEW f \in NewFile PROVE Together(m, f)'
  <2>1. /\ m \notin behind' => m \notin behind
        /\ task'[m] \in {"opening", "running"} => task[m] = task'[m] /\ m # n
    BY <1>1
  <2>. SUFFICES ASSUME m # n, m \notin behind', f \notin abandoned, integration[f] # {},
                       task[m] \in {"opening", "running"}
                PROVE  Seen(m, f)' /\ (task[m] = "running" => Joined(m, f)')
    BY <1>1, <2>1 DEF Together, gitVars
  <2>2. CASE task[m] = "running"
    <3>1. Joined(m, f) /\ m \in pending'
      BY <1>1, <2>1, <2>2 DEF Rivals, Together, Registered
    <3>. QED BY <1>1, <1>2, <3>1 DEF Joined, Seen, callVars
  <2>3. CASE task[m] = "opening"
    <3>1. base[m] = integration /\ Kept(base[m], head[m]) /\ Kept(head[m], work[m])
      BY <1>1, <2>3 DEF Core, Placed, Directory
    <3>2. Meets(m, f)
      BY <3>1 DEF Kept, Meets, NewFile
    <3>. QED BY <1>2, <2>3, <3>2 DEF Seen
  <2>. QED BY <2>2, <2>3
<1>5. \A m \in Node : made'[m] \subseteq NewFile
  BY <1>1 DEF Rivals
<1>. QED BY <1>3, <1>4, <1>5 DEF Rivals

\* A settled task gives its claims back: its files are merged, gone or left behind.
LEMMA SettleRivals ==
  ASSUME Core, Rivals, NEW n \in Node, SettleMerged(n) \/ SettleFailed(n) \/ SettleReset(n)
  PROVE  Rivals'
<1>1. /\ TypeInv /\ GitTypes /\ RegistryTypes /\ Settled(n) /\ call = NoCall
      /\ task[n] \in {"merged", "failing", "refused"} /\ Directory(n) /\ Placed(n)
  BY SettledOutcome DEF Core, TypeInv, Settled, LoopIsFree
<1>2. /\ integration' = integration /\ call' = call /\ flight' = flight
      /\ snapshot' = snapshot /\ behind' = behind /\ made' = [made EXCEPT ![n] = {}]
      /\ claims' = [f \in DOMAIN claims |-> IF claims[f] = n THEN NoNode ELSE claims[f]]
      /\ pending' = pending \ {n}
  BY <1>1 DEF Settled, callVars
<1>3. ASSUME NEW m \in Node \ {n}
      PROVE  /\ base'[m] = base[m] /\ head'[m] = head[m] /\ work'[m] = work[m]
             /\ leftover'[m] = leftover[m] /\ task'[m] = task[m] /\ made'[m] = made[m]
  <2>1. /\ base'[m] = base[m] /\ head'[m] = head[m] /\ work'[m] = work[m]
        /\ leftover'[m] = leftover[m] /\ task'[m] = task[m]
    BY <1>1, SettledOutcome
  <2>. QED BY <1>1, <1>2, <2>1 DEF RegistryTypes
<1>4. abandoned \subseteq abandoned' /\ task'[n] \in {"idle", "failed"}
  <2>1. abandoned \subseteq abandoned'
    BY DEF SettleMerged, SettleFailed, SettleReset
  <2>. QED BY <1>1, <2>1, SettledOutcome
<1>5. ASSUME NEW f \in NewFile, NEW m \in Node \ {n}, claims[f] = m PROVE claims'[f] = m
  BY <1>1, <1>2, <1>5 DEF RegistryTypes
<1>6. ASSUME NEW m \in Node \ {n}, NEW f \in NewFile PROVE Owned(m, f)' /\ Together(m, f)'
  <2>1. /\ Holds(m, f)' <=> Holds(m, f)
        /\ LeftBehind(m, f)' <=> LeftBehind(m, f)
        /\ AtHand(m, f)' <=> AtHand(m, f)
        /\ Unknown(f)' => Unknown(f)
    BY <1>2, <1>3, <1>4 DEF Holds, LeftBehind, AtHand, InFlight, Writing, Unknown
  <2>2. Owned(m, f) /\ Together(m, f)
    BY DEF Rivals
  <2>3. Owned(m, f)'
    BY <1>3, <1>5, <2>1, <2>2, OwnedFrame
  <2>4. \A k \in Node \ {m} : task[k] = "landed" /\ claims[f] = k =>
                                task'[k] = "landed" /\ claims'[f] = k
    BY <1>1, <1>3, <1>5
  <2>. QED BY <1>2, <1>3, <1>4, <2>2, <2>3, <2>4, TogetherFrame
<1>7. ASSUME NEW f \in NewFile PROVE Owned(n, f)' /\ Together(n, f)'
  <2>4. leftover'[n] \in {leftover[n], NoLeftover}
    BY <1>1, SettledOutcome
  <2>5. Unknown(f)' => ~LeftBehind(n, f)'
    BY <1>2, <1>4, <2>4 DEF Rivals, Owned, Unknown, LeftBehind, NoLeftover
  <2>. SUFFICES ASSUME Unknown(f)', Holds(n, f)' PROVE FALSE
    BY <1>4, <2>5 DEF Owned, Together
  <2>0. f \in File /\ f \notin Existing /\ integration[f] = {}
    BY <1>2 DEF NewFile, Unknown
  <2>1. CASE SettleMerged(n)
    <3>1. head[n][f] = {}
      BY <2>0, <2>1, <1>1 DEF SettleMerged, Placed, Kept
    <3>2. head'[n] = head[n] /\ work'[n] = head[n]
      BY <1>1, <2>1 DEF SettleMerged, GitTypes
    <3>. QED BY <3>1, <3>2 DEF Holds
  <2>2. CASE SettleFailed(n)
    <3>0. task \in [Node -> Places]
      BY <1>1 DEF TypeInv
    <3>1. /\ UNCHANGED <<base, head, work, rebase, leftover>> /\ task'[n] = "failed"
          /\ abandoned' = abandoned \cup {g \in File \ Existing : work[n][g] \cup head[n][g] # {}}
      BY <2>2, <3>0 DEF SettleFailed
    <3>2. work[n][f] \cup head[n][f] # {}
      BY <3>1 DEF Holds
    <3>. QED BY <2>0, <3>1, <3>2 DEF Unknown
  <2>3. CASE SettleReset(n)
    <3>1. head'[n] = integration /\ work'[n] = integration
      BY <1>1, <2>3 DEF SettleReset, GitTypes
    <3>. QED BY <2>0, <3>1 DEF Holds
  <2>. QED BY <2>1, <2>2, <2>3
<1>8. \A m \in Node : made'[m] \subseteq NewFile
  BY <1>1, <1>2 DEF Rivals, RegistryTypes
<1>. QED BY <1>6, <1>7, <1>8 DEF Rivals

\* No step breaks it.
LEMMA RivalsStep == ASSUME Core, Rivals, [Next]_vars PROVE Rivals'
<1>1. CASE UNCHANGED vars
  <2>1. \A m \in Node, f \in NewFile : Owned(m, f)' /\ Together(m, f)'
    BY <1>1, BystanderRivals
       DEF vars, taskVars, gitVars, replayVars, claimVars, callVars, history
  <2>2. \A m \in Node : made'[m] \subseteq NewFile
    BY <1>1 DEF Rivals, vars, history
  <2>. QED BY <2>1, <2>2 DEF Rivals
<1>2. CASE Next
  BY <1>2, CoreStep, OpenRivals, PhaseRivals, StartCallRivals, GateRivals, ServeRivals,
     EndCallRivals, MergeRivals, AttachRivals, SettleRivals DEF Next
<1>. QED BY <1>1, <1>2

\* With any number of tasks, a task that has missed no merge never finds that
\* another version of a file it created was merged meanwhile.
THEOREM NoRivals == Spec => []NoRivalCreation
<1>1. Init => Rivals
  <2>1. ASSUME Init, NEW n \in Node, NEW f \in NewFile PROVE Owned(n, f) /\ Together(n, f)
    <3>1. /\ work[n][f] = {} /\ head[n][f] = {} /\ task[n] = "idle" /\ ~leftover[n].on
      BY <2>1 DEF Init, Empty, NewFile, NoLeftover
    <3>. QED BY <3>1 DEF Owned, Together, Holds, LeftBehind
  <2>. QED BY <2>1 DEF Rivals, Init
<1>2. Core /\ Rivals => NoRivalCreation
  <2>. SUFFICES ASSUME Core, Rivals, NEW n \in Node \ behind, NEW f \in made[n] \ abandoned,
                       task[n] = "running", integration[f] # {}
                PROVE  work[n][f] \cap integration[f] # {}
    BY Zenon DEF NoRivalCreation
  <2>1. f \in NewFile
    BY DEF Rivals
  <2>2. Joined(n, f)
    BY <2>1 DEF Rivals, Together
  <2>. QED BY <2>2 DEF Joined, Meets
<1>. QED BY <1>1, <1>2, CoreInit, CoreStep, RivalsStep, PTL DEF Spec
=============================================================================
