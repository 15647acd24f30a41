---------------------------- MODULE MCModelCalls ----------------------------
(***************************************************************************)
(* A small instance of ModelCalls.  The failures on record need no cap:    *)
(* the budget stops new calls and a call leaves finitely many behind.      *)
(***************************************************************************)
EXTENDS ModelCalls, TLC

AnyOrder == Permutations(Caller)
=============================================================================
