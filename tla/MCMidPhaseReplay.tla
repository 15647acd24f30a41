-------------------------- MODULE MCMidPhaseReplay --------------------------
(***************************************************************************)
(* A small instance of MidPhaseReplay: two tasks each, which land on each  *)
(* other over one shared and one new file.                                 *)
(***************************************************************************)
EXTENDS MidPhaseReplay, TLC

CONSTANTS a, b, shared, fresh

SharedAndFresh == {shared, fresh}
OnlyShared == {shared}

TwoTasksEach == (a :> 2) @@ (b :> 2)
TwoEditsEach == (a :> 2) @@ (b :> 2)
=============================================================================
