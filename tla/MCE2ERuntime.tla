----------------------------- MODULE MCE2ERuntime -----------------------------
(***************************************************************************)
(* A small instance of E2ERuntime: two groups of tests with a database     *)
(* each; the groups are alike, and so are the contents of the sources.     *)
(***************************************************************************)
EXTENDS E2ERuntime, TLC

Alike == Permutations(Suite) \cup Permutations(Source)
=============================================================================
