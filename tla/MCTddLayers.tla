----------------------------- MODULE MCTddLayers -----------------------------
(***************************************************************************)
(* A small instance of TddLayers: three layers with a file each, the last, *)
(* whose runner takes a case filter, with two cases.                       *)
(***************************************************************************)
EXTENDS TddLayers, TLC

ThreeLayers == <<"Unit", "Integration", "E2E">>
ThreeFiles == [Unit |-> {"u"}, Integration |-> {"i"}, E2E |-> {"e"}]
ThreeCases == [u |-> {"u1"}, i |-> {"i1"}, e |-> {"e1", "e2"}]

\* The calls of a batch are alike.
CallsAlike == Permutations(Call)
=============================================================================
