--------------------------- MODULE MCTaskWorkspace ---------------------------
(***************************************************************************)
(* A small instance of TaskWorkspace. TwoGroups: a node b with a child c   *)
(* in one group, and a node a in a group of its own.                       *)
(***************************************************************************)
EXTENDS TaskWorkspace

ThreeNodes == {"a", "b", "c"}
TwoGroupsParents == [c |-> "b"]
TwoGroupsGroup == [a |-> "a", b |-> "b", c |-> "b"]
TwoGroupsTasks == [a |-> 1, b |-> 1, c |-> 2]

=============================================================================
