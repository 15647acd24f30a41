------------------------------- MODULE TreeNodes -------------------------------
(***************************************************************************)
(* The nodes of a requirement tree as the queue knows them.                *)
(***************************************************************************)
CONSTANTS
  Node,     \* the requirement ids of the tree
  Parents   \* [non-root node -> its parent]
=============================================================================
