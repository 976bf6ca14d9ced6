------------------------------- MODULE MCTree -------------------------------
(***************************************************************************)
(* LBTree for TLC, started from a bulkloaded tree of equidistant keys.      *)
(***************************************************************************)
EXTENDS LBTreeProperties

CONSTANTS
    BulkKeys, BulkStep,     \* how many keys are bulkloaded, and their distance
    LeafFill, NodeFill      \* entries put in each leaf, keys in each bnode

BL == INSTANCE Bulkload
BulkInit == BL!BulkTree([i \in 1 .. BulkKeys |-> BulkStep * i], LeafFill, NodeFill, NoKey)
=============================================================================
