------------------------------ MODULE MCTreeSeq ------------------------------
(***************************************************************************)
(* One thread, any sequence of calls.  Three leaves at first, the second   *)
(* bnode of level 1 with one child; key 4 is never deleted, so some leaf   *)
(* is never emptied.                                                       *)
(***************************************************************************)
EXTENDS MCTree, LBTreeShape

MCKeys == {1, 2, 3, 4, 6}
MCWork == [t \in Threads |-> ({"insert"} \X MCKeys) \cup ({"del"} \X {1, 2, 6})
                             \cup ({"lookup"} \X {2})]
==============================================================================
