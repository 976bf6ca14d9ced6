----------------------------- MODULE MCTreeGrow -----------------------------
(***************************************************************************)
(* Two threads on a tree of two bnode levels and full leaves: inserts      *)
(* split leaves and a bnode below the root; no leaf is emptied and the     *)
(* root never splits.                                                      *)
(***************************************************************************)
EXTENDS MCTree, LBTreeShape

CONSTANTS w1, w2

MCKeys == {2, 3, 4, 6, 7, 8, 10, 11, 12, 14, 16}
MCWork == [t \in Threads |->
    IF t = w1 THEN {"insert"} \X {3, 7} \cup {<<"lookup", 11>>}
              ELSE {<<"insert", 11>>, <<"insert", 3>>, <<"del", 6>>, <<"lookup", 7>>, <<"lookup", 4>>}]
=============================================================================
