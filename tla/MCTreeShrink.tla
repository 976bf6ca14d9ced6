---------------------------- MODULE MCTreeShrink ----------------------------
(***************************************************************************)
(* Two threads on a tree of one bnode over four leaves of one key: calls   *)
(* empty leaves next to leaves that other calls fill, split and empty.     *)
(* The root keeps its node: it has at least two leaves at all times.       *)
(***************************************************************************)
EXTENDS MCTree

CONSTANTS w1, w2

MCKeys == 2 .. 9 \cup {12}
MCWork == [t \in Threads |->
    IF t = w1 THEN {<<"del", 4>>, <<"insert", 3>>, <<"insert", 4>>, <<"lookup", 6>>}
              ELSE {<<"del", 6>>, <<"insert", 5>>, <<"insert", 3>>, <<"lookup", 4>>}]

\* The same in a tree of two bnode levels, where the left sibling of a leaf
\* can hang under another bnode.
MCWorkDeep == [t \in Threads |->
    IF t = w1 THEN {<<"insert", 7>>, <<"insert", 8>>} ELSE {<<"del", 9>>}]

\* One inserts into a leaf, the other empties the leaf to its right.
MCWorkAgain == [t \in Threads |-> IF t = w1 THEN {<<"insert", 3>>} ELSE {<<"del", 4>>}]

\* One splits the root leaf, the other looks a key up.
MCWorkRoot == [t \in Threads |-> IF t = w1 THEN {<<"insert", 3>>} ELSE {<<"lookup", 4>>}]
=============================================================================
