----------------------------- MODULE DurableLeaf -----------------------------
(***************************************************************************)
(* What one leaf promises on NVM.  The leaf is its keys and the leaf it    *)
(* links to; it exists twice, as the threads see it and as a crash would   *)
(* leave it.  Threads change the first by whole operations; the second     *)
(* only ever becomes equal to the first, in one step; a crash throws the   *)
(* first away.                                                             *)
(***************************************************************************)
EXTENDS Integers

CONSTANTS Keys, Nodes, NULL

VARIABLES seen, durable     \* each [keys : SUBSET Keys, next : Nodes \cup {NULL}]

DInit == seen = durable

Add(k)     == k \notin seen.keys /\ seen' = [seen EXCEPT !.keys = seen.keys \cup {k}]
Remove(k)  == k \in seen.keys /\ seen' = [seen EXCEPT !.keys = seen.keys \ {k}]
Relink(n)  == seen' = [seen EXCEPT !.next = n]
Split(U, n) ==
    /\ U # {} /\ U # seen.keys
    /\ \A x \in U, y \in seen.keys \ U : y < x
    /\ seen' = [keys |-> seen.keys \ U, next |-> n]

Change == /\ \/ \E k \in Keys : Add(k) \/ Remove(k)
             \/ \E n \in Nodes \cup {NULL} : Relink(n)
             \/ \E U \in SUBSET seen.keys, n \in Nodes : Split(U, n)
          /\ UNCHANGED durable

Persist == durable' = seen /\ UNCHANGED seen
Crash   == seen' = durable /\ UNCHANGED durable

DSpec == DInit /\ [][Change \/ Persist \/ Crash]_<<seen, durable>>
==============================================================================
