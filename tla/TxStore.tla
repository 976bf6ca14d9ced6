------------------------------- MODULE TxStore -------------------------------
(***************************************************************************)
(* What transactions promise: a durable store that changes only when a     *)
(* transaction commits, all at once, and to what the transaction made of   *)
(* it.                                                                     *)
(***************************************************************************)
CONSTANTS Places, Contents

VARIABLES
    store,              \* what a crash would leave
    working,            \* what the transaction sees
    active              \* a transaction is running

vars == <<store, working, active>>

Init == store \in [Places -> Contents] /\ working = store /\ active = FALSE

Begin == ~active /\ active' = TRUE /\ UNCHANGED <<store, working>>

Change(p) ==
    /\ active
    /\ \E c \in Contents : working' = [working EXCEPT ![p] = c]
    /\ UNCHANGED <<store, active>>

Commit == active /\ active' = FALSE /\ store' = working /\ UNCHANGED working

Abort == active /\ active' = FALSE /\ working' = store /\ UNCHANGED store

Next == Begin \/ (\E p \in Places : Change(p)) \/ Commit \/ Abort

Spec == Init /\ [][Next]_vars
=============================================================================
