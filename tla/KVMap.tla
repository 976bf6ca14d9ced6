-------------------------------- MODULE KVMap --------------------------------
(***************************************************************************)
(* What the index promises its callers (class tree in common/tree.h): a    *)
(* set of keys, and calls by several threads each of which takes effect at *)
(* one moment between its start and its return.  insert of a key that is   *)
(* there and del of one that is not do nothing; lookup says whether the    *)
(* key is there.                                                           *)
(***************************************************************************)
CONSTANTS Threads, Keys, Work, InitKeys

VARIABLES
    present,    \* the keys of the index
    pending,    \* pending[t]: the call of t that has yet to take effect
    answer      \* answer[t]: what the last lookup of t returned

kvars == <<present, pending, answer>>

NoCall == <<>>

KInit ==
    /\ present = InitKeys
    /\ pending = [t \in Threads |-> NoCall]
    /\ answer = [t \in Threads |-> "none"]

KCall(t) ==
    /\ pending[t] = NoCall
    /\ \E w \in Work[t] : pending' = [pending EXCEPT ![t] = w]
    /\ answer' = [answer EXCEPT ![t] = "none"]
    /\ UNCHANGED present

KLookup(t) ==
    /\ pending[t] # NoCall /\ pending[t][1] = "lookup"
    /\ answer' = [answer EXCEPT ![t] = IF pending[t][2] \in present THEN "hit" ELSE "miss"]
    /\ pending' = [pending EXCEPT ![t] = NoCall]
    /\ UNCHANGED present

KInsert(t) ==
    /\ pending[t] # NoCall /\ pending[t][1] = "insert"
    /\ present' = present \cup {pending[t][2]}
    /\ pending' = [pending EXCEPT ![t] = NoCall]
    /\ UNCHANGED answer

KDel(t) ==
    /\ pending[t] # NoCall /\ pending[t][1] = "del"
    /\ present' = present \ {pending[t][2]}
    /\ pending' = [pending EXCEPT ![t] = NoCall]
    /\ UNCHANGED answer

KNext == \E t \in Threads : KCall(t) \/ KLookup(t) \/ KInsert(t) \/ KDel(t)

KSpec == KInit /\ [][KNext]_kvars
==============================================================================
