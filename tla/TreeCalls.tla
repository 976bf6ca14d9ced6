----------------------------- MODULE TreeCalls -----------------------------
(***************************************************************************)
(* lbtree::insert and del on the tree that bulkload made, with the pools   *)
(* of the worker that calls: every node a call takes or frees is a step.   *)
(* Calls run one at a time; what happens when they overlap is LBTree's     *)
(* subject.                                                                *)
(***************************************************************************)
EXTENDS BulkloadThreads

VARIABLES
    rest                \* what a call has left to do above its leaf: Part 3

NothingLeft == [op |-> "none"]

index == ToSet(KeysFrom(meta.first))

Sorted(S) == SetToSortSeq(S, <)

\* ppos[level], counting from 1
Position(p, key) == Max({i \in DOMAIN node[p] : i = 1 \/ node[p][i].k =< key})

\* parray[level]
OnPath(key, level) ==
    LET parray[l \in level .. meta.level] ==
          IF l = meta.level THEN meta.root
          ELSE node[parray[l + 1]][Position(parray[l + 1], key)].ch
    IN parray[level]

\* insert, Part 2
SplitKey(a) == leaf[a].keys[LEAF_KEY_NUM \div 2 + 1]

SplitLeaf(t, a, key) ==
    LET new == NodeAt(nvm[t])
        keys == ToSet(leaf[a].keys) \union {key}
        upper == {k \in keys : k >= SplitKey(a)}
    IN IF CanAllocNode(nvm[t])
       THEN /\ nvm' = [nvm EXCEPT ![t] = AllocNode(@)]
            /\ leaf' = (new :> [keys |-> Sorted(upper), next |-> leaf[a].next])
                       @@ [leaf EXCEPT ![a] = [keys |-> Sorted(keys \ upper), next |-> new]]
            /\ rest' = [op |-> "insert", by |-> t, key |-> key, level |-> 1,
                        kid |-> [k |-> SplitKey(a), ch |-> new]]
            /\ UNCHANGED main
       ELSE main' = "exit" /\ UNCHANGED <<nvm, leaf, rest>>

insert(t, key) ==
    LET a == OnPath(key, 0)
        keys == ToSet(leaf[a].keys)
    IN /\ IF Len(leaf[a].keys) < LEAF_KEY_NUM \/ key \in keys
          THEN /\ leaf' = [leaf EXCEPT ![a].keys = Sorted(keys \union {key})]
               /\ UNCHANGED <<nvm, rest, main>>
          ELSE SplitLeaf(t, a, key)
       /\ UNCHANGED <<mem, node, meta>>

(***************************************************************************)
(* insert, Part 3: (k, ch) goes into the parent, which splits if it is     *)
(* full; when the root has split there is a new one.                       *)
(***************************************************************************)
SplitParent(t, p, kids) ==
    LET new == NodeAt(mem[t])
        left == NON_LEAF_KEY_NUM \div 2 + 1
        right == SubSeq(kids, left + 1, Len(kids))
    IN IF CanAllocNode(mem[t])
       THEN /\ mem' = [mem EXCEPT ![t] = AllocNode(@)]
            /\ node' = (new :> [right EXCEPT ![1].k = NoKey])
                       @@ [node EXCEPT ![p] = SubSeq(kids, 1, left)]
            /\ rest' = [rest EXCEPT !.level = @ + 1, !.kid = [k |-> right[1].k, ch |-> new]]
            /\ UNCHANGED main
       ELSE main' = "exit" /\ UNCHANGED <<mem, node, rest>>

InsertChild(t) ==
    LET p == OnPath(rest.key, rest.level)
        kids == InsertAt(node[p], Position(p, rest.key) + 1, rest.kid)
    IN /\ rest.op = "insert" /\ rest.by = t /\ rest.level =< meta.level
       /\ IF Len(node[p]) =< NON_LEAF_KEY_NUM
          THEN /\ node' = [node EXCEPT ![p] = kids] /\ rest' = NothingLeft
               /\ UNCHANGED <<mem, main>>
          ELSE SplitParent(t, p, kids)
       /\ UNCHANGED <<nvm, leaf, meta>>

NewRoot(t) ==
    LET new == NodeAt(mem[t])
    IN /\ rest.op = "insert" /\ rest.by = t /\ rest.level > meta.level
       /\ IF CanAllocNode(mem[t])
          THEN /\ mem' = [mem EXCEPT ![t] = AllocNode(@)]
               /\ node' = (new :> <<[k |-> NoKey, ch |-> meta.root], rest.kid>>) @@ node
               /\ meta' = [meta EXCEPT !.root = new, !.level = rest.level]
               /\ rest' = NothingLeft /\ UNCHANGED main
          ELSE main' = "exit" /\ UNCHANGED <<mem, node, meta, rest>>
       /\ UNCHANGED <<nvm, leaf>>

(***************************************************************************)
(* del: a leaf with its last key goes to the NVM pool of the worker that   *)
(* deletes, and bnodes that have no other child, and a root with only one  *)
(* left, to its DRAM pool, whoever's memory they are.                      *)
(***************************************************************************)
del(t, key) ==
    LET a == OnPath(key, 0)
        keys == ToSet(leaf[a].keys)
    IN /\ IF key \notin keys \/ Cardinality(keys) > 1 \/ meta.level = 0
          THEN /\ leaf' = [leaf EXCEPT ![a].keys = Sorted(keys \ {key})]
               /\ UNCHANGED <<nvm, meta, rest>>
          ELSE /\ leaf' = [b \in DOMAIN leaf \ {a} |->
                             IF leaf[b].next = a THEN [leaf[b] EXCEPT !.next = leaf[a].next]
                             ELSE leaf[b]]
               /\ meta' = IF meta.first = a THEN [meta EXCEPT !.first = leaf[a].next] ELSE meta
               /\ nvm' = [nvm EXCEPT ![t] = FreeNode(@, a)]
               /\ rest' = [op |-> "del", by |-> t, key |-> key, level |-> 1]
       /\ UNCHANGED <<mem, node, main>>

\* Of child 0 only the pointer is overwritten: k(0) is no key.
WithoutChild(kids, pos) ==
    LET left == RemoveAt(kids, pos)
    IN IF pos = 1 /\ left # <<>> THEN [left EXCEPT ![1].k = NoKey] ELSE left

\* Slip: the node is freed again where the loop ends.
FreeTwice(t, p) ==
    /\ mem' = [mem EXCEPT ![t] = FreeNode(FreeNode(@, p), p)]
    /\ node' = [q \in DOMAIN node \ {p} |-> node[q]]

FreeParent(t, p) ==
    /\ mem' = [mem EXCEPT ![t] = FreeNode(@, p)]
    /\ node' = [q \in DOMAIN node \ {p} |-> node[q]]

RemoveChild(t) ==
    LET p == OnPath(rest.key, rest.level)
        kids == WithoutChild(node[p], Position(p, rest.key))
    IN /\ rest.op = "del" /\ rest.by = t /\ rest.level =< meta.level
       /\ CASE kids = <<>> ->
                 /\ FreeParent(t, p)
                 /\ rest' = [rest EXCEPT !.level = @ + 1] /\ UNCHANGED meta
            [] Len(kids) = 1 /\ rest.level >= meta.level ->
                 /\ FreeParent(t, p)
                 /\ meta' = [meta EXCEPT !.root = kids[1].ch, !.level = @ - 1]
                 /\ rest' = NothingLeft
            [] OTHER ->
                 /\ node' = [node EXCEPT ![p] = kids]
                 /\ rest' = NothingLeft /\ UNCHANGED <<mem, meta>>
       /\ UNCHANGED <<nvm, leaf, main>>

\* The root had one child: parray[lev] was never set, and what is freed and
\* written from here on is undefined.
AboveRoot(t) ==
    /\ rest.op = "del" /\ rest.by = t /\ rest.level > meta.level
    /\ main' = "undefined"
    /\ UNCHANGED <<mem, nvm, leaf, node, meta, rest>>

Part3(t) == InsertChild(t) \/ NewRoot(t) \/ RemoveChild(t) \/ AboveRoot(t)
=============================================================================
