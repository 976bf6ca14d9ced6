------------------------------- MODULE LBTree -------------------------------
(***************************************************************************)
(* The volatile, concurrent view of the LB+-Tree of lbtree-src/lbtree.cc.  *)
(*                                                                         *)
(* Non-leaf nodes (bnode) and leaves (bleaf) live in two arrays indexed by *)
(* their address: a leaf has a positive address, a bnode a negative one    *)
(* and NULL is 0.  Part 1 of lookup, insert and del runs under the mutex   *)
(* tree_lock; a node it wants to change later gets its lock bit set there, *)
(* and Parts 2 and 3 change the locked nodes after the mutex is released.  *)
(* Every access of Part 1 to a variable another thread may change at that  *)
(* moment is a step of its own; what a step of Part 2 or 3 makes visible   *)
(* to other threads at one moment is one action.                           *)
(*                                                                         *)
(* Abstracted: a leaf is the set of its keys (slots, fingerprints, record  *)
(* pointers and cache lines are in module NvmLeaf).  No two keys are more   *)
(* than half the range of a key apart (see module NodeSearch).             *)
(***************************************************************************)
EXTENDS NodeSearch, Sequences, FiniteSets

CONSTANTS
    Threads,            \* the worker threads
    Keys,               \* the keys, a set of integers
    LEAF_KEY_NUM,       \* entries of a leaf (14 in the build)
    NON_LEAF_KEY_NUM,   \* keys of a bnode (15 in the build)
    MaxLevel,           \* highest root level (31 in the build)
    MaxLeaf, MaxNode,   \* size of the two memory pools, in nodes
    Work,               \* Work[t]: the <<op, key>> calls thread t may make
    MaxCalls,           \* calls each thread makes, 0 for any number
    InitTree,           \* the bulkloaded tree the calls start from
    NoThread,           \* tree_lock is free
    NoKey               \* a key field that was never written

NULL   == 0
Leaves == 1 .. MaxLeaf
BNodes == -MaxNode .. -1
Ops    == {"lookup", "insert", "del"}

LEFT_KEY_NUM  == NON_LEAF_KEY_NUM \div 2
RIGHT_KEY_NUM == NON_LEAF_KEY_NUM - LEFT_KEY_NUM

LeafType == [lock : BOOLEAN, keys : SUBSET Keys, next : Leaves \cup {NULL}]
NodeType == [lock : BOOLEAN, num : 0 .. NON_LEAF_KEY_NUM,
             k  : [1 .. NON_LEAF_KEY_NUM -> Keys \cup {NoKey}],
             ch : [0 .. NON_LEAF_KEY_NUM -> Leaves \cup BNodes \cup {NULL}]]

EmptyLeaf == [lock |-> FALSE, keys |-> {}, next |-> NULL]
EmptyNode == [lock |-> FALSE, num |-> 0,
              k  |-> [i \in 1 .. NON_LEAF_KEY_NUM |-> NoKey],
              ch |-> [i \in 0 .. NON_LEAF_KEY_NUM |-> NULL]]

TreeType == [root : Leaves \cup BNodes, level : 0 .. MaxLevel, first : Leaves,
             leaf : [Leaves -> LeafType], bnode : [BNodes -> NodeType],
             leafTop : 0 .. MaxLeaf, nodeTop : 0 .. MaxNode]

ASSUME SizeAssumption ==
    /\ LEAF_KEY_NUM \in Nat \ {0, 1}
    /\ NON_LEAF_KEY_NUM \in Nat \ {0, 1}
    /\ MaxCalls \in Nat
    /\ MaxLevel \in Nat \ {0} /\ MaxLeaf \in Nat /\ MaxNode \in Nat
    /\ Keys \subseteq KeyType
    /\ \A x, y \in Keys : Near(x, y)
    /\ NoThread \notin Threads /\ NoKey \notin Keys

ASSUME WorkAssumption == Work \in [Threads -> SUBSET (Ops \X Keys)]

ASSUME TreeAssumption == InitTree \in TreeType

(***************************************************************************)
(* Shared state.                                                           *)
(***************************************************************************)
VARIABLES
    tree_lock,          \* owner of the mutex, or NoThread
    tree_root, root_level, first_leaf,   \* treeMeta
    leaf, bnode,        \* the nodes
    leafTop, nodeTop,   \* nodes ever taken from the pools
    leafFree, nodeFree  \* per thread: its pool's list of freed nodes, LIFO

(***************************************************************************)
(* Local variables of the running call of each thread.                     *)
(***************************************************************************)
VARIABLES
    pc, op, key,
    calls,              \* calls made so far, when MaxCalls bounds them
    cur,                \* p: the node being visited
    lev,                \* i in Part 1, lev in Part 3
    parray, ppos,       \* the path; parray[0] is the leaf
    sib,                \* leaf_sibp
    pkey, ptr,          \* (key, ptr) to be inserted in the parent
    total,              \* total_level
    ret                 \* answer of the last lookup

tree   == <<tree_root, root_level, first_leaf>>
pools  == <<leafTop, nodeTop, leafFree, nodeFree>>
shared == <<tree_lock, tree, leaf, bnode, pools>>
call   == <<op, key, calls>>
path   == <<parray, ppos>>
up     == <<pkey, ptr, total>>
locals == <<call, cur, lev, path, sib, up, ret>>
vars   == <<shared, pc, locals>>

NoPath == [i \in 0 .. MaxLevel |-> NULL]

Init ==
    /\ tree_lock = NoThread
    /\ tree_root = InitTree.root
    /\ root_level = InitTree.level
    /\ first_leaf = InitTree.first
    /\ leaf = InitTree.leaf
    /\ bnode = InitTree.bnode
    /\ leafTop = InitTree.leafTop
    /\ nodeTop = InitTree.nodeTop
    /\ leafFree = [t \in Threads |-> <<>>]
    /\ nodeFree = [t \in Threads |-> <<>>]
    /\ pc     = [t \in Threads |-> "idle"]
    /\ op     = [t \in Threads |-> "none"]
    /\ key    = [t \in Threads |-> NoKey]
    /\ calls  = [t \in Threads |-> 0]
    /\ cur    = [t \in Threads |-> NULL]
    /\ lev    = [t \in Threads |-> 0]
    /\ parray = [t \in Threads |-> NoPath]
    /\ ppos   = [t \in Threads |-> NoPath]
    /\ sib    = [t \in Threads |-> NULL]
    /\ pkey   = [t \in Threads |-> NoKey]
    /\ ptr    = [t \in Threads |-> NULL]
    /\ total  = [t \in Threads |-> 0]
    /\ ret    = [t \in Threads |-> "none"]

(***************************************************************************)
(* Helpers.                                                                *)
(***************************************************************************)
FreedLeaf(a) == \E t \in Threads : \E i \in 1 .. Len(leafFree[t]) : leafFree[t][i] = a
FreedNode(a) == \E t \in Threads : \E i \in 1 .. Len(nodeFree[t]) : nodeFree[t][i] = a

\* Slip: == NON_LEAF_KEY_NUM off by one.  (An operator marked Slip is a
\* mutation of the one after it, for checking that a property notices.)
FullLate(p)  == bnode[p].num > NON_LEAF_KEY_NUM
Full(p)      == bnode[p].num = NON_LEAF_KEY_NUM
LeafFull(a)  == Cardinality(leaf[a].keys) = LEAF_KEY_NUM
lp(t)        == parray[t][0]

ChildPos(p, x) == ChildOf(bnode[p].k, bnode[p].num, x)

\* The locals of a call are gone when it returns.
Return(t) ==
    /\ pc'     = [pc EXCEPT ![t] = "idle"]
    /\ op'     = [op EXCEPT ![t] = "none"]
    /\ key'    = [key EXCEPT ![t] = NoKey]
    /\ cur'    = [cur EXCEPT ![t] = NULL]
    /\ lev'    = [lev EXCEPT ![t] = 0]
    /\ parray' = [parray EXCEPT ![t] = NoPath]
    /\ ppos'   = [ppos EXCEPT ![t] = NoPath]
    /\ sib'    = [sib EXCEPT ![t] = NULL]
    /\ pkey'   = [pkey EXCEPT ![t] = NoKey]
    /\ ptr'    = [ptr EXCEPT ![t] = NULL]
    /\ total'  = [total EXCEPT ![t] = 0]
    /\ UNCHANGED calls

Goto(t, label) == pc' = [pc EXCEPT ![t] = label]

\* goto Again1/Again2/Again3 after pthread_mutex_unlock.
Again(t) ==
    /\ Goto(t, "start")
    /\ tree_lock' = NoThread
    /\ cur' = [cur EXCEPT ![t] = NULL]
    /\ lev' = [lev EXCEPT ![t] = 0]

\* A node from the thread's own pool: the last one it freed, or a new one.
AllocLeaf(t, a) ==
    IF leafFree[t] # <<>>
    THEN /\ a = Head(leafFree[t])
         /\ leafFree' = [leafFree EXCEPT ![t] = Tail(leafFree[t])]
         /\ UNCHANGED leafTop
    ELSE /\ a = leafTop + 1
         /\ leafTop' = leafTop + 1
         /\ UNCHANGED leafFree

AllocNode(t, a) ==
    IF nodeFree[t] # <<>>
    THEN /\ a = Head(nodeFree[t])
         /\ nodeFree' = [nodeFree EXCEPT ![t] = Tail(nodeFree[t])]
         /\ UNCHANGED nodeTop
    ELSE /\ a = -(nodeTop + 1)
         /\ nodeTop' = nodeTop + 1
         /\ UNCHANGED nodeFree

\* Freeing writes the address of the next free node over lock and num: the
\* lock reads as set unless the list was empty.
FreeBNode(t, a) ==
    /\ nodeFree' = [nodeFree EXCEPT ![t] = <<a>> \o nodeFree[t]]
    /\ bnode' = [bnode EXCEPT ![a].lock = (nodeFree[t] # <<>>), ![a].num = 0]

\* Slip: the rest of the free list is dropped.
ForgetFreed(t, a)  == leafFree' = [leafFree EXCEPT ![t] = <<a>>]
FreeLeafNode(t, a) == leafFree' = [leafFree EXCEPT ![t] = <<a>> \o leafFree[t]]

-----------------------------------------------------------------------------
(***************************************************************************)
(* Part 1: under tree_lock.                                                *)
(***************************************************************************)
Call(t) ==
    /\ pc[t] = "idle"
    /\ MaxCalls > 0 => calls[t] < MaxCalls
    /\ calls' = [calls EXCEPT ![t] = IF MaxCalls > 0 THEN @ + 1 ELSE @]
    /\ \E w \in Work[t] :
          /\ op' = [op EXCEPT ![t] = w[1]]
          /\ key' = [key EXCEPT ![t] = w[2]]
    /\ Goto(t, "start")
    /\ ret' = [ret EXCEPT ![t] = "none"]
    /\ UNCHANGED <<shared, cur, lev, path, sib, up>>

\* tree_root and root_level are two reads, and neither is protected from a
\* thread in Part 3, which writes both without the mutex.  The source reads
\* tree_root first; a compiler may order two plain reads either way.
LockAndReadRoot(t) ==
    /\ pc[t] = "start" /\ tree_lock = NoThread
    /\ tree_lock' = t
    /\ cur' = [cur EXCEPT ![t] = tree_root]
    /\ Goto(t, "readLevel")
    /\ UNCHANGED <<tree, leaf, bnode, pools, call, lev, path, sib, up, ret>>

LockAndReadLevel(t) ==
    /\ pc[t] = "start" /\ tree_lock = NoThread
    /\ tree_lock' = t
    /\ lev' = [lev EXCEPT ![t] = root_level]
    /\ Goto(t, "readRoot")
    /\ UNCHANGED <<tree, leaf, bnode, pools, call, cur, path, sib, up, ret>>

ReadLevel(t) ==
    /\ pc[t] = "readLevel"
    /\ lev' = [lev EXCEPT ![t] = root_level]
    /\ Goto(t, "descend")
    /\ UNCHANGED <<shared, call, cur, path, sib, up, ret>>

ReadRoot(t) ==
    /\ pc[t] = "readRoot"
    /\ cur' = [cur EXCEPT ![t] = tree_root]
    /\ Goto(t, "descend")
    /\ UNCHANGED <<shared, call, lev, path, sib, up, ret>>

AtNode(t) == pc[t] = "descend" /\ lev[t] > 0 /\ cur[t] \in BNodes
AtLeaf(t) == pc[t] = "descend" /\ lev[t] = 0 /\ cur[t] \in Leaves /\ ~FreedLeaf(cur[t])

Descend(t) ==
    /\ AtNode(t) /\ ~bnode[cur[t]].lock
    /\ LET pos == ChildPos(cur[t], key[t])
       IN /\ parray' = [parray EXCEPT ![t][lev[t]] = cur[t]]
          /\ ppos' = [ppos EXCEPT ![t][lev[t]] = pos]
          /\ cur' = [cur EXCEPT ![t] = bnode[cur[t]].ch[pos]]
    /\ lev' = [lev EXCEPT ![t] = lev[t] - 1]
    /\ UNCHANGED <<shared, pc, call, sib, up, ret>>

\* The first 4 bytes of a leaf that holds keys, read as a bnode's lock, are
\* not 0: a thread that takes such a leaf for a bnode finds it locked.
BlockedByLock(t) ==
    /\ \/ AtNode(t) /\ bnode[cur[t]].lock
       \/ AtLeaf(t) /\ leaf[cur[t]].lock
       \/ /\ pc[t] = "descend" /\ lev[t] > 0 /\ cur[t] \in Leaves
          /\ ~FreedLeaf(cur[t]) /\ leaf[cur[t]].keys # {}
    /\ Again(t)
    /\ UNCHANGED <<tree, leaf, bnode, pools, call, path, sib, up, ret>>

\* Slip: the leaf's lock bit is not looked at.
AtAnyLeaf(t, o)  == AtLeaf(t) /\ op[t] = o
AtOpenLeaf(t, o) == AtLeaf(t) /\ ~leaf[cur[t]].lock /\ op[t] = o

LookupLeaf(t) ==
    /\ AtOpenLeaf(t, "lookup")
    /\ ret' = [ret EXCEPT ![t] = IF key[t] \in leaf[cur[t]].keys THEN "hit" ELSE "miss"]
    /\ tree_lock' = NoThread
    /\ Return(t)
    /\ UNCHANGED <<tree, leaf, bnode, pools>>

\* insert finds the key, or del does not: nothing to do.
NothingToDo(t) ==
    /\ \/ AtOpenLeaf(t, "insert") /\ key[t] \in leaf[cur[t]].keys
       \/ AtOpenLeaf(t, "del") /\ key[t] \notin leaf[cur[t]].keys
    /\ tree_lock' = NoThread
    /\ Return(t)
    /\ UNCHANGED <<tree, leaf, bnode, pools, ret>>

\* The ancestors a call locks: from level 1 up to and including the first
\* that stops the change, or all up to the root.
Ancestors(t, Stops(_)) ==
    {i \in 1 .. root_level : \A j \in 1 .. i - 1 : ~Stops(parray[t][j])}
\* Slips: only the parent is locked; every ancestor is.
AlwaysStops(p) == p \in BNodes
NeverStops(p)  == p \notin BNodes
InsertStops(p) == p \in BNodes /\ bnode[p].num # NON_LEAF_KEY_NUM
DelStops(p)    == p \in BNodes /\ bnode[p].num >= 1

\* parray holds garbage above the level the call came down from.
Known(t, levels) == \A i \in levels : parray[t][i] \in BNodes

\* Slip: the ancestors' lock bits are not set.
LockNone(t, levels) == UNCHANGED bnode
LockNodes(t, levels) ==
    bnode' = [p \in BNodes |->
                 IF \E i \in levels : parray[t][i] = p
                 THEN [bnode[p] EXCEPT !.lock = TRUE] ELSE bnode[p]]

InsertLock(t) ==
    /\ AtOpenLeaf(t, "insert") /\ key[t] \notin leaf[cur[t]].keys
    /\ leaf' = [leaf EXCEPT ![cur[t]].lock = TRUE]
    /\ parray' = [parray EXCEPT ![t][0] = cur[t]]
    /\ IF LeafFull(cur[t])
       THEN /\ Known(t, Ancestors(t, InsertStops))
            /\ LockNodes(t, Ancestors(t, InsertStops))
            /\ Goto(t, "split")
       ELSE Goto(t, "insert") /\ UNCHANGED bnode
    /\ tree_lock' = NoThread
    /\ UNCHANGED <<tree, pools, call, cur, lev, ppos, sib, up, ret>>

\* The first level, from the leaf up, whose path is not the leftmost child:
\* the left sibling is under the child before it.
SiblingLevels(t) == {i \in 1 .. root_level : ppos[t][i] >= 1 \/ ~Known(t, {i})}

DelLock(t) ==
    /\ AtOpenLeaf(t, "del") /\ key[t] \in leaf[cur[t]].keys
    /\ leaf' = [leaf EXCEPT ![cur[t]].lock = TRUE]
    /\ parray' = [parray EXCEPT ![t][0] = cur[t]]
    /\ CASE Cardinality(leaf[cur[t]].keys) # 1 ->
              /\ tree_lock' = NoThread
              /\ Goto(t, "leafDel")
              /\ UNCHANGED <<bnode, cur, lev>>
         [] Cardinality(leaf[cur[t]].keys) = 1 /\ SiblingLevels(t) = {} ->
              /\ Known(t, Ancestors(t, DelStops))
              /\ LockNodes(t, Ancestors(t, DelStops))
              /\ tree_lock' = NoThread
              /\ Goto(t, "leafDel")
              /\ UNCHANGED <<cur, lev>>
         [] OTHER ->
              LET i == CHOOSE i \in SiblingLevels(t) : \A j \in SiblingLevels(t) : i =< j
              IN /\ Known(t, {i})
                 /\ cur' = [cur EXCEPT ![t] = bnode[parray[t][i]].ch[ppos[t][i] - 1]]
                 /\ lev' = [lev EXCEPT ![t] = i - 1]
                 /\ Goto(t, "sibling")
                 /\ UNCHANGED <<bnode, tree_lock>>
    /\ UNCHANGED <<tree, pools, call, ppos, sib, up, ret>>

\* The walk to the left sibling looks at no bnode's lock.
SiblingDown(t) ==
    /\ pc[t] = "sibling" /\ lev[t] > 0 /\ cur[t] \in BNodes
    /\ ~(FreedNode(cur[t]) /\ bnode[cur[t]].lock)
    /\ cur' = [cur EXCEPT ![t] = bnode[cur[t]].ch[bnode[cur[t]].num]]
    /\ lev' = [lev EXCEPT ![t] = lev[t] - 1]
    /\ UNCHANGED <<shared, pc, call, path, sib, up, ret>>

AtSibling(t) == pc[t] = "sibling" /\ lev[t] = 0 /\ cur[t] \in Leaves /\ ~FreedLeaf(cur[t])

\* The retry leaves the leaf's own lock bit set.
SiblingLocked(t) ==
    /\ AtSibling(t) /\ leaf[cur[t]].lock
    /\ sib' = [sib EXCEPT ![t] = cur[t]]
    /\ Again(t)
    /\ UNCHANGED <<tree, leaf, bnode, pools, call, path, up, ret>>

SiblingLock(t) ==
    /\ AtSibling(t) /\ ~leaf[cur[t]].lock
    /\ sib' = [sib EXCEPT ![t] = cur[t]]
    /\ leaf' = [leaf EXCEPT ![cur[t]].lock = TRUE]
    /\ Known(t, Ancestors(t, DelStops))
    /\ LockNodes(t, Ancestors(t, DelStops))
    /\ tree_lock' = NoThread
    /\ Goto(t, "leafDel")
    /\ UNCHANGED <<tree, pools, call, cur, lev, path, up, ret>>

-----------------------------------------------------------------------------
(***************************************************************************)
(* Parts 2 and 3 of insert: no mutex.                                      *)
(***************************************************************************)
\* Leaf not full: the 8-byte header write shows the entry and unlocks.
InsertEntry(t) ==
    /\ pc[t] = "insert"
    /\ leaf' = [leaf EXCEPT ![lp(t)].keys = @ \cup {key[t]}, ![lp(t)].lock = FALSE]
    /\ Return(t)
    /\ UNCHANGED <<tree_lock, tree, bnode, pools, ret>>

\* The k-th smallest key of a leaf, from 0: sorted_pos[k] of qsortBleaf.
SortedKey(S, k) == CHOOSE x \in S : Cardinality({y \in S : y < x}) = k

\* Slip: the entry of split_key moves nowhere.
WithoutMiddle(S, split_key) == {x \in S : x > split_key}
UpperHalf(S, split_key)     == {x \in S : x >= split_key}

\* Slip: the comparison with split_key reversed.
GoesBelow(x, split_key) == x < split_key
GoesAbove(x, split_key) == x > split_key

\* Leaf full: the upper half moves to a new leaf.  The two-word header write
\* switches lp to the lower half and to its other next pointer, the new leaf;
\* it also unlocks lp when the key went into the new leaf, unless lp is root.
SplitLeaf(t) ==
    /\ pc[t] = "split"
    /\ LET old == leaf[lp(t)]
           split_key == SortedKey(old.keys, LEAF_KEY_NUM \div 2)
           upper == UpperHalf(old.keys, split_key)
           above == GoesAbove(key[t], split_key)
       IN \E newp \in Leaves :
            /\ AllocLeaf(t, newp)
            /\ leaf' = [leaf EXCEPT
                  ![newp] = [lock |-> FALSE, next |-> old.next,
                             keys |-> IF above THEN upper \cup {key[t]} ELSE upper],
                  ![lp(t)] = [lock |-> ~(above /\ root_level > 0), next |-> newp,
                              keys |-> old.keys \ upper]]
            /\ pkey' = [pkey EXCEPT ![t] = split_key]
            /\ ptr' = [ptr EXCEPT ![t] = newp]
            /\ Goto(t, IF above THEN "parent" ELSE "lower")
    /\ UNCHANGED <<tree_lock, tree, bnode, nodeTop, nodeFree, call, cur, lev, path,
                   sib, total, ret>>

InsertLower(t) ==
    /\ pc[t] = "lower"
    /\ leaf' = [leaf EXCEPT ![lp(t)].keys = @ \cup {key[t]},
                            ![lp(t)].lock = ~(root_level > 0)]
    /\ Goto(t, "parent")
    /\ UNCHANGED <<tree_lock, tree, bnode, pools, call, cur, lev, path, sib, up, ret>>

ReadTotalLevel(t) ==
    /\ pc[t] = "parent"
    /\ total' = [total EXCEPT ![t] = root_level]
    /\ lev' = [lev EXCEPT ![t] = 1]
    /\ Goto(t, "up")
    /\ UNCHANGED <<shared, call, cur, path, sib, pkey, ptr, ret>>

AtParent(t) == pc[t] = "up" /\ lev[t] =< total[t] /\ parray[t][lev[t]] \in BNodes
parent(t)   == parray[t][lev[t]]

\* The arrays of p with (x, c) put at pos, before num counts it.
ShiftedKeys(p, pos, x) ==
    [i \in 1 .. bnode[p].num + 1 |->
        IF i < pos THEN bnode[p].k[i] ELSE IF i = pos THEN x ELSE bnode[p].k[i - 1]]
\* Slip: the new child is put to the left of the one it was split from.
ShiftedBefore(p, pos, c) ==
    [i \in 0 .. bnode[p].num + 1 |->
        IF i < pos - 1 THEN bnode[p].ch[i] ELSE IF i = pos - 1 THEN c ELSE bnode[p].ch[i - 1]]
ShiftedChildren(p, pos, c) ==
    [i \in 0 .. bnode[p].num + 1 |->
        IF i < pos THEN bnode[p].ch[i] ELSE IF i = pos THEN c ELSE bnode[p].ch[i - 1]]

\* Entries f[from], f[from + 1] .. f[to] as the entries of a node from first
\* on; the rest of the array is never read.
KeyArray(f, from, to) ==
    [i \in 1 .. NON_LEAF_KEY_NUM |-> IF from + i - 1 =< to THEN f[from + i - 1] ELSE NoKey]
ChildArray(f, from, to) ==
    [i \in 0 .. NON_LEAF_KEY_NUM |-> IF from + i =< to THEN f[from + i] ELSE NULL]

ParentShift(t) ==
    /\ AtParent(t) /\ ~Full(parent(t))
    /\ LET p == parent(t)
           pos == ppos[t][lev[t]] + 1
           n == bnode[p].num
       IN bnode' = [bnode EXCEPT
             ![p].k  = KeyArray(ShiftedKeys(p, pos, pkey[t]), 1, n + 1),
             ![p].ch = ChildArray(ShiftedChildren(p, pos, ptr[t]), 0, n + 1)]
    /\ Goto(t, "count")
    /\ UNCHANGED <<tree_lock, tree, leaf, pools, locals>>

ParentCount(t) ==
    /\ pc[t] = "count"
    /\ bnode' = [bnode EXCEPT ![parent(t)].num = @ + 1, ![parent(t)].lock = FALSE]
    /\ Return(t)
    /\ UNCHANGED <<tree_lock, tree, leaf, pools, ret>>

\* Full: LEFT_KEY_NUM keys stay, one goes up, RIGHT_KEY_NUM go to newp; p is
\* unlocked here unless it is the root.
ParentSplit(t) ==
    /\ AtParent(t) /\ Full(parent(t)) /\ lev[t] < MaxLevel
    /\ LET p == parent(t)
           pos == ppos[t][lev[t]] + 1
           ks == ShiftedKeys(p, pos, pkey[t])
           cs == ShiftedChildren(p, pos, ptr[t])
       IN \E newp \in BNodes :
            /\ AllocNode(t, newp)
            /\ bnode' = [bnode EXCEPT
                  ![p] = [lock |-> lev[t] >= total[t], num |-> LEFT_KEY_NUM,
                          k  |-> KeyArray(ks, 1, LEFT_KEY_NUM),
                          ch |-> ChildArray(cs, 0, LEFT_KEY_NUM)],
                  ![newp] = [lock |-> FALSE, num |-> RIGHT_KEY_NUM,
                             k  |-> KeyArray(ks, LEFT_KEY_NUM + 2, NON_LEAF_KEY_NUM + 1),
                             ch |-> ChildArray(cs, LEFT_KEY_NUM + 1, NON_LEAF_KEY_NUM + 1)]]
            /\ pkey' = [pkey EXCEPT ![t] = ks[LEFT_KEY_NUM + 1]]
            /\ ptr' = [ptr EXCEPT ![t] = newp]
    /\ lev' = [lev EXCEPT ![t] = lev[t] + 1]
    /\ UNCHANGED <<tree_lock, tree, leaf, leafTop, leafFree, pc, call, cur, path, sib,
                   total, ret>>

\* Root split: the new root, then root_level, tree_root, the two unlocks.
GrowLevel(t) ==
    /\ pc[t] = "up" /\ lev[t] > total[t]
    /\ \E newp \in BNodes :
          /\ AllocNode(t, newp)
          /\ bnode' = [bnode EXCEPT ![newp] =
                [lock |-> TRUE, num |-> 1,
                 k  |-> [EmptyNode.k EXCEPT ![1] = pkey[t]],
                 ch |-> [EmptyNode.ch EXCEPT ![0] = tree_root, ![1] = ptr[t]]]]
          /\ ptr' = [ptr EXCEPT ![t] = newp]
    /\ cur' = [cur EXCEPT ![t] = tree_root]
    /\ root_level' = lev[t]
    /\ Goto(t, "growRoot")
    /\ UNCHANGED <<tree_lock, tree_root, first_leaf, leaf, leafTop, leafFree, call, lev,
                   path, sib, pkey, total, ret>>

GrowRoot(t) ==
    /\ pc[t] = "growRoot"
    /\ tree_root' = ptr[t]
    /\ Goto(t, "unlockOld")
    /\ UNCHANGED <<tree_lock, root_level, first_leaf, leaf, bnode, pools, locals>>

UnlockOldRoot(t) ==
    /\ pc[t] = "unlockOld"
    /\ IF total[t] > 0
       THEN /\ cur[t] \in BNodes
            /\ bnode' = [bnode EXCEPT ![cur[t]].lock = FALSE]
            /\ UNCHANGED leaf
       ELSE /\ cur[t] \in Leaves
            /\ leaf' = [leaf EXCEPT ![cur[t]].lock = FALSE]
            /\ UNCHANGED bnode
    /\ Goto(t, "unlockNew")
    /\ UNCHANGED <<tree_lock, tree, pools, locals>>

UnlockNewRoot(t) ==
    /\ pc[t] = "unlockNew"
    /\ bnode' = [bnode EXCEPT ![ptr[t]].lock = FALSE]
    /\ Return(t)
    /\ UNCHANGED <<tree_lock, tree, leaf, pools, ret>>

-----------------------------------------------------------------------------
(***************************************************************************)
(* Parts 2 and 3 of del: no mutex.                                         *)
(***************************************************************************)
KeepsLeaf(t) == Cardinality(leaf[lp(t)].keys) > 1 \/ root_level = 0

DeleteEntry(t) ==
    /\ pc[t] = "leafDel" /\ KeepsLeaf(t)
    /\ leaf' = [leaf EXCEPT ![lp(t)].keys = @ \ {key[t]}, ![lp(t)].lock = FALSE]
    /\ Return(t)
    /\ UNCHANGED <<tree_lock, tree, bnode, pools, ret>>

\* Slip: the chain keeps the removed leaf.
SkipNothing(t) == lp(t)
NextAfter(t)   == leaf[lp(t)].next

\* The last key goes with its leaf: take the leaf out of the sibling chain.
UnlinkLeaf(t) ==
    /\ pc[t] = "leafDel" /\ ~KeepsLeaf(t)
    /\ IF sib[t] # NULL
       THEN /\ leaf' = [leaf EXCEPT ![sib[t]].next = NextAfter(t)]
            /\ UNCHANGED first_leaf
       ELSE /\ first_leaf' = NextAfter(t)
            /\ UNCHANGED leaf
    /\ Goto(t, "freeLeaf")
    /\ UNCHANGED <<tree_lock, tree_root, root_level, bnode, pools, locals>>

FreeLeaf(t) ==
    /\ pc[t] = "freeLeaf"
    /\ leaf' = [a \in Leaves |-> IF a = lp(t) THEN EmptyLeaf
                                 ELSE IF a = sib[t] THEN [leaf[a] EXCEPT !.lock = FALSE]
                                 ELSE leaf[a]]
    /\ FreeLeafNode(t, lp(t))
    /\ lev' = [lev EXCEPT ![t] = 1]
    /\ Goto(t, "upDel")
    /\ UNCHANGED <<tree_lock, tree, bnode, leafTop, nodeTop, nodeFree, call, cur, path,
                   sib, up, ret>>

AtDelParent(t) == pc[t] = "upDel" /\ lev[t] =< MaxLevel /\ parray[t][lev[t]] \in BNodes

\* Slip: the key before the one that goes with the child.
KeyBefore(pos)  == IF pos = 0 THEN 1 ELSE pos - 1
KeyRemoved(pos) == IF pos = 0 THEN 1 ELSE pos

\* p without child pos: its key goes too, or key 1 when pos is 0.
RemoveChild(t) ==
    /\ AtDelParent(t) /\ bnode[parent(t)].num > 0
    /\ LET p == parent(t)
           n == bnode[p].num
           pos == ppos[t][lev[t]]
           gone == KeyRemoved(pos)
           ks == [i \in 1 .. n - 1 |-> IF i < gone THEN bnode[p].k[i] ELSE bnode[p].k[i + 1]]
           cs == [i \in 0 .. n - 1 |-> IF i < pos THEN bnode[p].ch[i] ELSE bnode[p].ch[i + 1]]
           isRoot == n = 1 /\ lev[t] >= root_level
       IN /\ bnode' = [bnode EXCEPT
                ![p] = [lock |-> isRoot, num |-> n - 1,
                        k |-> KeyArray(ks, 1, n - 1), ch |-> ChildArray(cs, 0, n - 1)]]
          /\ IF isRoot
             THEN Goto(t, "dropLevel") /\ UNCHANGED <<call, cur, lev, path, sib, up>>
             ELSE Return(t)
    /\ UNCHANGED <<tree_lock, tree, leaf, pools, ret>>

\* p had only this child.
FreeParent(t) ==
    /\ AtDelParent(t) /\ bnode[parent(t)].num = 0
    /\ FreeBNode(t, parent(t))
    /\ lev' = [lev EXCEPT ![t] = lev[t] + 1]
    /\ UNCHANGED <<tree_lock, tree, leaf, leafTop, nodeTop, leafFree, pc, call, cur, path,
                   sib, up, ret>>

\* The root has one child left: that child becomes the root.
DropLevel(t) ==
    /\ pc[t] = "dropLevel"
    /\ root_level' = root_level - 1
    /\ Goto(t, "dropRoot")
    /\ UNCHANGED <<tree_lock, tree_root, first_leaf, leaf, bnode, pools, locals>>

DropRoot(t) ==
    /\ pc[t] = "dropRoot"
    /\ tree_root' = bnode[parent(t)].ch[0]
    /\ Goto(t, "freeRoot")
    /\ UNCHANGED <<tree_lock, root_level, first_leaf, leaf, bnode, pools, locals>>

FreeOldRoot(t) ==
    /\ pc[t] = "freeRoot"
    /\ FreeBNode(t, parent(t))
    /\ Return(t)
    /\ UNCHANGED <<tree_lock, tree, leaf, leafTop, nodeTop, leafFree, ret>>

-----------------------------------------------------------------------------
(***************************************************************************)
(* Undefined behaviour: the thread follows a pointer of the wrong type, a  *)
(* freed node's first bytes, or an entry of parray never written.  What    *)
(* follows is anything the build may do, so no action models it: a thread  *)
(* in such a state has no step, and the states themselves are what to      *)
(* exclude.                                                                *)
(***************************************************************************)
WildRead(t) ==
    \/ /\ pc[t] = "descend"
       /\ ~(AtNode(t) \/ AtLeaf(t))
       /\ ~(/\ lev[t] > 0 /\ cur[t] \in Leaves
            /\ ~FreedLeaf(cur[t]) /\ leaf[cur[t]].keys # {})
    \/ /\ AtOpenLeaf(t, "insert") /\ key[t] \notin leaf[cur[t]].keys
       /\ LeafFull(cur[t]) /\ ~Known(t, Ancestors(t, InsertStops))
    \/ /\ AtOpenLeaf(t, "del") /\ leaf[cur[t]].keys = {key[t]}
       /\ IF SiblingLevels(t) = {}
          THEN ~Known(t, Ancestors(t, DelStops))
          ELSE ~Known(t, {CHOOSE i \in SiblingLevels(t) : \A j \in SiblingLevels(t) : i =< j})
    \/ /\ pc[t] = "sibling"
       /\ \/ lev[t] = 0 /\ ~AtSibling(t)
          \/ /\ lev[t] > 0
             /\ cur[t] \in BNodes => FreedNode(cur[t]) /\ bnode[cur[t]].lock
          \/ /\ AtSibling(t) /\ ~leaf[cur[t]].lock
             /\ ~Known(t, Ancestors(t, DelStops))
    \/ pc[t] = "up" /\ lev[t] =< total[t] /\ ~AtParent(t)
    \/ pc[t] = "unlockOld" /\ (total[t] > 0) # (cur[t] \in BNodes)
    \/ pc[t] = "upDel" /\ ~AtDelParent(t)

-----------------------------------------------------------------------------
Search(t) ==
    \/ LockAndReadRoot(t) \/ LockAndReadLevel(t) \/ ReadLevel(t) \/ ReadRoot(t)
    \/ Descend(t) \/ BlockedByLock(t) \/ LookupLeaf(t) \/ NothingToDo(t)
    \/ InsertLock(t) \/ DelLock(t)
    \/ SiblingDown(t) \/ SiblingLocked(t) \/ SiblingLock(t)

Insert(t) ==
    \/ InsertEntry(t) \/ SplitLeaf(t) \/ InsertLower(t) \/ ReadTotalLevel(t)
    \/ ParentShift(t) \/ ParentCount(t) \/ ParentSplit(t)
    \/ GrowLevel(t) \/ GrowRoot(t) \/ UnlockOldRoot(t) \/ UnlockNewRoot(t)

Del(t) ==
    \/ DeleteEntry(t) \/ UnlinkLeaf(t) \/ FreeLeaf(t) \/ RemoveChild(t) \/ FreeParent(t)
    \/ DropLevel(t) \/ DropRoot(t) \/ FreeOldRoot(t)

Step(t) == Search(t) \/ Insert(t) \/ Del(t)

\* The driver joins the threads.
Join ==
    /\ MaxCalls > 0
    /\ \A t \in Threads : pc[t] = "idle" /\ calls[t] = MaxCalls
    /\ UNCHANGED vars

Next == (\E t \in Threads : Call(t) \/ Step(t)) \/ Join

Spec == Init /\ [][Next]_vars

\* A thread with a step keeps being scheduled; the mutex need not be fair.
FairSpec == Spec /\ \A t \in Threads : WF_vars(Step(t))

=============================================================================
