-------------------------- MODULE LBTreeProperties --------------------------
(***************************************************************************)
(* What makes the tree of module LBTree correct.                           *)
(***************************************************************************)
EXTENDS LBTree

SX == INSTANCE SequencesExt

\* State invariant: the tree, the pools and the mutex, and what each thread
\* has of its call's key and path, have their types.  (It says nothing of pc,
\* lev, sib, pkey, ptr, total and ret; LBTreeInv does where the proofs need it.)
TypeOK ==
    /\ tree_lock \in Threads \cup {NoThread}
    /\ tree_root \in Leaves \cup BNodes \cup {NULL}
    /\ root_level \in -1 .. MaxLevel
    /\ first_leaf \in Leaves \cup {NULL}
    /\ leaf \in [Leaves -> LeafType]
    /\ bnode \in [BNodes -> NodeType]
    /\ leafTop \in 0 .. MaxLeaf /\ nodeTop \in 0 .. MaxNode
    /\ leafFree \in [Threads -> Seq(Leaves)]
    /\ nodeFree \in [Threads -> Seq(BNodes)]
    /\ calls \in [Threads -> 0 .. MaxCalls]
    /\ op \in [Threads -> Ops \cup {"none"}]
    /\ key \in [Threads -> Keys \cup {NoKey}]
    /\ cur \in [Threads -> Leaves \cup BNodes \cup {NULL}]
    /\ parray \in [Threads -> [0 .. MaxLevel -> Leaves \cup BNodes \cup {NULL}]]
    /\ ppos \in [Threads -> [0 .. MaxLevel -> 0 .. NON_LEAF_KEY_NUM]]

-----------------------------------------------------------------------------
(***************************************************************************)
(* Who holds which lock bit, from where each thread is in its call.        *)
(***************************************************************************)
\* The levels of an insert still to be changed, from level i up.
GrowLevels(t, i) ==
    {j \in i .. root_level : \A h \in i .. j - 1 : Full(parray[t][h])}
ShrinkLevels(t, i) ==
    {j \in i .. root_level : \A h \in i .. j - 1 : bnode[parray[t][h]].num = 0}
Path(t, levels) == {parray[t][i] : i \in levels}

LastKey(t) == Cardinality(leaf[lp(t)].keys) = 1 /\ root_level > 0

HeldLeaves(t) ==
    CASE pc[t] \in {"insert", "split", "lower", "sibling"} -> {lp(t)}
      [] pc[t] \in {"leafDel", "freeLeaf"} -> {lp(t), sib[t]} \ {NULL}
      [] pc[t] = "parent" -> IF root_level = 0 THEN {lp(t)} ELSE {}
      [] pc[t] \in {"up", "growRoot", "unlockOld"} -> IF total[t] = 0 THEN {lp(t)} ELSE {}
      [] OTHER -> {}

HeldNodes(t) ==
    CASE pc[t] \in {"split", "lower", "parent"} -> Path(t, GrowLevels(t, 1))
      [] pc[t] = "up" -> IF lev[t] =< total[t] THEN Path(t, GrowLevels(t, lev[t]))
                         ELSE {parray[t][total[t]]} \cap BNodes
      [] pc[t] = "count" -> {parent(t)}
      [] pc[t] \in {"growRoot", "unlockOld"} -> {ptr[t], cur[t]} \cap BNodes
      [] pc[t] = "unlockNew" -> {ptr[t]}
      [] pc[t] = "leafDel" -> IF LastKey(t) THEN Path(t, ShrinkLevels(t, 1)) ELSE {}
      [] pc[t] = "freeLeaf" -> Path(t, ShrinkLevels(t, 1))
      [] pc[t] = "upDel" -> Path(t, ShrinkLevels(t, lev[t]))
      [] pc[t] \in {"dropLevel", "dropRoot", "freeRoot"} -> {parent(t)}
      [] OTHER -> {}

\* State invariant: a lock bit is set exactly when one call is still going to
\* change that node, and never is the same node held by two calls: no call
\* returns with a bit left set, clears one too early, or changes a node that
\* another call may read or change.
LocksOwned ==
    /\ \A a \in Leaves : ~FreedLeaf(a) =>
          (leaf[a].lock <=> \E t \in Threads : a \in HeldLeaves(t))
    /\ \A p \in BNodes : ~FreedNode(p) =>
          (bnode[p].lock <=> \E t \in Threads : p \in HeldNodes(t))
    /\ \A t, u \in Threads : t # u =>
          /\ HeldLeaves(t) \cap HeldLeaves(u) = {}
          /\ HeldNodes(t) \cap HeldNodes(u) = {}

-----------------------------------------------------------------------------
(***************************************************************************)
(* The sibling chain.                                                      *)
(***************************************************************************)
ChainSeq ==
    LET c[i \in 1 .. MaxLeaf + 1] ==
          IF i = 1 THEN first_leaf ELSE IF c[i - 1] = NULL THEN NULL ELSE leaf[c[i - 1]].next
    IN c
InChain == {ChainSeq[i] : i \in 1 .. MaxLeaf + 1} \ {NULL}

\* The keys the index holds: those in the leaves of the chain.
Present == UNION {leaf[a].keys : a \in InChain}

Below(S, T) == \A x \in S, y \in T : x < y

\* State invariant: at every step the chain from first_leaf ends, holds no
\* freed leaf and no empty one but the root, and its keys ascend from leaf to
\* leaf, whatever splits and removals are under way.
ChainOrdered ==
    /\ ChainSeq[MaxLeaf + 1] = NULL
    /\ \A a \in InChain : ~FreedLeaf(a) /\ (leaf[a].keys = {} => a = tree_root)
    /\ \A i \in 1 .. MaxLeaf : ChainSeq[i] # NULL /\ ChainSeq[i + 1] # NULL =>
          Below(leaf[ChainSeq[i]].keys, leaf[ChainSeq[i + 1]].keys)

\* State invariant: a leaf taken from the pool is in the chain, in the free
\* list of one thread, once, or unlinked and about to be freed: none is lost,
\* none freed twice, none freed while it is in the chain.
LeavesAccounted ==
    LET freed == {f \in Threads \X (1 .. MaxLeaf) : f[2] =< Len(leafFree[f[1]])}
        unlinked == {t \in Threads : pc[t] = "freeLeaf"}
    IN /\ \A a \in 1 .. leafTop :
             Cardinality({f \in freed : leafFree[f[1]][f[2]] = a})
             + Cardinality({t \in unlinked : lp(t) = a})
             + (IF a \in InChain THEN 1 ELSE 0) = 1
       /\ \A a \in Leaves : a > leafTop => a \notin InChain

-----------------------------------------------------------------------------
(***************************************************************************)
(* lbtree::check and checkFirstLeaf.                                       *)
(***************************************************************************)
\* The leaves under node p of level l, left to right.
LeavesUnder ==
    LET under[w \in (0 .. MaxLevel) \X (Leaves \cup BNodes \cup {NULL})] ==
          IF w[1] = 0 \/ w[2] \notin BNodes THEN <<w[2]>>
          ELSE SX!FlattenSeq([i \in 1 .. bnode[w[2]].num + 1 |->
                                under[<<w[1] - 1, bnode[w[2]].ch[i - 1]>>]])
    IN under
KeysUnder(l, p) ==
    LET s == LeavesUnder[<<l, p>>] IN UNION {leaf[s[i]].keys : i \in 1 .. Len(s)}

\* The bnodes of level l.
NodesOfLevel ==
    LET nodes[l \in 0 .. MaxLevel] ==
          IF l >= root_level THEN {tree_root}
          ELSE UNION {{bnode[p].ch[i] : i \in 0 .. bnode[p].num} : p \in nodes[l + 1]}
    IN nodes

CheckNode(l, p) ==
    LET b == bnode[p]
    IN /\ ~b.lock /\ ~FreedNode(p)
       /\ \A i \in 0 .. b.num :
             /\ i > 0 => \A x \in KeysUnder(l - 1, b.ch[i]) : b.k[i] =< x
             /\ i < b.num => \A x \in KeysUnder(l - 1, b.ch[i]) : x < b.k[i + 1]

CheckTree ==
    LET s == LeavesUnder[<<root_level, tree_root>>]
    IN /\ \A l \in 1 .. root_level : \A p \in NodesOfLevel[l] : p \in BNodes /\ CheckNode(l, p)
       /\ \A i \in 1 .. Len(s) : ~leaf[s[i]].lock /\ (leaf[s[i]].keys = {} => root_level = 0)
       /\ \A i \in 1 .. MaxLeaf : ChainSeq[i] = IF i =< Len(s) THEN s[i] ELSE NULL

AllIdle == \A t \in Threads : pc[t] = "idle"

\* State invariant: between calls the tree passes its own check(), which the
\* test driver runs after every phase: no lock bit set, every key in its
\* subtree's range, and the chain from first_leaf (checkFirstLeaf) visits
\* exactly the leaves of the tree, left to right, with none left over.
CheckPasses == AllIdle => CheckTree

\* State invariant: no call ever follows a wild or freed pointer, and no call
\* reads the path array above the level it came from.
NoWildRead == \A t \in Threads : ~WildRead(t)

-----------------------------------------------------------------------------
\* A write to leaf a or bnode p that is not in use, or by the call that holds
\* its lock bit, or that sets an open node's bit under tree_lock.
LeafWrite(a) ==
    \/ FreedLeaf(a) \/ a > leafTop
    \/ leaf[a].lock /\ \E t \in Threads : a \in HeldLeaves(t) /\ pc'[t] # pc[t]
    \/ /\ tree_lock # NoThread /\ ~leaf[a].lock
       /\ leaf'[a] = [leaf[a] EXCEPT !.lock = TRUE]
NodeWrite(p) ==
    \/ FreedNode(p) \/ -p > nodeTop
    \/ bnode[p].lock /\ \E t \in Threads :
                            p \in HeldNodes(t) /\ (pc'[t] # pc[t] \/ lev'[t] # lev[t])
    \/ /\ tree_lock # NoThread /\ ~bnode[p].lock
       /\ bnode'[p] = [bnode[p] EXCEPT !.lock = TRUE]
GoodWrites ==
    /\ \A a \in Leaves : leaf'[a] # leaf[a] => LeafWrite(a)
    /\ \A p \in BNodes : bnode'[p] # bnode[p] => NodeWrite(p)

\* Action property: a node in use changes only while its lock bit is set and
\* by a step of the call that holds it, except that Part 1, under tree_lock,
\* sets the bit of an open one.
\* Searches rely on it: what they read of an open node stays true until they
\* release tree_lock.
OnlyHolderWrites == [][GoodWrites]_vars

-----------------------------------------------------------------------------
(***************************************************************************)
(* The tree implements KVMap: a call has yet to take effect until it is    *)
(* done searching and, if it changes something, until the header or link   *)
(* write that shows the change.                                            *)
(***************************************************************************)
Searching == {"start", "readLevel", "readRoot", "descend", "sibling"}
Pending(t) ==
    IF pc[t] \in Searching \cup {"insert", "split", "lower", "leafDel"}
    THEN <<op[t], key[t]>> ELSE <<>>

KV == INSTANCE KVMap WITH
    InitKeys <- UNION {InitTree.leaf[a].keys : a \in Leaves},
    present <- Present,
    pending <- [t \in Threads |-> Pending(t)],
    answer <- ret

\* Refinement: every call of the concurrent tree takes effect at one moment
\* between its start and its return, and a lookup answers for that moment.
Linearizable == KV!KSpec

-----------------------------------------------------------------------------
\* Liveness: every call returns, once the calls of the other threads are
\* finitely many: whoever holds a lock bit can always go on without tree_lock,
\* and lets go of it.
EveryCallReturns == \A t \in Threads : pc[t] # "idle" ~> pc[t] = "idle"
=============================================================================
