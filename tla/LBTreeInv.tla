------------------------------ MODULE LBTreeInv ------------------------------
(***************************************************************************)
(* The inductive invariant of module LBTree, for calls that take no leaf   *)
(* out of the tree.                                                        *)
(*                                                                         *)
(* It speaks of the tree through its shape sh, which gives each node a      *)
(* level, the range lo .. hi - 1 of the keys that belong under it, how     *)
(* many entries it has (one more than num between ParentShift and          *)
(* ParentCount), the thread that may change it, and the node end that its  *)
(* range reaches to in the eyes of its parent: itself, but for a node that *)
(* is split and whose new sibling is not in the parent yet.  A thread that *)
(* splits nodes is going to change the levels up to top.                   *)
(***************************************************************************)
EXTENDS LBTreeProperties

Addr == Leaves \cup BNodes
Low  == -HalfRange      \* no key is below Low
High == HalfRange       \* all keys are below High

ShapeType ==
    [lvl : [Addr -> 0 .. MaxLevel], lo : [Addr -> Int], hi : [Addr -> Int],
     cnt : [BNodes -> 0 .. NON_LEAF_KEY_NUM], end : [Addr -> Addr],
     own : [Addr -> Threads \cup {NoThread}], top : [Threads -> 0 .. MaxLevel]]

TakenLeaves == 1 .. leafTop
TakenNodes  == -nodeTop .. -1
Taken       == TakenLeaves \cup TakenNodes

Locked(a) == IF a \in Leaves THEN leaf[a].lock ELSE bnode[a].lock

Stages == {"idle", "start", "readLevel", "readRoot", "descend", "insert", "split", "lower",
           "parent", "up", "count", "growRoot", "unlockOld", "unlockNew", "leafDel"}
Part1    == {"readLevel", "readRoot", "descend"}
\* A new node waits for its entry in the parent of the node it was split from.
Climbing == {"lower", "parent", "up"}
Splitting == {"split"} \cup Climbing
Growing  == \E t \in Threads : pc[t] = "growRoot"

\* The level of the node thread t has split last.
Base(t) == IF pc[t] = "up" THEN lev[t] - 1 ELSE 0

-----------------------------------------------------------------------------
(***************************************************************************)
(* The tree.                                                               *)
(***************************************************************************)
\* n entries k[1] .. k[n], ch[0] .. ch[n] of a node of level l divide the
\* range low .. high - 1 among their children.
EntriesFit(sh, k, ch, n, low, high, l) ==
    /\ \A i \in 1 .. n : k[i] \in Keys /\ low < k[i] /\ k[i] < high
    /\ \A i, j \in 1 .. n : i < j => k[i] < k[j]
    /\ \A i \in 0 .. n :
          /\ ch[i] \in Taken /\ sh.lvl[ch[i]] + 1 = l
          /\ sh.lo[ch[i]] = (IF i = 0 THEN low ELSE k[i])
          /\ sh.hi[sh.end[ch[i]]] = (IF i = n THEN high ELSE k[i + 1])

NodeFits(sh, p) ==
    EntriesFit(sh, bnode[p].k, bnode[p].ch, sh.cnt[p], sh.lo[p], sh.hi[p], sh.lvl[p])

LeafFits(sh, a) ==
    /\ leaf[a].keys # {}
    /\ \A x \in leaf[a].keys : sh.lo[a] =< x /\ x < sh.hi[a]
    /\ leaf[a].next = NULL => sh.hi[a] = High
    /\ leaf[a].next # NULL => leaf[a].next \in TakenLeaves /\ sh.lo[leaf[a].next] = sh.hi[a]
    /\ a # first_leaf => \E b \in TakenLeaves : leaf[b].next = a

Ranges(sh) ==
    /\ \A a \in Taken : Low =< sh.lo[a] /\ sh.lo[a] < sh.hi[a] /\ sh.hi[a] =< High
    /\ \A a, b \in Taken : a # b /\ sh.lvl[a] = sh.lvl[b] =>
          sh.hi[a] =< sh.lo[b] \/ sh.hi[b] =< sh.lo[a]

Levels(sh) ==
    /\ \A a \in TakenLeaves : sh.lvl[a] = 0
    /\ \A p \in TakenNodes : 1 =< sh.lvl[p]
    /\ \A a \in Taken : sh.lvl[a] =< root_level
    /\ \A a \in Taken : sh.end[a] \in Taken /\ sh.lvl[sh.end[a]] = sh.lvl[a]

Root(sh) ==
    /\ tree_root \in Taken /\ sh.lo[tree_root] = Low
    /\ ~Growing => sh.lvl[tree_root] = root_level /\ sh.hi[sh.end[tree_root]] = High
    /\ Growing => sh.lvl[tree_root] + 1 = root_level
    /\ first_leaf \in TakenLeaves /\ sh.lo[first_leaf] = Low

TreeFits(sh) ==
    /\ Ranges(sh) /\ Levels(sh) /\ Root(sh)
    /\ \A a \in TakenLeaves : LeafFits(sh, a)
    /\ \A p \in TakenNodes : NodeFits(sh, p)

-----------------------------------------------------------------------------
(***************************************************************************)
(* Who may change which node.                                              *)
(***************************************************************************)
OwnedBy(sh, a, t) ==
    \/ pc[t] \in {"insert", "leafDel"} /\ a = lp(t)
    \/ pc[t] \in Splitting /\ \E i \in Base(t) .. sh.top[t] : a = parray[t][i]
    \/ pc[t] \in Climbing /\ a = ptr[t]
    \/ pc[t] = "count" /\ a = parent(t)
    \/ pc[t] \in {"growRoot", "unlockOld"} /\ a \in {cur[t], ptr[t]}
    \/ pc[t] = "unlockNew" /\ a = ptr[t]

\* A node it owns whose lock bit is clear: nobody can reach it, since the
\* thread holds its parent.
OpenFor(a, t) ==
    \/ pc[t] \in Climbing /\ a = ptr[t]
    \/ pc[t] = "parent" /\ root_level > 0 /\ a = lp(t)
    \/ pc[t] = "up" /\ lev[t] =< total[t] /\ a = parray[t][lev[t] - 1]

Owners(sh) ==
    /\ \A a \in Taken : \A t \in Threads : sh.own[a] = t <=> OwnedBy(sh, a, t)
    /\ \A a \in Taken : Locked(a) <=> sh.own[a] \in Threads /\ ~OpenFor(a, sh.own[a])
    /\ \A a \in Addr \ Taken : ~Locked(a)
    /\ \A p \in TakenNodes : sh.cnt[p] # bnode[p].num =>
          sh.own[p] \in Threads /\ pc[sh.own[p]] = "count"
    /\ \A a \in Taken : sh.end[a] # a =>
          /\ sh.own[a] \in Threads /\ pc[sh.own[a]] \in Climbing
          /\ a = parray[sh.own[a]][Base(sh.own[a])]

-----------------------------------------------------------------------------
(***************************************************************************)
(* What a thread has found out.                                            *)
(***************************************************************************)
\* A search has come through unowned nodes to the one under which its key
\* belongs.
Under(t, i) == IF i = lev[t] + 1 THEN cur[t] ELSE parray[t][i - 1]
Passed(sh, t, i) ==
    LET p == parray[t][i]
        pos == ppos[t][i]
    IN /\ p \in TakenNodes /\ sh.lvl[p] = i /\ sh.own[p] = NoThread
       /\ pos \in 0 .. bnode[p].num /\ bnode[p].ch[pos] = Under(t, i)
       /\ (IF pos = 0 THEN sh.lo[p] ELSE bnode[p].k[pos]) =< key[t]
       /\ key[t] < (IF pos = bnode[p].num THEN sh.hi[p] ELSE bnode[p].k[pos + 1])
Found(sh, t) ==
    /\ lev[t] =< root_level /\ cur[t] \in Taken /\ sh.lvl[cur[t]] = lev[t]
    /\ lev[t] = root_level => cur[t] = tree_root
    /\ lev[t] < root_level => parray[t][root_level] = tree_root
    /\ \A i \in lev[t] + 1 .. root_level : Passed(sh, t, i)
\* It has read the old root while the new one is being put in place, and the
\* old one's lock bit is set.
Outdated(t) == Growing /\ cur[t] = tree_root /\ lev[t] \in {root_level - 1, root_level}

SearchOK(sh, t) ==
    /\ pc[t] = "readLevel" => cur[t] = tree_root
    /\ pc[t] = "readRoot" => lev[t] = root_level \/ (Growing /\ lev[t] + 1 = root_level)
    /\ pc[t] = "descend" => Found(sh, t) \/ Outdated(t)

LeafCallOK(sh, t) ==
    /\ pc[t] \in {"insert", "split", "lower", "leafDel"} =>
          lp(t) \in TakenLeaves /\ sh.lo[lp(t)] =< key[t] /\ key[t] < sh.hi[lp(t)]
    /\ pc[t] = "split" => LeafFull(lp(t)) /\ key[t] \notin leaf[lp(t)].keys
    /\ pc[t] = "leafDel" => key[t] \in leaf[lp(t)].keys /\ Cardinality(leaf[lp(t)].keys) # 1

\* The nodes above the one that is split, up to the first with room.
Link(sh, t, i) ==
    LET p == parray[t][i]
    IN /\ p \in TakenNodes /\ sh.lvl[p] = i
       /\ ppos[t][i] \in 0 .. bnode[p].num /\ bnode[p].ch[ppos[t][i]] = parray[t][i - 1]
PathOK(sh, t) ==
    pc[t] \in Splitting =>
        LET b == Base(t)
            s == sh.top[t]
        IN /\ b \in 0 .. s /\ s =< root_level
           /\ parray[t][b] \in Taken /\ sh.lvl[parray[t][b]] = b
           /\ \A i \in b + 1 .. s : Link(sh, t, i)
           /\ \A i \in b + 1 .. s - 1 : Full(parray[t][i])
           /\ s = b \/ Full(parray[t][s]) => s = root_level
           /\ s = root_level => parray[t][s] = tree_root

SplitOK(sh, t) ==
    /\ pc[t] \in Climbing =>
          LET c == parray[t][Base(t)]
          IN /\ ptr[t] \in Taken /\ ptr[t] # c /\ sh.lvl[ptr[t]] = sh.lvl[c]
             /\ pkey[t] \in Keys /\ pkey[t] = sh.hi[c] /\ pkey[t] = sh.lo[ptr[t]]
             /\ sh.end[c] = ptr[t]
    /\ pc[t] = "up" =>
          /\ lev[t] \in 1 .. MaxLevel /\ lev[t] =< total[t] + 1
          /\ sh.top[t] =< total[t] /\ total[t] =< root_level
          /\ total[t] = root_level \/ sh.top[t] < total[t]
    /\ pc[t] = "count" =>
          /\ lev[t] \in 1 .. MaxLevel /\ parent(t) \in TakenNodes
          /\ sh.cnt[parent(t)] = bnode[parent(t)].num + 1

GrowOK(sh, t) ==
    /\ pc[t] \in {"growRoot", "unlockOld"} =>
          /\ cur[t] \in Taken /\ ptr[t] \in TakenNodes /\ cur[t] # ptr[t]
          /\ total[t] = 0 => cur[t] = lp(t) /\ cur[t] \in Leaves
          /\ total[t] > 0 => cur[t] \in BNodes
    /\ pc[t] = "growRoot" =>
          /\ cur[t] = tree_root /\ sh.lvl[ptr[t]] = root_level
          /\ sh.lo[ptr[t]] = Low /\ sh.hi[ptr[t]] = High
    /\ pc[t] = "unlockNew" => ptr[t] \in TakenNodes

ThreadOK(sh, t) ==
    /\ SearchOK(sh, t) /\ LeafCallOK(sh, t) /\ PathOK(sh, t) /\ SplitOK(sh, t) /\ GrowOK(sh, t)

-----------------------------------------------------------------------------
LocalTypes ==
    /\ pc \in [Threads -> Stages]
    /\ \A t \in Threads : tree_lock = t <=> pc[t] \in Part1
    /\ \A t \in Threads : pc[t] # "idle" => op[t] \in Ops /\ key[t] \in Keys
    /\ sib = [t \in Threads |-> NULL]
    /\ leafFree = [t \in Threads |-> <<>>] /\ nodeFree = [t \in Threads |-> <<>>]
    /\ root_level >= 0
    /\ lev \in [Threads -> 0 .. MaxLevel] /\ total \in [Threads -> 0 .. MaxLevel]
    /\ pkey \in [Threads -> Keys \cup {NoKey}]
    /\ ptr \in [Threads -> Leaves \cup BNodes \cup {NULL}]

IInv(sh) ==
    /\ TypeOK /\ LocalTypes
    /\ sh \in ShapeType
    /\ TreeFits(sh)
    /\ Owners(sh)
    /\ \A t \in Threads : ThreadOK(sh, t)

-----------------------------------------------------------------------------
(***************************************************************************)
(* What the theorems ask of a behaviour.                                   *)
(***************************************************************************)
\* The calls start from a tree that fits its shape and that nobody is changing.
AtRest(sh) ==
    /\ TreeFits(sh)
    /\ \A a \in Addr : ~Locked(a) /\ sh.own[a] = NoThread /\ sh.end[a] = a
    /\ \A p \in TakenNodes : sh.cnt[p] = bnode[p].num
    /\ \A a \in Leaves \ TakenLeaves : leaf[a].keys = {}
Loaded == \E sh \in ShapeType : AtRest(sh)

\* No del empties a leaf.
LeavesKeepKeys ==
    \A t \in Threads : AtOpenLeaf(t, "del") /\ key[t] \in leaf[cur[t]].keys =>
        Cardinality(leaf[cur[t]].keys) # 1
\* No search that has read the root or its level before thread t wrote both is
\* still going when t is about to unlock the old root.
Outrun(u, t) ==
    \/ pc[u] \in {"readLevel", "descend"} /\ cur[u] = cur[t]
    \/ pc[u] = "readRoot" /\ lev[u] # root_level
RootUnraced == \A t, u \in Threads : pc[t] = "unlockOld" => ~Outrun(u, t)
Undisturbed == LeavesKeepKeys /\ RootUnraced
=============================================================================
