--------------------------- MODULE BulkloadThreads ---------------------------
(***************************************************************************)
(* lbtree::bulkload by several threads: each builds the subtree over its   *)
(* part of the keys in memory of its own pools, and the main thread, which *)
(* is worker 0, joins the subtrees under a top tree.                       *)
(*                                                                         *)
(* A leaf is the sequence of its keys and its next pointer, a bnode the    *)
(* sequence of its children, each with its left key: num is one less than  *)
(* its length.  A worker writes only memory it has just allocated until    *)
(* the threads are joined, so one key is a step.                           *)
(***************************************************************************)
EXTENDS Bulkload, Mempool, KeyInput, SequencesExt

CONSTANTS
    PerThread,          \* the 10 in worker_thread_num*10
    MaxWorkers

VARIABLES
    job,                \* [workers, leafFill, nodeFill]
    request,            \* [keynum, input] of the bulkload that runs
    mem, nvm,           \* the pools of the workers, DRAM and NVM
    leaf, node,         \* the leaves and bnodes allocated
    bta,                \* BldThArgs, and the locals of bulkloadSubtree
    at,                 \* where each worker's thread is
    main,               \* where the main thread is
    tops, above,        \* top_ptrs with top_keys; the nodes to be freed
    meta                \* tree_meta

bulkVars == <<job, request, mem, nvm, leaf, node, bta, at, main, tops, above, meta>>

NULL == -1
NoKey == -1

Workers == 0 .. job.workers - 1

Idle == [start |-> 0, num |-> 0, top |-> 0, n |-> [l \in 0 .. MaxLevel |-> 0],
         pfirst |-> [l \in 0 .. MaxLevel |-> NULL], ncur |-> [l \in 0 .. MaxLevel |-> 0],
         level |-> 0, base |-> 0, leaves |-> 0, keys |-> <<>>, cursor |-> NoCursor]

\* What memory from the pool may hold: not an empty node.
Garbage == <<[k |-> NoKey, ch |-> NULL]>>

(***************************************************************************)
(* bulkload, 1. - 4.                                                       *)
(***************************************************************************)
NumThreads == IF request.keynum > job.workers * PerThread THEN job.workers ELSE 1

kn_per_thread == request.keynum \div NumThreads

\* Slip: the last thread takes no more than the others.
EvenShare(i) == kn_per_thread

Share(i) == IF i < NumThreads - 1 THEN kn_per_thread
            ELSE request.keynum - (NumThreads - 1) * kn_per_thread

Fork ==
    /\ main = "bulkload"
    /\ IF request.keynum > 0
       THEN /\ main' = "build"
            /\ bta' = [i \in Workers |-> IF i < NumThreads
                         THEN [Idle EXCEPT !.start = i * kn_per_thread, !.num = Share(i)]
                         ELSE Idle]
            /\ at' = [i \in Workers |-> IF i < NumThreads THEN "open" ELSE "done"]
       ELSE main' = "abort" /\ UNCHANGED <<bta, at>>
    /\ UNCHANGED <<job, request, mem, nvm, leaf, node, tops, above, meta>>

(***************************************************************************)
(* bulkloadSubtree by thread t                                             *)
(***************************************************************************)
TopLevel(n) == CHOOSE l \in 0 .. MaxLevel : n[l] = 1

Open(t) ==
    /\ main = "build" /\ at[t] = "open"
    /\ LET n == NodesAt(bta[t].num, job.leafFill, job.nodeFill)
       IN bta' = [bta EXCEPT ![t].cursor = OpenCursor(bta[t].start),
                             ![t].n = n, ![t].top = TopLevel(n)]
    /\ at' = [at EXCEPT ![t] = "alloc"]
    /\ UNCHANGED <<job, request, mem, nvm, leaf, node, main, tops, above, meta>>

\* Slip: one bnode too few.
OneShort(b) == IF b.level > 0 THEN b.n[b.level] - 1 ELSE b.n[0]

ArrayLength(b) == b.n[b.level]

\* 3. an array for the level, and 4. num() = -1 in the first bnode of it
AllocArray(t) ==
    LET b == bta[t]
        pool == IF b.level = 0 THEN nvm[t] ELSE mem[t]
        addrs == pool.cur .. pool.cur + b.n[b.level] - 1
    IN /\ at[t] = "alloc" /\ main \in {"build", "top"}
       /\ IF HasRoom(pool, ArrayLength(b))
          THEN /\ IF b.level = 0
                  THEN /\ nvm' = [nvm EXCEPT ![t] = Alloc(@, ArrayLength(b))]
                       /\ leaf' = [a \in addrs |-> [keys |-> <<>>, next |-> NULL]] @@ leaf
                       /\ UNCHANGED <<mem, node>>
                  ELSE /\ mem' = [mem EXCEPT ![t] = Alloc(@, ArrayLength(b))]
                       /\ node' = [a \in addrs |-> IF a = pool.cur THEN <<>> ELSE Garbage] @@ node
                       /\ UNCHANGED <<nvm, leaf>>
               /\ bta' = [bta EXCEPT ![t].pfirst[b.level] = pool.cur,
                                     ![t].ncur[b.level] = 0, ![t].level = @ + 1]
               /\ at' = IF b.level = b.top THEN [at EXCEPT ![t] = "fill"] ELSE at
               /\ UNCHANGED main
          ELSE main' = "exit" /\ UNCHANGED <<mem, nvm, leaf, node, bta, at>>
       /\ UNCHANGED <<job, request, tops, above, meta>>

\* Slip: goes on to a next node that was not allocated.
FilledLate(len, ncur, n) == len = job.nodeFill

Filled(len, ncur, n) == len = job.nodeFill /\ ncur < n - 1

\* Append (left_key, child) to the current node of level ll; a node that
\* gets its first child is itself appended to the level above.
\* s = [node, ncur]; b = what bulkload knows of the levels.
RECURSIVE AppendChild(_, _, _, _)
AppendChild(s, b, ll, kid) ==
    LET p == b.pfirst[ll] + s.ncur[ll]
        len == Len(s.node[p])
        grown == [s EXCEPT !.node[p] = Append(@, kid)]
    IN CASE ll > b.top -> s
         [] ll =< b.top /\ len > 0 ->
               IF Filled(len, s.ncur[ll], b.n[ll])
               THEN [grown EXCEPT !.ncur[ll] = @ + 1, !.node[p + 1] = <<>>]
               ELSE grown
         [] ll =< b.top /\ len = 0 ->
               AppendChild([s EXCEPT !.node[p] = <<[k |-> NoKey, ch |-> kid.ch]>>],
                           b, ll + 1, [kid EXCEPT !.ch = p])

\* compute number of keys in this leaf node
fillnum(b) == IF b.leaves < b.n[0] - 1 THEN job.leafFill
              ELSE b.num - (b.n[0] - 1) * job.leafFill

key_id(b) == b.start + b.leaves * job.leafFill + Len(b.keys)

Waits(t) ==
    /\ main = "build" /\ at[t] = "fill"
    /\ ~Ready(request.input, bta[t].cursor, key_id(bta[t]))

ReadFile(t) ==
    /\ Waits(t)
    /\ bta' = [bta EXCEPT ![t].cursor = Refill(@)]
    /\ UNCHANGED <<job, request, mem, nvm, leaf, node, at, main, tops, above, meta>>

\* The leaf gets its keys and its sibling, and its parents get the leaf.
FinishLeaf(t, keys) ==
    LET b == bta[t]
        a == b.pfirst[0] + b.leaves
        s == AppendChild([node |-> node, ncur |-> b.ncur], b, 1, [k |-> keys[1], ch |-> a])
        last == b.leaves = b.n[0] - 1
    IN /\ leaf' = [leaf EXCEPT ![a] = [keys |-> keys, next |-> IF last THEN NULL ELSE a + 1]]
       /\ node' = s.node
       /\ bta' = [bta EXCEPT ![t].ncur = s.ncur, ![t].leaves = @ + 1, ![t].keys = <<>>]
       /\ at' = IF last THEN [at EXCEPT ![t] = "done"] ELSE at

GetKey(t) ==
    LET b == bta[t]
        keys == Append(b.keys, get_key(request.input, b.cursor, key_id(b)))
    IN /\ main = "build" /\ at[t] = "fill" /\ ~Waits(t)
       /\ IF ~KeyThere(request.input, b.cursor, key_id(b))
          THEN main' = "abort" /\ UNCHANGED <<leaf, node, bta, at>>
          ELSE /\ UNCHANGED main
               /\ IF Len(keys) = fillnum(b) THEN FinishLeaf(t, keys)
                  ELSE bta' = [bta EXCEPT ![t].keys = keys] /\ UNCHANGED <<leaf, node, at>>
       /\ UNCHANGED <<job, request, mem, nvm, tops, above, meta>>

(***************************************************************************)
(* bulkload, 2. and 4. - 6.: the main thread joins the threads             *)
(***************************************************************************)
Joined == main = "build" /\ \A t \in Workers : at[t] = "done"

PublishOne ==
    /\ Joined /\ NumThreads = 1
    /\ meta' = [root |-> bta[0].pfirst[bta[0].top], level |-> bta[0].top,
                first |-> bta[0].pfirst[0]]
    /\ main' = "loaded"
    /\ UNCHANGED <<job, request, mem, nvm, leaf, node, bta, at, tops, above>>

LastLeaf(b) == b.pfirst[0] + b.n[0] - 1

Connect ==
    /\ Joined /\ NumThreads > 1
    /\ leaf' = [a \in DOMAIN leaf |->
         IF \E i \in 1 .. NumThreads - 1 : a = LastLeaf(bta[i - 1])
         THEN LET i == CHOOSE i \in 1 .. NumThreads - 1 : a = LastLeaf(bta[i - 1])
              IN [leaf[a] EXCEPT !.next = bta[i].pfirst[0]]
         ELSE leaf[a]]
    /\ main' = "collect"
    /\ UNCHANGED <<job, request, mem, nvm, node, bta, at, tops, above, meta>>

\* The nodes of the target level below p, each with its left key, and the
\* nodes above that level in the order they are freed.
RECURSIVE getKeyPtrLevel(_, _, _, _)
getKeyPtrLevel(p, level, left, target) ==
    IF level =< target
    THEN [tops |-> IF level = target THEN <<[k |-> left, ch |-> p]>> ELSE <<>>, above |-> <<>>]
    ELSE LET below == [i \in 1 .. Len(node[p]) |->
                 getKeyPtrLevel(node[p][i].ch, level - 1,
                                IF i = 1 THEN left ELSE node[p][i].k, target)]
         IN [tops |-> FlattenSeq([i \in DOMAIN below |-> below[i].tops]),
             above |-> Append(FlattenSeq([i \in DOMAIN below |-> below[i].above]), p)]

\* Slip: the leaves of all subtrees under one top tree.
LeafLevel == 0

MinLevel == bta[0].top

Subtree(b) == getKeyPtrLevel(b.pfirst[b.top], b.top, leaf[b.pfirst[0]].keys[1], MinLevel)

Collect ==
    /\ main = "collect"
    /\ LET all == [i \in 1 .. NumThreads |-> Subtree(bta[i - 1])]
       IN /\ tops' = FlattenSeq([i \in DOMAIN all |-> all[i].tops])
          /\ above' = FlattenSeq([i \in DOMAIN all |-> all[i].above])
    /\ main' = IF Len(tops') =< 3 * NumThreads THEN "free" ELSE "abort"
    /\ UNCHANGED <<job, request, mem, nvm, leaf, node, bta, at, meta>>

\* Each goes to the pool of worker 0, whoever's memory it is.
FreeAbove ==
    /\ main = "free" /\ above # <<>>
    /\ mem' = [mem EXCEPT ![0] = FreeNode(@, Head(above))]
    /\ node' = [a \in DOMAIN node \ {Head(above)} |-> node[a]]
    /\ above' = Tail(above)
    /\ UNCHANGED <<job, request, nvm, leaf, bta, at, main, tops, meta>>

TopNodesAt(level, num) ==
    LET n[l \in 0 .. MaxLevel] ==
          IF l < level THEN bta[0].n[l]
          ELSE IF l = level THEN num
          ELSE IF n[l - 1] > 1 THEN ceiling(n[l - 1], job.nodeFill + 1) ELSE 0
    IN n

\* bulkloadToptree: its assertion, and the number of nodes; AllocArray is 3.
StartTop ==
    /\ main = "free" /\ above = <<>>
    /\ IF Len(tops) >= 2
       THEN LET n == TopNodesAt(bta[0].top, Len(tops))
            IN /\ bta' = [bta EXCEPT ![0].n = n, ![0].top = TopLevel(n),
                                     ![0].base = bta[0].top,
                                     ![0].level = bta[0].top + 1]
               /\ at' = [at EXCEPT ![0] = "alloc"]
               /\ main' = "top"
       ELSE main' = "abort" /\ UNCHANGED <<bta, at>>
    /\ UNCHANGED <<job, request, mem, nvm, leaf, node, tops, above, meta>>

PublishTop ==
    LET b == bta[0]
        s == FoldLeft(LAMBDA x, kid : AppendChild(x, b, b.base + 1, kid),
                      [node |-> node, ncur |-> b.ncur], tops)
    IN /\ main = "top" /\ at[0] = "fill"
       /\ node' = s.node
       /\ meta' = [root |-> b.pfirst[b.top], level |-> b.top, first |-> b.pfirst[0]]
       /\ main' = "loaded"
       /\ UNCHANGED <<job, request, mem, nvm, leaf, bta, at, tops, above>>

(***************************************************************************)
(* check(): keys between the separators, and each leaf's next the one that *)
(* follows it in the tree                                                  *)
(***************************************************************************)
RECURSIVE FirstKey(_, _)
FirstKey(p, level) ==
    IF level = 0 THEN Min(ToSet(leaf[p].keys)) ELSE FirstKey(node[p][1].ch, level - 1)

RECURSIVE LastKey(_, _)
LastKey(p, level) ==
    IF level = 0 THEN Max(ToSet(leaf[p].keys)) ELSE LastKey(Last(node[p]).ch, level - 1)

RECURSIVE InOrderBelow(_, _)
InOrderBelow(p, level) ==
    IF level = 0 THEN leaf[p].keys # <<>>
    ELSE \A i \in DOMAIN node[p] :
           LET kid == node[p][i]
           IN /\ InOrderBelow(kid.ch, level - 1)
              /\ i > 1 => kid.k =< FirstKey(kid.ch, level - 1)
              /\ i < Len(node[p]) => LastKey(kid.ch, level - 1) < node[p][i + 1].k

SiblingsLinked(leaves) ==
    \A i \in 1 .. Len(leaves) - 1 : leaf[leaves[i].ch].next = leaves[i + 1].ch

check ==
    /\ InOrderBelow(meta.root, meta.level)
    /\ SiblingsLinked(getKeyPtrLevel(meta.root, meta.level, NoKey, 0).tops)

checkFirstLeaf ==
    LET left[l \in 0 .. meta.level] == IF l = meta.level THEN meta.root ELSE node[left[l + 1]][1].ch
    IN left[0] = meta.first

\* The leaves of the chain, as the keys in them.
RECURSIVE KeysFrom(_)
KeysFrom(a) == IF a = NULL THEN <<>> ELSE leaf[a].keys \o KeysFrom(leaf[a].next)

ThreadStep(t) == Open(t) \/ AllocArray(t) \/ ReadFile(t) \/ GetKey(t)

MainStep == Fork \/ PublishOne \/ Connect \/ Collect \/ FreeAbove \/ StartTop \/ PublishTop
=============================================================================
