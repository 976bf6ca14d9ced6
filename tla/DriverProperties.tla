-------------------------- MODULE DriverProperties --------------------------
(***************************************************************************)
(* What the driver, bulkload by several threads, the pools and the key     *)
(* inputs must keep to together.                                           *)
(***************************************************************************)
EXTENDS Driver

\* Pools stay within their memory, threads within their arrays, and
\* everything else keeps its type.
TypeOK ==
    /\ \A w \in Workers : \A pool \in {mem[w], nvm[w]} :
         pool.start =< pool.cur /\ pool.cur =< pool.end
    /\ \A t \in Workers :
         /\ at[t] \in {"open", "alloc", "fill", "done"}
         /\ bta[t].leaves \in 0 .. bta[t].n[0] /\ bta[t].level \in 0 .. bta[t].top + 1
         /\ \A l \in 1 .. bta[t].top :
              bta[t].ncur[l] < bta[t].n[l] \/ at[t] \notin {"fill", "done"} \/ l =< bta[t].base
    /\ main \in {"next", "bulkload", "build", "collect", "free", "top", "loaded", "round",
                 "exit", "abort", "undefined"}
    /\ \A p \in DOMAIN node : Len(node[p]) =< NON_LEAF_KEY_NUM + 1
    /\ \A a \in DOMAIN leaf : Len(leaf[a].keys) =< LEAF_KEY_NUM

(***************************************************************************)
(* bulkload (lbtree.cc:363-458): whatever the number of threads, the tree  *)
(* passes check() and the chain over all subtrees has exactly the input's  *)
(* keys in order.                                                          *)
(***************************************************************************)
LoadedAllKeys ==
    main = "loaded" =>
        /\ check /\ checkFirstLeaf
        /\ KeysFrom(meta.first) =
             [i \in 1 .. request.keynum |->
                CASE request.input.class = "file" -> File[i]
                  [] request.input.class = "memory" ->
                       MemKey(request.input.start + request.input.step * (i - 1))
                  [] request.input.class = "simple" ->
                       request.input.start + request.input.step * (i - 1)]

(***************************************************************************)
(* bulkloadSubtree (lbtree.cc:80-208): appending leaf by leaf makes the    *)
(* tree that Bulkload computes level by level, and with which the runs of  *)
(* LBTree start.                                                           *)
(***************************************************************************)
SubtreeComputed(b) ==
    LET first == b.pfirst[0]
        ks == FlattenSeq([i \in 1 .. b.n[0] |-> leaf[first + i - 1].keys])
        tree == BulkTree(ks, job.leafFill, job.nodeFill, NoKey)
        there(p, level) == IF level = 0 THEN p - first + 1 ELSE -(p - b.pfirst[1] + 1)
    IN /\ tree.level = b.top /\ tree.root = there(b.pfirst[b.top], b.top)
       /\ \A i \in 1 .. b.n[0] : ToSet(leaf[first + i - 1].keys) = tree.leaf[i].keys
       /\ \A l \in 1 .. b.top : \A p \in b.pfirst[l] .. b.pfirst[l] + b.n[l] - 1 :
            LET made == node[p]
                computed == tree.bnode[there(p, l)]
            IN /\ computed.num = Len(made) - 1
               /\ \A i \in DOMAIN made :
                    /\ there(made[i].ch, l - 1) = computed.ch[i - 1]
                    /\ i > 1 => made[i].k = computed.k[i - 1]

SubtreesAsComputed ==
    Joined => \A t \in Workers : t < NumThreads => SubtreeComputed(bta[t])

(***************************************************************************)
(* The arrays of bulkload (lbtree.cc:427, "should be < 2*num_threads"),    *)
(* which are filled before their size is checked (441).                    *)
(***************************************************************************)
TopNodesFew == main \in {"free", "top"} => Len(tops) < 2 * NumThreads


(***************************************************************************)
(* tree.cc:833-834 and its like: no two threads of a round are given the   *)
(* same key.                                                               *)
(***************************************************************************)
PartsApart ==
    \A t, u \in Workers : t # u =>
        \A i \in DOMAIN work[t], j \in DOMAIN work[u] : work[t][i].ii # work[u][j].ii

(***************************************************************************)
(* insertTest and delTest (tree.cc:147-190) count, key by key and thread   *)
(* by thread, what the driver then reports of the whole key file: "good"   *)
(* (916, 985) is reported exactly when all keys are there, or none is.     *)
(***************************************************************************)
FileKeys(n) == {File[i] : i \in 1 .. n}


(***************************************************************************)
(* mempool.h:190-212, by what Pools shows of every program that frees only *)
(* nodes it holds: this one does, and gets no node twice, though bulkload  *)
(* frees other workers' nodes to the pool of worker 0, and del those of    *)
(* whoever took them to the pools of the worker that deletes.  For NVM     *)
(* this is about the steps: init takes a page before.                      *)
(***************************************************************************)
Dram == INSTANCE Pools WITH pools <- mem, held <- DOMAIN node
Nvm == INSTANCE Pools WITH pools <- nvm, held <- DOMAIN leaf

ASSUME PoolsBounds == Dram!PoolsAssumption

NodesApart == Dram!NodesApart /\ Nvm!NodesApart

UsesPools == Dram!Spec /\ [][Nvm!Next]_(Nvm!vars)

(***************************************************************************)
(* Liveness: a command ends, with all its threads joined (or exits for     *)
(* want of memory); get_key's loop (keyinput.h:120) ends because every     *)
(* cursor reaches its keys.                                                *)
(***************************************************************************)
CommandEnds == <>[]Ended
=============================================================================
