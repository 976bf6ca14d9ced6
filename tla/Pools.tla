-------------------------------- MODULE Pools --------------------------------
(***************************************************************************)
(* The pools of all workers and a program that uses them as it should: it  *)
(* frees nodes it holds, to any worker's pool.                             *)
(***************************************************************************)
EXTENDS Mempool

CONSTANTS MaxWorkers, MaxPoolSize

PoolsAssumption == MaxWorkers \in Nat /\ MaxPoolSize \in Nat

VARIABLES
    pools,              \* tm_pools
    held                \* the nodes the program has

vars == <<pools, held>>

Worker == DOMAIN pools

Init ==
    /\ \E workers \in 1 .. MaxWorkers, size \in 0 .. MaxPoolSize :
         pools = InitPools(workers, size)
    /\ held = {}

\* A range of n nodes from alloc.
Take(w, n) ==
    /\ HasRoom(pools[w], n)
    /\ pools' = [pools EXCEPT ![w] = Alloc(@, n)]
    /\ held' = held \union {pools[w].cur + i : i \in 0 .. n - 1}

TakeNode(w) ==
    /\ CanAllocNode(pools[w])
    /\ pools' = [pools EXCEPT ![w] = AllocNode(@)]
    /\ held' = held \union {NodeAt(pools[w])}

Give(w, node) ==
    /\ node \in held
    /\ pools' = [pools EXCEPT ![w] = FreeNode(@, node)]
    /\ held' = held \ {node}

Next ==
    \E w \in Worker :
        \/ \E n \in 1 .. MaxPoolSize : Take(w, n)
        \/ TakeNode(w)
        \/ \E node \in held : Give(w, node)

Spec == Init /\ [][Next]_vars

PoolType == [start : Nat, cur : Nat, end : Nat, free : Seq(Nat)]

TypeOK ==
    /\ pools \in [Worker -> PoolType] /\ Worker \subseteq Nat
    /\ held \subseteq Nat

(***************************************************************************)
(* alloc_node and free_node (mempool.h:190-212): a node is held by the     *)
(* program, or once in one worker's free list, or neither; and memory that *)
(* is yet to be handed out, by any pool, is in none of them.               *)
(***************************************************************************)
FreeAt(w) == 1 .. Len(pools[w].free)

FreeOnce ==
    \A v, w \in Worker : \A i \in FreeAt(v), j \in FreeAt(w) :
        pools[v].free[i] = pools[w].free[j] => v = w /\ i = j

FreeNotHeld == \A w \in Worker : \A i \in FreeAt(w) : pools[w].free[i] \notin held

Fresh(w) == pools[w].cur .. pools[w].end - 1

FreshUnused ==
    \A w \in Worker : \A a \in Fresh(w) :
        /\ a \notin held
        /\ \A v \in Worker : \A i \in FreeAt(v) : pools[v].free[i] # a

FreshApart == \A v, w \in Worker : v # w => Fresh(v) \cap Fresh(w) = {}

NodesApart == FreeOnce /\ FreeNotHeld /\ FreshUnused /\ FreshApart
=============================================================================
