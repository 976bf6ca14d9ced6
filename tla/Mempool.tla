------------------------------- MODULE Mempool -------------------------------
(***************************************************************************)
(* class mempool: memory handed out from the front, and a list of freed    *)
(* nodes, last in first out.  Addresses and sizes count nodes: alloc_node  *)
(* is only ever called with the size of a node.                            *)
(***************************************************************************)
EXTENDS Integers, Sequences

\* The workers' parts are equal, aligned, and not smaller than `least` (1 MB).
SizePerPool(size, workers, align, least) ==
    LET s == ((size \div workers) \div align) * align
    IN IF s < least THEN least ELSE s

InitPool(start, size) ==
    [start |-> start, cur |-> start, end |-> start + size, free |-> <<>>]

\* threadMemPools::init and threadNVMPools::init: the workers' parts of tm_buf.
InitPools(workers, sizePerPool) ==
    [w \in 0 .. workers - 1 |-> InitPool(w * sizePerPool, sizePerPool)]

\* Slip: looks at the front of the free memory, not at the end of the piece.
SomeRoom(pool, size) == pool.cur =< pool.end

\* Otherwise alloc exits the process.
HasRoom(pool, size) == pool.cur + size =< pool.end

Alloc(pool, size) == [pool EXCEPT !.cur = @ + size]

NodeAt(pool) == IF pool.free = <<>> THEN pool.cur ELSE Head(pool.free)

CanAllocNode(pool) == pool.free # <<>> \/ HasRoom(pool, 1)

\* Slip: leaves the node in the list.
PeekNode(pool) == IF pool.free = <<>> THEN Alloc(pool, 1) ELSE pool

AllocNode(pool) ==
    IF pool.free = <<>> THEN Alloc(pool, 1) ELSE [pool EXCEPT !.free = Tail(@)]

FreeNode(pool, node) == [pool EXCEPT !.free = <<node>> \o @]
=============================================================================
