------------------------------ MODULE Bulkload ------------------------------
(***************************************************************************)
(* The tree that lbtree::bulkload builds with one thread                   *)
(* (bulkloadSubtree with target level 31), as a value of LBTree's          *)
(* InitTree: nodes are numbered in the order the pools hand them out, each *)
(* level one array.                                                        *)
(***************************************************************************)
EXTENDS Integers, Sequences, FiniteSets

CONSTANTS LEAF_KEY_NUM, NON_LEAF_KEY_NUM, MaxLevel, MaxLeaf, MaxNode

ceiling(x, y) == (x + y - 1) \div y

\* n_nodes[l] for the levels from the leaves (0) up; 0 above the top level.
NodesAt(numKey, leafFill, nodeFill) ==
    LET n[l \in 0 .. MaxLevel] ==
          IF l = 0 THEN ceiling(numKey, leafFill)
          ELSE IF n[l - 1] > 1 THEN ceiling(n[l - 1], nodeFill + 1) ELSE 0
    IN n

\* ks: the sorted keys; leafFill, nodeFill: leaf_fill_num, nonleaf_fill_num.
\* Node j of level l, counting from 0, is the parent of nodes j * (F + 1) ..
\* of level l - 1, F = nodeFill, and starts at key j * leafFill * (F + 1)^l.
BulkTree(ks, leafFill, nodeFill, noKey) ==
    LET n == NodesAt(Len(ks), leafFill, nodeFill)
        top == CHOOSE l \in 0 .. MaxLevel : n[l] = 1
        \* bnodes of the levels below l, all allocated before level l
        base[l \in 0 .. MaxLevel] == IF l =< 1 THEN 0 ELSE base[l - 1] + n[l - 1]
        addr(l, j) == IF l = 0 THEN j + 1 ELSE -(base[l] + j + 1)
        width[l \in 0 .. MaxLevel] == IF l = 0 THEN leafFill ELSE width[l - 1] * (nodeFill + 1)
        children(l, j) == LET left == n[l - 1] - j * (nodeFill + 1)
                          IN IF left > nodeFill + 1 THEN nodeFill + 1 ELSE left
        node(l, j) ==
            [lock |-> FALSE, num |-> children(l, j) - 1,
             k  |-> [i \in 1 .. NON_LEAF_KEY_NUM |->
                       IF i < children(l, j)
                       THEN ks[(j * (nodeFill + 1) + i) * width[l - 1] + 1] ELSE noKey],
             ch |-> [i \in 0 .. NON_LEAF_KEY_NUM |->
                       IF i < children(l, j)
                       THEN addr(l - 1, j * (nodeFill + 1) + i) ELSE 0]]
        places == {<<l, j>> \in (1 .. top) \X (0 .. n[0]) : j < n[l]}
    IN [root |-> addr(top, 0), level |-> top, first |-> 1,
        leaf |-> [a \in 1 .. MaxLeaf |->
            IF a =< n[0]
            THEN [lock |-> FALSE, next |-> IF a < n[0] THEN a + 1 ELSE 0,
                  keys |-> {ks[i] : i \in {x \in 1 .. Len(ks) :
                              ceiling(x, leafFill) = a}}]
            ELSE [lock |-> FALSE, next |-> 0, keys |-> {}]],
        bnode |-> [p \in -MaxNode .. -1 |->
            IF \E w \in places : addr(w[1], w[2]) = p
            THEN LET w == CHOOSE w \in places : addr(w[1], w[2]) = p IN node(w[1], w[2])
            ELSE [lock |-> FALSE, num |-> 0,
                  k  |-> [i \in 1 .. NON_LEAF_KEY_NUM |-> noKey],
                  ch |-> [i \in 0 .. NON_LEAF_KEY_NUM |-> 0]]],
        leafTop |-> n[0], nodeTop |-> Cardinality(places)]
=============================================================================
