---------------------------- MODULE LBTreeShape ----------------------------
(***************************************************************************)
(* The shape that LBTreeInv speaks of, computed from the state of a tree,  *)
(* so that TLC can check the inductive invariant.                          *)
(***************************************************************************)
EXTENDS LBTreeInv

LOCAL TheThread(S) == CHOOSE t \in S : TRUE

Counts == [p \in BNodes |->
    bnode[p].num + (IF \E t \in Threads : pc[t] = "count" /\ parent(t) = p THEN 1 ELSE 0)]

\* The node at the top, which is not tree_root while a new root is put in place.
TopNode ==
    IF Growing THEN ptr[TheThread({t \in Threads : pc[t] = "growRoot"})] ELSE tree_root

\* The threads that climb with the new node a, and with the old one.
WithNew(a) == {t \in Threads : pc[t] \in Climbing /\ ptr[t] = a}
WithOld(a) == {t \in Threads : pc[t] \in Climbing /\ parray[t][Base(t)] = a}

\* Level and range of each node, from its parent's; the range of a node that
\* is split reaches to the end of its new sibling's.
Extents ==
    LET places(a) ==
          {w \in TakenNodes \X (0 .. NON_LEAF_KEY_NUM) :
              w[2] =< Counts[w[1]] /\ bnode[w[1]].ch[w[2]] = a}
        x[a \in Addr] ==
          IF a \notin Taken THEN [lvl |-> 0, lo |-> 0, hi |-> 0]
          ELSE IF WithNew(a) # {}
          THEN LET t == TheThread(WithNew(a))
               IN [x[parray[t][Base(t)]] EXCEPT !.lo = pkey[t]]
          ELSE IF a = TopNode THEN [lvl |-> root_level, lo |-> Low, hi |-> High]
          ELSE LET w == CHOOSE w \in places(a) : TRUE
                   p == w[1]
                   i == w[2]
               IN [lvl |-> x[p].lvl - 1,
                   lo  |-> IF i = 0 THEN x[p].lo ELSE bnode[p].k[i],
                   hi  |-> IF i < Counts[p] THEN bnode[p].k[i + 1]
                           ELSE IF WithOld(p) # {} THEN pkey[TheThread(WithOld(p))]
                           ELSE x[p].hi]
    IN x

ShapeOf ==
    LET x == Extents
        s == [lvl |-> [a \in Addr |-> x[a].lvl],
              lo  |-> [a \in Addr |-> x[a].lo],
              hi  |-> [a \in Addr |->
                         IF WithOld(a) = {} THEN x[a].hi ELSE pkey[TheThread(WithOld(a))]],
              cnt |-> Counts,
              end |-> [a \in Addr |-> IF WithOld(a) = {} THEN a ELSE ptr[TheThread(WithOld(a))]],
              own |-> [a \in Addr |-> NoThread],
              top |-> [t \in Threads |->
                         IF pc[t] \notin Splitting THEN 0
                         ELSE CHOOSE j \in Base(t) .. root_level :
                                /\ \A h \in Base(t) + 1 .. j - 1 : Full(parray[t][h])
                                /\ j = root_level \/ (j > Base(t) /\ ~Full(parray[t][j]))]]
    IN [s EXCEPT !.own = [a \in Addr |->
            IF \E t \in Threads : OwnedBy(s, a, t)
            THEN CHOOSE t \in Threads : OwnedBy(s, a, t) ELSE NoThread]]

\* No leaf has been removed, or is being removed.
NoneRemoved ==
    /\ \A t \in Threads : leafFree[t] = <<>> /\ nodeFree[t] = <<>>
    /\ \A t \in Threads : pc[t] \in Stages /\ (pc[t] = "leafDel" => ~LastKey(t))

\* State invariant: the tree fits its shape at every step of inserts, splits,
\* growing roots and deletions that remove no leaf.  It is what the theorems
\* about LBTree rest on; between calls the tree is as they want it at first.
ShapeFits ==
    Undisturbed /\ NoneRemoved => IInv(ShapeOf) /\ (AllIdle => AtRest(ShapeOf))
=============================================================================
