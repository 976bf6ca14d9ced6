---------------------------- MODULE LBTree_proofs -----------------------------
(***************************************************************************)
(* The concurrent tree keeps its invariant: the splits of bnodes and of    *)
(* the root, and with them every step (Invariant).  Then what follows from *)
(* it: the types, the lock bits, no wild pointer, writes by holders only,  *)
(* the chain of the leaves and the pool, and that the tree is a map whose  *)
(* calls each take effect at one moment.                                   *)
(***************************************************************************)
EXTENDS LBTreeSteps_proofs

USE SizeAssumption, SearchAssumption

-----------------------------------------------------------------------------
(***************************************************************************)
(* Entries of a node.                                                      *)
(***************************************************************************)
\* k1, ch1 are n1 entries of k, ch from i0 on.
IsPart(k1, ch1, k, ch, i0, n1) ==
    /\ \A i \in 1 .. n1 : k1[i] = k[i0 + i]
    /\ \A i \in 0 .. n1 : ch1[i] = ch[i0 + i]

\* Entries i0 .. i1 of fitting arrays fit on their own.
LEMMA PartFits ==
  ASSUME NEW sh, NEW k, NEW ch, NEW n, NEW low, NEW high, NEW l, n \in Nat,
         EntriesFit(sh, k, ch, n, low, high, l),
         NEW i0, NEW n1, i0 \in Nat, n1 \in Nat, i0 + n1 =< n,
         NEW k1, NEW ch1, IsPart(k1, ch1, k, ch, i0, n1),
         NEW low1, NEW high1, low \in Int, high \in Int, low < high,
         low1 = (IF i0 = 0 THEN low ELSE k[i0]),
         high1 = (IF i0 + n1 = n THEN high ELSE k[i0 + n1 + 1])
  PROVE  EntriesFit(sh, k1, ch1, n1, low1, high1, l)
<1>v. PICK i1 : i1 = i0 + n1
  OBVIOUS
<1>1. /\ \A i \in 1 .. n : k[i] \in Keys /\ k[i] \in Int /\ low < k[i] /\ k[i] < high
      /\ \A i, j \in 1 .. n : i < j => k[i] < k[j]
      /\ \A i \in 0 .. n :
            /\ ch[i] \in Taken /\ sh.lvl[ch[i]] + 1 = l
            /\ sh.lo[ch[i]] = (IF i = 0 THEN low ELSE k[i])
            /\ sh.hi[sh.end[ch[i]]] = (IF i = n THEN high ELSE k[i + 1])
  BY Sizes DEF EntriesFit
<1>0. /\ i1 =< n /\ i1 \in Nat /\ high1 = (IF i1 = n THEN high ELSE k[i1 + 1])
      /\ \A i \in 1 .. n1 : k1[i] = k[i0 + i]
      /\ \A i \in 0 .. n1 : ch1[i] = ch[i0 + i]
  BY <1>v DEF IsPart
<1>2. i0 \in Int /\ i1 \in Int /\ (i0 # 0 => i0 \in 1 .. n) /\ (i1 # n => i1 + 1 \in 1 .. n)
      /\ i0 =< i1 /\ i1 =< n /\ 0 =< i0 /\ i1 = i0 + n1
  BY <1>0, <1>v
<1>3. ASSUME NEW i \in 1 .. n1
      PROVE  i0 + i \in 1 .. n /\ i0 + i \in Int /\ i0 < i0 + i /\ i0 + i =< i1 /\ k1[i] = k[i0 + i]
  BY <1>0, <1>2
<1>4. low1 \in Int /\ high1 \in Int /\ low1 < high1
  BY <1>0, <1>1, <1>2
<1>5. \A i \in 1 .. n1 : k1[i] \in Keys /\ low1 < k1[i] /\ k1[i] < high1
  <2> SUFFICES ASSUME NEW i \in 1 .. n1
               PROVE  k1[i] \in Keys /\ low1 < k1[i] /\ k1[i] < high1
    OBVIOUS
  <2> PICK j : j = i0 + i
    OBVIOUS
  <2>1. j \in 1 .. n /\ i0 < j /\ j =< i1 /\ k1[i] = k[j] /\ j \in Int
    BY <1>3
  <2>2. k[j] \in Keys /\ low < k[j] /\ k[j] < high
    BY <1>1, <2>1
  <2>3. low1 < k[j]
    BY <1>0, <1>1, <1>2, <2>1, <2>2
  <2>4. k[j] < high1
    BY <1>0, <1>1, <1>2, <2>1, <2>2
  <2> QED
    BY <2>1, <2>2, <2>3, <2>4
<1>6. \A i, j \in 1 .. n1 : i < j => k1[i] < k1[j]
  <2> SUFFICES ASSUME NEW i \in 1 .. n1, NEW j \in 1 .. n1, i < j PROVE k1[i] < k1[j]
    OBVIOUS
  <2>1. i0 + i < i0 + j
    BY <1>0, <1>2
  <2> QED
    BY <1>1, <1>3, <2>1
<1>7. ASSUME NEW i \in 0 .. n1
      PROVE  /\ ch1[i] \in Taken /\ sh.lvl[ch1[i]] + 1 = l
             /\ sh.lo[ch1[i]] = (IF i = 0 THEN low1 ELSE k1[i])
             /\ sh.hi[sh.end[ch1[i]]] = (IF i = n1 THEN high1 ELSE k1[i + 1])
  <2> PICK j : j = i0 + i
    OBVIOUS
  <2>1. j \in 0 .. n /\ j \in Int /\ ch1[i] = ch[j] /\ (i = 0 <=> j = i0) /\ i0 =< j
        /\ (i = n1 <=> j = i1)
    BY <1>0, <1>2
  <2>2. i # 0 => k1[i] = k[j] /\ j # 0
    BY <1>0, <1>2, <1>3, <2>1
  <2>3. i # n1 => k1[i + 1] = k[j + 1] /\ j # n
    <3> SUFFICES ASSUME i # n1 PROVE k1[i + 1] = k[j + 1] /\ j # n
      OBVIOUS
    <3>1. i + 1 \in 1 .. n1 /\ i0 + (i + 1) = j + 1
      BY <1>0, <1>2
    <3> QED
      BY <1>0, <1>2, <1>3, <2>1, <3>1
  <2>4. /\ ch[j] \in Taken /\ sh.lvl[ch[j]] + 1 = l
        /\ sh.lo[ch[j]] = (IF j = 0 THEN low ELSE k[j])
        /\ sh.hi[sh.end[ch[j]]] = (IF j = n THEN high ELSE k[j + 1])
    BY <1>1, <2>1
  <2>5. sh.lo[ch[j]] = (IF i = 0 THEN low1 ELSE k1[i])
    BY <2>1, <2>2, <2>4
  <2>6. sh.hi[sh.end[ch[j]]] = (IF i = n1 THEN high1 ELSE k1[i + 1])
    BY <2>1, <2>3, <2>4
  <2> QED
    BY <2>1, <2>4, <2>5, <2>6
<1> QED
  BY <1>4, <1>5, <1>6, <1>7 DEF EntriesFit

\* The arrays built from entries from .. to of longer ones.
LEMMA KeyEntries ==
  ASSUME NEW f, NEW from, NEW to, from \in Nat, to \in Nat, 1 =< from,
         \A i \in from .. to : f[i] \in Keys
  PROVE  /\ \A i \in 1 .. NON_LEAF_KEY_NUM :
               from + i - 1 =< to => KeyArray(f, from, to)[i] = f[from + i - 1]
         /\ KeyArray(f, from, to) \in [1 .. NON_LEAF_KEY_NUM -> Keys \cup {NoKey}]
<1>1. \A i \in 1 .. NON_LEAF_KEY_NUM :
         (IF from + i - 1 =< to THEN f[from + i - 1] ELSE NoKey) \in Keys \cup {NoKey}
  BY Sizes
<1> QED
  BY <1>1 DEF KeyArray

\* The same of the children.
LEMMA ChildEntries ==
  ASSUME NEW f, NEW from, NEW to, from \in Nat, to \in Nat,
         \A i \in from .. to : f[i] \in Leaves \cup BNodes
  PROVE  /\ \A i \in 0 .. NON_LEAF_KEY_NUM :
               from + i =< to => ChildArray(f, from, to)[i] = f[from + i]
         /\ ChildArray(f, from, to) \in [0 .. NON_LEAF_KEY_NUM -> Leaves \cup BNodes \cup {NULL}]
<1>1. \A i \in 0 .. NON_LEAF_KEY_NUM :
         (IF from + i =< to THEN f[from + i] ELSE NULL) \in Leaves \cup BNodes \cup {NULL}
  BY Sizes
<1> QED
  BY <1>1 DEF ChildArray

-----------------------------------------------------------------------------
(***************************************************************************)
(* A thread that has come to the parent of the node it has split.          *)
(***************************************************************************)
\* What a thread knows of the parent it is about to change.
LEMMA ParentKnows ==
  ASSUME NEW sh, IInv(sh), NEW t \in Threads, AtParent(t),
         NEW l, l = lev[t], NEW p, p = parent(t), NEW c, c = parray[t][l - 1],
         NEW d, d = ppos[t][l], NEW r, r = ptr[t]
  PROVE  /\ pc[t] = "up" /\ Base(t) = l - 1 /\ l \in 1 .. MaxLevel /\ l =< root_level
         /\ l =< sh.top[t] /\ sh.top[t] =< root_level /\ l \in Int /\ root_level \in Int
         /\ p \in TakenNodes /\ p \in Taken /\ p \in BNodes /\ p \notin Leaves
         /\ sh.own[p] = t /\ sh.lvl[p] = l /\ sh.cnt[p] = bnode[p].num /\ sh.end[p] = p
         /\ sh.cnt[p] \in 0 .. NON_LEAF_KEY_NUM
         /\ d \in 0 .. sh.cnt[p] /\ bnode[p].ch[d] = c
         /\ c \in Taken /\ sh.own[c] = t /\ sh.lvl[c] = l - 1 /\ sh.end[c] = r
         /\ r \in Taken /\ sh.own[r] = t /\ sh.lvl[r] = l - 1 /\ sh.end[r] = r
         /\ p # c /\ p # r /\ c # r
         /\ pkey[t] \in Keys /\ pkey[t] = sh.hi[c] /\ pkey[t] = sh.lo[r]
         /\ \A q \in TakenNodes : \A j \in 0 .. sh.cnt[q] : bnode[q].ch[j] # r
         /\ tree_root # r /\ c # tree_root
         /\ ~Full(p) => sh.top[t] = l
         /\ Full(p) /\ sh.top[t] = l => l = root_level
         /\ sh.top[t] = root_level => parray[t][sh.top[t]] = tree_root
         /\ total[t] \in Int /\ l =< total[t] /\ total[t] =< root_level /\ sh.top[t] =< total[t]
         /\ total[t] = root_level \/ sh.top[t] < total[t]
         /\ sh.top[t] \in 0 .. MaxLevel
<1>1. pc[t] = "up" /\ pc[t] \in Climbing /\ pc[t] \in Splitting /\ l =< total[t]
  BY DEF AtParent, Climbing, Splitting
<1>2. PathOK(sh, t) /\ SplitOK(sh, t)
  BY DEF IInv, ThreadOK
<1>3. l \in 1 .. MaxLevel /\ total[t] =< root_level /\ sh.top[t] =< total[t]
      /\ (total[t] = root_level \/ sh.top[t] < total[t])
  BY <1>1, <1>2 DEF SplitOK
<1>4. root_level \in Int /\ total[t] \in Int /\ sh.top[t] \in 0 .. MaxLevel /\ l \in Int
  BY <1>3, ThreadTypes, ShapeTypes, Sizes DEF IInv
<1>5. Base(t) = l - 1
  BY <1>1 DEF Base
<1>6. /\ l - 1 \in 0 .. sh.top[t] /\ sh.top[t] =< root_level
      /\ \A i \in (l - 1) + 1 .. sh.top[t] : Link(sh, t, i)
      /\ \A i \in (l - 1) + 1 .. sh.top[t] - 1 : Full(parray[t][i])
      /\ sh.top[t] = l - 1 \/ Full(parray[t][sh.top[t]]) => sh.top[t] = root_level
      /\ sh.top[t] = root_level => parray[t][sh.top[t]] = tree_root
  BY <1>1, <1>2, <1>5 DEF PathOK
<1>7. l =< sh.top[t] /\ l =< root_level
  BY <1>1, <1>3, <1>4, <1>6
<1>8. l \in Base(t) .. sh.top[t] /\ l # Base(t) /\ p = parray[t][l]
  BY <1>4, <1>5, <1>7 DEF parent
<1>9. p \in Taken /\ sh.own[p] = t /\ sh.lvl[p] = l /\ p \in TakenNodes
  BY <1>1, <1>8, PathOwned
<1>10. p \in BNodes /\ sh.cnt[p] \in 0 .. NON_LEAF_KEY_NUM /\ p \notin Leaves
  BY <1>9, CountType, Addresses
<1>11. sh.cnt[p] = bnode[p].num
  BY <1>1, <1>9 DEF IInv, Owners
<1>12. Link(sh, t, l)
  BY <1>4, <1>6, <1>7
<1>13. d \in 0 .. sh.cnt[p] /\ bnode[p].ch[d] = c
  BY <1>8, <1>11, <1>12 DEF Link
<1>14. /\ c \in Taken /\ sh.own[c] = t /\ sh.lvl[c] = l - 1 /\ sh.end[c] = r
       /\ r \in Taken /\ sh.own[r] = t /\ sh.lvl[r] = l - 1 /\ sh.end[r] = r /\ r # c
       /\ pkey[t] \in Keys /\ pkey[t] = sh.hi[c] /\ pkey[t] = sh.lo[r]
       /\ \A q \in TakenNodes : \A j \in 0 .. sh.cnt[q] : bnode[q].ch[j] # r
       /\ tree_root # r
  BY <1>1, <1>5, HangingNode
<1>15. p # c /\ p # r
  BY <1>4, <1>9, <1>14
<1>16. sh.end[p] = p
  <2>1. sh.end[p] # p => p = parray[t][Base(t)]
    BY <1>9 DEF IInv, Owners
  <2> QED
    BY <1>5, <1>15, <2>1
<1>17. c # tree_root
  <2>1. ~Growing => sh.lvl[tree_root] = root_level
    BY DEF IInv, TreeFits, Root
  <2>2. tree_root = c => ~Growing
    <3>1. Growing => pc[sh.own[tree_root]] = "growRoot"
      BY GrowerHolds
    <3> QED
      BY <1>1, <1>14, <3>1
  <2> QED
    BY <1>4, <1>7, <1>14, <2>1, <2>2
<1>18. ~Full(p) => sh.top[t] = l
  <2>1. l < sh.top[t] => Full(parray[t][l])
    BY <1>4, <1>6
  <2> QED
    BY <1>4, <1>7, <1>8, <2>1
<1>19. Full(p) /\ sh.top[t] = l => l = root_level
  BY <1>6, <1>8
<1> QED
  BY <1>1, <1>3, <1>4, <1>5, <1>6, <1>7, <1>9, <1>10, <1>11, <1>13, <1>14, <1>15, <1>16, <1>17,
     <1>18, <1>19

\* The shape once the new sibling of c is in the parent.
JoinEnd(sh, c) ==
    Shape(sh.lvl, sh.lo, sh.hi, sh.cnt, [sh.end EXCEPT ![c] = c], sh.own, sh.top)

\* Entries with one shifted in fit if the old ones did.
LEMMA ShiftedFit ==
  ASSUME NEW sh, IInv(sh), NEW t \in Threads, AtParent(t),
         NEW p, p = parent(t), NEW c, c = parray[t][lev[t] - 1],
         NEW d, d = ppos[t][lev[t]], NEW ks, NEW cs,
         ks = ShiftedKeys(p, d + 1, pkey[t]), cs = ShiftedChildren(p, d + 1, ptr[t])
  PROVE  EntriesFit(JoinEnd(sh, c), ks, cs, bnode[p].num + 1, sh.lo[p], sh.hi[p], sh.lvl[p])
<1>v. PICK l, r, x, n, k, ch : l = lev[t] /\ r = ptr[t] /\ x = pkey[t] /\ n = bnode[p].num
                             /\ k = bnode[p].k /\ ch = bnode[p].ch
  OBVIOUS
<1>1. /\ p \in TakenNodes /\ p \in Taken /\ sh.cnt[p] = n /\ n \in 0 .. NON_LEAF_KEY_NUM
      /\ d \in 0 .. n /\ ch[d] = c /\ n \in Int /\ d \in Int
      /\ c \in Taken /\ sh.end[c] = r /\ r \in Taken /\ sh.lvl[r] = l - 1 /\ sh.end[r] = r
      /\ sh.lvl[p] = l /\ l \in Int /\ c # r
      /\ x \in Keys /\ x = sh.hi[c] /\ x = sh.lo[r]
  <2>1. NON_LEAF_KEY_NUM \in Int
    BY Sizes
  <2> QED
    BY <1>v, <2>1, ParentKnows
<1>2. /\ \A i \in 1 .. n : k[i] \in Keys /\ sh.lo[p] < k[i] /\ k[i] < sh.hi[p]
      /\ \A i, j \in 1 .. n : i < j => k[i] < k[j]
      /\ \A i \in 0 .. n :
            /\ ch[i] \in Taken /\ sh.lvl[ch[i]] + 1 = l
            /\ sh.lo[ch[i]] = (IF i = 0 THEN sh.lo[p] ELSE k[i])
            /\ sh.hi[sh.end[ch[i]]] = (IF i = n THEN sh.hi[p] ELSE k[i + 1])
  <2>1. EntriesFit(sh, k, ch, n, sh.lo[p], sh.hi[p], l)
    BY <1>1, <1>v DEF IInv, TreeFits, NodeFits
  <2> QED
    BY <2>1 DEF EntriesFit
<1>3. /\ sh.lo[c] < x /\ x < sh.hi[r] /\ sh.lo[p] \in Int /\ sh.hi[p] \in Int /\ x \in Int
      /\ sh.lo[p] < sh.hi[p] /\ sh.lo[c] \in Int /\ sh.hi[r] \in Int
  <2>1. p \in Taken /\ c \in Taken /\ r \in Taken /\ x = sh.hi[c] /\ x = sh.lo[r]
    BY <1>1
  <2>2. \A a \in Taken : sh.lo[a] \in Int /\ sh.hi[a] \in Int /\ sh.lo[a] < sh.hi[a]
    BY Numbers
  <2> QED
    BY <2>1, <2>2
<1>4. \A i \in 1 .. n : k[i] \in Int
  BY <1>2, Sizes
<1>5. /\ sh.lo[c] = (IF d = 0 THEN sh.lo[p] ELSE k[d])
      /\ sh.hi[r] = (IF d = n THEN sh.hi[p] ELSE k[d + 1])
  BY <1>1, <1>2
<1>6. /\ sh.lo[p] < x /\ x < sh.hi[p]
      /\ d # 0 => d \in 1 .. n /\ k[d] < x
      /\ d # n => d + 1 \in 1 .. n /\ x < k[d + 1]
  <2>1. d # 0 => d \in 1 .. n
    BY <1>1
  <2>2. d # n => d + 1 \in 1 .. n
    BY <1>1
  <2>3. sh.lo[p] =< sh.lo[c]
    BY <1>2, <1>3, <1>4, <1>5, <2>1
  <2>4. sh.hi[r] =< sh.hi[p]
    BY <1>2, <1>3, <1>4, <1>5, <2>2
  <2>5. sh.lo[p] < x /\ x < sh.hi[p]
    BY <1>3, <2>3, <2>4
  <2> QED
    BY <1>3, <1>5, <2>1, <2>2, <2>5
<1>7. /\ \A i \in 1 .. n + 1 : ks[i] = IF i < d + 1 THEN k[i] ELSE IF i = d + 1 THEN x ELSE k[i - 1]
      /\ \A i \in 0 .. n + 1 : cs[i] = IF i < d + 1 THEN ch[i] ELSE IF i = d + 1 THEN r ELSE ch[i - 1]
  BY <1>v DEF ShiftedKeys, ShiftedChildren
<1>8. ASSUME NEW i \in 1 .. n + 1
      PROVE  /\ i < d + 1 => i \in 1 .. n /\ ks[i] = k[i]
             /\ i = d + 1 => ks[i] = x
             /\ i > d + 1 => i - 1 \in 1 .. n /\ ks[i] = k[i - 1]
             /\ i \in Int
  BY <1>1, <1>7
<1>9. \A i \in 1 .. n + 1 : ks[i] \in Keys /\ sh.lo[p] < ks[i] /\ ks[i] < sh.hi[p]
  <2> SUFFICES ASSUME NEW i \in 1 .. n + 1 PROVE ks[i] \in Keys /\ sh.lo[p] < ks[i] /\ ks[i] < sh.hi[p]
    OBVIOUS
  <2>1. CASE i < d + 1
    BY <1>2, <1>8, <2>1
  <2>2. CASE i = d + 1
    BY <1>1, <1>6, <1>8, <2>2
  <2>3. CASE i > d + 1
    <3> PICK j : j = i - 1
      OBVIOUS
    <3>1. j \in 1 .. n /\ ks[i] = k[j]
      BY <1>8, <2>3
    <3> QED
      BY <1>2, <3>1
  <2> QED
    BY <1>1, <1>8, <2>1, <2>2, <2>3
<1>10. \A i, j \in 1 .. n + 1 : i < j => ks[i] < ks[j]
  <2> SUFFICES ASSUME NEW i \in 1 .. n + 1, NEW j \in 1 .. n + 1, i < j PROVE ks[i] < ks[j]
    OBVIOUS
  <2>1. CASE j < d + 1
    BY <1>1, <1>2, <1>8, <2>1
  <2>2. CASE i > d + 1
    <3> PICK g, h : g = i - 1 /\ h = j - 1
      OBVIOUS
    <3>1. g \in 1 .. n /\ h \in 1 .. n /\ g < h /\ ks[i] = k[g] /\ ks[j] = k[h]
      BY <1>1, <1>8, <2>2
    <3> QED
      BY <1>2, <3>1
  <2>3. CASE i =< d /\ j >= d + 1
    <3>1. i \in 1 .. n /\ ks[i] = k[i] /\ d # 0 /\ i \in Int /\ j \in Int
      BY <1>1, <1>8, <2>3
    <3>2. k[i] =< k[d] /\ k[d] < x /\ k[i] \in Int /\ k[d] \in Int
      BY <1>1, <1>2, <1>4, <1>6, <2>3, <3>1
    <3>3. CASE j = d + 1
      BY <1>3, <1>8, <3>1, <3>2, <3>3
    <3>4. CASE j # d + 1
      <4> PICK h : h = j - 1
        OBVIOUS
      <4>1. h \in 1 .. n /\ ks[j] = k[h] /\ i < h
        BY <1>1, <1>8, <2>3, <3>1, <3>4
      <4> QED
        BY <1>2, <3>1, <4>1
    <3> QED
      BY <3>3, <3>4
  <2>4. CASE i = d + 1
    <3> PICK h : h = j - 1
      OBVIOUS
    <3>1. h \in 1 .. n /\ ks[j] = k[h] /\ ks[i] = x /\ d + 1 =< h /\ d # n
      BY <1>1, <1>8, <2>4
    <3>2. k[d + 1] =< k[h]
      BY <1>1, <1>2, <1>4, <1>6, <3>1
    <3> QED
      BY <1>3, <1>4, <1>6, <3>1, <3>2
  <2>5. i \in Int /\ j \in Int /\ d \in Int
    BY <1>1
  <2> QED
    BY <2>1, <2>2, <2>3, <2>4, <2>5
<1>11. ASSUME NEW i \in 0 .. n, i # d PROVE ch[i] # c
  BY <1>1, <1>11, <1>v, UniqueParent
<1>e. PICK e : e = [sh.end EXCEPT ![c] = c]
  OBVIOUS
<1>12. /\ JoinEnd(sh, c).lvl = sh.lvl /\ JoinEnd(sh, c).lo = sh.lo /\ JoinEnd(sh, c).hi = sh.hi
       /\ JoinEnd(sh, c).end = e
  BY <1>e, ShapeFields DEF JoinEnd
<1>13. e[c] = c /\ \A a \in Taken : a # c => e[a] = sh.end[a]
  <2>1. sh.end \in [Addr -> Addr] /\ Taken \subseteq Addr
    BY ShapeTypes, TakenTypes DEF IInv
  <2> QED
    BY <1>1, <1>e, <2>1
<1>14. ASSUME NEW i \in 0 .. n + 1
       PROVE  /\ cs[i] \in Taken /\ sh.lvl[cs[i]] + 1 = l
              /\ sh.lo[cs[i]] = (IF i = 0 THEN sh.lo[p] ELSE ks[i])
              /\ sh.hi[e[cs[i]]] = (IF i = n + 1 THEN sh.hi[p] ELSE ks[i + 1])
  <2>0. i \in Int
    OBVIOUS
  <2>1. CASE i < d
    <3>1. i \in 0 .. n /\ cs[i] = ch[i] /\ ch[i] # c /\ i # n + 1 /\ i + 1 \in 1 .. n + 1
          /\ i + 1 < d + 1 /\ i # n
      BY <1>1, <1>7, <1>11, <2>1
    <3>2. ks[i + 1] = k[i + 1] /\ (i # 0 => ks[i] = k[i])
      BY <1>1, <1>8, <2>1, <3>1
    <3> QED
      BY <1>2, <1>13, <3>1, <3>2, SMTT(60)
  <2>2. CASE i = d
    <3>1. i \in 0 .. n /\ cs[i] = c /\ i # n + 1 /\ i + 1 \in 1 .. n + 1
      BY <1>1, <1>7, <2>2
    <3>2. ks[i + 1] = x /\ (i # 0 => ks[i] = k[i])
      BY <1>1, <1>8, <2>2, <3>1, SMTT(60)
    <3>3. e[c] = c /\ sh.hi[c] = x /\ c \in Taken /\ i = d
      BY <1>1, <1>13, <2>2
    <3>4. sh.lvl[c] + 1 = l /\ sh.lo[c] = (IF i = 0 THEN sh.lo[p] ELSE k[i])
      BY <1>1, <1>2, <3>1, <3>3
    <3> QED
      BY <3>1, <3>2, <3>3, <3>4
  <2>3. CASE i = d + 1
    <3>1. cs[i] = r /\ i # 0 /\ ks[i] = x
      BY <1>1, <1>7, <2>3
    <3>2. i # n + 1 => d # n /\ ks[i + 1] = k[d + 1]
      <4> SUFFICES ASSUME i # n + 1 PROVE d # n /\ ks[i + 1] = k[d + 1]
        OBVIOUS
      <4>1. i + 1 \in 1 .. n + 1 /\ i + 1 > d + 1 /\ (i + 1) - 1 = d + 1 /\ d # n
        BY <1>1, <2>3
      <4>2. ks[i + 1] = k[(i + 1) - 1]
        BY <1>8, <4>1
      <4> QED
        BY <4>1, <4>2
    <3>3. e[r] = r /\ r \in Taken /\ sh.lvl[r] + 1 = l
      BY <1>1, <1>13
    <3>4. i = n + 1 <=> d = n
      BY <1>1, <2>3
    <3> QED
      BY <1>1, <1>5, <3>1, <3>2, <3>3, <3>4
  <2>4. CASE i > d + 1
    <3> PICK g : g = i - 1
      OBVIOUS
    <3>1. g \in 0 .. n /\ g # d /\ cs[i] = ch[g] /\ ch[g] # c /\ ks[i] = k[g] /\ g # 0 /\ i # 0
          /\ (i = n + 1 <=> g = n) /\ g + 1 = i
      BY <1>1, <1>7, <1>11, <2>4
    <3>2. i # n + 1 => ks[i + 1] = k[i]
      <4> SUFFICES ASSUME i # n + 1 PROVE ks[i + 1] = k[i]
        OBVIOUS
      <4>1. i + 1 \in 1 .. n + 1 /\ i + 1 > d + 1 /\ (i + 1) - 1 = i
        BY <1>1, <2>4
      <4>2. ks[i + 1] = k[(i + 1) - 1]
        BY <1>8, <4>1
      <4> QED
        BY <4>1, <4>2
    <3>3. /\ ch[g] \in Taken /\ sh.lvl[ch[g]] + 1 = l /\ sh.lo[ch[g]] = k[g]
          /\ sh.hi[sh.end[ch[g]]] = (IF g = n THEN sh.hi[p] ELSE k[g + 1])
          /\ e[ch[g]] = sh.end[ch[g]]
      BY <1>2, <1>13, <3>1
    <3> QED
      BY <3>1, <3>2, <3>3
  <2>5. i < d \/ i = d \/ i = d + 1 \/ i > d + 1
    BY <1>1, <2>0
  <2> QED
    BY <2>1, <2>2, <2>3, <2>4, <2>5
<1>15. EntriesFit(JoinEnd(sh, c), ks, cs, n + 1, sh.lo[p], sh.hi[p], l)
  <2>e. PICK she : she = JoinEnd(sh, c)
    OBVIOUS
  <2>1. she.lvl = sh.lvl /\ she.lo = sh.lo /\ she.hi = sh.hi /\ she.end = e
    BY <1>12, <2>e
  <2>2. \A i \in 0 .. n + 1 :
           /\ cs[i] \in Taken /\ she.lvl[cs[i]] + 1 = l
           /\ she.lo[cs[i]] = (IF i = 0 THEN sh.lo[p] ELSE ks[i])
           /\ she.hi[she.end[cs[i]]] = (IF i = n + 1 THEN sh.hi[p] ELSE ks[i + 1])
    BY ONLY <1>14, <2>1, SMTT(100)
  <2>3. EntriesFit(she, ks, cs, n + 1, sh.lo[p], sh.hi[p], l)
    BY <1>9, <1>10, <2>2, Zenon DEF EntriesFit
  <2> QED
    BY <2>3, <2>e
<1>16. sh.lvl[p] = l
  BY <1>1
<1> QED
  BY <1>15, <1>16, <1>v

\* The nodes look in sh1 as they did in sh, in the eyes of their parents.
SameNodes(sh, sh1) ==
    /\ \A a \in Taken : a \in Taken' /\ sh1.lvl[a] = sh.lvl[a] /\ sh1.lo[a] = sh.lo[a]
    /\ \A a \in Taken : sh1.hi[sh1.end[a]] = sh.hi[sh.end[a]]

\* A node with new entries fits if its children look as they did in sh.
LEMMA EntriesMove ==
  ASSUME NEW sh, NEW sh1, NEW k, NEW ch, NEW n, NEW low, NEW high, NEW l, NEW q,
         EntriesFit(sh, k, ch, n, low, high, l),
         bnode'[q].k = k, bnode'[q].ch = ch, sh1.cnt[q] = n,
         sh1.lo[q] = low, sh1.hi[q] = high, sh1.lvl[q] = l,
         SameNodes(sh, sh1)
  PROVE  NodeFits(sh1, q)'
<1>1. /\ \A i \in 1 .. n : k[i] \in Keys /\ low < k[i] /\ k[i] < high
      /\ \A i, j \in 1 .. n : i < j => k[i] < k[j]
      /\ \A i \in 0 .. n :
            /\ ch[i] \in Taken /\ sh.lvl[ch[i]] + 1 = l
            /\ sh.lo[ch[i]] = (IF i = 0 THEN low ELSE k[i])
            /\ sh.hi[sh.end[ch[i]]] = (IF i = n THEN high ELSE k[i + 1])
  BY DEF EntriesFit
<1>2. \A i \in 0 .. n :
         /\ ch[i] \in Taken' /\ sh1.lvl[ch[i]] + 1 = l
         /\ sh1.lo[ch[i]] = (IF i = 0 THEN low ELSE k[i])
         /\ sh1.hi[sh1.end[ch[i]]] = (IF i = n THEN high ELSE k[i + 1])
  BY <1>1 DEF SameNodes
<1> QED
  BY <1>1, <1>2 DEF NodeFits, EntriesFit

\* An entry is shifted into a parent with room.
LEMMA ParentShiftKeeps ==
  ASSUME NEW sh, IInv(sh), NEW t \in Threads, ParentShift(t)
  PROVE  \E sh1 : IInv(sh1)'
<1>v. PICK l, p, c, d, r : /\ l = lev[t] /\ p = parent(t) /\ c = parray[t][l - 1]
                           /\ d = ppos[t][l] /\ r = ptr[t]
  OBVIOUS
<1>w. PICK ks, cs, n : /\ ks = ShiftedKeys(p, d + 1, pkey[t])
                       /\ cs = ShiftedChildren(p, d + 1, ptr[t]) /\ n = bnode[p].num
  OBVIOUS
<1>x. PICK K, C : K = KeyArray(ks, 1, n + 1) /\ C = ChildArray(cs, 0, n + 1)
  OBVIOUS
<1>1. CallTypes /\ TreeTypes /\ LockTypes
  BY TypesSplit DEF IInv
<1>2. /\ AtParent(t) /\ ~Full(p) /\ pc[t] = "up"
      /\ pc' = [pc EXCEPT ![t] = "count"] /\ pc'[t] = "count"
      /\ UNCHANGED <<tree_lock, tree, leaf, pools, locals>>
  BY <1>1, <1>v DEF ParentShift, Goto, CallTypes, AtParent
<1>3. bnode' = [bnode EXCEPT ![p].k = K, ![p].ch = C]
  BY <1>v, <1>w, <1>x DEF ParentShift
<1>4. /\ Base(t) = l - 1 /\ l \in 1 .. MaxLevel /\ l =< root_level /\ sh.top[t] = l /\ l \in Int
      /\ root_level \in Int
      /\ p \in TakenNodes /\ p \in Taken /\ p \in BNodes /\ p \notin Leaves
      /\ sh.own[p] = t /\ sh.lvl[p] = l /\ sh.cnt[p] = n /\ sh.end[p] = p
      /\ d \in 0 .. n /\ bnode[p].ch[d] = c
      /\ c \in Taken /\ sh.own[c] = t /\ sh.lvl[c] = l - 1 /\ sh.end[c] = r
      /\ r \in Taken /\ sh.own[r] = t /\ sh.lvl[r] = l - 1 /\ sh.end[r] = r
      /\ p # c /\ p # r /\ c # r /\ c # tree_root
      /\ l =< total[t]
  BY <1>2, <1>v, <1>w, ParentKnows, SMTT(100)
<1>5. n \in Nat /\ n + 1 \in 0 .. NON_LEAF_KEY_NUM
  <2>1. bnode[p].num \in 0 .. NON_LEAF_KEY_NUM /\ bnode[p].num # NON_LEAF_KEY_NUM
    BY <1>2, <1>4, NodeTypes DEF IInv, Full
  <2> QED
    BY <1>w, <2>1, Sizes
<1>6. EntriesFit(JoinEnd(sh, c), ks, cs, n + 1, sh.lo[p], sh.hi[p], l)
  BY <1>2, <1>4, <1>v, <1>w, ShiftedFit
<1>7. /\ \A i \in 1 .. n + 1 : ks[i] \in Keys
      /\ \A i \in 0 .. n + 1 : cs[i] \in Leaves \cup BNodes
  <2>1. Taken \subseteq Leaves \cup BNodes
    BY TakenTypes DEF IInv, Addr
  <2> QED
    BY <1>6, <2>1 DEF EntriesFit
<1>8. /\ K \in [1 .. NON_LEAF_KEY_NUM -> Keys \cup {NoKey}]
      /\ C \in [0 .. NON_LEAF_KEY_NUM -> Leaves \cup BNodes \cup {NULL}]
      /\ \A i \in 1 .. n + 1 : K[i] = ks[i]
      /\ \A i \in 0 .. n + 1 : C[i] = cs[i]
  <2>1. 1 \in Nat /\ 0 \in Nat /\ n + 1 \in Nat /\ 1 =< (n + 1) + 1 /\ 0 =< (n + 1) + 1 /\ 1 =< 1
    BY <1>5
  <2>2. \A i \in 1 .. n + 1 : i \in 1 .. NON_LEAF_KEY_NUM /\ 1 + i - 1 = i /\ i =< n + 1
    BY <1>5, Sizes
  <2>3. \A i \in 0 .. n + 1 : i \in 0 .. NON_LEAF_KEY_NUM /\ 0 + i = i /\ i =< n + 1
    BY <1>5, Sizes
  <2>4. /\ K \in [1 .. NON_LEAF_KEY_NUM -> Keys \cup {NoKey}]
        /\ \A i \in 1 .. NON_LEAF_KEY_NUM : 1 + i - 1 =< n + 1 => K[i] = ks[1 + i - 1]
    <3>v. PICK e, g : e = 1 /\ g = n + 1
      OBVIOUS
    <3>1. e \in Nat /\ g \in Nat /\ 1 =< e /\ (\A i \in e .. g : ks[i] \in Keys) /\ K = KeyArray(ks, e, g)
      BY <1>7, <1>x, <2>1, <3>v
    <3>2. K \in [1 .. NON_LEAF_KEY_NUM -> Keys \cup {NoKey}]
      BY <3>1, KeyEntries
    <3>3. \A i \in 1 .. NON_LEAF_KEY_NUM : e + i - 1 =< g => K[i] = ks[e + i - 1]
      BY <3>1, KeyEntries
    <3> QED
      BY <3>2, <3>3, <3>v
  <2>5. /\ C \in [0 .. NON_LEAF_KEY_NUM -> Leaves \cup BNodes \cup {NULL}]
        /\ \A i \in 0 .. NON_LEAF_KEY_NUM : 0 + i =< n + 1 => C[i] = cs[0 + i]
    BY <1>7, <1>x, <2>1, ChildEntries
  <2> QED
    BY <2>2, <2>3, <2>4, <2>5
<1>9. EntriesFit(JoinEnd(sh, c), K, C, n + 1, sh.lo[p], sh.hi[p], l)
  <2>1. \A i \in 1 .. n + 1 : (i + 1 \in 1 .. n + 1) \/ i = n + 1
    BY <1>5
  <2>2. \A i \in 0 .. n + 1 : (i # 0 => i \in 1 .. n + 1) /\ (i # n + 1 => i + 1 \in 1 .. n + 1)
    BY <1>5
  <2> QED
    BY <1>6, <1>8, <2>2 DEF EntriesFit
<1>10. /\ bnode' \in [BNodes -> NodeType]
       /\ bnode'[p].k = K /\ bnode'[p].ch = C
       /\ bnode'[p].num = n /\ bnode'[p].lock = bnode[p].lock
       /\ \A q \in BNodes : q # p => bnode'[q] = bnode[q]
  <2>r. PICK b : b = [bnode[p] EXCEPT !.k = K, !.ch = C]
    OBVIOUS
  <2>1. bnode \in [BNodes -> NodeType] /\ bnode[p] \in NodeType /\ p \in BNodes
    BY <1>1, <1>4 DEF TreeTypes
  <2>2. /\ b \in NodeType /\ b.k = K /\ b.ch = C /\ b.num = bnode[p].num
        /\ b.lock = bnode[p].lock
    BY <1>8, <2>1, <2>r DEF NodeType
  <2>3. bnode' = [bnode EXCEPT ![p] = b]
    BY <1>3, <2>1, <2>r
  <2>4. bnode' \in [BNodes -> NodeType] /\ bnode'[p] = b /\ \A q \in BNodes : q # p => bnode'[q] = bnode[q]
    BY <2>1, <2>2, <2>3
  <2> QED
    BY <1>w, <2>2, <2>4
<1>h. PICK cnt1, end1, own1 :
        /\ cnt1 = [sh.cnt EXCEPT ![p] = n + 1]
        /\ end1 = [sh.end EXCEPT ![c] = c]
        /\ own1 = [sh.own EXCEPT ![c] = NoThread, ![r] = NoThread]
  OBVIOUS
<1>g. PICK sh1 : sh1 = Shape(sh.lvl, sh.lo, sh.hi, cnt1, end1, own1, sh.top)
  OBVIOUS
<1>11. /\ TakenLeaves \subseteq Leaves /\ TakenNodes \subseteq BNodes /\ Taken \subseteq Addr
       /\ TakenNodes \subseteq Taken /\ TakenLeaves \subseteq Taken
  BY TakenTypes DEF IInv, Taken
<1>12. /\ sh1 \in ShapeType /\ sh1.lvl = sh.lvl /\ sh1.lo = sh.lo /\ sh1.hi = sh.hi
       /\ sh1.top = sh.top
       /\ sh1.cnt[p] = n + 1 /\ \A q \in TakenNodes : q # p => sh1.cnt[q] = sh.cnt[q]
       /\ sh1.end = end1 /\ sh1.end[c] = c
       /\ \A a \in Taken : a # c => sh1.end[a] = sh.end[a]
       /\ sh1.own[c] = NoThread /\ sh1.own[r] = NoThread
       /\ \A a \in Taken : a # c /\ a # r => sh1.own[a] = sh.own[a]
  <2>1. /\ sh.lvl \in [Addr -> 0 .. MaxLevel] /\ sh.lo \in [Addr -> Int]
        /\ sh.hi \in [Addr -> Int] /\ sh.cnt \in [BNodes -> 0 .. NON_LEAF_KEY_NUM]
        /\ sh.end \in [Addr -> Addr] /\ sh.own \in [Addr -> Threads \cup {NoThread}]
        /\ sh.top \in [Threads -> 0 .. MaxLevel]
    BY ShapeTypes DEF IInv
  <2>2. /\ cnt1 \in [BNodes -> 0 .. NON_LEAF_KEY_NUM] /\ end1 \in [Addr -> Addr]
        /\ own1 \in [Addr -> Threads \cup {NoThread}]
    BY <1>4, <1>5, <1>11, <1>h, <2>1
  <2>3. /\ sh1 \in ShapeType /\ sh1.lvl = sh.lvl /\ sh1.lo = sh.lo /\ sh1.hi = sh.hi
        /\ sh1.top = sh.top /\ sh1.cnt = cnt1 /\ sh1.end = end1 /\ sh1.own = own1
    BY <1>g, <2>1, <2>2, ShapeFields
  <2> QED
    BY <1>4, <1>11, <1>h, <2>1, <2>3
<1>13. TakenLeaves' = TakenLeaves /\ TakenNodes' = TakenNodes /\ Taken' = Taken
  BY <1>2 DEF TakenLeaves, TakenNodes, Taken, pools
<1>14. CallTypes'
  BY <1>1, <1>2 DEF CallTypes, locals, call, path, up, Stages
<1>15. TreeTypes'
  BY <1>1, <1>2, <1>10 DEF TreeTypes, tree, pools
<1>16. LockTypes'
  BY <1>1, <1>2 DEF LockTypes, Part1, CallTypes
<1>17. TypeOK' /\ LocalTypes'
  BY <1>14, <1>15, <1>16, TypesAfter
<1>18. \A u \in Threads : u # t => SameLocals(sh, sh1, u)
  BY <1>1, <1>2, <1>12 DEF SameLocals, CallTypes, locals, call, path, up
<1>19. Growing' <=> Growing
  BY <1>2, <1>18 DEF Growing, SameLocals
<1>20. Frame(sh, sh1, t) /\ SameRoot
  <2>1. \A a \in Taken : a # c /\ a # r /\ a # p => Keeps(sh, sh1, a)
    <3>1. \A a \in Taken : a \in BNodes => a \in TakenNodes
      BY TakenTypes, Addresses DEF IInv, Taken
    <3> QED
      BY <1>2, <1>10, <1>12, <1>13, <3>1 DEF Keeps
  <2> QED
    BY <1>2, <1>4, <1>12, <1>13, <1>18, <1>19, <2>1 DEF Frame, SameRoot, tree
<1>21. \A u \in Threads : u # t => ThreadOK(sh1, u)'
  BY <1>20, OthersStay
<1>22. \A a \in Taken : a # c => sh1.hi[sh1.end[a]] = sh.hi[sh.end[a]]
  BY <1>12
<1>23. TreeFits(sh1)'
  <2>1. TreeFits(sh)
    BY DEF IInv
  <2>2. Ranges(sh1)'
    BY <1>12, <1>13, <2>1 DEF TreeFits, Ranges
  <2>3. Levels(sh1)'
    BY <1>2, <1>4, <1>12, <1>13, <2>1 DEF TreeFits, Levels, tree
  <2>4. Root(sh1)'
    BY <1>2, <1>4, <1>12, <1>13, <1>19, <1>22, <2>1 DEF TreeFits, Root, tree
  <2>5. \A a \in TakenLeaves' : LeafFits(sh1, a)'
    BY <1>2, <1>12, <1>13, <2>1 DEF TreeFits, LeafFits, tree
  <2>6. NodeFits(sh1, p)'
    <3>e. PICK she : she = JoinEnd(sh, c)
      OBVIOUS
    <3>1. she.lvl = sh.lvl /\ she.lo = sh.lo /\ she.hi = sh.hi /\ she.end = end1
      BY <1>h, <3>e, ShapeFields DEF JoinEnd
    <3>2. EntriesFit(she, K, C, n + 1, sh.lo[p], sh.hi[p], l)
      BY <1>9, <3>e
    <3>3. SameNodes(she, sh1)
      BY <1>12, <1>13, <3>1 DEF SameNodes
    <3>4. /\ bnode'[p].k = K /\ bnode'[p].ch = C /\ sh1.cnt[p] = n + 1
          /\ sh1.lo[p] = sh.lo[p] /\ sh1.hi[p] = sh.hi[p] /\ sh1.lvl[p] = l
      BY <1>4, <1>10, <1>12
    <3> QED
      BY <3>2, <3>3, <3>4, EntriesMove
  <2>7. ASSUME NEW q \in TakenNodes, q # p PROVE NodeFits(sh1, q)'
    <3>1. q \in BNodes /\ bnode'[q] = bnode[q] /\ sh1.cnt[q] = sh.cnt[q]
      BY <1>10, <1>11, <1>12, <2>7
    <3>2. ASSUME NEW i \in 0 .. sh.cnt[q]
          PROVE sh1.hi[sh1.end[bnode[q].ch[i]]] = sh.hi[sh.end[bnode[q].ch[i]]]
      <4>1. bnode[q].ch[i] \in Taken
        BY ChildInside
      <4>2. bnode[q].ch[i] # c
        BY <1>4, <2>7, UniqueParent
      <4> QED
        BY <1>22, <4>1, <4>2
    <3>3. \A a \in Taken : a \in Taken' /\ sh1.lvl[a] = sh.lvl[a] /\ sh1.lo[a] = sh.lo[a]
      BY <1>12, <1>13
    <3>4. NodeStays(sh, sh1, q)
      BY <1>12, <3>1, <3>2, <3>3 DEF NodeStays
    <3> QED
      BY <3>4, NodeFitsKept
  <2> QED
    BY <1>13, <2>2, <2>3, <2>4, <2>5, <2>6, <2>7 DEF TreeFits
<1>24. \A a : OwnedBy(sh, a, t) <=> a = c \/ a = p \/ a = r
  <2>1. p = parray[t][l]
    BY <1>v DEF parent
  <2>2. \A i \in (l - 1) .. l : i = l - 1 \/ i = l
    BY <1>4
  <2>3. l - 1 \in (l - 1) .. l /\ l \in (l - 1) .. l
    BY <1>4
  <2>4. \A a : OwnedBy(sh, a, t) <=> (\E i \in (l - 1) .. l : a = parray[t][i]) \/ a = r
    BY <1>2, <1>4, <1>v DEF OwnedBy, Splitting, Climbing
  <2> QED
    BY <1>v, <2>1, <2>2, <2>3, <2>4
<1>25. \A a : OwnedBy(sh1, a, t)' <=> a = p
  BY <1>2, <1>v DEF OwnedBy, Splitting, Climbing, parent, locals, path
<1>26. \A a : (OpenFor(a, t) <=> a = r \/ a = c) /\ ~OpenFor(a, t)'
  BY <1>2, <1>4, <1>v DEF OpenFor, Climbing
<1>27. Owners(sh1)'
  <2>1. /\ \A a \in Taken : sh.own[a] = t <=> OwnedBy(sh, a, t)
        /\ \A a \in Taken : Locked(a) <=> sh.own[a] \in Threads /\ ~OpenFor(a, sh.own[a])
        /\ \A a \in Addr \ Taken : ~Locked(a)
        /\ \A q \in TakenNodes : sh.cnt[q] # bnode[q].num =>
              sh.own[q] \in Threads /\ pc[sh.own[q]] = "count"
        /\ \A a \in Taken : sh.end[a] # a =>
              /\ sh.own[a] \in Threads /\ pc[sh.own[a]] \in Climbing
              /\ a = parray[sh.own[a]][Base(sh.own[a])]
    BY DEF IInv, Owners
  <2>2. \A a \in Addr : Locked(a)' <=> Locked(a)
    BY <1>2, <1>10 DEF Locked, Addr
  <2>4. \A u \in Threads : u # NoThread
    OBVIOUS
  <2>5. \A a \in Taken' : sh1.own[a] \in {t, NoThread} \/ (a \in Taken /\ sh1.own[a] = sh.own[a])
    BY <1>12, <1>13
  <2>6. \A a \in Taken' : sh1.own[a] \in Threads \cup {NoThread}
    BY <1>11, <1>12, <1>13, ShapeTypes
  <2>7. \A a \in Taken' : sh1.own[a] = t <=> OwnedBy(sh1, a, t)'
    BY <1>4, <1>12, <1>13, <1>24, <1>25, <2>1, <2>4
  <2>3. ~Locked(c) /\ ~Locked(r) /\ Locked(p)
    BY <1>4, <1>26, <2>1
  <2>8. \A a \in Taken' : sh1.own[a] = t => (Locked(a)' <=> ~OpenFor(a, t)')
    BY <1>11, <1>13, <1>25, <1>26, <2>2, <2>3, <2>7
  <2>9. \A a \in Taken' : sh1.own[a] = NoThread => ~Locked(a)'
    BY <1>11, <1>12, <1>13, <2>1, <2>2, <2>3, <2>4
  <2>10. \A a \in Addr \ Taken' : ~Locked(a)'
    BY <1>13, <2>1, <2>2
  <2>11. pc[t] # "count"
    BY <1>2
  <2>12. \A q \in TakenNodes' : sh1.own[q] \in {t, NoThread} /\ sh1.cnt[q] # bnode'[q].num =>
            sh1.own[q] = t /\ pc'[t] = "count"
    <3> SUFFICES ASSUME NEW q \in TakenNodes, sh1.own[q] \in {t, NoThread},
                        sh1.cnt[q] # bnode'[q].num, q # p
                 PROVE  FALSE
      BY <1>2, <1>4, <1>12, <1>13
    <3>1. sh.cnt[q] # bnode[q].num
      BY <1>10, <1>11, <1>12
    <3>2. sh.own[q] \in Threads /\ pc[sh.own[q]] = "count" /\ q \in Taken
      BY <1>11, <2>1, <3>1
    <3>3. q # c /\ q # r /\ sh.own[q] # t
      BY <1>4, <2>11, <3>2
    <3> QED
      BY <1>12, <2>4, <3>2, <3>3
  <2>13. \A a \in Taken' : sh1.own[a] \in {t, NoThread} /\ sh1.end[a] # a =>
            sh1.own[a] = t /\ pc'[t] \in Climbing /\ a = parray'[t][Base(t)']
    <3> SUFFICES ASSUME NEW a \in Taken, sh1.own[a] \in {t, NoThread}, sh1.end[a] # a
                 PROVE  FALSE
      BY <1>13
    <3>1. a # c /\ sh.end[a] # a
      BY <1>12
    <3>2. sh.own[a] \in Threads /\ a # r /\ a # p
      BY <1>4, <2>1, <3>1
    <3>3. sh.own[a] = t
      BY <1>12, <2>4, <3>1, <3>2
    <3> QED
      BY <1>24, <2>1, <3>1, <3>2, <3>3
  <2>14. root_level' = root_level /\ TakenNodes' \subseteq BNodes /\ TakenNodes' \subseteq Taken'
    BY <1>2, <1>11, <1>13 DEF tree
  <2> QED
    BY <1>20, <2>5, <2>6, <2>7, <2>8, <2>9, <2>10, <2>12, <2>13, <2>14, OwnersStep
<1>28. ThreadOK(sh1, t)'
  <2>1. lev' = lev /\ parray' = parray /\ parent(t)' = p
    BY <1>2, <1>v DEF locals, path, parent
  <2>2. SearchOK(sh1, t)' /\ GrowOK(sh1, t)' /\ LeafCallOK(sh1, t)' /\ PathOK(sh1, t)'
    BY <1>2 DEF SearchOK, GrowOK, LeafCallOK, PathOK, Splitting, Climbing
  <2>3. SplitOK(sh1, t)'
    BY <1>2, <1>4, <1>10, <1>12, <1>13, <1>v, <2>1 DEF SplitOK, Climbing
  <2> QED
    BY <2>2, <2>3 DEF ThreadOK
<1>29. IInv(sh1)'
  BY <1>12, <1>17, <1>21, <1>23, <1>27, <1>28 DEF IInv
<1> QED
  BY <1>29

\* A full parent is split, and the entry goes to one of the halves.
LEMMA ParentSplitKeeps ==
  ASSUME NEW sh, IInv(sh), NEW t \in Threads, ParentSplit(t)
  PROVE  \E sh1 : IInv(sh1)'
<1>v. PICK l, p, c, d, r : /\ l = lev[t] /\ p = parent(t) /\ c = parray[t][l - 1]
                           /\ d = ppos[t][l] /\ r = ptr[t]
  OBVIOUS
<1>w. PICK ks, cs : /\ ks = ShiftedKeys(p, d + 1, pkey[t])
                    /\ cs = ShiftedChildren(p, d + 1, ptr[t])
  OBVIOUS
<1>y. PICK L, R, N : L = LEFT_KEY_NUM /\ R = RIGHT_KEY_NUM /\ N = NON_LEAF_KEY_NUM
  OBVIOUS
<1>x. PICK KL, CL, KR, CR, m :
        /\ KL = KeyArray(ks, 1, L) /\ CL = ChildArray(cs, 0, L)
        /\ KR = KeyArray(ks, L + 2, N + 1) /\ CR = ChildArray(cs, L + 1, N + 1)
        /\ m = ks[L + 1]
  OBVIOUS
<1>z. PICK bp, bn, st :
        /\ st = IF l >= total[t] THEN "last" ELSE "more"
        /\ bp = [lock |-> st = "last", num |-> L, k |-> KL, ch |-> CL]
        /\ bn = [lock |-> FALSE, num |-> R, k |-> KR, ch |-> CR]
  OBVIOUS
<1>1. CallTypes /\ TreeTypes /\ LockTypes
  BY TypesSplit DEF IInv
<1>2. /\ AtParent(t) /\ Full(p) /\ pc[t] = "up" /\ l < MaxLevel
      /\ lev' = [lev EXCEPT ![t] = l + 1] /\ lev'[t] = l + 1
      /\ UNCHANGED <<tree_lock, tree, leaf, leafTop, leafFree, pc, call, cur, path, sib, total>>
  BY <1>1, <1>v DEF ParentSplit, CallTypes, AtParent
<1>n. PICK n1 \in BNodes :
        /\ AllocNode(t, n1)
        /\ bnode' = [bnode EXCEPT ![p] = bp, ![n1] = bn]
        /\ pkey' = [pkey EXCEPT ![t] = m]
        /\ ptr' = [ptr EXCEPT ![t] = n1]
  <2>1. (l >= total[t]) = (st = "last")
    BY <1>z
  <2> QED
    BY <1>v, <1>w, <1>x, <1>y, <1>z, <2>1 DEF ParentSplit
<1>3. /\ Base(t) = l - 1 /\ l \in 1 .. MaxLevel /\ l =< root_level /\ l \in Int
      /\ l =< sh.top[t] /\ sh.top[t] =< root_level /\ root_level \in Int
      /\ p \in TakenNodes /\ p \in Taken /\ p \in BNodes /\ p \notin Leaves
      /\ sh.own[p] = t /\ sh.lvl[p] = l /\ sh.cnt[p] = bnode[p].num /\ sh.end[p] = p
      /\ d \in 0 .. sh.cnt[p] /\ bnode[p].ch[d] = c
  BY <1>2, <1>v, ParentKnows
<1>4. /\ c \in Taken /\ sh.own[c] = t /\ sh.lvl[c] = l - 1 /\ sh.end[c] = r
      /\ r \in Taken /\ sh.own[r] = t /\ sh.lvl[r] = l - 1 /\ sh.end[r] = r
      /\ p # c /\ p # r /\ c # r /\ c # tree_root
  BY <1>2, <1>v, ParentKnows
<1>5. /\ sh.top[t] = l => l = root_level
      /\ total[t] \in Int /\ l =< total[t] /\ total[t] =< root_level /\ sh.top[t] =< total[t]
      /\ total[t] = root_level \/ sh.top[t] < total[t]
      /\ sh.top[t] = root_level => parray[t][sh.top[t]] = tree_root
      /\ sh.top[t] \in 0 .. MaxLevel
  BY <1>2, <1>v, ParentKnows
<1>6. N = NON_LEAF_KEY_NUM /\ N \in Int /\ 2 =< N /\ L \in Nat /\ L < N /\ R = N - L /\ R \in 0 .. N
      /\ L \in 0 .. N /\ bnode[p].num = N
  <2>1. N \in Int /\ 2 =< N /\ bnode[p].num = N
    BY <1>2, <1>y, Sizes DEF Full
  <2>2. L = N \div 2 /\ R = N - L
    BY <1>y DEF LEFT_KEY_NUM, RIGHT_KEY_NUM
  <2> QED
    BY <1>y, <2>1, <2>2
<1>7. /\ TakenLeaves \subseteq Leaves /\ TakenNodes \subseteq BNodes /\ Taken \subseteq Addr
      /\ TakenNodes \subseteq Taken /\ TakenLeaves \subseteq Taken
  BY TakenTypes DEF IInv, Taken
<1>e. PICK she : she = JoinEnd(sh, c)
  OBVIOUS
<1>8. EntriesFit(she, ks, cs, N + 1, sh.lo[p], sh.hi[p], l)
  BY <1>2, <1>3, <1>6, <1>e, <1>v, <1>w, ShiftedFit
<1>9. sh.lo[p] \in Int /\ sh.hi[p] \in Int /\ sh.lo[p] < sh.hi[p]
  BY <1>3, Numbers
<1>10. L + 1 \in 1 .. N + 1 /\ m \in Keys /\ m \in Int /\ sh.lo[p] < m /\ m < sh.hi[p]
  <2>1. L + 1 \in 1 .. N + 1
    BY <1>6
  <2>2. ks[L + 1] \in Keys /\ sh.lo[p] < ks[L + 1] /\ ks[L + 1] < sh.hi[p]
    BY <1>8, <2>1 DEF EntriesFit
  <2> QED
    BY <1>x, <2>1, <2>2, Sizes
<1>f. /\ \A i \in 1 .. N + 1 : ks[i] \in Keys
      /\ \A i \in 0 .. N + 1 : cs[i] \in Leaves \cup BNodes
  BY <1>7, <1>8 DEF EntriesFit, Addr
<1>11. /\ EntriesFit(she, KL, CL, L, sh.lo[p], m, l)
       /\ KL \in [1 .. NON_LEAF_KEY_NUM -> Keys \cup {NoKey}]
       /\ CL \in [0 .. NON_LEAF_KEY_NUM -> Leaves \cup BNodes \cup {NULL}]
  <2>v. PICK i0, i1, g, w, low1, high1 :
          /\ i0 = 0 /\ i1 = L /\ g = N + 1 /\ w = 1 /\ low1 = sh.lo[p] /\ high1 = m
    OBVIOUS
  <2>1. /\ g \in Nat /\ i0 \in 0 .. g /\ i1 \in i0 .. g /\ i1 - i0 =< NON_LEAF_KEY_NUM
        /\ w = i0 + 1 /\ low1 = (IF i0 = 0 THEN sh.lo[p] ELSE ks[i0])
        /\ high1 = (IF i1 = g THEN sh.hi[p] ELSE ks[i1 + 1]) /\ i1 - i0 = L
    BY <1>6, <1>x, <2>v
  <2>2. KL = KeyArray(ks, w, i1) /\ CL = ChildArray(cs, i0, i1) /\ Taken \subseteq Leaves \cup BNodes
        /\ EntriesFit(she, ks, cs, g, sh.lo[p], sh.hi[p], l)
    BY <1>7, <1>8, <1>x, <2>v DEF Addr
  <2>3. /\ KL \in [1 .. NON_LEAF_KEY_NUM -> Keys \cup {NoKey}]
        /\ \A i \in 1 .. NON_LEAF_KEY_NUM : w + i - 1 =< i1 => KL[i] = ks[w + i - 1]
    <3>1. w \in Nat /\ i1 \in Nat /\ 1 =< w /\ (\A i \in w .. i1 : ks[i] \in Keys)
          /\ KL = KeyArray(ks, w, i1)
      BY <1>6, <1>f, <2>2, <2>v
    <3> QED
      BY <3>1, KeyEntries
  <2>4. /\ CL \in [0 .. NON_LEAF_KEY_NUM -> Leaves \cup BNodes \cup {NULL}]
        /\ \A i \in 0 .. NON_LEAF_KEY_NUM : i0 + i =< i1 => CL[i] = cs[i0 + i]
    <3>1. i0 \in Nat /\ i1 \in Nat /\ (\A i \in i0 .. i1 : cs[i] \in Leaves \cup BNodes)
          /\ CL = ChildArray(cs, i0, i1)
      BY <1>6, <1>f, <2>2, <2>v
    <3> QED
      BY <3>1, ChildEntries
  <2>5. EntriesFit(she, KL, CL, L, low1, high1, l)
    <3>1. \A i \in 1 .. L : KL[i] = ks[i0 + i]
      BY <1>6, <1>y, <2>3, <2>v
    <3>2. \A i \in 0 .. L : CL[i] = cs[i0 + i]
      BY <1>6, <1>y, <2>4, <2>v
    <3>3. /\ g \in Nat /\ i0 \in Nat /\ L \in Nat /\ i0 + L =< g
          /\ low1 = (IF i0 = 0 THEN sh.lo[p] ELSE ks[i0])
          /\ high1 = (IF i0 + L = g THEN sh.hi[p] ELSE ks[i0 + L + 1])
      BY <1>6, <2>1, <2>v
    <3>4. IsPart(KL, CL, ks, cs, i0, L)
      BY <3>1, <3>2 DEF IsPart
    <3> QED
      BY <1>9, <2>2, <3>3, <3>4, PartFits, ZenonT(60)
  <2> QED
    BY <2>3, <2>4, <2>5, <2>v
<1>12. /\ EntriesFit(she, KR, CR, R, m, sh.hi[p], l)
       /\ KR \in [1 .. NON_LEAF_KEY_NUM -> Keys \cup {NoKey}]
       /\ CR \in [0 .. NON_LEAF_KEY_NUM -> Leaves \cup BNodes \cup {NULL}]
  <2>v. PICK i0, i1, w, low1, high1 :
          /\ i0 = L + 1 /\ i1 = N + 1 /\ w = L + 2 /\ low1 = m /\ high1 = sh.hi[p]
    OBVIOUS
  <2>1. /\ i1 \in Nat /\ i0 \in 0 .. i1 /\ i1 \in i0 .. i1 /\ i1 - i0 =< NON_LEAF_KEY_NUM
        /\ w = i0 + 1 /\ low1 = (IF i0 = 0 THEN sh.lo[p] ELSE ks[i0])
        /\ high1 = (IF i1 = i1 THEN sh.hi[p] ELSE ks[i1 + 1]) /\ i1 - i0 = R
    BY <1>6, <1>x, <2>v
  <2>2. KR = KeyArray(ks, w, i1) /\ CR = ChildArray(cs, i0, i1) /\ Taken \subseteq Leaves \cup BNodes
        /\ EntriesFit(she, ks, cs, i1, sh.lo[p], sh.hi[p], l)
    BY <1>7, <1>8, <1>x, <2>v DEF Addr
  <2>3. /\ KR \in [1 .. NON_LEAF_KEY_NUM -> Keys \cup {NoKey}]
        /\ \A i \in 1 .. NON_LEAF_KEY_NUM : w + i - 1 =< i1 => KR[i] = ks[w + i - 1]
    <3>1. w \in Nat /\ i1 \in Nat /\ 1 =< w /\ (\A i \in w .. i1 : ks[i] \in Keys)
          /\ KR = KeyArray(ks, w, i1)
      BY <1>6, <1>f, <2>2, <2>v
    <3> QED
      BY <3>1, KeyEntries
  <2>4. /\ CR \in [0 .. NON_LEAF_KEY_NUM -> Leaves \cup BNodes \cup {NULL}]
        /\ \A i \in 0 .. NON_LEAF_KEY_NUM : i0 + i =< i1 => CR[i] = cs[i0 + i]
    <3>1. i0 \in Nat /\ i1 \in Nat /\ (\A i \in i0 .. i1 : cs[i] \in Leaves \cup BNodes)
          /\ CR = ChildArray(cs, i0, i1)
      BY <1>6, <1>f, <2>2, <2>v
    <3> QED
      BY <3>1, ChildEntries
  <2>5. EntriesFit(she, KR, CR, R, low1, high1, l)
    <3>1. \A i \in 1 .. R : KR[i] = ks[i0 + i]
      <4>1. \A i \in 1 .. R : i \in 1 .. NON_LEAF_KEY_NUM /\ w + i - 1 = i0 + i /\ i0 + i =< i1
        BY <1>6, <2>v
      <4> QED
        BY <2>3, <4>1
    <3>2. \A i \in 0 .. R : CR[i] = cs[i0 + i]
      BY <1>6, <2>4, <2>v
    <3>3. /\ i1 \in Nat /\ i0 \in Nat /\ R \in Nat /\ i0 + R =< i1
          /\ low1 = (IF i0 = 0 THEN sh.lo[p] ELSE ks[i0])
          /\ high1 = (IF i0 + R = i1 THEN sh.hi[p] ELSE ks[i0 + R + 1])
      BY <1>6, <2>1, <2>v
    <3>4. IsPart(KR, CR, ks, cs, i0, R)
      BY <3>1, <3>2 DEF IsPart
    <3> QED
      BY <1>9, <2>2, <3>3, <3>4, PartFits, ZenonT(60)
  <2> QED
    BY <2>3, <2>4, <2>5, <2>v
<1>13. /\ nodeFree' = nodeFree /\ n1 = -(nodeTop + 1) /\ nodeTop' = nodeTop + 1 /\ n1 \in BNodes
  BY <1>1, <1>n DEF AllocNode, TreeTypes
<1>14. /\ n1 \notin Taken /\ n1 \in Addr /\ n1 # p /\ n1 # c /\ n1 # r /\ n1 \notin Leaves
       /\ TakenNodes' = TakenNodes \cup {n1} /\ TakenLeaves' = TakenLeaves
       /\ Taken' = Taken \cup {n1} /\ nodeTop' \in 0 .. MaxNode
  <2>1. nodeTop \in Nat /\ leafTop' = leafTop
    BY <1>1, <1>2, Sizes DEF TreeTypes
  <2>2. n1 \notin TakenNodes /\ n1 \notin Leaves /\ n1 \in Addr
    BY <1>13, <2>1, Addresses DEF TakenNodes, Addr
  <2>3. TakenNodes' = TakenNodes \cup {n1} /\ TakenLeaves' = TakenLeaves
    <3>1. \A i : i \in -(nodeTop + 1) .. -1 <=> i \in -nodeTop .. -1 \/ i = -(nodeTop + 1)
      BY <2>1
    <3> QED
      BY <1>13, <2>1, <3>1 DEF TakenNodes, TakenLeaves
  <2>4. nodeTop' \in 0 .. MaxNode
    BY <1>13, <2>1, Sizes DEF BNodes
  <2> QED
    BY <1>3, <1>4, <1>7, <2>2, <2>3, <2>4 DEF Taken
<1>15. /\ bnode' \in [BNodes -> NodeType]
       /\ bnode'[p].k = KL /\ bnode'[p].ch = CL /\ bnode'[p].num = L
       /\ bnode'[p].lock = (st = "last")
       /\ bnode'[n1].k = KR /\ bnode'[n1].ch = CR /\ bnode'[n1].num = R
       /\ bnode'[n1].lock = FALSE
       /\ \A q \in BNodes : q # p /\ q # n1 => bnode'[q] = bnode[q]
  <2>1. bp \in NodeType /\ bp.k = KL /\ bp.ch = CL /\ bp.num = L /\ bp.lock = (st = "last")
    BY <1>6, <1>11, <1>z DEF NodeType
  <2>2. bn \in NodeType /\ bn.k = KR /\ bn.ch = CR /\ bn.num = R /\ bn.lock = FALSE
    BY <1>6, <1>12, <1>z DEF NodeType
  <2>3. bnode \in [BNodes -> NodeType] /\ p \in BNodes /\ n1 \in BNodes /\ n1 # p
    BY <1>1, <1>3, <1>13, <1>14 DEF TreeTypes
  <2>4. bnode' = [bnode EXCEPT ![p] = bp, ![n1] = bn]
    BY <1>n
  <2>5. /\ bnode' \in [BNodes -> NodeType] /\ bnode'[p] = bp /\ bnode'[n1] = bn
        /\ \A q \in BNodes : q # p /\ q # n1 => bnode'[q] = bnode[q]
    BY <2>1, <2>2, <2>3, <2>4
  <2> QED
    BY <2>1, <2>2, <2>5
<1>16. lev' = [lev EXCEPT ![t] = l + 1] /\ pkey'[t] = m /\ ptr'[t] = n1 /\ pc' = pc
       /\ Base(t)' = l /\ total' = total /\ parray' = parray /\ ppos' = ppos /\ key' = key
       /\ root_level' = root_level /\ tree_root' = tree_root /\ first_leaf' = first_leaf
       /\ leaf' = leaf /\ op' = op
  <2>1. (l + 1) - 1 = l
    BY <1>3
  <2> QED
    BY <1>1, <1>2, <1>n, <2>1 DEF Base, CallTypes, path, call, tree
<1>h. PICK hi1, lvl1, lo1, cnt1, end1, own1 :
        /\ hi1 = [sh.hi EXCEPT ![p] = m, ![n1] = sh.hi[p]]
        /\ lvl1 = [sh.lvl EXCEPT ![n1] = l]
        /\ lo1 = [sh.lo EXCEPT ![n1] = m]
        /\ cnt1 = [sh.cnt EXCEPT ![p] = L, ![n1] = R]
        /\ end1 = [sh.end EXCEPT ![c] = c, ![p] = n1, ![n1] = n1]
        /\ own1 = [sh.own EXCEPT ![c] = NoThread, ![r] = NoThread, ![n1] = t]
  OBVIOUS
<1>g. PICK sh1 : sh1 = Shape(lvl1, lo1, hi1, cnt1, end1, own1, sh.top)
  OBVIOUS
<1>17. sh1 \in ShapeType
  <2>1. /\ sh.lvl \in [Addr -> 0 .. MaxLevel] /\ sh.lo \in [Addr -> Int]
        /\ sh.hi \in [Addr -> Int] /\ sh.cnt \in [BNodes -> 0 .. NON_LEAF_KEY_NUM]
        /\ sh.end \in [Addr -> Addr] /\ sh.own \in [Addr -> Threads \cup {NoThread}]
        /\ sh.top \in [Threads -> 0 .. MaxLevel] /\ l \in 0 .. MaxLevel
    BY <1>3, ShapeTypes, Sizes DEF IInv
  <2>2. /\ lvl1 \in [Addr -> 0 .. MaxLevel] /\ lo1 \in [Addr -> Int]
        /\ hi1 \in [Addr -> Int] /\ end1 \in [Addr -> Addr]
        /\ cnt1 \in [BNodes -> 0 .. NON_LEAF_KEY_NUM]
        /\ own1 \in [Addr -> Threads \cup {NoThread}]
    BY <1>4, <1>6, <1>7, <1>9, <1>10, <1>14, <1>h, <2>1
  <2> QED
    BY <1>g, <2>1, <2>2, ShapeFields
<1>18. /\ sh1.top = sh.top
       /\ \A a \in Taken : /\ sh1.lvl[a] = sh.lvl[a] /\ sh1.lo[a] = sh.lo[a]
                           /\ a # p => sh1.hi[a] = sh.hi[a]
                           /\ a # p /\ a # c => sh1.end[a] = sh.end[a]
                           /\ a # c /\ a # r => sh1.own[a] = sh.own[a]
       /\ \A q \in TakenNodes : q # p => sh1.cnt[q] = sh.cnt[q]
       /\ sh1.hi[p] = m /\ sh1.lo[n1] = m /\ sh1.hi[n1] = sh.hi[p] /\ sh1.lvl[n1] = l
       /\ sh1.cnt[p] = L /\ sh1.cnt[n1] = R
       /\ sh1.end[c] = c /\ sh1.end[p] = n1 /\ sh1.end[n1] = n1
       /\ sh1.own[c] = NoThread /\ sh1.own[r] = NoThread /\ sh1.own[n1] = t
  <2>1. /\ sh1.lvl = lvl1 /\ sh1.lo = lo1 /\ sh1.hi = hi1 /\ sh1.cnt = cnt1
        /\ sh1.end = end1 /\ sh1.own = own1 /\ sh1.top = sh.top
    BY <1>g, ShapeFields
  <2>2. /\ sh.lvl \in [Addr -> 0 .. MaxLevel] /\ sh.lo \in [Addr -> Int]
        /\ sh.hi \in [Addr -> Int] /\ sh.end \in [Addr -> Addr]
        /\ sh.cnt \in [BNodes -> 0 .. NON_LEAF_KEY_NUM]
        /\ sh.own \in [Addr -> Threads \cup {NoThread}]
    BY ShapeTypes DEF IInv
  <2>3. c \in Addr /\ r \in Addr /\ p \in Addr /\ n1 \in Addr /\ n1 \in BNodes /\ p \in BNodes
    BY <1>3, <1>4, <1>7, <1>13, <1>14
  <2>4. \A a \in Taken : a # n1 /\ a \in Addr
    BY <1>7, <1>14
  <2>5. \A q \in TakenNodes : q # n1 /\ q \in BNodes
    BY <1>7, <1>14
  <2>6. /\ sh1.hi[p] = m /\ sh1.lo[n1] = m /\ sh1.hi[n1] = sh.hi[p] /\ sh1.lvl[n1] = l
        /\ sh1.cnt[p] = L /\ sh1.cnt[n1] = R
        /\ sh1.end[c] = c /\ sh1.end[p] = n1 /\ sh1.end[n1] = n1
        /\ sh1.own[c] = NoThread /\ sh1.own[r] = NoThread /\ sh1.own[n1] = t
    BY <1>4, <1>14, <1>h, <2>1, <2>2, <2>3
  <2>7. \A a \in Taken : /\ sh1.lvl[a] = sh.lvl[a] /\ sh1.lo[a] = sh.lo[a]
                         /\ a # p => sh1.hi[a] = sh.hi[a]
                         /\ a # p /\ a # c => sh1.end[a] = sh.end[a]
                         /\ a # c /\ a # r => sh1.own[a] = sh.own[a]
    BY <1>h, <2>1, <2>2, <2>4
  <2>8. \A q \in TakenNodes : q # p => sh1.cnt[q] = sh.cnt[q]
    BY <1>h, <2>1, <2>2, <2>5
  <2> QED
    BY <2>1, <2>6, <2>7, <2>8
<1>19. SplitOff(sh, sh1, p, n1, m, c)
  BY <1>3, <1>10, <1>14, <1>18 DEF SplitOff
<1>20. CallTypes'
  <2>1. lev' \in [Threads -> 0 .. MaxLevel]
    <3>1. l + 1 \in 0 .. MaxLevel /\ lev \in [Threads -> 0 .. MaxLevel]
      BY <1>1, <1>2, <1>3, Sizes DEF CallTypes
    <3> QED
      BY <1>16, <3>1
  <2> QED
    BY <1>1, <1>2, <1>10, <1>13, <1>n, <2>1 DEF CallTypes, call, path
<1>21. TreeTypes'
  BY <1>1, <1>2, <1>13, <1>14, <1>15, <1>16 DEF TreeTypes
<1>22. LockTypes'
  BY <1>1, <1>2, <1>16 DEF LockTypes
<1>23. TypeOK' /\ LocalTypes'
  BY <1>20, <1>21, <1>22, TypesAfter
<1>24. \A u \in Threads : u # t => SameLocals(sh, sh1, u)
  BY <1>1, <1>2, <1>18, <1>n DEF SameLocals, CallTypes, call, path
<1>25. Growing' <=> Growing
  BY <1>16 DEF Growing
<1>26. Frame(sh, sh1, t) /\ SameRoot
  <2>1. \A a \in Taken : a # c /\ a # r /\ a # p => Keeps(sh, sh1, a)
    <3>1. \A a \in Taken : (a \in BNodes => a \in TakenNodes) /\ a # n1 /\ a \in Taken'
      BY <1>14, TakenTypes, Addresses DEF IInv, Taken
    <3> QED
      BY <1>7, <1>14, <1>15, <1>16, <1>18, <3>1 DEF Keeps
  <2> QED
    BY <1>3, <1>4, <1>14, <1>16, <1>18, <1>24, <1>25, <2>1 DEF Frame, SameRoot
<1>27. \A u \in Threads : u # t => ThreadOK(sh1, u)'
  BY <1>26, OthersStay
<1>28. \A a \in Taken : a # c => sh1.hi[sh1.end[a]] = sh.hi[sh.end[a]]
  <2>1. sh.own[p] = t /\ p # ptr[t]
    BY <1>3, <1>4, <1>v
  <2> QED
    BY <1>19, <2>1, SplitOuter
<1>29. \A a \in Taken : sh1.hi[sh1.end[a]] = she.hi[she.end[a]]
  <2>1. she.hi = sh.hi /\ she.end = [sh.end EXCEPT ![c] = c]
    BY <1>e, ShapeFields DEF JoinEnd
  <2>2. sh.end \in [Addr -> Addr]
    BY ShapeTypes DEF IInv
  <2>3. she.end[c] = c /\ \A a \in Taken : a # c => she.end[a] = sh.end[a]
    BY <1>4, <1>7, <2>1, <2>2
  <2>4. sh1.end[c] = c /\ sh1.hi[c] = sh.hi[c]
    BY <1>4, <1>18
  <2> QED
    BY <1>28, <2>1, <2>3, <2>4
<1>30. /\ \A a \in Taken : a \in Taken' /\ sh1.lvl[a] = she.lvl[a] /\ sh1.lo[a] = she.lo[a]
       /\ \A a \in Taken : a \in Taken' /\ sh1.lvl[a] = sh.lvl[a] /\ sh1.lo[a] = sh.lo[a]
  <2>1. she.lvl = sh.lvl /\ she.lo = sh.lo
    BY <1>e, ShapeFields DEF JoinEnd
  <2> QED
    BY <1>14, <1>18, <2>1
<1>31. TreeFits(sh1)'
  <2>1. TreeFits(sh)
    BY DEF IInv
  <2>2. Ranges(sh1)'
    BY <1>19, SplitRanges
  <2>3. Levels(sh1)'
    <3>1. \A a \in TakenLeaves' : sh1.lvl[a] = 0
      BY <1>7, <1>14, <1>18, <2>1 DEF TreeFits, Levels
    <3>2. \A q \in TakenNodes' : 1 =< sh1.lvl[q]
      BY <1>3, <1>7, <1>14, <1>18, <2>1 DEF TreeFits, Levels
    <3>3. \A a \in Taken' : sh1.lvl[a] =< root_level'
      BY <1>3, <1>14, <1>16, <1>18, <2>1 DEF TreeFits, Levels
    <3>4. \A a \in Taken' : sh1.end[a] \in Taken' /\ sh1.lvl[sh1.end[a]] = sh1.lvl[a]
      <4> SUFFICES ASSUME NEW a \in Taken' PROVE sh1.end[a] \in Taken' /\ sh1.lvl[sh1.end[a]] = sh1.lvl[a]
        OBVIOUS
      <4>1. CASE a = p \/ a = n1 \/ a = c
        BY <1>3, <1>4, <1>14, <1>18, <4>1
      <4>2. CASE a # p /\ a # n1 /\ a # c
        <5>1. a \in Taken /\ sh1.end[a] = sh.end[a] /\ sh.end[a] \in Taken
              /\ sh.lvl[sh.end[a]] = sh.lvl[a]
          BY <1>14, <1>18, <2>1, <4>2 DEF TreeFits, Levels
        <5> QED
          BY <1>14, <1>18, <5>1
      <4> QED
        BY <4>1, <4>2
    <3> QED
      BY <3>1, <3>2, <3>3, <3>4 DEF Levels
  <2>4. Root(sh1)'
    <3>1. tree_root \in Taken /\ first_leaf \in TakenLeaves
      BY <2>1 DEF TreeFits, Root
    <3>2. sh1.hi[sh1.end[tree_root]] = sh.hi[sh.end[tree_root]]
      BY <1>4, <1>28, <3>1
    <3>3. sh1.lvl[tree_root] = sh.lvl[tree_root] /\ sh1.lo[tree_root] = sh.lo[tree_root]
          /\ sh1.lo[first_leaf] = sh.lo[first_leaf] /\ tree_root \in Taken' /\ first_leaf \in TakenLeaves'
      BY <1>7, <1>14, <1>18, <3>1
    <3> QED
      BY <1>16, <1>25, <2>1, <3>2, <3>3 DEF TreeFits, Root
  <2>5. \A a \in TakenLeaves' : LeafFits(sh1, a)'
    <3>1. \A a \in TakenLeaves : /\ sh1.lo[a] = sh.lo[a] /\ sh1.hi[a] = sh.hi[a] /\ a # n1
                                 /\ sh1.lo[leaf[a].next] = sh.lo[leaf[a].next] \/ leaf[a].next = NULL
      <4> SUFFICES ASSUME NEW a \in TakenLeaves
                   PROVE /\ sh1.lo[a] = sh.lo[a] /\ sh1.hi[a] = sh.hi[a] /\ a # n1
                         /\ sh1.lo[leaf[a].next] = sh.lo[leaf[a].next] \/ leaf[a].next = NULL
        OBVIOUS
      <4>1. a \in Taken /\ a \in Leaves /\ a # p
        BY <1>3, <1>7
      <4>2. leaf[a].next # NULL => leaf[a].next \in Taken
        BY <1>7, <2>1 DEF TreeFits, LeafFits
      <4> QED
        BY <1>14, <1>18, <4>1, <4>2
    <3> QED
      BY <1>14, <1>16, <2>1, <3>1 DEF TreeFits, LeafFits
  <2>6. NodeFits(sh1, p)'
    <3>1. /\ bnode'[p].k = KL /\ bnode'[p].ch = CL /\ sh1.cnt[p] = L
          /\ sh1.lo[p] = sh.lo[p] /\ sh1.hi[p] = m /\ sh1.lvl[p] = l
      BY <1>3, <1>15, <1>18
    <3>2. EntriesFit(she, KL, CL, L, sh.lo[p], m, l)
      BY <1>11
    <3>3. SameNodes(she, sh1)
      BY <1>29, <1>30 DEF SameNodes
    <3> QED
      BY <3>1, <3>2, <3>3, EntriesMove
  <2>7. NodeFits(sh1, n1)'
    <3>1. /\ bnode'[n1].k = KR /\ bnode'[n1].ch = CR /\ sh1.cnt[n1] = R
          /\ sh1.lo[n1] = m /\ sh1.hi[n1] = sh.hi[p] /\ sh1.lvl[n1] = l
      BY <1>15, <1>18
    <3>2. EntriesFit(she, KR, CR, R, m, sh.hi[p], l)
      BY <1>12
    <3>3. SameNodes(she, sh1)
      BY <1>29, <1>30 DEF SameNodes
    <3> QED
      BY <3>1, <3>2, <3>3, EntriesMove
  <2>8. ASSUME NEW q \in TakenNodes, q # p PROVE NodeFits(sh1, q)'
    <3>1. q \in BNodes /\ q # n1 /\ q \in Taken
      BY <1>7, <1>14
    <3>2. /\ bnode'[q] = bnode[q] /\ sh1.cnt[q] = sh.cnt[q]
          /\ sh1.lo[q] = sh.lo[q] /\ sh1.hi[q] = sh.hi[q] /\ sh1.lvl[q] = sh.lvl[q]
      BY <1>15, <1>18, <2>8, <3>1
    <3>3. ASSUME NEW i \in 0 .. sh.cnt[q]
          PROVE sh1.hi[sh1.end[bnode[q].ch[i]]] = sh.hi[sh.end[bnode[q].ch[i]]]
      <4>1. bnode[q].ch[i] \in Taken
        BY ChildInside
      <4>2. bnode[q].ch[i] # c
        BY <1>3, <2>8, UniqueParent
      <4> QED
        BY <1>28, <4>1, <4>2
    <3>4. NodeStays(sh, sh1, q)
      BY <1>30, <3>2, <3>3 DEF NodeStays
    <3> QED
      BY <3>4, NodeFitsKept
  <2> QED
    BY <1>14, <2>2, <2>3, <2>4, <2>5, <2>6, <2>7, <2>8 DEF TreeFits
<1>32. \A a : OwnedBy(sh, a, t) <=> a = c \/ a = r \/ \E i \in l .. sh.top[t] : a = parray[t][i]
  <2>1. \A a : OwnedBy(sh, a, t) <=> (\E i \in (l - 1) .. sh.top[t] : a = parray[t][i]) \/ a = r
    BY <1>2, <1>3, <1>v DEF OwnedBy, Splitting, Climbing
  <2>2. \A i : i \in (l - 1) .. sh.top[t] <=> i = l - 1 \/ i \in l .. sh.top[t]
    BY <1>3, <1>5
  <2> QED
    BY <1>v, <2>1, <2>2
<1>33. \A a : OwnedBy(sh1, a, t)' <=> a = n1 \/ \E i \in l .. sh.top[t] : a = parray[t][i]
  <2>1. pc'[t] = "up"
    BY <1>2, <1>16
  <2> QED
    BY <1>16, <1>18, <2>1 DEF OwnedBy, Splitting, Climbing
<1>34. \A i \in l .. sh.top[t] : /\ parray[t][i] \in Taken /\ parray[t][i] # c /\ parray[t][i] # r
                                  /\ parray[t][i] # n1
  <2> SUFFICES ASSUME NEW i \in l .. sh.top[t]
               PROVE  /\ parray[t][i] \in Taken /\ parray[t][i] # c /\ parray[t][i] # r
                      /\ parray[t][i] # n1
    OBVIOUS
  <2>1. i \in Base(t) .. sh.top[t] /\ i # l - 1
    BY <1>3, <1>5
  <2>2. parray[t][i] \in Taken /\ sh.lvl[parray[t][i]] = i
    BY <1>2, <2>1, PathOwned DEF Splitting, Climbing
  <2> QED
    BY <1>4, <1>14, <2>1, <2>2
<1>35. p = parray[t][l] /\ l \in l .. sh.top[t]
  BY <1>3, <1>5, <1>v DEF parent
<1>36. /\ \A a : OpenFor(a, t) <=> a = r \/ a = c
       /\ \A a : OpenFor(a, t)' <=> a = n1 \/ (st = "more" /\ a = p)
  <2>1. st = "more" <=> l + 1 =< total[t]
    BY <1>3, <1>5, <1>z
  <2>2. lev[t] = l /\ lev'[t] = l + 1 /\ pc[t] = "up" /\ pc'[t] = "up" /\ (l + 1) - 1 = l
    BY <1>2, <1>3, <1>16, <1>v
  <2>3. \A a : OpenFor(a, t) <=> a = r \/ a = c
    BY <1>5, <1>v, <2>2 DEF OpenFor, Climbing
  <2>4. \A a : OpenFor(a, t)' <=> a = n1 \/ (l + 1 =< total[t] /\ a = parray[t][l])
    BY <1>16, <2>2 DEF OpenFor, Climbing
  <2> QED
    BY <1>35, <2>1, <2>3, <2>4
<1>37. Owners(sh1)'
  <2>1. /\ \A a \in Taken : sh.own[a] = t <=> OwnedBy(sh, a, t)
        /\ \A a \in Taken : Locked(a) <=> sh.own[a] \in Threads /\ ~OpenFor(a, sh.own[a])
        /\ \A a \in Addr \ Taken : ~Locked(a)
        /\ \A q \in TakenNodes : sh.cnt[q] # bnode[q].num =>
              sh.own[q] \in Threads /\ pc[sh.own[q]] = "count"
        /\ \A a \in Taken : sh.end[a] # a =>
              /\ sh.own[a] \in Threads /\ pc[sh.own[a]] \in Climbing
              /\ a = parray[sh.own[a]][Base(sh.own[a])]
    BY DEF IInv, Owners
  <2>2. \A a \in Addr : a # p /\ a # n1 => (Locked(a)' <=> Locked(a))
    BY <1>15, <1>16 DEF Locked, Addr
  <2>3. (Locked(p)' <=> st = "last") /\ ~Locked(n1)' /\ st \in {"last", "more"}
    BY <1>3, <1>14, <1>15, <1>z DEF Locked
  <2>4. \A u \in Threads : u # NoThread
    OBVIOUS
  <2>5. \A a \in Taken' : sh1.own[a] \in {t, NoThread} \/ (a \in Taken /\ sh1.own[a] = sh.own[a])
    BY <1>14, <1>18
  <2>6. \A a \in Taken' : sh1.own[a] \in Threads \cup {NoThread}
    BY <1>7, <1>14, <1>17, ShapeTypes
  <2>7. \A a \in Taken' : sh1.own[a] = t <=> OwnedBy(sh1, a, t)'
    <3> SUFFICES ASSUME NEW a \in Taken' PROVE sh1.own[a] = t <=> OwnedBy(sh1, a, t)'
      OBVIOUS
    <3>1. CASE a = n1
      BY <1>18, <1>33, <3>1
    <3>2. CASE a = c \/ a = r
      BY <1>14, <1>18, <1>33, <1>34, <2>4, <3>2
    <3>3. CASE a # n1 /\ a # c /\ a # r
      <4>1. a \in Taken /\ sh1.own[a] = sh.own[a]
        BY <1>14, <1>18, <3>3
      <4> QED
        BY <1>32, <1>33, <2>1, <3>3, <4>1
    <3> QED
      BY <3>1, <3>2, <3>3
  <2>8. \A a \in Taken' : sh1.own[a] = t => (Locked(a)' <=> ~OpenFor(a, t)')
    <3> SUFFICES ASSUME NEW a \in Taken', sh1.own[a] = t PROVE Locked(a)' <=> ~OpenFor(a, t)'
      OBVIOUS
    <3>1. CASE a = n1 \/ a = p
      BY <1>14, <1>36, <2>3, <3>1
    <3>2. CASE a # n1 /\ a # p
      <4>1. a # c /\ a # r /\ a \in Taken /\ a \in Addr /\ sh.own[a] = t
        BY <1>7, <1>14, <1>18, <2>4, <3>2
      <4> QED
        BY <1>36, <2>1, <2>2, <3>2, <4>1
    <3> QED
      BY <3>1, <3>2
  <2>9. \A a \in Taken' : sh1.own[a] = NoThread => ~Locked(a)'
    <3> SUFFICES ASSUME NEW a \in Taken', sh1.own[a] = NoThread PROVE ~Locked(a)'
      OBVIOUS
    <3>1. a # n1 /\ a # p /\ a \in Taken /\ a \in Addr
      BY <1>3, <1>4, <1>7, <1>14, <1>18, <2>4
    <3>2. CASE a = c \/ a = r
      BY <1>4, <1>36, <2>1, <2>2, <3>1, <3>2
    <3>3. CASE a # c /\ a # r
      BY <1>18, <2>1, <2>2, <2>4, <3>1, <3>3
    <3> QED
      BY <3>2, <3>3
  <2>10. \A a \in Addr \ Taken' : ~Locked(a)'
    BY <1>3, <1>14, <2>1, <2>2
  <2>11. \A q \in TakenNodes' : sh1.own[q] \in {t, NoThread} /\ sh1.cnt[q] # bnode'[q].num =>
            sh1.own[q] = t /\ pc'[t] = "count"
    <3> SUFFICES ASSUME NEW q \in TakenNodes', sh1.own[q] \in {t, NoThread},
                        sh1.cnt[q] # bnode'[q].num
                 PROVE  FALSE
      OBVIOUS
    <3>1. q # p /\ q # n1 /\ q \in TakenNodes
      BY <1>14, <1>15, <1>18
    <3>2. sh.cnt[q] # bnode[q].num
      BY <1>7, <1>15, <1>18, <3>1
    <3>3. sh.own[q] \in Threads /\ pc[sh.own[q]] = "count" /\ q \in Taken
      BY <1>7, <2>1, <3>1, <3>2
    <3>4. q # c /\ q # r /\ sh.own[q] # t
      BY <1>2, <1>4, <3>3
    <3> QED
      BY <1>18, <2>4, <3>3, <3>4
  <2>12. \A a \in Taken' : sh1.own[a] \in {t, NoThread} /\ sh1.end[a] # a =>
            sh1.own[a] = t /\ pc'[t] \in Climbing /\ a = parray'[t][Base(t)']
    <3> SUFFICES ASSUME NEW a \in Taken', sh1.own[a] \in {t, NoThread}, sh1.end[a] # a
                 PROVE  sh1.own[a] = t /\ pc'[t] \in Climbing /\ a = parray'[t][Base(t)']
      OBVIOUS
    <3>1. a # c /\ a # n1 /\ a \in Taken
      BY <1>14, <1>18
    <3>2. CASE a = p
      BY <1>2, <1>3, <1>4, <1>16, <1>18, <1>35, <3>2 DEF Climbing
    <3>3. CASE a # p
      <4>1. sh.end[a] # a
        BY <1>18, <3>1, <3>3
      <4>2. sh.own[a] \in Threads /\ a = parray[sh.own[a]][Base(sh.own[a])]
        BY <2>1, <3>1, <4>1
      <4>3. a # r /\ sh.own[a] # t
        BY <1>3, <1>4, <1>v, <3>1, <4>1, <4>2
      <4> QED
        BY <1>18, <2>4, <3>1, <4>2, <4>3
    <3> QED
      BY <3>2, <3>3
  <2>13. TakenNodes' \subseteq BNodes /\ TakenNodes' \subseteq Taken'
    BY <1>7, <1>13, <1>14
  <2> QED
    BY <1>16, <1>26, <2>5, <2>6, <2>7, <2>8, <2>9, <2>10, <2>11, <2>12, <2>13, OwnersStep
<1>38. ThreadOK(sh1, t)'
  <2>1. pc'[t] = "up" /\ lev'[t] = l + 1 /\ pc'[t] \in Splitting /\ pc'[t] \in Climbing
    BY <1>2, <1>16 DEF Splitting, Climbing
  <2>2. SearchOK(sh1, t)' /\ GrowOK(sh1, t)' /\ LeafCallOK(sh1, t)'
    BY <2>1 DEF SearchOK, GrowOK, LeafCallOK
  <2>3. /\ \A i \in l .. sh.top[t] : parray[t][i] \in Taken /\ parray[t][i] \in Taken'
        /\ l \in 0 .. sh.top[t] /\ sh.lvl[p] = l /\ sh1.lvl[p] = l
    BY <1>3, <1>5, <1>14, <1>18, <1>34
  <2>4. PathOK(sh1, t)'
    <3>1. /\ \A i \in (l - 1) + 1 .. sh.top[t] : Link(sh, t, i)
          /\ \A i \in (l - 1) + 1 .. sh.top[t] - 1 : Full(parray[t][i])
          /\ sh.top[t] = l - 1 \/ Full(parray[t][sh.top[t]]) => sh.top[t] = root_level
      BY <1>2, <1>3 DEF PathOK, IInv, ThreadOK, Splitting, Climbing
    <3>2. ASSUME NEW i \in l + 1 .. sh.top[t]
          PROVE  /\ Link(sh, t, i) /\ parray[t][i] # p /\ parray[t][i] # n1
                 /\ parray[t][i] \in TakenNodes /\ bnode'[parray[t][i]] = bnode[parray[t][i]]
                 /\ i \in l .. sh.top[t]
      <4>1. i \in (l - 1) + 1 .. sh.top[t] /\ i \in l .. sh.top[t] /\ i # l
        BY <1>3, <1>5
      <4>2. Link(sh, t, i)
        BY <3>1, <4>1
      <4>3. parray[t][i] \in TakenNodes /\ sh.lvl[parray[t][i]] = i
        BY <4>2 DEF Link
      <4> QED
        BY <1>3, <1>7, <1>14, <1>15, <4>1, <4>2, <4>3
    <3>3. ASSUME NEW i \in l + 1 .. sh.top[t] PROVE Link(sh1, t, i)'
      BY <1>7, <1>14, <1>16, <1>18, <3>2 DEF Link
    <3>4. ASSUME NEW i \in l + 1 .. sh.top[t] - 1 PROVE Full(parray[t][i])'
      <4>1. i \in l + 1 .. sh.top[t] /\ i \in (l - 1) + 1 .. sh.top[t] - 1
        BY <1>3, <1>5
      <4> QED
        BY <1>16, <3>1, <3>2, <4>1 DEF Full
    <3>5. sh.top[t] = l \/ Full(parray[t][sh.top[t]])' => sh.top[t] = root_level
      <4>1. CASE sh.top[t] = l
        BY <1>5, <4>1
      <4>2. CASE sh.top[t] # l
        <5>1. sh.top[t] \in l + 1 .. sh.top[t]
          BY <1>3, <1>5, <4>2
        <5>2. bnode'[parray[t][sh.top[t]]] = bnode[parray[t][sh.top[t]]]
          BY <3>2, <5>1
        <5> QED
          BY <1>16, <3>1, <4>2, <5>2 DEF Full
      <4> QED
        BY <4>1, <4>2
    <3>6. /\ l \in 0 .. sh.top[t] /\ sh.top[t] =< root_level
          /\ parray[t][l] \in Taken' /\ sh1.lvl[parray[t][l]] = l
          /\ sh.top[t] = root_level => parray[t][sh.top[t]] = tree_root
      BY <1>3, <1>5, <1>35, <2>3
    <3>7. \A i : Full(parray[t][i])' <=> bnode'[parray[t][i]].num = NON_LEAF_KEY_NUM
      BY <1>16 DEF Full
    <3> QED
      BY <1>16, <1>18, <3>3, <3>4, <3>5, <3>6, <3>7 DEF PathOK, Full
  <2>5. SplitOK(sh1, t)'
    <3>1. /\ n1 \in Taken' /\ n1 # p /\ sh1.lvl[n1] = sh1.lvl[p] /\ m \in Keys /\ m = sh1.hi[p]
          /\ m = sh1.lo[n1] /\ sh1.end[p] = n1
      BY <1>10, <1>14, <1>18, <2>3
    <3>2. /\ l + 1 \in 1 .. MaxLevel /\ l + 1 =< total[t] + 1
          /\ sh.top[t] =< total[t] /\ total[t] =< root_level
          /\ total[t] = root_level \/ sh.top[t] < total[t]
      BY <1>2, <1>3, <1>5, Sizes
    <3> QED
      BY <1>16, <1>18, <1>35, <2>1, <3>1, <3>2 DEF SplitOK
  <2> QED
    BY <2>2, <2>4, <2>5 DEF ThreadOK
<1>39. IInv(sh1)'
  BY <1>17, <1>23, <1>27, <1>31, <1>37, <1>38 DEF IInv
<1> QED
  BY <1>39

-----------------------------------------------------------------------------
(***************************************************************************)
(* A new root over the two halves of the old one keeps the invariant.      *)
(***************************************************************************)
\* A thread that has split the root.
LEMMA RootSplitKnows ==
  ASSUME NEW sh, IInv(sh), NEW t \in Threads, pc[t] = "up", lev[t] > total[t],
         NEW l, l = root_level, NEW r, r = ptr[t], NEW c, c = tree_root
  PROVE  /\ l \in Int /\ l \in 0 .. MaxLevel /\ lev[t] = l + 1 /\ l + 1 \in 1 .. MaxLevel
         /\ total[t] = l /\ Base(t) = l /\ sh.top[t] = l /\ parray[t][l] = c
         /\ c \in Taken /\ sh.own[c] = t /\ sh.lvl[c] = l /\ sh.end[c] = r
         /\ r \in Taken /\ sh.own[r] = t /\ sh.lvl[r] = l /\ sh.end[r] = r /\ c # r
         /\ sh.lo[c] = Low /\ sh.hi[r] = High
         /\ pkey[t] \in Keys /\ pkey[t] = sh.hi[c] /\ pkey[t] = sh.lo[r]
         /\ pkey[t] \in Int /\ Low < pkey[t] /\ pkey[t] < High
         /\ ~Growing
<1>1. pc[t] \in Climbing /\ pc[t] \in Splitting
  BY DEF Climbing, Splitting
<1>2. PathOK(sh, t) /\ SplitOK(sh, t)
  BY DEF IInv, ThreadOK
<1>3. /\ lev[t] \in 1 .. MaxLevel /\ lev[t] =< total[t] + 1
      /\ sh.top[t] =< total[t] /\ total[t] =< root_level
      /\ total[t] = root_level \/ sh.top[t] < total[t]
  BY <1>2 DEF SplitOK
<1>4. root_level \in Int /\ total[t] \in Int /\ sh.top[t] \in Int /\ root_level \in 0 .. MaxLevel
  <2>1. root_level \in 0 .. MaxLevel /\ total[t] \in 0 .. MaxLevel /\ sh.top[t] \in 0 .. MaxLevel
    BY ThreadTypes, ShapeTypes DEF IInv
  <2> QED
    BY <2>1, Sizes
<1>5. Base(t) = lev[t] - 1 /\ lev[t] = total[t] + 1 /\ Base(t) = total[t]
  BY <1>3, <1>4 DEF Base
<1>6. /\ Base(t) \in 0 .. sh.top[t]
      /\ sh.top[t] = root_level => parray[t][sh.top[t]] = tree_root
  BY <1>1, <1>2 DEF PathOK
<1>7. total[t] = l /\ Base(t) = l /\ sh.top[t] = l /\ parray[t][l] = c
  BY <1>3, <1>4, <1>5, <1>6
<1>8. /\ c \in Taken /\ sh.own[c] = t /\ sh.lvl[c] = l /\ sh.end[c] = r
      /\ r \in Taken /\ sh.own[r] = t /\ sh.lvl[r] = l /\ sh.end[r] = r /\ c # r
      /\ pkey[t] \in Keys /\ pkey[t] = sh.hi[c] /\ pkey[t] = sh.lo[r]
  BY <1>1, <1>7, HangingNode
<1>9. ~Growing
  <2>1. Growing => pc[sh.own[tree_root]] = "growRoot"
    BY GrowerHolds
  <2> QED
    BY <1>8, <2>1
<1>10. sh.lo[c] = Low /\ sh.hi[r] = High
  BY <1>8, <1>9 DEF IInv, TreeFits, Root
<1>11. pkey[t] \in Int /\ Low < pkey[t] /\ pkey[t] < High
  BY <1>8, <1>10, Numbers, ZenonT(60)
<1> QED
  BY <1>3, <1>4, <1>5, <1>7, <1>8, <1>9, <1>10, <1>11

\* A search that has not come past the old root has read it, and is out of date.
LEMMA SearchOutdated ==
  ASSUME NEW sh, IInv(sh), NEW sh1, NEW t \in Threads, NEW u \in Threads, u # t,
         SameLocals(sh, sh1, u), ~Growing, Growing',
         tree_root' = tree_root, root_level' = root_level + 1,
         sh.own[tree_root] = t
  PROVE  SearchOK(sh1, u)'
<1>1. SearchOK(sh, u)
  BY DEF IInv, ThreadOK
<1>2. root_level \in Int
  BY ThreadTypes, Sizes DEF IInv
<1>3. pc'[u] = pc[u] /\ cur'[u] = cur[u] /\ lev'[u] = lev[u]
  BY DEF SameLocals
<1>4. pc[u] = "readRoot" => lev[u] + 1 = root_level'
  BY <1>1, <1>2 DEF SearchOK
<1>5. ASSUME pc[u] = "descend" PROVE cur[u] = tree_root /\ lev[u] = root_level' - 1
  <2>1. Found(sh, u)
    BY <1>1, <1>5 DEF SearchOK, Outdated
  <2>2. lev[u] \in Int
    BY ThreadTypes, Sizes DEF IInv
  <2>3. /\ lev[u] =< root_level
        /\ lev[u] = root_level => cur[u] = tree_root
        /\ lev[u] < root_level => parray[u][root_level] = tree_root
        /\ \A i \in lev[u] + 1 .. root_level : Passed(sh, u, i)
    BY <2>1 DEF Found
  <2>4. CASE lev[u] < root_level
    <3>1. root_level \in lev[u] + 1 .. root_level
      BY <1>2, <2>2, <2>4
    <3>2. Passed(sh, u, root_level)
      BY <2>3, <3>1
    <3>3. sh.own[tree_root] = NoThread
      BY <2>3, <2>4, <3>2 DEF Passed
    <3> QED
      BY <3>3
  <2> QED
    BY <1>2, <2>2, <2>3, <2>4
<1>6. pc[u] = "readLevel" => cur[u] = tree_root
  BY <1>1 DEF SearchOK
<1> QED
  BY <1>3, <1>4, <1>5, <1>6 DEF SearchOK, Outdated

\* A new root is made of the two halves of the old one.
LEMMA GrowLevelKeeps ==
  ASSUME NEW sh, IInv(sh), NEW t \in Threads, GrowLevel(t)
  PROVE  \E sh1 : IInv(sh1)'
<1>v. PICK l, r, c, x : l = root_level /\ r = ptr[t] /\ c = tree_root /\ x = pkey[t]
  OBVIOUS
<1>x. PICK K, C : /\ K = [EmptyNode.k EXCEPT ![1] = x]
                  /\ C = [EmptyNode.ch EXCEPT ![0] = c, ![1] = r]
  OBVIOUS
<1>z. PICK bn : bn = [lock |-> TRUE, num |-> 1, k |-> K, ch |-> C]
  OBVIOUS
<1>1. CallTypes /\ TreeTypes /\ LockTypes
  BY TypesSplit DEF IInv
<1>2. /\ pc[t] = "up" /\ lev[t] > total[t]
      /\ pc' = [pc EXCEPT ![t] = "growRoot"] /\ pc'[t] = "growRoot"
      /\ cur' = [cur EXCEPT ![t] = c] /\ root_level' = lev[t]
      /\ UNCHANGED <<tree_lock, tree_root, first_leaf, leaf, leafTop, leafFree, call, lev,
                     path, sib, pkey, total, ret>>
  BY <1>1, <1>v DEF GrowLevel, Goto, CallTypes
<1>n. PICK n1 \in BNodes :
        /\ AllocNode(t, n1) /\ bnode' = [bnode EXCEPT ![n1] = bn] /\ ptr' = [ptr EXCEPT ![t] = n1]
  BY <1>v, <1>x, <1>z DEF GrowLevel
<1>3. /\ l \in Int /\ l \in 0 .. MaxLevel /\ lev[t] = l + 1 /\ l + 1 \in 1 .. MaxLevel
      /\ total[t] = l /\ Base(t) = l /\ sh.top[t] = l /\ parray[t][l] = c
      /\ c \in Taken /\ sh.own[c] = t /\ sh.lvl[c] = l /\ sh.end[c] = r
      /\ r \in Taken /\ sh.own[r] = t /\ sh.lvl[r] = l /\ sh.end[r] = r /\ c # r
      /\ sh.lo[c] = Low /\ sh.hi[r] = High
      /\ x \in Keys /\ x = sh.hi[c] /\ x = sh.lo[r]
      /\ x \in Int /\ Low < x /\ x < High /\ ~Growing
  BY <1>2, <1>v, RootSplitKnows
<1>7. /\ TakenLeaves \subseteq Leaves /\ TakenNodes \subseteq BNodes /\ Taken \subseteq Addr
      /\ TakenNodes \subseteq Taken /\ TakenLeaves \subseteq Taken
  BY TakenTypes DEF IInv, Taken
<1>13. /\ nodeFree' = nodeFree /\ n1 = -(nodeTop + 1) /\ nodeTop' = nodeTop + 1 /\ n1 \in BNodes
  BY <1>1, <1>n DEF AllocNode, TreeTypes
<1>14. /\ n1 \notin Taken /\ n1 \in Addr /\ n1 # c /\ n1 # r /\ n1 \notin Leaves
       /\ TakenNodes' = TakenNodes \cup {n1} /\ TakenLeaves' = TakenLeaves
       /\ Taken' = Taken \cup {n1} /\ nodeTop' \in 0 .. MaxNode
  <2>1. nodeTop \in Nat /\ leafTop' = leafTop
    BY <1>1, <1>2, Sizes DEF TreeTypes
  <2>2. n1 \notin TakenNodes /\ n1 \notin Leaves /\ n1 \in Addr
    BY <1>13, <2>1, Addresses DEF TakenNodes, Addr
  <2>3. TakenNodes' = TakenNodes \cup {n1} /\ TakenLeaves' = TakenLeaves
    <3>1. \A i : i \in -(nodeTop + 1) .. -1 <=> i \in -nodeTop .. -1 \/ i = -(nodeTop + 1)
      BY <2>1
    <3> QED
      BY <1>13, <2>1, <3>1 DEF TakenNodes, TakenLeaves
  <2>4. nodeTop' \in 0 .. MaxNode
    BY <1>13, <2>1, Sizes DEF BNodes
  <2> QED
    BY <1>3, <1>7, <2>2, <2>3, <2>4 DEF Taken
<1>8. /\ K \in [1 .. NON_LEAF_KEY_NUM -> Keys \cup {NoKey}] /\ K[1] = x
      /\ C \in [0 .. NON_LEAF_KEY_NUM -> Leaves \cup BNodes \cup {NULL}]
      /\ C[0] = c /\ C[1] = r
  <2>1. /\ EmptyNode.k = [i \in 1 .. NON_LEAF_KEY_NUM |-> NoKey]
        /\ EmptyNode.ch = [i \in 0 .. NON_LEAF_KEY_NUM |-> NULL]
    BY DEF EmptyNode
  <2>2. 1 \in 1 .. NON_LEAF_KEY_NUM /\ 0 \in 0 .. NON_LEAF_KEY_NUM /\ 1 \in 0 .. NON_LEAF_KEY_NUM
    BY Sizes
  <2>3. c \in Leaves \cup BNodes \cup {NULL} /\ r \in Leaves \cup BNodes \cup {NULL}
    BY <1>3, <1>7 DEF Addr
  <2>4. EmptyNode.k \in [1 .. NON_LEAF_KEY_NUM -> Keys \cup {NoKey}]
    BY <2>1, Zenon
  <2>5. EmptyNode.ch \in [0 .. NON_LEAF_KEY_NUM -> Leaves \cup BNodes \cup {NULL}]
    BY <2>1, Zenon
  <2>6. K \in [1 .. NON_LEAF_KEY_NUM -> Keys \cup {NoKey}] /\ K[1] = x
    BY <1>3, <1>x, <2>2, <2>4
  <2>7. C \in [0 .. NON_LEAF_KEY_NUM -> Leaves \cup BNodes \cup {NULL}]
    BY <1>x, <2>2, <2>3, <2>5
  <2>8. C[0] = c /\ C[1] = r
    BY <1>x, <2>2, <2>5
  <2> QED
    BY <2>6, <2>7, <2>8
<1>15. /\ bnode' \in [BNodes -> NodeType]
       /\ bnode'[n1].k = K /\ bnode'[n1].ch = C /\ bnode'[n1].num = 1
       /\ bnode'[n1].lock = TRUE
       /\ \A q \in BNodes : q # n1 => bnode'[q] = bnode[q]
  <2>2. bn \in NodeType /\ bn.k = K /\ bn.ch = C /\ bn.num = 1 /\ bn.lock = TRUE
    <3>1. 1 \in 0 .. NON_LEAF_KEY_NUM
      BY Sizes
    <3> QED
      BY <1>8, <1>z, <3>1 DEF NodeType
  <2>3. bnode \in [BNodes -> NodeType]
    BY <1>1 DEF TreeTypes
  <2>5. bnode' \in [BNodes -> NodeType] /\ bnode'[n1] = bn
        /\ \A q \in BNodes : q # n1 => bnode'[q] = bnode[q]
    BY <1>n, <2>2, <2>3
  <2> QED
    BY <2>2, <2>5
<1>16. /\ ptr'[t] = n1 /\ cur'[t] = c /\ lev'[t] = l + 1 /\ root_level' = l + 1
       /\ tree_root' = c /\ tree_root' = tree_root /\ total' = total /\ parray' = parray
       /\ ppos' = ppos /\ key' = key /\ first_leaf' = first_leaf /\ leaf' = leaf
  BY <1>1, <1>2, <1>3, <1>n, <1>v DEF CallTypes, path, call
<1>h. PICK hi1, lvl1, lo1, cnt1, end1, own1 :
        /\ hi1 = [sh.hi EXCEPT ![n1] = High]
        /\ lvl1 = [sh.lvl EXCEPT ![n1] = l + 1]
        /\ lo1 = [sh.lo EXCEPT ![n1] = Low]
        /\ cnt1 = [sh.cnt EXCEPT ![n1] = 1]
        /\ end1 = [sh.end EXCEPT ![c] = c, ![n1] = n1]
        /\ own1 = [sh.own EXCEPT ![r] = NoThread, ![n1] = t]
  OBVIOUS
<1>g. PICK sh1 : sh1 = Shape(lvl1, lo1, hi1, cnt1, end1, own1, sh.top)
  OBVIOUS
<1>s. /\ sh.lvl \in [Addr -> 0 .. MaxLevel] /\ sh.lo \in [Addr -> Int]
      /\ sh.hi \in [Addr -> Int] /\ sh.cnt \in [BNodes -> 0 .. NON_LEAF_KEY_NUM]
      /\ sh.end \in [Addr -> Addr] /\ sh.own \in [Addr -> Threads \cup {NoThread}]
      /\ sh.top \in [Threads -> 0 .. MaxLevel]
  BY ShapeTypes DEF IInv
<1>17. sh1 \in ShapeType
  <2>1. l + 1 \in 0 .. MaxLevel /\ Low \in Int /\ High \in Int /\ 1 \in 0 .. NON_LEAF_KEY_NUM
    BY <1>3, Sizes DEF Low, High
  <2>2. /\ lvl1 \in [Addr -> 0 .. MaxLevel] /\ lo1 \in [Addr -> Int]
        /\ hi1 \in [Addr -> Int] /\ end1 \in [Addr -> Addr]
        /\ cnt1 \in [BNodes -> 0 .. NON_LEAF_KEY_NUM]
        /\ own1 \in [Addr -> Threads \cup {NoThread}]
    BY <1>3, <1>7, <1>14, <1>h, <1>s, <2>1
  <2> QED
    BY <1>g, <1>s, <2>2, ShapeFields
<1>18. /\ sh1.top = sh.top
       /\ \A a \in Taken : /\ sh1.lvl[a] = sh.lvl[a] /\ sh1.lo[a] = sh.lo[a]
                           /\ sh1.hi[a] = sh.hi[a]
                           /\ a # c => sh1.end[a] = sh.end[a]
                           /\ a # r => sh1.own[a] = sh.own[a]
       /\ \A q \in TakenNodes : sh1.cnt[q] = sh.cnt[q]
       /\ sh1.lo[n1] = Low /\ sh1.hi[n1] = High /\ sh1.lvl[n1] = l + 1 /\ sh1.cnt[n1] = 1
       /\ sh1.end[c] = c /\ sh1.end[n1] = n1 /\ sh1.own[r] = NoThread /\ sh1.own[n1] = t
  <2>1. /\ sh1.lvl = lvl1 /\ sh1.lo = lo1 /\ sh1.hi = hi1 /\ sh1.cnt = cnt1
        /\ sh1.end = end1 /\ sh1.own = own1 /\ sh1.top = sh.top
    BY <1>g, ShapeFields
  <2>3. c \in Addr /\ r \in Addr /\ n1 \in Addr /\ n1 \in BNodes
    BY <1>3, <1>7, <1>13, <1>14
  <2>4. \A a \in Taken : a # n1 /\ a \in Addr
    BY <1>7, <1>14
  <2>5. \A q \in TakenNodes : q # n1 /\ q \in BNodes
    BY <1>7, <1>14
  <2>6. /\ sh1.lo[n1] = Low /\ sh1.hi[n1] = High /\ sh1.lvl[n1] = l + 1 /\ sh1.cnt[n1] = 1
        /\ sh1.end[c] = c /\ sh1.end[n1] = n1 /\ sh1.own[r] = NoThread /\ sh1.own[n1] = t
    BY <1>14, <1>h, <1>s, <2>1, <2>3
  <2>7. \A a \in Taken : /\ sh1.lvl[a] = sh.lvl[a] /\ sh1.lo[a] = sh.lo[a]
                         /\ sh1.hi[a] = sh.hi[a]
                         /\ a # c => sh1.end[a] = sh.end[a]
                         /\ a # r => sh1.own[a] = sh.own[a]
    BY <1>h, <1>s, <2>1, <2>4
  <2>8. \A q \in TakenNodes : sh1.cnt[q] = sh.cnt[q]
    BY <1>h, <1>s, <2>1, <2>5
  <2> QED
    BY <2>1, <2>6, <2>7, <2>8
<1>20. CallTypes'
  <2>1. "growRoot" \in Stages
    BY DEF Stages
  <2>2. c \in Leaves \cup BNodes \cup {NULL} /\ n1 \in Leaves \cup BNodes \cup {NULL}
    BY <1>3, <1>7, <1>13 DEF Addr
  <2> QED
    BY <1>1, <1>2, <1>n, <2>1, <2>2 DEF CallTypes, call, path
<1>21. TreeTypes'
  <2>1. root_level' \in 0 .. MaxLevel
    BY <1>3, <1>16, Sizes
  <2> QED
    BY <1>1, <1>2, <1>13, <1>14, <1>15, <2>1 DEF TreeTypes
<1>22. LockTypes'
  BY <1>1, <1>2 DEF LockTypes, Part1, CallTypes
<1>23. TypeOK' /\ LocalTypes'
  BY <1>20, <1>21, <1>22, TypesAfter
<1>24. \A u \in Threads : u # t => SameLocals(sh, sh1, u)
  BY <1>1, <1>2, <1>18, <1>n DEF SameLocals, CallTypes, call, path
<1>25. Growing'
  BY <1>2 DEF Growing
<1>26. Frame(sh, sh1, t)
  <2>1. \A a \in Taken : a # c /\ a # r => Keeps(sh, sh1, a)
    <3>1. \A a \in Taken : (a \in BNodes => a \in TakenNodes) /\ a # n1 /\ a \in Taken'
      BY <1>14, TakenTypes, Addresses DEF IInv, Taken
    <3> QED
      BY <1>15, <1>16, <1>18, <3>1 DEF Keeps
  <2> QED
    BY <1>3, <1>14, <1>18, <1>24, <2>1 DEF Frame
<1>27. ASSUME NEW u \in Threads, u # t PROVE ThreadOK(sh1, u)'
  <2>1. tree_root \in Taken /\ sh.own[tree_root] = t
    BY <1>3, <1>v
  <2>2. pc[u] # "growRoot" /\ (pc[u] \in Splitting => sh.top[u] < root_level)
    BY <1>27, <2>1, OthersBelowRoot
  <2>3. pc[u] \in Splitting => RootAway(sh, u)
    BY <1>3, <1>16, <1>v, <2>2 DEF RootAway
  <2>4. SearchOK(sh1, u)'
    BY <1>3, <1>16, <1>24, <1>25, <1>27, <1>v, <2>1, SearchOutdated
  <2>5. LeafCallOK(sh1, u)'
    BY <1>26, <1>27, OthersLeafCall
  <2>6. PathOK(sh1, u)' /\ SplitOK(sh1, u)'
    BY <1>26, <1>27, <2>3, OthersPath, OthersSplit
  <2>7. GrowOK(sh1, u)'
    BY <1>26, <1>27, <2>2, OthersGrow
  <2> QED
    BY <2>4, <2>5, <2>6, <2>7 DEF ThreadOK
<1>28. \A a \in Taken : a # c => sh1.hi[sh1.end[a]] = sh.hi[sh.end[a]]
  <2>1. \A a \in Taken : sh.end[a] \in Taken
    BY Numbers
  <2> QED
    BY <1>18, <2>1
<1>29. \A a \in Taken : a \in Taken' /\ sh1.lvl[a] = sh.lvl[a] /\ sh1.lo[a] = sh.lo[a]
  BY <1>14, <1>18
<1>31. TreeFits(sh1)'
  <2>1. TreeFits(sh)
    BY DEF IInv
  <2>2. Ranges(sh1)'
    <3>1. \A a \in Taken : sh.lvl[a] \in Int /\ sh.lvl[a] =< l
      BY <1>3, <1>v, Numbers
    <3>2. \A a \in Taken : sh1.lvl[a] # sh1.lvl[n1]
      BY <1>3, <1>18, <3>1
    <3>3. Low =< sh1.lo[n1] /\ sh1.lo[n1] < sh1.hi[n1] /\ sh1.hi[n1] =< High
      BY <1>3, <1>18, Sizes
    <3>4. \A a \in Taken : Low =< sh1.lo[a] /\ sh1.lo[a] < sh1.hi[a] /\ sh1.hi[a] =< High
      BY <1>18, <2>1 DEF TreeFits, Ranges
    <3>5. \A a, b \in Taken : a # b /\ sh1.lvl[a] = sh1.lvl[b] =>
             sh1.hi[a] =< sh1.lo[b] \/ sh1.hi[b] =< sh1.lo[a]
      BY <1>18, <2>1 DEF TreeFits, Ranges
    <3> QED
      BY <1>14, <3>2, <3>3, <3>4, <3>5 DEF Ranges
  <2>3. Levels(sh1)'
    <3>1. \A a \in TakenLeaves' : sh1.lvl[a] = 0
      BY <1>7, <1>14, <1>18, <2>1 DEF TreeFits, Levels
    <3>2. \A q \in TakenNodes' : 1 =< sh1.lvl[q]
      BY <1>3, <1>7, <1>14, <1>18, <2>1 DEF TreeFits, Levels
    <3>3. \A a \in Taken' : sh1.lvl[a] =< root_level'
      <4>1. \A a \in Taken : sh.lvl[a] \in Int /\ sh.lvl[a] =< l
        BY <1>3, <1>v, Numbers
      <4> QED
        BY <1>3, <1>14, <1>16, <1>18, <4>1
    <3>4. \A a \in Taken' : sh1.end[a] \in Taken' /\ sh1.lvl[sh1.end[a]] = sh1.lvl[a]
      <4> SUFFICES ASSUME NEW a \in Taken' PROVE sh1.end[a] \in Taken' /\ sh1.lvl[sh1.end[a]] = sh1.lvl[a]
        OBVIOUS
      <4>1. CASE a = c \/ a = n1
        BY <1>3, <1>14, <1>18, <4>1
      <4>2. CASE a # c /\ a # n1
        <5>1. a \in Taken /\ sh1.end[a] = sh.end[a] /\ sh.end[a] \in Taken
              /\ sh.lvl[sh.end[a]] = sh.lvl[a]
          BY <1>14, <1>18, <2>1, <4>2 DEF TreeFits, Levels
        <5> QED
          BY <1>14, <1>18, <5>1
      <4> QED
        BY <4>1, <4>2
    <3> QED
      BY <3>1, <3>2, <3>3, <3>4 DEF Levels
  <2>4. Root(sh1)'
    <3>1. tree_root \in Taken /\ first_leaf \in TakenLeaves /\ sh.lo[tree_root] = Low
          /\ sh.lo[first_leaf] = Low
      BY <2>1 DEF TreeFits, Root
    <3>2. sh1.lvl[c] + 1 = l + 1 /\ tree_root' = tree_root /\ tree_root = c
      BY <1>3, <1>16, <1>18, <1>v
    <3> QED
      BY <1>7, <1>14, <1>16, <1>18, <1>25, <3>1, <3>2 DEF Root
  <2>5. \A a \in TakenLeaves' : LeafFits(sh1, a)'
    <3>1. \A a \in TakenLeaves : /\ sh1.lo[a] = sh.lo[a] /\ sh1.hi[a] = sh.hi[a]
                                 /\ sh1.lo[leaf[a].next] = sh.lo[leaf[a].next] \/ leaf[a].next = NULL
      <4> SUFFICES ASSUME NEW a \in TakenLeaves
                   PROVE /\ sh1.lo[a] = sh.lo[a] /\ sh1.hi[a] = sh.hi[a]
                         /\ sh1.lo[leaf[a].next] = sh.lo[leaf[a].next] \/ leaf[a].next = NULL
        OBVIOUS
      <4>1. leaf[a].next # NULL => leaf[a].next \in Taken
        BY <1>7, <2>1 DEF TreeFits, LeafFits
      <4> QED
        BY <1>7, <1>18, <4>1
    <3> QED
      BY <1>14, <1>16, <2>1, <3>1 DEF TreeFits, LeafFits
  <2>6. NodeFits(sh1, n1)'
    <3>1. /\ \A i \in 1 .. 1 : K[i] \in Keys /\ Low < K[i] /\ K[i] < High
          /\ \A i, j \in 1 .. 1 : i < j => K[i] < K[j]
      BY <1>3, <1>8
    <3>2. /\ c \in Taken' /\ sh1.lvl[c] + 1 = l + 1 /\ sh1.lo[c] = Low /\ sh1.hi[sh1.end[c]] = x
          /\ r \in Taken' /\ sh1.lvl[r] + 1 = l + 1 /\ sh1.lo[r] = x /\ sh1.hi[sh1.end[r]] = High
      <4>1. c \in Taken' /\ r \in Taken'
        BY <1>3, <1>14
      <4>2. sh1.lvl[c] = l /\ sh1.lvl[r] = l /\ sh1.lo[c] = Low /\ sh1.lo[r] = x
        BY <1>3, <1>18
      <4>3. sh1.end[c] = c /\ sh1.end[r] = r
        BY <1>3, <1>18
      <4>4. sh1.hi[c] = x /\ sh1.hi[r] = High
        BY <1>3, <1>18
      <4> QED
        BY <1>3, <4>1, <4>2, <4>3, <4>4
    <3>3. \A i \in 0 .. 1 :
            /\ C[i] \in Taken' /\ sh1.lvl[C[i]] + 1 = l + 1
            /\ sh1.lo[C[i]] = (IF i = 0 THEN Low ELSE K[i])
            /\ sh1.hi[sh1.end[C[i]]] = (IF i = 1 THEN High ELSE K[i + 1])
      BY <1>8, <3>2
    <3>4. EntriesFit(sh1, K, C, 1, Low, High, l + 1)'
      BY <3>1, <3>3 DEF EntriesFit
    <3> QED
      BY <1>15, <1>18, <3>4 DEF NodeFits
  <2>8. ASSUME NEW q \in TakenNodes PROVE NodeFits(sh1, q)'
    <3>1. q \in BNodes /\ q # n1 /\ q \in Taken
      BY <1>7, <1>14
    <3>2. /\ bnode'[q] = bnode[q] /\ sh1.cnt[q] = sh.cnt[q]
          /\ sh1.lo[q] = sh.lo[q] /\ sh1.hi[q] = sh.hi[q] /\ sh1.lvl[q] = sh.lvl[q]
      BY <1>15, <1>18, <3>1
    <3>3. ASSUME NEW i \in 0 .. sh.cnt[q]
          PROVE sh1.hi[sh1.end[bnode[q].ch[i]]] = sh.hi[sh.end[bnode[q].ch[i]]]
      <4>1. bnode[q].ch[i] \in Taken /\ sh.lvl[bnode[q].ch[i]] + 1 = sh.lvl[q]
        BY ChildInside
      <4>2. sh.lvl[q] =< l /\ sh.lvl[q] \in Int
        BY <1>3, <1>v, <3>1, Numbers
      <4>3. bnode[q].ch[i] # c
        BY <1>3, <4>1, <4>2
      <4> QED
        BY <1>28, <4>1, <4>3
    <3>4. NodeStays(sh, sh1, q)
      BY <1>29, <3>2, <3>3 DEF NodeStays
    <3> QED
      BY <3>4, NodeFitsKept
  <2> QED
    BY <1>14, <2>2, <2>3, <2>4, <2>5, <2>6, <2>8 DEF TreeFits
<1>32. \A a : OwnedBy(sh, a, t) <=> a = c \/ a = r
  <2>1. \A a : OwnedBy(sh, a, t) <=> (\E i \in l .. l : a = parray[t][i]) \/ a = r
    BY <1>2, <1>3, <1>v DEF OwnedBy, Splitting, Climbing
  <2>2. \A i : i \in l .. l <=> i = l
    BY <1>3
  <2> QED
    BY <1>3, <2>1, <2>2
<1>33. \A a : OwnedBy(sh1, a, t)' <=> a = n1 \/ a = c
  BY <1>2, <1>16 DEF OwnedBy, Splitting, Climbing
<1>34. \A a : (OpenFor(a, t) <=> a = r) /\ ~OpenFor(a, t)'
  BY <1>2, <1>3, <1>v DEF OpenFor, Climbing
<1>37. Owners(sh1)'
  <2>1. /\ \A a \in Taken : sh.own[a] = t <=> OwnedBy(sh, a, t)
        /\ \A a \in Taken : Locked(a) <=> sh.own[a] \in Threads /\ ~OpenFor(a, sh.own[a])
        /\ \A a \in Addr \ Taken : ~Locked(a)
        /\ \A q \in TakenNodes : sh.cnt[q] # bnode[q].num =>
              sh.own[q] \in Threads /\ pc[sh.own[q]] = "count"
        /\ \A a \in Taken : sh.end[a] # a =>
              /\ sh.own[a] \in Threads /\ pc[sh.own[a]] \in Climbing
              /\ a = parray[sh.own[a]][Base(sh.own[a])]
    BY DEF IInv, Owners
  <2>2. \A a \in Addr : a # n1 => (Locked(a)' <=> Locked(a))
    BY <1>15, <1>16 DEF Locked, Addr
  <2>3. Locked(n1)'
    BY <1>14, <1>15 DEF Locked
  <2>4. \A u \in Threads : u # NoThread
    OBVIOUS
  <2>5. \A a \in Taken' : sh1.own[a] \in {t, NoThread} \/ (a \in Taken /\ sh1.own[a] = sh.own[a])
    BY <1>14, <1>18
  <2>6. \A a \in Taken' : sh1.own[a] \in Threads \cup {NoThread}
    BY <1>7, <1>14, <1>17, ShapeTypes
  <2>7. \A a \in Taken' : sh1.own[a] = t <=> OwnedBy(sh1, a, t)'
    <3> SUFFICES ASSUME NEW a \in Taken' PROVE sh1.own[a] = t <=> OwnedBy(sh1, a, t)'
      OBVIOUS
    <3>1. CASE a = n1
      BY <1>18, <1>33, <3>1
    <3>2. CASE a = r
      BY <1>3, <1>14, <1>18, <1>33, <2>4, <3>2
    <3>3. CASE a # n1 /\ a # r
      <4>1. a \in Taken /\ sh1.own[a] = sh.own[a]
        BY <1>14, <1>18, <3>3
      <4> QED
        BY <1>32, <1>33, <2>1, <3>3, <4>1
    <3> QED
      BY <3>1, <3>2, <3>3
  <2>8. \A a \in Taken' : sh1.own[a] = t => (Locked(a)' <=> ~OpenFor(a, t)')
    <3> SUFFICES ASSUME NEW a \in Taken', sh1.own[a] = t PROVE Locked(a)'
      BY <1>34
    <3>1. CASE a = n1
      BY <2>3, <3>1
    <3>2. CASE a # n1
      <4>1. a # r /\ a \in Taken /\ a \in Addr /\ sh.own[a] = t
        BY <1>7, <1>14, <1>18, <2>4, <3>2
      <4> QED
        BY <1>34, <2>1, <2>2, <3>2, <4>1
    <3> QED
      BY <3>1, <3>2
  <2>9. \A a \in Taken' : sh1.own[a] = NoThread => ~Locked(a)'
    <3> SUFFICES ASSUME NEW a \in Taken', sh1.own[a] = NoThread PROVE ~Locked(a)'
      OBVIOUS
    <3>1. a # n1 /\ a \in Taken /\ a \in Addr
      BY <1>7, <1>14, <1>18, <2>4
    <3>2. CASE a = r
      BY <1>3, <1>34, <2>1, <2>2, <3>1, <3>2
    <3>3. CASE a # r
      BY <1>18, <2>1, <2>2, <2>4, <3>1, <3>3
    <3> QED
      BY <3>2, <3>3
  <2>10. \A a \in Addr \ Taken' : ~Locked(a)'
    BY <1>14, <2>1, <2>2
  <2>11. \A q \in TakenNodes' : sh1.own[q] \in {t, NoThread} /\ sh1.cnt[q] # bnode'[q].num =>
            sh1.own[q] = t /\ pc'[t] = "count"
    <3> SUFFICES ASSUME NEW q \in TakenNodes', sh1.own[q] \in {t, NoThread},
                        sh1.cnt[q] # bnode'[q].num
                 PROVE  FALSE
      OBVIOUS
    <3>1. q # n1 /\ q \in TakenNodes
      BY <1>14, <1>15, <1>18
    <3>2. sh.cnt[q] # bnode[q].num
      BY <1>7, <1>15, <1>18, <3>1
    <3>3. sh.own[q] \in Threads /\ pc[sh.own[q]] = "count" /\ q \in Taken
      BY <1>7, <2>1, <3>1, <3>2
    <3>4. q # r /\ sh.own[q] # t
      BY <1>2, <1>3, <3>3
    <3> QED
      BY <1>18, <2>4, <3>3, <3>4
  <2>12. \A a \in Taken' : sh1.own[a] \in {t, NoThread} /\ sh1.end[a] # a =>
            sh1.own[a] = t /\ pc'[t] \in Climbing /\ a = parray'[t][Base(t)']
    <3> SUFFICES ASSUME NEW a \in Taken', sh1.own[a] \in {t, NoThread}, sh1.end[a] # a
                 PROVE  FALSE
      OBVIOUS
    <3>1. a # c /\ a # n1 /\ a \in Taken /\ sh.end[a] # a
      BY <1>14, <1>18
    <3>2. sh.own[a] \in Threads /\ a = parray[sh.own[a]][Base(sh.own[a])]
      BY <2>1, <3>1
    <3>3. a # r /\ sh.own[a] # t
      BY <1>3, <3>1, <3>2
    <3> QED
      BY <1>18, <2>4, <3>1, <3>2, <3>3
  <2>13. TakenNodes' \subseteq BNodes /\ TakenNodes' \subseteq Taken'
    BY <1>7, <1>13, <1>14
  <2>14. \A u \in Threads : u # t /\ pc[u] = "parent" => (root_level' > 0 <=> root_level > 0)
    <3> SUFFICES ASSUME NEW u \in Threads, u # t, pc[u] = "parent" PROVE root_level > 0
      BY <1>3, <1>16
    <3>1. pc[u] \in Splitting
      BY DEF Splitting, Climbing
    <3>2. sh.top[u] < root_level
      BY <1>3, <1>v, <3>1, OthersBelowRoot
    <3>3. sh.top[u] \in Int /\ 0 =< sh.top[u]
      BY ShapeTypes, Sizes DEF IInv
    <3> QED
      BY <1>3, <1>v, <3>2, <3>3
  <2> QED
    BY <1>26, <2>5, <2>6, <2>7, <2>8, <2>9, <2>10, <2>11, <2>12, <2>13, <2>14, OwnersStep
<1>38. ThreadOK(sh1, t)'
  <2>1. SearchOK(sh1, t)' /\ LeafCallOK(sh1, t)' /\ PathOK(sh1, t)' /\ SplitOK(sh1, t)'
    BY <1>2 DEF SearchOK, LeafCallOK, PathOK, SplitOK, Splitting, Climbing
  <2>2. /\ c \in Taken' /\ n1 \in TakenNodes' /\ c # n1 /\ c = tree_root'
        /\ sh1.lvl[n1] = root_level' /\ sh1.lo[n1] = Low /\ sh1.hi[n1] = High
    BY <1>3, <1>14, <1>16, <1>18
  <2>3. total'[t] = 0 => c = lp(t)' /\ c \in Leaves
    <3>1. l = 0 => c \in TakenLeaves
      BY <1>3, Numbers
    <3> QED
      BY <1>3, <1>7, <1>16, <3>1 DEF lp
  <2>4. total'[t] > 0 => c \in BNodes
    <3>1. l > 0 => c \in TakenNodes
      BY <1>3, Numbers
    <3> QED
      BY <1>3, <1>7, <1>16, <3>1
  <2>5. GrowOK(sh1, t)'
    BY <1>2, <1>16, <2>2, <2>3, <2>4 DEF GrowOK
  <2> QED
    BY <2>1, <2>5 DEF ThreadOK
<1>39. IInv(sh1)'
  BY <1>17, <1>23, <1>27, <1>31, <1>37, <1>38 DEF IInv
<1> QED
  BY <1>39

-----------------------------------------------------------------------------
(***************************************************************************)
(* The invariant of every behaviour.                                       *)
(***************************************************************************)
\* Some shape fits the tree.
Shaped == \E sh : IInv(sh)

\* The actions on a leaf that is taken out have no step.
LEMMA NoRemoval ==
  ASSUME NEW sh, IInv(sh), NEW t \in Threads
  PROVE  /\ ~SiblingDown(t) /\ ~SiblingLocked(t) /\ ~SiblingLock(t)
         /\ ~UnlinkLeaf(t) /\ ~FreeLeaf(t) /\ ~RemoveChild(t) /\ ~FreeParent(t)
         /\ ~DropLevel(t) /\ ~DropRoot(t) /\ ~FreeOldRoot(t)
<1>1. pc[t] \in Stages
  BY ThreadTypes DEF IInv
<1>2. ~UnlinkLeaf(t)
  <2> SUFFICES ASSUME pc[t] = "leafDel" PROVE KeepsLeaf(t)
    BY DEF UnlinkLeaf
  <2>1. /\ lp(t) \in TakenLeaves /\ key[t] \in leaf[lp(t)].keys
        /\ Cardinality(leaf[lp(t)].keys) # 1
    BY DEF IInv, ThreadOK, LeafCallOK
  <2>2. lp(t) \in Leaves
    BY <2>1, TakenTypes DEF IInv
  <2>3. IsFiniteSet(leaf[lp(t)].keys) /\ Cardinality(leaf[lp(t)].keys) \in Nat
    BY <2>2, LeafTypes DEF IInv
  <2>4. Cardinality(leaf[lp(t)].keys) # 0
    BY <2>1, <2>3, FS_EmptySet
  <2> QED
    BY <2>1, <2>3, <2>4 DEF KeepsLeaf
<1> QED
  BY <1>1, <1>2 DEF Stages, SiblingDown, SiblingLocked, SiblingLock, AtSibling, FreeLeaf,
                    RemoveChild, FreeParent, AtDelParent, DropLevel, DropRoot, FreeOldRoot

\* A step that changes nothing keeps the invariant.
LEMMA StutterKeeps ==
  ASSUME NEW sh, IInv(sh), UNCHANGED vars
  PROVE  IInv(sh)'
<1>1. UNCHANGED <<tree_lock, tree_root, root_level, first_leaf, leaf, bnode, leafTop, nodeTop,
                  leafFree, nodeFree, pc, op, key, calls, cur, lev, parray, ppos, sib, pkey,
                  ptr, total, ret>>
  BY DEF vars, shared, tree, pools, locals, call, path, up
<1>2. TypeOK' /\ LocalTypes'
  BY <1>1 DEF IInv, TypeOK, LocalTypes
<1>3. Taken' = Taken /\ TakenLeaves' = TakenLeaves /\ TakenNodes' = TakenNodes /\ (Growing' <=> Growing)
  BY <1>1 DEF Taken, TakenLeaves, TakenNodes, Growing
<1>4. TreeFits(sh)'
  <2>1. Ranges(sh)' /\ Levels(sh)' /\ Root(sh)'
    BY <1>1, <1>3 DEF IInv, TreeFits, Ranges, Levels, Root
  <2>2. \A a \in TakenLeaves' : LeafFits(sh, a)'
    BY <1>1, <1>3 DEF IInv, TreeFits, LeafFits
  <2>3. \A p \in TakenNodes' : NodeFits(sh, p)'
    BY <1>1, <1>3 DEF IInv, TreeFits, NodeFits, EntriesFit
  <2> QED
    BY <2>1, <2>2, <2>3, <1>1, <1>3 DEF IInv, TreeFits
<1>5. ASSUME NEW t \in Threads PROVE Base(t)' = Base(t) /\ lp(t)' = lp(t) /\ parent(t)' = parent(t)
  BY <1>1 DEF Base, lp, parent
<1>6. Owners(sh)'
  BY <1>1, <1>3, <1>5 DEF IInv, Owners, OwnedBy, OpenFor, Locked
<1>7. ASSUME NEW t \in Threads PROVE ThreadOK(sh, t)'
  <2>1. SearchOK(sh, t)'
    BY <1>1, <1>3, ZenonT(60) DEF IInv, ThreadOK, SearchOK, Found, Passed, Under, Outdated
  <2>2. LeafCallOK(sh, t)' /\ SplitOK(sh, t)' /\ GrowOK(sh, t)'
    BY <1>1, <1>3, <1>5 DEF IInv, ThreadOK, LeafCallOK, LeafFull, SplitOK, GrowOK
  <2>3. PathOK(sh, t)'
    BY <1>1, <1>3, <1>5, SMTT(40) DEF IInv, ThreadOK, PathOK, Link, Full
  <2> QED
    BY <2>1, <2>2, <2>3 DEF ThreadOK
<1> QED
  BY <1>2, <1>4, <1>6, <1>7 DEF IInv

\* Every step keeps the invariant, if no del empties a leaf and no search
\* meets the unlocking of the old root.
LEMMA StepKeeps ==
  ASSUME Shaped, [Next]_vars, Undisturbed, Undisturbed'
  PROVE  Shaped'
<1> PICK sh : IInv(sh)
  BY DEF Shaped
<1>1. LeavesKeepKeys /\ RootUnraced'
  BY DEF Undisturbed
<1>2. ASSUME NEW t \in Threads, Call(t) \/ Step(t) PROVE \E sh1 : IInv(sh1)'
  <2>1. CASE Call(t)
    BY <2>1, CallKeeps
  <2>2. CASE Search(t)
    <3>1. CASE LockAndReadRoot(t)
      BY <3>1, LockAndReadRootKeeps
    <3>2. CASE LockAndReadLevel(t)
      BY <3>2, LockAndReadLevelKeeps
    <3>3. CASE ReadLevel(t)
      BY <3>3, ReadLevelKeeps
    <3>4. CASE ReadRoot(t)
      BY <3>4, ReadRootKeeps
    <3>5. CASE Descend(t)
      BY <3>5, DescendKeeps
    <3>6. CASE BlockedByLock(t)
      BY <3>6, BlockedByLockKeeps
    <3>7. CASE LookupLeaf(t) \/ NothingToDo(t)
      BY <3>7, AnswerKeeps
    <3>8. CASE InsertLock(t)
      BY <3>8, InsertLockKeeps
    <3>9. CASE DelLock(t)
      BY <3>9, <1>1, DelLockKeeps
    <3> QED
      BY <2>2, <3>1, <3>2, <3>3, <3>4, <3>5, <3>6, <3>7, <3>8, <3>9, NoRemoval DEF Search
  <2>3. CASE Insert(t)
    <3>1. CASE InsertEntry(t)
      BY <3>1, InsertEntryKeeps
    <3>2. CASE SplitLeaf(t)
      BY <3>2, SplitLeafKeeps
    <3>3. CASE InsertLower(t)
      BY <3>3, InsertLowerKeeps
    <3>4. CASE ReadTotalLevel(t)
      BY <3>4, ReadTotalLevelKeeps
    <3>5. CASE ParentShift(t)
      BY <3>5, ParentShiftKeeps
    <3>6. CASE ParentCount(t)
      BY <3>6, ParentCountKeeps
    <3>7. CASE ParentSplit(t)
      BY <3>7, ParentSplitKeeps
    <3>8. CASE GrowLevel(t)
      BY <3>8, GrowLevelKeeps
    <3>9. CASE GrowRoot(t)
      BY <3>9, <1>1, GrowRootKeeps
    <3>10. CASE UnlockOldRoot(t)
      BY <3>10, UnlockOldRootKeeps
    <3>11. CASE UnlockNewRoot(t)
      BY <3>11, UnlockNewRootKeeps
    <3> QED
      BY <2>3, <3>1, <3>2, <3>3, <3>4, <3>5, <3>6, <3>7, <3>8, <3>9, <3>10, <3>11 DEF Insert
  <2>4. CASE Del(t)
    BY <2>4, DeleteEntryKeeps, NoRemoval DEF Del
  <2> QED
    BY <1>2, <2>1, <2>2, <2>3, <2>4 DEF Step
<1>3. CASE UNCHANGED vars
  BY <1>3, StutterKeeps DEF Shaped
<1> QED
  BY <1>2, <1>3 DEF Next, Join, Shaped

\* The bulkloaded tree, before the first call.
LEMMA InitShaped ==
  ASSUME Init, Loaded
  PROVE  Shaped
<1> PICK sh \in ShapeType : AtRest(sh)
  BY DEF Loaded
<1>1. /\ InitTree.root \in Leaves \cup BNodes /\ InitTree.level \in 0 .. MaxLevel
      /\ InitTree.first \in Leaves /\ InitTree.leaf \in [Leaves -> LeafType]
      /\ InitTree.bnode \in [BNodes -> NodeType]
      /\ InitTree.leafTop \in 0 .. MaxLeaf /\ InitTree.nodeTop \in 0 .. MaxNode
  BY TreeAssumption DEF TreeType
<1>2. NoPath \in [0 .. MaxLevel -> Leaves \cup BNodes \cup {NULL}]
      /\ NoPath \in [0 .. MaxLevel -> 0 .. NON_LEAF_KEY_NUM]
  BY Sizes DEF NoPath, NULL
<1>3. TypeOK
  <2>1. /\ tree_lock \in Threads \cup {NoThread}
        /\ tree_root \in Leaves \cup BNodes \cup {NULL}
        /\ root_level \in -1 .. MaxLevel
        /\ first_leaf \in Leaves \cup {NULL}
        /\ leaf \in [Leaves -> LeafType]
        /\ bnode \in [BNodes -> NodeType]
        /\ leafTop \in 0 .. MaxLeaf /\ nodeTop \in 0 .. MaxNode
    BY <1>1, Sizes DEF Init
  <2>2. leafFree \in [Threads -> Seq(Leaves)] /\ nodeFree \in [Threads -> Seq(BNodes)]
    BY DEF Init
  <2>3. /\ calls \in [Threads -> 0 .. MaxCalls] /\ op \in [Threads -> Ops \cup {"none"}]
        /\ key \in [Threads -> Keys \cup {NoKey}]
        /\ cur \in [Threads -> Leaves \cup BNodes \cup {NULL}]
    BY SizeAssumption DEF Init
  <2>4. /\ parray \in [Threads -> [0 .. MaxLevel -> Leaves \cup BNodes \cup {NULL}]]
        /\ ppos \in [Threads -> [0 .. MaxLevel -> 0 .. NON_LEAF_KEY_NUM]]
    BY <1>2 DEF Init
  <2> QED
    BY <2>1, <2>2, <2>3, <2>4 DEF TypeOK
<1>4. LocalTypes
  BY <1>1, Sizes, SizeAssumption DEF Init, LocalTypes, Stages, Part1
<1>5. \A t \in Threads : pc[t] = "idle"
  BY DEF Init
<1>6. TreeFits(sh)
  BY DEF AtRest
<1>7. Owners(sh)
  <2>1. Taken \subseteq Addr /\ TakenNodes \subseteq Addr
    BY <1>3, TakenTypes DEF Taken
  <2>2. NoThread \notin Threads
    BY SizeAssumption
  <2> QED
    BY <1>5, <2>1, <2>2 DEF AtRest, Owners, OwnedBy, OpenFor, Splitting, Climbing
<1>8. \A t \in Threads : ThreadOK(sh, t)
  BY <1>5 DEF ThreadOK, SearchOK, LeafCallOK, PathOK, SplitOK, GrowOK, Splitting, Climbing
<1> QED
  BY <1>3, <1>4, <1>6, <1>7, <1>8 DEF IInv, Shaped

\* Every behaviour that starts from a loaded tree keeps to the invariant as
\* long as nothing disturbs it.
THEOREM Invariant == Spec /\ Loaded /\ []Undisturbed => []Shaped
<1>1. Init /\ Loaded => Shaped
  BY InitShaped
<1>2. Shaped /\ [Next]_vars /\ Undisturbed /\ Undisturbed' => Shaped'
  BY StepKeeps
<1> QED
  BY <1>1, <1>2, PTL DEF Spec

\* The tree, the pools, and what each thread has of its call's key and path
\* keep their types.
THEOREM TypeCorrect == Spec /\ Loaded /\ []Undisturbed => []TypeOK
<1>1. Shaped => TypeOK
  BY DEF Shaped, IInv
<1> QED
  BY <1>1, Invariant, PTL

-----------------------------------------------------------------------------
(***************************************************************************)
(* The lock bits.                                                          *)
(***************************************************************************)
Held(t) == HeldLeaves(t) \cup HeldNodes(t)

\* The ancestors still to be changed, as read from the path, are those up to
\* the one where the change stops.
LEMMA LevelsToGrow ==
  ASSUME NEW sh, IInv(sh), NEW t \in Threads, pc[t] \in Splitting
  PROVE  GrowLevels(t, Base(t) + 1) = Base(t) + 1 .. sh.top[t]
<1> DEFINE b == Base(t)
           s == sh.top[t]
<1>1. /\ b \in 0 .. s /\ s =< root_level
      /\ \A i \in b + 1 .. s - 1 : Full(parray[t][i])
      /\ s = b \/ Full(parray[t][s]) => s = root_level
  BY DEF IInv, ThreadOK, PathOK
<1>2. b \in Int /\ s \in Int /\ root_level \in Int
  BY ThreadTypes, ShapeTypes DEF IInv
<1>3. ASSUME NEW j \in GrowLevels(t, b + 1) PROVE j =< s
  <2>1. j \in b + 1 .. root_level /\ \A h \in b + 1 .. j - 1 : Full(parray[t][h])
    BY <1>3 DEF GrowLevels
  <2>2. SUFFICES ASSUME s < j PROVE FALSE
    BY <1>2, <2>1
  <2>3. s # b => s \in b + 1 .. j - 1
    BY <1>1, <1>2, <2>1, <2>2
  <2>4. s = b \/ Full(parray[t][s])
    BY <2>1, <2>3
  <2> QED
    BY <1>1, <1>2, <2>1, <2>2, <2>4
<1>4. \A j \in b + 1 .. s : j \in b + 1 .. root_level /\ \A h \in b + 1 .. j - 1 : h \in b + 1 .. s - 1
  BY <1>1, <1>2
<1>5. \A j \in b + 1 .. s : j \in GrowLevels(t, b + 1)
  BY <1>1, <1>4 DEF GrowLevels
<1>6. GrowLevels(t, b + 1) \subseteq b + 1 .. root_level
  BY DEF GrowLevels
<1>7. \A j \in GrowLevels(t, b + 1) : j \in b + 1 .. s
  BY <1>2, <1>3, <1>6
<1> QED
  BY <1>5, <1>7

\* The path of a splitting thread: its nodes, but the lowest, are bnodes, and
\* none is the new sibling.
LEMMA PathNodes ==
  ASSUME NEW sh, IInv(sh), NEW t \in Threads, pc[t] \in Splitting,
         NEW b, b = Base(t), NEW s, s = sh.top[t]
  PROVE  /\ b \in Int /\ s \in Int /\ b =< s
         /\ \A i \in b .. s : parray[t][i] \in Taken
         /\ \A i \in b + 1 .. s : parray[t][i] \in TakenNodes /\ i \in b .. s
         /\ \A i, j \in b .. s : parray[t][i] = parray[t][j] => i = j
         /\ pc[t] \in Climbing => \A i \in b .. s : parray[t][i] # ptr[t]
         /\ parray[t][b] \in TakenLeaves <=> b = 0
<1>1. b \in 0 .. s /\ b \in Int /\ s \in Int
  BY ThreadTypes, ShapeTypes DEF IInv, ThreadOK, PathOK
<1>2. \A i \in b .. s : /\ parray[t][i] \in Taken /\ sh.lvl[parray[t][i]] = i
                        /\ i # b => parray[t][i] \in TakenNodes
  BY PathOwned
<1>3. pc[t] \in Climbing => \A i \in b .. s : parray[t][i] # ptr[t]
  <2> SUFFICES ASSUME pc[t] \in Climbing, NEW i \in b .. s, parray[t][i] = ptr[t] PROVE FALSE
    OBVIOUS
  <2>1. sh.lvl[ptr[t]] = b /\ ptr[t] # parray[t][b]
    BY HangingNode
  <2> QED
    BY <1>2, <2>1
<1>4. parray[t][b] \in TakenLeaves <=> b = 0
  <2>1. b \in b .. s
    BY <1>1
  <2> QED
    BY <1>2, <2>1, Numbers
<1> QED
  BY <1>1, <1>2, <1>3, <1>4

\* What a thread holds is what it is going to change and others can reach.
LEMMA HeldByOwner ==
  ASSUME NEW sh, IInv(sh), NEW t \in Threads
  PROVE  /\ HeldLeaves(t) \subseteq TakenLeaves /\ HeldNodes(t) \subseteq TakenNodes
         /\ \A a \in Taken : a \in Held(t) <=> OwnedBy(sh, a, t) /\ ~OpenFor(a, t)
<1>1. pc[t] \in Stages /\ sib[t] = NULL /\ NULL = 0
  BY ThreadTypes DEF IInv, LocalTypes, NULL
<1>2. TakenLeaves \subseteq Leaves /\ TakenNodes \subseteq BNodes /\ TakenLeaves \cap BNodes = {}
      /\ TakenNodes \cap Leaves = {} /\ Taken = TakenLeaves \cup TakenNodes /\ NULL \notin TakenLeaves
  BY TakenTypes, Addresses DEF IInv, Taken
<1>3. CASE pc[t] \in {"idle", "start", "readLevel", "readRoot", "descend"}
  BY <1>3 DEF Held, HeldLeaves, HeldNodes, OwnedBy, Splitting, Climbing
<1>4. CASE pc[t] = "insert"
  <2>1. lp(t) \in TakenLeaves
    BY <1>4 DEF IInv, ThreadOK, LeafCallOK
  <2>2. HeldLeaves(t) = {lp(t)} /\ HeldNodes(t) = {}
    BY <1>4 DEF HeldLeaves, HeldNodes
  <2>3. \A a \in Taken : ~OpenFor(a, t) /\ (OwnedBy(sh, a, t) <=> a = lp(t))
    BY <1>4 DEF OpenFor, OwnedBy, Splitting, Climbing
  <2> QED
    BY <2>1, <2>2, <2>3 DEF Held
<1>5. CASE pc[t] = "leafDel"
  <2>1. lp(t) \in TakenLeaves /\ Cardinality(leaf[lp(t)].keys) # 1
    BY <1>5 DEF IInv, ThreadOK, LeafCallOK
  <2>2. HeldLeaves(t) = {lp(t)} /\ HeldNodes(t) = {}
    BY <1>1, <1>2, <1>5, <2>1 DEF HeldLeaves, HeldNodes, LastKey
  <2>3. \A a \in Taken : ~OpenFor(a, t) /\ (OwnedBy(sh, a, t) <=> a = lp(t))
    BY <1>5 DEF OpenFor, OwnedBy, Splitting, Climbing
  <2> QED
    BY <2>1, <2>2, <2>3 DEF Held
<1>6. CASE pc[t] \in Splitting
  <2> PICK b : b = Base(t)
    OBVIOUS
  <2> PICK s : s = sh.top[t]
    OBVIOUS
  <2>1. /\ b \in Int /\ s \in Int /\ b =< s
        /\ \A i \in b .. s : parray[t][i] \in Taken
        /\ \A i \in b + 1 .. s : parray[t][i] \in TakenNodes /\ i \in b .. s
        /\ \A i, j \in b .. s : parray[t][i] = parray[t][j] => i = j
        /\ pc[t] \in Climbing => \A i \in b .. s : parray[t][i] # ptr[t]
        /\ parray[t][b] \in TakenLeaves <=> b = 0
    BY <1>6, PathNodes
  <2>2. GrowLevels(t, b + 1) = b + 1 .. s
    BY <1>6, LevelsToGrow
  <2>3. b \in b .. s /\ \A i \in b .. s : i = b \/ i \in b + 1 .. s
    BY <2>1
  <2>4. \A a \in Taken : OwnedBy(sh, a, t) <=>
           (\E i \in b .. s : a = parray[t][i]) \/ (pc[t] \in Climbing /\ a = ptr[t])
    BY <1>6 DEF OwnedBy, Splitting, Climbing
  <2>5. CASE pc[t] \in {"split", "lower"}
    <3>1. b = 0
      BY <2>5 DEF Base
    <3>2. HeldLeaves(t) = {lp(t)} /\ HeldNodes(t) = Path(t, 1 .. s)
      BY <2>2, <2>5, <3>1 DEF HeldLeaves, HeldNodes
    <3>3. \A a \in Taken : OpenFor(a, t) <=> pc[t] \in Climbing /\ a = ptr[t]
      BY <2>5 DEF OpenFor, Climbing
    <3>4. lp(t) \in TakenLeaves /\ lp(t) = parray[t][b]
      BY <2>1, <3>1 DEF lp
    <3> QED
      BY <2>1, <2>3, <2>4, <3>1, <3>2, <3>3, <3>4 DEF Held, Path
  <2>6. CASE pc[t] = "parent"
    <3>1. b = 0 /\ pc[t] \in Climbing
      BY <2>6 DEF Base, Climbing
    <3>2. HeldLeaves(t) = (IF root_level = 0 THEN {lp(t)} ELSE {}) /\ HeldNodes(t) = Path(t, 1 .. s)
      BY <2>2, <2>6, <3>1 DEF HeldLeaves, HeldNodes
    <3>3. \A a \in Taken : OpenFor(a, t) <=> a = ptr[t] \/ (root_level # 0 /\ a = lp(t))
      BY <2>6, <3>1, ThreadTypes DEF OpenFor, IInv
    <3>4. lp(t) \in TakenLeaves /\ lp(t) = parray[t][b]
      BY <2>1, <3>1 DEF lp
    <3>5. \A i \in 1 .. s : parray[t][i] # lp(t)
      BY <1>2, <2>1, <3>1, <3>4
    <3> QED
      BY <2>1, <2>3, <2>4, <3>1, <3>2, <3>3, <3>4, <3>5 DEF Held, Path
  <2>7. CASE pc[t] = "up" /\ lev[t] =< total[t]
    <3>1. b = lev[t] - 1 /\ pc[t] \in Climbing /\ lev[t] = b + 1 /\ total[t] # 0
      BY <2>7, ThreadTypes DEF Base, Climbing, IInv, ThreadOK, SplitOK
    <3>2. HeldLeaves(t) = {} /\ HeldNodes(t) = Path(t, b + 1 .. s)
      BY <2>2, <2>7, <3>1 DEF HeldLeaves, HeldNodes
    <3>3. \A a \in Taken : OpenFor(a, t) <=> a = ptr[t] \/ a = parray[t][b]
      BY <2>7, <3>1 DEF OpenFor
    <3>4. \A i \in b + 1 .. s : parray[t][i] # parray[t][b]
      BY <2>1, <2>3
    <3> QED
      BY <2>1, <2>3, <2>4, <3>1, <3>2, <3>3, <3>4 DEF Held, Path
  <2>8. CASE pc[t] = "up" /\ ~(lev[t] =< total[t])
    <3>1. lev[t] > total[t] /\ pc[t] \in Climbing
      BY <2>8, ThreadTypes DEF IInv, Climbing
    <3>2. total[t] = b /\ s = b /\ total[t] \in Int
      BY <2>8, <3>1, RootSplitKnows
    <3>3. \A a \in Taken : OpenFor(a, t) <=> a = ptr[t]
      BY <2>8 DEF OpenFor, Climbing
    <3>4. HeldLeaves(t) = (IF b = 0 THEN {lp(t)} ELSE {}) /\ HeldNodes(t) = {parray[t][b]} \cap BNodes
      BY <2>8, <3>2 DEF HeldLeaves, HeldNodes
    <3>5. /\ b = 0 => lp(t) = parray[t][b] /\ lp(t) \in TakenLeaves /\ {parray[t][b]} \cap BNodes = {}
          /\ b # 0 => parray[t][b] \in TakenNodes /\ {parray[t][b]} \cap BNodes = {parray[t][b]}
      BY <1>2, <2>1, <2>3 DEF lp
    <3>6. \A a \in Taken : OwnedBy(sh, a, t) <=> a = parray[t][b] \/ a = ptr[t]
      BY <2>3, <2>4, <3>1, <3>2
    <3>7. parray[t][b] # ptr[t]
      BY <2>1, <2>3, <3>1
    <3> QED
      BY <3>3, <3>4, <3>5, <3>6, <3>7 DEF Held
  <2> QED
    BY <1>6, <2>5, <2>6, <2>7, <2>8 DEF Splitting, Climbing
<1>7. CASE pc[t] = "count"
  <2>1. parent(t) \in TakenNodes
    BY <1>7 DEF IInv, ThreadOK, SplitOK
  <2>2. HeldLeaves(t) = {} /\ HeldNodes(t) = {parent(t)}
    BY <1>7 DEF HeldLeaves, HeldNodes
  <2>3. \A a \in Taken : ~OpenFor(a, t) /\ (OwnedBy(sh, a, t) <=> a = parent(t))
    BY <1>7 DEF OpenFor, OwnedBy, Splitting, Climbing
  <2> QED
    BY <2>1, <2>2, <2>3 DEF Held
<1>8. CASE pc[t] \in {"growRoot", "unlockOld"}
  <2>1. /\ cur[t] \in Taken /\ ptr[t] \in TakenNodes
        /\ total[t] = 0 => cur[t] = lp(t) /\ cur[t] \in Leaves
        /\ total[t] > 0 => cur[t] \in BNodes
        /\ total[t] \in Nat
    BY <1>8, ThreadTypes DEF IInv, ThreadOK, GrowOK
  <2>2. HeldLeaves(t) = (IF total[t] = 0 THEN {lp(t)} ELSE {}) /\ HeldNodes(t) = {ptr[t], cur[t]} \cap BNodes
    BY <1>8 DEF HeldLeaves, HeldNodes
  <2>3. \A a \in Taken : ~OpenFor(a, t) /\ (OwnedBy(sh, a, t) <=> a \in {cur[t], ptr[t]})
    BY <1>8 DEF OpenFor, OwnedBy, Splitting, Climbing
  <2>4. CASE total[t] = 0
    BY <1>2, <2>1, <2>2, <2>3, <2>4 DEF Held
  <2>5. CASE total[t] > 0
    BY <1>2, <2>1, <2>2, <2>3, <2>5 DEF Held
  <2> QED
    BY <2>1, <2>4, <2>5
<1>9. CASE pc[t] = "unlockNew"
  <2>1. ptr[t] \in TakenNodes
    BY <1>9 DEF IInv, ThreadOK, GrowOK
  <2>2. HeldLeaves(t) = {} /\ HeldNodes(t) = {ptr[t]}
    BY <1>9 DEF HeldLeaves, HeldNodes
  <2>3. \A a \in Taken : ~OpenFor(a, t) /\ (OwnedBy(sh, a, t) <=> a = ptr[t])
    BY <1>9 DEF OpenFor, OwnedBy, Splitting, Climbing
  <2> QED
    BY <2>1, <2>2, <2>3 DEF Held
<1> QED
  BY <1>1, <1>3, <1>4, <1>5, <1>6, <1>7, <1>8, <1>9 DEF Stages, Splitting, Climbing

\* Each lock bit is set by the one thread that still has to change the node.
LEMMA ShapedLocks ==
  ASSUME Shaped
  PROVE  LocksOwned
<1> PICK sh : IInv(sh)
  BY DEF Shaped
<1>1. TakenLeaves \subseteq Leaves /\ TakenNodes \subseteq BNodes /\ TakenLeaves \subseteq Taken
      /\ TakenNodes \subseteq Taken /\ Leaves \cap BNodes = {} /\ Leaves \cup BNodes = Addr
      /\ Taken = TakenLeaves \cup TakenNodes
  BY TakenTypes, Addresses DEF IInv, Taken, Addr
<1>2. \A t \in Threads : HeldLeaves(t) \subseteq TakenLeaves /\ HeldNodes(t) \subseteq TakenNodes
  BY HeldByOwner
<1>3. ASSUME NEW a \in Taken, NEW t \in Threads
      PROVE  a \in Held(t) <=> sh.own[a] = t /\ ~OpenFor(a, t)
  BY HeldByOwner DEF IInv, Owners
<1>4. \A a \in Taken : Locked(a) <=> sh.own[a] \in Threads /\ ~OpenFor(a, sh.own[a])
  BY DEF IInv, Owners
<1>5. \A a \in Taken : Locked(a) <=> \E t \in Threads : a \in Held(t)
  BY <1>3, <1>4
<1>6. \A a \in Addr \ Taken : ~Locked(a)
  BY DEF IInv, Owners
<1>7. \A a \in Addr : Locked(a) <=> \E t \in Threads : a \in Held(t)
  BY <1>1, <1>2, <1>5, <1>6 DEF Held
<1>8. \A a \in Leaves : \A t \in Threads : a \in Held(t) <=> a \in HeldLeaves(t)
  BY <1>1, <1>2 DEF Held
<1>9. \A p \in BNodes : \A t \in Threads : p \in Held(t) <=> p \in HeldNodes(t)
  BY <1>1, <1>2 DEF Held
<1>10. \A a \in Leaves : leaf[a].lock <=> \E t \in Threads : a \in HeldLeaves(t)
  BY <1>1, <1>7, <1>8 DEF Locked
<1>11. \A p \in BNodes : bnode[p].lock <=> \E t \in Threads : p \in HeldNodes(t)
  BY <1>1, <1>7, <1>9 DEF Locked
<1>12. \A t, u \in Threads : t # u => Held(t) \cap Held(u) = {}
  BY <1>1, <1>2, <1>3 DEF Held
<1> QED
  BY <1>10, <1>11, <1>12 DEF LocksOwned, Held

\* No lock bit is left set, cleared too early or held by two calls.
THEOREM LocksHeld == Spec /\ Loaded /\ []Undisturbed => []LocksOwned
BY ShapedLocks, Invariant, PTL

-----------------------------------------------------------------------------
(***************************************************************************)
(* The pointers a call follows.                                            *)
(***************************************************************************)
\* A search is at a node of its level, or still holds the old root, which the
\* new one has just been put over; a leaf it takes for a bnode then is not
\* empty.
LEMMA SearchAtNode ==
  ASSUME NEW sh, IInv(sh), NEW t \in Threads, pc[t] = "descend"
  PROVE  \/ AtNode(t) \/ AtLeaf(t)
         \/ /\ lev[t] > 0 /\ cur[t] \in Leaves
            /\ ~FreedLeaf(cur[t]) /\ leaf[cur[t]].keys # {}
<1>1. Found(sh, t) \/ Outdated(t)
  BY DEF IInv, ThreadOK, SearchOK
<1>2. TakenLeaves \subseteq Leaves /\ TakenNodes \subseteq BNodes /\ Taken = TakenLeaves \cup TakenNodes
  BY TakenTypes DEF IInv, Taken
<1>3. ~FreedLeaf(cur[t])
  BY NothingFreed DEF IInv
<1>4. lev[t] \in Nat /\ root_level \in Nat
  BY ThreadTypes DEF IInv
<1>5. CASE Found(sh, t)
  <2>1. cur[t] \in Taken /\ sh.lvl[cur[t]] = lev[t]
    BY <1>5 DEF Found
  <2>2. (lev[t] = 0 <=> cur[t] \in TakenLeaves) /\ (lev[t] > 0 <=> cur[t] \in TakenNodes)
    BY <2>1, Numbers
  <2> QED
    BY <1>2, <1>3, <1>4, <2>2 DEF AtNode, AtLeaf
<1>6. CASE Outdated(t)
  <2>1. Growing /\ cur[t] = tree_root /\ lev[t] \in {root_level - 1, root_level}
    BY <1>6 DEF Outdated
  <2>2. cur[t] \in Taken /\ sh.lvl[cur[t]] + 1 = root_level
    BY <2>1 DEF IInv, TreeFits, Root
  <2>3. /\ sh.lvl[cur[t]] \in Nat
        /\ (sh.lvl[cur[t]] = 0 <=> cur[t] \in TakenLeaves)
        /\ (sh.lvl[cur[t]] > 0 <=> cur[t] \in TakenNodes)
    BY <2>2, Numbers
  <2>4. CASE cur[t] \in TakenNodes
    BY <1>2, <1>4, <2>1, <2>2, <2>3, <2>4 DEF AtNode
  <2>5. CASE cur[t] \in TakenLeaves
    <3>1. leaf[cur[t]].keys # {}
      BY <2>5, LeavesAsTheyAre
    <3> QED
      BY <1>2, <1>3, <1>4, <2>1, <2>5, <3>1 DEF AtLeaf
  <2> QED
    BY <1>2, <2>2, <2>4, <2>5
<1> QED
  BY <1>1, <1>5, <1>6

\* The ancestors an insert locks are on the path it came down.
LEMMA AncestorsKnown ==
  ASSUME NEW sh, IInv(sh), NEW t \in Threads, AtLeaf(t), ~leaf[cur[t]].lock
  PROVE  Known(t, Ancestors(t, InsertStops))
<1>1. Found(sh, t) /\ lev[t] = 0
  BY AtLeafKnows
<1>2. root_level \in Nat
  BY ThreadTypes DEF IInv
<1>3. \A i \in 1 .. root_level : parray[t][i] \in TakenNodes
  BY <1>1, <1>2 DEF Found, Passed
<1>4. Ancestors(t, InsertStops) \subseteq 1 .. root_level
  BY DEF Ancestors
<1> QED
  BY <1>3, <1>4, TakenTypes DEF IInv, Known

\* Part 3 of insert finds a bnode at each level it has read that there is.
LEMMA ParentThere ==
  ASSUME NEW sh, IInv(sh), NEW t \in Threads, pc[t] = "up", lev[t] =< total[t]
  PROVE  AtParent(t)
<1> PICK s : s = sh.top[t]
  OBVIOUS
<1>1. Base(t) = lev[t] - 1 /\ pc[t] \in Splitting
  BY DEF Base, Splitting, Climbing
<1>2. /\ lev[t] - 1 \in 0 .. s /\ s =< root_level
      /\ \A i \in (lev[t] - 1) + 1 .. s : Link(sh, t, i)
      /\ s = lev[t] - 1 => s = root_level
  BY <1>1 DEF IInv, ThreadOK, PathOK
<1>3. total[t] =< root_level
  BY DEF IInv, ThreadOK, SplitOK
<1>4. lev[t] \in Int /\ s \in Int /\ total[t] \in Int /\ root_level \in Int
  BY ThreadTypes, ShapeTypes DEF IInv
<1>5. lev[t] \in (lev[t] - 1) + 1 .. s
  BY <1>2, <1>3, <1>4
<1>6. parray[t][lev[t]] \in TakenNodes
  BY <1>2, <1>5 DEF Link
<1> QED
  BY <1>6, TakenTypes DEF AtParent, IInv

\* No call is about to follow a wild pointer.
LEMMA ShapedReads ==
  ASSUME Shaped, LeavesKeepKeys
  PROVE  NoWildRead
<1> PICK sh : IInv(sh)
  BY DEF Shaped
<1> SUFFICES ASSUME NEW t \in Threads, WildRead(t) PROVE FALSE
  BY DEF NoWildRead
<1>1. pc[t] \in Stages
  BY ThreadTypes DEF IInv
<1>2. pc[t] # "sibling" /\ pc[t] # "upDel"
  BY <1>1 DEF Stages
<1>3. pc[t] = "descend" => \/ AtNode(t) \/ AtLeaf(t)
                           \/ /\ lev[t] > 0 /\ cur[t] \in Leaves
                              /\ ~FreedLeaf(cur[t]) /\ leaf[cur[t]].keys # {}
  BY SearchAtNode
<1>4. AtOpenLeaf(t, "insert") => Known(t, Ancestors(t, InsertStops))
  BY AncestorsKnown DEF AtOpenLeaf
<1>5. ~(AtOpenLeaf(t, "del") /\ leaf[cur[t]].keys = {key[t]})
  <2> SUFFICES ASSUME AtOpenLeaf(t, "del"), leaf[cur[t]].keys = {key[t]} PROVE FALSE
    OBVIOUS
  <2>1. Cardinality({key[t]}) = 1
    BY FS_Singleton
  <2> QED
    BY <2>1 DEF LeavesKeepKeys
<1>6. pc[t] = "up" /\ lev[t] =< total[t] => AtParent(t)
  BY ParentThere
<1>7. pc[t] = "unlockOld" => (total[t] > 0 <=> cur[t] \in BNodes)
  <2> SUFFICES ASSUME pc[t] = "unlockOld" PROVE total[t] > 0 <=> cur[t] \in BNodes
    OBVIOUS
  <2>1. /\ total[t] = 0 => cur[t] \in Leaves
        /\ total[t] > 0 => cur[t] \in BNodes
    BY DEF IInv, ThreadOK, GrowOK
  <2>2. total[t] = 0 \/ total[t] > 0
    BY ThreadTypes DEF IInv
  <2>3. ~(total[t] = 0 /\ total[t] > 0)
    OBVIOUS
  <2>4. cur[t] \in Leaves => cur[t] \notin BNodes
    BY Addresses
  <2> QED
    BY <2>1, <2>2, <2>3, <2>4
<1>8. ~(pc[t] = "unlockOld" /\ (total[t] > 0) # (cur[t] \in BNodes))
  BY <1>7
<1> QED
  BY <1>2, <1>3, <1>4, <1>5, <1>6, <1>8 DEF WildRead

\* No call follows a wild pointer or reads the path above where it came from.
THEOREM NothingWild == Spec /\ Loaded /\ []Undisturbed => []NoWildRead
<1>1. Shaped /\ Undisturbed => NoWildRead
  BY ShapedReads DEF Undisturbed
<1> QED
  BY <1>1, Invariant, PTL

-----------------------------------------------------------------------------
(***************************************************************************)
(* Who writes to the nodes.                                                *)
(***************************************************************************)
\* Steps of Parts 2 and 3 write to what their thread holds, or to new nodes.
LEMMA HolderWrites ==
  ASSUME NEW sh, IInv(sh), NEW t \in Threads,
         \A a \in Leaves : leaf'[a] # leaf[a] => a \in HeldLeaves(t) \/ a > leafTop,
         \A p \in BNodes : bnode'[p] # bnode[p] => p \in HeldNodes(t) \/ -p > nodeTop,
         pc'[t] # pc[t] \/ (lev'[t] # lev[t] /\ leaf' = leaf)
  PROVE  GoodWrites
<1>1. LocksOwned
  BY ShapedLocks DEF Shaped
<1>2. /\ \A a \in Leaves : a \in HeldLeaves(t) => leaf[a].lock
      /\ \A p \in BNodes : p \in HeldNodes(t) => bnode[p].lock
  BY <1>1, NothingFreed DEF LocksOwned, IInv
<1> QED
  BY <1>2 DEF GoodWrites, LeafWrite, NodeWrite

\* Setting a lock bit changes only a leaf whose bit is clear.
LEMMA SetsLockBit ==
  ASSUME NEW T, NEW r \in [lock : BOOLEAN, keys : T, next : Leaves \cup {NULL}],
         [r EXCEPT !.lock = TRUE] # r
  PROVE  ~r.lock
OBVIOUS

\* The same of a bnode.
LEMMA SetsNodeLockBit ==
  ASSUME NEW r \in NodeType, [r EXCEPT !.lock = TRUE] # r
  PROVE  ~r.lock
BY DEF NodeType

\* Part 1 sets lock bits under the mutex.
LEMMA LockingWrites ==
  ASSUME NEW sh, IInv(sh), NEW t \in Threads, pc[t] = "descend",
         \A a \in Leaves : leaf'[a] = leaf[a] \/ leaf'[a] = [leaf[a] EXCEPT !.lock = TRUE],
         \A p \in BNodes : bnode'[p] = bnode[p] \/ bnode'[p] = [bnode[p] EXCEPT !.lock = TRUE]
  PROVE  GoodWrites
<1>1. tree_lock # NoThread
  BY ThreadTypes DEF IInv, LocalTypes, Part1
<1>2. \A a \in Leaves : leaf[a] \in LeafType
  BY LeafTypes DEF IInv
<1>3. \A p \in BNodes : bnode[p] \in NodeType
  BY NodeTypes DEF IInv
<1>4. \A a \in Leaves : leaf'[a] # leaf[a] =>
         ~leaf[a].lock /\ leaf'[a] = [leaf[a] EXCEPT !.lock = TRUE]
  BY <1>2, SetsLockBit DEF LeafType
<1>5. \A p \in BNodes : bnode'[p] # bnode[p] =>
         ~bnode[p].lock /\ bnode'[p] = [bnode[p] EXCEPT !.lock = TRUE]
  BY <1>3, SetsNodeLockBit
<1> QED
  BY <1>1, <1>4, <1>5 DEF GoodWrites, LeafWrite, NodeWrite

\* The bnodes held by a thread in Part 3 of insert.
LEMMA ParentHeld ==
  ASSUME NEW sh, IInv(sh), NEW t \in Threads, AtParent(t)
  PROVE  parent(t) \in HeldNodes(t)
<1>1. pc[t] = "up" /\ lev[t] =< total[t] /\ lev[t] \in Int /\ pc[t] \in Splitting
  BY ThreadTypes DEF AtParent, IInv, Splitting, Climbing
<1>2. Base(t) + 1 = lev[t] /\ lev[t] =< sh.top[t] /\ sh.top[t] \in Int
  BY ParentKnows, <1>1, ShapeTypes DEF IInv
<1>3. GrowLevels(t, Base(t) + 1) = Base(t) + 1 .. sh.top[t]
  BY <1>1, LevelsToGrow
<1>4. lev[t] \in GrowLevels(t, lev[t])
  BY <1>1, <1>2, <1>3
<1>5. HeldNodes(t) = Path(t, GrowLevels(t, lev[t]))
  BY <1>1 DEF HeldNodes
<1> QED
  BY <1>4, <1>5 DEF Path, parent

\* A leaf from the pool is one never taken before.
LEMMA NewLeafAbove ==
  ASSUME NEW sh, IInv(sh), NEW t \in Threads, NEW a \in Leaves, AllocLeaf(t, a)
  PROVE  a > leafTop
<1>1. leafFree[t] = <<>> /\ leafTop \in Nat
  BY TakenTypes DEF IInv, LocalTypes
<1> QED
  BY <1>1 DEF AllocLeaf

\* The same of a bnode.
LEMMA NewNodeAbove ==
  ASSUME NEW sh, IInv(sh), NEW t \in Threads, NEW p \in BNodes, AllocNode(t, p)
  PROVE  -p > nodeTop
<1>1. nodeFree[t] = <<>> /\ nodeTop \in Nat
  BY TakenTypes DEF IInv, LocalTypes
<1> QED
  BY <1>1 DEF AllocNode

\* What Part 1 writes.
LEMMA SearchWrites ==
  ASSUME NEW sh, IInv(sh), NEW t \in Threads, Search(t), LeavesKeepKeys
  PROVE  GoodWrites
<1>1. CASE UNCHANGED <<leaf, bnode>>
  BY <1>1 DEF GoodWrites
<1>2. CASE InsertLock(t)
  <2>1. pc[t] = "descend"
    BY <1>2 DEF InsertLock, AtOpenLeaf, AtLeaf
  <2>2. leaf' = [leaf EXCEPT ![cur[t]].lock = TRUE] /\ leaf \in [Leaves -> LeafType]
    BY <1>2 DEF InsertLock, IInv, TypeOK
  <2>3. \A a \in Leaves : leaf'[a] = leaf[a] \/ leaf'[a] = [leaf[a] EXCEPT !.lock = TRUE]
    BY <2>2
  <2>4. LockNodes(t, Ancestors(t, InsertStops)) \/ UNCHANGED bnode
    BY <1>2 DEF InsertLock
  <2>5. \A p \in BNodes : bnode'[p] = bnode[p] \/ bnode'[p] = [bnode[p] EXCEPT !.lock = TRUE]
    BY <2>4 DEF LockNodes
  <2> QED
    BY <2>1, <2>3, <2>5, LockingWrites
<1>3. CASE DelLock(t)
  <2>1. pc[t] = "descend" /\ Cardinality(leaf[cur[t]].keys) # 1
    BY <1>3 DEF DelLock, AtOpenLeaf, AtLeaf, LeavesKeepKeys
  <2>2. leaf' = [leaf EXCEPT ![cur[t]].lock = TRUE] /\ leaf \in [Leaves -> LeafType]
    BY <1>3 DEF DelLock, IInv, TypeOK
  <2>3. \A a \in Leaves : leaf'[a] = leaf[a] \/ leaf'[a] = [leaf[a] EXCEPT !.lock = TRUE]
    BY <2>2
  <2>4. UNCHANGED bnode
    BY <1>3, <2>1 DEF DelLock
  <2> QED
    BY <2>1, <2>3, <2>4, LockingWrites
<1>4. ASSUME LockAndReadRoot(t) \/ LockAndReadLevel(t) \/ ReadLevel(t) \/ ReadRoot(t) \/ Descend(t)
      PROVE  UNCHANGED <<leaf, bnode>>
  BY <1>4 DEF LockAndReadRoot, LockAndReadLevel, ReadLevel, ReadRoot, Descend, shared
<1>5. ASSUME BlockedByLock(t) \/ LookupLeaf(t) \/ NothingToDo(t)
      PROVE  UNCHANGED <<leaf, bnode>>
  BY <1>5 DEF BlockedByLock, LookupLeaf, NothingToDo
<1> QED
  BY <1>1, <1>2, <1>3, <1>4, <1>5, NoRemoval DEF Search

\* What Parts 2 and 3 of insert write.
LEMMA InsertWrites ==
  ASSUME NEW sh, IInv(sh), NEW t \in Threads, Insert(t)
  PROVE  GoodWrites
<1>1. /\ pc \in [Threads -> Stages] /\ leaf \in [Leaves -> LeafType] /\ bnode \in [BNodes -> NodeType]
      /\ lev[t] \in Int /\ lev \in [Threads -> 0 .. MaxLevel]
  <2>1. TypeOK /\ LocalTypes
    BY DEF IInv
  <2>2. lev \in [Threads -> 0 .. MaxLevel]
    BY <2>1 DEF LocalTypes
  <2>3. lev[t] \in Int
    BY <2>2, Sizes
  <2>4. pc \in [Threads -> Stages]
    BY <2>1 DEF LocalTypes
  <2>5. leaf \in [Leaves -> LeafType] /\ bnode \in [BNodes -> NodeType]
    BY <2>1 DEF TypeOK
  <2> QED
    BY <2>2, <2>3, <2>4, <2>5
<1>2. pc[t] \in {"insert", "split", "lower"} => HeldLeaves(t) = {lp(t)}
  BY DEF HeldLeaves
<1>3. CASE InsertEntry(t)
  <2>1. pc[t] = "insert" /\ pc'[t] = "idle" /\ UNCHANGED bnode
    BY <1>1, <1>3 DEF InsertEntry, Return
  <2>2. \A a \in Leaves : leaf'[a] # leaf[a] => a = lp(t)
    BY <1>1, <1>3 DEF InsertEntry
  <2> QED
    BY <1>2, <2>1, <2>2, HolderWrites
<1>4. CASE SplitLeaf(t)
  <2>1. PICK newp \in Leaves : AllocLeaf(t, newp) /\ \A a \in Leaves : a # newp /\ a # lp(t) => leaf'[a] = leaf[a]
    BY <1>1, <1>4 DEF SplitLeaf
  <2>2. pc[t] = "split" /\ pc'[t] \in {"parent", "lower"} /\ UNCHANGED bnode
    BY <1>1, <1>4 DEF SplitLeaf, Goto
  <2>3. newp > leafTop
    BY <2>1, NewLeafAbove
  <2> QED
    BY <1>2, <2>1, <2>2, <2>3, HolderWrites
<1>5. CASE InsertLower(t)
  <2>1. pc[t] = "lower" /\ pc'[t] = "parent" /\ UNCHANGED bnode
    BY <1>1, <1>5 DEF InsertLower, Goto
  <2>2. \A a \in Leaves : leaf'[a] # leaf[a] => a = lp(t)
    BY <1>1, <1>5 DEF InsertLower
  <2> QED
    BY <1>2, <2>1, <2>2, HolderWrites
<1>6. CASE ReadTotalLevel(t)
  BY <1>6 DEF ReadTotalLevel, shared, GoodWrites
<1>7. CASE ParentShift(t)
  <2>1. AtParent(t) /\ pc[t] = "up" /\ pc'[t] = "count" /\ UNCHANGED leaf
    BY <1>1, <1>7 DEF ParentShift, Goto, AtParent
  <2>2. \A p \in BNodes : bnode'[p] # bnode[p] => p = parent(t)
    BY <1>1, <1>7 DEF ParentShift
  <2>3. parent(t) \in HeldNodes(t)
    BY <2>1, ParentHeld
  <2> QED
    BY <2>1, <2>2, <2>3, HolderWrites
<1>8. CASE ParentCount(t)
  <2>1. pc[t] = "count" /\ pc'[t] = "idle" /\ UNCHANGED leaf
    BY <1>1, <1>8 DEF ParentCount, Return
  <2>2. \A p \in BNodes : bnode'[p] # bnode[p] => p = parent(t)
    BY <1>1, <1>8 DEF ParentCount
  <2>3. parent(t) \in HeldNodes(t)
    BY <2>1 DEF HeldNodes
  <2> QED
    BY <2>1, <2>2, <2>3, HolderWrites
<1>9. CASE ParentSplit(t)
  <2>1. PICK newp \in BNodes : AllocNode(t, newp) /\ \A p \in BNodes : p # newp /\ p # parent(t) => bnode'[p] = bnode[p]
    BY <1>1, <1>9 DEF ParentSplit
  <2>2. AtParent(t) /\ lev' = [lev EXCEPT ![t] = lev[t] + 1] /\ leaf' = leaf
    BY <1>9 DEF ParentSplit
  <2>3. lev'[t] # lev[t]
    BY <1>1, <2>2
  <2>4. parent(t) \in HeldNodes(t) /\ -newp > nodeTop
    BY <2>1, <2>2, ParentHeld, NewNodeAbove
  <2> QED
    BY <2>1, <2>2, <2>3, <2>4, HolderWrites
<1>10. CASE GrowLevel(t)
  <2>1. PICK newp \in BNodes : AllocNode(t, newp) /\ \A p \in BNodes : p # newp => bnode'[p] = bnode[p]
    BY <1>1, <1>10 DEF GrowLevel
  <2>2. pc[t] = "up" /\ pc'[t] = "growRoot" /\ UNCHANGED leaf
    BY <1>1, <1>10 DEF GrowLevel, Goto
  <2>3. -newp > nodeTop
    BY <2>1, NewNodeAbove
  <2> QED
    BY <2>1, <2>2, <2>3, HolderWrites
<1>11. CASE GrowRoot(t)
  BY <1>11 DEF GrowRoot, GoodWrites
<1>12. CASE UnlockOldRoot(t)
  <2>1. pc[t] = "unlockOld" /\ pc'[t] = "unlockNew" /\ total[t] \in Nat
    BY <1>1, <1>12, ThreadTypes DEF UnlockOldRoot, Goto, IInv
  <2>2. /\ HeldLeaves(t) = (IF total[t] = 0 THEN {lp(t)} ELSE {})
        /\ HeldNodes(t) = {ptr[t], cur[t]} \cap BNodes
        /\ total[t] = 0 => cur[t] = lp(t)
    BY <2>1 DEF HeldLeaves, HeldNodes, IInv, ThreadOK, GrowOK
  <2>3. \A a \in Leaves : leaf'[a] # leaf[a] => a \in HeldLeaves(t)
    BY <1>1, <1>12, <2>1, <2>2 DEF UnlockOldRoot
  <2>4. \A p \in BNodes : bnode'[p] # bnode[p] => p \in HeldNodes(t)
    BY <1>1, <1>12, <2>1, <2>2 DEF UnlockOldRoot
  <2> QED
    BY <2>1, <2>3, <2>4, HolderWrites
<1>13. CASE UnlockNewRoot(t)
  <2>1. pc[t] = "unlockNew" /\ pc'[t] = "idle" /\ UNCHANGED leaf
    BY <1>1, <1>13 DEF UnlockNewRoot, Return
  <2>2. \A p \in BNodes : bnode'[p] # bnode[p] => p = ptr[t]
    BY <1>1, <1>13 DEF UnlockNewRoot
  <2>3. HeldNodes(t) = {ptr[t]}
    BY <2>1 DEF HeldNodes
  <2> QED
    BY <2>1, <2>2, <2>3, HolderWrites
<1> QED
  BY <1>3, <1>4, <1>5, <1>6, <1>7, <1>8, <1>9, <1>10, <1>11, <1>12, <1>13 DEF Insert

\* What Part 2 of del writes.
LEMMA DelWrites ==
  ASSUME NEW sh, IInv(sh), NEW t \in Threads, Del(t)
  PROVE  GoodWrites
<1>1. DeleteEntry(t)
  BY NoRemoval DEF Del
<1>2. pc \in [Threads -> Stages] /\ leaf \in [Leaves -> LeafType] /\ sib[t] = NULL
  BY DEF IInv, TypeOK, LocalTypes
<1>3. pc[t] = "leafDel" /\ pc'[t] = "idle" /\ UNCHANGED bnode
  BY <1>1, <1>2 DEF DeleteEntry, Return
<1>4. \A a \in Leaves : leaf'[a] # leaf[a] => a = lp(t)
  BY <1>1, <1>2 DEF DeleteEntry
<1>5. HeldLeaves(t) = {lp(t), sib[t]} \ {NULL}
  BY <1>3 DEF HeldLeaves
<1>6. \A a \in Leaves : a # NULL
  BY Addresses
<1> QED
  BY <1>3, <1>4, <1>5, <1>6, HolderWrites

\* Every step writes as it should.
LEMMA NextWrites ==
  ASSUME Shaped, LeavesKeepKeys, [Next]_vars
  PROVE  GoodWrites
<1> PICK sh : IInv(sh)
  BY DEF Shaped
<1>1. CASE UNCHANGED <<leaf, bnode>>
  BY <1>1 DEF GoodWrites
<1>2. ASSUME NEW t \in Threads, Step(t) PROVE GoodWrites
  BY <1>2, SearchWrites, InsertWrites, DelWrites DEF Step
<1> QED
  BY <1>1, <1>2 DEF Next, Join, Call, vars, shared

\* A node in use changes only by the hand of the call that holds it, except
\* that Part 1 sets lock bits under the mutex.
THEOREM HoldersWrite == Spec /\ Loaded /\ []Undisturbed => OnlyHolderWrites
<1>1. Shaped /\ Undisturbed /\ [Next]_vars => [GoodWrites]_vars
  BY NextWrites DEF Undisturbed
<1> QED
  BY <1>1, Invariant, PTL DEF Spec, OnlyHolderWrites

-----------------------------------------------------------------------------
(***************************************************************************)
(* The sibling chain.                                                      *)
(***************************************************************************)
NextLeaf(a) == IF a = NULL THEN NULL ELSE leaf[a].next
\* c is the chain up to its n-th place.
IsChain(c, n) == c = [i \in 1 .. n |-> IF i = 1 THEN first_leaf ELSE NextLeaf(c[i - 1])]

\* The chain's equation has a solution.
LEMMA ChainExists ==
  ASSUME NEW n \in Nat, 1 =< n
  PROVE  \E c : IsChain(c, n)
<1> DEFINE Bad == {m \in Nat : 1 =< m /\ ~ \E c : IsChain(c, m)}
<1> SUFFICES ASSUME n \in Bad PROVE FALSE
  OBVIOUS
<1>1. PICK m \in Bad : \A x \in Bad : m =< x
  BY Least
<1>2. m \in Nat /\ 1 =< m /\ ~ \E c : IsChain(c, m)
  OBVIOUS
<1>3. CASE m = 1
  <2> DEFINE c == [i \in 1 .. 1 |-> first_leaf]
  <2>1. c = [i \in 1 .. 1 |-> IF i = 1 THEN first_leaf ELSE NextLeaf(c[i - 1])]
    OBVIOUS
  <2> QED
    BY <1>2, <1>3, <2>1 DEF IsChain
<1>4. CASE m # 1
  <2>1. m - 1 \in Nat /\ 1 =< m - 1 /\ m - 1 \notin Bad
    BY <1>1, <1>2, <1>4
  <2>2. PICK c : IsChain(c, m - 1)
    BY <2>1
  <2> DEFINE d == [i \in 1 .. m |-> IF i < m THEN c[i] ELSE NextLeaf(c[m - 1])]
  <2>3. \A i \in 1 .. m - 1 : c[i] = IF i = 1 THEN first_leaf ELSE NextLeaf(c[i - 1])
    BY <2>2 DEF IsChain
  <2>4. \A i \in 1 .. m : d[i] = IF i = 1 THEN first_leaf ELSE NextLeaf(d[i - 1])
    <3>1. \A i \in 1 .. m - 1 : d[i] = c[i] /\ (i # 1 => i - 1 \in 1 .. m /\ d[i - 1] = c[i - 1])
      BY <1>2
    <3>2. d[m] = NextLeaf(c[m - 1]) /\ d[m - 1] = c[m - 1]
      BY <1>2, <2>1
    <3>3. \A i \in 1 .. m : i = m \/ i \in 1 .. m - 1
      BY <1>2
    <3> HIDE DEF d
    <3> QED
      BY <1>4, <2>3, <3>1, <3>2, <3>3
  <2>5. d = [i \in 1 .. m |-> d[i]]
    OBVIOUS
  <2>6. IsChain(d, m)
    <3> HIDE DEF d
    <3>1. [i \in 1 .. m |-> d[i]] = [i \in 1 .. m |-> IF i = 1 THEN first_leaf ELSE NextLeaf(d[i - 1])]
      BY <2>4
    <3> QED
      BY <2>5, <3>1 DEF IsChain
  <2> QED
    BY <1>2, <2>6
<1> QED
  BY <1>3, <1>4

\* ChainSeq starts at first_leaf and follows the next pointers.
LEMMA ChainFollows ==
  ASSUME MaxLeaf \in Nat
  PROVE  /\ ChainSeq[1] = first_leaf
         /\ \A i \in 1 .. MaxLeaf : ChainSeq[i + 1] = NextLeaf(ChainSeq[i])
<1>1. ChainSeq = CHOOSE c : IsChain(c, MaxLeaf + 1)
  BY DEF ChainSeq, IsChain, NextLeaf
<1>2. IsChain(ChainSeq, MaxLeaf + 1)
  BY <1>1, ChainExists
<1>3. \A i \in 1 .. MaxLeaf + 1 :
         ChainSeq[i] = IF i = 1 THEN first_leaf ELSE NextLeaf(ChainSeq[i - 1])
  BY <1>2 DEF IsChain
<1>4. 1 \in 1 .. MaxLeaf + 1 /\ \A i \in 1 .. MaxLeaf : i + 1 \in 1 .. MaxLeaf + 1 /\ i + 1 # 1 /\ (i + 1) - 1 = i
  OBVIOUS
<1> QED
  BY <1>3, <1>4

\* Where the leaves of the chain come from and lead to.
LEMMA NextOfTaken ==
  ASSUME NEW sh, IInv(sh), NEW a \in TakenLeaves
  PROVE  /\ NextLeaf(a) = NULL \/ NextLeaf(a) \in TakenLeaves
         /\ NextLeaf(a) # NULL => sh.lo[NextLeaf(a)] = sh.hi[a] /\ sh.lo[a] < sh.lo[NextLeaf(a)]
         /\ a # NULL /\ a \in Leaves /\ a \in Taken /\ sh.lo[a] \in Int /\ Low =< sh.lo[a]
<1>1. a \in Leaves /\ a \in Taken
  BY TakenTypes DEF IInv, Taken
<1>2. a # NULL
  BY <1>1, Addresses
<1>3. LeafFits(sh, a)
  BY DEF IInv, TreeFits
<1>4. sh.lo[a] \in Int /\ sh.hi[a] \in Int /\ sh.lo[a] < sh.hi[a] /\ Low =< sh.lo[a]
  BY <1>1, Numbers
<1> QED
  BY <1>1, <1>2, <1>3, <1>4 DEF LeafFits, NextLeaf

\* The chain holds no leaf that was not taken.
LEMMA ChainTaken ==
  ASSUME NEW sh, IInv(sh), NEW i \in 1 .. MaxLeaf + 1
  PROVE  ChainSeq[i] = NULL \/ ChainSeq[i] \in TakenLeaves
<1> DEFINE Good(m) == ChainSeq[m] = NULL \/ ChainSeq[m] \in TakenLeaves
           Bad == {m \in Nat : m \in 1 .. MaxLeaf + 1 /\ ~Good(m)}
<1>0. MaxLeaf \in Nat
  BY Sizes
<1> SUFFICES ASSUME i \in Bad PROVE FALSE
  BY <1>0
<1>1. PICK m \in Bad : \A x \in Bad : m =< x
  BY Least
<1>2. m \in 1 .. MaxLeaf + 1 /\ ~Good(m) /\ m \in Nat
  OBVIOUS
<1>3. Good(1)
  BY <1>0, ChainFollows DEF IInv, TreeFits, Root
<1>4. m - 1 \in 1 .. MaxLeaf /\ m - 1 \notin Bad /\ (m - 1) + 1 = m /\ m - 1 \in Nat
  BY <1>0, <1>1, <1>2, <1>3
<1>5. Good(m - 1)
  BY <1>0, <1>4
<1>6. ChainSeq[m] = NextLeaf(ChainSeq[m - 1])
  BY <1>0, <1>4, ChainFollows
<1> QED
  BY <1>2, <1>5, <1>6, NextOfTaken DEF NextLeaf

\* The ranges of the leaves ascend along the chain.
LEMMA ChainAscends ==
  ASSUME NEW sh, IInv(sh), NEW i \in 1 .. MaxLeaf + 1, NEW j \in 1 .. MaxLeaf + 1, i < j,
         ChainSeq[j] # NULL
  PROVE  ChainSeq[i] # NULL /\ sh.lo[ChainSeq[i]] < sh.lo[ChainSeq[j]]
<1> DEFINE Good(m) == ChainSeq[m] # NULL =>
                        ChainSeq[i] # NULL /\ sh.lo[ChainSeq[i]] < sh.lo[ChainSeq[m]]
           Bad == {m \in Nat : m \in 1 .. MaxLeaf + 1 /\ i < m /\ ~Good(m)}
<1>0. MaxLeaf \in Nat
  BY Sizes
<1> SUFFICES ASSUME j \in Bad PROVE FALSE
  BY <1>0
<1>1. PICK m \in Bad : \A x \in Bad : m =< x
  BY Least
<1>2. m \in 1 .. MaxLeaf + 1 /\ i < m /\ ~Good(m) /\ m \in Nat
  OBVIOUS
<1>3. m - 1 \in 1 .. MaxLeaf /\ m - 1 \notin Bad /\ (m - 1) + 1 = m /\ m - 1 \in Nat
      /\ m - 1 \in 1 .. MaxLeaf + 1
  BY <1>0, <1>1, <1>2
<1>4. ChainSeq[m] = NextLeaf(ChainSeq[m - 1]) /\ ChainSeq[m] # NULL
  BY <1>0, <1>2, <1>3, ChainFollows
<1>5. ChainSeq[m - 1] # NULL /\ ChainSeq[m - 1] \in TakenLeaves
  BY <1>3, <1>4, ChainTaken DEF NextLeaf
<1>6. ChainSeq[m] \in TakenLeaves
  BY <1>2, <1>4, ChainTaken
<1>7. sh.lo[ChainSeq[m - 1]] < sh.lo[ChainSeq[m]]
  BY <1>4, <1>5, NextOfTaken
<1>8. sh.lo[ChainSeq[m]] \in Int /\ sh.lo[ChainSeq[m - 1]] \in Int
  BY <1>5, <1>6, NextOfTaken
<1>9. CASE m - 1 = i
  BY <1>2, <1>5, <1>7, <1>9
<1>10. CASE m - 1 # i
  <2>1. i < m - 1
    BY <1>0, <1>2, <1>10
  <2>2. Good(m - 1)
    BY <1>3, <2>1
  <2>3. ChainSeq[i] \in TakenLeaves
    BY <1>5, <2>2, ChainTaken
  <2>4. sh.lo[ChainSeq[i]] \in Int
    BY <2>3, NextOfTaken
  <2> QED
    BY <1>2, <1>5, <1>7, <1>8, <2>2, <2>4
<1> QED
  BY <1>9, <1>10

\* The chain ends.
LEMMA ChainEnds ==
  ASSUME NEW sh, IInv(sh)
  PROVE  ChainSeq[MaxLeaf + 1] = NULL
<1> SUFFICES ASSUME ChainSeq[MaxLeaf + 1] # NULL PROVE FALSE
  OBVIOUS
<1>0. MaxLeaf \in Nat /\ MaxLeaf + 1 \in 1 .. MaxLeaf + 1
  BY Sizes
<1>1. \A i \in 1 .. MaxLeaf + 1 : ChainSeq[i] # NULL
  BY <1>0, ChainAscends
<1>2. \A i \in 1 .. MaxLeaf + 1 : ChainSeq[i] \in TakenLeaves /\ ChainSeq[i] \in Leaves
  BY <1>1, ChainTaken, TakenTypes DEF IInv
<1> DEFINE f == [i \in 1 .. MaxLeaf + 1 |-> ChainSeq[i]]
<1>3. f \in [1 .. MaxLeaf + 1 -> Leaves]
  BY <1>2
<1>4. IsFiniteSet(1 .. MaxLeaf + 1) /\ IsFiniteSet(Leaves) /\ Cardinality(Leaves) < Cardinality(1 .. MaxLeaf + 1)
  <2>1. /\ IsFiniteSet(1 .. MaxLeaf + 1)
        /\ Cardinality(1 .. MaxLeaf + 1) = IF 1 > MaxLeaf + 1 THEN 0 ELSE (MaxLeaf + 1) - 1 + 1
    BY <1>0, FS_Interval
  <2>2. IsFiniteSet(1 .. MaxLeaf) /\ Cardinality(1 .. MaxLeaf) = IF 1 > MaxLeaf THEN 0 ELSE MaxLeaf - 1 + 1
    BY <1>0, FS_Interval
  <2>3. Cardinality(1 .. MaxLeaf) < Cardinality(1 .. MaxLeaf + 1)
    BY <1>0, <2>1, <2>2
  <2> QED
    BY <2>1, <2>2, <2>3 DEF Leaves
<1>5. PICK x, y \in 1 .. MaxLeaf + 1 : x # y /\ f[x] = f[y]
  <2> HIDE DEF f
  <2> QED
    BY <1>3, <1>4, FS_PigeonHole
<1>6. ChainSeq[x] = ChainSeq[y]
  BY <1>5
<1>7. \A i, j \in 1 .. MaxLeaf + 1 : i < j => sh.lo[ChainSeq[i]] < sh.lo[ChainSeq[j]]
  BY <1>1, ChainAscends
<1>8. sh.lo[ChainSeq[x]] \in Int
  BY <1>2, NextOfTaken
<1>9. x < y \/ y < x
  BY <1>0, <1>5
<1> QED
  BY <1>6, <1>7, <1>8, <1>9

\* Every leaf taken is in the chain, and no other.
LEMMA ChainIsTaken ==
  ASSUME NEW sh, IInv(sh)
  PROVE  InChain = TakenLeaves
<1>0. MaxLeaf \in Nat /\ 1 \in 1 .. MaxLeaf + 1 /\ Low \in Int
  BY Sizes
<1>1. InChain \subseteq TakenLeaves
  BY ChainTaken DEF InChain
<1>2. ASSUME NEW a0 \in TakenLeaves, a0 \notin InChain PROVE FALSE
  <2> DEFINE S == {n \in Nat : \E a \in TakenLeaves : a \notin InChain /\ n = sh.lo[a] - Low}
  <2>1. sh.lo[a0] - Low \in S
    <3>1. sh.lo[a0] - Low \in Nat
      BY <1>0, NextOfTaken
    <3> QED
      BY <1>2, <3>1
  <2>2. PICK n \in S : \A x \in S : n =< x
    BY <2>1, Least
  <2>3. PICK a \in TakenLeaves : a \notin InChain /\ n = sh.lo[a] - Low
    OBVIOUS
  <2>4. a # first_leaf /\ a # NULL /\ sh.lo[a] \in Int
    <3>1. a # NULL /\ sh.lo[a] \in Int
      BY NextOfTaken
    <3>2. a # ChainSeq[1]
      BY <1>0, <2>3, <3>1 DEF InChain
    <3> QED
      BY <1>0, <3>1, <3>2, ChainFollows
  <2>5. PICK b \in TakenLeaves : leaf[b].next = a
    BY <2>4 DEF IInv, TreeFits, LeafFits
  <2>6. /\ NextLeaf(b) = a /\ b # NULL
        /\ sh.lo[b] < sh.lo[a] /\ sh.lo[b] \in Int /\ Low =< sh.lo[b]
    <3>1. NextLeaf(b) = a /\ b # NULL
      BY <2>5, NextOfTaken DEF NextLeaf
    <3> QED
      BY <2>4, <3>1, NextOfTaken
  <2>7. b \in InChain
    <3> SUFFICES ASSUME b \notin InChain PROVE FALSE
      OBVIOUS
    <3>1. sh.lo[b] - Low \in S
      <4>1. sh.lo[b] - Low \in Nat
        BY <1>0, <2>6
      <4> QED
        BY <4>1
    <3>2. n =< sh.lo[b] - Low
      BY <2>2, <3>1
    <3> QED
      BY <1>0, <2>3, <2>4, <2>6, <3>2
  <2>8. PICK i \in 1 .. MaxLeaf + 1 : ChainSeq[i] = b
    BY <2>7 DEF InChain
  <2>9. i # MaxLeaf + 1
    BY <2>6, <2>8, ChainEnds
  <2>10. i \in 1 .. MaxLeaf /\ i + 1 \in 1 .. MaxLeaf + 1
    BY <1>0, <2>9
  <2>11. ChainSeq[i + 1] = a
    BY <1>0, <2>6, <2>8, <2>10, ChainFollows
  <2> QED
    BY <2>3, <2>4, <2>10, <2>11 DEF InChain
<1> QED
  BY <1>1, <1>2

\* The chain from first_leaf ends, has no empty leaf, and its keys ascend.
LEMMA ShapedChain ==
  ASSUME Shaped
  PROVE  ChainOrdered
<1> PICK sh : IInv(sh)
  BY DEF Shaped
<1>1. ChainSeq[MaxLeaf + 1] = NULL
  BY ChainEnds
<1>2. \A a \in InChain : ~FreedLeaf(a) /\ (leaf[a].keys = {} => a = tree_root)
  BY ChainIsTaken, LeavesAsTheyAre, NothingFreed DEF IInv
<1>3. ASSUME NEW i \in 1 .. MaxLeaf, ChainSeq[i] # NULL, ChainSeq[i + 1] # NULL
      PROVE  Below(leaf[ChainSeq[i]].keys, leaf[ChainSeq[i + 1]].keys)
  <2>1. MaxLeaf \in Nat /\ i \in 1 .. MaxLeaf + 1 /\ i + 1 \in 1 .. MaxLeaf + 1
    BY Sizes
  <2> PICK a, b : a = ChainSeq[i] /\ b = ChainSeq[i + 1]
    OBVIOUS
  <2>2. a \in TakenLeaves /\ b \in TakenLeaves /\ b = NextLeaf(a)
    BY <1>3, <2>1, ChainTaken, ChainFollows
  <2>3. sh.lo[b] = sh.hi[a] /\ sh.hi[a] \in Int
    BY <1>3, <2>2, NextOfTaken, Numbers
  <2>4. /\ \A x \in leaf[a].keys : x < sh.hi[a] /\ x \in Int
        /\ \A x \in leaf[b].keys : sh.lo[b] =< x /\ x \in Int
    BY <2>2, LeavesAsTheyAre, LeafTypes, Sizes DEF IInv
  <2>5. Below(leaf[a].keys, leaf[b].keys)
    BY <2>3, <2>4 DEF Below
  <2> QED
    BY <2>5
<1> QED
  BY <1>1, <1>2, <1>3 DEF ChainOrdered

\* Every leaf taken from the pool is in the chain, and nothing else is.
LEMMA ShapedLeaves ==
  ASSUME Shaped
  PROVE  LeavesAccounted
<1> PICK sh : IInv(sh)
  BY DEF Shaped
<1> DEFINE freed == {f \in Threads \X (1 .. MaxLeaf) : f[2] =< Len(leafFree[f[1]])}
           unlinked == {t \in Threads : pc[t] = "freeLeaf"}
<1>1. freed = {}
  <2>1. \A f \in Threads \X (1 .. MaxLeaf) : leafFree[f[1]] = <<>> /\ f[2] \in 1 .. MaxLeaf
    BY DEF IInv, LocalTypes
  <2>2. Len(<<>>) = 0 /\ MaxLeaf \in Nat
    BY Sizes
  <2> QED
    BY <2>1, <2>2
<1>2. unlinked = {}
  <2>1. \A t \in Threads : pc[t] \in Stages
    BY DEF IInv, LocalTypes
  <2> QED
    BY <2>1 DEF Stages
<1>3. InChain = 1 .. leafTop /\ leafTop \in Nat
  BY ChainIsTaken, TakenTypes DEF IInv, TakenLeaves
<1>4. Cardinality({}) = 0
  BY FS_EmptySet
<1>5. ASSUME NEW a \in 1 .. leafTop
      PROVE  Cardinality({f \in freed : leafFree[f[1]][f[2]] = a})
             + Cardinality({t \in unlinked : lp(t) = a})
             + (IF a \in InChain THEN 1 ELSE 0) = 1
  <2>1. {f \in freed : leafFree[f[1]][f[2]] = a} = {}
    BY <1>1
  <2>2. {t \in unlinked : lp(t) = a} = {}
    BY <1>2
  <2>3. Cardinality({f \in freed : leafFree[f[1]][f[2]] = a}) = 0
    BY <1>4, <2>1
  <2>4. Cardinality({t \in unlinked : lp(t) = a}) = 0
    BY <1>4, <2>2
  <2>5. (IF a \in InChain THEN 1 ELSE 0) = 1
    BY <1>3
  <2> HIDE DEF freed, unlinked
  <2> QED
    BY <2>3, <2>4, <2>5
<1>6. \A a \in Leaves : a > leafTop => a \notin InChain
  BY <1>3
<1> QED
  BY <1>5, <1>6 DEF LeavesAccounted

\* The chain of the leaves is in order whatever splits are under way.
THEOREM ChainInOrder == Spec /\ Loaded /\ []Undisturbed => []ChainOrdered
BY ShapedChain, Invariant, PTL

\* No leaf is lost.
THEOREM NoLeafLost == Spec /\ Loaded /\ []Undisturbed => []LeavesAccounted
BY ShapedLeaves, Invariant, PTL

-----------------------------------------------------------------------------
(***************************************************************************)
(* What check() finds.                                                     *)
(***************************************************************************)
\* Where a node's children can be.
Nodes == Leaves \cup BNodes \cup {NULL}
\* The leaves under w, from those of the level below that f gives.
ListOf(f, w) ==
    IF w[1] = 0 \/ w[2] \notin BNodes THEN <<w[2]>>
    ELSE SX!FlattenSeq([i \in 1 .. bnode[w[2]].num + 1 |->
                          f[<<w[1] - 1, bnode[w[2]].ch[i - 1]>>]])
\* f lists the leaves under each node up to level n.
IsListing(f, n) == f = [w \in (0 .. n) \X Nodes |-> ListOf(f, w)]

\* The list of a node depends on those of the level below.
LEMMA SameList ==
  ASSUME TypeOK, NEW f, NEW d, NEW n \in 0 .. MaxLevel, NEW p \in Nodes,
         n # 0 => \A q \in Nodes : f[<<n - 1, q>>] = d[<<n - 1, q>>]
  PROVE  ListOf(f, <<n, p>>) = ListOf(d, <<n, p>>)
<1>1. CASE n = 0 \/ p \notin BNodes
  BY <1>1 DEF ListOf
<1>2. CASE n # 0 /\ p \in BNodes
  <2>1. /\ bnode[p].num \in 0 .. NON_LEAF_KEY_NUM
        /\ bnode[p].ch \in [0 .. NON_LEAF_KEY_NUM -> Nodes]
    BY <1>2, NodeTypes DEF Nodes
  <2>2. ASSUME NEW i \in 1 .. bnode[p].num + 1 PROVE bnode[p].ch[i - 1] \in Nodes
    <3>1. i - 1 \in 0 .. NON_LEAF_KEY_NUM
      BY <2>1, Sizes
    <3> QED BY <2>1, <3>1
  <2>3. [i \in 1 .. bnode[p].num + 1 |-> f[<<n - 1, bnode[p].ch[i - 1]>>]]
          = [i \in 1 .. bnode[p].num + 1 |-> d[<<n - 1, bnode[p].ch[i - 1]>>]]
    BY <1>2, <2>2
  <2> QED
    BY <1>2, <2>3 DEF ListOf
<1> QED
  BY <1>1, <1>2

\* The equation of LeavesUnder has a solution.
LEMMA ListingExists ==
  ASSUME TypeOK, NEW n \in 0 .. MaxLevel
  PROVE  \E f : IsListing(f, n)
<1> DEFINE Bad == {m \in Nat : m =< MaxLevel /\ ~ \E f : IsListing(f, m)}
<1>0. MaxLevel \in Nat
  BY Sizes
<1> SUFFICES ASSUME n \in Bad PROVE FALSE
  BY <1>0
<1>1. PICK m \in Bad : \A x \in Bad : m =< x
  BY Least
<1>2. m \in Nat /\ m =< MaxLevel /\ ~ \E f : IsListing(f, m)
  OBVIOUS
<1>3. CASE m = 0
  <2> DEFINE f == [w \in (0 .. 0) \X Nodes |-> <<w[2]>>]
  <2>1. \A w \in (0 .. 0) \X Nodes : ListOf(f, w) = <<w[2]>>
    BY DEF ListOf
  <2>2. f = [w \in (0 .. 0) \X Nodes |-> ListOf(f, w)]
    <3> HIDE DEF ListOf
    <3> QED BY <2>1
  <2> QED
    BY <1>2, <1>3, <2>2 DEF IsListing
<1>4. CASE m # 0
  <2>1. m - 1 \in Nat /\ m - 1 =< MaxLevel /\ m - 1 \notin Bad
    BY <1>0, <1>1, <1>2, <1>4
  <2>2. PICK f : IsListing(f, m - 1)
    BY <2>1
  <2>3. \A w \in (0 .. m - 1) \X Nodes : f[w] = ListOf(f, w)
    <3> HIDE DEF ListOf
    <3> QED BY <2>2 DEF IsListing
  <2> DEFINE d == [w \in (0 .. m) \X Nodes |-> IF w[1] < m THEN f[w] ELSE ListOf(f, w)]
  <2>4. ASSUME NEW l \in 0 .. m, NEW p \in Nodes
        PROVE  d[<<l, p>>] = ListOf(d, <<l, p>>)
    <3>1. d[<<l, p>>] = IF l < m THEN f[<<l, p>>] ELSE ListOf(f, <<l, p>>)
      OBVIOUS
    <3>2. l < m => <<l, p>> \in (0 .. m - 1) \X Nodes
      BY <1>2
    <3>3. d[<<l, p>>] = ListOf(f, <<l, p>>)
      BY <2>3, <3>1, <3>2
    <3>4. ASSUME l # 0, NEW q \in Nodes PROVE f[<<l - 1, q>>] = d[<<l - 1, q>>]
      <4>1. l - 1 \in 0 .. m /\ l - 1 < m
        BY <1>2, <3>4
      <4> QED BY <4>1
    <3>5. l \in 0 .. MaxLevel
      BY <1>0, <1>2
    <3>6. ListOf(f, <<l, p>>) = ListOf(d, <<l, p>>)
      <4> HIDE DEF d
      <4> QED BY <3>4, <3>5, SameList
    <3> QED BY <3>3, <3>6
  <2>5. d = [w \in (0 .. m) \X Nodes |-> d[w]]
    OBVIOUS
  <2>6. \A w \in (0 .. m) \X Nodes : d[w] = ListOf(d, w)
    <3> HIDE DEF d
    <3>1. \A w \in (0 .. m) \X Nodes : w = <<w[1], w[2]>> /\ w[1] \in 0 .. m /\ w[2] \in Nodes
      OBVIOUS
    <3> QED BY <2>4, <3>1
  <2>7. IsListing(d, m)
    <3> HIDE DEF d
    <3> QED BY <2>5, <2>6 DEF IsListing
  <2> QED
    BY <1>2, <2>7
<1> QED
  BY <1>3, <1>4

\* LeavesUnder gives each node of each level its list.
LEMMA ListIs ==
  ASSUME TypeOK, NEW l \in 0 .. MaxLevel, NEW p \in Nodes
  PROVE  LeavesUnder[<<l, p>>] = ListOf(LeavesUnder, <<l, p>>)
<1>1. MaxLevel \in 0 .. MaxLevel
  BY Sizes
<1>2. LeavesUnder = CHOOSE f : IsListing(f, MaxLevel)
  BY DEF LeavesUnder, IsListing, ListOf, Nodes
<1>3. IsListing(LeavesUnder, MaxLevel)
  BY <1>1, <1>2, ListingExists
<1>4. <<l, p>> \in (0 .. MaxLevel) \X Nodes
  OBVIOUS
<1> QED
  BY <1>3, <1>4 DEF IsListing

\* F is the concatenation of the first sequences of ss, for each number of them.
IsFlat(F, ss, n) == F = [i \in 1 .. n |-> IF i = 1 THEN ss[i] ELSE F[i - 1] \o ss[i]]

\* The equation of FlattenSeq has a solution.
LEMMA FlatExists ==
  ASSUME NEW ss, NEW n \in Nat, 1 =< n
  PROVE  \E F : IsFlat(F, ss, n)
<1> DEFINE Bad == {m \in Nat : 1 =< m /\ ~ \E c : IsFlat(c, ss, m)}
<1> SUFFICES ASSUME n \in Bad PROVE FALSE
  OBVIOUS
<1>1. PICK m \in Bad : \A x \in Bad : m =< x
  BY Least
<1>2. m \in Nat /\ 1 =< m /\ ~ \E c : IsFlat(c, ss, m)
  OBVIOUS
<1>3. CASE m = 1
  <2> DEFINE c == [i \in 1 .. 1 |-> ss[1]]
  <2>1. c = [i \in 1 .. 1 |-> IF i = 1 THEN ss[i] ELSE c[i - 1] \o ss[i]]
    OBVIOUS
  <2> QED
    BY <1>2, <1>3, <2>1 DEF IsFlat
<1>4. CASE m # 1
  <2>1. m - 1 \in Nat /\ 1 =< m - 1 /\ m - 1 \notin Bad
    BY <1>1, <1>2, <1>4
  <2>2. PICK c : IsFlat(c, ss, m - 1)
    BY <2>1
  <2>7. PICK x : x = c[m - 1] \o ss[m]
    OBVIOUS
  <2> DEFINE d == [i \in 1 .. m |-> IF i < m THEN c[i] ELSE x]
  <2>3. \A i \in 1 .. m - 1 : c[i] = IF i = 1 THEN ss[i] ELSE c[i - 1] \o ss[i]
    BY <2>2 DEF IsFlat
  <2>4. \A i \in 1 .. m : d[i] = IF i = 1 THEN ss[i] ELSE d[i - 1] \o ss[i]
    <3>1. \A i \in 1 .. m - 1 : d[i] = c[i] /\ (i # 1 => i - 1 \in 1 .. m /\ d[i - 1] = c[i - 1])
      BY <1>2
    <3>2. d[m] = x /\ d[m - 1] = c[m - 1]
      BY <1>2, <2>1
    <3>3. \A i \in 1 .. m : i = m \/ i \in 1 .. m - 1
      BY <1>2
    <3> HIDE DEF d
    <3>4. d[m] = d[m - 1] \o ss[m]
      BY <2>7, <3>2
    <3> QED
      BY <1>4, <2>3, <3>1, <3>3, <3>4
  <2>5. d = [i \in 1 .. m |-> d[i]]
    OBVIOUS
  <2>6. IsFlat(d, ss, m)
    <3> HIDE DEF d
    <3>1. [i \in 1 .. m |-> d[i]] = [i \in 1 .. m |-> IF i = 1 THEN ss[i] ELSE d[i - 1] \o ss[i]]
      BY <2>4
    <3> QED
      BY <2>5, <3>1 DEF IsFlat
  <2> QED
    BY <1>2, <2>6
<1> QED
  BY <1>3, <1>4

\* FlattenSeq is the last of the concatenations.
LEMMA FlattenIs ==
  ASSUME NEW ss, NEW n \in Nat, 1 =< n, Len(ss) = n
  PROVE  \E F : IsFlat(F, ss, n) /\ SX!FlattenSeq(ss) = F[n]
<1> DEFINE F == CHOOSE c : IsFlat(c, ss, n)
<1>1. IsFlat(F, ss, n)
  BY FlatExists
<1>2. SX!FlattenSeq(ss) = F[n]
  BY DEF SX!FlattenSeq, IsFlat
<1> QED
  BY <1>1, <1>2

-----------------------------------------------------------------------------
\* s lists leaves one behind the other, whose ranges fill low .. high - 1.
IsRun(sh, s, low, high) ==
    /\ s \in Seq(TakenLeaves) /\ 1 =< Len(s)
    /\ sh.lo[s[1]] = low /\ sh.hi[s[Len(s)]] = high
    /\ \A i \in 1 .. Len(s) : low =< sh.lo[s[i]] /\ sh.hi[s[i]] =< high
    /\ \A i \in 1 .. Len(s) - 1 : sh.hi[s[i]] = sh.lo[s[i + 1]]

\* The range of a run is not empty.
LEMMA RunGoesUp ==
  ASSUME NEW sh, IInv(sh), NEW s, NEW low \in Int, NEW high \in Int, IsRun(sh, s, low, high)
  PROVE  low < high
<1>1. s[1] \in TakenLeaves /\ 1 \in 1 .. Len(s)
  BY DEF IsRun
<1>2. s[1] \in Taken
  BY <1>1 DEF Taken
<1>3. sh.lo[s[1]] \in Int /\ sh.hi[s[1]] \in Int /\ sh.lo[s[1]] < sh.hi[s[1]]
  BY <1>2, Numbers
<1>4. sh.lo[s[1]] = low /\ sh.hi[s[1]] =< high
  BY <1>1 DEF IsRun
<1> QED
  BY <1>3, <1>4

\* A run and the one that goes on where it ends are one run.
LEMMA RunsJoin ==
  ASSUME NEW sh, IInv(sh), NEW s, NEW r, NEW low \in Int, NEW mid \in Int, NEW high \in Int,
         IsRun(sh, s, low, mid), IsRun(sh, r, mid, high)
  PROVE  IsRun(sh, s \o r, low, high)
<1>1. /\ s \in Seq(TakenLeaves) /\ 1 =< Len(s) /\ r \in Seq(TakenLeaves) /\ 1 =< Len(r)
      /\ Len(s) \in Nat /\ Len(r) \in Nat
  BY DEF IsRun
<1>2. low < mid /\ mid < high
  BY RunGoesUp
<1> PICK q, m, n, l : q = s \o r /\ m = Len(s) /\ n = Len(r) /\ l = Len(q)
  OBVIOUS
<1>3. /\ q \in Seq(TakenLeaves) /\ l = m + n /\ m \in Nat /\ n \in Nat /\ 1 =< m /\ 1 =< n
      /\ \A i \in 1 .. m : q[i] = s[i]
      /\ \A i \in 1 .. n : q[m + i] = r[i]
  BY <1>1
<1>4. \A i \in 1 .. l : q[i] \in TakenLeaves
  BY <1>3
<1>5. \A i \in 1 .. l : sh.lo[q[i]] \in Int /\ sh.hi[q[i]] \in Int
  BY <1>4, Numbers DEF Taken
<1>6. q[1] = s[1] /\ q[l] = r[n]
  BY <1>3
<1>7. sh.lo[q[1]] = low /\ sh.hi[q[l]] = high
  BY <1>6 DEF IsRun
<1>8. \A i \in 1 .. m : low =< sh.lo[s[i]] /\ sh.hi[s[i]] =< mid
  BY DEF IsRun
<1>9. \A i \in 1 .. n : mid =< sh.lo[r[i]] /\ sh.hi[r[i]] =< high
  BY DEF IsRun
<1>10. ASSUME NEW i \in 1 .. l PROVE low =< sh.lo[q[i]] /\ sh.hi[q[i]] =< high
  <2>1. CASE i =< m
    <3>1. i \in 1 .. m /\ q[i] = s[i]
      BY <1>3, <2>1
    <3>2. low =< sh.lo[q[i]] /\ sh.hi[q[i]] =< mid
      BY <1>8, <3>1
    <3>3. sh.lo[q[i]] \in Int /\ sh.hi[q[i]] \in Int
      BY <1>5
    <3> QED BY ONLY <1>2, <3>2, <3>3, low \in Int, mid \in Int, high \in Int
  <2>2. CASE m < i
    <3>0. m \in Nat /\ n \in Nat /\ l = m + n
      BY <1>3
    <3>1. i - m \in 1 .. n /\ m + (i - m) = i
      BY ONLY <3>0, <2>2, i \in 1 .. l
    <3>2. q[i] = r[i - m]
      BY <1>3, <3>1
    <3>3. mid =< sh.lo[q[i]] /\ sh.hi[q[i]] =< high
      BY <1>9, <3>1, <3>2
    <3>4. sh.lo[q[i]] \in Int /\ sh.hi[q[i]] \in Int
      BY <1>5
    <3> QED BY ONLY <1>2, <3>3, <3>4, low \in Int, mid \in Int, high \in Int
  <2> QED BY <1>3, <2>1, <2>2
<1>11. ASSUME NEW i \in 1 .. l - 1 PROVE sh.hi[q[i]] = sh.lo[q[i + 1]]
  <2>1. CASE i < m
    <3>1. i \in 1 .. m - 1 /\ q[i] = s[i] /\ q[i + 1] = s[i + 1]
      BY <1>3, <2>1
    <3> QED BY <3>1 DEF IsRun
  <2>2. CASE i = m
    <3>1. q[i] = s[m] /\ q[i + 1] = r[1]
      BY <1>3, <2>2
    <3> QED BY <3>1 DEF IsRun
  <2>3. CASE m < i
    <3>0. m \in Nat /\ n \in Nat /\ l = m + n
      BY <1>3
    <3>1. i - m \in 1 .. n - 1 /\ m + (i - m) = i /\ m + ((i - m) + 1) = i + 1
          /\ i - m \in 1 .. n /\ (i - m) + 1 \in 1 .. n
      BY ONLY <3>0, <2>3, i \in 1 .. l - 1
    <3>2. q[i] = r[i - m] /\ q[i + 1] = r[(i - m) + 1]
      BY <1>3, <3>1
    <3> QED BY <3>1, <3>2 DEF IsRun
  <2>4. m \in Nat /\ l \in Nat
    BY <1>3
  <2>5. i < m \/ i = m \/ m < i
    BY ONLY <2>4, i \in 1 .. l - 1
  <2> QED BY ONLY <2>1, <2>2, <2>3, <2>5
<1>16. l = m + n /\ m \in Nat /\ n \in Nat /\ 1 =< m
  BY <1>3
<1>17. 1 =< l
  BY ONLY <1>16
<1>12. 1 =< Len(q) /\ l = Len(q)
  BY ONLY <1>17, l = Len(q)
<1>13. /\ sh.lo[q[1]] = low /\ sh.hi[q[Len(q)]] = high
       /\ \A i \in 1 .. Len(q) : low =< sh.lo[q[i]] /\ sh.hi[q[i]] =< high
       /\ \A i \in 1 .. Len(q) - 1 : sh.hi[q[i]] = sh.lo[q[i + 1]]
  BY ONLY <1>7, <1>10, <1>11, <1>12
<1>14. q \in Seq(TakenLeaves)
  BY <1>3
<1>15. IsRun(sh, q, low, high)
  BY ONLY <1>12, <1>13, <1>14 DEF IsRun
<1> QED
  BY <1>15

\* Where the range of child i of p ends, and that of the next begins.
Bound(sh, p, i) == IF i = bnode[p].num + 1 THEN sh.hi[p] ELSE bnode[p].k[i]

\* Nobody is at work on the tree.
Resting(sh) ==
    /\ IInv(sh) /\ ~Growing
    /\ \A a \in Taken : ~Locked(a) /\ sh.end[a] = a
    /\ \A p \in TakenNodes : sh.cnt[p] = bnode[p].num

\* Between calls nobody is.
LEMMA IdleRests ==
  ASSUME NEW sh, IInv(sh), AllIdle
  PROVE  Resting(sh)
<1>1. \A t \in Threads : pc[t] = "idle"
  BY DEF AllIdle
<1>2. ASSUME NEW a \in Taken PROVE sh.own[a] \notin Threads
  <2>1. \A t \in Threads : ~OwnedBy(sh, a, t)
    BY <1>1 DEF OwnedBy, Splitting, Climbing
  <2> QED BY <2>1 DEF IInv, Owners
<1>3. ~Growing
  BY <1>1 DEF Growing
<1>4. \A a \in Taken : ~Locked(a) /\ sh.end[a] = a
  BY <1>2 DEF IInv, Owners
<1>5. TakenNodes \subseteq Taken
  BY DEF Taken
<1>6. \A p \in TakenNodes : sh.cnt[p] = bnode[p].num
  BY <1>2, <1>5 DEF IInv, Owners
<1> QED
  BY <1>3, <1>4, <1>6 DEF Resting

\* The children of a node nobody is at work on divide its range.
LEMMA ChildrenDivide ==
  ASSUME NEW sh, Resting(sh), NEW p \in TakenNodes
  PROVE  /\ p \in BNodes /\ p \in Taken /\ bnode[p].num \in 0 .. NON_LEAF_KEY_NUM
         /\ sh.lo[p] \in Int /\ sh.hi[p] \in Int
         /\ \A i \in 1 .. bnode[p].num + 1 : Bound(sh, p, i) \in Int
         /\ \A i \in 0 .. bnode[p].num :
               /\ bnode[p].ch[i] \in Taken /\ sh.lvl[bnode[p].ch[i]] + 1 = sh.lvl[p]
               /\ sh.lo[bnode[p].ch[i]] = (IF i = 0 THEN sh.lo[p] ELSE bnode[p].k[i])
               /\ sh.hi[bnode[p].ch[i]] = Bound(sh, p, i + 1)
<1>1. IInv(sh) /\ sh.cnt[p] = bnode[p].num /\ \A a \in Taken : sh.end[a] = a
  BY DEF Resting
<1>2. p \in BNodes /\ p \in Taken
  BY <1>1, TakenTypes DEF IInv, Taken
<1>3. bnode[p].num \in 0 .. NON_LEAF_KEY_NUM
  BY <1>1, <1>2, NodeTypes DEF IInv
<1>4. sh.lo[p] \in Int /\ sh.hi[p] \in Int
  BY <1>1, <1>2, Numbers
<1> PICK n : n = bnode[p].num
  OBVIOUS
<1>5. EntriesFit(sh, bnode[p].k, bnode[p].ch, n, sh.lo[p], sh.hi[p], sh.lvl[p])
  BY <1>1 DEF IInv, TreeFits, NodeFits
<1>6. \A i \in 1 .. n + 1 : Bound(sh, p, i) \in Int
  <2> SUFFICES ASSUME NEW i \in 1 .. n + 1 PROVE Bound(sh, p, i) \in Int
    OBVIOUS
  <2>1. CASE i = n + 1
    BY <1>4, <2>1 DEF Bound
  <2>2. CASE i # n + 1
    <3>1. i \in 1 .. n
      BY <1>3, <2>2
    <3>2. bnode[p].k[i] \in Keys
      BY <1>5, <3>1 DEF EntriesFit
    <3> QED BY <2>2, <3>2, Sizes DEF Bound
  <2> QED BY <2>1, <2>2
<1>7. ASSUME NEW i \in 0 .. n
      PROVE  /\ bnode[p].ch[i] \in Taken /\ sh.lvl[bnode[p].ch[i]] + 1 = sh.lvl[p]
             /\ sh.lo[bnode[p].ch[i]] = (IF i = 0 THEN sh.lo[p] ELSE bnode[p].k[i])
             /\ sh.hi[bnode[p].ch[i]] = Bound(sh, p, i + 1)
  <2>1. /\ bnode[p].ch[i] \in Taken /\ sh.lvl[bnode[p].ch[i]] + 1 = sh.lvl[p]
        /\ sh.lo[bnode[p].ch[i]] = (IF i = 0 THEN sh.lo[p] ELSE bnode[p].k[i])
        /\ sh.hi[sh.end[bnode[p].ch[i]]] = (IF i = n THEN sh.hi[p] ELSE bnode[p].k[i + 1])
    BY <1>5 DEF EntriesFit
  <2>2. sh.end[bnode[p].ch[i]] = bnode[p].ch[i]
    BY <1>1, <2>1
  <2>3. i = n <=> i + 1 = n + 1
    BY <1>3
  <2> QED BY <2>1, <2>2, <2>3 DEF Bound
<1> QED
  BY <1>2, <1>3, <1>4, <1>6, <1>7

\* The lists of the first i children of p, one behind the other, are a run.
LEMMA FlatIsRun ==
  ASSUME NEW sh, Resting(sh), NEW p \in TakenNodes, NEW ss, NEW F,
         IsFlat(F, ss, bnode[p].num + 1),
         \A i \in 0 .. bnode[p].num :
            IsRun(sh, ss[i + 1], sh.lo[bnode[p].ch[i]], sh.hi[bnode[p].ch[i]])
  PROVE  IsRun(sh, F[bnode[p].num + 1], sh.lo[p], sh.hi[p])
<1> PICK n : n = bnode[p].num + 1
  OBVIOUS
<1>1. /\ n \in Nat /\ 1 =< n /\ IInv(sh) /\ sh.lo[p] \in Int
      /\ \A i \in 1 .. n : Bound(sh, p, i) \in Int
      /\ Bound(sh, p, n) = sh.hi[p] /\ bnode[p].num \in Nat /\ n - 1 = bnode[p].num
  BY ChildrenDivide, Sizes DEF Resting, Bound
<1>2. \A i \in 1 .. n : F[i] = IF i = 1 THEN ss[i] ELSE F[i - 1] \o ss[i]
  BY DEF IsFlat
<1>3. ASSUME NEW i \in 1 .. n
      PROVE  /\ i = 1 => IsRun(sh, ss[i], sh.lo[p], Bound(sh, p, i))
             /\ i > 1 => IsRun(sh, ss[i], Bound(sh, p, i - 1), Bound(sh, p, i))
  <2>1. i - 1 \in 0 .. bnode[p].num /\ (i - 1) + 1 = i
    BY <1>1
  <2>2. IsRun(sh, ss[i], sh.lo[bnode[p].ch[i - 1]], sh.hi[bnode[p].ch[i - 1]])
    BY <2>1
  <2>3. /\ sh.lo[bnode[p].ch[i - 1]] = (IF i - 1 = 0 THEN sh.lo[p] ELSE bnode[p].k[i - 1])
        /\ sh.hi[bnode[p].ch[i - 1]] = Bound(sh, p, i)
    BY <2>1, ChildrenDivide
  <2>4. i > 1 => Bound(sh, p, i - 1) = bnode[p].k[i - 1] /\ i - 1 # 0
    BY <1>1 DEF Bound
  <2>5. i = 1 => i - 1 = 0
    OBVIOUS
  <2> QED BY <2>2, <2>3, <2>4, <2>5
<1> DEFINE Good(i) == IsRun(sh, F[i], sh.lo[p], Bound(sh, p, i))
           Bad == {i \in Nat : i \in 1 .. n /\ ~Good(i)}
<1>4. n \notin Bad
  <2> SUFFICES ASSUME n \in Bad PROVE FALSE
    OBVIOUS
  <2>1. PICK m \in Bad : \A x \in Bad : m =< x
    BY Least
  <2>2. m \in 1 .. n /\ m \in Nat /\ ~Good(m)
    OBVIOUS
  <2>3. CASE m = 1
    <3>1. F[m] = ss[m]
      BY <1>2, <2>2, <2>3
    <3> QED BY <1>3, <2>2, <2>3, <3>1
  <2>4. CASE m # 1
    <3>1. m - 1 \in 1 .. n /\ m - 1 \in Nat /\ m > 1
      BY <1>1, <2>2, <2>4
    <3>2. Good(m - 1)
      BY <2>1, <3>1
    <3>3. F[m] = F[m - 1] \o ss[m]
      BY <1>2, <2>2, <2>4
    <3>4. IsRun(sh, ss[m], Bound(sh, p, m - 1), Bound(sh, p, m))
      BY <1>3, <2>2, <3>1
    <3>5. Bound(sh, p, m - 1) \in Int /\ Bound(sh, p, m) \in Int
      BY <1>1, <2>2, <3>1
    <3>6. IsRun(sh, F[m - 1] \o ss[m], sh.lo[p], Bound(sh, p, m))
      BY <1>1, <3>2, <3>4, <3>5, RunsJoin
    <3> QED BY <2>2, <3>3, <3>6
  <2> QED BY <2>3, <2>4
<1>5. Good(n)
  BY <1>1, <1>4
<1> QED
  BY <1>1, <1>5

\* A leaf alone is a run.
LEMMA LeafIsRun ==
  ASSUME NEW sh, IInv(sh), NEW a \in TakenLeaves
  PROVE  IsRun(sh, <<a>>, sh.lo[a], sh.hi[a])
<1>1. a \in Taken
  BY DEF Taken
<1>2. sh.lo[a] \in Int /\ sh.hi[a] \in Int
  BY <1>1, Numbers
<1>3. <<a>> \in Seq(TakenLeaves) /\ Len(<<a>>) = 1 /\ <<a>>[1] = a /\ \A i \in 1 .. 1 : <<a>>[i] = a
  OBVIOUS
<1> QED
  BY <1>2, <1>3 DEF IsRun

\* The leaves under a node are a run that fills its range.
LEMMA ListIsRun ==
  ASSUME NEW sh, Resting(sh), NEW a \in Taken
  PROVE  IsRun(sh, LeavesUnder[<<sh.lvl[a], a>>], sh.lo[a], sh.hi[a])
<1> DEFINE Good(l) == \A q \in Taken : sh.lvl[q] = l =>
                         IsRun(sh, LeavesUnder[<<l, q>>], sh.lo[q], sh.hi[q])
           Bad == {l \in Nat : l =< MaxLevel /\ ~Good(l)}
<1>0. IInv(sh) /\ TypeOK /\ MaxLevel \in Nat
  BY Sizes DEF Resting, IInv
<1>1. sh.lvl[a] \in 0 .. MaxLevel
  BY <1>0, Numbers
<1> SUFFICES ASSUME sh.lvl[a] \in Bad PROVE FALSE
  BY <1>0, <1>1
<1>2. PICK l \in Bad : \A x \in Bad : l =< x
  BY Least
<1>3. l \in Nat /\ l =< MaxLevel
  OBVIOUS
<1>4. PICK q \in Taken : sh.lvl[q] = l /\ ~IsRun(sh, LeavesUnder[<<l, q>>], sh.lo[q], sh.hi[q])
  OBVIOUS
<1>5. q \in Nodes /\ l \in 0 .. MaxLevel
  BY <1>0, <1>3, TakenTypes DEF Nodes, Addr
<1>6. LeavesUnder[<<l, q>>] = ListOf(LeavesUnder, <<l, q>>)
  BY <1>0, <1>5, ListIs
<1>7. CASE l = 0
  <2>1. LeavesUnder[<<l, q>>] = <<q>>
    BY <1>6, <1>7 DEF ListOf
  <2>2. q \in TakenLeaves
    BY <1>0, <1>4, <1>7, Numbers
  <2> QED BY <1>0, <1>4, <2>1, <2>2, LeafIsRun
<1>8. CASE l # 0
  <2>1. q \in TakenNodes /\ q \in BNodes
    BY <1>0, <1>3, <1>4, <1>8, Numbers, TakenTypes
  <2>2. /\ bnode[q].num \in 0 .. NON_LEAF_KEY_NUM
        /\ \A i \in 0 .. bnode[q].num :
             bnode[q].ch[i] \in Taken /\ sh.lvl[bnode[q].ch[i]] + 1 = l
    BY <1>4, <2>1, ChildrenDivide
  <2> PICK n : n = bnode[q].num + 1
    OBVIOUS
  <2>3. n \in Nat /\ 1 =< n /\ n - 1 = bnode[q].num
    BY <2>2
  <2> DEFINE ss == [i \in 1 .. n |-> LeavesUnder[<<l - 1, bnode[q].ch[i - 1]>>]]
  <2>4. LeavesUnder[<<l, q>>] = SX!FlattenSeq(ss)
    BY <1>6, <1>8, <2>1 DEF ListOf
  <2>5. Len(ss) = n
    BY <2>3
  <2>6. ASSUME NEW i \in 0 .. bnode[q].num
        PROVE  IsRun(sh, ss[i + 1], sh.lo[bnode[q].ch[i]], sh.hi[bnode[q].ch[i]])
    <3>1. ss[i + 1] = LeavesUnder[<<l - 1, bnode[q].ch[i]>>]
      BY <2>3, SMTT(60)
    <3>2. bnode[q].ch[i] \in Taken /\ sh.lvl[bnode[q].ch[i]] \in 0 .. MaxLevel
          /\ sh.lvl[bnode[q].ch[i]] + 1 = l
      BY <1>0, <2>2, Numbers
    <3>3. sh.lvl[bnode[q].ch[i]] = l - 1 /\ l - 1 \in Nat /\ l - 1 =< MaxLevel /\ ~(l =< l - 1)
      BY <1>0, <1>3, <3>2
    <3>4. Good(l - 1)
      BY <1>2, <3>3
    <3> QED BY <3>1, <3>2, <3>3, <3>4
  <2>7. PICK F : IsFlat(F, ss, n) /\ SX!FlattenSeq(ss) = F[n]
    <3> HIDE DEF ss
    <3> QED BY <2>3, <2>5, FlattenIs
  <2>8. IsRun(sh, F[bnode[q].num + 1], sh.lo[q], sh.hi[q])
    <3> HIDE DEF ss
    <3> QED BY <2>1, <2>6, <2>7, FlatIsRun
  <2> QED BY <1>4, <2>4, <2>7, <2>8
<1> QED
  BY <1>7, <1>8

\* The keys under a node are in its range.
LEMMA KeysInRange ==
  ASSUME NEW sh, Resting(sh), NEW a \in Taken, NEW x \in KeysUnder(sh.lvl[a], a)
  PROVE  sh.lo[a] =< x /\ x < sh.hi[a] /\ x \in Int
<1> PICK s : s = LeavesUnder[<<sh.lvl[a], a>>]
  OBVIOUS
<1>1. IsRun(sh, s, sh.lo[a], sh.hi[a]) /\ IInv(sh)
  BY ListIsRun DEF Resting
<1>2. PICK i \in 1 .. Len(s) : x \in leaf[s[i]].keys
  BY DEF KeysUnder
<1> PICK b, low, high : b = s[i] /\ low = sh.lo[a] /\ high = sh.hi[a]
  OBVIOUS
<1>5. IsRun(sh, s, low, high)
  BY <1>1
<1>11. low =< sh.lo[b] /\ sh.hi[b] =< high
  BY <1>5, Zenon DEF IsRun
<1>12. b \in TakenLeaves
  <2>1. s \in Seq(TakenLeaves)
    BY <1>5, Zenon DEF IsRun
  <2> QED BY ONLY <2>1, b = s[i], i \in 1 .. Len(s)
<1>3. b \in TakenLeaves /\ low =< sh.lo[b] /\ sh.hi[b] =< high
  BY <1>11, <1>12
<1>6. b \in TakenLeaves /\ x \in leaf[b].keys /\ TypeOK
  BY <1>1, <1>2, <1>3 DEF IInv
<1>7. b \in Leaves /\ b \in Taken /\ sh.lo[b] =< x /\ x < sh.hi[b]
  BY <1>1, <1>6, LeavesAsTheyAre
<1>8. x \in Int
  BY <1>6, <1>7, LeafTypes, Sizes
<1>9. sh.lo[b] \in Int /\ sh.hi[b] \in Int /\ low \in Int /\ high \in Int
  BY <1>1, <1>7, Numbers
<1>10. low =< x /\ x < high /\ x \in Int
  BY ONLY <1>3, <1>7, <1>8, <1>9
<1> QED
  BY <1>10

\* f gives the nodes of the levels from n up.
BelowOf(f, l) == UNION {{bnode[p].ch[i] : i \in 0 .. bnode[p].num} : p \in f[l + 1]}
IsLevels(f, n) ==
    f = [l \in n .. MaxLevel |-> IF l >= root_level THEN {tree_root} ELSE BelowOf(f, l)]

\* The equation of NodesOfLevel has a solution.
LEMMA LevelsExist ==
  ASSUME root_level =< MaxLevel, root_level \in Int, NEW n \in 0 .. MaxLevel
  PROVE  \E f : IsLevels(f, n)
<1> DEFINE Bad == {m \in Nat : m =< MaxLevel /\ ~ \E f : IsLevels(f, MaxLevel - m)}
<1>0. MaxLevel \in Nat
  BY Sizes
<1> SUFFICES ASSUME MaxLevel - n \in Bad PROVE FALSE
  <2>1. MaxLevel - n \in Nat /\ MaxLevel - n =< MaxLevel /\ MaxLevel - (MaxLevel - n) = n
    BY <1>0
  <2> QED BY <2>1
<1>1. PICK m \in Bad : \A x \in Bad : m =< x
  BY Least
<1>2. m \in Nat /\ m =< MaxLevel /\ ~ \E f : IsLevels(f, MaxLevel - m)
  OBVIOUS
<1>3. CASE m = 0
  <2>1. MaxLevel - m = MaxLevel
    BY <1>0, <1>3
  <2> DEFINE f == [l \in MaxLevel .. MaxLevel |-> {tree_root}]
  <2>2. \A l \in MaxLevel .. MaxLevel : l >= root_level
    BY <1>0
  <2>3. f = [l \in MaxLevel .. MaxLevel |-> IF l >= root_level THEN {tree_root} ELSE BelowOf(f, l)]
    <3> HIDE DEF BelowOf
    <3> QED BY <2>2
  <2> QED BY <1>2, <2>1, <2>3 DEF IsLevels
<1>4. CASE m # 0
  <2> PICK c : c = MaxLevel - m
    OBVIOUS
  <2>1. m - 1 \in Nat /\ m - 1 =< MaxLevel /\ ~(m =< m - 1) /\ MaxLevel - (m - 1) = c + 1 /\ c \in Nat
        /\ c < MaxLevel
    BY <1>0, <1>2, <1>4
  <2>2. PICK f : IsLevels(f, c + 1)
    BY <1>1, <2>1
  <2>3. \A l \in c + 1 .. MaxLevel : f[l] = IF l >= root_level THEN {tree_root} ELSE BelowOf(f, l)
    <3> HIDE DEF BelowOf
    <3> QED BY <2>2 DEF IsLevels
  <2> DEFINE top == IF c >= root_level THEN {tree_root} ELSE BelowOf(f, c)
             d == [l \in c .. MaxLevel |-> IF l = c THEN top ELSE f[l]]
  <2>4. ASSUME NEW l \in c .. MaxLevel
        PROVE  d[l] = IF l >= root_level THEN {tree_root} ELSE BelowOf(d, l)
    <3>1. l < root_level => d[l + 1] = f[l + 1]
      <4>1. l < root_level => l + 1 \in c .. MaxLevel /\ l + 1 # c
        BY <1>0, <2>1
      <4> QED BY <4>1
    <3>2. l < root_level => BelowOf(d, l) = BelowOf(f, l)
      BY <3>1 DEF BelowOf
    <3>3. l = c \/ l \in c + 1 .. MaxLevel
      BY <2>1
    <3>4. d[l] = IF l >= root_level THEN {tree_root} ELSE BelowOf(f, l)
      <4> HIDE DEF BelowOf
      <4> QED BY <2>3, <3>3
    <3>5. l >= root_level \/ l < root_level
      BY <1>0, <2>1
    <3> HIDE DEF d, BelowOf
    <3> QED BY <3>2, <3>4, <3>5
  <2>5. d = [l \in c .. MaxLevel |-> d[l]]
    OBVIOUS
  <2>6. IsLevels(d, c)
    <3> HIDE DEF d
    <3> QED BY <2>4, <2>5 DEF IsLevels
  <2> QED BY <1>2, <2>6
<1> QED BY <1>3, <1>4

\* How high the tree is.
LEMMA HeightIs ==
  ASSUME NEW sh, Resting(sh)
  PROVE  /\ IInv(sh) /\ TypeOK /\ LocalTypes
         /\ MaxLevel \in Nat /\ root_level \in Nat /\ root_level =< MaxLevel
<1>1. IInv(sh) /\ TypeOK /\ LocalTypes
  BY DEF Resting, IInv
<1>2. root_level \in -1 .. MaxLevel
  BY <1>1 DEF TypeOK
<1>3. root_level >= 0
  BY <1>1 DEF LocalTypes
<1> QED
  BY <1>1, <1>2, <1>3, Sizes

\* NodesOfLevel gives nodes of the level, below the root.
LEMMA LevelIsTaken ==
  ASSUME NEW sh, Resting(sh), NEW n \in 0 .. root_level
  PROVE  \A p \in NodesOfLevel[n] : p \in Taken /\ sh.lvl[p] = n
<1>0. IInv(sh) /\ TypeOK /\ MaxLevel \in Nat /\ root_level \in Nat /\ root_level =< MaxLevel
  BY HeightIs
<1>1. NodesOfLevel = CHOOSE f : IsLevels(f, 0)
  BY DEF NodesOfLevel, IsLevels, BelowOf
<1>2. IsLevels(NodesOfLevel, 0)
  BY <1>0, <1>1, LevelsExist
<1>3. \A l \in 0 .. MaxLevel :
         NodesOfLevel[l] = IF l >= root_level THEN {tree_root} ELSE BelowOf(NodesOfLevel, l)
  <2> HIDE DEF BelowOf
  <2> QED BY <1>2 DEF IsLevels
<1> DEFINE Good(l) == \A p \in NodesOfLevel[l] : p \in Taken /\ sh.lvl[p] = l
           Bad == {m \in Nat : m =< root_level /\ ~Good(root_level - m)}
<1> SUFFICES ASSUME root_level - n \in Bad PROVE FALSE
  <2>1. root_level - n \in Nat /\ root_level - n =< root_level /\ root_level - (root_level - n) = n
    BY <1>0
  <2> QED BY <2>1
<1>4. PICK m \in Bad : \A x \in Bad : m =< x
  BY Least
<1> PICK l : l = root_level - m
  OBVIOUS
<1>5. m \in Nat /\ m =< root_level /\ ~Good(l) /\ l \in 0 .. MaxLevel /\ l \in 0 .. root_level
  BY <1>0
<1>6. CASE m = 0
  <2>1. l = root_level
    BY <1>0, <1>6
  <2>2. NodesOfLevel[l] = {tree_root}
    BY <1>0, <1>3, <1>5, <2>1
  <2>3. tree_root \in Taken /\ sh.lvl[tree_root] = root_level
    BY <1>0 DEF Resting, IInv, TreeFits, Root
  <2> QED BY <1>5, <2>1, <2>2, <2>3
<1>7. CASE m # 0
  <2>1. m - 1 \in Nat /\ m - 1 =< root_level /\ ~(m =< m - 1) /\ root_level - (m - 1) = l + 1
        /\ l < root_level
    BY <1>0, <1>5, <1>7
  <2>2. Good(l + 1)
    BY <1>4, <2>1
  <2>3. NodesOfLevel[l] = BelowOf(NodesOfLevel, l)
    BY <1>0, <1>3, <1>5, <2>1
  <2>4. ASSUME NEW q \in NodesOfLevel[l] PROVE q \in Taken /\ sh.lvl[q] = l
    <3>1. PICK p \in NodesOfLevel[l + 1] : \E i \in 0 .. bnode[p].num : q = bnode[p].ch[i]
      BY <2>3 DEF BelowOf
    <3>2. p \in Taken /\ sh.lvl[p] = l + 1
      BY <2>2
    <3>3. p \in TakenNodes
      BY <1>0, <1>5, <3>2, Numbers
    <3>4. q \in Taken /\ sh.lvl[q] + 1 = l + 1
      BY <3>1, <3>2, <3>3, ChildrenDivide
    <3>5. sh.lvl[q] \in Int /\ l \in Int
      BY <1>0, <1>5, <3>4, Numbers
    <3> QED BY <3>4, <3>5
  <2> QED BY <1>5, <2>4
<1> QED BY <1>6, <1>7

\* Two leaves whose ranges begin at one place are one.
LEMMA OneLeaf ==
  ASSUME NEW sh, IInv(sh), NEW a \in TakenLeaves, NEW b \in TakenLeaves, sh.lo[a] = sh.lo[b]
  PROVE  a = b
<1>1. a \in Taken /\ b \in Taken
  BY DEF Taken
<1>2. sh.lvl[a] = 0 /\ sh.lvl[b] = 0
  BY DEF IInv, TreeFits, Levels
<1>3. /\ sh.lo[a] \in Int /\ sh.hi[a] \in Int /\ sh.lo[a] < sh.hi[a]
      /\ sh.lo[b] \in Int /\ sh.hi[b] \in Int /\ sh.lo[b] < sh.hi[b]
  BY <1>1, Numbers
<1>4. a # b => sh.hi[a] =< sh.lo[b] \/ sh.hi[b] =< sh.lo[a]
  BY <1>1, <1>2 DEF IInv, TreeFits, Ranges
<1> QED
  BY <1>3, <1>4

\* The chain is a run over all keys.
LEMMA ChainIsRun ==
  ASSUME NEW sh, IInv(sh), NEW s, IsRun(sh, s, Low, High), NEW j \in 1 .. MaxLeaf
  PROVE  ChainSeq[j] = IF j =< Len(s) THEN s[j] ELSE NULL
<1> DEFINE Good(i) == ChainSeq[i] = IF i =< Len(s) THEN s[i] ELSE NULL
           Bad == {i \in Nat : i \in 1 .. MaxLeaf /\ ~Good(i)}
<1>0. MaxLeaf \in Nat /\ Low \in Int /\ High \in Int /\ Len(s) \in Nat /\ 1 =< Len(s)
      /\ \A i \in 1 .. Len(s) : s[i] \in TakenLeaves
  BY Sizes DEF IsRun
<1> SUFFICES ASSUME j \in Bad PROVE FALSE
  BY <1>0
<1>1. PICK i \in Bad : \A x \in Bad : i =< x
  BY Least
<1>2. i \in Nat /\ i \in 1 .. MaxLeaf /\ ~Good(i)
  OBVIOUS
<1>3. CASE i = 1
  <2>1. ChainSeq[1] = first_leaf
    BY <1>0, ChainFollows
  <2>2. first_leaf \in TakenLeaves /\ sh.lo[first_leaf] = Low
    BY DEF IInv, TreeFits, Root
  <2>3. s[1] \in TakenLeaves /\ sh.lo[s[1]] = Low
    BY <1>0 DEF IsRun
  <2>4. s[1] = first_leaf
    BY <2>2, <2>3, OneLeaf
  <2> QED BY <1>0, <1>2, <1>3, <2>1, <2>4
<1>4. CASE i # 1
  <2> PICK m : m = i - 1
    OBVIOUS
  <2>1. m \in Nat /\ m \in 1 .. MaxLeaf /\ ~(i =< m) /\ m + 1 = i
    BY <1>0, <1>2, <1>4
  <2>2. Good(m)
    BY <1>1, <2>1
  <2>3. ChainSeq[i] = NextLeaf(ChainSeq[m])
    BY <1>0, <2>1, ChainFollows
  <2>4. CASE m < Len(s)
    <3>1. m \in 1 .. Len(s) /\ m \in 1 .. Len(s) - 1 /\ i \in 1 .. Len(s)
      BY <1>0, <2>1, <2>4
    <3> PICK a, b : a = s[m] /\ b = s[i]
      OBVIOUS
    <3>2. a \in TakenLeaves /\ b \in TakenLeaves /\ ChainSeq[m] = a
      BY <1>0, <2>2, <3>1
    <3>3. sh.hi[a] = sh.lo[b]
      BY <2>1, <3>1 DEF IsRun
    <3>4. /\ sh.hi[a] \in Int /\ sh.hi[b] \in Int /\ sh.lo[b] < sh.hi[b] /\ sh.hi[b] =< High
          /\ sh.lo[b] \in Int
      BY <3>2, Numbers DEF Taken
    <3>5. sh.hi[a] # High
      BY <1>0, <3>3, <3>4
    <3>6. a # NULL /\ (NextLeaf(a) = NULL \/ NextLeaf(a) \in TakenLeaves)
          /\ (NextLeaf(a) # NULL => sh.lo[NextLeaf(a)] = sh.hi[a])
      BY <3>2, NextOfTaken
    <3>7. NextLeaf(a) # NULL
      BY <3>2, <3>5, <3>6 DEF NextLeaf, IInv, TreeFits, LeafFits
    <3>8. NextLeaf(a) = b
      BY <3>2, <3>3, <3>6, <3>7, OneLeaf
    <3> QED BY <1>2, <2>3, <3>1, <3>2, <3>8
  <2>5. CASE m = Len(s)
    <3>1. m \in 1 .. Len(s) /\ ~(i =< Len(s))
      BY <1>0, <2>1, <2>5
    <3> PICK a : a = s[m]
      OBVIOUS
    <3>2. a \in TakenLeaves /\ ChainSeq[m] = a
      BY <1>0, <2>2, <3>1
    <3>3. sh.hi[a] = High
      BY <2>5 DEF IsRun
    <3>4. NextLeaf(a) = NULL
      <4> SUFFICES ASSUME NextLeaf(a) # NULL PROVE FALSE
        OBVIOUS
      <4>1. NextLeaf(a) \in TakenLeaves /\ sh.lo[NextLeaf(a)] = High
        BY <3>2, <3>3, NextOfTaken
      <4>2. /\ sh.lo[NextLeaf(a)] < sh.hi[NextLeaf(a)] /\ sh.hi[NextLeaf(a)] =< High
            /\ sh.hi[NextLeaf(a)] \in Int
        BY <4>1, Numbers DEF Taken
      <4> QED BY <1>0, <4>1, <4>2
    <3> QED BY <1>2, <2>3, <3>1, <3>2, <3>4
  <2>6. CASE m > Len(s)
    <3>1. ~(m =< Len(s)) /\ ~(i =< Len(s))
      BY <1>0, <2>1, <2>6
    <3> QED BY <1>2, <2>2, <2>3, <3>1 DEF NextLeaf
  <2> QED BY <1>0, <2>1, <2>4, <2>5, <2>6
<1> QED BY <1>3, <1>4

\* A tree nobody is at work on passes check().
LEMMA RestingPasses ==
  ASSUME NEW sh, Resting(sh)
  PROVE  CheckTree
<1> PICK s : s = LeavesUnder[<<root_level, tree_root>>]
  OBVIOUS
<1>0. /\ IInv(sh) /\ TypeOK /\ LocalTypes /\ MaxLevel \in Nat /\ root_level \in Nat
      /\ root_level =< MaxLevel
  BY HeightIs
<1>1. IsRun(sh, s, Low, High)
  <2>1. tree_root \in Taken /\ sh.lvl[tree_root] = root_level /\ sh.lo[tree_root] = Low
        /\ sh.hi[sh.end[tree_root]] = High
    BY DEF Resting, IInv, TreeFits, Root
  <2>2. sh.end[tree_root] = tree_root
    BY <2>1 DEF Resting
  <2>3. IsRun(sh, LeavesUnder[<<sh.lvl[tree_root], tree_root>>], sh.lo[tree_root], sh.hi[tree_root])
    BY <2>1, ListIsRun
  <2> QED BY <2>1, <2>2, <2>3
<1>2. ASSUME NEW l \in 1 .. root_level, NEW p \in NodesOfLevel[l]
      PROVE  p \in BNodes /\ CheckNode(l, p)
  <2>1. p \in Taken /\ sh.lvl[p] = l
    <3>1. l \in 0 .. root_level
      OBVIOUS
    <3> QED BY <3>1, LevelIsTaken
  <2>2. p \in TakenNodes
    BY <1>0, <2>1, Numbers
  <2>3. p \in BNodes /\ ~bnode[p].lock
    <3>1. p \in BNodes /\ p \notin Leaves
      BY <1>0, <2>2, TakenTypes, Addresses
    <3>2. ~Locked(p)
      BY <2>1 DEF Resting
    <3> QED BY <3>1, <3>2 DEF Locked
  <2>4. ~FreedNode(p)
    BY <1>0, NothingFreed
  <2>5. ASSUME NEW i \in 0 .. bnode[p].num, NEW x \in KeysUnder(l - 1, bnode[p].ch[i])
        PROVE  /\ i > 0 => bnode[p].k[i] =< x
               /\ i < bnode[p].num => x < bnode[p].k[i + 1]
    <3> PICK c : c = bnode[p].ch[i]
      OBVIOUS
    <3>1. /\ c \in Taken /\ sh.lvl[c] + 1 = l /\ bnode[p].num \in Nat
          /\ sh.lo[c] = (IF i = 0 THEN sh.lo[p] ELSE bnode[p].k[i])
          /\ sh.hi[c] = Bound(sh, p, i + 1)
      BY <2>1, <2>2, ChildrenDivide, Sizes
    <3>2. sh.lvl[c] = l - 1
      BY <1>0, <3>1, Numbers
    <3>3. sh.lo[c] =< x /\ x < sh.hi[c]
      BY <3>1, <3>2, KeysInRange
    <3>4. i > 0 => i # 0
      OBVIOUS
    <3>5. i < bnode[p].num => i + 1 # bnode[p].num + 1
      BY <3>1
    <3> QED BY <3>1, <3>3, <3>4, <3>5 DEF Bound
  <2> QED BY <2>3, <2>4, <2>5 DEF CheckNode
<1>3. ASSUME NEW i \in 1 .. Len(s)
      PROVE  ~leaf[s[i]].lock /\ (leaf[s[i]].keys = {} => root_level = 0)
  <2>1. s[i] \in TakenLeaves
    BY <1>1 DEF IsRun
  <2>2. s[i] \in Leaves /\ s[i] \in Taken /\ leaf[s[i]].keys # {}
    BY <1>0, <2>1, LeavesAsTheyAre
  <2>3. ~Locked(s[i])
    BY <2>2 DEF Resting
  <2> QED BY <2>2, <2>3 DEF Locked
<1>4. \A i \in 1 .. MaxLeaf : ChainSeq[i] = IF i =< Len(s) THEN s[i] ELSE NULL
  BY <1>0, <1>1, ChainIsRun
<1> QED
  BY <1>2, <1>3, <1>4 DEF CheckTree

\* Whenever no call is under way, check() and checkFirstLeaf() find the tree
\* in order, however the calls that are over were interleaved: no lock is left
\* held, each node's keys part the keys below it, no leaf but a lone root is
\* empty, and the leaves reached from the root are the ones the sibling chain
\* goes through, in the same order.
THEOREM ChecksPass == Spec /\ Loaded /\ []Undisturbed => []CheckPasses
<1>1. Shaped => CheckPasses
  BY IdleRests, RestingPasses DEF Shaped, CheckPasses
<1> QED
  BY <1>1, Invariant, PTL

-----------------------------------------------------------------------------
(***************************************************************************)
(* The tree implements KVMap.                                              *)
(***************************************************************************)
\* A call is where only its kind of call gets.
CallMatches ==
    \A t \in Threads : /\ pc[t] \in {"insert", "split", "lower"} => op[t] = "insert"
                       /\ pc[t] = "leafDel" => op[t] = "del"

\* No call changes its kind.
LEMMA MatchesKept ==
  ASSUME NEW sh, IInv(sh), CallMatches, LeavesKeepKeys, NEW t \in Threads, Call(t) \/ Step(t)
  PROVE  CallMatches'
<1>1. pc \in [Threads -> Stages] /\ op \in [Threads -> Ops \cup {"none"}]
  BY DEF IInv, TypeOK, LocalTypes
<1>2. SUFFICES /\ \A u \in Threads : u # t => pc'[u] = pc[u] /\ op'[u] = op[u]
               /\ pc'[t] \in {"insert", "split", "lower"} => op'[t] = "insert"
               /\ pc'[t] = "leafDel" => op'[t] = "del"
  BY DEF CallMatches
<1>3. /\ pc[t] \in {"insert", "split", "lower"} => op[t] = "insert"
      /\ pc[t] = "leafDel" => op[t] = "del"
  BY DEF CallMatches
<1>4. CASE Call(t)
  BY <1>1, <1>4 DEF Call, Goto
<1>5. CASE Return(t)
  BY <1>1, <1>5 DEF Return
<1>6. CASE Goto(t, "start") /\ UNCHANGED call
  BY <1>1, <1>6 DEF Goto, call
<1>7. CASE Goto(t, "descend") /\ UNCHANGED call
  BY <1>1, <1>7 DEF Goto, call
<1>8. CASE (Goto(t, "readLevel") \/ Goto(t, "readRoot")) /\ UNCHANGED call
  BY <1>1, <1>8 DEF Goto, call
<1>9. CASE (Goto(t, "up") \/ Goto(t, "count") \/ Goto(t, "growRoot") \/ Goto(t, "unlockOld")
            \/ Goto(t, "unlockNew") \/ Goto(t, "parent")) /\ UNCHANGED call
  BY <1>1, <1>9 DEF Goto, call
<1>10. CASE UNCHANGED <<pc, call>>
  BY <1>1, <1>3, <1>10 DEF call
<1>11. CASE InsertLock(t)
  <2>1. op[t] = "insert" /\ (Goto(t, "split") \/ Goto(t, "insert")) /\ UNCHANGED call
    BY <1>11 DEF InsertLock, AtOpenLeaf
  <2> QED
    BY <1>1, <2>1 DEF Goto, call
<1>12. CASE DelLock(t)
  <2>1. op[t] = "del" /\ Goto(t, "leafDel") /\ UNCHANGED call
    BY <1>12 DEF DelLock, AtOpenLeaf, LeavesKeepKeys
  <2> QED
    BY <1>1, <2>1 DEF Goto, call
<1>13. CASE SplitLeaf(t)
  <2>1. pc[t] = "split" /\ (Goto(t, "lower") \/ Goto(t, "parent")) /\ UNCHANGED call
    BY <1>13 DEF SplitLeaf
  <2> QED
    BY <1>1, <1>3, <2>1 DEF Goto, call
<1>14. CASE Search(t)
  BY <1>5, <1>6, <1>7, <1>8, <1>10, <1>11, <1>12, <1>14, NoRemoval
     DEF Search, LockAndReadRoot, LockAndReadLevel, ReadLevel, ReadRoot, Descend, BlockedByLock,
         Again, LookupLeaf, NothingToDo
<1>15. CASE Insert(t)
  BY <1>5, <1>9, <1>10, <1>13, <1>15
     DEF Insert, InsertEntry, InsertLower, ReadTotalLevel, ParentShift, ParentCount, ParentSplit,
         GrowLevel, GrowRoot, UnlockOldRoot, UnlockNewRoot, locals
<1>16. CASE Del(t)
  BY <1>5, <1>16, NoRemoval DEF Del, DeleteEntry
<1> QED
  BY <1>4, <1>14, <1>15, <1>16 DEF Step

-----------------------------------------------------------------------------
(***************************************************************************)
(* The keys of the index.                                                  *)
(***************************************************************************)
\* They are those of the leaves taken, and each key has one leaf it can be in.
PresentAre == \A x : x \in Present <=> \E a \in TakenLeaves : x \in leaf[a].keys
\* The keys the index holds are those of the leaves taken.
LEMMA PresentKeys == Shaped => PresentAre
BY ChainIsTaken DEF Shaped, Present, PresentAre

\* The same in the next state.
LEMMA PresentKeysNext ==
  ASSUME Shaped'
  PROVE  \A x : x \in Present' <=> \E a \in TakenLeaves' : x \in leaf'[a].keys
<1>1. PresentAre'
  BY PresentKeys, PTL
<1> QED
  BY <1>1 DEF PresentAre

\* A key that belongs in a leaf is in no other.
LEMMA KeyInOneLeaf ==
  ASSUME NEW sh, IInv(sh), NEW b \in TakenLeaves, NEW x \in Keys,
         sh.lo[b] =< x, x < sh.hi[b]
  PROVE  \A a \in TakenLeaves : x \in leaf[a].keys => a = b
<1> SUFFICES ASSUME NEW a \in TakenLeaves, x \in leaf[a].keys PROVE a = b
  OBVIOUS
<1>1. a \in Taken /\ b \in Taken /\ sh.lvl[a] = sh.lvl[b] /\ x \in Int
  BY Sizes DEF Taken, IInv, TreeFits, Levels
<1>2. sh.lo[a] =< x /\ x < sh.hi[a]
  BY LeavesAsTheyAre
<1> QED
  BY <1>1, <1>2, OneNode

\* The keys after a step that changes those of leaf b.
LEMMA PresentWhenOneChanges ==
  ASSUME Shaped, Shaped', NEW b \in TakenLeaves, TakenLeaves' = TakenLeaves,
         \A a \in TakenLeaves : a # b => leaf'[a].keys = leaf[a].keys
  PROVE  /\ \A x : x \in Present <=>
               x \in leaf[b].keys \/ \E a \in TakenLeaves : a # b /\ x \in leaf[a].keys
         /\ \A x : x \in Present' <=>
               x \in leaf'[b].keys \/ \E a \in TakenLeaves : a # b /\ x \in leaf[a].keys
<1>1. \A x : x \in Present <=> \E a \in TakenLeaves : x \in leaf[a].keys
  BY PresentKeys DEF PresentAre
<1>2. \A x : x \in Present' <=> \E a \in TakenLeaves' : x \in leaf'[a].keys
  BY PresentKeysNext
<1> QED
  BY <1>1, <1>2

\* Steps that change no leaf's keys change no key of the index.
LEMMA PresentSame ==
  ASSUME Shaped, Shaped', TakenLeaves' = TakenLeaves,
         \A a \in TakenLeaves : leaf'[a].keys = leaf[a].keys
  PROVE  Present' = Present
<1>1. \A x : x \in Present <=> \E a \in TakenLeaves : x \in leaf[a].keys
  BY PresentKeys DEF PresentAre
<1>2. \A x : x \in Present' <=> \E a \in TakenLeaves' : x \in leaf'[a].keys
  BY PresentKeysNext
<1> QED
  BY <1>1, <1>2

-----------------------------------------------------------------------------
(***************************************************************************)
(* The steps of KVMap.                                                     *)
(***************************************************************************)
Pend == [t \in Threads |-> Pending(t)]

OthersCalls(t) ==
    \A u \in Threads : u # t => pc'[u] = pc[u] /\ op'[u] = op[u] /\ key'[u] = key[u]

\* A step moves one call.
LEMMA OneCallMoves ==
  ASSUME NEW sh, IInv(sh), LeavesKeepKeys, NEW t \in Threads, Call(t) \/ Step(t)
  PROVE  OthersCalls(t)
<1>1. /\ pc \in [Threads -> Stages] /\ op \in [Threads -> Ops \cup {"none"}]
      /\ key \in [Threads -> Keys \cup {NoKey}]
  BY DEF IInv, TypeOK, LocalTypes
<1>2. CASE Call(t)
  <2>1. /\ Goto(t, "start")
        /\ \E w \in Work[t] : op' = [op EXCEPT ![t] = w[1]] /\ key' = [key EXCEPT ![t] = w[2]]
    BY <1>2 DEF Call
  <2> QED
    BY <1>1, <2>1 DEF Goto, OthersCalls
<1>3. CASE Return(t)
  BY <1>1, <1>3 DEF Return, OthersCalls
<1>4. CASE UNCHANGED call /\ \E label : Goto(t, label)
  BY <1>1, <1>4 DEF Goto, call, OthersCalls
<1>5. CASE UNCHANGED <<pc, call>>
  BY <1>1, <1>5 DEF call, OthersCalls
<1>6. CASE Search(t)
  BY <1>3, <1>4, <1>5, <1>6, NoRemoval
     DEF Search, LockAndReadRoot, LockAndReadLevel, ReadLevel, ReadRoot, Descend, BlockedByLock,
         Again, LookupLeaf, NothingToDo, InsertLock, DelLock
<1>7. CASE Insert(t)
  BY <1>3, <1>4, <1>5, <1>7
     DEF Insert, InsertEntry, SplitLeaf, InsertLower, ReadTotalLevel, ParentShift, ParentCount,
         ParentSplit, GrowLevel, GrowRoot, UnlockOldRoot, UnlockNewRoot, locals
<1>8. CASE Del(t)
  BY <1>3, <1>8, NoRemoval DEF Del, DeleteEntry
<1> QED
  BY <1>2, <1>6, <1>7, <1>8 DEF Step

\* A step of one call changes what is pending of that call only.
LEMMA PendMoves ==
  ASSUME NEW t \in Threads, OthersCalls(t), NEW w, Pending(t)' = w
  PROVE  Pend' = [Pend EXCEPT ![t] = w]
<1>1. \A u \in Threads : u # t => Pending(u)' = Pending(u)
  BY DEF Pending, OthersCalls
<1>2. Pend' = [u \in Threads |-> Pending(u)']
  BY DEF Pend
<1>3. [Pend EXCEPT ![t] = w] = [u \in Threads |-> IF u = t THEN w ELSE Pending(u)]
  BY DEF Pend
<1> QED
  BY <1>1, <1>2, <1>3

MapStep == KV!KNext \/ (Present' = Present /\ Pend' = Pend /\ ret' = ret)

\* A step that shows no change.
LEMMA ShowsNothing ==
  ASSUME NEW t \in Threads, OthersCalls(t), Pending(t)' = Pending(t),
         Present' = Present, ret' = ret
  PROVE  MapStep
<1>1. Pend' = [Pend EXCEPT ![t] = Pending(t)]
  BY PendMoves
<1>2. [Pend EXCEPT ![t] = Pending(t)] = Pend
  BY DEF Pend
<1> QED
  BY <1>1, <1>2 DEF MapStep

\* A step that shows the insert of a key.
LEMMA ShowsInsert ==
  ASSUME NEW t \in Threads, OthersCalls(t), Pending(t) = <<"insert", key[t]>>,
         Pending(t)' = <<>>, Present' = Present \cup {key[t]}, ret' = ret
  PROVE  MapStep
<1>1. Pend' = [Pend EXCEPT ![t] = <<>>] /\ Pend[t] = <<"insert", key[t]>>
  BY PendMoves DEF Pend
<1>2. KV!KInsert(t)
  BY <1>1 DEF KV!KInsert, KV!NoCall, Pend
<1> QED
  BY <1>2 DEF MapStep, KV!KNext

\* A step that shows the deletion of a key.
LEMMA ShowsDel ==
  ASSUME NEW t \in Threads, OthersCalls(t), Pending(t) = <<"del", key[t]>>,
         Pending(t)' = <<>>, Present' = Present \ {key[t]}, ret' = ret
  PROVE  MapStep
<1>1. Pend' = [Pend EXCEPT ![t] = <<>>] /\ Pend[t] = <<"del", key[t]>>
  BY PendMoves DEF Pend
<1>2. KV!KDel(t)
  BY <1>1 DEF KV!KDel, KV!NoCall, Pend
<1> QED
  BY <1>2 DEF MapStep, KV!KNext

\* A step that takes a lookup's answer.
LEMMA ShowsLookup ==
  ASSUME NEW t \in Threads, OthersCalls(t), Pending(t) = <<"lookup", key[t]>>,
         Pending(t)' = <<>>, Present' = Present,
         ret' = [ret EXCEPT ![t] = IF key[t] \in Present THEN "hit" ELSE "miss"]
  PROVE  MapStep
<1>1. Pend' = [Pend EXCEPT ![t] = <<>>] /\ Pend[t] = <<"lookup", key[t]>>
  BY PendMoves DEF Pend
<1>2. Pend[t] # <<>> /\ Pend[t][1] = "lookup" /\ Pend[t][2] = key[t]
  BY <1>1
<1>3. ret' = [ret EXCEPT ![t] = IF Pend[t][2] \in Present THEN "hit" ELSE "miss"]
  BY <1>2
<1>4. KV!KLookup(t)
  BY <1>1, <1>2, <1>3 DEF KV!KLookup, KV!NoCall, Pend
<1> QED
  BY <1>4 DEF MapStep, KV!KNext

\* A step that starts a call.
LEMMA ShowsCall ==
  ASSUME NEW t \in Threads, OthersCalls(t), Pending(t) = <<>>, NEW w \in Work[t],
         Pending(t)' = w, Present' = Present, ret' = [ret EXCEPT ![t] = "none"]
  PROVE  MapStep
<1>1. Pend' = [Pend EXCEPT ![t] = w] /\ Pend[t] = <<>>
  BY PendMoves DEF Pend
<1>2. KV!KCall(t)
  BY <1>1 DEF KV!KCall, KV!NoCall, Pend
<1> QED
  BY <1>2 DEF MapStep, KV!KNext

\* A step of Part 1, or the start of a call, shows nothing but a lookup's answer.
LEMMA SearchShows ==
  ASSUME NEW sh, IInv(sh), Shaped, Shaped', LeavesKeepKeys, NEW t \in Threads, OthersCalls(t),
         Search(t)
  PROVE  MapStep
<1>1. /\ pc \in [Threads -> Stages] /\ leaf \in [Leaves -> LeafType]
      /\ TakenLeaves \subseteq Leaves
  BY TakenTypes DEF IInv, TypeOK, LocalTypes
<1>2. CASE UNCHANGED <<tree, leaf, pools, call, ret>> /\ pc[t] \in Searching /\ pc'[t] \in Searching
  <2>1. Present' = Present
    BY <1>2, PresentSame DEF pools, TakenLeaves
  <2>2. Pending(t)' = Pending(t)
    BY <1>2 DEF Pending, call
  <2> QED
    BY <1>2, <2>1, <2>2, ShowsNothing
<1>3. CASE LookupLeaf(t)
  <2>1. AtLeaf(t) /\ ~leaf[cur[t]].lock /\ op[t] = "lookup" /\ pc[t] = "descend"
    BY <1>3 DEF LookupLeaf, AtOpenLeaf, AtLeaf
  <2>2. cur[t] \in TakenLeaves /\ key[t] \in Keys /\ sh.lo[cur[t]] =< key[t] /\ key[t] < sh.hi[cur[t]]
    BY <2>1, AtLeafKnows
  <2>3. \A a \in TakenLeaves : key[t] \in leaf[a].keys => a = cur[t]
    BY <2>2, KeyInOneLeaf
  <2>4. key[t] \in Present <=> key[t] \in leaf[cur[t]].keys
    BY <2>2, <2>3, PresentKeys DEF PresentAre
  <2>5. Present' = Present
    BY <1>3, PresentSame DEF LookupLeaf, pools, TakenLeaves
  <2>6. ret' = [ret EXCEPT ![t] = IF key[t] \in Present THEN "hit" ELSE "miss"]
    BY <1>3, <2>4 DEF LookupLeaf
  <2>7. Pending(t) = <<"lookup", key[t]>> /\ Pending(t)' = <<>>
    BY <1>1, <1>3, <2>1 DEF LookupLeaf, Return, Pending, Searching
  <2> QED
    BY <2>5, <2>6, <2>7, ShowsLookup
<1>4. CASE NothingToDo(t)
  <2>1. /\ AtLeaf(t) /\ ~leaf[cur[t]].lock /\ pc[t] = "descend"
        /\ \/ op[t] = "insert" /\ key[t] \in leaf[cur[t]].keys
           \/ op[t] = "del" /\ key[t] \notin leaf[cur[t]].keys
    BY <1>4 DEF NothingToDo, AtOpenLeaf, AtLeaf
  <2>2. cur[t] \in TakenLeaves /\ key[t] \in Keys /\ sh.lo[cur[t]] =< key[t] /\ key[t] < sh.hi[cur[t]]
    BY <2>1, AtLeafKnows
  <2>3. \A a \in TakenLeaves : key[t] \in leaf[a].keys => a = cur[t]
    BY <2>2, KeyInOneLeaf
  <2>4. key[t] \in Present <=> key[t] \in leaf[cur[t]].keys
    BY <2>2, <2>3, PresentKeys DEF PresentAre
  <2>5. Present' = Present /\ ret' = ret
    BY <1>4, PresentSame DEF NothingToDo, pools, TakenLeaves
  <2>6. Pending(t) = <<op[t], key[t]>> /\ Pending(t)' = <<>>
    BY <1>1, <1>4, <2>1 DEF NothingToDo, Return, Pending, Searching
  <2>7. CASE op[t] = "insert"
    <3>1. Present' = Present \cup {key[t]}
      BY <2>1, <2>4, <2>5, <2>7
    <3> QED
      BY <2>5, <2>6, <2>7, <3>1, ShowsInsert
  <2>8. CASE op[t] = "del"
    <3>1. Present' = Present \ {key[t]}
      BY <2>1, <2>4, <2>5, <2>8
    <3> QED
      BY <2>5, <2>6, <2>8, <3>1, ShowsDel
  <2> QED
    BY <2>1, <2>7, <2>8
<1>5. CASE InsertLock(t) \/ DelLock(t)
  <2>1. /\ pc[t] = "descend" /\ UNCHANGED <<pools, call, ret>>
        /\ leaf' = [leaf EXCEPT ![cur[t]].lock = TRUE]
        /\ Goto(t, "split") \/ Goto(t, "insert") \/ Goto(t, "leafDel")
    BY <1>5 DEF InsertLock, DelLock, AtOpenLeaf, AtLeaf, LeavesKeepKeys
  <2>2. \A a \in Leaves : leaf'[a].keys = leaf[a].keys
    BY <1>1, <2>1 DEF LeafType
  <2>3. Present' = Present
    BY <1>1, <2>1, <2>2, PresentSame DEF pools, TakenLeaves
  <2>4. Pending(t)' = Pending(t)
    BY <1>1, <2>1 DEF Goto, Pending, Searching, call
  <2> QED
    BY <2>1, <2>3, <2>4, ShowsNothing
<1>6. /\ LockAndReadRoot(t) \/ LockAndReadLevel(t) \/ ReadLevel(t) \/ ReadRoot(t)
         \/ Descend(t) \/ BlockedByLock(t) =>
            UNCHANGED <<tree, leaf, pools, call, ret>> /\ pc[t] \in Searching /\ pc'[t] \in Searching
  BY <1>1 DEF LockAndReadRoot, LockAndReadLevel, ReadLevel, ReadRoot, Descend, BlockedByLock,
       AtNode, AtLeaf, Again, Goto, shared, Searching
<1> QED
  BY <1>2, <1>3, <1>4, <1>5, <1>6, NoRemoval DEF Search

\* The header or link write of an insert shows the key.
LEMMA InsertShows ==
  ASSUME NEW sh, IInv(sh), Shaped, Shaped', CallMatches, NEW t \in Threads, OthersCalls(t),
         Insert(t)
  PROVE  MapStep
<1>1. /\ pc \in [Threads -> Stages] /\ leaf \in [Leaves -> LeafType]
      /\ op \in [Threads -> Ops \cup {"none"}] /\ key \in [Threads -> Keys \cup {NoKey}]
      /\ TakenLeaves \subseteq Leaves /\ leafTop \in Nat
  BY TakenTypes DEF IInv, TypeOK, LocalTypes
<1>2. pc[t] \in {"insert", "split", "lower"} =>
         lp(t) \in TakenLeaves /\ Pending(t) = <<"insert", key[t]>>
  BY DEF IInv, ThreadOK, LeafCallOK, CallMatches, Pending
<1>3. ASSUME TakenLeaves' = TakenLeaves, lp(t) \in TakenLeaves, UNCHANGED ret,
             leaf'[lp(t)].keys = leaf[lp(t)].keys \cup {key[t]},
             \A a \in Leaves : a # lp(t) => leaf'[a] = leaf[a],
             pc[t] \in {"insert", "lower"}, pc'[t] \in {"idle", "parent"}
      PROVE  MapStep
  <2> PICK b : b = lp(t)
    OBVIOUS
  <2>1. /\ \A x : x \in Present <=>
              x \in leaf[b].keys \/ \E a \in TakenLeaves : a # b /\ x \in leaf[a].keys
        /\ \A x : x \in Present' <=>
              x \in leaf'[b].keys \/ \E a \in TakenLeaves : a # b /\ x \in leaf[a].keys
    BY <1>1, <1>3, PresentWhenOneChanges
  <2>2. Present' = Present \cup {key[t]}
    BY <1>3, <2>1
  <2>3. Pending(t)' = <<>>
    BY <1>3 DEF Pending, Searching
  <2> QED
    BY <1>2, <1>3, <2>2, <2>3, ShowsInsert
<1>4. CASE InsertEntry(t)
  <2>1. /\ pc[t] = "insert" /\ pc'[t] = "idle" /\ UNCHANGED ret /\ TakenLeaves' = TakenLeaves
        /\ leaf' = [leaf EXCEPT ![lp(t)].keys = @ \cup {key[t]}, ![lp(t)].lock = FALSE]
    BY <1>1, <1>4 DEF InsertEntry, Return, pools, TakenLeaves
  <2>2. lp(t) \in TakenLeaves /\ lp(t) \in Leaves
    BY <1>1, <1>2, <2>1
  <2>3. /\ leaf'[lp(t)].keys = leaf[lp(t)].keys \cup {key[t]}
        /\ \A a \in Leaves : a # lp(t) => leaf'[a] = leaf[a]
    BY <1>1, <2>1, <2>2 DEF LeafType
  <2> QED
    BY <1>3, <2>1, <2>2, <2>3
<1>5. CASE InsertLower(t)
  <2>1. /\ pc[t] = "lower" /\ pc'[t] = "parent" /\ UNCHANGED ret /\ TakenLeaves' = TakenLeaves
        /\ leaf' = [leaf EXCEPT ![lp(t)].keys = @ \cup {key[t]},
                                ![lp(t)].lock = ~(root_level > 0)]
    BY <1>1, <1>5 DEF InsertLower, Goto, pools, TakenLeaves
  <2>2. lp(t) \in TakenLeaves /\ lp(t) \in Leaves
    BY <1>1, <1>2, <2>1
  <2>3. /\ leaf'[lp(t)].keys = leaf[lp(t)].keys \cup {key[t]}
        /\ \A a \in Leaves : a # lp(t) => leaf'[a] = leaf[a]
    BY <1>1, <2>1, <2>2 DEF LeafType
  <2> QED
    BY <1>3, <2>1, <2>2, <2>3
<1>6. CASE SplitLeaf(t)
  <2> PICK b : b = lp(t)
    OBVIOUS
  <2> PICK m : m = SortedKey(leaf[b].keys, LEAF_KEY_NUM \div 2)
    OBVIOUS
  <2> PICK U : U = UpperHalf(leaf[b].keys, m)
    OBVIOUS
  <2>1. pc[t] = "split" /\ UNCHANGED <<ret, op, key>> /\ b \in TakenLeaves /\ b \in Leaves
        /\ Pending(t) = <<"insert", key[t]>>
    BY <1>1, <1>2, <1>6 DEF SplitLeaf, call
  <2>2. PICK n \in Leaves :
          /\ AllocLeaf(t, n)
          /\ leaf' = [leaf EXCEPT
                ![n] = [lock |-> FALSE, next |-> leaf[b].next,
                        keys |-> IF GoesAbove(key[t], m) THEN U \cup {key[t]} ELSE U],
                ![b] = [lock |-> ~(GoesAbove(key[t], m) /\ root_level > 0), next |-> n,
                        keys |-> leaf[b].keys \ U]]
          /\ Goto(t, IF GoesAbove(key[t], m) THEN "parent" ELSE "lower")
    BY <1>6 DEF SplitLeaf
  <2>3. n = leafTop + 1 /\ leafTop' = leafTop + 1
    <3>1. leafFree[t] = <<>>
      BY DEF IInv, LocalTypes
    <3> QED
      BY <2>2, <3>1 DEF AllocLeaf
  <2>4. n # b /\ n \notin TakenLeaves /\ TakenLeaves' = TakenLeaves \cup {n}
    BY <1>1, <2>1, <2>3 DEF TakenLeaves
  <2>5. /\ leaf'[n].keys = (IF GoesAbove(key[t], m) THEN U \cup {key[t]} ELSE U)
        /\ leaf'[b].keys = leaf[b].keys \ U
        /\ \A a \in TakenLeaves : a # b => leaf'[a] = leaf[a]
        /\ pc'[t] = (IF GoesAbove(key[t], m) THEN "parent" ELSE "lower")
    BY <1>1, <2>1, <2>2, <2>4 DEF Goto
  <2>6. U \subseteq leaf[b].keys
    BY DEF UpperHalf
  <2>7. /\ \A x : x \in Present <=> \E a \in TakenLeaves : x \in leaf[a].keys
        /\ \A x : x \in Present' <=> \E a \in TakenLeaves' : x \in leaf'[a].keys
    BY PresentKeys, PresentKeysNext DEF PresentAre
  <2>8. \A x : x \in Present' <=> \/ x \in leaf'[n].keys \/ x \in leaf'[b].keys
                                  \/ \E a \in TakenLeaves : a # b /\ x \in leaf[a].keys
    BY <2>1, <2>4, <2>5, <2>7
  <2>9. \A x : x \in Present <=> \/ x \in leaf[b].keys
                                 \/ \E a \in TakenLeaves : a # b /\ x \in leaf[a].keys
    BY <2>1, <2>7
  <2>10. CASE GoesAbove(key[t], m)
    <3>1. Present' = Present \cup {key[t]}
      BY <2>5, <2>6, <2>8, <2>9, <2>10
    <3>2. Pending(t)' = <<>>
      BY <2>5, <2>10 DEF Pending, Searching
    <3> QED
      BY <2>1, <3>1, <3>2, ShowsInsert
  <2>11. CASE ~GoesAbove(key[t], m)
    <3>1. Present' = Present
      BY <2>5, <2>6, <2>8, <2>9, <2>11
    <3>2. Pending(t)' = Pending(t)
      BY <2>1, <2>5, <2>11 DEF Pending, Searching
    <3> QED
      BY <2>1, <3>1, <3>2, ShowsNothing
  <2> QED
    BY <2>10, <2>11
<1>7. ASSUME UNCHANGED <<leafTop, ret>>, \A a \in Leaves : leaf'[a].keys = leaf[a].keys,
             pc[t] \in {"parent", "up", "count", "growRoot", "unlockOld", "unlockNew"},
             pc'[t] \in {"idle", "up", "count", "growRoot", "unlockOld", "unlockNew"}
      PROVE  MapStep
  <2>1. Present' = Present
    BY <1>1, <1>7, PresentSame DEF TakenLeaves
  <2>2. Pending(t) = <<>> /\ Pending(t)' = <<>>
    BY <1>7 DEF Pending, Searching
  <2> QED
    BY <1>7, <2>1, <2>2, ShowsNothing
<1>8. CASE ReadTotalLevel(t)
  BY <1>1, <1>7, <1>8 DEF ReadTotalLevel, Goto, shared, pools
<1>9. CASE ParentShift(t)
  BY <1>1, <1>7, <1>9 DEF ParentShift, Goto, pools, locals, AtParent
<1>10. CASE ParentCount(t)
  BY <1>1, <1>7, <1>10 DEF ParentCount, Return, pools
<1>11. CASE ParentSplit(t)
  BY <1>1, <1>7, <1>11 DEF ParentSplit, AtParent
<1>12. CASE GrowLevel(t)
  BY <1>1, <1>7, <1>12 DEF GrowLevel, Goto
<1>13. CASE GrowRoot(t)
  BY <1>1, <1>7, <1>13 DEF GrowRoot, Goto, pools, locals
<1>14. CASE UnlockOldRoot(t)
  <2>1. \A a \in Leaves : leaf'[a].keys = leaf[a].keys
    BY <1>1, <1>14 DEF UnlockOldRoot, LeafType
  <2> QED
    BY <1>1, <1>7, <1>14, <2>1 DEF UnlockOldRoot, Goto, pools, locals
<1>15. CASE UnlockNewRoot(t)
  BY <1>1, <1>7, <1>15 DEF UnlockNewRoot, Return, pools
<1> QED
  BY <1>4, <1>5, <1>6, <1>8, <1>9, <1>10, <1>11, <1>12, <1>13, <1>14, <1>15 DEF Insert

\* The header write of a del takes the key away.
LEMMA DelShows ==
  ASSUME NEW sh, IInv(sh), Shaped, Shaped', CallMatches, NEW t \in Threads, OthersCalls(t),
         Del(t)
  PROVE  MapStep
<1>1. DeleteEntry(t)
  BY NoRemoval DEF Del
<1> PICK b : b = lp(t)
  OBVIOUS
<1>2. pc[t] = "leafDel" /\ pc \in [Threads -> Stages] /\ leaf \in [Leaves -> LeafType]
  BY <1>1 DEF DeleteEntry, IInv, TypeOK, LocalTypes
<1>3. b \in TakenLeaves /\ b \in Leaves /\ key[t] \in Keys /\ sh.lo[b] =< key[t] /\ key[t] < sh.hi[b]
  BY <1>2, TakenTypes DEF IInv, LocalTypes, ThreadOK, LeafCallOK
<1>4. /\ leaf' = [leaf EXCEPT ![b].keys = @ \ {key[t]}, ![b].lock = FALSE]
      /\ pc'[t] = "idle" /\ UNCHANGED ret /\ TakenLeaves' = TakenLeaves
  BY <1>1, <1>2 DEF DeleteEntry, Return, pools, TakenLeaves
<1>5. leaf'[b].keys = leaf[b].keys \ {key[t]} /\ \A a \in Leaves : a # b => leaf'[a] = leaf[a]
  BY <1>2, <1>3, <1>4 DEF LeafType
<1>6. \A a \in TakenLeaves : key[t] \in leaf[a].keys => a = b
  BY <1>3, KeyInOneLeaf
<1>7. TakenLeaves \subseteq Leaves
  BY TakenTypes DEF IInv
<1>8. /\ \A x : x \in Present <=>
            x \in leaf[b].keys \/ \E a \in TakenLeaves : a # b /\ x \in leaf[a].keys
      /\ \A x : x \in Present' <=>
            x \in leaf'[b].keys \/ \E a \in TakenLeaves : a # b /\ x \in leaf[a].keys
  BY <1>3, <1>4, <1>5, <1>7, PresentWhenOneChanges, ZenonT(60)
<1>9. Present' = Present \ {key[t]}
  BY <1>5, <1>6, <1>8
<1>10. Pending(t) = <<"del", key[t]>> /\ Pending(t)' = <<>>
  BY <1>2, <1>4 DEF Pending, Searching, CallMatches
<1> QED
  BY <1>4, <1>9, <1>10, ShowsDel

\* A call starts with nothing shown.
LEMMA CallShows ==
  ASSUME NEW sh, IInv(sh), Shaped, Shaped', NEW t \in Threads, OthersCalls(t), Call(t)
  PROVE  MapStep
<1>1. /\ pc \in [Threads -> Stages] /\ op \in [Threads -> Ops \cup {"none"}]
      /\ key \in [Threads -> Keys \cup {NoKey}]
  BY DEF IInv, TypeOK, LocalTypes
<1>2. PICK w \in Work[t] : op' = [op EXCEPT ![t] = w[1]] /\ key' = [key EXCEPT ![t] = w[2]]
  BY DEF Call
<1>3. w \in Ops \X Keys
  BY WorkAssumption
<1>4. pc[t] = "idle" /\ pc'[t] = "start"
  BY <1>1 DEF Call, Goto
<1>5. Pending(t) = <<>> /\ Pending(t)' = w
  BY <1>1, <1>2, <1>3, <1>4 DEF Pending, Searching
<1>6. Present' = Present
  BY PresentSame DEF Call, shared, pools, TakenLeaves
<1> QED
  BY <1>5, <1>6, ShowsCall DEF Call

\* The index starts with the keys that were bulkloaded.
LEMMA InitShows ==
  ASSUME Init, Loaded
  PROVE  KV!KInit /\ CallMatches
<1>1. PICK sh \in ShapeType : AtRest(sh)
  BY DEF Loaded
<1>2. Shaped
  BY InitShaped
<1>3. leaf = InitTree.leaf /\ ret = [t \in Threads |-> "none"] /\ pc = [t \in Threads |-> "idle"]
  BY DEF Init
<1>4. TakenLeaves \subseteq Leaves
  BY <1>2, TakenTypes DEF Shaped, IInv
<1>5. \A a \in Leaves \ TakenLeaves : leaf[a].keys = {}
  BY <1>1 DEF AtRest
<1>6. Present = UNION {InitTree.leaf[a].keys : a \in Leaves}
  BY <1>2, <1>3, <1>4, <1>5, PresentKeys DEF PresentAre
<1>7. [t \in Threads |-> Pending(t)] = [t \in Threads |-> <<>>]
  BY <1>3 DEF Pending, Searching
<1>8. KV!KInit
  BY <1>3, <1>6, <1>7 DEF KV!KInit, KV!NoCall
<1>9. CallMatches
  BY <1>3 DEF CallMatches
<1> QED
  BY <1>8, <1>9

\* Every step of the tree is one of KVMap, or shows nothing.
LEMMA NextShows ==
  ASSUME Shaped, Shaped', CallMatches, LeavesKeepKeys, [Next]_vars
  PROVE  CallMatches' /\ MapStep
<1> PICK sh : IInv(sh)
  BY DEF Shaped
<1>1. CASE UNCHANGED vars
  <2>1. UNCHANGED <<pc, op, key, ret, leaf, leafTop>>
    BY <1>1 DEF vars, shared, pools, locals, call
  <2>2. Present' = Present
    BY <2>1, PresentSame DEF TakenLeaves
  <2>3. Pend' = Pend
    BY <2>1 DEF Pend, Pending
  <2> QED
    BY <2>1, <2>2, <2>3 DEF CallMatches, MapStep
<1>2. ASSUME NEW t \in Threads, Call(t) \/ Step(t) PROVE CallMatches' /\ MapStep
  <2>1. OthersCalls(t) /\ CallMatches'
    BY <1>2, OneCallMoves, MatchesKept
  <2> QED
    BY <1>2, <2>1, SearchShows, InsertShows, DelShows, CallShows DEF Step
<1> QED
  BY <1>1, <1>2 DEF Next, Join

\* Every call of the concurrent tree takes effect at one moment between its
\* start and its return, and a lookup answers for that moment.
THEOREM TreeIsMap == Spec /\ Loaded /\ []Undisturbed => Linearizable
<1>1. Init /\ Loaded => KV!KInit /\ CallMatches
  BY InitShows
<1>2. Shaped /\ Shaped' /\ CallMatches /\ Undisturbed /\ [Next]_vars => CallMatches' /\ MapStep
  BY NextShows DEF Undisturbed
<1>3. MapStep => [KV!KNext]_(KV!kvars)
  BY DEF MapStep, KV!kvars, Pend
<1> QED
  BY <1>1, <1>2, <1>3, Invariant, PTL DEF Spec, Linearizable, KV!KSpec

-----------------------------------------------------------------------------
(***************************************************************************)
(* One thread that deletes nothing is never disturbed.                     *)
(***************************************************************************)
Alone    == \E w : Threads = {w}
NoDels   == \A t \in Threads : \A w \in Work[t] : w[1] # "del"
NotInDel == \A t \in Threads : op[t] # "del"

\* One thread without deletions is not disturbed.
LEMMA AloneUndisturbed ==
  ASSUME Alone, NotInDel
  PROVE  Undisturbed
<1>1. LeavesKeepKeys
  BY DEF NotInDel, LeavesKeepKeys, AtOpenLeaf
<1>2. RootUnraced
  BY DEF Alone, RootUnraced, Outrun
<1> QED
  BY <1>1, <1>2 DEF Undisturbed

\* A thread that is given no deletion makes none.
LEMMA NotInDelKept ==
  ASSUME NEW sh, IInv(sh), LeavesKeepKeys, NoDels, NotInDel, [Next]_vars
  PROVE  NotInDel'
<1>1. op \in [Threads -> Ops \cup {"none"}]
  BY DEF IInv, TypeOK
<1>2. ASSUME UNCHANGED op PROVE NotInDel'
  BY <1>2 DEF NotInDel
<1>3. ASSUME NEW t \in Threads, Return(t) PROVE NotInDel'
  BY <1>1, <1>3 DEF NotInDel, Return
<1>4. ASSUME NEW t \in Threads, Call(t) PROVE NotInDel'
  <2>1. PICK w \in Work[t] : op' = [op EXCEPT ![t] = w[1]]
    BY <1>4 DEF Call
  <2> QED
    BY <1>1, <2>1 DEF NotInDel, NoDels
<1>5. ASSUME NEW t \in Threads, Search(t) PROVE NotInDel'
  BY <1>2, <1>3, <1>5, NoRemoval
     DEF Search, LockAndReadRoot, LockAndReadLevel, ReadLevel, ReadRoot, Descend, BlockedByLock,
         LookupLeaf, NothingToDo, InsertLock, DelLock, call
<1>6. ASSUME NEW t \in Threads, Insert(t) PROVE NotInDel'
  BY <1>2, <1>3, <1>6
     DEF Insert, InsertEntry, SplitLeaf, InsertLower, ReadTotalLevel, ParentShift, ParentCount,
         ParentSplit, GrowLevel, GrowRoot, UnlockOldRoot, UnlockNewRoot, locals, call
<1>7. ASSUME NEW t \in Threads, Del(t) PROVE NotInDel'
  BY <1>3, <1>7, NoRemoval DEF Del, DeleteEntry
<1> QED
  BY <1>2, <1>4, <1>5, <1>6, <1>7 DEF Next, Step, Join, vars, locals, call

\* What is proved of undisturbed behaviours holds of every behaviour of one
\* thread that looks up and inserts.
THEOREM AloneCorrect ==
  ASSUME Alone, NoDels
  PROVE  Spec /\ Loaded => /\ []LocksOwned /\ []NoWildRead /\ []ChainOrdered
                           /\ []LeavesAccounted /\ []CheckPasses /\ OnlyHolderWrites
                           /\ Linearizable
<1>1. Init /\ Loaded => Shaped /\ NotInDel
  BY InitShaped DEF Init, NotInDel
<1>2. Shaped /\ NotInDel /\ [Next]_vars => Shaped' /\ NotInDel'
  <2> SUFFICES ASSUME Shaped, NotInDel, [Next]_vars PROVE Shaped' /\ NotInDel'
    OBVIOUS
  <2>1. Undisturbed
    BY AloneUndisturbed
  <2>2. NotInDel'
    BY <2>1, NotInDelKept DEF Shaped, Undisturbed
  <2>3. (Alone /\ NotInDel => Undisturbed)'
    BY AloneUndisturbed, PTL
  <2>4. Undisturbed'
    BY <2>2, <2>3 DEF Alone
  <2> QED
    BY <2>1, <2>2, <2>4, StepKeeps
<1>3. NotInDel => Undisturbed
  BY AloneUndisturbed
<1>4. Spec /\ Loaded => []Undisturbed
  BY <1>1, <1>2, <1>3, PTL DEF Spec
<1> QED
  BY <1>4, LocksHeld, NothingWild, ChainInOrder, NoLeafLost, ChecksPass, HoldersWrite, TreeIsMap,
     PTL

===============================================================================
