-------------------------- MODULE LBTreeSteps_proofs --------------------------
(***************************************************************************)
(* The concurrent tree keeps its invariant, IInv of LBTreeInv: the search  *)
(* inside a node, what a step of one thread leaves to the others, and the  *)
(* steps of a search, of an insert or del in its leaf, of a leaf split,    *)
(* and those that put a new root in place and release the last nodes.      *)
(*                                                                         *)
(* A step is proved in three parts: the types; the tree and its owners,    *)
(* for the shape after the step; and what the thread knows of them.  Frame *)
(* says what the other threads rely on, and OthersStay that they then know *)
(* what they knew.                                                         *)
(***************************************************************************)
EXTENDS LBTreeInv, WellFoundedInduction, FiniteSetTheorems, TLAPS

-----------------------------------------------------------------------------
(***************************************************************************)
(* What the recursive function of module NodeSearch computes.  A function  *)
(* defined by recursion is some function that satisfies its equation:      *)
(* there is one (SolutionExists), and all of them give the child           *)
(* (SolutionIsAnswer).  Induction is on the size of the range, as the      *)
(* least range for which a claim fails (Least).                            *)
(***************************************************************************)
\* A non-empty set of natural numbers has a least element.
LEMMA Least ==
  ASSUME NEW S \in SUBSET Nat, S # {}
  PROVE  \E m \in S : \A x \in S : m =< x
<1> DEFINE R == {ss \in Nat \X Nat : ss[1] < ss[2]}
<1>1. OpToRel(<, Nat) = R
  BY DEF OpToRel
<1>2. IsWellFoundedOn(R, Nat)
  BY <1>1, NatLessThanWellFounded
<1>3. PICK m \in S : \A y \in S : <<y, m>> \notin R
  <2> HIDE DEF R
  <2> QED
    BY <1>2, WFMin
<1>4. \A y \in S : ~(y < m)
  BY <1>3
<1> QED
  BY <1>4

Places(num) == [b : 1 .. num + 1, t : 0 .. num]

\* j is the last entry of range s that is not larger than x, or the place
\* before the range.
IsAnswer(k, s, x, j) ==
    /\ j \in Int /\ s.b - 1 =< j /\ (j =< s.t \/ j = s.b - 1)
    /\ \A i \in s.b .. s.t : (i =< j => k[i] =< x) /\ (j < i => x < k[i])

\* The equation ChildOf's function is defined by.
Solves(f, k, num, x) ==
    f = [s \in Places(num) |->
            IF Large(s) THEN f[Halve(k, s, x)]
            ELSE IF Passes(k, s, x) THEN f[Scan(s)] ELSE s.b - 1]

Sorted(k, num, x) ==
    /\ num \in Nat /\ x \in KeyType
    /\ \A i \in 1 .. num : k[i] \in KeyType /\ Near(x, k[i])
    /\ \A i, j \in 1 .. num : i < j => k[i] < k[j]

Size(s) == s.t - s.b + 1

\* Where the next round goes.
Narrower(k, s, x) == IF Large(s) THEN Halve(k, s, x) ELSE Scan(s)
Goes(k, s, x)     == Large(s) \/ Passes(k, s, x)

\* The subtraction does not wrap around.
LEMMA NoWrap ==
  ASSUME NEW x \in KeyType, NEW y \in KeyType, Near(x, y)
  PROVE  Diff(x, y) = x - y
<1>1. HalfRange \in Nat \ {0} /\ x \in Int /\ y \in Int
  BY SearchAssumption DEF KeyType
<1>2. x - y + HalfRange \in 0 .. 2 * HalfRange - 1
  BY <1>1 DEF Near, KeyType
<1>3. (x - y + HalfRange) % (2 * HalfRange) = x - y + HalfRange
  BY <1>1, <1>2
<1> QED
  BY <1>1, <1>3 DEF Diff

\* A round makes the range smaller, and what answers the smaller one answers
\* the larger one.
LEMMA RoundAnswers ==
  ASSUME NEW k, NEW num, NEW x, Sorted(k, num, x),
         NEW s \in Places(num), Goes(k, s, x)
  PROVE  /\ Narrower(k, s, x) \in Places(num)
         /\ Size(Narrower(k, s, x)) < Size(s)
         /\ \A j : IsAnswer(k, Narrower(k, s, x), x, j) => IsAnswer(k, s, x, j)
<1>0. /\ num \in Nat /\ x \in Int /\ s.b \in 1 .. num + 1 /\ s.t \in 0 .. num
      /\ \A i \in 1 .. num : k[i] \in Int
      /\ \A i, j \in 1 .. num : i < j => k[i] < k[j]
      /\ s = [b |-> s.b, t |-> s.t]
  BY SearchAssumption DEF Sorted, Places, KeyType
<1>1. CASE Large(s)
  <2> DEFINE m == (s.b + s.t) \div 2
  <2>1. s.b + 1 =< s.t /\ s.b =< m /\ m =< s.t /\ m \in 1 .. num
    BY <1>0, <1>1, SearchAssumption DEF Large
  <2>2. Diff(x, k[m]) = x - k[m]
    BY <2>1, NoWrap DEF Sorted
  <2>3. /\ x > k[m] => Halve(k, s, x) = [b |-> m + 1, t |-> s.t]
        /\ x < k[m] => Halve(k, s, x) = [b |-> s.b, t |-> m - 1]
        /\ x = k[m] => Halve(k, s, x) = [b |-> m + 1, t |-> m]
    BY <1>0, <2>1, <2>2 DEF Halve
  <2> HIDE DEF m
  <2>4. Narrower(k, s, x) = Halve(k, s, x)
    BY <1>1 DEF Narrower
  <2>5. \A i \in 1 .. num : (i < m => k[i] < k[m]) /\ (m < i => k[m] < k[i])
    BY <1>0, <2>1
  <2>6. CASE x > k[m]
    <3>1. Narrower(k, s, x) = [b |-> m + 1, t |-> s.t]
      BY <2>3, <2>4, <2>6
    <3>2. ASSUME NEW j, IsAnswer(k, [b |-> m + 1, t |-> s.t], x, j)
          PROVE  IsAnswer(k, s, x, j)
      <4>1. /\ j \in Int /\ m =< j /\ j =< s.t
            /\ \A i \in m + 1 .. s.t : (i =< j => k[i] =< x) /\ (j < i => x < k[i])
        BY <1>0, <2>1, <3>2 DEF IsAnswer
      <4>2. \A i \in s.b .. m : k[i] =< x
        BY <1>0, <2>1, <2>5, <2>6
      <4> QED
        BY <1>0, <2>1, <4>1, <4>2 DEF IsAnswer
    <3> QED
      BY <1>0, <2>1, <3>1, <3>2 DEF Places, Size
  <2>7. CASE x < k[m]
    <3>1. Narrower(k, s, x) = [b |-> s.b, t |-> m - 1]
      BY <2>3, <2>4, <2>7
    <3>2. ASSUME NEW j, IsAnswer(k, [b |-> s.b, t |-> m - 1], x, j)
          PROVE  IsAnswer(k, s, x, j)
      <4>1. /\ j \in Int /\ s.b - 1 =< j /\ j =< m - 1
            /\ \A i \in s.b .. m - 1 : (i =< j => k[i] =< x) /\ (j < i => x < k[i])
        BY <1>0, <2>1, <3>2 DEF IsAnswer
      <4>2. \A i \in m .. s.t : x < k[i]
        BY <1>0, <2>1, <2>5, <2>7
      <4> QED
        BY <1>0, <2>1, <4>1, <4>2 DEF IsAnswer
    <3> QED
      BY <1>0, <2>1, <3>1, <3>2 DEF Places, Size
  <2>8. CASE x = k[m]
    <3>1. Narrower(k, s, x) = [b |-> m + 1, t |-> m]
      BY <2>3, <2>4, <2>8
    <3>2. ASSUME NEW j, IsAnswer(k, [b |-> m + 1, t |-> m], x, j)
          PROVE  IsAnswer(k, s, x, j)
      <4>1. j = m
        BY <1>0, <2>1, <3>2 DEF IsAnswer
      <4>2. \A i \in s.b .. s.t : (i =< m => k[i] =< x) /\ (m < i => x < k[i])
        BY <1>0, <2>1, <2>5, <2>8
      <4> QED
        BY <1>0, <2>1, <4>1, <4>2 DEF IsAnswer
    <3> QED
      BY <1>0, <2>1, <3>1, <3>2 DEF Places, Size
  <2> QED
    BY <1>0, <2>1, <2>6, <2>7, <2>8
<1>2. CASE ~Large(s)
  <2>1. s.b =< s.t /\ k[s.b] =< x
    BY <1>2 DEF Goes, Passes
  <2>2. Narrower(k, s, x) = [b |-> s.b + 1, t |-> s.t]
    BY <1>0, <1>2 DEF Narrower, Scan
  <2>3. ASSUME NEW j, IsAnswer(k, [b |-> s.b + 1, t |-> s.t], x, j)
        PROVE  IsAnswer(k, s, x, j)
    <3>1. /\ j \in Int /\ s.b =< j /\ j =< s.t
          /\ \A i \in s.b + 1 .. s.t : (i =< j => k[i] =< x) /\ (j < i => x < k[i])
      BY <1>0, <2>1, <2>3 DEF IsAnswer
    <3> QED
      BY <1>0, <2>1, <3>1 DEF IsAnswer
  <2> QED
    BY <1>0, <2>1, <2>2, <2>3 DEF Places, Size
<1> QED
  BY <1>1, <1>2

\* A range that needs no round is answered by the place before it.
LEMMA LastAnswers ==
  ASSUME NEW k, NEW num, NEW x, Sorted(k, num, x),
         NEW s \in Places(num), ~Goes(k, s, x)
  PROVE  IsAnswer(k, s, x, s.b - 1)
<1>1. /\ num \in Nat /\ x \in Int /\ s.b \in 1 .. num + 1 /\ s.t \in 0 .. num
      /\ \A i \in 1 .. num : k[i] \in Int
      /\ \A i, j \in 1 .. num : i < j => k[i] < k[j]
  BY SearchAssumption DEF Sorted, Places, KeyType
<1>2. s.b =< s.t => x < k[s.b]
  BY <1>1 DEF Goes, Passes
<1>3. \A i \in s.b .. s.t : x < k[i]
  <2> SUFFICES ASSUME NEW i \in s.b .. s.t PROVE x < k[i]
    OBVIOUS
  <2>1. i \in 1 .. num /\ s.b \in 1 .. num /\ (s.b = i \/ s.b < i)
    BY <1>1
  <2>2. x < k[s.b] /\ k[s.b] \in Int /\ k[i] \in Int
    BY <1>1, <1>2, <2>1
  <2>3. s.b < i => k[s.b] < k[i]
    BY <1>1, <2>1
  <2> QED
    BY <1>1, <2>1, <2>2, <2>3
<1> QED
  BY <1>1, <1>3 DEF IsAnswer

\* A range has one answer.
LEMMA OneAnswer ==
  ASSUME NEW k, NEW num, NEW x, Sorted(k, num, x), NEW s \in Places(num),
         NEW i, IsAnswer(k, s, x, i), NEW j, IsAnswer(k, s, x, j)
  PROVE  i = j
<1>1. /\ x \in Int /\ s.b \in 1 .. num + 1 /\ s.t \in 0 .. num /\ num \in Nat
      /\ \A h \in 1 .. num : k[h] \in Int
  BY SearchAssumption DEF Sorted, Places, KeyType
<1>2. i \in Int /\ j \in Int
  BY DEF IsAnswer
<1>3. CASE i < j
  <2>1. j \in s.b .. s.t
    BY <1>1, <1>2, <1>3 DEF IsAnswer
  <2>2. k[j] =< x /\ x < k[j] /\ k[j] \in Int
    BY <1>1, <1>2, <1>3, <2>1 DEF IsAnswer
  <2> QED
    BY <1>1, <2>2
<1>4. CASE j < i
  <2>1. i \in s.b .. s.t
    BY <1>1, <1>2, <1>4 DEF IsAnswer
  <2>2. k[i] =< x /\ x < k[i] /\ k[i] \in Int
    BY <1>1, <1>2, <1>4, <2>1 DEF IsAnswer
  <2> QED
    BY <1>1, <2>2
<1> QED
  BY <1>2, <1>3, <1>4

\* A statement about ranges that each round takes from the smaller range to
\* the larger one holds of all ranges.
LEMMA AnswerExists ==
  ASSUME NEW k, NEW num, NEW x, Sorted(k, num, x)
  PROVE  \A s \in Places(num) : \E j : IsAnswer(k, s, x, j)
<1> DEFINE Bad == {s \in Places(num) : ~\E j : IsAnswer(k, s, x, j)}
           Sizes == {Size(s) + num : s \in Bad}
<1> SUFFICES ASSUME NEW s0 \in Bad PROVE FALSE
  OBVIOUS
<1>1. \A s \in Places(num) : Size(s) + num \in Nat /\ Size(s) \in Int /\ num \in Nat
  BY DEF Places, Size, Sorted
<1>2. PICK m \in Sizes : \A n \in Sizes : m =< n
  BY <1>1, Least
<1>3. PICK s \in Bad : m = Size(s) + num
  BY <1>2
<1>4. CASE Goes(k, s, x)
  <2>1. /\ Narrower(k, s, x) \in Places(num)
        /\ Size(Narrower(k, s, x)) < Size(s)
        /\ \A j : IsAnswer(k, Narrower(k, s, x), x, j) => IsAnswer(k, s, x, j)
    BY <1>4, RoundAnswers
  <2>2. Narrower(k, s, x) \in Bad
    BY <2>1
  <2>3. m =< Size(Narrower(k, s, x)) + num
    BY <1>2, <2>2
  <2> QED
    BY <1>1, <1>3, <2>1, <2>3
<1>5. CASE ~Goes(k, s, x)
  BY <1>5, LastAnswers
<1> QED
  BY <1>4, <1>5

\* ChildOf's equation has a solution.
LEMMA SolutionExists ==
  ASSUME NEW k, NEW num, NEW x, Sorted(k, num, x)
  PROVE  \E f : Solves(f, k, num, x)
<1> DEFINE Ans(s) == CHOOSE j : IsAnswer(k, s, x, j)
           g == [s \in Places(num) |-> Ans(s)]
<1>1. \A s \in Places(num) : IsAnswer(k, s, x, Ans(s))
  BY AnswerExists
<1>2. ASSUME NEW s \in Places(num), Goes(k, s, x)
      PROVE  g[s] = g[Narrower(k, s, x)]
  <2>1. /\ Narrower(k, s, x) \in Places(num)
        /\ \A j : IsAnswer(k, Narrower(k, s, x), x, j) => IsAnswer(k, s, x, j)
    BY <1>2, RoundAnswers
  <2>2. IsAnswer(k, s, x, Ans(Narrower(k, s, x))) /\ IsAnswer(k, s, x, Ans(s))
    BY <1>1, <2>1
  <2>3. Ans(s) = Ans(Narrower(k, s, x))
    <3> HIDE DEF Ans
    <3> QED
      BY <2>2, OneAnswer
  <2> QED
    BY <2>1, <2>3
<1>3. ASSUME NEW s \in Places(num), ~Goes(k, s, x)
      PROVE  g[s] = s.b - 1
  <2>1. IsAnswer(k, s, x, s.b - 1) /\ IsAnswer(k, s, x, Ans(s))
    BY <1>1, <1>3, LastAnswers
  <2>2. Ans(s) = s.b - 1
    <3> HIDE DEF Ans
    <3> QED
      BY <2>1, OneAnswer
  <2> QED
    BY <2>2
<1>4. \A s \in Places(num) :
        g[s] = IF Large(s) THEN g[Halve(k, s, x)]
               ELSE IF Passes(k, s, x) THEN g[Scan(s)] ELSE s.b - 1
  <2> HIDE DEF g
  <2> QED
    BY <1>2, <1>3 DEF Goes, Narrower
<1>5. Solves(g, k, num, x)
  <2>1. g = [s \in Places(num) |-> g[s]]
    OBVIOUS
  <2> HIDE DEF g
  <2>2. g = [s \in Places(num) |-> IF Large(s) THEN g[Halve(k, s, x)]
                                 ELSE IF Passes(k, s, x) THEN g[Scan(s)] ELSE s.b - 1]
    BY <1>4, <2>1
  <2> QED
    BY <2>2 DEF Solves
<1> QED
  BY <1>5

\* Every solution gives each range its answer.
LEMMA SolutionIsAnswer ==
  ASSUME NEW k, NEW num, NEW x, Sorted(k, num, x), NEW f, Solves(f, k, num, x)
  PROVE  \A s \in Places(num) : IsAnswer(k, s, x, f[s])
<1> DEFINE Bad == {s \in Places(num) : ~IsAnswer(k, s, x, f[s])}
           Sizes == {Size(s) + num : s \in Bad}
<1> SUFFICES ASSUME NEW s0 \in Bad PROVE FALSE
  OBVIOUS
<1>1. \A s \in Places(num) : Size(s) + num \in Nat /\ Size(s) \in Int /\ num \in Nat
  BY DEF Places, Size, Sorted
<1>2. PICK m \in Sizes : \A n \in Sizes : m =< n
  BY <1>1, Least
<1>3. PICK s \in Bad : m = Size(s) + num
  BY <1>2
<1>4. f[s] = IF Large(s) THEN f[Halve(k, s, x)]
             ELSE IF Passes(k, s, x) THEN f[Scan(s)] ELSE s.b - 1
  BY DEF Solves
<1>5. CASE Goes(k, s, x)
  <2>1. /\ Narrower(k, s, x) \in Places(num)
        /\ Size(Narrower(k, s, x)) < Size(s)
        /\ \A j : IsAnswer(k, Narrower(k, s, x), x, j) => IsAnswer(k, s, x, j)
    BY <1>5, RoundAnswers
  <2>2. f[s] = f[Narrower(k, s, x)]
    BY <1>4, <1>5 DEF Goes, Narrower
  <2>3. Narrower(k, s, x) \in Bad
    BY <2>1, <2>2
  <2>4. m =< Size(Narrower(k, s, x)) + num
    BY <1>2, <2>3
  <2> QED
    BY <1>1, <1>3, <2>1, <2>4
<1>6. CASE ~Goes(k, s, x)
  BY <1>4, <1>6, LastAnswers DEF Goes
<1> QED
  BY <1>5, <1>6

\* In a node of sorted keys whose differences from x fit a key_type, the
\* search of lookup, insert and del ends at the child under which x belongs.
THEOREM ChildOfIsChild ==
  ASSUME NEW k, NEW num, NEW x, Sorted(k, num, x)
  PROVE  /\ ChildOf(k, num, x) \in 0 .. num
         /\ \A i \in 1 .. num : /\ i =< ChildOf(k, num, x) => k[i] =< x
                                /\ ChildOf(k, num, x) < i => x < k[i]
<1> DEFINE F == CHOOSE f : Solves(f, k, num, x)
<1>1. ChildOf(k, num, x) = F[[b |-> 1, t |-> num]]
  BY DEF ChildOf, Solves, Places
<1>2. Solves(F, k, num, x)
  BY SolutionExists
<1> HIDE DEF F
<1>3. num \in Nat /\ [b |-> 1, t |-> num] \in Places(num)
  BY DEF Sorted, Places
<1>4. IsAnswer(k, [b |-> 1, t |-> num], x, F[[b |-> 1, t |-> num]])
  BY <1>2, <1>3, SolutionIsAnswer
<1> QED
  BY <1>1, <1>3, <1>4 DEF IsAnswer

-----------------------------------------------------------------------------
USE SizeAssumption, SearchAssumption

-----------------------------------------------------------------------------
(***************************************************************************)
(* Addresses and types.                                                    *)
(***************************************************************************)
\* What the assumptions say of the sizes and keys.
LEMMA Sizes ==
  /\ LEAF_KEY_NUM \in Nat /\ 2 =< LEAF_KEY_NUM
  /\ NON_LEAF_KEY_NUM \in Nat /\ 2 =< NON_LEAF_KEY_NUM
  /\ MaxLevel \in Nat /\ 1 =< MaxLevel /\ MaxLeaf \in Nat /\ MaxNode \in Nat
  /\ Low \in Int /\ High \in Int /\ Keys \subseteq Int /\ NoKey \notin Keys
  /\ \A x \in Keys : Low =< x /\ x < High
  BY DEF Low, High, KeyType

\* Leaves are positive addresses, bnodes negative ones.
LEMMA Addresses ==
  /\ Leaves \subseteq Nat \ {0} /\ BNodes \subseteq Int
  /\ \A p \in BNodes : p < 0
  /\ Leaves \cap BNodes = {} /\ NULL \notin Leaves /\ NULL \notin BNodes
  /\ Addr \subseteq Int
  BY Sizes DEF Leaves, BNodes, NULL, Addr

\* The nodes handed out are addresses.
LEMMA TakenTypes ==
  ASSUME TypeOK
  PROVE  /\ leafTop \in Nat /\ nodeTop \in Nat
         /\ TakenLeaves \subseteq Leaves /\ TakenNodes \subseteq BNodes
         /\ Taken \subseteq Addr /\ TakenLeaves \cap TakenNodes = {}
  BY Sizes DEF TypeOK, TakenLeaves, TakenNodes, Taken, Addr, Leaves, BNodes

\* The fields of a shape.
LEMMA ShapeTypes ==
  ASSUME NEW sh, sh \in ShapeType
  PROVE  /\ sh.lvl \in [Addr -> 0 .. MaxLevel] /\ sh.lo \in [Addr -> Int]
         /\ sh.hi \in [Addr -> Int] /\ sh.cnt \in [BNodes -> 0 .. NON_LEAF_KEY_NUM]
         /\ sh.end \in [Addr -> Addr] /\ sh.own \in [Addr -> Threads \cup {NoThread}]
         /\ sh.top \in [Threads -> 0 .. MaxLevel]
  BY DEF ShapeType

\* The fields of a leaf.
LEMMA LeafTypes ==
  ASSUME TypeOK, NEW a \in Leaves
  PROVE  /\ leaf[a] \in LeafType /\ leaf[a].lock \in BOOLEAN /\ leaf[a].keys \subseteq Keys
         /\ leaf[a].next \in Leaves \cup {NULL} /\ IsFiniteSet(leaf[a].keys)
         /\ Cardinality(leaf[a].keys) \in Nat
<1>1. leaf[a] \in LeafType /\ leaf[a].lock \in BOOLEAN /\ leaf[a].keys \subseteq Keys
      /\ leaf[a].next \in Leaves \cup {NULL}
  BY DEF TypeOK, LeafType
<1>2. IsFiniteSet(KeyType)
  BY FS_Interval DEF KeyType
<1>3. IsFiniteSet(leaf[a].keys)
  BY <1>1, <1>2, FS_Subset
<1> QED
  BY <1>1, <1>3, FS_CardinalityType

\* The fields of a bnode.
LEMMA NodeTypes ==
  ASSUME TypeOK, NEW p \in BNodes
  PROVE  /\ bnode[p] \in NodeType /\ bnode[p].lock \in BOOLEAN
         /\ bnode[p].num \in 0 .. NON_LEAF_KEY_NUM
         /\ bnode[p].k \in [1 .. NON_LEAF_KEY_NUM -> Keys \cup {NoKey}]
         /\ bnode[p].ch \in [0 .. NON_LEAF_KEY_NUM -> Leaves \cup BNodes \cup {NULL}]
  BY DEF TypeOK, NodeType

\* The nodes of a path are those of a thread.
LEMMA ThreadTypes ==
  ASSUME TypeOK, LocalTypes, NEW t \in Threads
  PROVE  /\ pc[t] \in Stages /\ lev[t] \in 0 .. MaxLevel /\ total[t] \in 0 .. MaxLevel
         /\ parray[t] \in [0 .. MaxLevel -> Leaves \cup BNodes \cup {NULL}]
         /\ ppos[t] \in [0 .. MaxLevel -> 0 .. NON_LEAF_KEY_NUM]
         /\ cur[t] \in Leaves \cup BNodes \cup {NULL} /\ ptr[t] \in Leaves \cup BNodes \cup {NULL}
         /\ pkey[t] \in Keys \cup {NoKey} /\ key[t] \in Keys \cup {NoKey}
         /\ root_level \in 0 .. MaxLevel /\ Base(t) \in Int
         /\ t # NoThread
<1>1. /\ pc[t] \in Stages /\ lev[t] \in 0 .. MaxLevel /\ total[t] \in 0 .. MaxLevel
      /\ ptr[t] \in Leaves \cup BNodes \cup {NULL} /\ pkey[t] \in Keys \cup {NoKey}
  BY DEF LocalTypes
<1>2. /\ parray[t] \in [0 .. MaxLevel -> Leaves \cup BNodes \cup {NULL}]
      /\ ppos[t] \in [0 .. MaxLevel -> 0 .. NON_LEAF_KEY_NUM]
      /\ cur[t] \in Leaves \cup BNodes \cup {NULL} /\ key[t] \in Keys \cup {NoKey}
  BY DEF TypeOK
<1>3. root_level \in 0 .. MaxLevel
  BY Sizes DEF TypeOK, LocalTypes
<1>4. Base(t) \in Int
  BY <1>1 DEF Base
<1>5. t # NoThread
  OBVIOUS
<1> QED
  BY <1>1, <1>2, <1>3, <1>4, <1>5

\* No node is in a free list.
LEMMA NothingFreed ==
  ASSUME LocalTypes
  PROVE  /\ \A a : ~FreedLeaf(a) /\ ~FreedNode(a)
  BY DEF LocalTypes, FreedLeaf, FreedNode

-----------------------------------------------------------------------------
(***************************************************************************)
(* A step of thread t leaves alone what belongs to the other threads.      *)
(***************************************************************************)
Keeps(sh, sh1, a) ==
    /\ a \in Taken' /\ sh1.lvl[a] = sh.lvl[a] /\ sh1.lo[a] = sh.lo[a] /\ sh1.hi[a] = sh.hi[a]
    /\ sh1.end[a] = sh.end[a] /\ sh1.own[a] = sh.own[a]
    /\ a \in Leaves => leaf'[a] = leaf[a]
    /\ a \in BNodes => bnode'[a] = bnode[a] /\ sh1.cnt[a] = sh.cnt[a]

SameLocals(sh, sh1, u) ==
    /\ pc'[u] = pc[u] /\ op'[u] = op[u] /\ key'[u] = key[u] /\ cur'[u] = cur[u]
    /\ lev'[u] = lev[u] /\ parray'[u] = parray[u] /\ ppos'[u] = ppos[u]
    /\ pkey'[u] = pkey[u] /\ ptr'[u] = ptr[u] /\ total'[u] = total[u]
    /\ sh1.top[u] = sh.top[u]

\* What t's step does to the nodes of other threads, and, if t does not
\* have the mutex, to those of nobody.
Frame(sh, sh1, t) ==
    /\ \A u \in Threads : u # t => SameLocals(sh, sh1, u)
    /\ \A a \in Taken : a \in Taken' /\ sh1.lvl[a] = sh.lvl[a]
    /\ \A a \in Taken : sh.own[a] # t /\ (sh.own[a] = NoThread => tree_lock # t) =>
          Keeps(sh, sh1, a)

SameRoot ==
    /\ tree_root' = tree_root /\ root_level' = root_level
    /\ Growing' <=> Growing

\* The root is out of reach of what u is going to change.
RootAway(sh, u) ==
    sh.top[u] < root_level /\ root_level' \in Int /\ root_level =< root_level'

\* A node a thread is going to change is its own.
LEMMA Owned ==
  ASSUME NEW sh, IInv(sh), NEW u \in Threads
  PROVE  /\ pc[u] \in {"insert", "leafDel"} /\ lp(u) \in Taken => sh.own[lp(u)] = u
         /\ pc[u] \in Splitting => \A i \in Base(u) .. sh.top[u] :
               parray[u][i] \in Taken => sh.own[parray[u][i]] = u
         /\ pc[u] \in Climbing /\ ptr[u] \in Taken => sh.own[ptr[u]] = u
         /\ pc[u] = "count" /\ parent(u) \in Taken => sh.own[parent(u)] = u
         /\ pc[u] \in {"growRoot", "unlockOld"} =>
               /\ cur[u] \in Taken => sh.own[cur[u]] = u
               /\ ptr[u] \in Taken => sh.own[ptr[u]] = u
         /\ pc[u] = "unlockNew" /\ ptr[u] \in Taken => sh.own[ptr[u]] = u
<1>1. \A a \in Taken : sh.own[a] = u <=> OwnedBy(sh, a, u)
  BY DEF IInv, Owners
<1> QED
  BY <1>1 DEF OwnedBy

\* A search finds what it has read as it was.
LEMMA OthersSearch ==
  ASSUME NEW sh, NEW sh1, IInv(sh), NEW t \in Threads, Frame(sh, sh1, t), SameRoot,
         NEW u \in Threads, u # t
  PROVE  SearchOK(sh1, u)'
<1>1. SearchOK(sh, u) /\ SameLocals(sh, sh1, u) /\ (pc[u] \in Part1 <=> tree_lock = u)
  BY DEF IInv, ThreadOK, Frame, LocalTypes
<1>2. CASE pc[u] \notin Part1
  BY <1>1, <1>2 DEF SearchOK, SameLocals, Part1
<1>3. CASE pc[u] \in Part1
  <2>1. \A a \in Taken : sh.own[a] = NoThread => Keeps(sh, sh1, a)
    BY <1>1, <1>3, ThreadTypes DEF Frame, IInv, LocalTypes
  <2>2. ASSUME Found(sh, u) PROVE Found(sh1, u)'
    <3>1. /\ lev[u] =< root_level /\ cur[u] \in Taken /\ sh.lvl[cur[u]] = lev[u]
          /\ lev[u] = root_level => cur[u] = tree_root
          /\ lev[u] < root_level => parray[u][root_level] = tree_root
      BY <2>2 DEF Found
    <3>2. ASSUME NEW i \in lev[u] + 1 .. root_level PROVE Passed(sh1, u, i)'
      <4>1. Passed(sh, u, i)
        BY <2>2, <3>2 DEF Found
      <4>2. parray[u][i] \in Taken /\ Keeps(sh, sh1, parray[u][i]) /\ parray[u][i] \in BNodes
        BY <2>1, <4>1, TakenTypes DEF Passed, Taken, IInv
      <4>3. parray[u][i] \in TakenNodes'
        BY <4>2, TakenTypes, Addresses DEF Keeps, Taken, TakenNodes, TakenLeaves, IInv, BNodes
      <4> QED
        BY <1>1, <4>1, <4>2, <4>3 DEF Passed, Keeps, SameLocals, Under
    <3>3. cur[u] \in Taken' /\ sh1.lvl[cur[u]] = sh.lvl[cur[u]]
      BY <3>1 DEF Frame
    <3> QED
      BY <1>1, <3>1, <3>2, <3>3 DEF Found, SameLocals, SameRoot
  <2>3. Outdated(u) => Outdated(u)'
    BY <1>1 DEF Outdated, SameLocals, SameRoot
  <2> QED
    BY <1>1, <2>2, <2>3 DEF SearchOK, SameLocals, SameRoot
<1> QED
  BY <1>2, <1>3

\* What the other thread's step leaves alone of the nodes of u.
LEMMA OwnedStays ==
  ASSUME NEW sh, NEW sh1, IInv(sh), NEW t \in Threads, Frame(sh, sh1, t),
         NEW u \in Threads, u # t, NEW a \in Taken, sh.own[a] = u
  PROVE  /\ Keeps(sh, sh1, a) /\ a \in Taken'
         /\ a \in TakenLeaves => a \in Leaves /\ a \in TakenLeaves'
         /\ a \in TakenNodes => a \in BNodes /\ a \in TakenNodes'
<1>1. Keeps(sh, sh1, a)
  BY ThreadTypes DEF Frame, IInv
<1>2. TakenLeaves \subseteq Leaves /\ TakenNodes \subseteq BNodes
  BY TakenTypes DEF IInv
<1>3. a \in Taken'
  BY <1>1 DEF Keeps
<1> QED
  BY <1>1, <1>2, <1>3, Addresses DEF Taken, TakenLeaves, TakenNodes

\* A call at its leaf finds it as it was.
LEMMA OthersLeafCall ==
  ASSUME NEW sh, NEW sh1, IInv(sh), NEW t \in Threads, Frame(sh, sh1, t),
         NEW u \in Threads, u # t
  PROVE  LeafCallOK(sh1, u)'
<1>1. LeafCallOK(sh, u) /\ SameLocals(sh, sh1, u) /\ PathOK(sh, u)
  BY DEF IInv, ThreadOK, Frame
<1>2. CASE pc[u] \notin {"insert", "split", "lower", "leafDel"}
  BY <1>1, <1>2 DEF LeafCallOK, SameLocals
<1>3. CASE pc[u] \in {"insert", "split", "lower", "leafDel"}
  <2>1. lp(u) \in TakenLeaves /\ lp(u) \in Taken
    BY <1>1, <1>3 DEF LeafCallOK, Taken
  <2>2. sh.own[lp(u)] = u
    <3>1. CASE pc[u] \in {"insert", "leafDel"}
      BY <3>1, <2>1, Owned
    <3>2. CASE pc[u] \in {"split", "lower"}
      <4>1. Base(u) = 0 /\ 0 \in Base(u) .. sh.top[u] /\ pc[u] \in Splitting
        BY <3>2, <1>1, ShapeTypes DEF PathOK, Splitting, Climbing, Base, IInv
      <4> QED
        BY <4>1, <2>1, Owned DEF lp
    <3> QED
      BY <1>3, <3>1, <3>2
  <2>3. Keeps(sh, sh1, lp(u)) /\ lp(u) \in Leaves /\ lp(u) \in TakenLeaves'
    BY <2>1, <2>2, OwnedStays
  <2> QED
    BY <1>1, <2>3 DEF LeafCallOK, SameLocals, Keeps, lp, LeafFull
<1> QED
  BY <1>2, <1>3

\* Another thread's level stays.
LEMMA OthersBase ==
  ASSUME NEW sh, NEW sh1, NEW t, Frame(sh, sh1, t), NEW u \in Threads, u # t
  PROVE  Base(u)' = Base(u)
BY DEF Frame, SameLocals, Base

\* The nodes a splitting thread is going to change.
LEMMA PathOwned ==
  ASSUME NEW sh, IInv(sh), NEW u \in Threads, pc[u] \in Splitting,
         NEW i \in Base(u) .. sh.top[u]
  PROVE  /\ parray[u][i] \in Taken /\ sh.own[parray[u][i]] = u /\ sh.lvl[parray[u][i]] = i
         /\ i # Base(u) => parray[u][i] \in TakenNodes
         /\ i \in 0 .. MaxLevel
<1>1. PathOK(sh, u)
  BY DEF IInv, ThreadOK
<1>2. parray[u][i] \in Taken /\ sh.lvl[parray[u][i]] = i
      /\ (i # Base(u) => parray[u][i] \in TakenNodes) /\ Base(u) \in 0 .. sh.top[u]
  <2>1. CASE i = Base(u)
    BY <1>1, <2>1 DEF PathOK
  <2>2. CASE i # Base(u)
    <3>1. Base(u) \in Int /\ sh.top[u] \in Int
      BY ThreadTypes, ShapeTypes, Sizes DEF IInv
    <3>2. i \in Base(u) + 1 .. sh.top[u]
      BY <2>2, <3>1
    <3> QED
      BY <1>1, <3>2, <2>2 DEF PathOK, Link, Taken
  <2> QED
    BY <2>1, <2>2
<1>3. sh.own[parray[u][i]] = u
  BY <1>2, Owned
<1>4. i \in 0 .. MaxLevel
  BY <1>2, ShapeTypes, Sizes DEF IInv
<1> QED
  BY <1>2, <1>3, <1>4

\* A split finds its path as it was.
LEMMA OthersPath ==
  ASSUME NEW sh, NEW sh1, IInv(sh), NEW t \in Threads, Frame(sh, sh1, t),
         NEW u \in Threads, u # t, pc[u] \in Splitting => SameRoot \/ RootAway(sh, u)
  PROVE  PathOK(sh1, u)'
<1>1. PathOK(sh, u) /\ SameLocals(sh, sh1, u)
  BY DEF IInv, ThreadOK, Frame
<1>2. CASE pc[u] \notin Splitting
  BY <1>1, <1>2 DEF PathOK, SameLocals
<1>3. CASE pc[u] \in Splitting
  <2> DEFINE b == Base(u)
             s == sh.top[u]
  <2>1. /\ b \in 0 .. s /\ s =< root_level
        /\ \A i \in b + 1 .. s : Link(sh, u, i)
        /\ \A i \in b + 1 .. s - 1 : Full(parray[u][i])
        /\ s = b \/ Full(parray[u][s]) => s = root_level
        /\ s = root_level => parray[u][s] = tree_root
    BY <1>1, <1>3 DEF PathOK
  <2>2. b \in Int /\ s \in Int
    BY ThreadTypes, ShapeTypes, Sizes DEF IInv
  <2>3. b' = b /\ sh1.top[u] = s /\ parray'[u] = parray[u] /\ ppos'[u] = ppos[u]
    BY <1>1, OthersBase DEF SameLocals
  <2>4. ASSUME NEW i \in b .. s
        PROVE  /\ parray[u][i] \in Taken' /\ sh1.lvl[parray[u][i]] = i
               /\ i # b => /\ parray[u][i] \in TakenNodes'
                           /\ bnode'[parray[u][i]] = bnode[parray[u][i]]
    BY <1>3, PathOwned, OwnedStays DEF Keeps
  <2>5. ASSUME NEW i \in b + 1 .. s PROVE Link(sh1, u, i)'
    <3>1. Link(sh, u, i) /\ i \in b .. s /\ i # b
      BY <2>1, <2>2
    <3> QED
      BY <3>1, <2>3, <2>4 DEF Link
  <2>6. \A i \in b + 1 .. s : Full(parray[u][i])' <=> Full(parray[u][i])
    BY <2>2, <2>3, <2>4 DEF Full
  <2>7. \A i \in b + 1 .. s - 1 : Full(parray[u][i])'
    BY <2>1, <2>2, <2>6
  <2>8. (s = b \/ Full(parray[u][s])') => s = root_level
    BY <2>1, <2>2, <2>6
  <2>9. \/ root_level' = root_level /\ tree_root' = tree_root
        \/ s < root_level /\ root_level =< root_level' /\ root_level' \in Int
    BY <1>3 DEF SameRoot, RootAway
  <2>11. root_level \in Int
    BY ThreadTypes, Sizes DEF IInv
  <2>12. root_level' \in Int
    BY <2>9, <2>11
  <2>13. /\ s =< root_level' /\ (s = b \/ Full(parray[u][s])' => s = root_level')
         /\ s = root_level' => parray[u][s] = tree_root'
    BY <2>1, <2>2, <2>8, <2>9, <2>11, <2>12
  <2>10. parray[u][b] \in Taken' /\ sh1.lvl[parray[u][b]] = b
    BY <2>1, <2>2, <2>4
  <2> QED
    BY <2>1, <2>3, <2>5, <2>7, <2>10, <2>13 DEF PathOK, Full
<1> QED
  BY <1>2, <1>3

\* A split finds its new node and its parent as they were.
LEMMA OthersSplit ==
  ASSUME NEW sh, NEW sh1, IInv(sh), NEW t \in Threads, Frame(sh, sh1, t),
         NEW u \in Threads, u # t, pc[u] \in Splitting => SameRoot \/ RootAway(sh, u)
  PROVE  SplitOK(sh1, u)'
<1>1. SplitOK(sh, u) /\ SameLocals(sh, sh1, u) /\ PathOK(sh, u)
  BY DEF IInv, ThreadOK, Frame
<1>2. pc[u] \in Climbing =>
        LET c == parray[u][Base(u)]
        IN  /\ ptr[u] \in Taken' /\ ptr[u] # c /\ sh1.lvl[ptr[u]] = sh1.lvl[c]
            /\ pkey[u] \in Keys /\ pkey[u] = sh1.hi[c] /\ pkey[u] = sh1.lo[ptr[u]]
            /\ sh1.end[c] = ptr[u]
  <2> SUFFICES ASSUME pc[u] \in Climbing
               PROVE  LET c == parray[u][Base(u)]
                      IN  /\ ptr[u] \in Taken' /\ ptr[u] # c /\ sh1.lvl[ptr[u]] = sh1.lvl[c]
                          /\ pkey[u] \in Keys /\ pkey[u] = sh1.hi[c] /\ pkey[u] = sh1.lo[ptr[u]]
                          /\ sh1.end[c] = ptr[u]
    OBVIOUS
  <2> DEFINE c == parray[u][Base(u)]
  <2>1. ptr[u] \in Taken /\ sh.own[ptr[u]] = u
    BY <1>1, Owned DEF SplitOK
  <2>2. c \in Taken /\ sh.own[c] = u
    <3>1. pc[u] \in Splitting
      BY DEF Splitting
    <3>2. Base(u) \in Base(u) .. sh.top[u]
      BY <1>1, <3>1, ShapeTypes, Sizes DEF PathOK, IInv
    <3> QED
      BY <3>1, <3>2, PathOwned
  <2>3. Keeps(sh, sh1, ptr[u]) /\ Keeps(sh, sh1, c)
    BY <2>1, <2>2, OwnedStays
  <2> QED
    BY <1>1, <2>3 DEF SplitOK, Keeps
<1>3. pc[u] = "count" =>
        /\ lev[u] \in 1 .. MaxLevel /\ parent(u) \in TakenNodes'
        /\ sh1.cnt[parent(u)] = bnode'[parent(u)].num + 1
  <2> SUFFICES ASSUME pc[u] = "count"
               PROVE  /\ lev[u] \in 1 .. MaxLevel /\ parent(u) \in TakenNodes'
                      /\ sh1.cnt[parent(u)] = bnode'[parent(u)].num + 1
    OBVIOUS
  <2>1. /\ lev[u] \in 1 .. MaxLevel /\ parent(u) \in TakenNodes
        /\ sh.cnt[parent(u)] = bnode[parent(u)].num + 1
    BY <1>1 DEF SplitOK
  <2>2. parent(u) \in Taken /\ sh.own[parent(u)] = u
    BY <2>1, Owned DEF Taken
  <2> QED
    <3>1. /\ Keeps(sh, sh1, parent(u)) /\ parent(u) \in TakenNodes'
          /\ parent(u) \in BNodes
      BY <2>1, <2>2, OwnedStays
    <3> QED
      BY <2>1, <3>1 DEF Keeps
<1>4. pc[u] = "up" =>
          /\ lev[u] \in 1 .. MaxLevel /\ lev[u] =< total[u] + 1
          /\ sh1.top[u] =< total[u] /\ total[u] =< root_level'
          /\ total[u] = root_level' \/ sh1.top[u] < total[u]
  <2> SUFFICES ASSUME pc[u] = "up"
               PROVE  /\ lev[u] \in 1 .. MaxLevel /\ lev[u] =< total[u] + 1
                      /\ sh1.top[u] =< total[u] /\ total[u] =< root_level'
                      /\ total[u] = root_level' \/ sh1.top[u] < total[u]
    OBVIOUS
  <2>1. /\ lev[u] \in 1 .. MaxLevel /\ lev[u] =< total[u] + 1
        /\ sh.top[u] =< total[u] /\ total[u] =< root_level
        /\ total[u] = root_level \/ sh.top[u] < total[u]
        /\ sh1.top[u] = sh.top[u]
    BY <1>1 DEF SplitOK, SameLocals
  <2>2. \/ root_level' = root_level
        \/ sh.top[u] < root_level /\ root_level' \in Int /\ root_level =< root_level'
    BY DEF SameRoot, RootAway, Splitting, Climbing
  <2>3. root_level \in Int /\ total[u] \in Int /\ sh.top[u] \in Int
    BY ThreadTypes, ShapeTypes, Sizes DEF IInv
  <2> QED
    BY <2>1, <2>2, <2>3
<1>5. Base(u)' = Base(u) /\ parent(u)' = parent(u)
  BY <1>1, OthersBase DEF SameLocals, parent
<1> QED
  BY <1>1, <1>2, <1>3, <1>4, <1>5 DEF SplitOK, SameLocals

\* A call that grows the root finds both roots as they were.
LEMMA OthersGrow ==
  ASSUME NEW sh, NEW sh1, IInv(sh), NEW t \in Threads, Frame(sh, sh1, t),
         NEW u \in Threads, u # t, pc[u] = "growRoot" => SameRoot
  PROVE  GrowOK(sh1, u)'
<1>1. GrowOK(sh, u) /\ SameLocals(sh, sh1, u)
  BY DEF IInv, ThreadOK, Frame
<1>2. CASE pc[u] \in {"growRoot", "unlockOld"}
  <2>1. cur[u] \in Taken /\ ptr[u] \in Taken /\ ptr[u] \in TakenNodes
    BY <1>1, <1>2 DEF GrowOK, Taken
  <2>2. sh.own[cur[u]] = u /\ sh.own[ptr[u]] = u
    BY <2>1, <1>2, Owned
  <2>3. Keeps(sh, sh1, ptr[u]) /\ ptr[u] \in TakenNodes' /\ cur[u] \in Taken'
    BY <2>1, <2>2, OwnedStays
  <2> QED
    BY <1>1, <1>2, <2>3 DEF GrowOK, SameLocals, SameRoot, Keeps, lp
<1>3. CASE pc[u] = "unlockNew"
  <2>1. ptr[u] \in Taken /\ ptr[u] \in TakenNodes /\ sh.own[ptr[u]] = u
    BY <1>1, <1>3, Owned DEF GrowOK, Taken
  <2> QED
    <3>1. ptr[u] \in TakenNodes'
      BY <2>1, OwnedStays
    <3> QED
      BY <1>1, <1>3, <3>1 DEF GrowOK, SameLocals
<1>4. CASE pc[u] \notin {"growRoot", "unlockOld", "unlockNew"}
  BY <1>1, <1>4 DEF GrowOK, SameLocals
<1> QED
  BY <1>2, <1>3, <1>4

\* Whatever t did, the other threads find their part of the tree as it was.
LEMMA OthersStay ==
  ASSUME NEW sh, NEW sh1, IInv(sh), NEW t \in Threads, Frame(sh, sh1, t), SameRoot,
         NEW u \in Threads, u # t
  PROVE  ThreadOK(sh1, u)'
BY OthersSearch, OthersLeafCall, OthersPath, OthersSplit, OthersGrow DEF ThreadOK

-----------------------------------------------------------------------------
(***************************************************************************)
(* Facts about the tree in any state the invariant allows.                 *)
(***************************************************************************)
\* Levels and ranges of the taken nodes are numbers.
LEMMA Numbers ==
  ASSUME NEW sh, IInv(sh), NEW a \in Taken
  PROVE  /\ a \in Addr /\ sh.lo[a] \in Int /\ sh.hi[a] \in Int /\ sh.lvl[a] \in 0 .. MaxLevel
         /\ sh.end[a] \in Taken /\ sh.lvl[sh.end[a]] = sh.lvl[a]
         /\ sh.hi[sh.end[a]] \in Int
         /\ Low =< sh.lo[a] /\ sh.lo[a] < sh.hi[a] /\ sh.hi[a] =< High
         /\ sh.lvl[a] =< root_level
         /\ (sh.lvl[a] = 0 <=> a \in TakenLeaves) /\ (sh.lvl[a] > 0 <=> a \in TakenNodes)
<1>1. a \in Addr /\ sh.lo[a] \in Int /\ sh.hi[a] \in Int /\ sh.lvl[a] \in 0 .. MaxLevel
  BY TakenTypes, ShapeTypes DEF IInv
<1>2. sh.end[a] \in Taken /\ sh.lvl[sh.end[a]] = sh.lvl[a] /\ sh.lvl[a] =< root_level
  BY DEF IInv, TreeFits, Levels
<1>3. sh.hi[sh.end[a]] \in Int
  BY <1>2, TakenTypes, ShapeTypes DEF IInv
<1>4. Low =< sh.lo[a] /\ sh.lo[a] < sh.hi[a] /\ sh.hi[a] =< High
  BY DEF IInv, TreeFits, Ranges
<1>5. /\ a \in TakenLeaves => sh.lvl[a] = 0
      /\ a \in TakenNodes => 1 =< sh.lvl[a]
      /\ a \in TakenLeaves \/ a \in TakenNodes
  BY DEF IInv, TreeFits, Levels, Taken
<1> QED
  BY <1>1, <1>2, <1>3, <1>4, <1>5

\* Counts are numbers.
LEMMA CountType ==
  ASSUME NEW sh, IInv(sh), NEW p \in TakenNodes
  PROVE  p \in BNodes /\ p \in Taken /\ sh.cnt[p] \in 0 .. NON_LEAF_KEY_NUM
  BY TakenTypes, ShapeTypes DEF IInv, Taken

\* Nodes of one level whose ranges share a key are the same node.
LEMMA OneNode ==
  ASSUME NEW sh, IInv(sh), NEW a \in Taken, NEW b \in Taken, sh.lvl[a] = sh.lvl[b],
         NEW x \in Int, sh.lo[a] =< x, x < sh.hi[a], sh.lo[b] =< x, x < sh.hi[b]
  PROVE  a = b
<1>1. a # b => sh.hi[a] =< sh.lo[b] \/ sh.hi[b] =< sh.lo[a]
  BY DEF IInv, TreeFits, Ranges
<1> QED
  BY <1>1, Numbers

\* The child i of a node has its range inside that of the node.
LEMMA ChildInside ==
  ASSUME NEW sh, IInv(sh), NEW p \in TakenNodes, NEW i \in 0 .. sh.cnt[p]
  PROVE  LET c == bnode[p].ch[i]
         IN  /\ c \in Taken /\ sh.lvl[c] + 1 = sh.lvl[p]
             /\ sh.lo[c] = (IF i = 0 THEN sh.lo[p] ELSE bnode[p].k[i])
             /\ sh.hi[sh.end[c]] = (IF i = sh.cnt[p] THEN sh.hi[p] ELSE bnode[p].k[i + 1])
             /\ sh.lo[p] =< sh.lo[c] /\ sh.lo[c] < sh.hi[p] /\ sh.hi[sh.end[c]] =< sh.hi[p]
<1> DEFINE c == bnode[p].ch[i]
<1>1. NodeFits(sh, p)
  BY DEF IInv, TreeFits
<1>2. p \in Taken /\ sh.cnt[p] \in 0 .. NON_LEAF_KEY_NUM
  BY CountType
<1>3. sh.lo[p] \in Int /\ sh.hi[p] \in Int /\ sh.lo[p] < sh.hi[p]
  BY <1>2, Numbers
<1>4. \A j \in 1 .. sh.cnt[p] :
        bnode[p].k[j] \in Int /\ sh.lo[p] < bnode[p].k[j] /\ bnode[p].k[j] < sh.hi[p]
  BY <1>1, Sizes DEF NodeFits, EntriesFit
<1>5. /\ c \in Taken /\ sh.lvl[c] + 1 = sh.lvl[p]
      /\ sh.lo[c] = (IF i = 0 THEN sh.lo[p] ELSE bnode[p].k[i])
      /\ sh.hi[sh.end[c]] = (IF i = sh.cnt[p] THEN sh.hi[p] ELSE bnode[p].k[i + 1])
  BY <1>1 DEF NodeFits, EntriesFit
<1>6. sh.lo[p] =< sh.lo[c] /\ sh.lo[c] < sh.hi[p]
  <2>1. CASE i = 0
    BY <1>3, <1>5, <2>1
  <2>2. CASE i # 0
    <3>1. i \in 1 .. sh.cnt[p]
      BY <1>2, <2>2
    <3> QED
      BY <1>3, <1>4, <1>5, <2>2, <3>1
  <2> QED
    BY <2>1, <2>2
<1>7. sh.hi[sh.end[c]] =< sh.hi[p]
  <2>1. CASE i = sh.cnt[p]
    <3>1. sh.hi[sh.end[c]] = sh.hi[p]
      BY <1>5, <2>1, Zenon
    <3> QED
      BY <1>3, <3>1
  <2>2. CASE i # sh.cnt[p]
    <3>1. i + 1 \in 1 .. sh.cnt[p]
      BY <1>2, <2>2
    <3> QED
      BY <1>3, <1>4, <1>5, <2>2, <3>1
  <2> QED
    BY <2>1, <2>2
<1> QED
  BY <1>5, <1>6, <1>7

\* A node has one parent, and one place in it.
LEMMA UniqueParent ==
  ASSUME NEW sh, IInv(sh), NEW p \in TakenNodes, NEW q \in TakenNodes,
         NEW i \in 0 .. sh.cnt[p], NEW j \in 0 .. sh.cnt[q], bnode[p].ch[i] = bnode[q].ch[j]
  PROVE  p = q /\ i = j
<1> DEFINE c == bnode[p].ch[i]
<1>1. p \in Taken /\ q \in Taken /\ c \in Taken
      /\ sh.cnt[p] \in 0 .. NON_LEAF_KEY_NUM /\ sh.cnt[q] \in 0 .. NON_LEAF_KEY_NUM
  BY CountType, ChildInside
<1>2. sh.lo[c] \in Int /\ sh.lvl[c] \in Int /\ sh.lvl[p] \in Int /\ sh.lvl[q] \in Int
  BY <1>1, Numbers
<1>3. p = q
  <2>1. sh.lvl[c] + 1 = sh.lvl[p] /\ sh.lo[p] =< sh.lo[c] /\ sh.lo[c] < sh.hi[p]
    BY ONLY IInv(sh), p \in TakenNodes, i \in 0 .. sh.cnt[p], ChildInside
  <2>2. sh.lvl[c] + 1 = sh.lvl[q] /\ sh.lo[q] =< sh.lo[c] /\ sh.lo[c] < sh.hi[q]
    <3>1. LET d == bnode[q].ch[j]
          IN  sh.lvl[d] + 1 = sh.lvl[q] /\ sh.lo[q] =< sh.lo[d] /\ sh.lo[d] < sh.hi[q]
      BY ONLY IInv(sh), q \in TakenNodes, j \in 0 .. sh.cnt[q], ChildInside
    <3> QED
      BY ONLY <3>1, bnode[p].ch[i] = bnode[q].ch[j]
  <2> QED
    BY <1>1, <1>2, <2>1, <2>2, OneNode
<1>4. \A g, h \in 0 .. sh.cnt[p] : g < h => sh.lo[bnode[p].ch[g]] # sh.lo[bnode[p].ch[h]]
  <2> SUFFICES ASSUME NEW g \in 0 .. sh.cnt[p], NEW h \in 0 .. sh.cnt[p], g < h
               PROVE  sh.lo[bnode[p].ch[g]] # sh.lo[bnode[p].ch[h]]
    OBVIOUS
  <2>1. NodeFits(sh, p)
    BY DEF IInv, TreeFits
  <2>2. sh.lo[p] \in Int
    BY <1>1, Numbers
  <2>3. \A l \in 1 .. sh.cnt[p] : bnode[p].k[l] \in Int /\ sh.lo[p] < bnode[p].k[l]
    BY <2>1, Sizes DEF NodeFits, EntriesFit
  <2>4. \A l, m \in 1 .. sh.cnt[p] : l < m => bnode[p].k[l] < bnode[p].k[m]
    BY <2>1 DEF NodeFits, EntriesFit
  <2>5. h \in 1 .. sh.cnt[p] /\ (g # 0 => g \in 1 .. sh.cnt[p])
    BY <1>1
  <2>6. /\ sh.lo[bnode[p].ch[h]] = bnode[p].k[h]
        /\ sh.lo[bnode[p].ch[g]] = (IF g = 0 THEN sh.lo[p] ELSE bnode[p].k[g])
    BY <2>1, <2>5 DEF NodeFits, EntriesFit
  <2> QED
    BY <2>2, <2>3, <2>4, <2>5, <2>6
<1> QED
  BY <1>1, <1>3, <1>4

\* What a thread that waits to put ptr in the parent knows: ptr is next to
\* the node c it was split from, and nobody's child yet.
LEMMA HangingNode ==
  ASSUME NEW sh, IInv(sh), NEW u \in Threads, pc[u] \in Climbing
  PROVE  LET b == Base(u)
             c == parray[u][b]
         IN  /\ b \in b .. sh.top[u] /\ b =< root_level /\ b \in 0 .. MaxLevel
             /\ c \in Taken /\ sh.own[c] = u /\ sh.lvl[c] = b
             /\ ptr[u] \in Taken /\ sh.own[ptr[u]] = u /\ sh.lvl[ptr[u]] = b /\ ptr[u] # c
             /\ sh.end[c] = ptr[u] /\ sh.end[ptr[u]] = ptr[u]
             /\ pkey[u] \in Keys /\ pkey[u] = sh.hi[c] /\ pkey[u] = sh.lo[ptr[u]]
             /\ \A q \in TakenNodes : \A j \in 0 .. sh.cnt[q] : bnode[q].ch[j] # ptr[u]
             /\ tree_root # ptr[u]
<1> DEFINE b == Base(u)
           c == parray[u][b]
<1>1. pc[u] \in Splitting /\ PathOK(sh, u) /\ SplitOK(sh, u)
  BY DEF IInv, ThreadOK, Splitting
<1>2. b \in 0 .. sh.top[u] /\ sh.top[u] =< root_level
  BY <1>1 DEF PathOK
<1>3. sh.top[u] \in 0 .. MaxLevel /\ b \in Int /\ root_level \in Int
  BY ShapeTypes, ThreadTypes, Sizes DEF IInv
<1>4. b \in b .. sh.top[u] /\ b =< root_level /\ b \in 0 .. MaxLevel
  BY <1>2, <1>3, Sizes
<1>5. c \in Taken /\ sh.own[c] = u /\ sh.lvl[c] = b
  BY <1>1, <1>4, PathOwned
<1>6. /\ ptr[u] \in Taken /\ ptr[u] # c /\ sh.lvl[ptr[u]] = b /\ sh.end[c] = ptr[u]
      /\ pkey[u] \in Keys /\ pkey[u] = sh.hi[c] /\ pkey[u] = sh.lo[ptr[u]]
  BY <1>1, <1>5 DEF SplitOK
<1>7. sh.own[ptr[u]] = u
  BY <1>6, Owned
<1>8. sh.end[ptr[u]] = ptr[u]
  BY <1>6, <1>7 DEF IInv, Owners
<1>9. ASSUME NEW q \in TakenNodes, NEW j \in 0 .. sh.cnt[q], bnode[q].ch[j] = ptr[u]
      PROVE  FALSE
  <2>1. /\ sh.lvl[q] = b + 1 /\ sh.lo[q] =< sh.lo[ptr[u]] /\ sh.lo[ptr[u]] < sh.hi[q]
        /\ q \in Taken /\ q \in BNodes
    <3>1. /\ sh.lvl[ptr[u]] + 1 = sh.lvl[q]
          /\ sh.lo[q] =< sh.lo[ptr[u]] /\ sh.lo[ptr[u]] < sh.hi[q]
      BY ONLY IInv(sh), <1>9, ChildInside
    <3>2. q \in Taken /\ q \in BNodes
      BY ONLY IInv(sh), <1>9, CountType
    <3> QED
      BY ONLY <1>6, <3>1, <3>2
  <2>2. sh.top[u] # b
    <3>1. CASE sh.top[u] = b
      <4>1. b = root_level
        BY <1>1, <3>1 DEF PathOK
      <4> QED
        BY <1>3, <2>1, <4>1, Numbers
    <3> QED
      BY <3>1
  <2> DEFINE p == parray[u][b + 1]
  <2>3. b + 1 \in b + 1 .. sh.top[u] /\ b + 1 \in b .. sh.top[u]
    BY <1>2, <1>3, <2>2
  <2>4. /\ p \in TakenNodes /\ sh.lvl[p] = b + 1 /\ p \in Taken
        /\ ppos[u][b + 1] \in 0 .. bnode[p].num /\ bnode[p].ch[ppos[u][b + 1]] = c
    <3>1. Link(sh, u, b + 1)
      BY <1>1, <2>3 DEF PathOK
    <3>2. (b + 1) - 1 = b
      BY <1>3
    <3> QED
      BY <3>1, <3>2 DEF Link, Taken
  <2>5. sh.own[p] = u /\ bnode[p].num = sh.cnt[p]
    <3>1. sh.own[p] = u
      BY <1>1, <2>3, PathOwned
    <3>2. pc[u] # "count"
      BY DEF Climbing
    <3> QED
      BY <2>4, <3>1, <3>2 DEF IInv, Owners
  <2>6. sh.lo[p] =< sh.lo[c] /\ sh.hi[ptr[u]] =< sh.hi[p]
    <3> DEFINE d == ppos[u][b + 1]
    <3>1. d \in 0 .. sh.cnt[p]
      BY <2>4, <2>5
    <3> HIDE DEF p, d
    <3>2. /\ sh.lo[p] =< sh.lo[bnode[p].ch[d]]
          /\ sh.hi[sh.end[bnode[p].ch[d]]] =< sh.hi[p]
      BY <2>4, <3>1, ChildInside
    <3>3. bnode[p].ch[d] = c
      BY <2>4 DEF d
    <3> QED
      BY <1>6, <3>2, <3>3
  <2>7. /\ sh.lo[c] \in Int /\ sh.lo[c] < sh.hi[c] /\ sh.hi[c] \in Int
        /\ sh.lo[ptr[u]] \in Int /\ sh.lo[ptr[u]] < sh.hi[ptr[u]] /\ sh.hi[ptr[u]] \in Int
        /\ sh.lo[p] \in Int /\ sh.hi[p] \in Int
    BY <1>5, <1>6, <2>4, Numbers
  <2>8. sh.lo[p] =< sh.lo[ptr[u]] /\ sh.lo[ptr[u]] < sh.hi[p]
    BY <1>6, <2>6, <2>7
  <2>9. p = q
    BY <2>1, <2>4, <2>7, <2>8, OneNode
  <2>10. ppos[u][b + 1] = j
    <3>1. sh.lo[bnode[p].ch[ppos[u][b + 1]]] = sh.lo[c] /\ sh.lo[bnode[q].ch[j]] = sh.lo[ptr[u]]
      BY <2>4, <1>9
    <3>2. sh.end[bnode[q].ch[j]] = ptr[u] /\ sh.end[bnode[p].ch[ppos[u][b + 1]]] = ptr[u]
      BY <2>4, <1>9, <1>6, <1>8
    <3>3. sh.cnt[q] \in Nat
      BY CountType, Sizes
    <3>4. NodeFits(sh, q) /\ j \in 0 .. sh.cnt[q] /\ ppos[u][b + 1] \in 0 .. sh.cnt[q]
      BY <2>4, <2>5, <2>9 DEF IInv, TreeFits
    <3>5. \A g \in 0 .. sh.cnt[q] : sh.hi[sh.end[bnode[q].ch[g]]] =
               (IF g = sh.cnt[q] THEN sh.hi[q] ELSE bnode[q].k[g + 1])
      BY <3>4 DEF NodeFits, EntriesFit
    <3>6. /\ \A g, h \in 1 .. sh.cnt[q] : g < h => bnode[q].k[g] < bnode[q].k[h]
          /\ \A g \in 1 .. sh.cnt[q] : bnode[q].k[g] \in Int /\ bnode[q].k[g] < sh.hi[q]
      BY <3>4, Sizes DEF NodeFits, EntriesFit
    <3>7. \A g, h \in 0 .. sh.cnt[q] : g < h =>
             sh.hi[sh.end[bnode[q].ch[g]]] < sh.hi[sh.end[bnode[q].ch[h]]]
      <4> SUFFICES ASSUME NEW g \in 0 .. sh.cnt[q], NEW h \in 0 .. sh.cnt[q], g < h
                   PROVE  sh.hi[sh.end[bnode[q].ch[g]]] < sh.hi[sh.end[bnode[q].ch[h]]]
        OBVIOUS
      <4>1. g + 1 \in 1 .. sh.cnt[q] /\ g # sh.cnt[q]
        BY <3>3
      <4>2. h # sh.cnt[q] => h + 1 \in 1 .. sh.cnt[q]
        BY <3>3
      <4> QED
        BY <3>5, <3>6, <4>1, <4>2
    <3>8. sh.hi[ptr[u]] \in Int
      BY <2>7
    <3>9. /\ sh.hi[sh.end[bnode[q].ch[j]]] = sh.hi[ptr[u]]
          /\ sh.hi[sh.end[bnode[q].ch[ppos[u][b + 1]]]] = sh.hi[ptr[u]]
      BY <3>2, <2>9
    <3> DEFINE d == ppos[u][b + 1]
    <3> HIDE DEF d
    <3>10. d \in 0 .. sh.cnt[q] /\ j \in 0 .. sh.cnt[q]
           /\ sh.hi[sh.end[bnode[q].ch[d]]] = sh.hi[ptr[u]]
      BY <3>4, <3>9 DEF d
    <3> DEFINE e(g) == sh.hi[sh.end[bnode[q].ch[g]]]
    <3>13. \A g, h \in 0 .. sh.cnt[q] : g < h => e(g) < e(h)
      BY <3>7
    <3>14. e(j) = sh.hi[ptr[u]] /\ e(d) = sh.hi[ptr[u]]
      BY <3>9, <3>10
    <3> HIDE DEF e
    <3>11. ~(d < j) /\ ~(j < d)
      BY <3>8, <3>10, <3>13, <3>14
    <3>12. d = j
      BY <3>3, <3>10, <3>11
    <3> QED
      BY <3>12 DEF d
  <2> QED
    BY <1>6, <1>9, <2>4, <2>9, <2>10
<1>10. tree_root # ptr[u]
  <2>1. sh.lo[tree_root] = Low
    BY DEF IInv, TreeFits, Root
  <2>2. sh.lo[c] \in Int /\ Low =< sh.lo[c] /\ sh.lo[c] < sh.hi[c] /\ sh.hi[c] \in Int
    BY <1>5, Numbers
  <2> QED
    BY <1>6, <2>1, <2>2, Sizes
<1> QED
  BY <1>4, <1>5, <1>6, <1>7, <1>8, <1>9, <1>10

\* The root is locked while a new one is put in place.
LEMMA GrowerHolds ==
  ASSUME NEW sh, IInv(sh), Growing
  PROVE  /\ Locked(tree_root) /\ sh.own[tree_root] \in Threads /\ tree_root \in Taken
         /\ pc[sh.own[tree_root]] = "growRoot"
<1> PICK u \in Threads : pc[u] = "growRoot"
  BY DEF Growing
<1>1. cur[u] = tree_root /\ cur[u] \in Taken
  BY DEF IInv, ThreadOK, GrowOK
<1>2. sh.own[tree_root] = u
  BY <1>1, Owned
<1>3. ~OpenFor(tree_root, u)
  BY DEF OpenFor, Climbing
<1> QED
  BY <1>1, <1>2, <1>3 DEF IInv, Owners

\* An open node that is the root, or the child of a node nobody is going to
\* change, is changed by nobody either.
LEMMA Exposed ==
  ASSUME NEW sh, IInv(sh), NEW a \in Taken, ~Locked(a),
         \/ a = tree_root
         \/ \E q \in TakenNodes : sh.own[q] = NoThread /\ \E j \in 0 .. bnode[q].num : bnode[q].ch[j] = a
  PROVE  sh.own[a] = NoThread /\ sh.end[a] = a
<1>1. sh.own[a] \in Threads \cup {NoThread}
  BY TakenTypes, ShapeTypes DEF IInv
<1>2. \A q \in TakenNodes : sh.own[q] = NoThread => sh.cnt[q] = bnode[q].num
  BY Sizes DEF IInv, Owners
<1>3. ASSUME sh.own[a] \in Threads PROVE FALSE
  <2> DEFINE u == sh.own[a]
             b == Base(u)
             c == parray[u][b]
  <2>1. u \in Threads /\ OpenFor(a, u)
    BY <1>3 DEF IInv, Owners
  <2>2. pc[u] \in Climbing
    BY <2>1 DEF OpenFor, Climbing
  <2>3. /\ b =< root_level /\ b \in 0 .. MaxLevel /\ b \in b .. sh.top[u]
        /\ c \in Taken /\ sh.own[c] = u /\ sh.lvl[c] = b
        /\ \A q \in TakenNodes : \A j \in 0 .. sh.cnt[q] : bnode[q].ch[j] # ptr[u]
        /\ tree_root # ptr[u]
    BY <2>1, <2>2, HangingNode
  <2>4. a # ptr[u]
    BY <1>2, <2>3
  <2>5. a = c /\ (pc[u] = "parent" => root_level > 0) /\ (pc[u] = "up" => lev[u] =< total[u])
        /\ pc[u] \in {"parent", "up"}
    BY <2>1, <2>4 DEF OpenFor, Base, lp
  <2>6. PathOK(sh, u) /\ SplitOK(sh, u) /\ pc[u] \in Splitting
    BY <2>1, <2>2 DEF IInv, ThreadOK, Splitting
  <2>7. root_level \in Int /\ sh.top[u] \in Int /\ lev[u] \in Int /\ total[u] \in Int
    BY <2>1, ThreadTypes, ShapeTypes, Sizes DEF IInv
  <2>8. b < root_level
    <3>1. CASE pc[u] = "parent"
      BY <2>5, <2>7, <3>1 DEF Base
    <3>2. CASE pc[u] = "up"
      <4>1. b = lev[u] - 1 /\ lev[u] =< total[u] /\ total[u] =< root_level
        BY <2>5, <2>6, <3>2 DEF Base, SplitOK
      <4> QED
        BY <2>7, <4>1
    <3> QED
      BY <2>5, <3>1, <3>2
  <2>9. sh.top[u] # b /\ b + 1 \in b + 1 .. sh.top[u] /\ b + 1 \in b .. sh.top[u]
    <3>1. sh.top[u] # b
      BY <2>6, <2>8, <2>7 DEF PathOK
    <3> QED
      BY <2>3, <2>7, <3>1
  <2> DEFINE p == parray[u][b + 1]
  <2>10. /\ p \in TakenNodes
         /\ ppos[u][b + 1] \in 0 .. bnode[p].num /\ bnode[p].ch[ppos[u][b + 1]] = c
    <3>1. Link(sh, u, b + 1)
      BY <2>6, <2>9 DEF PathOK
    <3>2. (b + 1) - 1 = b
      BY <2>3, Sizes
    <3> QED
      BY <3>1, <3>2 DEF Link
  <2>11. sh.own[p] = u /\ sh.cnt[p] = bnode[p].num
    <3>1. sh.own[p] = u
      BY <2>1, <2>6, <2>9, PathOwned
    <3> QED
      BY <2>5, <2>10, <3>1 DEF IInv, Owners
  <2>12. CASE a = tree_root
    <3>1. ~Growing
      BY <2>12, GrowerHolds
    <3>2. sh.lvl[tree_root] = root_level
      BY <3>1 DEF IInv, TreeFits, Root
    <3> QED
      BY <2>3, <2>5, <2>7, <2>8, <2>12, <3>2
  <2>13. CASE a # tree_root
    <3>1. PICK q \in TakenNodes : sh.own[q] = NoThread /\ \E j \in 0 .. bnode[q].num : bnode[q].ch[j] = a
      BY <2>13
    <3>2. PICK j \in 0 .. bnode[q].num : bnode[q].ch[j] = a
      BY <3>1
    <3>3. j \in 0 .. sh.cnt[q] /\ ppos[u][b + 1] \in 0 .. sh.cnt[p]
          /\ bnode[q].ch[j] = bnode[p].ch[ppos[u][b + 1]]
      BY <1>2, <2>5, <2>10, <2>11, <3>1, <3>2
    <3>4. p = q
      BY <2>10, <3>3, UniqueParent
    <3> QED
      BY <2>1, <2>11, <3>1, <3>4, Sizes
  <2> QED
    BY <2>12, <2>13
<1>4. sh.own[a] = NoThread
  BY <1>1, <1>3
<1> QED
  BY <1>4, Sizes DEF IInv, Owners

-----------------------------------------------------------------------------
(***************************************************************************)
(* The types, in the part of the call and the part of the tree.            *)
(***************************************************************************)
CallTypes ==
    /\ pc \in [Threads -> Stages]
    /\ calls \in [Threads -> 0 .. MaxCalls]
    /\ op \in [Threads -> Ops \cup {"none"}]
    /\ key \in [Threads -> Keys \cup {NoKey}]
    /\ cur \in [Threads -> Leaves \cup BNodes \cup {NULL}]
    /\ parray \in [Threads -> [0 .. MaxLevel -> Leaves \cup BNodes \cup {NULL}]]
    /\ ppos \in [Threads -> [0 .. MaxLevel -> 0 .. NON_LEAF_KEY_NUM]]
    /\ sib = [t \in Threads |-> NULL]
    /\ lev \in [Threads -> 0 .. MaxLevel] /\ total \in [Threads -> 0 .. MaxLevel]
    /\ pkey \in [Threads -> Keys \cup {NoKey}]
    /\ ptr \in [Threads -> Leaves \cup BNodes \cup {NULL}]
    /\ \A t \in Threads : pc[t] # "idle" => op[t] \in Ops /\ key[t] \in Keys

TreeTypes ==
    /\ tree_root \in Leaves \cup BNodes \cup {NULL}
    /\ root_level \in 0 .. MaxLevel
    /\ first_leaf \in Leaves \cup {NULL}
    /\ leaf \in [Leaves -> LeafType]
    /\ bnode \in [BNodes -> NodeType]
    /\ leafTop \in 0 .. MaxLeaf /\ nodeTop \in 0 .. MaxNode
    /\ leafFree = [t \in Threads |-> <<>>] /\ nodeFree = [t \in Threads |-> <<>>]

LockTypes ==
    /\ tree_lock \in Threads \cup {NoThread}
    /\ \A t \in Threads : tree_lock = t <=> pc[t] \in Part1

\* The two parts of the types are all of them.
LEMMA TypesSplit == TypeOK /\ LocalTypes <=> CallTypes /\ TreeTypes /\ LockTypes
<1>1. TypeOK /\ LocalTypes => CallTypes /\ TreeTypes /\ LockTypes
  <2> SUFFICES ASSUME TypeOK, LocalTypes PROVE CallTypes /\ TreeTypes /\ LockTypes
    OBVIOUS
  <2>1. root_level \in 0 .. MaxLevel
    BY Sizes DEF TypeOK, LocalTypes
  <2>2. CallTypes
    BY DEF TypeOK, LocalTypes, CallTypes
  <2>3. LockTypes
    BY DEF TypeOK, LocalTypes, LockTypes
  <2> QED
    BY <2>1, <2>2, <2>3 DEF TypeOK, LocalTypes, TreeTypes
<1>2. ASSUME CallTypes, TreeTypes, LockTypes PROVE TypeOK /\ LocalTypes
  <2>1. leafFree \in [Threads -> Seq(Leaves)] /\ nodeFree \in [Threads -> Seq(BNodes)]
    <3>1. <<>> \in Seq(Leaves) /\ <<>> \in Seq(BNodes)
      OBVIOUS
    <3> QED
      BY <1>2, <3>1, Zenon DEF TreeTypes
  <2>2. root_level \in -1 .. MaxLevel
    BY <1>2, Sizes DEF TreeTypes
  <2>3. LocalTypes
    <3>1. root_level >= 0
      BY <1>2, Sizes DEF TreeTypes
    <3> QED
      BY <1>2, <3>1, Zenon DEF LocalTypes, CallTypes, TreeTypes, LockTypes
  <2>4. TypeOK
    BY <1>2, <2>1, <2>2, Zenon DEF TypeOK, CallTypes, TreeTypes, LockTypes
  <2> QED
    BY <2>3, <2>4
<1> QED
  BY <1>1, <1>2

\* The two parts of the types are all of them in the next state.
LEMMA TypesAfter ==
  ASSUME CallTypes', TreeTypes', LockTypes'
  PROVE  TypeOK' /\ LocalTypes'
  BY TypesSplit, PTL

\* A return leaves the types of a call.
LEMMA ReturnTypes ==
  ASSUME CallTypes, NEW t \in Threads, Return(t)
  PROVE  CallTypes' /\ pc'[t] = "idle"
<1>1. NoPath \in [0 .. MaxLevel -> Leaves \cup BNodes \cup {NULL}]
      /\ NoPath \in [0 .. MaxLevel -> 0 .. NON_LEAF_KEY_NUM]
  BY Sizes DEF NoPath, NULL
<1>2. "idle" \in Stages
  BY DEF Stages
<1>3. 0 \in 0 .. MaxLevel
  BY Sizes
<1>4. /\ pc' \in [Threads -> Stages] /\ calls' \in [Threads -> 0 .. MaxCalls]
      /\ op' \in [Threads -> Ops \cup {"none"}]
      /\ key' \in [Threads -> Keys \cup {NoKey}]
      /\ cur' \in [Threads -> Leaves \cup BNodes \cup {NULL}]
      /\ pc'[t] = "idle"
  BY <1>2 DEF CallTypes, Return
<1>5. /\ parray' \in [Threads -> [0 .. MaxLevel -> Leaves \cup BNodes \cup {NULL}]]
      /\ ppos' \in [Threads -> [0 .. MaxLevel -> 0 .. NON_LEAF_KEY_NUM]]
  BY <1>1, Zenon DEF CallTypes, Return
<1>6. /\ sib' = [u \in Threads |-> NULL]
      /\ lev' \in [Threads -> 0 .. MaxLevel] /\ total' \in [Threads -> 0 .. MaxLevel]
      /\ pkey' \in [Threads -> Keys \cup {NoKey}]
      /\ ptr' \in [Threads -> Leaves \cup BNodes \cup {NULL}]
  BY <1>3 DEF CallTypes, Return
<1>7. \A u \in Threads : pc'[u] # "idle" => op'[u] \in Ops /\ key'[u] \in Keys
  BY DEF CallTypes, Return
<1> QED
  BY <1>4, <1>5, <1>6, <1>7 DEF CallTypes

\* Steps that write nothing shared keep the types of the tree.
LEMMA SharedSame ==
  ASSUME TreeTypes, UNCHANGED <<tree, leaf, bnode, pools>>
  PROVE  TreeTypes'
  BY DEF TreeTypes, tree, pools

-----------------------------------------------------------------------------
(***************************************************************************)
(* Steps that change nothing of the tree and own the same nodes after.     *)
(***************************************************************************)
\* They keep the invariant.
LEMMA QuietStep ==
  ASSUME NEW sh, IInv(sh), NEW t \in Threads,
         UNCHANGED <<tree, leaf, bnode, pools>>,
         \A u \in Threads : u # t => SameLocals(sh, sh, u),
         \A a \in Taken : OwnedBy(sh, a, t)' <=> OwnedBy(sh, a, t),
         \A a \in Taken : sh.own[a] = t => (OpenFor(a, t)' <=> OpenFor(a, t)),
         pc[t] # "count",
         pc[t] \in Climbing =>
            pc'[t] \in Climbing /\ parray'[t][Base(t)'] = parray[t][Base(t)],
         pc[t] # "growRoot", pc'[t] # "growRoot",
         TypeOK', LocalTypes', ThreadOK(sh, t)'
  PROVE  IInv(sh)'
<1>1. TakenLeaves' = TakenLeaves /\ TakenNodes' = TakenNodes /\ Taken' = Taken
  BY DEF TakenLeaves, TakenNodes, Taken, pools
<1>2. Growing' <=> Growing
  BY DEF Growing, SameLocals
<1>3. Frame(sh, sh, t) /\ SameRoot
  BY <1>1, <1>2 DEF Frame, Keeps, SameRoot, tree
<1>4. \A u \in Threads : u # t => ThreadOK(sh, u)'
  BY <1>3, OthersStay
<1>5. TreeFits(sh)'
  <2>1. TreeFits(sh)
    BY DEF IInv
  <2>2. Ranges(sh)' /\ Levels(sh)' /\ Root(sh)'
    BY <2>1, <1>1, <1>2 DEF TreeFits, Ranges, Levels, Root, tree
  <2>3. \A a \in TakenLeaves' : LeafFits(sh, a)'
    BY <2>1, <1>1 DEF TreeFits, LeafFits, tree
  <2>4. \A p \in TakenNodes' : NodeFits(sh, p)'
    BY <2>1, <1>1 DEF TreeFits, NodeFits, EntriesFit
  <2> QED
    BY <2>2, <2>3, <2>4 DEF TreeFits
<1>6. Owners(sh)'
  <2>1. Owners(sh)
    BY DEF IInv
  <2>2. ASSUME NEW u \in Threads, u # t
        PROVE  /\ \A a \in Taken : (OwnedBy(sh, a, u)' <=> OwnedBy(sh, a, u))
                                   /\ (OpenFor(a, u)' <=> OpenFor(a, u))
               /\ pc'[u] = pc[u] /\ parray'[u][Base(u)'] = parray[u][Base(u)]
    <3>1. SameLocals(sh, sh, u)
      BY <2>2
    <3>2. Base(u)' = Base(u)
      BY <3>1 DEF Base, SameLocals
    <3> QED
      BY <3>1, <3>2 DEF OwnedBy, OpenFor, SameLocals, lp, parent, tree
  <2>3. \A a \in Taken : \A u \in Threads : sh.own[a] = u <=> OwnedBy(sh, a, u)'
    BY <2>1, <2>2 DEF Owners
  <2>4. \A a \in Taken : Locked(a)' <=> sh.own[a] \in Threads /\ ~OpenFor(a, sh.own[a])'
    BY <2>1, <2>2 DEF Owners, Locked
  <2>5. \A a \in Addr \ Taken : ~Locked(a)'
    BY <2>1 DEF Owners, Locked
  <2>6. \A p \in TakenNodes : sh.cnt[p] # bnode'[p].num =>
          sh.own[p] \in Threads /\ pc'[sh.own[p]] = "count"
    BY <2>1, <2>2 DEF Owners
  <2>7. \A a \in Taken : sh.end[a] # a =>
          /\ sh.own[a] \in Threads /\ pc'[sh.own[a]] \in Climbing
          /\ a = parray'[sh.own[a]][Base(sh.own[a])']
    BY <2>1, <2>2 DEF Owners
  <2> QED
    BY <1>1, <2>3, <2>4, <2>5, <2>6, <2>7 DEF Owners
<1> QED
  BY <1>4, <1>5, <1>6 DEF IInv

\* A thread that owns nothing.
Free == {"idle", "start", "readLevel", "readRoot", "descend"}

\* A step that leaves the tree alone and holds no node is quiet.
LEMMA FreeStep ==
  ASSUME NEW sh, IInv(sh), NEW t \in Threads,
         UNCHANGED <<tree, leaf, bnode, pools>>,
         \A u \in Threads : u # t => SameLocals(sh, sh, u),
         pc[t] \in Free, pc'[t] \in Free,
         CallTypes', LockTypes', SearchOK(sh, t)'
  PROVE  IInv(sh)'
<1>1. \A a : ~OwnedBy(sh, a, t) /\ ~OwnedBy(sh, a, t)'
  BY DEF OwnedBy, Free, Splitting, Climbing
<1>2. \A a \in Taken : sh.own[a] # t
  BY <1>1 DEF IInv, Owners
<1>3. ThreadOK(sh, t)'
  BY DEF ThreadOK, LeafCallOK, PathOK, SplitOK, GrowOK, Free, Splitting, Climbing
<1>4. TypeOK' /\ LocalTypes'
  BY SharedSame, TypesSplit, TypesAfter DEF IInv
<1>5. pc[t] \notin Climbing /\ pc[t] # "count" /\ pc[t] # "growRoot" /\ pc'[t] # "growRoot"
  BY DEF Free, Climbing
<1> QED
  BY <1>1, <1>2, <1>3, <1>4, <1>5, QuietStep

-----------------------------------------------------------------------------
(***************************************************************************)
(* What a search finds.                                                    *)
(***************************************************************************)
\* The child the search goes to in an unowned node.
LEMMA NextChild ==
  ASSUME NEW sh, IInv(sh), NEW p \in TakenNodes, sh.own[p] = NoThread,
         NEW x \in Keys, sh.lo[p] =< x, x < sh.hi[p]
  PROVE  LET pos == ChildPos(p, x)
         IN  /\ pos \in 0 .. bnode[p].num /\ sh.cnt[p] = bnode[p].num
             /\ bnode[p].ch[pos] \in Taken /\ sh.lvl[bnode[p].ch[pos]] + 1 = sh.lvl[p]
             /\ (IF pos = 0 THEN sh.lo[p] ELSE bnode[p].k[pos]) =< x
             /\ x < (IF pos = bnode[p].num THEN sh.hi[p] ELSE bnode[p].k[pos + 1])
<1> DEFINE pos == ChildOf(bnode[p].k, bnode[p].num, x)
<1>1. sh.cnt[p] = bnode[p].num /\ NodeFits(sh, p)
  BY Sizes DEF IInv, Owners, TreeFits
<1>2. p \in BNodes /\ bnode[p].num \in Nat
  BY <1>1, CountType, Sizes
<1>3. Sorted(bnode[p].k, bnode[p].num, x)
  BY <1>1, <1>2 DEF NodeFits, EntriesFit, Sorted
<1>4. /\ pos \in 0 .. bnode[p].num
      /\ \A i \in 1 .. bnode[p].num : /\ i =< pos => bnode[p].k[i] =< x
                                      /\ pos < i => x < bnode[p].k[i]
  BY <1>3, ChildOfIsChild
<1> HIDE DEF pos
<1>5. bnode[p].ch[pos] \in Taken /\ sh.lvl[bnode[p].ch[pos]] + 1 = sh.lvl[p]
  BY <1>1, <1>4, ChildInside
<1>6. (IF pos = 0 THEN sh.lo[p] ELSE bnode[p].k[pos]) =< x
  <2>1. pos # 0 => pos \in 1 .. bnode[p].num /\ pos =< pos
    BY <1>2, <1>4
  <2> QED
    BY <1>4, <2>1
<1>7. x < (IF pos = bnode[p].num THEN sh.hi[p] ELSE bnode[p].k[pos + 1])
  <2>1. pos # bnode[p].num => pos + 1 \in 1 .. bnode[p].num /\ pos < pos + 1
    BY <1>2, <1>4
  <2> QED
    BY <1>4, <2>1
<1>8. pos = ChildPos(p, x)
  BY DEF pos, ChildPos
<1> QED
  BY <1>1, <1>4, <1>5, <1>6, <1>7, <1>8

\* A search that has not been overtaken by a new root and stands before an
\* open node: the node is nobody's, and the key belongs under it.
LEMMA InRange ==
  ASSUME NEW sh, IInv(sh), NEW t \in Threads, pc[t] = "descend", ~Locked(cur[t])
  PROVE  /\ Found(sh, t) /\ sh.own[cur[t]] = NoThread /\ key[t] \in Keys
         /\ sh.lo[cur[t]] =< key[t] /\ key[t] < sh.hi[cur[t]]
<1>1. Found(sh, t)
  <2>1. ~Outdated(t)
    BY GrowerHolds DEF Outdated
  <2> QED
    BY <2>1 DEF IInv, ThreadOK, SearchOK
<1>2. key[t] \in Keys /\ key[t] \in Int /\ Low =< key[t] /\ key[t] < High
  BY Sizes DEF IInv, LocalTypes
<1>3. cur[t] \in Taken /\ lev[t] \in Int /\ root_level \in Int /\ lev[t] =< root_level
  BY <1>1, ThreadTypes, Sizes DEF Found, IInv
<1>4. CASE lev[t] = root_level
  <2>1. cur[t] = tree_root
    BY <1>1, <1>4 DEF Found
  <2>2. sh.own[cur[t]] = NoThread /\ sh.end[cur[t]] = cur[t]
    BY <1>3, <2>1, Exposed
  <2>3. ~Growing
    BY <2>1, GrowerHolds
  <2>4. sh.lo[cur[t]] = Low /\ sh.hi[cur[t]] = High
    BY <2>1, <2>2, <2>3 DEF IInv, TreeFits, Root
  <2> QED
    BY <1>1, <1>2, <2>2, <2>4
<1>5. CASE lev[t] # root_level
  <2> DEFINE q == parray[t][lev[t] + 1]
             pos == ppos[t][lev[t] + 1]
  <2>1. Passed(sh, t, lev[t] + 1)
    BY <1>1, <1>3, <1>5 DEF Found
  <2>2. /\ q \in TakenNodes /\ sh.own[q] = NoThread
        /\ pos \in 0 .. bnode[q].num /\ bnode[q].ch[pos] = cur[t]
        /\ (IF pos = 0 THEN sh.lo[q] ELSE bnode[q].k[pos]) =< key[t]
        /\ key[t] < (IF pos = bnode[q].num THEN sh.hi[q] ELSE bnode[q].k[pos + 1])
    BY <2>1 DEF Passed, Under
  <2> HIDE DEF q, pos
  <2>3. sh.own[cur[t]] = NoThread /\ sh.end[cur[t]] = cur[t]
    BY <1>3, <2>2, Exposed
  <2>4. sh.cnt[q] = bnode[q].num
    BY <2>2, Sizes DEF IInv, Owners
  <2>5. /\ sh.lo[cur[t]] = (IF pos = 0 THEN sh.lo[q] ELSE bnode[q].k[pos])
        /\ sh.hi[cur[t]] = (IF pos = bnode[q].num THEN sh.hi[q] ELSE bnode[q].k[pos + 1])
    <3>1. LET c == bnode[q].ch[pos] IN
            /\ sh.lo[c] = (IF pos = 0 THEN sh.lo[q] ELSE bnode[q].k[pos])
            /\ sh.hi[sh.end[c]] = (IF pos = sh.cnt[q] THEN sh.hi[q] ELSE bnode[q].k[pos + 1])
      <4>1. q \in TakenNodes /\ pos \in 0 .. sh.cnt[q]
        BY ONLY <2>2, <2>4
      <4> QED
        BY ONLY IInv(sh), <4>1, ChildInside
    <3> QED
      BY <2>2, <2>3, <2>4, <3>1
  <2> QED
    BY <1>1, <1>2, <2>2, <2>3, <2>5
<1> QED
  BY <1>4, <1>5

-----------------------------------------------------------------------------
(***************************************************************************)
(* Part 1, but for the steps that set lock bits.                           *)
(***************************************************************************)
\* A call begins.
LEMMA CallKeeps ==
  ASSUME NEW sh, IInv(sh), NEW t \in Threads, Call(t)
  PROVE  IInv(sh)'
<1>1. CallTypes /\ TreeTypes /\ LockTypes
  BY TypesSplit DEF IInv
<1>2. pc[t] = "idle" /\ pc'[t] = "start" /\ pc' = [pc EXCEPT ![t] = "start"]
  BY <1>1 DEF Call, Goto, CallTypes
<1>3. UNCHANGED <<tree_lock, tree, leaf, bnode, pools, cur, lev, path, sib, up>>
  BY DEF Call, shared
<1>4. PICK w \in Work[t] : op' = [op EXCEPT ![t] = w[1]] /\ key' = [key EXCEPT ![t] = w[2]]
  BY DEF Call
<1>5. w[1] \in Ops /\ w[2] \in Keys
  BY WorkAssumption
<1>6. /\ pc' \in [Threads -> Stages] /\ op' \in [Threads -> Ops \cup {"none"}]
      /\ key' \in [Threads -> Keys \cup {NoKey}]
      /\ \A u \in Threads : pc'[u] # "idle" => op'[u] \in Ops /\ key'[u] \in Keys
  BY <1>1, <1>2, <1>4, <1>5 DEF CallTypes, Stages
<1>7. calls' \in [Threads -> 0 .. MaxCalls]
  <2>1. calls' = [calls EXCEPT ![t] = IF MaxCalls > 0 THEN @ + 1 ELSE @]
        /\ (MaxCalls > 0 => calls[t] < MaxCalls)
    BY DEF Call
  <2>2. calls \in [Threads -> 0 .. MaxCalls]
    BY <1>1 DEF CallTypes
  <2>3. (IF MaxCalls > 0 THEN calls[t] + 1 ELSE calls[t]) \in 0 .. MaxCalls
    BY <2>1, <2>2
  <2> QED
    BY <2>1, <2>2, <2>3
<1>8. CallTypes'
  BY <1>1, <1>3, <1>6, <1>7 DEF CallTypes, path, up
<1>9. LockTypes'
  BY <1>1, <1>2, <1>3 DEF LockTypes, Part1, CallTypes
<1>10. \A u \in Threads : u # t => SameLocals(sh, sh, u)
  BY <1>1, <1>2, <1>3, <1>4 DEF SameLocals, CallTypes, path, up
<1>11. SearchOK(sh, t)'
  BY <1>2 DEF SearchOK
<1> QED
  BY <1>2, <1>3, <1>8, <1>9, <1>10, <1>11, FreeStep DEF Free

\* The step that takes the mutex and reads the root keeps the invariant.
LEMMA LockAndReadRootKeeps ==
  ASSUME NEW sh, IInv(sh), NEW t \in Threads, LockAndReadRoot(t)
  PROVE  IInv(sh)'
<1>1. CallTypes /\ TreeTypes /\ LockTypes
  BY TypesSplit DEF IInv
<1>2. /\ pc[t] = "start" /\ pc'[t] = "readLevel" /\ pc' = [pc EXCEPT ![t] = "readLevel"]
      /\ cur' = [cur EXCEPT ![t] = tree_root] /\ tree_lock = NoThread /\ tree_lock' = t
  BY <1>1 DEF LockAndReadRoot, Goto, CallTypes
<1>3. UNCHANGED <<tree, leaf, bnode, pools, call, lev, path, sib, up>>
  BY DEF LockAndReadRoot
<1>4. CallTypes'
  BY <1>1, <1>2, <1>3 DEF CallTypes, TreeTypes, call, path, up, Stages
<1>5. LockTypes'
  BY <1>1, <1>2 DEF LockTypes, Part1, CallTypes
<1>6. \A u \in Threads : u # t => SameLocals(sh, sh, u)
  BY <1>1, <1>2, <1>3 DEF SameLocals, CallTypes, call, path, up
<1>7. SearchOK(sh, t)'
  BY <1>1, <1>2, <1>3 DEF SearchOK, CallTypes, tree
<1> QED
  BY <1>2, <1>3, <1>4, <1>5, <1>6, <1>7, FreeStep DEF Free

\* So does the one that takes the mutex and reads root_level.
LEMMA LockAndReadLevelKeeps ==
  ASSUME NEW sh, IInv(sh), NEW t \in Threads, LockAndReadLevel(t)
  PROVE  IInv(sh)'
<1>1. CallTypes /\ TreeTypes /\ LockTypes
  BY TypesSplit DEF IInv
<1>2. /\ pc[t] = "start" /\ pc'[t] = "readRoot" /\ pc' = [pc EXCEPT ![t] = "readRoot"]
      /\ lev' = [lev EXCEPT ![t] = root_level] /\ tree_lock = NoThread /\ tree_lock' = t
  BY <1>1 DEF LockAndReadLevel, Goto, CallTypes
<1>3. UNCHANGED <<tree, leaf, bnode, pools, call, cur, path, sib, up>>
  BY DEF LockAndReadLevel
<1>4. CallTypes'
  BY <1>1, <1>2, <1>3 DEF CallTypes, TreeTypes, call, path, up, Stages
<1>5. LockTypes'
  BY <1>1, <1>2 DEF LockTypes, Part1, CallTypes
<1>6. \A u \in Threads : u # t => SameLocals(sh, sh, u)
  BY <1>1, <1>2, <1>3 DEF SameLocals, CallTypes, call, path, up
<1>7. SearchOK(sh, t)'
  BY <1>1, <1>2, <1>3 DEF SearchOK, CallTypes, tree
<1> QED
  BY <1>2, <1>3, <1>4, <1>5, <1>6, <1>7, FreeStep DEF Free

\* A search that has read root and level is at the root or, while a new root
\* is put in place, at the old one.
LEMMA SearchStarts ==
  ASSUME NEW sh, IInv(sh), NEW t \in Threads, UNCHANGED <<tree, leaf, bnode, pools>>,
         Growing' <=> Growing, pc'[t] = "descend", cur'[t] = tree_root,
         lev'[t] = root_level \/ (Growing /\ lev'[t] + 1 = root_level), lev'[t] \in Int
  PROVE  SearchOK(sh, t)'
<1>1. root_level \in Int
  BY ThreadTypes, Sizes DEF IInv
<1>2. CASE Growing
  BY <1>1, <1>2 DEF SearchOK, Outdated, tree
<1>3. CASE ~Growing
  <2>1. tree_root \in Taken /\ sh.lvl[tree_root] = root_level /\ lev'[t] = root_level
    BY <1>3 DEF IInv, TreeFits, Root
  <2>2. Taken' = Taken
    BY DEF Taken, TakenLeaves, TakenNodes, pools
  <2>3. Found(sh, t)'
    BY <1>1, <2>1, <2>2 DEF Found, tree
  <2> QED
    BY <2>3 DEF SearchOK
<1> QED
  BY <1>2, <1>3

\* The second of the two loads of the root keeps the invariant.
LEMMA ReadLevelKeeps ==
  ASSUME NEW sh, IInv(sh), NEW t \in Threads, ReadLevel(t)
  PROVE  IInv(sh)'
<1>1. CallTypes /\ TreeTypes /\ LockTypes
  BY TypesSplit DEF IInv
<1>2. /\ pc[t] = "readLevel" /\ pc'[t] = "descend" /\ pc' = [pc EXCEPT ![t] = "descend"]
      /\ lev' = [lev EXCEPT ![t] = root_level] /\ lev'[t] = root_level
  BY <1>1 DEF ReadLevel, Goto, CallTypes
<1>3. UNCHANGED <<tree_lock, tree, leaf, bnode, pools, call, cur, path, sib, up>>
  BY DEF ReadLevel, shared
<1>4. CallTypes'
  BY <1>1, <1>2, <1>3 DEF CallTypes, TreeTypes, call, path, up, Stages
<1>5. LockTypes'
  BY <1>1, <1>2, <1>3 DEF LockTypes, Part1, CallTypes
<1>6. \A u \in Threads : u # t => SameLocals(sh, sh, u)
  BY <1>1, <1>2, <1>3 DEF SameLocals, CallTypes, call, path, up
<1>7. cur[t] = tree_root
  BY <1>2 DEF IInv, ThreadOK, SearchOK
<1>8. Growing' <=> Growing
  BY <1>1, <1>2 DEF Growing, CallTypes
<1>9. SearchOK(sh, t)'
  BY <1>1, <1>2, <1>3, <1>7, <1>8, SearchStarts, Sizes DEF TreeTypes
<1> QED
  BY <1>2, <1>3, <1>4, <1>5, <1>6, <1>9, FreeStep DEF Free

\* And so when the root is the second.
LEMMA ReadRootKeeps ==
  ASSUME NEW sh, IInv(sh), NEW t \in Threads, ReadRoot(t)
  PROVE  IInv(sh)'
<1>1. CallTypes /\ TreeTypes /\ LockTypes
  BY TypesSplit DEF IInv
<1>2. /\ pc[t] = "readRoot" /\ pc'[t] = "descend" /\ pc' = [pc EXCEPT ![t] = "descend"]
      /\ cur' = [cur EXCEPT ![t] = tree_root] /\ cur'[t] = tree_root
  BY <1>1 DEF ReadRoot, Goto, CallTypes
<1>3. UNCHANGED <<tree_lock, tree, leaf, bnode, pools, call, lev, path, sib, up>>
  BY DEF ReadRoot, shared
<1>4. CallTypes'
  BY <1>1, <1>2, <1>3 DEF CallTypes, TreeTypes, call, path, up, Stages
<1>5. LockTypes'
  BY <1>1, <1>2, <1>3 DEF LockTypes, Part1, CallTypes
<1>6. \A u \in Threads : u # t => SameLocals(sh, sh, u)
  BY <1>1, <1>2, <1>3 DEF SameLocals, CallTypes, call, path, up
<1>7. lev[t] = root_level \/ (Growing /\ lev[t] + 1 = root_level)
  BY <1>2 DEF IInv, ThreadOK, SearchOK
<1>8. Growing' <=> Growing
  BY <1>1, <1>2 DEF Growing, CallTypes
<1>9. SearchOK(sh, t)'
  <2>1. lev'[t] \in Int /\ lev'[t] = lev[t]
    BY <1>1, <1>3, Sizes DEF CallTypes
  <2> QED
    BY <1>2, <1>3, <1>7, <1>8, <2>1, SearchStarts
<1> QED
  BY <1>2, <1>3, <1>4, <1>5, <1>6, <1>9, FreeStep DEF Free

\* A step down keeps the invariant: the key belongs under the child.
LEMMA DescendKeeps ==
  ASSUME NEW sh, IInv(sh), NEW t \in Threads, Descend(t)
  PROVE  IInv(sh)'
<1> PICK c, i, pos : c = cur[t] /\ i = lev[t] /\ pos = ChildPos(cur[t], key[t])
  OBVIOUS
<1>1. CallTypes /\ TreeTypes /\ LockTypes
  BY TypesSplit DEF IInv
<1>2. /\ pc[t] = "descend" /\ i > 0 /\ c \in BNodes /\ ~bnode[c].lock
      /\ parray' = [parray EXCEPT ![t][i] = c] /\ ppos' = [ppos EXCEPT ![t][i] = pos]
      /\ cur' = [cur EXCEPT ![t] = bnode[c].ch[pos]] /\ lev' = [lev EXCEPT ![t] = i - 1]
  BY DEF Descend, AtNode
<1>3. UNCHANGED <<tree_lock, tree, leaf, bnode, pools, pc, call, sib, up>>
  BY DEF Descend, shared
<1>4. /\ Found(sh, t) /\ sh.own[c] = NoThread /\ key[t] \in Keys
      /\ sh.lo[c] =< key[t] /\ key[t] < sh.hi[c]
  <2>1. ~Locked(c)
    BY <1>2, Addresses DEF Locked
  <2> QED
    BY <1>2, <2>1, InRange
<1>5. /\ c \in TakenNodes /\ sh.lvl[c] = i /\ i =< root_level
      /\ i \in 1 .. MaxLevel /\ root_level \in Int
  <2>1. c \in Taken /\ sh.lvl[c] = i /\ i =< root_level
    BY <1>4 DEF Found
  <2> QED
    BY <1>1, <1>2, <2>1, Numbers, Sizes, SMTT(40) DEF CallTypes, TreeTypes
<1>6. /\ pos \in 0 .. bnode[c].num /\ sh.cnt[c] = bnode[c].num
      /\ bnode[c].ch[pos] \in Taken /\ sh.lvl[bnode[c].ch[pos]] + 1 = sh.lvl[c]
      /\ (IF pos = 0 THEN sh.lo[c] ELSE bnode[c].k[pos]) =< key[t]
      /\ key[t] < (IF pos = bnode[c].num THEN sh.hi[c] ELSE bnode[c].k[pos + 1])
  BY <1>4, <1>5, NextChild
<1>7. pos \in 0 .. NON_LEAF_KEY_NUM /\ bnode[c].ch[pos] \in Leaves \cup BNodes \cup {NULL}
  <2>1. bnode[c].num \in 0 .. NON_LEAF_KEY_NUM
    BY <1>1, <1>2 DEF TreeTypes, NodeType
  <2>2. bnode[c].ch[pos] \in Leaves \cup BNodes
    BY <1>6, TakenTypes DEF IInv, Addr
  <2> QED
    BY <1>6, <2>1, <2>2, Sizes
<1>8. /\ parray' \in [Threads -> [0 .. MaxLevel -> Leaves \cup BNodes \cup {NULL}]]
      /\ ppos' \in [Threads -> [0 .. MaxLevel -> 0 .. NON_LEAF_KEY_NUM]]
      /\ parray'[t] = [parray[t] EXCEPT ![i] = c] /\ ppos'[t] = [ppos[t] EXCEPT ![i] = pos]
      /\ cur'[t] = bnode[c].ch[pos] /\ lev'[t] = i - 1
      /\ parray[t] \in [0 .. MaxLevel -> Leaves \cup BNodes \cup {NULL}]
      /\ ppos[t] \in [0 .. MaxLevel -> 0 .. NON_LEAF_KEY_NUM]
  BY <1>1, <1>2, <1>5, <1>7, Sizes DEF CallTypes
<1>9. CallTypes'
  <2>1. cur' \in [Threads -> Leaves \cup BNodes \cup {NULL}]
    BY <1>1, <1>2, <1>7 DEF CallTypes
  <2>2. i - 1 \in 0 .. MaxLevel
    BY <1>5, Sizes
  <2>3. lev' \in [Threads -> 0 .. MaxLevel]
    BY <1>1, <1>2, <2>2 DEF CallTypes
  <2> QED
    BY <1>1, <1>3, <1>8, <2>1, <2>3 DEF CallTypes, call, up
<1>10. LockTypes'
  BY <1>1, <1>3 DEF LockTypes
<1>11. \A u \in Threads : u # t => SameLocals(sh, sh, u)
  BY <1>1, <1>2, <1>3 DEF SameLocals, CallTypes, call, up
<1>12. Found(sh, t)'
  <2>1. Taken' = Taken /\ TakenNodes' = TakenNodes
    BY <1>3 DEF Taken, TakenLeaves, TakenNodes, pools
  <2>2. \A j \in 0 .. MaxLevel : j # i => parray'[t][j] = parray[t][j] /\ ppos'[t][j] = ppos[t][j]
    BY <1>8
  <2>3. parray'[t][i] = c /\ ppos'[t][i] = pos
    BY <1>5, <1>8, Sizes, SMTT(40)
  <2>4. Passed(sh, t, i)'
    <3>1. Under(t, i)' = bnode[c].ch[pos]
      BY <1>5, <1>8 DEF Under
    <3> QED
      BY <1>3, <1>4, <1>5, <1>6, <2>1, <2>3, <3>1 DEF Passed, call
  <2>5. ASSUME NEW j \in i + 1 .. root_level PROVE Passed(sh, t, j)'
    <3>1. Passed(sh, t, j)
      BY <1>4, <2>5 DEF Found
    <3>2. j # i /\ j \in 0 .. MaxLevel /\ j - 1 \in 0 .. MaxLevel /\ j # i - 1 + 1
      BY <1>1, <1>5, Sizes DEF TreeTypes
    <3>3. parray'[t][j] = parray[t][j] /\ ppos'[t][j] = ppos[t][j]
      BY <2>2, <3>2
    <3>4. Under(t, j)' = Under(t, j)
      <4>1. Under(t, j)' = parray'[t][j - 1]
        BY <1>8, <3>2 DEF Under
      <4>2. CASE j = i + 1
        BY <1>5, <2>3, <4>1, <4>2 DEF Under
      <4>3. CASE j # i + 1
        <5>1. j - 1 # i
          BY <4>3, <1>5
        <5> QED
          BY <2>2, <3>2, <4>1, <4>3, <5>1 DEF Under
      <4> QED
        BY <4>2, <4>3
    <3> QED
      BY <1>3, <2>1, <3>1, <3>3, <3>4 DEF Passed, call
  <2>6. \A j \in i - 1 + 1 .. root_level : Passed(sh, t, j)'
    <3>1. \A j \in i - 1 + 1 .. root_level : j = i \/ j \in i + 1 .. root_level
      BY <1>5
    <3> QED
      BY <2>4, <2>5, <3>1
  <2>7. parray'[t][root_level] = tree_root
    <3>1. CASE i = root_level
      BY <1>4, <2>3, <3>1 DEF Found
    <3>2. CASE i # root_level
      BY <1>1, <1>4, <1>5, <2>2, <3>2 DEF Found, TreeTypes
    <3> QED
      BY <3>1, <3>2
  <2>8. root_level' = root_level /\ tree_root' = tree_root
    BY <1>3 DEF tree
  <2>9. \A j \in lev'[t] + 1 .. root_level' : Passed(sh, t, j)'
    BY <1>8, <2>6, <2>8
  <2>10. lev'[t] =< root_level' /\ lev'[t] # root_level'
    BY <1>5, <1>8, <2>8, SMTT(40)
  <2>11. cur'[t] \in Taken' /\ sh.lvl[cur'[t]] = lev'[t]
    <3>1. sh.lvl[bnode[c].ch[pos]] \in Int
      BY <1>6, Numbers, Sizes, SMTT(100)
    <3>2. i \in Int /\ sh.lvl[bnode[c].ch[pos]] + 1 = i
      BY <1>5, <1>6, Sizes
    <3>3. sh.lvl[bnode[c].ch[pos]] = i - 1
      BY <3>1, <3>2
    <3> QED
      BY <1>6, <1>8, <2>1, <3>3
  <2> QED
    BY <2>7, <2>8, <2>9, <2>10, <2>11 DEF Found
<1>13. SearchOK(sh, t)'
  BY <1>2, <1>3, <1>12 DEF SearchOK
<1> QED
  BY <1>2, <1>3, <1>9, <1>10, <1>11, <1>13, FreeStep DEF Free

\* A call that gives up its search, or ends it with nothing to change.
LEMMA BlockedByLockKeeps ==
  ASSUME NEW sh, IInv(sh), NEW t \in Threads, BlockedByLock(t)
  PROVE  IInv(sh)'
<1>1. CallTypes /\ TreeTypes /\ LockTypes
  BY TypesSplit DEF IInv
<1>2. /\ pc[t] = "descend" /\ pc'[t] = "start" /\ pc' = [pc EXCEPT ![t] = "start"]
      /\ cur' = [cur EXCEPT ![t] = NULL] /\ lev' = [lev EXCEPT ![t] = 0]
      /\ tree_lock' = NoThread
  BY <1>1 DEF BlockedByLock, Again, Goto, CallTypes, AtNode, AtLeaf
<1>3. UNCHANGED <<tree, leaf, bnode, pools, call, path, sib, up>>
  BY DEF BlockedByLock
<1>4. CallTypes'
  <2>1. 0 \in 0 .. MaxLevel
    BY Sizes
  <2> QED
    BY <1>1, <1>2, <1>3, <2>1 DEF CallTypes, call, path, up, Stages
<1>5. LockTypes'
  BY <1>1, <1>2 DEF LockTypes, Part1, CallTypes
<1>6. \A u \in Threads : u # t => SameLocals(sh, sh, u)
  BY <1>1, <1>2, <1>3 DEF SameLocals, CallTypes, call, path, up
<1>7. SearchOK(sh, t)'
  BY <1>2 DEF SearchOK
<1> QED
  BY <1>2, <1>3, <1>4, <1>5, <1>6, <1>7, FreeStep DEF Free

\* What a return leaves of the call.
LEMMA ReturnLocals ==
  ASSUME NEW sh, CallTypes, NEW t \in Threads, Return(t), NEW u \in Threads, u # t
  PROVE  SameLocals(sh, sh, u)
  BY DEF SameLocals, Return, CallTypes

\* A lookup's answer, or nothing to do, keeps the invariant.
LEMMA AnswerKeeps ==
  ASSUME NEW sh, IInv(sh), NEW t \in Threads, LookupLeaf(t) \/ NothingToDo(t)
  PROVE  IInv(sh)'
<1>1. CallTypes /\ TreeTypes /\ LockTypes
  BY TypesSplit DEF IInv
<1>2. /\ pc[t] = "descend" /\ tree_lock' = NoThread /\ Return(t)
      /\ UNCHANGED <<tree, leaf, bnode, pools>>
  BY DEF LookupLeaf, NothingToDo, AtOpenLeaf, AtLeaf
<1>3. CallTypes' /\ pc'[t] = "idle"
  BY <1>1, <1>2, ReturnTypes
<1>4. LockTypes'
  BY <1>1, <1>2 DEF LockTypes, Part1, CallTypes, Return
<1>5. \A u \in Threads : u # t => SameLocals(sh, sh, u)
  BY <1>1, <1>2, ReturnLocals
<1>6. SearchOK(sh, t)'
  BY <1>3 DEF SearchOK
<1> QED
  BY <1>2, <1>3, <1>4, <1>5, <1>6, FreeStep DEF Free

\* Part 3 of insert begins at the leaf it has split.
LEMMA ReadTotalLevelKeeps ==
  ASSUME NEW sh, IInv(sh), NEW t \in Threads, ReadTotalLevel(t)
  PROVE  IInv(sh)'
<1>1. CallTypes /\ TreeTypes /\ LockTypes
  BY TypesSplit DEF IInv
<1>2. /\ pc[t] = "parent" /\ pc'[t] = "up" /\ pc' = [pc EXCEPT ![t] = "up"]
      /\ lev' = [lev EXCEPT ![t] = 1] /\ total' = [total EXCEPT ![t] = root_level]
      /\ lev'[t] = 1 /\ total'[t] = root_level
  BY <1>1 DEF ReadTotalLevel, Goto, CallTypes
<1>3. UNCHANGED <<tree_lock, tree, leaf, bnode, pools, call, cur, path, sib, pkey, ptr>>
  BY DEF ReadTotalLevel, shared
<1>4. CallTypes'
  <2>1. 1 \in 0 .. MaxLevel
    BY Sizes
  <2> QED
    BY <1>1, <1>2, <1>3, <2>1 DEF CallTypes, TreeTypes, call, path, Stages
<1>5. LockTypes'
  BY <1>1, <1>2, <1>3 DEF LockTypes, Part1, CallTypes
<1>6. TypeOK' /\ LocalTypes'
  BY <1>1, <1>3, <1>4, <1>5, SharedSame, TypesAfter
<1>7. \A u \in Threads : u # t => SameLocals(sh, sh, u)
  BY <1>1, <1>2, <1>3 DEF SameLocals, CallTypes, call, path
<1>8. Base(t) = 0 /\ Base(t)' = 0 /\ parray' = parray /\ ppos' = ppos /\ ptr' = ptr
      /\ Taken' = Taken /\ TakenNodes' = TakenNodes
  BY <1>2, <1>3 DEF Base, path, Taken, TakenNodes, TakenLeaves, pools
<1>9. \A a \in Taken : OwnedBy(sh, a, t)' <=> OwnedBy(sh, a, t)
  BY <1>2, <1>3, <1>8 DEF OwnedBy, Splitting, Climbing
<1>10. root_level \in 0 .. MaxLevel /\ root_level' = root_level /\ tree_root' = tree_root
       /\ sh.top[t] \in Int
  BY <1>1, <1>3, ShapeTypes, Sizes DEF TreeTypes, tree, IInv
<1>11. \A a \in Taken : OpenFor(a, t)' <=> OpenFor(a, t)
  <2>1. (1 =< root_level) <=> (root_level > 0)
    BY <1>10, Sizes
  <2>2. 1 - 1 = 0
    OBVIOUS
  <2> QED
    BY <1>2, <1>8, <1>10, <2>1, <2>2 DEF OpenFor, Climbing, lp
<1>12. ThreadOK(sh, t)'
  <2>1. PathOK(sh, t) /\ SplitOK(sh, t) /\ pc[t] \in Splitting /\ pc[t] \in Climbing
    BY <1>2 DEF IInv, ThreadOK, Splitting, Climbing
  <2>2. SearchOK(sh, t)' /\ LeafCallOK(sh, t)' /\ GrowOK(sh, t)'
    BY <1>2 DEF SearchOK, LeafCallOK, GrowOK
  <2>3. PathOK(sh, t)'
    BY <1>3, <1>8, <1>10, <2>1 DEF PathOK, Link, Full
  <2>4. SplitOK(sh, t)'
    <3>1. sh.top[t] =< root_level
      BY <2>1 DEF PathOK
    <3>2. /\ lev'[t] \in 1 .. MaxLevel /\ lev'[t] =< total'[t] + 1
          /\ sh.top[t] =< total'[t] /\ total'[t] =< root_level' /\ total'[t] = root_level'
      BY <1>2, <1>10, <3>1, Sizes
    <3> QED
      BY <1>2, <1>3, <1>8, <2>1, <3>2 DEF SplitOK
  <2> QED
    BY <2>2, <2>3, <2>4 DEF ThreadOK
<1> QED
  <2>1. pc[t] \in Climbing /\ pc'[t] \in Climbing /\ pc[t] # "count"
        /\ pc[t] # "growRoot" /\ pc'[t] # "growRoot"
    BY <1>2 DEF Climbing
  <2> QED
    BY <1>3, <1>6, <1>7, <1>8, <1>9, <1>11, <1>12, <2>1, QuietStep

-----------------------------------------------------------------------------
(***************************************************************************)
(* Steps that change nodes.                                                *)
(***************************************************************************)
Shape(lvl, lo, hi, cnt, end, own, top) ==
    [lvl |-> lvl, lo |-> lo, hi |-> hi, cnt |-> cnt, end |-> end, own |-> own, top |-> top]

\* The shape with other owners and other levels to be changed.
Reown(sh, own, top) == Shape(sh.lvl, sh.lo, sh.hi, sh.cnt, sh.end, own, top)

\* The fields of a shape after a step.
LEMMA ShapeFields ==
  ASSUME NEW lvl, NEW lo, NEW hi, NEW cnt, NEW end, NEW own, NEW top
  PROVE  LET sh == Shape(lvl, lo, hi, cnt, end, own, top)
         IN  /\ sh.lvl = lvl /\ sh.lo = lo /\ sh.hi = hi /\ sh.cnt = cnt /\ sh.end = end
             /\ sh.own = own /\ sh.top = top
             /\ (/\ lvl \in [Addr -> 0 .. MaxLevel] /\ lo \in [Addr -> Int]
                 /\ hi \in [Addr -> Int] /\ cnt \in [BNodes -> 0 .. NON_LEAF_KEY_NUM]
                 /\ end \in [Addr -> Addr] /\ own \in [Addr -> Threads \cup {NoThread}]
                 /\ top \in [Threads -> 0 .. MaxLevel])
                => sh \in ShapeType
  BY DEF Shape, ShapeType

\* The shape with another owner of one node.
LEMMA ReownFields ==
  ASSUME NEW sh, NEW own, NEW top
  PROVE  LET sh1 == Reown(sh, own, top)
         IN  /\ sh1.lvl = sh.lvl /\ sh1.lo = sh.lo /\ sh1.hi = sh.hi /\ sh1.cnt = sh.cnt
             /\ sh1.end = sh.end /\ sh1.own = own /\ sh1.top = top
             /\ (/\ sh \in ShapeType /\ own \in [Addr -> Threads \cup {NoThread}]
                 /\ top \in [Threads -> 0 .. MaxLevel])
                => sh1 \in ShapeType
  BY ShapeFields, ShapeTypes DEF Reown

\* What a thread is going to change is taken from the pools.
LEMMA OwnedTaken ==
  ASSUME NEW sh, IInv(sh), NEW u \in Threads, NEW a, OwnedBy(sh, a, u)
  PROVE  a \in Taken /\ sh.own[a] = u
<1>1. a \in Taken
  <2>1. ThreadOK(sh, u)
    BY DEF IInv
  <2>2. CASE pc[u] \in {"insert", "leafDel"} /\ a = lp(u)
    BY <2>1, <2>2 DEF ThreadOK, LeafCallOK, Taken
  <2>3. CASE pc[u] \in Splitting /\ \E i \in Base(u) .. sh.top[u] : a = parray[u][i]
    BY <2>3, PathOwned
  <2>4. CASE pc[u] \in Climbing /\ a = ptr[u]
    BY <2>4, HangingNode
  <2>5. CASE pc[u] = "count" /\ a = parent(u)
    BY <2>1, <2>5 DEF ThreadOK, SplitOK, Taken
  <2>6. CASE pc[u] \in {"growRoot", "unlockOld"} /\ a \in {cur[u], ptr[u]}
    BY <2>1, <2>6 DEF ThreadOK, GrowOK, Taken
  <2>7. CASE pc[u] = "unlockNew" /\ a = ptr[u]
    BY <2>1, <2>7 DEF ThreadOK, GrowOK, Taken
  <2> QED
    BY <2>2, <2>3, <2>4, <2>5, <2>6, <2>7 DEF OwnedBy
<1> QED
  BY <1>1 DEF IInv, Owners

\* The owners after a step of t are right if they are for t's nodes.
LEMMA OwnersStep ==
  ASSUME NEW sh, NEW sh1, IInv(sh), NEW t \in Threads, Frame(sh, sh1, t),
         \A u \in Threads : u # t /\ pc[u] = "parent" => (root_level' > 0 <=> root_level > 0),
         \A a \in Taken' : sh1.own[a] \in {t, NoThread} \/ (a \in Taken /\ sh1.own[a] = sh.own[a]),
         \A a \in Taken' : sh1.own[a] \in Threads \cup {NoThread},
         \A a \in Taken' : sh1.own[a] = t <=> OwnedBy(sh1, a, t)',
         \A a \in Taken' : sh1.own[a] = t => (Locked(a)' <=> ~OpenFor(a, t)'),
         \A a \in Taken' : sh1.own[a] = NoThread => ~Locked(a)',
         \A a \in Addr \ Taken' : ~Locked(a)',
         \A p \in TakenNodes' : sh1.own[p] \in {t, NoThread} /\ sh1.cnt[p] # bnode'[p].num =>
            sh1.own[p] = t /\ pc'[t] = "count",
         \A a \in Taken' : sh1.own[a] \in {t, NoThread} /\ sh1.end[a] # a =>
            sh1.own[a] = t /\ pc'[t] \in Climbing /\ a = parray'[t][Base(t)'],
         TakenNodes' \subseteq BNodes, TakenNodes' \subseteq Taken'
  PROVE  Owners(sh1)'
<1>1. t # NoThread /\ \A u \in Threads : u # NoThread
  OBVIOUS
<1>2. ASSUME NEW u \in Threads, u # t
      PROVE  /\ \A a : (OwnedBy(sh1, a, u)' <=> OwnedBy(sh, a, u))
                       /\ (OpenFor(a, u)' <=> OpenFor(a, u))
             /\ pc'[u] = pc[u] /\ parray'[u][Base(u)'] = parray[u][Base(u)]
  <2>1. SameLocals(sh, sh1, u)
    BY <1>2 DEF Frame
  <2>2. Base(u)' = Base(u)
    BY <2>1 DEF Base, SameLocals
  <2> QED
    BY <1>2, <2>1, <2>2 DEF OwnedBy, OpenFor, SameLocals, lp, parent
<1>3. ASSUME NEW a \in Taken, NEW u \in Threads, u # t, sh.own[a] = u
      PROVE  Keeps(sh, sh1, a) /\ sh1.own[a] = u
  <2>1. Keeps(sh, sh1, a)
    BY <1>3 DEF Frame
  <2> QED
    BY <1>3, <2>1 DEF Keeps
<1>4. ASSUME NEW a \in Taken', NEW u \in Threads PROVE sh1.own[a] = u <=> OwnedBy(sh1, a, u)'
  <2>1. CASE u = t
    BY <2>1
  <2>2. CASE u # t
    <3>1. ASSUME sh1.own[a] = u PROVE OwnedBy(sh, a, u)
      <4>1. a \in Taken /\ sh.own[a] = u
        BY <2>2, <3>1
      <4> QED
        BY <4>1 DEF IInv, Owners
    <3>2. ASSUME OwnedBy(sh, a, u) PROVE sh1.own[a] = u
      BY <2>2, <3>2, OwnedTaken, <1>3
    <3> QED
      BY <1>2, <2>2, <3>1, <3>2
  <2> QED
    BY <2>1, <2>2
<1>5. ASSUME NEW a \in Taken', sh1.own[a] \notin {t, NoThread}
      PROVE  /\ a \in Taken /\ sh.own[a] = sh1.own[a] /\ Keeps(sh, sh1, a)
             /\ sh1.own[a] \in Threads /\ sh1.own[a] # t
  BY <1>3, <1>5
<1>6. ASSUME NEW a \in Taken'
      PROVE  Locked(a)' <=> sh1.own[a] \in Threads /\ ~OpenFor(a, sh1.own[a])'
  <2>1. CASE sh1.own[a] = t
    BY <2>1
  <2>2. CASE sh1.own[a] = NoThread
    BY <2>2
  <2>3. CASE sh1.own[a] \notin {t, NoThread}
    <3>1. /\ a \in Taken /\ sh.own[a] = sh1.own[a] /\ Keeps(sh, sh1, a)
          /\ sh1.own[a] \in Threads /\ sh1.own[a] # t
      BY <1>5, <2>3
    <3>2. Locked(a) <=> sh.own[a] \in Threads /\ ~OpenFor(a, sh.own[a])
      BY <3>1 DEF IInv, Owners
    <3>3. Locked(a)' <=> Locked(a)
      BY <3>1, TakenTypes DEF Keeps, Locked, Addr, IInv
    <3> QED
      BY <1>2, <3>1, <3>2, <3>3
  <2> QED
    BY <2>1, <2>2, <2>3
<1>7. ASSUME NEW p \in TakenNodes', sh1.cnt[p] # bnode'[p].num
      PROVE  sh1.own[p] \in Threads /\ pc'[sh1.own[p]] = "count"
  <2>1. CASE sh1.own[p] \in {t, NoThread}
    BY <1>7, <2>1
  <2>2. CASE sh1.own[p] \notin {t, NoThread}
    <3>1. /\ p \in Taken /\ sh.own[p] = sh1.own[p] /\ Keeps(sh, sh1, p)
          /\ sh1.own[p] \in Threads /\ sh1.own[p] # t
      BY <1>5, <2>2
    <3>2. p \in TakenNodes /\ sh.cnt[p] # bnode[p].num
      BY <1>7, <3>1, TakenTypes, Addresses DEF Keeps, Taken, IInv
    <3> QED
      BY <1>2, <3>1, <3>2 DEF IInv, Owners
  <2> QED
    BY <2>1, <2>2
<1>8. ASSUME NEW a \in Taken', sh1.end[a] # a
      PROVE  /\ sh1.own[a] \in Threads /\ pc'[sh1.own[a]] \in Climbing
             /\ a = parray'[sh1.own[a]][Base(sh1.own[a])']
  <2>1. CASE sh1.own[a] \in {t, NoThread}
    BY <1>8, <2>1
  <2>2. CASE sh1.own[a] \notin {t, NoThread}
    <3>1. /\ a \in Taken /\ sh.own[a] = sh1.own[a] /\ Keeps(sh, sh1, a)
          /\ sh1.own[a] \in Threads /\ sh1.own[a] # t
      BY <1>5, <2>2
    <3>2. sh.end[a] # a
      BY <1>8, <3>1 DEF Keeps
    <3> QED
      BY <1>2, <3>1, <3>2 DEF IInv, Owners
  <2> QED
    BY <2>1, <2>2
<1> QED
  BY <1>4, <1>6, <1>7, <1>8 DEF Owners

\* A node that keeps its entries still fits if its children look as before.
NodeStays(sh, sh1, p) ==
    /\ bnode'[p].k = bnode[p].k /\ bnode'[p].ch = bnode[p].ch /\ sh1.cnt[p] = sh.cnt[p]
    /\ sh1.lo[p] = sh.lo[p] /\ sh1.hi[p] = sh.hi[p] /\ sh1.lvl[p] = sh.lvl[p]
    /\ \A a \in Taken : a \in Taken' /\ sh1.lvl[a] = sh.lvl[a] /\ sh1.lo[a] = sh.lo[a]
    /\ \A i \in 0 .. sh.cnt[p] :
          sh1.hi[sh1.end[bnode[p].ch[i]]] = sh.hi[sh.end[bnode[p].ch[i]]]

LEMMA NodeFitsKept ==
  ASSUME NEW sh, IInv(sh), NEW sh1, NEW p \in TakenNodes, NodeStays(sh, sh1, p)
  PROVE  NodeFits(sh1, p)'
<1>1. EntriesFit(sh, bnode[p].k, bnode[p].ch, sh.cnt[p], sh.lo[p], sh.hi[p], sh.lvl[p])
  BY DEF IInv, TreeFits, NodeFits
<1>2. PICK k, ch, n, low, high, l : /\ k = bnode[p].k /\ ch = bnode[p].ch /\ n = sh.cnt[p]
                                    /\ low = sh.lo[p] /\ high = sh.hi[p] /\ l = sh.lvl[p]
  OBVIOUS
<1>3. /\ bnode'[p].k = k /\ bnode'[p].ch = ch /\ sh1.cnt[p] = n
      /\ sh1.lo[p] = low /\ sh1.hi[p] = high /\ sh1.lvl[p] = l
      /\ \A a \in Taken : a \in Taken' /\ sh1.lvl[a] = sh.lvl[a] /\ sh1.lo[a] = sh.lo[a]
      /\ \A i \in 0 .. n : sh1.hi[sh1.end[ch[i]]] = sh.hi[sh.end[ch[i]]]
  BY <1>2 DEF NodeStays
<1>4. EntriesFit(sh, k, ch, n, low, high, l)
  BY <1>1, <1>2
<1>5. EntriesFit(sh1, k, ch, n, low, high, l)'
  BY ONLY <1>3, <1>4 DEF EntriesFit
<1> QED
  BY <1>3, <1>5 DEF NodeFits

\* The tree after a step that moves no entry from node to node.
LEMMA SameTreeFits ==
  ASSUME NEW sh, NEW sh1, IInv(sh), UNCHANGED <<tree, pools>>, Growing' <=> Growing,
         sh1.lvl = sh.lvl, sh1.lo = sh.lo, sh1.hi = sh.hi, sh1.cnt = sh.cnt, sh1.end = sh.end,
         \A a \in TakenLeaves :
            /\ leaf'[a].next = leaf[a].next /\ leaf'[a].keys # {}
            /\ \A x \in leaf'[a].keys : sh.lo[a] =< x /\ x < sh.hi[a],
         \A p \in TakenNodes : bnode'[p].k = bnode[p].k /\ bnode'[p].ch = bnode[p].ch
  PROVE  TreeFits(sh1)'
<1>1. TakenLeaves' = TakenLeaves /\ TakenNodes' = TakenNodes /\ Taken' = Taken
  BY DEF TakenLeaves, TakenNodes, Taken, pools
<1>2. TreeFits(sh)
  BY DEF IInv
<1>3. Ranges(sh1)' /\ Levels(sh1)' /\ Root(sh1)'
  BY <1>1, <1>2 DEF TreeFits, Ranges, Levels, Root, tree
<1>4. \A a \in TakenLeaves' : LeafFits(sh1, a)'
  BY <1>1, <1>2 DEF TreeFits, LeafFits, tree
<1>5. ASSUME NEW p \in TakenNodes
      PROVE  NodeFits(sh1, p)'
  <2>1. NodeStays(sh, sh1, p)
    BY <1>1 DEF NodeStays
  <2> QED
    BY <2>1, NodeFitsKept
<1> QED
  BY <1>1, <1>3, <1>4, <1>5 DEF TreeFits

\* The keys and links of the leaves, as the invariant has them.
LEMMA LeavesAsTheyAre ==
  ASSUME NEW sh, IInv(sh), NEW a \in TakenLeaves
  PROVE  /\ leaf[a].keys # {} /\ a \in Leaves /\ a \in Taken
         /\ \A x \in leaf[a].keys : sh.lo[a] =< x /\ x < sh.hi[a]
  BY TakenTypes DEF IInv, TreeFits, LeafFits, Taken

\* Thread t is done with node b.
LEMMA ReleaseStep ==
  ASSUME NEW sh, IInv(sh), NEW t \in Threads, NEW b \in Taken, sh.own[b] = t,
         pc[t] \in {"insert", "leafDel", "count", "unlockOld", "unlockNew"},
         pc'[t] \in {"idle", "unlockNew"},
         UNCHANGED <<tree, pools>>,
         \A u \in Threads : u # t => SameLocals(sh, sh, u),
         TypeOK', LocalTypes',
         \A a \in Leaves : a # b => leaf'[a] = leaf[a],
         \A p \in BNodes : p # b => bnode'[p] = bnode[p],
         ~Locked(b)',
         b \in Leaves => /\ leaf'[b].next = leaf[b].next /\ leaf'[b].keys # {}
                         /\ \A x \in leaf'[b].keys : sh.lo[b] =< x /\ x < sh.hi[b],
         b \in BNodes => /\ bnode'[b].k = bnode[b].k /\ bnode'[b].ch = bnode[b].ch
                         /\ bnode'[b].num = sh.cnt[b],
         \A a \in Taken : OwnedBy(sh, a, t)' <=> OwnedBy(sh, a, t) /\ a # b,
         pc'[t] = "unlockNew" => ptr'[t] \in TakenNodes
  PROVE  \E sh1 : IInv(sh1)'
<1> DEFINE own1 == [sh.own EXCEPT ![b] = NoThread]
           sh1  == Reown(sh, own1, sh.top)
<1> SUFFICES IInv(sh1)'
  OBVIOUS
<1>1. /\ sh.own \in [Addr -> Threads \cup {NoThread}] /\ sh \in ShapeType
      /\ sh.top \in [Threads -> 0 .. MaxLevel]
  BY ShapeTypes DEF IInv
<1>2. Taken \subseteq Addr /\ TakenNodes \subseteq BNodes /\ TakenLeaves \subseteq Leaves
      /\ TakenNodes \subseteq Taken /\ TakenLeaves \subseteq Taken
  BY TakenTypes DEF IInv, Taken
<1>3. /\ own1 \in [Addr -> Threads \cup {NoThread}] /\ own1[b] = NoThread
      /\ \A a \in Addr : a # b => own1[a] = sh.own[a]
  BY <1>1, <1>2
<1>4. /\ sh1.lvl = sh.lvl /\ sh1.lo = sh.lo /\ sh1.hi = sh.hi /\ sh1.cnt = sh.cnt
      /\ sh1.end = sh.end /\ sh1.own = own1 /\ sh1.top = sh.top /\ sh1 \in ShapeType
  BY <1>1, <1>3, ReownFields
<1> HIDE DEF own1, sh1
<1>5. TakenLeaves' = TakenLeaves /\ TakenNodes' = TakenNodes /\ Taken' = Taken
  BY DEF TakenLeaves, TakenNodes, Taken, pools
<1>6. Growing' <=> Growing
  <2>1. pc[t] # "growRoot" /\ pc'[t] # "growRoot"
    OBVIOUS
  <2> QED
    BY <2>1 DEF Growing, SameLocals
<1>7. \A u \in Threads : u # t => SameLocals(sh, sh1, u)
  BY <1>4 DEF SameLocals
<1>8. \A u \in Threads : u # NoThread
  OBVIOUS
<1>9. \A a \in Taken : a # b => Keeps(sh, sh1, a)
  BY <1>2, <1>3, <1>4, <1>5 DEF Keeps
<1>10. Frame(sh, sh1, t) /\ SameRoot
  BY <1>4, <1>5, <1>6, <1>7, <1>9 DEF Frame, SameRoot, tree
<1>11. \A u \in Threads : u # t => ThreadOK(sh1, u)'
  BY <1>10, OthersStay
<1>12. ThreadOK(sh1, t)'
  <2>1. pc'[t] \notin Splitting /\ pc'[t] \notin Climbing
    BY DEF Splitting, Climbing
  <2> QED
    BY <1>5, <2>1 DEF ThreadOK, SearchOK, LeafCallOK, PathOK, SplitOK, GrowOK
<1>13. TreeFits(sh1)'
  <2>1. \A a \in TakenLeaves :
            /\ leaf'[a].next = leaf[a].next /\ leaf'[a].keys # {}
            /\ \A x \in leaf'[a].keys : sh.lo[a] =< x /\ x < sh.hi[a]
    BY <1>2, LeavesAsTheyAre
  <2>2. \A p \in TakenNodes : bnode'[p].k = bnode[p].k /\ bnode'[p].ch = bnode[p].ch
    BY <1>2
  <2> QED
    BY <1>4, <1>6, <2>1, <2>2, SameTreeFits
<1>14. Owners(sh1)'
  <2>1. \A a \in Taken' : sh1.own[a] \in {t, NoThread} \/ (a \in Taken /\ sh1.own[a] = sh.own[a])
    BY <1>2, <1>3, <1>4, <1>5
  <2>2. \A a \in Taken' : sh1.own[a] \in Threads \cup {NoThread}
    BY <1>2, <1>3, <1>4, <1>5
  <2>3. \A a \in Taken : OwnedBy(sh1, a, t)' <=> OwnedBy(sh, a, t)'
    BY <1>4 DEF OwnedBy
  <2>4. \A a \in Taken' : sh1.own[a] = t <=> OwnedBy(sh1, a, t)'
    <3> SUFFICES ASSUME NEW a \in Taken PROVE sh1.own[a] = t <=> OwnedBy(sh1, a, t)'
      BY <1>5
    <3>1. sh.own[a] = t <=> OwnedBy(sh, a, t)
      BY DEF IInv, Owners
    <3>2. CASE a = b
      BY <1>3, <1>4, <1>8, <2>3, <3>2
    <3>3. CASE a # b
      BY <1>2, <1>3, <1>4, <2>3, <3>1, <3>3
    <3> QED
      BY <3>2, <3>3
  <2>5. \A a : ~OpenFor(a, t) /\ ~OpenFor(a, t)'
    BY DEF OpenFor, Climbing
  <2>6. \A a \in Taken' : (sh1.own[a] = t => (Locked(a)' <=> ~OpenFor(a, t)'))
                          /\ (sh1.own[a] = NoThread => ~Locked(a)')
    <3> SUFFICES ASSUME NEW a \in Taken
                 PROVE (sh1.own[a] = t => (Locked(a)' <=> ~OpenFor(a, t)'))
                       /\ (sh1.own[a] = NoThread => ~Locked(a)')
      BY <1>5
    <3>1. CASE a = b
      BY <1>3, <1>4, <1>8, <3>1
    <3>2. CASE a # b
      <4>1. Locked(a)' <=> Locked(a)
        BY <1>2, <3>2 DEF Locked, Addr
      <4>2. sh1.own[a] = sh.own[a]
        BY <1>2, <1>3, <1>4, <3>2
      <4>3. Locked(a) <=> sh.own[a] \in Threads /\ ~OpenFor(a, sh.own[a])
        BY DEF IInv, Owners
      <4> QED
        BY <1>8, <2>5, <4>1, <4>2, <4>3
    <3> QED
      BY <3>1, <3>2
  <2>7. \A a \in Addr \ Taken' : ~Locked(a)'
    <3> SUFFICES ASSUME NEW a \in Addr \ Taken PROVE ~Locked(a)'
      BY <1>5
    <3>1. ~Locked(a) /\ a # b
      BY DEF IInv, Owners
    <3> QED
      BY <3>1 DEF Locked, Addr
  <2>8. \A p \in TakenNodes' : sh1.own[p] \in {t, NoThread} /\ sh1.cnt[p] # bnode'[p].num =>
            sh1.own[p] = t /\ pc'[t] = "count"
    <3> SUFFICES ASSUME NEW p \in TakenNodes, sh1.own[p] \in {t, NoThread},
                        sh1.cnt[p] # bnode'[p].num
                 PROVE  FALSE
      BY <1>5
    <3>1. p \in Taken /\ p \in BNodes
      BY <1>2
    <3>2. p # b /\ sh1.own[p] = sh.own[p] /\ sh.cnt[p] # bnode[p].num
      BY <1>2, <1>3, <1>4, <3>1
    <3>3. sh.own[p] \in Threads /\ pc[sh.own[p]] = "count"
      BY <3>2 DEF IInv, Owners
    <3>4. sh.own[p] = t /\ pc[t] = "count"
      BY <1>8, <3>2, <3>3
    <3>5. OwnedBy(sh, p, t) /\ OwnedBy(sh, b, t)
      BY <3>1, <3>4 DEF IInv, Owners
    <3>6. p = parent(t) /\ b = parent(t)
      BY <3>4, <3>5 DEF OwnedBy, Splitting, Climbing
    <3> QED
      BY <3>2, <3>6
  <2>9. \A a \in Taken' : sh1.own[a] \in {t, NoThread} /\ sh1.end[a] # a =>
            sh1.own[a] = t /\ pc'[t] \in Climbing /\ a = parray'[t][Base(t)']
    <3> SUFFICES ASSUME NEW a \in Taken, sh1.own[a] \in {t, NoThread}, sh1.end[a] # a
                 PROVE  FALSE
      BY <1>5
    <3>1. sh.own[a] \in Threads /\ pc[sh.own[a]] \in Climbing
      BY <1>4 DEF IInv, Owners
    <3>2. pc[t] \notin Climbing
      BY DEF Climbing
    <3>3. a # b /\ sh1.own[a] = sh.own[a]
      BY <1>2, <1>3, <1>4, <3>1, <3>2
    <3> QED
      BY <1>8, <3>1, <3>2, <3>3
  <2>10. root_level' = root_level
    BY DEF tree
  <2> QED
    BY <1>2, <1>5, <1>10, <2>1, <2>2, <2>4, <2>6, <2>7, <2>8, <2>9, <2>10, OwnersStep
<1> QED
  BY <1>4, <1>11, <1>12, <1>13, <1>14 DEF IInv

\* A call that only writes its leaf: it puts the keys ks there, unlocks it
\* and returns.
LEMMA LeafReleased ==
  ASSUME NEW sh, IInv(sh), NEW t \in Threads, pc[t] \in {"insert", "leafDel"},
         NEW ks \in SUBSET Keys, ks # {},
         \A x \in ks : sh.lo[lp(t)] =< x /\ x < sh.hi[lp(t)],
         leaf' = [leaf EXCEPT ![lp(t)].keys = ks, ![lp(t)].lock = FALSE],
         Return(t), UNCHANGED <<tree_lock, tree, bnode, pools>>
  PROVE  \E sh1 : IInv(sh1)'
<1> PICK b : b = lp(t)
  OBVIOUS
<1>1. CallTypes /\ TreeTypes /\ LockTypes
  BY TypesSplit DEF IInv
<1>2. b \in TakenLeaves /\ b \in Leaves /\ b \in Taken /\ b \notin BNodes
  BY TakenTypes, Addresses DEF IInv, ThreadOK, LeafCallOK, Taken
<1>3. sh.own[b] = t
  BY <1>2, Owned
<1>4. /\ leaf' \in [Leaves -> LeafType] /\ leaf'[b].keys = ks /\ leaf'[b].lock = FALSE
      /\ leaf'[b].next = leaf[b].next
      /\ \A a \in Leaves : a # b => leaf'[a] = leaf[a]
  BY <1>1, <1>2 DEF TreeTypes, LeafType
<1>5. CallTypes' /\ pc'[t] = "idle"
  BY <1>1, ReturnTypes
<1>6. TreeTypes'
  BY <1>1, <1>4 DEF TreeTypes, tree, pools
<1>7. LockTypes'
  BY <1>1 DEF LockTypes, Part1, CallTypes, Return
<1>8. \A u \in Threads : u # t => SameLocals(sh, sh, u)
  BY <1>1, ReturnLocals
<1>9. \A a \in Taken : OwnedBy(sh, a, t)' <=> OwnedBy(sh, a, t) /\ a # b
  BY <1>5 DEF OwnedBy, Splitting, Climbing
<1>10. ~Locked(b)'
  BY <1>2, <1>4 DEF Locked
<1>11. TypeOK' /\ LocalTypes'
  BY <1>5, <1>6, <1>7, TypesAfter
<1> QED
  BY <1>2, <1>3, <1>4, <1>5, <1>8, <1>9, <1>10, <1>11, ReleaseStep

\* An insert into a leaf with room keeps the invariant.
LEMMA InsertEntryKeeps ==
  ASSUME NEW sh, IInv(sh), NEW t \in Threads, InsertEntry(t)
  PROVE  \E sh1 : IInv(sh1)'
<1> DEFINE ks == leaf[lp(t)].keys \cup {key[t]}
<1>1. pc[t] = "insert" /\ Return(t) /\ UNCHANGED <<tree_lock, tree, bnode, pools>>
  BY DEF InsertEntry
<1>2. /\ lp(t) \in TakenLeaves /\ sh.lo[lp(t)] =< key[t] /\ key[t] < sh.hi[lp(t)]
      /\ key[t] \in Keys
  BY <1>1 DEF IInv, ThreadOK, LeafCallOK, LocalTypes
<1>3. /\ lp(t) \in Leaves /\ leaf[lp(t)].keys \subseteq Keys
      /\ \A x \in leaf[lp(t)].keys : sh.lo[lp(t)] =< x /\ x < sh.hi[lp(t)]
  BY <1>2, LeavesAsTheyAre, LeafTypes DEF IInv
<1>4. ks \in SUBSET Keys /\ ks # {} /\ \A x \in ks : sh.lo[lp(t)] =< x /\ x < sh.hi[lp(t)]
  BY <1>2, <1>3
<1>5. leaf' = [leaf EXCEPT ![lp(t)].keys = ks, ![lp(t)].lock = FALSE]
  BY DEF InsertEntry
<1> QED
  BY <1>1, <1>4, <1>5, LeafReleased

\* A deletion that leaves the leaf a key keeps the invariant.
LEMMA DeleteEntryKeeps ==
  ASSUME NEW sh, IInv(sh), NEW t \in Threads, DeleteEntry(t)
  PROVE  \E sh1 : IInv(sh1)'
<1> DEFINE ks == leaf[lp(t)].keys \ {key[t]}
<1>1. pc[t] = "leafDel" /\ Return(t) /\ UNCHANGED <<tree_lock, tree, bnode, pools>>
  BY DEF DeleteEntry
<1>2. /\ lp(t) \in TakenLeaves /\ key[t] \in leaf[lp(t)].keys
      /\ Cardinality(leaf[lp(t)].keys) # 1
  BY <1>1 DEF IInv, ThreadOK, LeafCallOK
<1>3. /\ lp(t) \in Leaves /\ leaf[lp(t)].keys \subseteq Keys
      /\ \A x \in leaf[lp(t)].keys : sh.lo[lp(t)] =< x /\ x < sh.hi[lp(t)]
  BY <1>2, LeavesAsTheyAre, LeafTypes DEF IInv
<1>4. ks # {}
  <2>1. ks = {} => leaf[lp(t)].keys = {key[t]}
    BY <1>2
  <2> QED
    BY <1>2, <2>1, FS_Singleton
<1>5. ks \in SUBSET Keys /\ \A x \in ks : sh.lo[lp(t)] =< x /\ x < sh.hi[lp(t)]
  BY <1>3
<1>6. leaf' = [leaf EXCEPT ![lp(t)].keys = ks, ![lp(t)].lock = FALSE]
  BY DEF DeleteEntry
<1> QED
  BY <1>1, <1>4, <1>5, <1>6, LeafReleased

\* The new num shows the entry shifted in, and unlocks the parent.
LEMMA ParentCountKeeps ==
  ASSUME NEW sh, IInv(sh), NEW t \in Threads, ParentCount(t)
  PROVE  \E sh1 : IInv(sh1)'
<1> PICK b : b = parent(t)
  OBVIOUS
<1>1. CallTypes /\ TreeTypes /\ LockTypes
  BY TypesSplit DEF IInv
<1>2. /\ pc[t] = "count" /\ Return(t) /\ UNCHANGED <<tree_lock, tree, leaf, pools>>
      /\ bnode' = [bnode EXCEPT ![b].num = @ + 1, ![b].lock = FALSE]
  BY DEF ParentCount
<1>3. b \in TakenNodes /\ sh.cnt[b] = bnode[b].num + 1
  BY <1>2 DEF IInv, ThreadOK, SplitOK
<1>4. b \in BNodes /\ b \in Taken /\ b \notin Leaves /\ sh.cnt[b] \in 0 .. NON_LEAF_KEY_NUM
  BY <1>3, CountType, Addresses
<1>5. sh.own[b] = t
  BY <1>2, <1>4, Owned
<1>6. /\ bnode' \in [BNodes -> NodeType] /\ bnode'[b].num = sh.cnt[b]
      /\ bnode'[b].lock = FALSE
      /\ bnode'[b].k = bnode[b].k /\ bnode'[b].ch = bnode[b].ch
      /\ \A p \in BNodes : p # b => bnode'[p] = bnode[p]
  <2> DEFINE n == bnode[b].num + 1
  <2>1. bnode \in [BNodes -> NodeType] /\ bnode[b] \in NodeType
    BY <1>1, <1>4 DEF TreeTypes
  <2>2. n \in 0 .. NON_LEAF_KEY_NUM /\ n = sh.cnt[b]
    BY <1>3, <1>4
  <2>3. bnode' = [bnode EXCEPT ![b].num = n, ![b].lock = FALSE]
    BY <1>2
  <2> HIDE DEF n
  <2>4. [bnode[b] EXCEPT !.num = n, !.lock = FALSE] \in NodeType
    BY <2>1, <2>2 DEF NodeType
  <2>5. bnode' = [bnode EXCEPT ![b] = [bnode[b] EXCEPT !.num = n, !.lock = FALSE]]
    BY <2>1, <2>3, <1>4
  <2>6. bnode' \in [BNodes -> NodeType] /\ bnode'[b] = [bnode[b] EXCEPT !.num = n, !.lock = FALSE]
        /\ \A p \in BNodes : p # b => bnode'[p] = bnode[p]
    BY <1>4, <2>1, <2>4, <2>5
  <2> QED
    BY <2>1, <2>2, <2>6 DEF NodeType
<1>7. CallTypes' /\ pc'[t] = "idle"
  BY <1>1, <1>2, ReturnTypes
<1>8. TreeTypes'
  BY <1>1, <1>2, <1>6 DEF TreeTypes, tree, pools
<1>9. LockTypes'
  BY <1>1, <1>2 DEF LockTypes, Part1, CallTypes, Return
<1>10. \A u \in Threads : u # t => SameLocals(sh, sh, u)
  BY <1>1, <1>2, ReturnLocals
<1>11. \A a \in Taken : OwnedBy(sh, a, t)' <=> OwnedBy(sh, a, t) /\ a # b
  BY <1>2, <1>7 DEF OwnedBy, Splitting, Climbing
<1>12. ~Locked(b)'
  BY <1>4, <1>6 DEF Locked
<1>13. TypeOK' /\ LocalTypes'
  BY <1>7, <1>8, <1>9, TypesAfter
<1> QED
  BY <1>2, <1>4, <1>5, <1>6, <1>7, <1>10, <1>11, <1>12, <1>13, ReleaseStep

\* The new root is unlocked last.
LEMMA UnlockNewRootKeeps ==
  ASSUME NEW sh, IInv(sh), NEW t \in Threads, UnlockNewRoot(t)
  PROVE  \E sh1 : IInv(sh1)'
<1> PICK b : b = ptr[t]
  OBVIOUS
<1>1. CallTypes /\ TreeTypes /\ LockTypes
  BY TypesSplit DEF IInv
<1>2. /\ pc[t] = "unlockNew" /\ Return(t) /\ UNCHANGED <<tree_lock, tree, leaf, pools>>
      /\ bnode' = [bnode EXCEPT ![b].lock = FALSE]
  BY DEF UnlockNewRoot
<1>3. b \in TakenNodes
  BY <1>2 DEF IInv, ThreadOK, GrowOK
<1>4. b \in BNodes /\ b \in Taken /\ b \notin Leaves
  BY <1>3, CountType, Addresses
<1>5. sh.own[b] = t
  BY <1>2, <1>4, Owned
<1>6. sh.cnt[b] = bnode[b].num
  BY <1>2, <1>3, <1>5 DEF IInv, Owners
<1>7. /\ bnode' \in [BNodes -> NodeType] /\ bnode'[b].num = bnode[b].num
      /\ bnode'[b].lock = FALSE
      /\ bnode'[b].k = bnode[b].k /\ bnode'[b].ch = bnode[b].ch
      /\ \A p \in BNodes : p # b => bnode'[p] = bnode[p]
  BY <1>1, <1>2, <1>4, ZenonT(60) DEF TreeTypes, NodeType
<1>8. CallTypes' /\ pc'[t] = "idle"
  BY <1>1, <1>2, ReturnTypes
<1>9. TreeTypes'
  BY <1>1, <1>2, <1>7 DEF TreeTypes, tree, pools
<1>10. LockTypes'
  BY <1>1, <1>2 DEF LockTypes, Part1, CallTypes, Return
<1>11. \A u \in Threads : u # t => SameLocals(sh, sh, u)
  BY <1>1, <1>2, ReturnLocals
<1>12. \A a \in Taken : OwnedBy(sh, a, t)' <=> OwnedBy(sh, a, t) /\ a # b
  BY <1>2, <1>8 DEF OwnedBy, Splitting, Climbing
<1>13. ~Locked(b)'
  BY <1>4, <1>7 DEF Locked
<1>14. TypeOK' /\ LocalTypes'
  BY <1>8, <1>9, <1>10, TypesAfter
<1> QED
  BY <1>2, <1>4, <1>5, <1>6, <1>7, <1>8, <1>11, <1>12, <1>13, <1>14, ReleaseStep

\* The old root is unlocked when no search can have read it.
LEMMA UnlockOldRootKeeps ==
  ASSUME NEW sh, IInv(sh), NEW t \in Threads, UnlockOldRoot(t)
  PROVE  \E sh1 : IInv(sh1)'
<1> PICK b : b = cur[t]
  OBVIOUS
<1>1. CallTypes /\ TreeTypes /\ LockTypes
  BY TypesSplit DEF IInv
<1>2. /\ pc[t] = "unlockOld" /\ pc' = [pc EXCEPT ![t] = "unlockNew"] /\ pc'[t] = "unlockNew"
      /\ UNCHANGED <<tree_lock, tree, pools, locals>>
  BY <1>1 DEF UnlockOldRoot, Goto, CallTypes
<1>3. /\ b \in Taken /\ ptr[t] \in TakenNodes /\ b # ptr[t]
      /\ b \in Addr
  BY <1>2, TakenTypes DEF IInv, ThreadOK, GrowOK
<1>4. sh.own[b] = t
  BY <1>2, <1>3, Owned
<1>5. /\ leaf' \in [Leaves -> LeafType] /\ bnode' \in [BNodes -> NodeType]
      /\ ~Locked(b)'
      /\ \A a \in Leaves : a # b => leaf'[a] = leaf[a]
      /\ \A p \in BNodes : p # b => bnode'[p] = bnode[p]
      /\ b \in Leaves => leaf'[b].keys = leaf[b].keys /\ leaf'[b].next = leaf[b].next
      /\ b \in BNodes => /\ bnode'[b].num = bnode[b].num
                         /\ bnode'[b].k = bnode[b].k /\ bnode'[b].ch = bnode[b].ch
  <2>1. CASE total[t] > 0
    <3>1. b \in BNodes /\ b \notin Leaves /\ bnode' = [bnode EXCEPT ![b].lock = FALSE]
          /\ UNCHANGED leaf
      BY <2>1, Addresses DEF UnlockOldRoot
    <3>2. /\ bnode' \in [BNodes -> NodeType] /\ bnode'[b].lock = FALSE
          /\ \A p \in BNodes : p # b => bnode'[p] = bnode[p]
          /\ bnode'[b].num = bnode[b].num
          /\ bnode'[b].k = bnode[b].k /\ bnode'[b].ch = bnode[b].ch
      BY <1>1, <3>1, ZenonT(60) DEF TreeTypes, NodeType
    <3> QED
      BY <1>1, <3>1, <3>2 DEF TreeTypes, Locked
  <2>2. CASE ~(total[t] > 0)
    <3>1. b \in Leaves /\ b \notin BNodes /\ leaf' = [leaf EXCEPT ![b].lock = FALSE]
          /\ UNCHANGED bnode
      BY <2>2, Addresses DEF UnlockOldRoot
    <3>2. /\ leaf' \in [Leaves -> LeafType] /\ leaf'[b].lock = FALSE
          /\ \A a \in Leaves : a # b => leaf'[a] = leaf[a]
          /\ leaf'[b].keys = leaf[b].keys /\ leaf'[b].next = leaf[b].next
      <4>1. leaf \in [Leaves -> LeafType] /\ leaf[b] \in LeafType
        BY <1>1, <3>1 DEF TreeTypes
      <4>2. [leaf[b] EXCEPT !.lock = FALSE] \in LeafType
        BY <4>1 DEF LeafType
      <4>3. leaf' = [leaf EXCEPT ![b] = [leaf[b] EXCEPT !.lock = FALSE]]
        BY <3>1, <4>1
      <4>4. leaf' \in [Leaves -> LeafType] /\ leaf'[b] = [leaf[b] EXCEPT !.lock = FALSE]
            /\ \A a \in Leaves : a # b => leaf'[a] = leaf[a]
        BY <3>1, <4>1, <4>2, <4>3
      <4> QED
        BY <4>1, <4>4 DEF LeafType
    <3> QED
      BY <1>1, <3>1, <3>2 DEF TreeTypes, Locked
  <2> QED
    BY <2>1, <2>2
<1>6. CallTypes'
  BY <1>1, <1>2 DEF CallTypes, locals, call, path, up, Stages
<1>7. TreeTypes'
  BY <1>1, <1>2, <1>5 DEF TreeTypes, tree, pools
<1>8. LockTypes'
  BY <1>1, <1>2 DEF LockTypes, Part1, CallTypes
<1>9. \A u \in Threads : u # t => SameLocals(sh, sh, u)
  BY <1>1, <1>2 DEF SameLocals, CallTypes, locals, call, path, up
<1>10. cur'[t] = cur[t] /\ ptr'[t] = ptr[t]
  BY <1>2 DEF locals, up
<1>11. \A a \in Taken : OwnedBy(sh, a, t)' <=> OwnedBy(sh, a, t) /\ a # b
  BY <1>2, <1>3, <1>10 DEF OwnedBy, Splitting, Climbing
<1>12. TypeOK' /\ LocalTypes'
  BY <1>6, <1>7, <1>8, TypesAfter
<1>13. b \in BNodes => bnode'[b].num = sh.cnt[b]
  <2>1. b \in BNodes => b \in TakenNodes
    BY <1>3, TakenTypes, Addresses DEF IInv, Taken
  <2>2. b \in TakenNodes => sh.cnt[b] = bnode[b].num
    BY <1>2, <1>4 DEF IInv, Owners
  <2> QED
    BY <1>5, <2>1, <2>2
<1>14. b \in Leaves => /\ leaf'[b].next = leaf[b].next /\ leaf'[b].keys # {}
                       /\ \A x \in leaf'[b].keys : sh.lo[b] =< x /\ x < sh.hi[b]
  <2>1. b \in Leaves => b \in TakenLeaves
    BY <1>3, TakenTypes, Addresses DEF IInv, Taken
  <2> QED
    BY <1>5, <2>1, LeavesAsTheyAre
<1> QED
  BY <1>2, <1>3, <1>4, <1>5, <1>9, <1>10, <1>11, <1>12, <1>13, <1>14, ReleaseStep

-----------------------------------------------------------------------------
(***************************************************************************)
(* The steps that end Part 1 with nodes locked.                            *)
(***************************************************************************)
\* Thread t, at its leaf, locks the nodes S, which are nobody's, and lets go
\* of the mutex.
LEMMA AcquireStep ==
  ASSUME NEW sh, IInv(sh), NEW t \in Threads, NEW S \in SUBSET Taken, NEW s \in 0 .. MaxLevel,
         NEW sh1, sh1 = Reown(sh, [a \in Addr |-> IF a \in S THEN t ELSE sh.own[a]],
                              [sh.top EXCEPT ![t] = s]),
         pc[t] = "descend", pc'[t] \in {"insert", "split", "leafDel"},
         \A a \in S : sh.own[a] = NoThread,
         UNCHANGED <<tree, pools>>,
         \A u \in Threads : u # t => SameLocals(sh, sh, u),
         TypeOK', LocalTypes',
         \A a \in Leaves : a \notin S => leaf'[a] = leaf[a],
         \A p \in BNodes : p \notin S => bnode'[p] = bnode[p],
         \A a \in S : Locked(a)',
         \A a \in Leaves : leaf'[a].keys = leaf[a].keys /\ leaf'[a].next = leaf[a].next,
         \A p \in BNodes : /\ bnode'[p].num = bnode[p].num /\ bnode'[p].k = bnode[p].k
                           /\ bnode'[p].ch = bnode[p].ch,
         \A a \in Taken : OwnedBy(sh1, a, t)' <=> a \in S,
         LeafCallOK(sh1, t)', PathOK(sh1, t)'
  PROVE  IInv(sh1)'
<1> DEFINE own1 == [a \in Addr |-> IF a \in S THEN t ELSE sh.own[a]]
<1>1. /\ sh.own \in [Addr -> Threads \cup {NoThread}] /\ sh \in ShapeType
      /\ sh.top \in [Threads -> 0 .. MaxLevel]
  BY ShapeTypes DEF IInv
<1>2. Taken \subseteq Addr /\ TakenNodes \subseteq BNodes /\ TakenLeaves \subseteq Leaves
      /\ TakenNodes \subseteq Taken /\ TakenLeaves \subseteq Taken
  BY TakenTypes DEF IInv, Taken
<1>3. /\ own1 \in [Addr -> Threads \cup {NoThread}]
      /\ \A a \in Addr : own1[a] = IF a \in S THEN t ELSE sh.own[a]
  BY <1>1
<1>4. /\ sh1.lvl = sh.lvl /\ sh1.lo = sh.lo /\ sh1.hi = sh.hi /\ sh1.cnt = sh.cnt
      /\ sh1.end = sh.end /\ sh1.own = own1 /\ sh1.top = [sh.top EXCEPT ![t] = s]
      /\ sh1 \in ShapeType
  BY <1>1, <1>3, ReownFields
<1> HIDE DEF own1
<1>5. TakenLeaves' = TakenLeaves /\ TakenNodes' = TakenNodes /\ Taken' = Taken
  BY DEF TakenLeaves, TakenNodes, Taken, pools
<1>6. Growing' <=> Growing
  <2>1. pc[t] # "growRoot" /\ pc'[t] # "growRoot"
    OBVIOUS
  <2> QED
    BY <2>1 DEF Growing, SameLocals
<1>7. \A u \in Threads : u # t => SameLocals(sh, sh1, u)
  BY <1>1, <1>4 DEF SameLocals
<1>8. \A u \in Threads : u # NoThread
  OBVIOUS
<1>9. \A a \in Taken \ S : Keeps(sh, sh1, a)
  BY <1>2, <1>3, <1>4, <1>5 DEF Keeps
<1>10. tree_lock = t
  BY DEF IInv, LocalTypes, Part1
<1>11. Frame(sh, sh1, t) /\ SameRoot
  BY <1>4, <1>5, <1>6, <1>7, <1>9, <1>10 DEF Frame, SameRoot, tree
<1>12. \A u \in Threads : u # t => ThreadOK(sh1, u)'
  BY <1>11, OthersStay
<1>13. ThreadOK(sh1, t)'
  <2>1. pc'[t] \notin Climbing
    BY DEF Climbing
  <2> QED
    BY <2>1 DEF ThreadOK, SearchOK, SplitOK, GrowOK
<1>14. TreeFits(sh1)'
  <2>1. \A a \in TakenLeaves :
            /\ leaf'[a].next = leaf[a].next /\ leaf'[a].keys # {}
            /\ \A x \in leaf'[a].keys : sh.lo[a] =< x /\ x < sh.hi[a]
    BY <1>2, LeavesAsTheyAre
  <2>2. \A p \in TakenNodes : bnode'[p].k = bnode[p].k /\ bnode'[p].ch = bnode[p].ch
    BY <1>2
  <2> QED
    BY <1>4, <1>6, <2>1, <2>2, SameTreeFits
<1>15. Owners(sh1)'
  <2>1. \A a \in Taken : ~OwnedBy(sh, a, t)
    BY DEF OwnedBy, Splitting, Climbing
  <2>2. \A a \in Taken : sh.own[a] # t
    BY <2>1 DEF IInv, Owners
  <2>3. \A a \in Taken' : sh1.own[a] = IF a \in S THEN t ELSE sh.own[a]
    BY <1>2, <1>3, <1>4, <1>5
  <2>4. \A a \in Taken' : sh1.own[a] \in Threads \cup {NoThread}
    BY <1>1, <1>2, <1>5, <2>3
  <2>5. \A a \in Taken' : sh1.own[a] = t <=> OwnedBy(sh1, a, t)'
    BY <1>5, <2>2, <2>3
  <2>6. \A a : ~OpenFor(a, t)'
    BY DEF OpenFor, Climbing
  <2>7. \A a \in Taken' : sh1.own[a] = t => (Locked(a)' <=> ~OpenFor(a, t)')
    BY <1>5, <2>2, <2>3, <2>6
  <2>8. \A a \in Taken' : sh1.own[a] = NoThread => ~Locked(a)'
    <3> SUFFICES ASSUME NEW a \in Taken, sh1.own[a] = NoThread PROVE ~Locked(a)'
      BY <1>5
    <3>1. a \notin S /\ sh.own[a] = NoThread
      BY <1>5, <1>8, <2>3
    <3>2. Locked(a)' <=> Locked(a)
      BY <1>2, <3>1 DEF Locked, Addr
    <3> QED
      BY <1>8, <3>1, <3>2 DEF IInv, Owners
  <2>9. \A a \in Addr \ Taken' : ~Locked(a)'
    <3> SUFFICES ASSUME NEW a \in Addr \ Taken PROVE ~Locked(a)'
      BY <1>5
    <3>1. ~Locked(a) /\ a \notin S
      BY DEF IInv, Owners
    <3> QED
      BY <3>1 DEF Locked, Addr
  <2>10. \A p \in TakenNodes' : sh1.cnt[p] # bnode'[p].num => sh1.own[p] \notin {t, NoThread}
    <3> SUFFICES ASSUME NEW p \in TakenNodes, sh1.cnt[p] # bnode'[p].num
                 PROVE  sh1.own[p] \notin {t, NoThread}
      BY <1>5
    <3>1. sh.cnt[p] # bnode[p].num /\ p \in Taken
      BY <1>2, <1>4
    <3>2. sh.own[p] \in Threads
      BY <3>1 DEF IInv, Owners
    <3> QED
      BY <1>5, <1>8, <2>2, <2>3, <3>1, <3>2
  <2>11. \A a \in Taken' : sh1.end[a] # a => sh1.own[a] \notin {t, NoThread}
    <3> SUFFICES ASSUME NEW a \in Taken, sh1.end[a] # a
                 PROVE  sh1.own[a] \notin {t, NoThread}
      BY <1>5
    <3>1. sh.own[a] \in Threads
      BY <1>4 DEF IInv, Owners
    <3> QED
      BY <1>5, <1>8, <2>2, <2>3, <3>1
  <2>12. root_level' = root_level
    BY DEF tree
  <2> QED
    BY <1>2, <1>5, <1>11, <2>3, <2>4, <2>5, <2>7, <2>8, <2>9, <2>10, <2>11, <2>12, OwnersStep
<1> QED
  BY <1>4, <1>12, <1>13, <1>14, <1>15 DEF IInv

\* What a call knows of its leaf when it stands before it and finds it open.
LEMMA AtLeafKnows ==
  ASSUME NEW sh, IInv(sh), NEW t \in Threads, AtLeaf(t), ~leaf[cur[t]].lock
  PROVE  /\ pc[t] = "descend" /\ lev[t] = 0 /\ cur[t] \in TakenLeaves /\ cur[t] \in Leaves
         /\ Found(sh, t) /\ sh.own[cur[t]] = NoThread /\ sh.lvl[cur[t]] = 0
         /\ key[t] \in Keys /\ sh.lo[cur[t]] =< key[t] /\ key[t] < sh.hi[cur[t]]
<1>1. pc[t] = "descend" /\ lev[t] = 0 /\ cur[t] \in Leaves
  BY DEF AtLeaf
<1>2. ~Locked(cur[t])
  BY <1>1 DEF Locked
<1>3. /\ Found(sh, t) /\ sh.own[cur[t]] = NoThread
      /\ key[t] \in Keys /\ sh.lo[cur[t]] =< key[t] /\ key[t] < sh.hi[cur[t]]
  BY <1>1, <1>2, InRange
<1>4. cur[t] \in Taken /\ sh.lvl[cur[t]] = 0
  BY <1>1, <1>3 DEF Found
<1>5. cur[t] \in TakenLeaves
  BY <1>4, Numbers
<1> QED
  BY <1>1, <1>3, <1>4, <1>5

\* A call that locks its leaf and no other node.
LEMMA LeafAcquired ==
  ASSUME NEW sh, IInv(sh), NEW t \in Threads, AtLeaf(t), ~leaf[cur[t]].lock,
         NEW stage \in {"insert", "leafDel"}, Goto(t, stage),
         leaf' = [leaf EXCEPT ![cur[t]].lock = TRUE],
         parray' = [parray EXCEPT ![t][0] = cur[t]],
         tree_lock' = NoThread,
         stage = "leafDel" => key[t] \in leaf[cur[t]].keys /\ Cardinality(leaf[cur[t]].keys) # 1,
         UNCHANGED <<tree, bnode, pools, call, cur, lev, ppos, sib, up>>
  PROVE  \E sh1 : IInv(sh1)'
<1> PICK c : c = cur[t]
  OBVIOUS
<1> DEFINE sh1 == Reown(sh, [a \in Addr |-> IF a \in {c} THEN t ELSE sh.own[a]],
                        [sh.top EXCEPT ![t] = 0])
<1>1. CallTypes /\ TreeTypes /\ LockTypes
  BY TypesSplit DEF IInv
<1>2. /\ pc[t] = "descend" /\ lev[t] = 0 /\ c \in TakenLeaves /\ c \in Leaves /\ c \in Taken
      /\ sh.own[c] = NoThread /\ sh.lo[c] =< key[t] /\ key[t] < sh.hi[c] /\ c \notin BNodes
  BY AtLeafKnows, Addresses DEF Taken
<1>3. pc' = [pc EXCEPT ![t] = stage] /\ pc'[t] = stage
  BY <1>1 DEF Goto, CallTypes
<1>4. parray' \in [Threads -> [0 .. MaxLevel -> Leaves \cup BNodes \cup {NULL}]]
      /\ parray'[t][0] = c
  <2>1. 0 \in 0 .. MaxLevel
    BY Sizes
  <2> QED
    BY <1>1, <1>2, <2>1, SMTT(40) DEF CallTypes
<1>5. CallTypes'
  BY <1>1, <1>2, <1>3, <1>4 DEF CallTypes, call, up, Stages
<1>6. LockTypes'
  BY <1>1, <1>2, <1>3 DEF LockTypes, Part1, CallTypes
<1>7. /\ leaf' \in [Leaves -> LeafType] /\ leaf'[c].lock = TRUE
      /\ \A a \in Leaves : a # c => leaf'[a] = leaf[a]
      /\ leaf'[c].keys = leaf[c].keys /\ leaf'[c].next = leaf[c].next
  <2>1. leaf \in [Leaves -> LeafType] /\ leaf[c] \in LeafType
    BY <1>1, <1>2 DEF TreeTypes
  <2>2. [leaf[c] EXCEPT !.lock = TRUE] \in LeafType
    BY <2>1 DEF LeafType
  <2>3. leaf' = [leaf EXCEPT ![c] = [leaf[c] EXCEPT !.lock = TRUE]]
    BY <1>2, <2>1
  <2>4. leaf' \in [Leaves -> LeafType] /\ leaf'[c] = [leaf[c] EXCEPT !.lock = TRUE]
        /\ \A a \in Leaves : a # c => leaf'[a] = leaf[a]
    BY <1>2, <2>1, <2>2, <2>3, ZenonT(60)
  <2> QED
    BY <2>1, <2>4 DEF LeafType
<1>8. TreeTypes'
  BY <1>1, <1>7 DEF TreeTypes, tree, pools
<1>9. TypeOK' /\ LocalTypes'
  BY <1>5, <1>6, <1>8, TypesAfter
<1>10. \A u \in Threads : u # t => SameLocals(sh, sh, u)
  BY <1>1, <1>3 DEF SameLocals, CallTypes, call, up
<1>11. lp(t)' = c
  BY <1>4 DEF lp
<1>12. /\ sh1.lo = sh.lo /\ sh1.hi = sh.hi
  BY ReownFields
<1> HIDE DEF sh1
<1>13. \A a \in Taken : OwnedBy(sh1, a, t)' <=> a \in {c}
  BY <1>3, <1>11 DEF OwnedBy, Splitting, Climbing
<1>14. LeafCallOK(sh1, t)'
  <2>1. key'[t] = key[t] /\ c \in TakenLeaves'
    BY <1>2 DEF call, TakenLeaves, pools
  <2> QED
    BY <1>2, <1>3, <1>7, <1>11, <1>12, <2>1 DEF LeafCallOK
<1>15. PathOK(sh1, t)'
  BY <1>3 DEF PathOK, Splitting, Climbing
<1>16. Locked(c)'
  BY <1>2, <1>7 DEF Locked
<1>17. 0 \in 0 .. MaxLevel /\ {c} \in SUBSET Taken
  BY <1>2, Sizes
<1>18. /\ \A a \in {c} : sh.own[a] = NoThread /\ Locked(a)'
       /\ \A a \in Leaves : a \notin {c} => leaf'[a] = leaf[a]
       /\ \A a \in Leaves : leaf'[a].keys = leaf[a].keys /\ leaf'[a].next = leaf[a].next
  BY <1>2, <1>7, <1>16
<1>19. /\ \A p \in BNodes : p \notin {c} => bnode'[p] = bnode[p]
       /\ \A p \in BNodes : /\ bnode'[p].num = bnode[p].num /\ bnode'[p].k = bnode[p].k
                             /\ bnode'[p].ch = bnode[p].ch
  OBVIOUS
<1>20. sh1 = Reown(sh, [a \in Addr |-> IF a \in {c} THEN t ELSE sh.own[a]],
                   [sh.top EXCEPT ![t] = 0])
  BY DEF sh1
<1>21. pc[t] = "descend" /\ pc'[t] \in {"insert", "split", "leafDel"}
  BY <1>2, <1>3
<1>22. IInv(sh1)'
  BY <1>9, <1>10, <1>13, <1>14, <1>15, <1>17, <1>18, <1>19, <1>20, <1>21, AcquireStep, ZenonT(60)
<1> QED
  BY <1>22

\* A del locks its leaf.
LEMMA DelLockKeeps ==
  ASSUME NEW sh, IInv(sh), NEW t \in Threads, DelLock(t), LeavesKeepKeys
  PROVE  \E sh1 : IInv(sh1)'
<1>1. /\ AtLeaf(t) /\ ~leaf[cur[t]].lock /\ key[t] \in leaf[cur[t]].keys
      /\ AtOpenLeaf(t, "del")
      /\ leaf' = [leaf EXCEPT ![cur[t]].lock = TRUE]
      /\ parray' = [parray EXCEPT ![t][0] = cur[t]]
      /\ UNCHANGED <<tree, pools, call, ppos, sib, up>>
  BY DEF DelLock, AtOpenLeaf
<1>2. Cardinality(leaf[cur[t]].keys) # 1
  BY <1>1 DEF LeavesKeepKeys
<1>3. tree_lock' = NoThread /\ Goto(t, "leafDel") /\ UNCHANGED <<bnode, cur, lev>>
  BY <1>2 DEF DelLock
<1> QED
  BY <1>1, <1>2, <1>3, LeafAcquired

\* The lowest level, from 1 up, of the call's path that has room for one more
\* entry, or else the root's.
LEMMA StopsAt ==
  ASSUME NEW sh, IInv(sh), NEW t \in Threads, AtLeaf(t), ~leaf[cur[t]].lock
  PROVE  \E s \in 0 .. MaxLevel :
            /\ s =< root_level
            /\ Ancestors(t, InsertStops) = 1 .. s
            /\ \A i \in 1 .. s - 1 : Full(parray[t][i])
            /\ s = 0 \/ Full(parray[t][s]) => s = root_level
<1>1. Found(sh, t) /\ lev[t] = 0
  BY AtLeafKnows
<1>2. root_level \in 0 .. MaxLevel /\ root_level \in Nat
  BY ThreadTypes, Sizes DEF IInv
<1>3. \A i \in 1 .. root_level : parray[t][i] \in BNodes
  <2>1. \A i \in 1 .. root_level : Passed(sh, t, i)
    BY <1>1 DEF Found
  <2> QED
    BY <2>1, CountType DEF Passed
<1> DEFINE R == {i \in 1 .. root_level : ~Full(parray[t][i])}
<1>4. \A i \in 1 .. root_level : InsertStops(parray[t][i]) <=> i \in R
  BY <1>3 DEF InsertStops, Full
<1>5. \A i : i \in Ancestors(t, InsertStops) <=>
                i \in 1 .. root_level /\ \A j \in 1 .. i - 1 : ~InsertStops(parray[t][j])
  BY DEF Ancestors
<1>6. CASE R = {}
  <2>1. Ancestors(t, InsertStops) = 1 .. root_level
    <3>1. ASSUME NEW i \in 1 .. root_level PROVE i \in Ancestors(t, InsertStops)
      <4>1. \A j \in 1 .. i - 1 : j \in 1 .. root_level /\ j \notin R
        BY <1>2, <1>6
      <4> QED
        BY <1>4, <1>5, <4>1
    <3>2. \A i \in Ancestors(t, InsertStops) : i \in 1 .. root_level
      BY <1>5
    <3> QED
      BY <3>1, <3>2
  <2>2. \A i \in 1 .. root_level - 1 : Full(parray[t][i])
    BY <1>2, <1>6
  <2> QED
    BY <1>2, <2>1, <2>2
<1>7. CASE R # {}
  <2>1. R \in SUBSET Nat
    BY <1>2
  <2>2. PICK s \in R : \A x \in R : s =< x
    BY <1>7, <2>1, Least
  <2>3. s \in 1 .. root_level /\ s \in 0 .. MaxLevel /\ s # 0 /\ ~Full(parray[t][s])
    BY <1>2, <2>2, Sizes
  <2>4. \A i \in 1 .. s - 1 : i \in 1 .. root_level /\ i \notin R
    BY <1>2, <2>2, <2>3
  <2>5. \A i \in 1 .. s - 1 : Full(parray[t][i])
    BY <2>4
  <2>6. ASSUME NEW i PROVE i \in Ancestors(t, InsertStops) <=> i \in 1 .. s
    <3>1. CASE i \in 1 .. s
      <4>1. i \in 1 .. root_level /\ \A j \in 1 .. i - 1 : j \in 1 .. root_level /\ j \notin R
        BY <1>2, <2>3, <2>4, <3>1
      <4> QED
        BY <1>4, <1>5, <3>1, <4>1
    <3>2. CASE i \notin 1 .. s
      <4>1. i \in 1 .. root_level => s \in 1 .. i - 1
        BY <1>2, <2>3, <3>2
      <4> QED
        BY <1>4, <1>5, <2>2, <2>3, <3>2, <4>1
    <3> QED
      BY <3>1, <3>2
  <2>7. Ancestors(t, InsertStops) = 1 .. s
    BY <2>6
  <2> QED
    BY <1>2, <2>3, <2>5, <2>7
<1> QED
  BY <1>6, <1>7

\* An insert locks its leaf and the full ancestors it is going to split.
LEMMA InsertLockKeeps ==
  ASSUME NEW sh, IInv(sh), NEW t \in Threads, InsertLock(t)
  PROVE  \E sh1 : IInv(sh1)'
<1>1. /\ AtLeaf(t) /\ ~leaf[cur[t]].lock /\ key[t] \notin leaf[cur[t]].keys
      /\ leaf' = [leaf EXCEPT ![cur[t]].lock = TRUE]
      /\ parray' = [parray EXCEPT ![t][0] = cur[t]]
      /\ tree_lock' = NoThread
      /\ UNCHANGED <<tree, pools, call, cur, lev, ppos, sib, up>>
  BY DEF InsertLock, AtOpenLeaf
<1>2. CASE ~LeafFull(cur[t])
  <2>1. Goto(t, "insert") /\ UNCHANGED bnode
    BY <1>2 DEF InsertLock
  <2> QED
    BY <1>1, <2>1, LeafAcquired
<1>3. CASE LeafFull(cur[t])
  <2> PICK c : c = cur[t]
    OBVIOUS
  <2>1. LockNodes(t, Ancestors(t, InsertStops)) /\ Goto(t, "split")
    BY <1>3 DEF InsertLock
  <2>2. PICK s \in 0 .. MaxLevel :
            /\ s =< root_level
            /\ Ancestors(t, InsertStops) = 1 .. s
            /\ \A i \in 1 .. s - 1 : Full(parray[t][i])
            /\ s = 0 \/ Full(parray[t][s]) => s = root_level
    BY <1>1, StopsAt
  <2>3. CallTypes /\ TreeTypes /\ LockTypes
    BY TypesSplit DEF IInv
  <2>4. /\ pc[t] = "descend" /\ lev[t] = 0 /\ c \in TakenLeaves /\ c \in Leaves /\ c \in Taken
        /\ sh.own[c] = NoThread /\ sh.lo[c] =< key[t] /\ key[t] < sh.hi[c] /\ c \notin BNodes
        /\ Found(sh, t) /\ sh.lvl[c] = 0
    BY <1>1, AtLeafKnows, Addresses DEF Taken
  <2>5. /\ \A i \in 1 .. s : Passed(sh, t, i)
        /\ root_level = 0 => c = tree_root
        /\ root_level > 0 => parray[t][root_level] = tree_root
        /\ root_level \in Nat /\ s \in Nat
    <3>1. root_level \in Nat /\ s \in Nat
      BY <2>3, Sizes DEF TreeTypes
    <3> QED
      BY <2>2, <2>4, <3>1 DEF Found
  <2> PICK S : S = {c} \cup {parray[t][i] : i \in 1 .. s}
    OBVIOUS
  <2> DEFINE sh1 == Reown(sh, [a \in Addr |-> IF a \in S THEN t ELSE sh.own[a]],
                          [sh.top EXCEPT ![t] = s])
  <2>6. \A i \in 1 .. s : /\ parray[t][i] \in TakenNodes /\ parray[t][i] \in Taken
                          /\ parray[t][i] \in BNodes /\ sh.own[parray[t][i]] = NoThread
                          /\ sh.lvl[parray[t][i]] = i /\ parray[t][i] \notin Leaves
    BY <2>5, CountType, Addresses DEF Passed
  <2>7. S \in SUBSET Taken /\ \A a \in S : sh.own[a] = NoThread
    BY <2>4, <2>6
  <2>8. /\ \A a \in Leaves : a \in S <=> a = c
        /\ \A p \in BNodes : p \in S <=> \E i \in 1 .. s : parray[t][i] = p
    BY <2>4, <2>6
  <2>9. /\ leaf' \in [Leaves -> LeafType] /\ leaf'[c].lock = TRUE
        /\ \A a \in Leaves : a # c => leaf'[a] = leaf[a]
        /\ \A a \in Leaves : leaf'[a].keys = leaf[a].keys /\ leaf'[a].next = leaf[a].next
    <3>1. leaf \in [Leaves -> LeafType] /\ leaf[c] \in LeafType
      BY <2>3, <2>4 DEF TreeTypes
    <3>2. [leaf[c] EXCEPT !.lock = TRUE] \in LeafType
      BY <3>1 DEF LeafType
    <3>3. leaf' = [leaf EXCEPT ![c] = [leaf[c] EXCEPT !.lock = TRUE]]
      BY <1>1, <2>4, <3>1
    <3>4. leaf' \in [Leaves -> LeafType] /\ leaf'[c] = [leaf[c] EXCEPT !.lock = TRUE]
          /\ \A a \in Leaves : a # c => leaf'[a] = leaf[a]
      BY <2>4, <3>1, <3>2, <3>3
    <3>5. /\ leaf'[c].lock = TRUE /\ leaf'[c].keys = leaf[c].keys
          /\ leaf'[c].next = leaf[c].next
      BY <3>1, <3>4 DEF LeafType
    <3> QED
      BY <3>4, <3>5
  <2>10. bnode' = [p \in BNodes |-> IF p \in S THEN [bnode[p] EXCEPT !.lock = TRUE] ELSE bnode[p]]
    <3>1. bnode' = [p \in BNodes |-> IF \E i \in 1 .. s : parray[t][i] = p
                                     THEN [bnode[p] EXCEPT !.lock = TRUE] ELSE bnode[p]]
      BY <2>1, <2>2 DEF LockNodes
    <3> QED
      BY <2>8, <3>1
  <2>11. \A p \in BNodes : /\ bnode'[p] \in NodeType
                           /\ p \in S => bnode'[p].lock = TRUE
                           /\ p \notin S => bnode'[p] = bnode[p]
                           /\ bnode'[p].num = bnode[p].num /\ bnode'[p].k = bnode[p].k
                           /\ bnode'[p].ch = bnode[p].ch
    <3> SUFFICES ASSUME NEW p \in BNodes
                 PROVE  /\ bnode'[p] \in NodeType
                        /\ p \in S => bnode'[p].lock = TRUE
                        /\ p \notin S => bnode'[p] = bnode[p]
                        /\ bnode'[p].num = bnode[p].num /\ bnode'[p].k = bnode[p].k
                        /\ bnode'[p].ch = bnode[p].ch
      OBVIOUS
    <3>1. bnode[p] \in NodeType
      BY <2>3 DEF TreeTypes
    <3>2. bnode'[p] = IF p \in S THEN [bnode[p] EXCEPT !.lock = TRUE] ELSE bnode[p]
      BY <2>10
    <3>3. CASE p \in S
      <4>1. bnode'[p] = [bnode[p] EXCEPT !.lock = TRUE]
        BY <3>2, <3>3
      <4> QED
        BY <3>1, <3>3, <4>1 DEF NodeType
    <3>4. CASE p \notin S
      BY <3>1, <3>2, <3>4
    <3> QED
      BY <3>3, <3>4
  <2>12. bnode' \in [BNodes -> NodeType]
    BY <2>10, <2>11
  <2>13. pc' = [pc EXCEPT ![t] = "split"] /\ pc'[t] = "split"
    BY <2>1, <2>3 DEF Goto, CallTypes
  <2>14. /\ parray' \in [Threads -> [0 .. MaxLevel -> Leaves \cup BNodes \cup {NULL}]]
         /\ parray'[t][0] = c
         /\ \A i \in 1 .. MaxLevel : parray'[t][i] = parray[t][i]
    <3>1. 0 \in 0 .. MaxLevel
      BY Sizes
    <3>2. /\ parray[t] \in [0 .. MaxLevel -> Leaves \cup BNodes \cup {NULL}]
          /\ parray \in [Threads -> [0 .. MaxLevel -> Leaves \cup BNodes \cup {NULL}]]
      BY <2>3 DEF CallTypes
    <3>3. parray'[t] = [parray[t] EXCEPT ![0] = c]
      BY <1>1, <3>2
    <3>4. parray' \in [Threads -> [0 .. MaxLevel -> Leaves \cup BNodes \cup {NULL}]]
      BY <1>1, <2>4, <3>1, <3>2
    <3> QED
      BY <3>1, <3>2, <3>3, <3>4
  <2>15. CallTypes'
    BY <1>1, <2>3, <2>4, <2>13, <2>14 DEF CallTypes, call, up, Stages
  <2>16. LockTypes'
    BY <1>1, <2>3, <2>4, <2>13 DEF LockTypes, Part1, CallTypes
  <2>17. TreeTypes'
    BY <1>1, <2>3, <2>9, <2>12 DEF TreeTypes, tree, pools
  <2>18. TypeOK' /\ LocalTypes'
    BY <2>15, <2>16, <2>17, TypesAfter
  <2>19. \A u \in Threads : u # t => SameLocals(sh, sh, u)
    BY <1>1, <2>3, <2>13 DEF SameLocals, CallTypes, call, up
  <2>20. sh1.lo = sh.lo /\ sh1.hi = sh.hi /\ sh1.lvl = sh.lvl /\ sh1.top[t] = s
    <3>1. sh1.top = [sh.top EXCEPT ![t] = s]
      BY ReownFields
    <3> QED
      BY <3>1, ReownFields, ShapeTypes DEF IInv
  <2>21. \A a \in S : Locked(a)'
    BY <2>4, <2>6, <2>9, <2>11 DEF Locked
  <2>22. sh1 = Reown(sh, [a \in Addr |-> IF a \in S THEN t ELSE sh.own[a]],
                     [sh.top EXCEPT ![t] = s])
    OBVIOUS
  <2> HIDE DEF sh1
  <2>23. Base(t)' = 0 /\ pc'[t] \in Splitting /\ pc'[t] \notin Climbing /\ lp(t)' = c
    BY <2>13, <2>14 DEF Base, Splitting, Climbing, lp
  <2>24. \A i \in 1 .. s : i \in 1 .. MaxLevel
    BY <2>5, Sizes
  <2>25. \A a \in Taken : OwnedBy(sh1, a, t)' <=> a \in S
    <3>1. \A a : OwnedBy(sh1, a, t)' <=> \E i \in 0 .. s : a = parray'[t][i]
      BY <2>13, <2>20, <2>23 DEF OwnedBy, Climbing
    <3>2. \A i \in 0 .. s : i = 0 \/ i \in 1 .. s
      BY <2>5
    <3>3. 0 \in 0 .. s /\ \A i \in 1 .. s : i \in 0 .. s
      BY <2>5
    <3> QED
      BY <2>14, <2>24, <3>1, <3>2, <3>3
  <2>26. Taken' = Taken /\ TakenLeaves' = TakenLeaves /\ TakenNodes' = TakenNodes
         /\ key'[t] = key[t] /\ root_level' = root_level /\ tree_root' = tree_root
         /\ ppos' = ppos
    BY <1>1 DEF Taken, TakenLeaves, TakenNodes, pools, call, tree
  <2>27. LeafCallOK(sh1, t)'
    <3>1. LeafFull(lp(t))' /\ key'[t] \notin leaf'[c].keys
      BY <1>1, <1>3, <2>4, <2>9, <2>23, <2>26 DEF LeafFull
    <3> QED
      BY <2>4, <2>13, <2>20, <2>23, <2>26, <3>1 DEF LeafCallOK
  <2>28. PathOK(sh1, t)'
    <3>1. ASSUME NEW i \in 1 .. s PROVE Link(sh1, t, i)' /\ (Full(parray[t][i])' <=> Full(parray[t][i]))
      <4> PICK p, d : p = parray[t][i] /\ d = ppos[t][i]
        OBVIOUS
      <4>1. Passed(sh, t, i)
        BY <2>5
      <4>2. p \in TakenNodes /\ p \in BNodes /\ sh.lvl[p] = i
            /\ d \in 0 .. bnode[p].num /\ bnode[p].ch[d] = Under(t, i)
        BY <2>6, <4>1 DEF Passed
      <4>3. i \in 1 .. MaxLevel /\ (i # 1 => i - 1 \in 1 .. MaxLevel) /\ i \in Int
        BY <2>24, Sizes
      <4>4. Under(t, i) = parray'[t][i - 1]
        <5>1. CASE i = 1
          BY <2>4, <2>14, <5>1 DEF Under
        <5>2. CASE i # 1
          BY <2>4, <2>14, <4>3, <5>2 DEF Under
        <5> QED
          BY <5>1, <5>2
      <4>5. parray'[t][i] = p /\ ppos'[t][i] = d /\ bnode'[p].num = bnode[p].num
            /\ bnode'[p].ch = bnode[p].ch
        BY <2>11, <2>14, <2>26, <4>2, <4>3
      <4> QED
        BY <2>20, <2>26, <4>2, <4>4, <4>5 DEF Link, Full
    <3>2. s = root_level => parray'[t][s] = tree_root
      BY <2>5, <2>14, <2>24
    <3>3. \A i \in 1 .. s - 1 : Full(parray[t][i])' /\ i \in 1 .. s
      BY <2>2, <2>5, <3>1
    <3>4. s = 0 \/ Full(parray[t][s])' => s = root_level
      BY <2>2, <2>5, <3>1
    <3>5. 0 \in 0 .. s /\ 0 + 1 = 1
      BY <2>5
    <3> QED
      BY <2>2, <2>4, <2>14, <2>20, <2>23, <2>26, <3>1, <3>2, <3>3, <3>4, <3>5 DEF PathOK
  <2>29. pc[t] = "descend" /\ pc'[t] \in {"insert", "split", "leafDel"}
    BY <2>4, <2>13
  <2>30. /\ \A a \in Leaves : a \notin S => leaf'[a] = leaf[a]
         /\ \A p \in BNodes : p \notin S => bnode'[p] = bnode[p]
    BY <2>8, <2>9, <2>11
  <2>31. UNCHANGED <<tree, pools>>
    BY <1>1
  <2>32. IInv(sh1)'
    <3>1. s \in 0 .. MaxLevel
      BY <2>2
    <3>2. /\ \A a \in Leaves : leaf'[a].keys = leaf[a].keys /\ leaf'[a].next = leaf[a].next
          /\ \A p \in BNodes : /\ bnode'[p].num = bnode[p].num /\ bnode'[p].k = bnode[p].k
                                /\ bnode'[p].ch = bnode[p].ch
      BY <2>9, <2>11
    <3> QED
      BY <2>7, <2>18, <2>19, <2>21, <2>22, <2>25, <2>27, <2>28, <2>29, <2>30, <2>31,
         <3>1, <3>2, AcquireStep, ZenonT(60)
  <2> QED
    BY <2>32
<1> QED
  BY <1>2, <1>3

-----------------------------------------------------------------------------
(***************************************************************************)
(* Splits of leaves, and the new root.                                     *)
(***************************************************************************)
\* The key goes into the lower half of a split leaf, which is unlocked.
LEMMA InsertLowerKeeps ==
  ASSUME NEW sh, IInv(sh), NEW t \in Threads, InsertLower(t)
  PROVE  IInv(sh)'
<1> PICK c : c = lp(t)
  OBVIOUS
<1>1. CallTypes /\ TreeTypes /\ LockTypes
  BY TypesSplit DEF IInv
<1>2. /\ pc[t] = "lower" /\ pc' = [pc EXCEPT ![t] = "parent"] /\ pc'[t] = "parent"
      /\ leaf' = [leaf EXCEPT ![c].keys = @ \cup {key[t]}, ![c].lock = ~(root_level > 0)]
      /\ UNCHANGED <<tree_lock, tree, bnode, pools, call, cur, lev, path, sib, up>>
  BY <1>1 DEF InsertLower, Goto, CallTypes
<1>3. /\ pc[t] \in Climbing /\ pc[t] \in Splitting /\ pc'[t] \in Climbing /\ pc'[t] \in Splitting
      /\ Base(t) = 0 /\ Base(t)' = 0 /\ lp(t)' = c
  BY <1>2 DEF Climbing, Splitting, Base, lp, path
<1>4. /\ c \in TakenLeaves /\ sh.lo[c] =< key[t] /\ key[t] < sh.hi[c] /\ key[t] \in Keys
  BY <1>2 DEF IInv, ThreadOK, LeafCallOK, LocalTypes
<1>5. c \in Taken /\ sh.own[c] = t /\ ptr[t] # c /\ c = parray[t][0]
  BY <1>3, HangingNode DEF lp
<1>6. c \in Leaves /\ c \notin BNodes /\ TakenLeaves \subseteq Leaves /\ TakenNodes \subseteq BNodes
      /\ Taken \subseteq Addr /\ TakenNodes \subseteq Taken
  BY <1>4, TakenTypes, Addresses DEF IInv, Taken
<1>7. /\ leaf' \in [Leaves -> LeafType] /\ leaf'[c].keys = leaf[c].keys \cup {key[t]}
      /\ leaf'[c].lock = ~(root_level > 0) /\ leaf'[c].next = leaf[c].next
      /\ \A a \in Leaves : a # c => leaf'[a] = leaf[a]
  <2> DEFINE r == [leaf[c] EXCEPT !.keys = @ \cup {key[t]}, !.lock = ~(root_level > 0)]
  <2>1. leaf \in [Leaves -> LeafType] /\ leaf[c] \in LeafType
    BY <1>1, <1>6 DEF TreeTypes
  <2>2. /\ r \in LeafType /\ r.keys = leaf[c].keys \cup {key[t]}
        /\ r.lock = ~(root_level > 0) /\ r.next = leaf[c].next
    BY <1>4, <2>1 DEF LeafType
  <2>3. leaf' = [leaf EXCEPT ![c] = r]
    BY <1>2, <1>6, <2>1
  <2> HIDE DEF r
  <2> QED
    BY <1>6, <2>1, <2>2, <2>3
<1>8. CallTypes'
  BY <1>1, <1>2 DEF CallTypes, call, path, up, Stages
<1>9. TreeTypes'
  BY <1>1, <1>2, <1>7 DEF TreeTypes, tree, pools
<1>10. LockTypes'
  BY <1>1, <1>2 DEF LockTypes, Part1, CallTypes
<1>11. TypeOK' /\ LocalTypes'
  BY <1>8, <1>9, <1>10, TypesAfter
<1>12. \A u \in Threads : u # t => SameLocals(sh, sh, u)
  BY <1>1, <1>2 DEF SameLocals, CallTypes, call, path, up
<1>13. TakenLeaves' = TakenLeaves /\ TakenNodes' = TakenNodes /\ Taken' = Taken
  BY <1>2 DEF TakenLeaves, TakenNodes, Taken, pools
<1>14. Growing' <=> Growing
  BY <1>2, <1>12 DEF Growing, SameLocals
<1>15. Frame(sh, sh, t) /\ SameRoot
  <2>1. \A a \in Taken : a # c => Keeps(sh, sh, a)
    BY <1>2, <1>6, <1>7, <1>13 DEF Keeps
  <2> QED
    BY <1>2, <1>5, <1>12, <1>13, <1>14, <2>1 DEF Frame, SameRoot, tree
<1>16. \A u \in Threads : u # t => ThreadOK(sh, u)'
  BY <1>15, OthersStay
<1>17. TreeFits(sh)'
  <2>1. \A a \in TakenLeaves :
            /\ leaf'[a].next = leaf[a].next /\ leaf'[a].keys # {}
            /\ \A x \in leaf'[a].keys : sh.lo[a] =< x /\ x < sh.hi[a]
    <3> SUFFICES ASSUME NEW a \in TakenLeaves
                 PROVE  /\ leaf'[a].next = leaf[a].next /\ leaf'[a].keys # {}
                        /\ \A x \in leaf'[a].keys : sh.lo[a] =< x /\ x < sh.hi[a]
      OBVIOUS
    <3>1. CASE a = c
      BY <1>4, <1>7, <3>1, LeavesAsTheyAre
    <3>2. CASE a # c
      BY <1>6, <1>7, <3>2, LeavesAsTheyAre
    <3> QED
      BY <3>1, <3>2
  <2> QED
    BY <1>2, <1>14, <2>1, SameTreeFits
<1>18. root_level' = root_level /\ ptr' = ptr /\ parray' = parray /\ root_level \in Int
  BY <1>1, <1>2, Sizes DEF tree, up, path, TreeTypes
<1>19. \A a : OwnedBy(sh, a, t)' <=> OwnedBy(sh, a, t)
  BY <1>2, <1>3, <1>18 DEF OwnedBy
<1>20. \A a : (OpenFor(a, t) <=> a = ptr[t])
              /\ (OpenFor(a, t)' <=> a = ptr[t] \/ (root_level > 0 /\ a = c))
  BY <1>2, <1>3, <1>18 DEF OpenFor
<1>21. Owners(sh)'
  <2>1. /\ \A a \in Taken : sh.own[a] = t <=> OwnedBy(sh, a, t)
        /\ \A a \in Taken : Locked(a) <=> sh.own[a] \in Threads /\ ~OpenFor(a, sh.own[a])
        /\ \A a \in Addr \ Taken : ~Locked(a)
        /\ \A p \in TakenNodes : sh.cnt[p] # bnode[p].num =>
              sh.own[p] \in Threads /\ pc[sh.own[p]] = "count"
        /\ \A a \in Taken : sh.end[a] # a =>
              /\ sh.own[a] \in Threads /\ pc[sh.own[a]] \in Climbing
              /\ a = parray[sh.own[a]][Base(sh.own[a])]
    BY DEF IInv, Owners
  <2>2. \A a \in Addr : a # c => (Locked(a)' <=> Locked(a))
    BY <1>2, <1>6, <1>7 DEF Locked, Addr
  <2>3. Locked(c)' <=> ~(root_level > 0)
    BY <1>6, <1>7 DEF Locked
  <2>4. \A a \in Taken' : sh.own[a] = t => (Locked(a)' <=> ~OpenFor(a, t)')
    BY <1>5, <1>6, <1>13, <1>20, <2>1, <2>2, <2>3
  <2>5. \A u \in Threads : u # NoThread
    OBVIOUS
  <2>6. \A a \in Taken' : sh.own[a] = NoThread => ~Locked(a)'
    BY <1>5, <1>6, <1>13, <2>1, <2>2, <2>5
  <2>7. \A a \in Taken' : sh.own[a] \in Threads \cup {NoThread}
    BY <1>6, <1>13, ShapeTypes DEF IInv
  <2>8. \A p \in TakenNodes' : sh.own[p] \in {t, NoThread} /\ sh.cnt[p] # bnode'[p].num =>
            sh.own[p] = t /\ pc'[t] = "count"
    <3>1. pc[t] # "count"
      BY <1>2
    <3> QED
      BY <1>2, <1>13, <2>1, <2>5, <3>1
  <2>9. \A a \in Taken' : sh.own[a] \in {t, NoThread} /\ sh.end[a] # a =>
            sh.own[a] = t /\ pc'[t] \in Climbing /\ a = parray'[t][Base(t)']
    BY <1>3, <1>13, <1>18, <2>1, <2>5
  <2>10. \A a \in Addr \ Taken' : ~Locked(a)'
    BY <1>5, <1>13, <2>1, <2>2
  <2>11. \A a \in Taken' : sh.own[a] = t <=> OwnedBy(sh, a, t)'
    BY <1>13, <1>19, <2>1
  <2> QED
    BY <1>6, <1>13, <1>15, <1>18, <2>4, <2>6, <2>7, <2>8, <2>9, <2>10, <2>11, OwnersStep
<1>22. ThreadOK(sh, t)'
  <2>1. PathOK(sh, t) /\ SplitOK(sh, t)
    BY DEF IInv, ThreadOK
  <2>2. SearchOK(sh, t)' /\ LeafCallOK(sh, t)' /\ GrowOK(sh, t)'
    BY <1>2 DEF SearchOK, LeafCallOK, GrowOK
  <2>3. PathOK(sh, t)'
    BY <1>2, <1>3, <1>13, <1>18, <2>1 DEF PathOK, Link, Full, tree, path
  <2>4. SplitOK(sh, t)'
    BY <1>2, <1>3, <1>13, <1>18, <2>1 DEF SplitOK, up
  <2> QED
    BY <2>2, <2>3, <2>4 DEF ThreadOK
<1> QED
  BY <1>11, <1>16, <1>17, <1>21, <1>22 DEF IInv

\* No other thread is going to change the root while a new one is put in place.
LEMMA OthersBelowRoot ==
  ASSUME NEW sh, IInv(sh), NEW t \in Threads, NEW u \in Threads, u # t,
         tree_root \in Taken, sh.own[tree_root] = t
  PROVE  /\ pc[u] # "growRoot"
         /\ pc[u] \in Splitting => sh.top[u] < root_level
<1>1. pc[u] # "growRoot"
  <2>1. GrowOK(sh, u)
    BY DEF IInv, ThreadOK
  <2> QED
    BY <2>1, Owned DEF GrowOK
<1>2. ASSUME pc[u] \in Splitting PROVE sh.top[u] < root_level
  <2>1. PathOK(sh, u)
    BY DEF IInv, ThreadOK
  <2>2. /\ Base(u) \in 0 .. sh.top[u] /\ sh.top[u] =< root_level
        /\ sh.top[u] = root_level => parray[u][sh.top[u]] = tree_root
    BY <1>2, <2>1 DEF PathOK
  <2>3. root_level \in Int /\ sh.top[u] \in Int
    BY ThreadTypes, ShapeTypes, Sizes DEF IInv
  <2>4. sh.top[u] \in Base(u) .. sh.top[u]
    BY <2>2, <2>3
  <2>5. sh.own[parray[u][sh.top[u]]] = u
    BY <1>2, <2>4, PathOwned
  <2> QED
    BY <2>2, <2>3, <2>5
<1> QED
  BY <1>1, <1>2

\* The new root becomes the root.
LEMMA GrowRootKeeps ==
  ASSUME NEW sh, IInv(sh), NEW t \in Threads, GrowRoot(t), RootUnraced'
  PROVE  IInv(sh)'
<1>1. CallTypes /\ TreeTypes /\ LockTypes
  BY TypesSplit DEF IInv
<1>2. /\ pc[t] = "growRoot" /\ pc' = [pc EXCEPT ![t] = "unlockOld"] /\ pc'[t] = "unlockOld"
      /\ tree_root' = ptr[t]
      /\ UNCHANGED <<tree_lock, root_level, first_leaf, leaf, bnode, pools, locals>>
  BY <1>1 DEF GrowRoot, Goto, CallTypes
<1>3. /\ cur[t] \in Taken /\ ptr[t] \in TakenNodes /\ cur[t] # ptr[t] /\ cur[t] = tree_root
      /\ sh.lvl[ptr[t]] = root_level /\ sh.lo[ptr[t]] = Low /\ sh.hi[ptr[t]] = High
      /\ ptr[t] \in Taken /\ ptr[t] \in BNodes
      /\ (total[t] = 0 => cur[t] = lp(t) /\ cur[t] \in Leaves)
      /\ (total[t] > 0 => cur[t] \in BNodes)
  BY <1>2, CountType DEF IInv, ThreadOK, GrowOK
<1>4. sh.own[tree_root] = t /\ sh.own[ptr[t]] = t
  BY <1>2, <1>3, Owned
<1>5. sh.end[ptr[t]] = ptr[t]
  <2>1. pc[t] \notin Climbing
    BY <1>2 DEF Climbing
  <2> QED
    BY <1>3, <1>4, <2>1 DEF IInv, Owners
<1>6. ASSUME NEW u \in Threads, pc[u] \in Part1 PROVE pc[u] = "readRoot" /\ lev[u] = root_level
  <2>1. ~Outrun(u, t)' /\ u # t
    BY <1>2, <1>6 DEF RootUnraced, Part1
  <2>2. /\ pc'[u] = pc[u] /\ cur'[u] = cur[u] /\ lev'[u] = lev[u] /\ cur'[t] = cur[t]
        /\ root_level' = root_level
    BY <1>1, <1>2, <2>1 DEF CallTypes, locals
  <2>3. /\ pc[u] \in {"readLevel", "descend"} => cur[u] # tree_root
        /\ pc[u] = "readRoot" => lev[u] = root_level
    BY <1>3, <2>1, <2>2 DEF Outrun
  <2>4. pc[u] # "readLevel"
    BY <2>3 DEF IInv, ThreadOK, SearchOK
  <2>5. ASSUME pc[u] = "descend" PROVE FALSE
    <3>1. Found(sh, u)
      BY <2>3, <2>5 DEF IInv, ThreadOK, SearchOK, Outdated
    <3>2. lev[u] < root_level /\ parray[u][root_level] = tree_root
      BY <2>3, <2>5, <3>1, ThreadTypes DEF Found, IInv
    <3>3. root_level \in lev[u] + 1 .. root_level
      BY <3>2, ThreadTypes DEF IInv
    <3>4. sh.own[tree_root] = NoThread
      BY <3>1, <3>2, <3>3 DEF Found, Passed
    <3> QED
      BY <1>4, <3>4, ThreadTypes DEF IInv
  <2> QED
    BY <1>6, <2>3, <2>4, <2>5 DEF Part1
<1>7. \A u \in Threads : u # t => SameLocals(sh, sh, u)
  BY <1>1, <1>2 DEF SameLocals, CallTypes, locals, call, path, up
<1>8. ~Growing' /\ Growing
  <2>1. \A u \in Threads : u # t => pc[u] # "growRoot"
    BY <1>3, <1>4, OthersBelowRoot
  <2> QED
    BY <1>2, <1>7, <2>1 DEF Growing, SameLocals
<1>9. CallTypes'
  BY <1>1, <1>2 DEF CallTypes, locals, call, path, up, Stages
<1>10. TreeTypes'
  BY <1>1, <1>2, <1>3 DEF TreeTypes, pools
<1>11. LockTypes'
  BY <1>1, <1>2 DEF LockTypes, Part1, CallTypes
<1>12. TypeOK' /\ LocalTypes'
  BY <1>9, <1>10, <1>11, TypesAfter
<1>13. TakenLeaves' = TakenLeaves /\ TakenNodes' = TakenNodes /\ Taken' = Taken
  BY <1>2 DEF TakenLeaves, TakenNodes, Taken, pools
<1>14. Frame(sh, sh, t)
  BY <1>2, <1>7, <1>13 DEF Frame, Keeps
<1>15. root_level' = root_level /\ root_level \in Int
  BY <1>1, <1>2, Sizes DEF TreeTypes
<1>16. ASSUME NEW u \in Threads, u # t PROVE ThreadOK(sh, u)'
  <2>1. SearchOK(sh, u)'
    BY <1>6, <1>7, <1>15, <1>16 DEF SearchOK, SameLocals, Part1
  <2>2. pc[u] \in Splitting => RootAway(sh, u)
    BY <1>3, <1>4, <1>15, <1>16, OthersBelowRoot DEF RootAway
  <2>3. LeafCallOK(sh, u)'
    BY <1>14, <1>16, OthersLeafCall
  <2>4. PathOK(sh, u)' /\ SplitOK(sh, u)'
    BY <1>14, <1>16, <2>2, OthersPath, OthersSplit
  <2>5. GrowOK(sh, u)'
    BY <1>3, <1>4, <1>14, <1>16, OthersBelowRoot, OthersGrow
  <2> QED
    BY <2>1, <2>3, <2>4, <2>5 DEF ThreadOK
<1>17. TreeFits(sh)'
  <2>1. TreeFits(sh)
    BY DEF IInv
  <2>2. Ranges(sh)' /\ Levels(sh)'
    BY <1>13, <1>15, <2>1 DEF TreeFits, Ranges, Levels
  <2>3. Root(sh)'
    BY <1>2, <1>3, <1>5, <1>8, <1>13, <1>15, <2>1 DEF TreeFits, Root
  <2>4. \A a \in TakenLeaves' : LeafFits(sh, a)'
    BY <1>2, <1>13, <2>1 DEF TreeFits, LeafFits
  <2>5. \A p \in TakenNodes' : NodeFits(sh, p)'
    BY <1>2, <1>13, <2>1, SMTT(100) DEF TreeFits, NodeFits, EntriesFit
  <2> QED
    BY <2>2, <2>3, <2>4, <2>5 DEF TreeFits
<1>18. \A a : OwnedBy(sh, a, t)' <=> OwnedBy(sh, a, t)
  BY <1>2 DEF OwnedBy, Splitting, Climbing, locals, up
<1>19. \A a : ~OpenFor(a, t) /\ ~OpenFor(a, t)'
  BY <1>2 DEF OpenFor, Climbing
<1>20. Owners(sh)'
  <2>1. /\ \A a \in Taken : sh.own[a] = t <=> OwnedBy(sh, a, t)
        /\ \A a \in Taken : Locked(a) <=> sh.own[a] \in Threads /\ ~OpenFor(a, sh.own[a])
        /\ \A a \in Addr \ Taken : ~Locked(a)
        /\ \A p \in TakenNodes : sh.cnt[p] # bnode[p].num =>
              sh.own[p] \in Threads /\ pc[sh.own[p]] = "count"
        /\ \A a \in Taken : sh.end[a] # a =>
              /\ sh.own[a] \in Threads /\ pc[sh.own[a]] \in Climbing
              /\ a = parray[sh.own[a]][Base(sh.own[a])]
    BY DEF IInv, Owners
  <2>2. \A a : Locked(a)' <=> Locked(a)
    BY <1>2 DEF Locked
  <2>3. \A u \in Threads : u # NoThread
    OBVIOUS
  <2>4. /\ Taken \subseteq Addr /\ TakenNodes \subseteq BNodes /\ TakenNodes \subseteq Taken
    BY TakenTypes DEF IInv, Taken
  <2>5. \A a \in Taken' : sh.own[a] \in Threads \cup {NoThread}
    BY <1>13, <2>4, ShapeTypes DEF IInv
  <2>6. \A a \in Taken' : sh.own[a] = t => (Locked(a)' <=> ~OpenFor(a, t)')
    BY <1>13, <1>19, <2>1, <2>2
  <2>7. \A a \in Taken' : sh.own[a] = NoThread => ~Locked(a)'
    BY <1>13, <2>1, <2>2, <2>3
  <2>8. pc[t] # "count" /\ pc[t] \notin Climbing
    BY <1>2 DEF Climbing
  <2>9. \A p \in TakenNodes' : sh.own[p] \in {t, NoThread} /\ sh.cnt[p] # bnode'[p].num =>
            sh.own[p] = t /\ pc'[t] = "count"
    BY <1>2, <1>13, <2>1, <2>3, <2>8
  <2>10. \A a \in Taken' : sh.own[a] \in {t, NoThread} /\ sh.end[a] # a =>
            sh.own[a] = t /\ pc'[t] \in Climbing /\ a = parray'[t][Base(t)']
    BY <1>13, <2>1, <2>3, <2>8
  <2>11. \A a \in Taken' : sh.own[a] = t <=> OwnedBy(sh, a, t)'
    BY <1>13, <1>18, <2>1
  <2>12. \A a \in Addr \ Taken' : ~Locked(a)'
    BY <1>13, <2>1, <2>2
  <2> QED
    BY <1>13, <1>14, <1>15, <2>4, <2>5, <2>6, <2>7, <2>9, <2>10, <2>11, <2>12, OwnersStep
<1>21. ThreadOK(sh, t)'
  <2>1. cur' = cur /\ ptr' = ptr /\ total' = total /\ lp(t)' = lp(t)
    BY <1>2 DEF locals, up, path, lp
  <2> QED
    BY <1>2, <1>3, <1>13, <2>1 DEF ThreadOK, SearchOK, LeafCallOK, PathOK, SplitOK, GrowOK,
       Splitting, Climbing
<1> QED
  BY <1>12, <1>16, <1>17, <1>20, <1>21 DEF IInv

-----------------------------------------------------------------------------
(***************************************************************************)
(* The key a full leaf is split at.                                        *)
(***************************************************************************)
\* A set of keys that is not empty has a least one.
LEMMA LeastKey ==
  ASSUME NEW S \in SUBSET Keys, S # {}
  PROVE  \E x \in S : \A y \in S : x =< y
<1>1. \A y \in S : y \in Int /\ y - Low \in Nat
  BY Sizes
<1> DEFINE N == {y - Low : y \in S}
<1>2. N \in SUBSET Nat /\ N # {}
  BY <1>1
<1>3. PICK n \in N : \A r \in N : n =< r
  BY <1>2, Least
<1>4. PICK x \in S : n = x - Low
  BY <1>3
<1>5. \A y \in S : x - Low =< y - Low
  BY <1>3, <1>4
<1> QED
  BY <1>1, <1>5, Sizes

\* A finite set of keys has one of each rank.
LEMMA KeyOfRank ==
  ASSUME NEW S \in SUBSET Keys, NEW k \in Nat, k < Cardinality(S)
  PROVE  \E x \in S : Cardinality({y \in S : y < x}) = k
<1> DEFINE Smaller(x) == {y \in S : y < x}
           Bad == {j \in Nat : j =< k /\ ~\E x \in S : Cardinality(Smaller(x)) = j}
<1>1. IsFiniteSet(S)
  <2>1. IsFiniteSet(KeyType)
    BY FS_Interval DEF KeyType
  <2> QED
    BY <2>1, FS_Subset
<1>2. Cardinality(S) \in Nat
  BY <1>1, FS_CardinalityType
<1>3. \A y \in S : y \in Int
  BY Sizes
<1>4. ASSUME NEW x \in S PROVE IsFiniteSet(Smaller(x)) /\ x \notin Smaller(x)
  BY <1>1, <1>3, FS_Subset
<1>5. ASSUME Bad # {} PROVE FALSE
  <2>1. PICK j \in Bad : \A i \in Bad : j =< i
    <3>1. Bad \in SUBSET Nat
      OBVIOUS
    <3> QED
      BY <1>5, <3>1, Least
  <2>2. j \in Nat /\ j =< k /\ \A x \in S : Cardinality(Smaller(x)) # j
    BY <2>1
  <2>3. CASE j = 0
    <3>1. S # {}
      BY FS_EmptySet
    <3>2. PICK x \in S : \A y \in S : x =< y
      BY <3>1, LeastKey
    <3>3. Smaller(x) = {}
      BY <1>3, <3>2
    <3> QED
      BY <2>2, <2>3, <3>3, FS_EmptySet
  <2>4. CASE j # 0
    <3>1. j - 1 \in Nat /\ j - 1 =< k /\ j - 1 \notin Bad
      <4>1. j - 1 \in Nat /\ j - 1 =< k /\ ~(j =< j - 1)
        BY <2>2, <2>4
      <4> HIDE DEF Bad
      <4> QED
        BY <2>1, <4>1
    <3>2. PICK x \in S : Cardinality(Smaller(x)) = j - 1
      BY <3>1
    <3> DEFINE UpTo == Smaller(x) \cup {x}
               Over == {y \in S : x < y}
    <3>3. IsFiniteSet(UpTo) /\ Cardinality(UpTo) = j
      <4>1. Cardinality(Smaller(x) \cup {x}) = (j - 1) + 1 /\ IsFiniteSet(Smaller(x) \cup {x})
        BY <1>4, <3>2, FS_AddElement
      <4> QED
        BY <2>2, <4>1
    <3>4. Over # {}
      <4>1. S # UpTo
        <5>1. j # Cardinality(S)
          BY <1>2, <2>2
        <5> HIDE DEF UpTo
        <5> QED
          BY <3>3, <5>1
      <4>2. PICK y \in S : y \notin UpTo
        BY <4>1
      <4> QED
        BY <1>3, <4>2
    <3>5. PICK z \in Over : \A y \in Over : z =< y
      <4>1. Over \in SUBSET Keys
        OBVIOUS
      <4> QED
        BY <3>4, <4>1, LeastKey
    <3>6. z \in S /\ x < z
      BY <3>5
    <3>7. Smaller(z) = UpTo
      <4>1. ASSUME NEW y PROVE y \in Smaller(z) <=> y \in UpTo
        <5>1. y \in Smaller(z) <=> y \in S /\ y < z
          OBVIOUS
        <5>2. y \in UpTo <=> y \in S /\ (y < x \/ y = x)
          BY <3>2
        <5>3. y \in S /\ x < y => z =< y
          BY <3>5
        <5> QED
          BY <1>3, <3>2, <3>6, <5>1, <5>2, <5>3
      <4> QED
        BY <4>1
    <3> QED
      BY <2>2, <3>3, <3>6, <3>7
  <2> QED
    BY <2>3, <2>4
<1>6. k \notin Bad
  BY <1>5
<1>7. k =< k
  OBVIOUS
<1> QED
  BY <1>6, <1>7

\* The split key of a full leaf has a smaller one below it.
LEMMA SplitKey ==
  ASSUME NEW S \in SUBSET Keys, Cardinality(S) = LEAF_KEY_NUM
  PROVE  LET m == SortedKey(S, LEAF_KEY_NUM \div 2)
         IN  m \in S /\ \E x \in S : x < m
<1> DEFINE k == LEAF_KEY_NUM \div 2
           m == SortedKey(S, k)
<1>1. k \in Nat /\ 1 =< k /\ k < Cardinality(S)
  BY Sizes
<1> HIDE DEF k
<1>2. \E x \in S : Cardinality({y \in S : y < x}) = k
  BY <1>1, KeyOfRank
<1>3. m \in S /\ Cardinality({y \in S : y < m}) = k
  BY <1>2 DEF SortedKey
<1>4. {y \in S : y < m} # {}
  BY <1>1, <1>3, FS_EmptySet
<1> QED
  BY <1>3, <1>4 DEF k

-----------------------------------------------------------------------------
(***************************************************************************)
(* Node c is split at key m; the upper half of its range goes to node n.   *)
(***************************************************************************)
\* The shape after it, as far as the other nodes are concerned: z is the
\* node, if any, whose new sibling has just been put in the parent.
SplitOff(sh, sh1, c, n, m, z) ==
    /\ c \in Taken /\ n \in Addr \ Taken /\ Taken' = Taken \cup {n}
    /\ m \in Int /\ sh.lo[c] < m /\ m < sh.hi[c] /\ sh.end[c] = c
    /\ \A a \in Taken : /\ sh1.lvl[a] = sh.lvl[a] /\ sh1.lo[a] = sh.lo[a]
                        /\ a # c => sh1.hi[a] = sh.hi[a]
                        /\ a # c /\ a # z => sh1.end[a] = sh.end[a]
    /\ sh1.hi[c] = m /\ sh1.lo[n] = m /\ sh1.hi[n] = sh.hi[c] /\ sh1.lvl[n] = sh.lvl[c]
    /\ sh1.end[c] = n /\ sh1.end[n] = n

\* A node that reaches beyond itself reaches to its owner's new node.
LEMMA EndOwner ==
  ASSUME NEW sh, IInv(sh), NEW a \in Taken, sh.end[a] # a
  PROVE  /\ sh.own[a] \in Threads /\ pc[sh.own[a]] \in Climbing
         /\ sh.end[a] = ptr[sh.own[a]] /\ sh.own[sh.end[a]] = sh.own[a]
         /\ a = parray[sh.own[a]][Base(sh.own[a])]
<1>1. /\ sh.own[a] \in Threads /\ pc[sh.own[a]] \in Climbing
      /\ a = parray[sh.own[a]][Base(sh.own[a])]
  BY DEF IInv, Owners
<1> QED
  BY <1>1, HangingNode

\* Nobody's range reaches to the node, then.
LEMMA NoOtherEnd ==
  ASSUME NEW sh, IInv(sh), NEW c \in Taken, sh.end[c] = c,
         sh.own[c] \in Threads => pc[sh.own[c]] \notin Climbing \/ c # ptr[sh.own[c]],
         NEW a \in Taken, a # c
  PROVE  sh.end[a] # c
BY EndOwner

\* The range of a split node is divided in two.
LEMMA SplitRanges ==
  ASSUME NEW sh, IInv(sh), NEW sh1, NEW c, NEW n, NEW m, NEW z, SplitOff(sh, sh1, c, n, m, z)
  PROVE  Ranges(sh1)'
<1>1. \A a \in Taken : /\ sh.lo[a] \in Int /\ sh.hi[a] \in Int
                        /\ Low =< sh.lo[a] /\ sh.lo[a] < sh.hi[a] /\ sh.hi[a] =< High
  BY Numbers
<1>2. \A a, b \in Taken : a # b /\ sh.lvl[a] = sh.lvl[b] =>
          sh.hi[a] =< sh.lo[b] \/ sh.hi[b] =< sh.lo[a]
  BY DEF IInv, TreeFits, Ranges
<1>3. c \in Taken /\ n \notin Taken /\ m \in Int /\ sh.lo[c] < m /\ m < sh.hi[c]
  BY DEF SplitOff
<1>4. \A a \in Taken : a # c =>
        sh1.lvl[a] = sh.lvl[a] /\ sh1.lo[a] = sh.lo[a] /\ sh1.hi[a] = sh.hi[a]
  BY DEF SplitOff
<1>5. /\ sh1.lvl[c] = sh.lvl[c] /\ sh1.lo[c] = sh.lo[c] /\ sh1.hi[c] = m
      /\ sh1.lvl[n] = sh.lvl[c] /\ sh1.lo[n] = m /\ sh1.hi[n] = sh.hi[c]
  BY DEF SplitOff
<1>6. \A a \in Taken' : a = n \/ a = c \/ (a \in Taken /\ a # c)
  BY DEF SplitOff
<1>7. \A a \in Taken' : Low =< sh1.lo[a] /\ sh1.lo[a] < sh1.hi[a] /\ sh1.hi[a] =< High
  BY <1>1, <1>3, <1>4, <1>5, <1>6, Sizes
<1>8. ASSUME NEW a \in Taken', NEW b \in Taken', a # b, sh1.lvl[a] = sh1.lvl[b]
      PROVE  sh1.hi[a] =< sh1.lo[b] \/ sh1.hi[b] =< sh1.lo[a]
  <2>1. CASE a \in Taken /\ a # c /\ b \in Taken /\ b # c
    BY <1>2, <1>4, <1>8, <2>1
  <2>2. CASE a \in {c, n} /\ b \in {c, n}
    BY <1>3, <1>5, <1>8, <2>2
  <2>3. CASE a \in Taken /\ a # c /\ b \in {c, n}
    <3>1. sh.hi[a] =< sh.lo[c] \/ sh.hi[c] =< sh.lo[a]
      BY <1>2, <1>3, <1>4, <1>5, <1>8, <2>3
    <3> QED
      BY <1>1, <1>3, <1>4, <1>5, <2>3, <3>1
  <2>4. CASE b \in Taken /\ b # c /\ a \in {c, n}
    <3>1. sh.hi[b] =< sh.lo[c] \/ sh.hi[c] =< sh.lo[b]
      BY <1>2, <1>3, <1>4, <1>5, <1>8, <2>4
    <3> QED
      BY <1>1, <1>3, <1>4, <1>5, <2>4, <3>1
  <2> QED
    BY <1>6, <2>1, <2>2, <2>3, <2>4
<1> QED
  BY <1>7, <1>8 DEF Ranges

\* In the eyes of its parent a node reaches as far as before.
LEMMA SplitOuter ==
  ASSUME NEW sh, IInv(sh), NEW sh1, NEW c, NEW n, NEW m, NEW z, SplitOff(sh, sh1, c, n, m, z),
         sh.own[c] \in Threads => pc[sh.own[c]] \notin Climbing \/ c # ptr[sh.own[c]],
         NEW a \in Taken, a # z
  PROVE  sh1.hi[sh1.end[a]] = sh.hi[sh.end[a]]
<1>1. CASE a = c
  BY <1>1 DEF SplitOff
<1>2. CASE a # c
  <2>1. c \in Taken /\ sh.end[c] = c
    BY DEF SplitOff
  <2>2. sh.end[a] # c /\ sh.end[a] \in Taken
    BY <1>2, <2>1, NoOtherEnd, Numbers
  <2>3. sh1.end[a] = sh.end[a]
    BY <1>2 DEF SplitOff
  <2> QED
    BY <2>2, <2>3 DEF SplitOff
<1> QED
  BY <1>1, <1>2

\* The leaves after leaf c is split at m: c keeps the keys lower and the new
\* leaf n has upper.
LEMMA SplitLeavesFit ==
  ASSUME NEW sh, IInv(sh), NEW sh1, NEW c \in TakenLeaves, NEW n, NEW m, NEW z,
         SplitOff(sh, sh1, c, n, m, z),
         TakenLeaves' = TakenLeaves \cup {n}, first_leaf' = first_leaf,
         \A a \in TakenLeaves : a # c => leaf'[a] = leaf[a],
         leaf'[n].next = leaf[c].next, leaf'[c].next = n,
         leaf'[c].keys # {}, \A x \in leaf'[c].keys : sh.lo[c] =< x /\ x < m,
         leaf'[n].keys # {}, \A x \in leaf'[n].keys : m =< x /\ x < sh.hi[c]
  PROVE  \A a \in TakenLeaves' : LeafFits(sh1, a)'
<1>1. /\ TakenLeaves \subseteq Taken /\ c \in Taken /\ n \notin Taken /\ TakenLeaves \subseteq Leaves
      /\ \A a \in Taken : sh1.lo[a] = sh.lo[a] /\ (a # c => sh1.hi[a] = sh.hi[a])
      /\ sh1.hi[c] = m /\ sh1.lo[n] = m /\ sh1.hi[n] = sh.hi[c] /\ n \in Addr
  BY TakenTypes DEF SplitOff, Taken, IInv
<1>2. \A a \in TakenLeaves : LeafFits(sh, a)
  BY DEF IInv, TreeFits
<1>3. n # NULL
  BY <1>1, Addresses DEF Addr
<1>4. LeafFits(sh1, c)'
  <2>1. c # first_leaf => \E b \in TakenLeaves' : leaf'[b].next = c
    <3> SUFFICES ASSUME c # first_leaf PROVE \E b \in TakenLeaves' : leaf'[b].next = c
      OBVIOUS
    <3>1. PICK b \in TakenLeaves : leaf[b].next = c
      BY <1>2 DEF LeafFits
    <3>2. b # c
      <4>1. leaf[c].next = c => sh.lo[c] = sh.hi[c]
        BY <1>1, <1>2, Addresses DEF LeafFits
      <4>2. sh.lo[c] # sh.hi[c]
        BY <1>1, Numbers
      <4> QED
        BY <3>1, <4>1, <4>2
    <3> QED
      BY <3>1, <3>2
  <2> QED
    BY <1>1, <1>3, <2>1 DEF LeafFits
<1>5. LeafFits(sh1, n)'
  <2>1. /\ leaf[c].next = NULL => sh.hi[c] = High
        /\ leaf[c].next # NULL => leaf[c].next \in TakenLeaves /\ sh.lo[leaf[c].next] = sh.hi[c]
    BY <1>2 DEF LeafFits
  <2> QED
    BY <1>1, <2>1 DEF LeafFits
<1>6. ASSUME NEW a \in TakenLeaves, a # c PROVE LeafFits(sh1, a)'
  <2>1. a # first_leaf => \E b \in TakenLeaves' : leaf'[b].next = a
    <3> SUFFICES ASSUME a # first_leaf PROVE \E b \in TakenLeaves' : leaf'[b].next = a
      OBVIOUS
    <3>1. PICK b \in TakenLeaves : leaf[b].next = a
      BY <1>2 DEF LeafFits
    <3> QED
      BY <3>1
  <2>2. LeafFits(sh, a)
    BY <1>2
  <2> QED
    BY <1>1, <1>6, <2>1, <2>2 DEF LeafFits
<1> QED
  BY <1>4, <1>5, <1>6

\* A leaf is split into itself and a new one.
LEMMA SplitLeafKeeps ==
  ASSUME NEW sh, IInv(sh), NEW t \in Threads, SplitLeaf(t)
  PROVE  \E sh1 : IInv(sh1)'
<1>c. PICK c, m : c = lp(t) /\ m = SortedKey(leaf[lp(t)].keys, LEAF_KEY_NUM \div 2)
  OBVIOUS
<1>s. PICK S, ks, x, st : /\ ks = leaf[c].keys /\ S = {y \in leaf[c].keys : y >= m} /\ x = key[t]
                          /\ st = IF key[t] > m THEN "parent" ELSE "lower"
  OBVIOUS
<1>1. CallTypes /\ TreeTypes /\ LockTypes
  BY TypesSplit DEF IInv
<1>2. pc[t] = "split" /\ UNCHANGED <<tree_lock, tree, bnode, nodeTop, nodeFree, call, cur, lev, path,
                                     sib, total, ret>>
  BY DEF SplitLeaf
<1>w. UpperHalf(leaf[c].keys, m) = S /\ (GoesAbove(x, m) <=> x > m)
  BY <1>s DEF UpperHalf, GoesAbove
<1>x. PICK n \in Leaves :
        LET above == GoesAbove(key[t], m)
            upper == UpperHalf(leaf[c].keys, m)
        IN /\ AllocLeaf(t, n)
           /\ leaf' = [leaf EXCEPT
                 ![n] = [lock |-> FALSE, next |-> leaf[c].next,
                         keys |-> IF above THEN upper \cup {key[t]} ELSE upper],
                 ![c] = [lock |-> ~(above /\ root_level > 0), next |-> n,
                         keys |-> leaf[c].keys \ upper]]
           /\ pkey' = [pkey EXCEPT ![t] = m]
           /\ ptr' = [ptr EXCEPT ![t] = n]
           /\ Goto(t, IF above THEN "parent" ELSE "lower")
  BY <1>c, Zenon DEF SplitLeaf
<1>n. /\ AllocLeaf(t, n)
      /\ leaf' = [leaf EXCEPT
            ![n] = [lock |-> FALSE, next |-> leaf[c].next,
                    keys |-> IF key[t] > m THEN S \cup {x} ELSE S],
            ![c] = [lock |-> ~(key[t] > m /\ root_level > 0), next |-> n, keys |-> ks \ S]]
      /\ pkey' = [pkey EXCEPT ![t] = m]
      /\ ptr' = [ptr EXCEPT ![t] = n]
      /\ Goto(t, IF key[t] > m THEN "parent" ELSE "lower")
  BY <1>s, <1>w, <1>x
<1>3. leafFree' = leafFree /\ n = leafTop + 1 /\ leafTop' = leafTop + 1
  BY <1>1, <1>n DEF AllocLeaf, TreeTypes
<1>4. /\ pc[t] \in Splitting /\ pc[t] \notin Climbing /\ Base(t) = 0
      /\ c \in TakenLeaves /\ sh.lo[c] =< x /\ x < sh.hi[c] /\ x \in Keys /\ x \notin ks
      /\ Cardinality(ks) = LEAF_KEY_NUM
  BY <1>2, <1>c, <1>s DEF IInv, ThreadOK, LeafCallOK, LocalTypes, Splitting, Climbing, Base, LeafFull
<1>5. /\ TakenLeaves \subseteq Leaves /\ TakenNodes \subseteq BNodes /\ Taken \subseteq Addr
      /\ TakenLeaves \subseteq Taken /\ TakenNodes \subseteq Taken
      /\ c \in Leaves /\ c \notin BNodes /\ c \in Taken /\ n \in Addr /\ n \notin BNodes
      /\ leafTop \in Nat /\ n \notin Taken /\ n # c /\ n # NULL
  <2>1. /\ TakenLeaves \subseteq Leaves /\ TakenNodes \subseteq BNodes /\ Taken \subseteq Addr
        /\ leafTop \in Nat
    BY TakenTypes DEF IInv
  <2>2. n \notin TakenLeaves /\ n \notin BNodes /\ n # NULL
    BY <1>3, <1>n, <2>1, Addresses DEF TakenLeaves
  <2> QED
    BY <1>4, <1>n, <2>1, <2>2, Addresses DEF Taken, Addr
<1>6. sh.own[c] = t /\ sh.end[c] = c /\ sh.lvl[c] = 0
  <2>1. 0 \in 0 .. sh.top[t]
    BY ShapeTypes, Sizes DEF IInv
  <2>2. sh.own[c] = t
    BY <1>4, <1>c, <2>1, PathOwned DEF lp
  <2> QED
    BY <1>4, <1>5, <2>2, Numbers DEF IInv, Owners
<1>7. /\ ks \subseteq Keys /\ \A y \in ks : sh.lo[c] =< y /\ y < sh.hi[c] /\ y \in Int
      /\ sh.lo[c] \in Int /\ sh.hi[c] \in Int /\ x \in Int
  BY <1>4, <1>5, <1>s, LeavesAsTheyAre, LeafTypes, Numbers, Sizes DEF IInv
<1>8. m \in ks /\ \E y \in ks : y < m
  BY <1>4, <1>7, <1>c, <1>s, SplitKey
<1>9. /\ m \in Keys /\ m \in Int /\ sh.lo[c] < m /\ m < sh.hi[c] /\ m \in S
      /\ S \subseteq ks /\ ks \ S # {}
      /\ \A y \in ks \ S : sh.lo[c] =< y /\ y < m
      /\ \A y \in S : m =< y /\ y < sh.hi[c]
  BY <1>7, <1>8, <1>s
<1>10. /\ st \in {"parent", "lower"} /\ (st = "parent" <=> key[t] > m)
       /\ st = "parent" => m < x
       /\ st = "lower" => x < m
  <2>1. x # m /\ x = key[t]
    BY <1>4, <1>8, <1>s
  <2> QED
    BY <1>7, <1>9, <1>s, <2>1
<1>u. PICK hs : hs = (IF st = "parent" THEN S \cup {x} ELSE S)
  OBVIOUS
<1>11. hs \subseteq Keys /\ hs # {} /\ \A y \in hs : m =< y /\ y < sh.hi[c]
  BY <1>4, <1>7, <1>9, <1>10, <1>u
<1>12. /\ leaf' \in [Leaves -> LeafType]
       /\ leaf'[n].lock = FALSE /\ leaf'[n].next = leaf[c].next /\ leaf'[n].keys = hs
       /\ leaf'[c].lock = ~(st = "parent" /\ root_level > 0) /\ leaf'[c].next = n
       /\ leaf'[c].keys = ks \ S
       /\ \A a \in Leaves : a # c /\ a # n => leaf'[a] = leaf[a]
  <2>r. PICK rn, rc : /\ rn = [lock |-> FALSE, next |-> leaf[c].next, keys |-> hs]
                    /\ rc = [lock |-> ~(st = "parent" /\ root_level > 0), next |-> n, keys |-> ks \ S]
    OBVIOUS
  <2>1. leaf' = [leaf EXCEPT ![n] = rn, ![c] = rc]
    BY <1>10, <1>n, <1>u, <2>r, Zenon
  <2>2. leaf \in [Leaves -> LeafType] /\ leaf[c].next \in Leaves \cup {NULL}
    BY <1>1, <1>5 DEF TreeTypes, LeafType
  <2>3. rn \in LeafType
    BY <1>11, <2>2, <2>r DEF LeafType
  <2>4. rc \in LeafType
    BY <1>7, <1>n, <2>r DEF LeafType
  <2>5. n \in Leaves
    BY <1>n
  <2>6. leaf' \in [Leaves -> LeafType] /\ leaf'[n] = rn /\ leaf'[c] = rc
        /\ \A a \in Leaves : a # c /\ a # n => leaf'[a] = leaf[a]
    BY <1>5, <2>1, <2>2, <2>3, <2>4, <2>5
  <2> QED
    BY <2>6, <2>r
<1>13. /\ TakenLeaves' = TakenLeaves \cup {n} /\ TakenNodes' = TakenNodes
       /\ Taken' = Taken \cup {n}
  BY <1>2, <1>3, <1>5 DEF TakenLeaves, TakenNodes, Taken
<1>14. pc' = [pc EXCEPT ![t] = st] /\ pc'[t] = st
  BY <1>1, <1>s, <1>n DEF Goto, CallTypes
<1>15. /\ pc'[t] \in Splitting /\ pc'[t] \in Climbing /\ Base(t)' = 0
       /\ pc'[t] # "up" /\ pc'[t] # "count" /\ pc'[t] = st
       /\ pkey'[t] = m /\ ptr'[t] = n /\ lp(t)' = c
  BY <1>1, <1>2, <1>10, <1>14, <1>c, <1>n DEF Splitting, Climbing, Base, CallTypes, lp, path
<1>h. PICK hi1, lvl1, lo1, end1, own1 :
        /\ hi1 = [sh.hi EXCEPT ![c] = m, ![n] = sh.hi[c]]
        /\ lvl1 = [sh.lvl EXCEPT ![n] = 0]
        /\ lo1 = [sh.lo EXCEPT ![n] = m]
        /\ end1 = [sh.end EXCEPT ![c] = n, ![n] = n]
        /\ own1 = [sh.own EXCEPT ![n] = t]
  OBVIOUS
<1>g. PICK sh1 : sh1 = Shape(lvl1, lo1, hi1, sh.cnt, end1, own1, sh.top)
  OBVIOUS
<1>16. sh1 \in ShapeType
  <2>1. /\ sh.lvl \in [Addr -> 0 .. MaxLevel] /\ sh.lo \in [Addr -> Int]
        /\ sh.hi \in [Addr -> Int] /\ sh.cnt \in [BNodes -> 0 .. NON_LEAF_KEY_NUM]
        /\ sh.end \in [Addr -> Addr] /\ sh.own \in [Addr -> Threads \cup {NoThread}]
        /\ sh.top \in [Threads -> 0 .. MaxLevel] /\ 0 \in 0 .. MaxLevel
    BY ShapeTypes, Sizes DEF IInv
  <2>2. /\ lvl1 \in [Addr -> 0 .. MaxLevel] /\ lo1 \in [Addr -> Int]
        /\ hi1 \in [Addr -> Int] /\ end1 \in [Addr -> Addr]
        /\ own1 \in [Addr -> Threads \cup {NoThread}]
    BY <1>5, <1>7, <1>9, <1>h, <2>1
  <2> QED
    BY <1>g, <2>1, <2>2, ShapeFields
<1>17. /\ sh1.cnt = sh.cnt /\ sh1.top = sh.top
       /\ \A a \in Taken : /\ sh1.lvl[a] = sh.lvl[a] /\ sh1.lo[a] = sh.lo[a]
                           /\ sh1.own[a] = sh.own[a]
                           /\ a # c => sh1.hi[a] = sh.hi[a] /\ sh1.end[a] = sh.end[a]
       /\ sh1.hi[c] = m /\ sh1.lo[n] = m /\ sh1.hi[n] = sh.hi[c] /\ sh1.lvl[n] = 0
       /\ sh1.end[c] = n /\ sh1.end[n] = n /\ sh1.own[n] = t
  <2>1. /\ sh1.lvl = lvl1 /\ sh1.lo = lo1 /\ sh1.hi = hi1 /\ sh1.cnt = sh.cnt
        /\ sh1.end = end1 /\ sh1.own = own1 /\ sh1.top = sh.top
    BY <1>g, ShapeFields
  <2>2. /\ sh.lvl \in [Addr -> 0 .. MaxLevel] /\ sh.lo \in [Addr -> Int]
        /\ sh.hi \in [Addr -> Int] /\ sh.end \in [Addr -> Addr]
        /\ sh.own \in [Addr -> Threads \cup {NoThread}]
    BY ShapeTypes DEF IInv
  <2> QED
    BY <1>5, <1>h, <2>1, <2>2
<1>18. SplitOff(sh, sh1, c, n, m, NULL)
  BY <1>5, <1>6, <1>9, <1>13, <1>17 DEF SplitOff
<1>19. CallTypes'
  BY <1>1, <1>2, <1>9, <1>10, <1>14, <1>n DEF CallTypes, call, path, Stages
<1>20. TreeTypes'
  <2>1. leafTop' \in 0 .. MaxLeaf
    BY <1>3, <1>5, <1>n, Sizes DEF Leaves
  <2> QED
    BY <1>1, <1>2, <1>3, <1>12, <2>1 DEF TreeTypes, tree
<1>21. LockTypes'
  BY <1>1, <1>2, <1>10, <1>14 DEF LockTypes, Part1, CallTypes
<1>22. TypeOK' /\ LocalTypes'
  BY <1>19, <1>20, <1>21, TypesAfter
<1>23. \A u \in Threads : u # t => SameLocals(sh, sh1, u)
  BY <1>1, <1>2, <1>14, <1>17, <1>n DEF SameLocals, CallTypes, call, path
<1>24. Growing' <=> Growing
  BY <1>2, <1>10, <1>14, <1>23 DEF Growing, SameLocals
<1>25. Frame(sh, sh1, t) /\ SameRoot
  <2>1. \A a \in Taken : a # c => Keeps(sh, sh1, a)
    BY <1>2, <1>5, <1>12, <1>13, <1>17 DEF Keeps
  <2> QED
    BY <1>2, <1>6, <1>13, <1>17, <1>23, <1>24, <2>1 DEF Frame, SameRoot, tree
<1>26. \A u \in Threads : u # t => ThreadOK(sh1, u)'
  BY <1>25, OthersStay
<1>27. root_level' = root_level /\ tree_root' = tree_root /\ first_leaf' = first_leaf
       /\ parray' = parray /\ ppos' = ppos /\ root_level \in Int /\ key' = key
  BY <1>1, <1>2, Sizes DEF tree, path, call, TreeTypes
<1>28. \A a \in Taken : sh1.hi[sh1.end[a]] = sh.hi[sh.end[a]]
  <2>1. NULL \notin Taken
    BY <1>5, Addresses DEF Addr
  <2> QED
    BY <1>4, <1>6, <1>18, <2>1, SplitOuter
<1>29. TreeFits(sh1)'
  <2>1. TreeFits(sh)
    BY DEF IInv
  <2>2. Ranges(sh1)'
    BY <1>18, SplitRanges
  <2>3. Levels(sh1)'
    <3>1. \A a \in TakenLeaves' : sh1.lvl[a] = 0
      BY <1>5, <1>13, <1>17, <2>1 DEF TreeFits, Levels
    <3>2. \A p \in TakenNodes' : 1 =< sh1.lvl[p]
      BY <1>5, <1>13, <1>17, <2>1 DEF TreeFits, Levels
    <3>3. \A a \in Taken' : sh1.lvl[a] =< root_level'
      BY <1>1, <1>13, <1>17, <1>27, <2>1, Sizes DEF TreeFits, Levels, TreeTypes
    <3>4. \A a \in Taken' : sh1.end[a] \in Taken' /\ sh1.lvl[sh1.end[a]] = sh1.lvl[a]
      <4> SUFFICES ASSUME NEW a \in Taken' PROVE sh1.end[a] \in Taken' /\ sh1.lvl[sh1.end[a]] = sh1.lvl[a]
        OBVIOUS
      <4>1. CASE a = c \/ a = n
        BY <1>5, <1>6, <1>13, <1>17, <4>1
      <4>2. CASE a # c /\ a # n
        <5>1. a \in Taken /\ sh1.end[a] = sh.end[a] /\ sh.end[a] \in Taken
              /\ sh.lvl[sh.end[a]] = sh.lvl[a]
          BY <1>13, <1>17, <2>1, <4>2 DEF TreeFits, Levels
        <5> QED
          BY <1>13, <1>17, <5>1
      <4> QED
        BY <4>1, <4>2
    <3> QED
      BY <3>1, <3>2, <3>3, <3>4 DEF Levels
  <2>4. Root(sh1)'
    BY <1>5, <1>13, <1>17, <1>24, <1>27, <1>28, <2>1 DEF TreeFits, Root
  <2>5. \A a \in TakenLeaves' : LeafFits(sh1, a)'
    <3>1. \A a \in TakenLeaves : a # c => leaf'[a] = leaf[a]
      BY <1>5, <1>12
    <3> QED
      BY <1>4, <1>9, <1>11, <1>12, <1>13, <1>18, <1>27, <3>1, SplitLeavesFit
  <2>6. ASSUME NEW p \in TakenNodes PROVE NodeFits(sh1, p)'
    <3>1. p # c /\ p \in Taken /\ p \in BNodes
      BY <1>5
    <3>2. \A i \in 0 .. sh.cnt[p] : bnode[p].ch[i] \in Taken
      BY ChildInside
    <3>3. \A a \in Taken : a \in Taken' /\ sh1.lvl[a] = sh.lvl[a] /\ sh1.lo[a] = sh.lo[a]
      BY <1>13, <1>17
    <3>4. NodeStays(sh, sh1, p)
      BY <1>2, <1>17, <1>28, <3>1, <3>2, <3>3 DEF NodeStays
    <3> QED
      BY <3>4, NodeFitsKept
  <2> QED
    BY <1>13, <2>2, <2>3, <2>4, <2>5, <2>6 DEF TreeFits
<1>30. \A a \in Taken : OwnedBy(sh1, a, t)' <=> OwnedBy(sh, a, t)
  <2>1. \A a : OwnedBy(sh, a, t) <=> \E i \in 0 .. sh.top[t] : a = parray[t][i]
    BY <1>2, <1>4 DEF OwnedBy
  <2>2. \A a : OwnedBy(sh1, a, t)' <=>
                  (\E i \in 0 .. sh.top[t] : a = parray[t][i]) \/ a = n
    BY <1>10, <1>15, <1>17, <1>27 DEF OwnedBy
  <2> QED
    BY <1>5, <2>1, <2>2
<1>31. \A a : ~OpenFor(a, t) /\ (OpenFor(a, t)' <=> a = n \/ (st = "parent" /\ root_level > 0 /\ a = c))
  BY <1>2, <1>4, <1>15, <1>27 DEF OpenFor
<1>32. Owners(sh1)'
  <2>1. /\ \A a \in Taken : sh.own[a] = t <=> OwnedBy(sh, a, t)
        /\ \A a \in Taken : Locked(a) <=> sh.own[a] \in Threads /\ ~OpenFor(a, sh.own[a])
        /\ \A a \in Addr \ Taken : ~Locked(a)
        /\ \A p \in TakenNodes : sh.cnt[p] # bnode[p].num =>
              sh.own[p] \in Threads /\ pc[sh.own[p]] = "count"
        /\ \A a \in Taken : sh.end[a] # a =>
              /\ sh.own[a] \in Threads /\ pc[sh.own[a]] \in Climbing
              /\ a = parray[sh.own[a]][Base(sh.own[a])]
    BY DEF IInv, Owners
  <2>2. \A a \in Addr : a # c /\ a # n => (Locked(a)' <=> Locked(a))
    BY <1>2, <1>5, <1>12 DEF Locked, Addr
  <2>3. (Locked(c)' <=> ~(st = "parent" /\ root_level > 0)) /\ ~Locked(n)'
    BY <1>5, <1>12 DEF Locked
  <2>4. \A u \in Threads : u # NoThread
    OBVIOUS
  <2>5. \A a \in Taken' : sh1.own[a] \in {t, NoThread} \/ (a \in Taken /\ sh1.own[a] = sh.own[a])
    BY <1>13, <1>17
  <2>6. \A a \in Taken' : sh1.own[a] \in Threads \cup {NoThread}
    BY <1>5, <1>13, <1>16, ShapeTypes
  <2>7. \A a \in Taken' : sh1.own[a] = t <=> OwnedBy(sh1, a, t)'
    <3>1. OwnedBy(sh1, n, t)'
      BY <1>15 DEF OwnedBy
    <3> QED
      BY <1>13, <1>17, <1>30, <2>1, <3>1
  <2>8. \A a \in Taken' : sh1.own[a] = t => (Locked(a)' <=> ~OpenFor(a, t)')
    BY <1>5, <1>13, <1>17, <1>31, <2>1, <2>2, <2>3
  <2>9. \A a \in Taken' : sh1.own[a] = NoThread => ~Locked(a)'
    BY <1>5, <1>6, <1>13, <1>17, <2>1, <2>2, <2>3, <2>4
  <2>10. \A a \in Addr \ Taken' : ~Locked(a)'
    BY <1>5, <1>13, <2>1, <2>2
  <2>11. pc[t] # "count" /\ pc[t] \notin Climbing
    BY <1>2, <1>4
  <2>12. \A p \in TakenNodes' : sh1.own[p] \in {t, NoThread} /\ sh1.cnt[p] # bnode'[p].num =>
            sh1.own[p] = t /\ pc'[t] = "count"
    BY <1>2, <1>5, <1>13, <1>17, <2>1, <2>4, <2>11
  <2>13. \A a \in Taken' : sh1.own[a] \in {t, NoThread} /\ sh1.end[a] # a =>
            sh1.own[a] = t /\ pc'[t] \in Climbing /\ a = parray'[t][Base(t)']
    <3> SUFFICES ASSUME NEW a \in Taken', sh1.own[a] \in {t, NoThread}, sh1.end[a] # a
                 PROVE  sh1.own[a] = t /\ pc'[t] \in Climbing /\ a = parray'[t][Base(t)']
      OBVIOUS
    <3>1. a = c
      BY <1>13, <1>17, <2>1, <2>4, <2>11
    <3> QED
      BY <1>5, <1>6, <1>15, <1>17, <1>27, <1>c, <3>1 DEF lp
  <2> QED
    BY <1>5, <1>13, <1>25, <1>27, <2>5, <2>6, <2>7, <2>8, <2>9, <2>10, <2>12, <2>13, OwnersStep
<1>33. ThreadOK(sh1, t)'
  <2>1. PathOK(sh, t)
    BY DEF IInv, ThreadOK
  <2>2. SearchOK(sh1, t)' /\ GrowOK(sh1, t)'
    BY <1>10, <1>14 DEF SearchOK, GrowOK
  <2>3. LeafCallOK(sh1, t)'
    BY <1>4, <1>5, <1>10, <1>13, <1>15, <1>17, <1>27, <1>s DEF LeafCallOK
  <2>4. PathOK(sh1, t)'
    <3>1. /\ 0 \in 0 .. sh.top[t] /\ sh.top[t] =< root_level
          /\ parray[t][0] \in Taken /\ sh.lvl[parray[t][0]] = 0
          /\ \A i \in 0 + 1 .. sh.top[t] : Link(sh, t, i)
          /\ \A i \in 0 + 1 .. sh.top[t] - 1 : Full(parray[t][i])
          /\ sh.top[t] = 0 \/ Full(parray[t][sh.top[t]]) => sh.top[t] = root_level
          /\ sh.top[t] = root_level => parray[t][sh.top[t]] = tree_root
      BY <1>4, <2>1 DEF PathOK
    <3>2. bnode' = bnode
      BY <1>2
    <3>3. \A i \in 0 + 1 .. sh.top[t] : Link(sh1, t, i)'
      BY <1>5, <1>13, <1>17, <1>27, <3>1, <3>2 DEF Link
    <3>4. \A a : Full(a)' <=> Full(a)
      BY <3>2 DEF Full
    <3> QED
      BY <1>13, <1>15, <1>17, <1>27, <3>1, <3>3, <3>4 DEF PathOK, Full
  <2>5. SplitOK(sh1, t)'
    BY <1>5, <1>6, <1>9, <1>13, <1>15, <1>17, <1>27, <1>c, SMTT(40) DEF SplitOK, lp
  <2> QED
    BY <2>2, <2>3, <2>4, <2>5 DEF ThreadOK
<1>34. IInv(sh1)'
  BY <1>16, <1>22, <1>26, <1>29, <1>32, <1>33 DEF IInv
<1> QED
  BY <1>34

===============================================================================
