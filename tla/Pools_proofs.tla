---------------------------- MODULE Pools_proofs ----------------------------
(***************************************************************************)
(* For any number of workers and pools of any size, alloc, alloc_node and  *)
(* free_node never hand out a node twice.                                  *)
(***************************************************************************)
EXTENDS Pools, TLAPS

(***************************************************************************)
(* Lemmas                                                                  *)
(***************************************************************************)

\* What is left of a free list when alloc_node takes its first node.
LEMMA TailOfList ==
    ASSUME NEW s \in Seq(Nat), s # <<>>
    PROVE /\ Head(s) = s[1] /\ Head(s) \in Nat /\ 1 \in 1 .. Len(s)
          /\ Tail(s) \in Seq(Nat) /\ Len(Tail(s)) = Len(s) - 1
          /\ \A i \in 1 .. Len(Tail(s)) : i + 1 \in 1 .. Len(s) /\ Tail(s)[i] = s[i + 1]
<1>1. Len(s) \in Nat /\ Len(s) > 0
  BY SMT
<1>2. Head(s) = s[1] /\ Head(s) \in Nat /\ 1 \in 1 .. Len(s)
  BY <1>1, SMT
<1>3. Tail(s) \in Seq(Nat) /\ Len(Tail(s)) = Len(s) - 1
  BY <1>1, SMT
<1>4. ASSUME NEW i \in 1 .. Len(Tail(s))
      PROVE i + 1 \in 1 .. Len(s) /\ Tail(s)[i] = s[i + 1]
  BY <1>1, <1>3, SMT
<1> QED
  BY <1>2, <1>3, <1>4

\* The free list when free_node has put a node in front.
LEMMA ConsOfList ==
    ASSUME NEW s \in Seq(Nat), NEW a \in Nat
    PROVE /\ <<a>> \o s \in Seq(Nat) /\ Len(<<a>> \o s) = Len(s) + 1
          /\ (<<a>> \o s)[1] = a
          /\ \A i \in 2 .. Len(s) + 1 : i - 1 \in 1 .. Len(s) /\ (<<a>> \o s)[i] = s[i - 1]
<1>1. <<a>> \in Seq(Nat) /\ Len(<<a>>) = 1 /\ <<a>>[1] = a /\ Len(s) \in Nat
  BY SMT
<1>2. <<a>> \o s \in Seq(Nat) /\ Len(<<a>> \o s) = Len(s) + 1
  BY <1>1, SMT
<1>3. (<<a>> \o s)[1] = a
  BY <1>1, SMT
<1>4. ASSUME NEW i \in 2 .. Len(s) + 1
      PROVE i - 1 \in 1 .. Len(s) /\ (<<a>> \o s)[i] = s[i - 1]
  BY <1>1, SMT
<1> QED
  BY <1>2, <1>3, <1>4

\* The parts of two workers do not overlap.
LEMMA PartsDisjoint ==
    ASSUME NEW v \in Nat, NEW w \in Nat, NEW size \in Nat, v < w
    PROVE v * size + size =< w * size
<1>1. (w - (v + 1)) \in Nat
  BY SMT
<1>2. (w - (v + 1)) * size \in Nat
  BY <1>1, SMT
<1>3. w * size = v * size + size + (w - (v + 1)) * size
  BY <1>1, SMT
<1> QED
  BY <1>2, <1>3, SMT

(***************************************************************************)
(* NodesApart is inductive with the types of the pools.                    *)
(***************************************************************************)
IInv == TypeOK /\ NodesApart

LEMMA InitIInv ==
    ASSUME PoolsAssumption, Init
    PROVE IInv
<1>1. PICK workers \in 1 .. MaxWorkers, size \in 0 .. MaxPoolSize :
        pools = InitPools(workers, size)
  BY DEF Init
<1>2. workers \in Nat /\ size \in Nat
  BY SMT DEF PoolsAssumption
<1>3. /\ Worker = 0 .. workers - 1
      /\ \A w \in Worker : pools[w] = [start |-> w * size, cur |-> w * size,
                                       end |-> w * size + size, free |-> <<>>]
  BY <1>1 DEF Worker, InitPools, InitPool
<1>3a. \A w \in Worker : /\ pools[w].start = w * size /\ pools[w].cur = w * size
                        /\ pools[w].end = w * size + size /\ pools[w].free = <<>>
  <2> SUFFICES ASSUME NEW w \in Worker
               PROVE /\ pools[w].start = w * size /\ pools[w].cur = w * size
                     /\ pools[w].end = w * size + size /\ pools[w].free = <<>>
    OBVIOUS
  <2> DEFINE from == w * size
             to == w * size + size
  <2>1. pools[w] = [start |-> from, cur |-> from, end |-> to, free |-> <<>>]
    BY <1>3, Zenon
  <2> HIDE DEF from, to
  <2>2. pools[w].start = from /\ pools[w].cur = from /\ pools[w].end = to /\ pools[w].free = <<>>
    BY <2>1
  <2> QED
    BY <2>2, SMT DEF from, to
<1>4. \A w \in Worker : w \in Nat /\ w * size \in Nat /\ w * size + size \in Nat
  BY <1>2, <1>3, SMT
<1>5. pools = [w \in Worker |-> pools[w]]
  BY <1>1, <1>3 DEF InitPools
<1>6. TypeOK
  <2>1. <<>> \in Seq(Nat)
    BY SMT
  <2>2. ASSUME NEW w \in Worker PROVE pools[w] \in PoolType
    <3>1. pools[w] = [start |-> w * size, cur |-> w * size,
                      end |-> w * size + size, free |-> <<>>]
      BY <1>3, Zenon
    <3>2. w * size \in Nat /\ w * size + size \in Nat
      BY <1>4, Zenon
    <3> DEFINE from == w * size
               to == w * size + size
    <3>3. from \in Nat /\ to \in Nat
           /\ pools[w] = [start |-> from, cur |-> from, end |-> to, free |-> <<>>]
      BY <3>1, <3>2, Zenon
    <3> HIDE DEF from, to
    <3> QED
      BY <3>3, <2>1 DEF PoolType
  <2> QED
    BY <1>4, <1>5, <2>2 DEF TypeOK, Init
<1>7. \A w \in Worker : FreeAt(w) = {}
  <2>1. Len(<<>>) = 0 /\ 1 .. 0 = {}
    BY SMT
  <2> QED
    BY <1>3a, <2>1 DEF FreeAt
<1>8. FreeOnce /\ FreeNotHeld
  BY <1>7 DEF FreeOnce, FreeNotHeld
<1>9. FreshUnused
  BY <1>7 DEF FreshUnused, Init
<1>9a. ASSUME NEW w \in Worker, NEW a \in Fresh(w)
       PROVE a \in Int /\ w * size =< a /\ a =< w * size + size - 1
  <2> DEFINE from == w * size
             to == w * size + size
  <2>1. from \in Nat /\ to \in Nat /\ pools[w].cur = from /\ pools[w].end = to
    BY <1>3a, <1>4, Zenon
  <2> HIDE DEF from, to
  <2>2. a \in Int /\ from =< a /\ a =< to - 1
    BY <2>1, SMT DEF Fresh
  <2> QED
    BY <1>2, <1>4, <2>2, SMT DEF from, to
<1>10. FreshApart
  <2> SUFFICES ASSUME NEW v \in Worker, NEW w \in Worker, v # w,
                      NEW a \in Fresh(v), a \in Fresh(w)
               PROVE FALSE
    BY DEF FreshApart
  <2>1. /\ v \in Nat /\ w \in Nat /\ a \in Int
        /\ v * size =< a /\ a =< v * size + size - 1
        /\ w * size =< a /\ a =< w * size + size - 1
    BY <1>4, <1>9a, SMT
  <2>2. CASE v < w
    BY <2>1, <2>2, <1>2, <1>4, PartsDisjoint, SMT
  <2>3. CASE w < v
    BY <2>1, <2>3, <1>2, <1>4, PartsDisjoint, SMT
  <2> QED
    BY <2>1, <2>2, <2>3, SMT
<1> QED
  BY <1>6, <1>8, <1>9, <1>10 DEF IInv, NodesApart

\* alloc hands out the front of what is fresh; the lists stay as they are.
LEMMA TakeIInv ==
    ASSUME IInv, NEW w \in Worker, NEW n \in Nat \ {0}, Take(w, n)
    PROVE IInv'
<1> USE DEF IInv, NodesApart
<1>1. /\ pools[w] \in PoolType /\ pools[w].cur \in Nat /\ pools[w].end \in Nat
      /\ n \in Nat /\ pools[w].cur + n =< pools[w].end
  BY DEF TypeOK, PoolType, Take, HasRoom
<1>2. /\ Worker' = Worker
      /\ pools'[w] = [pools[w] EXCEPT !.cur = @ + n]
      /\ \A v \in Worker : v # w => pools'[v] = pools[v]
  BY DEF Take, Alloc, Worker, TypeOK
<1>3. \A v \in Worker : pools'[v].free = pools[v].free /\ pools'[v].end = pools[v].end
  BY <1>1, <1>2 DEF PoolType
<1>4. pools'[w].cur = pools[w].cur + n
  BY <1>1, <1>2 DEF PoolType
<1>5. Fresh(w)' \subseteq Fresh(w) /\ \A v \in Worker : v # w => Fresh(v)' = Fresh(v)
  <2>1. \A v \in Worker : v # w => Fresh(v)' = Fresh(v)
    BY <1>2 DEF Fresh
  <2>2. Fresh(w)' = pools[w].cur + n .. pools[w].end - 1
    BY <1>3, <1>4 DEF Fresh
  <2>3. Fresh(w) = pools[w].cur .. pools[w].end - 1
    BY DEF Fresh
  <2>4. Fresh(w)' \subseteq Fresh(w)
    BY <1>1, <2>2, <2>3, SMT
  <2> QED
    BY <2>1, <2>4
<1>6. \A v \in Worker : Fresh(v)' \subseteq Fresh(v)
  BY <1>5
<1> DEFINE new == {pools[w].cur + i : i \in 0 .. n - 1}
<1>7. new \subseteq Fresh(w) /\ new \subseteq Nat /\ new \cap Fresh(w)' = {}
  BY <1>1, <1>3, <1>4, SMT DEF Fresh
<1>8. held' = held \union new
  BY DEF Take
<1> HIDE DEF new
<1>9. TypeOK'
  <2>1. pools'[w] \in PoolType
    BY <1>1, <1>2, SMTT(60) DEF PoolType
  <2>2. pools' \in [Worker -> PoolType]
    BY <1>2, <2>1 DEF TypeOK, Take
  <2> QED
    BY <1>2, <1>7, <1>8, <2>2 DEF TypeOK
<1>10. \A v \in Worker : FreeAt(v)' = FreeAt(v)
  BY <1>3 DEF FreeAt
<1>11. FreeOnce'
  BY <1>2, <1>3, <1>10 DEF FreeOnce
<1>12. FreeNotHeld'
  BY <1>2, <1>3, <1>7, <1>8, <1>10 DEF FreeNotHeld, FreshUnused
<1>13. FreshUnused'
  <2> SUFFICES ASSUME NEW v \in Worker, NEW a \in Fresh(v)'
               PROVE /\ a \notin held'
                     /\ \A u \in Worker : \A i \in FreeAt(u) : pools[u].free[i] # a
    BY <1>2, <1>3, <1>10 DEF FreshUnused
  <2>1. a \in Fresh(v)
    BY <1>6
  <2>2. a \notin new
    BY <1>5, <1>7, <2>1 DEF FreshApart
  <2> QED
    BY <1>8, <2>1, <2>2 DEF FreshUnused
<1>14. FreshApart'
  BY <1>2, <1>6 DEF FreshApart
<1> QED
  BY <1>9, <1>11, <1>12, <1>13, <1>14

\* alloc_node takes the first node of the list, or like alloc one fresh node.
LEMMA TakeNodeIInv ==
    ASSUME IInv, NEW w \in Worker, TakeNode(w)
    PROVE IInv'
<1> USE DEF IInv, NodesApart
<1>1. /\ pools[w] \in PoolType /\ pools[w].free \in Seq(Nat) /\ pools[w].cur \in Nat
  BY DEF TypeOK, PoolType
<1>2. CASE pools[w].free = <<>>
  <2>1. Take(w, 1)
    <3>1. {pools[w].cur + i : i \in 0 .. 1 - 1} = {pools[w].cur}
      BY <1>1, SMT
    <3> QED
      BY <1>2, <3>1 DEF TakeNode, Take, AllocNode, NodeAt, CanAllocNode
  <2> QED
    BY <2>1, TakeIInv, 1 \in Nat \ {0}
<1>3. CASE pools[w].free # <<>>
  <2> DEFINE s == pools[w].free
  <2>1. /\ Worker' = Worker
        /\ pools'[w] = [pools[w] EXCEPT !.free = Tail(s)]
        /\ \A v \in Worker : v # w => pools'[v] = pools[v]
        /\ pools' \in [Worker -> {pools[v] : v \in Worker} \union {pools'[w]}]
    BY <1>3 DEF TakeNode, AllocNode, Worker, TypeOK
  <2>2. /\ \A v \in Worker : pools'[v].cur = pools[v].cur /\ pools'[v].end = pools[v].end
        /\ pools'[w].free = Tail(s)
    BY <1>1, <2>1 DEF PoolType
  <2>3. \A v \in Worker : Fresh(v)' = Fresh(v)
    BY <2>2 DEF Fresh
  <2>4. held' = held \union {s[1]}
    BY <1>1, <1>3, TailOfList DEF TakeNode, NodeAt
  <2>5. 1 \in FreeAt(w) /\ s[1] \in Nat
    BY <1>1, <1>3, TailOfList DEF FreeAt
  <2>6. \A i \in FreeAt(w)' : /\ i + 1 \in FreeAt(w) /\ i + 1 # 1
                             /\ pools'[w].free[i] = pools[w].free[i + 1]
    <3>1. FreeAt(w)' = 1 .. Len(Tail(s))
      BY <2>2 DEF FreeAt
    <3>2. \A i \in 1 .. Len(Tail(s)) : i + 1 \in FreeAt(w) /\ Tail(s)[i] = s[i + 1]
      BY <1>1, <1>3, TailOfList DEF FreeAt
    <3>3. \A i \in 1 .. Len(Tail(s)) : i + 1 # 1
      BY <1>1, <1>3, TailOfList, SMT
    <3> QED
      BY <2>2, <3>1, <3>2, <3>3
  <2>7. \A v \in Worker : v # w => FreeAt(v)' = FreeAt(v) /\ pools'[v].free = pools[v].free
    BY <2>1 DEF FreeAt
  <2>8. TypeOK'
    <3>1. pools'[w] \in PoolType
      BY <1>1, <1>3, <2>1, TailOfList DEF PoolType
    <3> QED
      BY <2>1, <2>4, <2>5, <3>1 DEF TypeOK
  <2>9. FreeOnce'
    <3> SUFFICES ASSUME NEW v \in Worker, NEW u \in Worker,
                        NEW i \in FreeAt(v)', NEW j \in FreeAt(u)',
                        pools'[v].free[i] = pools'[u].free[j]
                 PROVE v = u /\ i = j
      BY <2>1, Zenon DEF FreeOnce
    <3>1. CASE v = w /\ u = w
      <4>1. i + 1 = j + 1
        BY <2>6, <3>1 DEF FreeOnce
      <4>2. i \in Int /\ j \in Int
        BY DEF FreeAt
      <4> QED
        BY <3>1, <4>1, <4>2, SMT
    <3>2. CASE v = w /\ u # w
      BY <2>6, <2>7, <3>2 DEF FreeOnce
    <3>3. CASE v # w /\ u = w
      BY <2>6, <2>7, <3>3 DEF FreeOnce
    <3>4. CASE v # w /\ u # w
      BY <2>7, <3>4 DEF FreeOnce
    <3> QED
      BY <3>1, <3>2, <3>3, <3>4
  <2>10. FreeNotHeld'
    <3> SUFFICES ASSUME NEW v \in Worker, NEW i \in FreeAt(v)'
                 PROVE pools'[v].free[i] \notin held \union {s[1]}
      BY <2>1, <2>4, Zenon DEF FreeNotHeld
    <3>1. CASE v = w
      BY <2>5, <2>6, <3>1 DEF FreeNotHeld, FreeOnce
    <3>2. CASE v # w
      BY <2>5, <2>7, <3>2 DEF FreeNotHeld, FreeOnce
    <3> QED
      BY <3>1, <3>2
  <2>11. FreshUnused'
    <3> SUFFICES ASSUME NEW v \in Worker, NEW a \in Fresh(v)
                 PROVE /\ a \notin held \union {s[1]}
                       /\ \A u \in Worker : \A i \in FreeAt(u)' : pools'[u].free[i] # a
      BY <2>1, <2>3, <2>4 DEF FreshUnused
    <3>1. a \notin held \union {s[1]}
      BY <2>5 DEF FreshUnused
    <3>2. ASSUME NEW u \in Worker, NEW i \in FreeAt(u)'
          PROVE pools'[u].free[i] # a
      BY <2>6, <2>7 DEF FreshUnused
    <3> QED
      BY <3>1, <3>2
  <2>12. FreshApart'
    BY <2>1, <2>3 DEF FreshApart
  <2> QED
    BY <2>8, <2>9, <2>10, <2>11, <2>12
<1> QED
  BY <1>2, <1>3

\* free_node puts a node the program had in front of any worker's list.
LEMMA GiveIInv ==
    ASSUME IInv, NEW w \in Worker, NEW node \in held, Give(w, node)
    PROVE IInv'
<1> USE DEF IInv, NodesApart
<1> DEFINE s == pools[w].free
<1>1. /\ pools[w] \in PoolType /\ s \in Seq(Nat) /\ node \in Nat
  BY DEF TypeOK, PoolType
<1>2. /\ Worker' = Worker
      /\ pools'[w] = [pools[w] EXCEPT !.free = <<node>> \o s]
      /\ \A v \in Worker : v # w => pools'[v] = pools[v]
      /\ pools' \in [Worker -> {pools[v] : v \in Worker} \union {pools'[w]}]
      /\ held' = held \ {node}
  BY DEF Give, FreeNode, Worker, TypeOK
<1>3. /\ \A v \in Worker : pools'[v].cur = pools[v].cur /\ pools'[v].end = pools[v].end
      /\ pools'[w].free = <<node>> \o s
  BY <1>1, <1>2 DEF PoolType
<1>4. \A v \in Worker : Fresh(v)' = Fresh(v)
  BY <1>3 DEF Fresh
<1>5. \A i \in FreeAt(w)' :
        \/ i = 1 /\ pools'[w].free[i] = node
        \/ i - 1 \in FreeAt(w) /\ pools'[w].free[i] = pools[w].free[i - 1]
  <2>1. FreeAt(w)' = 1 .. Len(s) + 1 /\ Len(s) \in Nat
    BY <1>1, <1>3, ConsOfList DEF FreeAt
  <2>2. (<<node>> \o s)[1] = node
    BY <1>1, ConsOfList
  <2>3. \A i \in 2 .. Len(s) + 1 : i - 1 \in FreeAt(w) /\ (<<node>> \o s)[i] = s[i - 1]
    BY <1>1, ConsOfList DEF FreeAt
  <2>4. \A i \in 1 .. Len(s) + 1 : i = 1 \/ i \in 2 .. Len(s) + 1
    BY <2>1, SMT
  <2> QED
    BY <1>3, <2>1, <2>2, <2>3, <2>4
<1>6. \A v \in Worker : v # w => FreeAt(v)' = FreeAt(v) /\ pools'[v].free = pools[v].free
  BY <1>2 DEF FreeAt
<1>7. \A v \in Worker : \A i \in FreeAt(v) : pools[v].free[i] # node
  BY DEF FreeNotHeld
<1>8. TypeOK'
  <2>1. pools'[w] \in PoolType
    <3> DEFINE longer == <<node>> \o s
    <3>1. longer \in Seq(Nat)
      BY <1>1, ConsOfList
    <3>2. pools'[w] = [pools[w] EXCEPT !.free = longer]
      BY <1>2
    <3> HIDE DEF longer
    <3> QED
      BY <1>1, <3>1, <3>2 DEF PoolType
  <2> QED
    BY <1>2, <2>1 DEF TypeOK
<1>9. FreeOnce'
  <2> SUFFICES ASSUME NEW v \in Worker, NEW u \in Worker,
                      NEW i \in FreeAt(v)', NEW j \in FreeAt(u)',
                      pools'[v].free[i] = pools'[u].free[j]
               PROVE v = u /\ i = j
    BY <1>2, Zenon DEF FreeOnce
  <2>1. i \in Int /\ j \in Int
    BY DEF FreeAt
  <2>2. CASE v = w /\ u = w
    <3>1. (i = 1 /\ j = 1) \/ i - 1 = j - 1
      BY <1>5, <1>7, <2>2 DEF FreeOnce
    <3> QED
      BY <2>1, <2>2, <3>1, SMT
  <2>3. CASE v = w /\ u # w
    BY <1>5, <1>6, <1>7, <2>3 DEF FreeOnce
  <2>4. CASE v # w /\ u = w
    BY <1>5, <1>6, <1>7, <2>4 DEF FreeOnce
  <2>5. CASE v # w /\ u # w
    BY <1>6, <2>5 DEF FreeOnce
  <2> QED
    BY <2>2, <2>3, <2>4, <2>5
<1>10. FreeNotHeld'
  <2> SUFFICES ASSUME NEW v \in Worker, NEW i \in FreeAt(v)'
               PROVE pools'[v].free[i] \notin held \ {node}
    BY <1>2, Zenon DEF FreeNotHeld
  <2>1. CASE v = w
    BY <1>5, <2>1 DEF FreeNotHeld
  <2>2. CASE v # w
    BY <1>6, <2>2 DEF FreeNotHeld
  <2> QED
    BY <2>1, <2>2
<1>11. FreshUnused'
  <2> SUFFICES ASSUME NEW v \in Worker, NEW a \in Fresh(v)
               PROVE /\ a \notin held \ {node}
                     /\ \A u \in Worker : \A i \in FreeAt(u)' : pools'[u].free[i] # a
    BY <1>2, <1>4 DEF FreshUnused
  <2>1. a \notin held
    BY DEF FreshUnused
  <2>2. ASSUME NEW u \in Worker, NEW i \in FreeAt(u)'
        PROVE pools'[u].free[i] # a
    BY <1>5, <1>6, <2>1 DEF FreshUnused
  <2> QED
    BY <2>1, <2>2
<1>12. FreshApart'
  BY <1>2, <1>4 DEF FreshApart
<1> QED
  BY <1>8, <1>9, <1>10, <1>11, <1>12

LEMMA NextIInv ==
    ASSUME PoolsAssumption, IInv, [Next]_vars
    PROVE IInv'
<1>1. CASE UNCHANGED vars
  BY <1>1 DEF IInv, TypeOK, NodesApart, FreeOnce, FreeNotHeld, FreshUnused, FreshApart,
              Fresh, FreeAt, Worker, vars
<1>2. ASSUME NEW w \in Worker, NEW n \in 1 .. MaxPoolSize, Take(w, n)
      PROVE IInv'
  <2>1. n \in Nat \ {0}
    BY SMT DEF PoolsAssumption
  <2> QED
    BY <1>2, <2>1, TakeIInv
<1>3. ASSUME NEW w \in Worker, TakeNode(w)
      PROVE IInv'
  BY <1>3, TakeNodeIInv
<1>4. ASSUME NEW w \in Worker, NEW node \in held, Give(w, node)
      PROVE IInv'
  BY <1>4, GiveIInv
<1> QED
  BY <1>1, <1>2, <1>3, <1>4 DEF Next

\* Every reachable state of the pools satisfies the inductive invariant.
THEOREM Invariance ==
    ASSUME PoolsAssumption
    PROVE Spec => []IInv
<1>1. Init => IInv
  BY InitIInv
<1>2. IInv /\ [Next]_vars => IInv'
  BY NextIInv
<1> QED
  BY <1>1, <1>2, PTL DEF Spec

\* The pools stay well formed (mempool.h:98-212).
THEOREM TypeCorrect ==
    ASSUME PoolsAssumption
    PROVE Spec => []TypeOK
<1>1. IInv => TypeOK
  BY DEF IInv
<1> QED
  BY <1>1, Invariance, PTL

\* A node is in the program's hands, or once in one list, or neither; what
\* is still to be handed out is nowhere, and in one worker's part.
THEOREM NodesStayApart ==
    ASSUME PoolsAssumption
    PROVE Spec => []NodesApart
<1>1. IInv => NodesApart
  BY DEF IInv
<1> QED
  BY <1>1, Invariance, PTL

\* alloc and alloc_node hand out only nodes that the program does not have:
\* two workers, or one that allocates twice, never get the same node.
HandsOutOnce ==
    [][\A w \in Worker :
         /\ TakeNode(w) => NodeAt(pools[w]) \notin held
         /\ \A n \in 1 .. MaxPoolSize :
              Take(w, n) => \A i \in 0 .. n - 1 : pools[w].cur + i \notin held]_vars

THEOREM NeverTwice ==
    ASSUME PoolsAssumption
    PROVE Spec => HandsOutOnce
<1>1. ASSUME IInv, NEW w \in Worker, NEW n \in 1 .. MaxPoolSize, Take(w, n),
             NEW i \in 0 .. n - 1
      PROVE pools[w].cur + i \notin held
  <2>1. pools[w].cur \in Nat /\ pools[w].end \in Nat
    BY <1>1 DEF IInv, TypeOK, PoolType
  <2>2. pools[w].cur + n =< pools[w].end
    BY <1>1 DEF Take, HasRoom
  <2>3. pools[w].cur + i \in Fresh(w)
    BY <2>1, <2>2, SMT DEF Fresh
  <2> QED
    BY <1>1, <2>3 DEF IInv, NodesApart, FreshUnused
<1>2. ASSUME IInv, NEW w \in Worker, TakeNode(w)
      PROVE NodeAt(pools[w]) \notin held
  <2>1. pools[w].cur \in Nat /\ pools[w].end \in Nat /\ pools[w].free \in Seq(Nat)
    BY <1>2 DEF IInv, TypeOK, PoolType
  <2>2. CASE pools[w].free = <<>>
    <3>1. pools[w].cur + 1 =< pools[w].end
      BY <1>2, <2>2 DEF TakeNode, CanAllocNode, HasRoom
    <3>2. pools[w].cur \in Fresh(w)
      BY <2>1, <3>1, SMT DEF Fresh
    <3> QED
      BY <1>2, <2>2, <3>2 DEF IInv, NodesApart, FreshUnused, NodeAt
  <2>3. CASE pools[w].free # <<>>
    BY <1>2, <2>1, <2>3, TailOfList DEF IInv, NodesApart, FreeNotHeld, FreeAt, NodeAt
  <2> QED
    BY <2>2, <2>3
<1>3. IInv => [\A w \in Worker :
                 /\ TakeNode(w) => NodeAt(pools[w]) \notin held
                 /\ \A n \in 1 .. MaxPoolSize :
                      Take(w, n) => \A i \in 0 .. n - 1 : pools[w].cur + i \notin held]_vars
  BY <1>1, <1>2
<1> QED
  BY <1>3, Invariance, PTL DEF HandsOutOnce
=============================================================================
