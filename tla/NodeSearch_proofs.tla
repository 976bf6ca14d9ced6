-------------------------- MODULE NodeSearch_proofs --------------------------
(***************************************************************************)
(* The search loops of NodeSearch as a program, and a proof that they find *)
(* the child of any key in a node of any size.                             *)
(***************************************************************************)
EXTENDS NodeSearch, TLAPS

CONSTANTS k, num, x     \* the keys of the node, how many, and the one looked for

NodeAssumption ==
    /\ num \in Nat /\ k \in [1 .. num -> KeyType] /\ x \in KeyType
    /\ \A i, j \in 1 .. num : i < j => k[i] < k[j]
    /\ \A i \in 1 .. num : Near(x, k[i])

VARIABLES s, pos        \* the range, and the answer or -1

Init == s = [b |-> 1, t |-> num] /\ pos = -1

Narrow == pos = -1 /\ Large(s) /\ s' = Halve(k, s, x) /\ UNCHANGED pos

GoOn  == pos = -1 /\ ~Large(s) /\ Passes(k, s, x) /\ s' = Scan(s) /\ UNCHANGED pos
Found == pos = -1 /\ ~Large(s) /\ ~Passes(k, s, x) /\ pos' = s.b - 1 /\ UNCHANGED s

Next == Narrow \/ GoOn \/ Found

Spec == Init /\ [][Next]_<<s, pos>>

IsChild(p) ==
    /\ p \in 0 .. num
    /\ \A i \in 1 .. num : i =< p <=> k[i] =< x

\* The child that is found is the one the key belongs under: the separators
\* up to it are not larger than the key, and those after it are.
FindsChild == pos # -1 => IsChild(pos)

\* Every round of either loop makes the range smaller, and none goes on
\* below an empty one: the search ends.
Shrinks == [][pos' = -1 => s'.t - s'.b < s.t - s.b /\ -1 =< s'.t - s'.b]_<<s, pos>>

(***************************************************************************)
(* What is outside the range has been compared.                            *)
(***************************************************************************)
Bracket(r) ==
    /\ r \in [b : Int, t : Int]
    /\ 1 =< r.b /\ r.b =< r.t + 1 /\ r.t =< num
    /\ \A i \in 1 .. num : i < r.b => k[i] =< x
    /\ \A i \in 1 .. num : r.t < i => x < k[i]

Inv == Bracket(s) /\ FindsChild

\* Keys that are near do not wrap around: Diff is their difference.
LEMMA Remainder == ASSUME NEW n \in Nat \ {0}, NEW a \in 0 .. n - 1 PROVE a % n = a
<1>1. /\ a % n \in 0 .. n - 1
      /\ a = n * (a \div n) + (a % n)
  OBVIOUS
<1> DEFINE q == a \div n
<1>2. q \in Int
  OBVIOUS
<1>3. q = 0
  <2>1. CASE q >= 1
    <3>1. n * q >= n
      BY <1>2, <2>1
    <3> QED
      BY <1>1, <3>1, <1>2
  <2>2. CASE q =< -1
    <3>1. n * q =< -n
      BY <1>2, <2>2
    <3> QED
      BY <1>1, <3>1, <1>2
  <2> QED
    BY <1>2, <2>1, <2>2
<1> QED
  BY <1>1, <1>3

LEMMA DiffIsExact ==
  ASSUME NEW y \in Int, NEW z \in Int, Near(y, z)
  PROVE  Diff(y, z) = y - z
<1>1. y - z + HalfRange \in 0 .. 2 * HalfRange - 1
  BY SearchAssumption DEF Near, KeyType
<1>2. 2 * HalfRange \in Nat \ {0}
  BY SearchAssumption
<1> QED
  BY <1>1, <1>2, Remainder, SearchAssumption DEF Diff

\* One round of the loop keeps the bracket and makes it smaller.
LEMMA HalveNarrows ==
  ASSUME NodeAssumption, NEW r, Bracket(r), Large(r)
  PROVE  /\ Bracket(Halve(k, r, x))
         /\ Halve(k, r, x).t - Halve(k, r, x).b < r.t - r.b
<1> DEFINE m == (r.b + r.t) \div 2
<1>1. /\ m \in 1 .. num /\ r.b =< m /\ m =< r.t /\ m < r.t
      /\ r \in [b : Int, t : Int]
  BY SearchAssumption DEF NodeAssumption, Bracket, Large
<1>2. Diff(x, k[m]) = x - k[m] /\ k[m] \in Int /\ x \in Int
  BY <1>1, DiffIsExact, SearchAssumption DEF NodeAssumption, KeyType
<1>3. /\ x > k[m] => Halve(k, r, x) = [r EXCEPT !.b = m + 1]
      /\ x < k[m] => Halve(k, r, x) = [r EXCEPT !.t = m - 1]
      /\ x = k[m] => Halve(k, r, x) = [b |-> m + 1, t |-> m]
  BY <1>2 DEF Halve
<1> HIDE DEF m
<1>4. \A i \in 1 .. num : /\ i < m => k[i] < k[m]
                          /\ m < i => k[m] < k[i]
                          /\ k[i] \in Int
  BY <1>1, SearchAssumption DEF NodeAssumption, KeyType
<1>5. num \in Nat /\ r.b \in Int /\ r.t \in Int /\ m \in Int /\ 1 =< r.b /\ r.t =< num
  BY <1>1 DEF NodeAssumption, Bracket
<1>6. /\ \A i \in 1 .. num : i < r.b => k[i] =< x
      /\ \A i \in 1 .. num : r.t < i => x < k[i]
  BY DEF Bracket
<1>7. CASE x > k[m]
  <2>1. \A i \in 1 .. num : i < m + 1 => k[i] =< x
    BY <1>2, <1>4, <1>5, <1>7
  <2> QED
    BY <1>1, <1>3, <1>5, <1>6, <1>7, <2>1 DEF Bracket
<1>8. CASE x < k[m]
  <2>1. \A i \in 1 .. num : m - 1 < i => x < k[i]
    BY <1>2, <1>4, <1>5, <1>8
  <2> QED
    BY <1>1, <1>3, <1>5, <1>6, <1>8, <2>1 DEF Bracket
<1>9. CASE x = k[m]
  <2>1. \A i \in 1 .. num : (i < m + 1 => k[i] =< x) /\ (m < i => x < k[i])
    BY <1>2, <1>4, <1>5, <1>9
  <2> QED
    BY <1>1, <1>3, <1>5, <1>9, <2>1 DEF Bracket
<1> QED
  BY <1>2, <1>7, <1>8, <1>9

\* So does one round of the scan.
LEMMA ScanNarrows ==
  ASSUME NodeAssumption, NEW r, Bracket(r), Passes(k, r, x)
  PROVE  Bracket(Scan(r)) /\ Scan(r).t - Scan(r).b < r.t - r.b
<1>1. /\ r.b \in 1 .. num /\ r \in [b : Int, t : Int]
      /\ Scan(r) = [r EXCEPT !.b = r.b + 1]
  BY DEF NodeAssumption, Bracket, Passes, Scan
<1>2. /\ \A i \in 1 .. num : (i < r.b => k[i] < k[r.b]) /\ k[i] \in Int
      /\ x \in Int /\ k[r.b] \in Int /\ k[r.b] =< x
  BY <1>1, SearchAssumption DEF NodeAssumption, KeyType, Passes
<1>3. /\ num \in Nat /\ r.b \in Int /\ r.t \in Int
      /\ 1 =< r.b /\ r.b =< r.t /\ r.t =< num
      /\ \A i \in 1 .. num : r.t < i => x < k[i]
  BY <1>1 DEF NodeAssumption, Bracket, Passes
<1>4. \A i \in 1 .. num : i < r.b + 1 => k[i] =< x
  <2> SUFFICES ASSUME NEW i \in 1 .. num, i < r.b + 1 PROVE k[i] =< x
    OBVIOUS
  <2>1. i = r.b \/ i < r.b
    BY <1>3
  <2>2. CASE i = r.b
    BY <1>2, <2>2
  <2>3. CASE i < r.b
    <3>1. k[i] < k[r.b] /\ k[i] \in Int
      BY <1>2, <2>3
    <3> QED
      BY <1>2, <3>1
  <2> QED
    BY <2>1, <2>2, <2>3
<1>5. /\ Scan(r) \in [b : Int, t : Int]
      /\ Scan(r).b = r.b + 1 /\ Scan(r).t = r.t
  BY <1>1, <1>3
<1> QED
  BY <1>3, <1>4, <1>5 DEF Bracket

\* When it stops, it is at the child.
LEMMA StopsAtChild ==
  ASSUME NodeAssumption, NEW r, Bracket(r), ~Passes(k, r, x)
  PROVE  IsChild(r.b - 1)
<1>1. /\ r.b \in Int /\ r.t \in Int /\ 1 =< r.b /\ r.b =< r.t + 1 /\ r.t =< num /\ num \in Nat
      /\ x \in Int /\ \A i \in 1 .. num : k[i] \in Int
  BY SearchAssumption DEF Bracket, NodeAssumption, KeyType
<1>2. \A i \in 1 .. num : i < r.b => k[i] =< x
  BY DEF Bracket
<1>3. \A i \in 1 .. num : r.b =< i => x < k[i]
  <2>1. CASE r.b =< r.t
    <3>1. x < k[r.b]
      BY <1>1, <2>1 DEF Passes
    <3> QED
      BY <1>1, <2>1, <3>1 DEF NodeAssumption
  <2>2. CASE r.b = r.t + 1
    BY <1>1, <2>2 DEF Bracket
  <2> QED
    BY <1>1, <2>1, <2>2
<1> QED
  BY <1>1, <1>2, <1>3 DEF IsChild

LEMMA InitInv == NodeAssumption /\ Init => Inv
  BY DEF NodeAssumption, Init, Inv, Bracket, FindsChild

LEMMA NextInv == NodeAssumption /\ Inv /\ [Next]_<<s, pos>> => Inv'
<1> SUFFICES ASSUME NodeAssumption, Inv, [Next]_<<s, pos>> PROVE Inv'
  OBVIOUS
<1>1. CASE Narrow
  BY <1>1, HalveNarrows DEF Narrow, Inv, Bracket, FindsChild
<1>2. CASE GoOn
  BY <1>2, ScanNarrows DEF GoOn, Inv, Bracket, FindsChild
<1>3. CASE Found
  BY <1>3, StopsAtChild DEF Found, Inv, Bracket, FindsChild
<1>4. CASE UNCHANGED <<s, pos>>
  BY <1>4 DEF Inv, Bracket, FindsChild
<1> QED
  BY <1>1, <1>2, <1>3, <1>4 DEF Next

(***************************************************************************)
(* lbtree.cc:497-507: in a node of any size the search takes the child     *)
(* under which its key belongs, unless keys are so far apart that their    *)
(* difference wraps around.                                                *)
(***************************************************************************)
THEOREM SearchFindsChild == ASSUME NodeAssumption PROVE Spec => []FindsChild
<1>1. Init => Inv
  BY InitInv
<1>2. Inv /\ [Next]_<<s, pos>> => Inv'
  BY NextInv
<1>3. Inv => FindsChild
  BY DEF Inv
<1> QED
  BY <1>1, <1>2, <1>3, PTL DEF Spec

(***************************************************************************)
(* lbtree.cc:497-507: both loops end, as each round makes the range        *)
(* smaller.                                                                *)
(***************************************************************************)
THEOREM SearchShrinks == ASSUME NodeAssumption PROVE Spec => Shrinks
<1>1. Inv /\ [Next]_<<s, pos>> =>
        [pos' = -1 => s'.t - s'.b < s.t - s.b /\ -1 =< s'.t - s'.b]_<<s, pos>>
  <2> SUFFICES ASSUME Inv, Next, pos' = -1
               PROVE  s'.t - s'.b < s.t - s.b /\ -1 =< s'.t - s'.b
    OBVIOUS
  <2>1. CASE Narrow
    BY <2>1, HalveNarrows DEF Narrow, Inv, Bracket
  <2>2. CASE GoOn
    BY <2>2, ScanNarrows DEF GoOn, Inv, Bracket
  <2>3. CASE Found
    BY <2>3 DEF Found, Inv, Bracket
  <2> QED
    BY <2>1, <2>2, <2>3 DEF Next
<1> QED
  BY <1>1, InitInv, NextInv, PTL DEF Spec, Shrinks
=============================================================================
