---------------------------- MODULE Shares_proofs ----------------------------
(***************************************************************************)
(* The threads of the driver get every index once, however many threads    *)
(* and keys there are.                                                     *)
(***************************************************************************)
EXTENDS Shares, TLAPS

\* A larger index of a thread puts its start at least a range further.
LEMMA StartsApart ==
  ASSUME NEW range \in Nat, NEW t \in Nat, NEW u \in Nat, t < u
  PROVE  range * t + range =< range * u
<1>1. PICK d \in Nat : u = t + 1 + d
  <2>1. u - t - 1 \in Nat /\ u = t + 1 + (u - t - 1)
    OBVIOUS
  <2> QED
    BY <2>1
<1>2. range * u = range * t + range + range * d
  BY <1>1
<1>3. range * d >= 0 /\ range * d \in Int /\ range * t \in Int
  BY <1>1
<1> QED
  BY <1>2, <1>3

\* All ranges together fit; each is a multiple of the step.
LEMMA RangesFit ==
  ASSUME NEW n \in Nat, NEW w \in Nat \ {0}, NEW step \in {1, 2}
  PROVE  /\ RangeOf(n, w, step) \in Nat
         /\ RangeOf(n, w, step) * w =< n
         /\ \E q \in Nat : RangeOf(n, w, step) = step * q
<1> DEFINE all == n \div w
<1>1. all \in Nat /\ w * all =< n
  OBVIOUS
<1>2. RangeOf(n, w, step) = IF step = 2 /\ all % 2 = 1 THEN all - 1 ELSE all
  BY DEF RangeOf
<1> HIDE DEF all
<1>3. CASE step = 2 /\ all % 2 = 1
  <2>1. all >= 1 /\ all - 1 = 2 * (all \div 2) /\ all \div 2 \in Nat
    BY <1>1, <1>3
  <2>2. (all - 1) * w = w * all - w
    BY <1>1
  <2>3. w * all \in Int
    BY <1>1
  <2>4. RangeOf(n, w, step) = all - 1
    BY <1>2, <1>3
  <2> QED
    BY <1>1, <1>3, <2>1, <2>2, <2>3, <2>4
<1>4. CASE ~(step = 2 /\ all % 2 = 1)
  <2>1. RangeOf(n, w, step) = all
    BY <1>2, <1>4
  <2>2. all * w =< n
    BY <1>1
  <2>3. \E q \in Nat : all = step * q
    <3>1. CASE step = 1
      <4>1. all = step * all
        BY <1>1, <3>1
      <4> QED
        BY <1>1, <4>1
    <3>2. CASE step = 2
      <4>1. all = 2 * (all \div 2) /\ all \div 2 \in Nat
        BY <1>1, <1>4, <3>2
      <4> QED
        BY <3>2, <4>1
    <3> QED
      BY <3>1, <3>2
  <2> QED
    BY <1>1, <2>1, <2>2, <2>3
<1> QED
  BY <1>3, <1>4

\* What a loop visits: each index of its range at its step, once.
LEMMA UpVisits ==
  ASSUME NEW start \in Int, NEW end \in Int, NEW step \in {1, 2}
  PROVE  /\ \A i \in 1 .. Rounds(start, end, step) :
              Up(start, end, step)[i] = start + (i - 1) * step /\ start + (i - 1) * step < end
         /\ \A q \in Nat : start + q * step < end => q + 1 \in 1 .. Rounds(start, end, step)
         /\ Rounds(start, end, step) \in Nat
<1>1. Rounds(start, end, step) \in Nat
  BY DEF Rounds
<1>2. \A i \in 1 .. Rounds(start, end, step) : Up(start, end, step)[i] = start + (i - 1) * step
  BY DEF Up
<1>3. CASE step = 1
  BY <1>1, <1>2, <1>3 DEF Rounds
<1>4. CASE step = 2
  BY <1>1, <1>2, <1>4 DEF Rounds
<1> QED
  BY <1>3, <1>4

-----------------------------------------------------------------------------
\* Some thread calls something for index n.
Visits(lo, hi, w, step, n) ==
    \E t \in 0 .. w - 1 : \E i \in DOMAIN Parts(lo, hi, w, step)[t] :
        Parts(lo, hi, w, step)[t][i] = n

StartOf(lo, hi, w, step, t) == lo + RangeOf(hi - lo, w, step) * t
StopOf(lo, hi, w, step, t) ==
    EndOf(StartOf(lo, hi, w, step, t), RangeOf(hi - lo, w, step), t, w, hi)

LEMMA PartIsUp ==
  ASSUME NEW lo \in Int, NEW hi \in Int, NEW w \in Nat \ {0}, NEW step \in {1, 2},
         NEW t \in 0 .. w - 1
  PROVE  Parts(lo, hi, w, step)[t] =
           Up(StartOf(lo, hi, w, step, t), StopOf(lo, hi, w, step, t), step)
BY DEF Parts, StartOf, StopOf

\* Each thread's interval is within lo .. hi - 1 and below the next one's.
LEMMA IntervalsApart ==
  ASSUME NEW lo \in Int, NEW hi \in Int, lo =< hi, NEW w \in Nat \ {0}, NEW step \in {1, 2},
         NEW t \in 0 .. w - 1
  PROVE  /\ StartOf(lo, hi, w, step, t) \in Int /\ StopOf(lo, hi, w, step, t) \in Int
         /\ lo =< StartOf(lo, hi, w, step, t) /\ StopOf(lo, hi, w, step, t) =< hi
         /\ \E q \in Nat : StartOf(lo, hi, w, step, t) = lo + q * step
         /\ \A u \in 0 .. w - 1 :
              t < u => StopOf(lo, hi, w, step, t) =< StartOf(lo, hi, w, step, u)
<1> DEFINE range == RangeOf(hi - lo, w, step)
<1>1. hi - lo \in Nat
  OBVIOUS
<1>2. range \in Nat /\ range * w =< hi - lo /\ \E q \in Nat : range = step * q
  BY <1>1, RangesFit
<1>3. /\ StartOf(lo, hi, w, step, t) = lo + range * t
      /\ StopOf(lo, hi, w, step, t) = IF t < w - 1 THEN lo + range * t + range ELSE hi
      /\ \A u \in 0 .. w - 1 : StartOf(lo, hi, w, step, u) = lo + range * u
  BY DEF StartOf, StopOf, EndOf
<1> HIDE DEF range
<1>4. range * t \in Nat /\ range * w \in Nat /\ \A u \in 0 .. w - 1 : range * u \in Nat
  BY <1>2
<1>5. range * t + range =< range * w
  BY <1>2, StartsApart
<1>6. \A u \in 0 .. w - 1 : t < u => range * t + range =< range * u
  BY <1>2, StartsApart
<1>7. \E q \in Nat : range * t = q * step
  <2>1. PICK q \in Nat : range = step * q
    BY <1>2
  <2>2. range * t = (q * t) * step /\ q * t \in Nat
    <3>1. CASE step = 1
      BY <2>1, <3>1
    <3>2. CASE step = 2
      BY <2>1, <3>2
    <3> QED
      BY <3>1, <3>2
  <2> QED
    BY <2>2
<1>8. \A u \in 0 .. w - 1 : t < u => t < w - 1
  OBVIOUS
<1> QED
  BY <1>2, <1>3, <1>4, <1>5, <1>6, <1>7, <1>8

\* Every index is in some thread's interval.
LEMMA IntervalsCover ==
  ASSUME NEW lo \in Int, NEW hi \in Int, lo =< hi, NEW w \in Nat \ {0}, NEW step \in {1, 2},
         NEW n \in lo .. hi - 1
  PROVE  \E t \in 0 .. w - 1 :
            StartOf(lo, hi, w, step, t) =< n /\ n < StopOf(lo, hi, w, step, t)
<1> DEFINE range == RangeOf(hi - lo, w, step)
           m == n - lo
<1>1. hi - lo \in Nat /\ m \in Nat
  OBVIOUS
<1>2. range \in Nat
  BY <1>1, RangesFit
<1>3. \A t \in 0 .. w - 1 :
        /\ StartOf(lo, hi, w, step, t) = lo + range * t
        /\ StopOf(lo, hi, w, step, t) = IF t < w - 1 THEN lo + range * t + range ELSE hi
  BY DEF StartOf, StopOf, EndOf
<1> HIDE DEF range
<1>4. \E t \in 0 .. w - 1 : range * t =< m /\ (t < w - 1 => m < range * t + range)
  <2>1. CASE range = 0
    <3>1. range * (w - 1) = 0
      BY <2>1
    <3> QED
      BY <1>1, <3>1
  <2>2. CASE range > 0
    <3> DEFINE a == m \div range
    <3>1. a \in Nat /\ range * a =< m /\ m < range * a + range
      BY <1>1, <1>2, <2>2
    <3> HIDE DEF a, m
    <3>2. CASE a < w - 1
      BY <3>1, <3>2
    <3>3. CASE a >= w - 1
      <4>1. range * (w - 1) =< m
        <5>1. CASE a = w - 1
          BY <3>1, <5>1
        <5>2. CASE a > w - 1
          <6>1. range * (w - 1) + range =< range * a
            BY <1>2, <3>1, <5>2, StartsApart
          <6>2. range * (w - 1) \in Int /\ range * a \in Int /\ m \in Int
            BY <1>1, <1>2, <3>1
          <6> QED
            BY <1>2, <3>1, <6>1, <6>2
        <5> QED
          BY <3>1, <3>3, <5>1, <5>2
      <4> QED
        BY <4>1
    <3> QED
      BY <3>1, <3>2, <3>3
  <2> QED
    BY <1>2, <2>1, <2>2
<1>5. PICK t \in 0 .. w - 1 : range * t =< m /\ (t < w - 1 => m < range * t + range)
  BY <1>4
<1>6. range * t \in Int
  BY <1>2
<1>7. StartOf(lo, hi, w, step, t) =< n /\ n < StopOf(lo, hi, w, step, t)
  BY <1>2, <1>3, <1>5, <1>6
<1> QED
  BY <1>7

\* What a thread visits.
LEMMA PartVisits ==
  ASSUME NEW lo \in Int, NEW hi \in Int, lo =< hi, NEW w \in Nat \ {0}, NEW step \in {1, 2},
         NEW t \in 0 .. w - 1, NEW i \in DOMAIN Parts(lo, hi, w, step)[t]
  PROVE  /\ i \in Nat /\ i >= 1
         /\ Parts(lo, hi, w, step)[t][i] = StartOf(lo, hi, w, step, t) + (i - 1) * step
         /\ Parts(lo, hi, w, step)[t][i] < StopOf(lo, hi, w, step, t)
<1> DEFINE s == StartOf(lo, hi, w, step, t)
           e == StopOf(lo, hi, w, step, t)
<1>1. s \in Int /\ e \in Int
  BY IntervalsApart
<1>2. Parts(lo, hi, w, step)[t] = Up(s, e, step)
  BY PartIsUp
<1>3. i \in 1 .. Rounds(s, e, step)
  BY <1>2 DEF Up
<1> HIDE DEF s, e
<1>4. /\ \A j \in 1 .. Rounds(s, e, step) :
            Up(s, e, step)[j] = s + (j - 1) * step /\ s + (j - 1) * step < e
      /\ Rounds(s, e, step) \in Nat
  BY <1>1, UpVisits, ZenonT(60)
<1> QED
  BY <1>2, <1>3, <1>4 DEF s, e

(***************************************************************************)
(* tree.cc:833-834 and its like, all rounds but the deletions from the     *)
(* right: the threads together visit each index the loops mean, up to the  *)
(* last one, also when the division leaves a rest.                         *)
(***************************************************************************)
THEOREM EveryIndexVisited ==
  ASSUME NEW lo \in Int, NEW hi \in Int, lo =< hi, NEW w \in Nat \ {0}, NEW step \in {1, 2},
         NEW q \in Nat, lo + q * step < hi
  PROVE  Visits(lo, hi, w, step, lo + q * step)
<1> DEFINE n == lo + q * step
           S(t) == StartOf(lo, hi, w, step, t)
           E(t) == StopOf(lo, hi, w, step, t)
<1>1. n \in lo .. hi - 1
  OBVIOUS
<1>2. PICK t \in 0 .. w - 1 : S(t) =< n /\ n < E(t)
  BY <1>1, IntervalsCover
<1>3. PICK r \in Nat : S(t) = lo + r * step
  BY IntervalsApart, ZenonT(60)
<1>4. S(t) \in Int /\ E(t) \in Int
  BY IntervalsApart
<1>5. q - r \in Nat /\ n = S(t) + (q - r) * step
  BY <1>2, <1>3
<1> DEFINE s == S(t)
           e == E(t)
           i == q - r + 1
<1> HIDE DEF S, E, s, e, i
<1>6. /\ \A j \in 1 .. Rounds(s, e, step) :
            Up(s, e, step)[j] = s + (j - 1) * step /\ s + (j - 1) * step < e
      /\ \A d \in Nat : s + d * step < e => d + 1 \in 1 .. Rounds(s, e, step)
      /\ Rounds(s, e, step) \in Nat
  <2>1. s \in Int /\ e \in Int
    BY <1>4 DEF s, e
  <2> QED
    BY <2>1, UpVisits, ZenonT(60)
<1>7. i \in 1 .. Rounds(s, e, step) /\ i - 1 = q - r
  BY <1>2, <1>5, <1>6 DEF s, e, i
<1>8. Up(s, e, step)[i] = n
  BY <1>5, <1>6, <1>7 DEF s
<1>9. Parts(lo, hi, w, step)[t] = Up(s, e, step)
  BY PartIsUp DEF s, e, S, E
<1>10. i \in DOMAIN Up(s, e, step)
  BY <1>7 DEF Up
<1> QED
  BY <1>8, <1>9, <1>10 DEF Visits

\* They visit no index past the last, and with step 2 only every second one,
\* whichever thread it falls to.
THEOREM NoOtherIndexVisited ==
  ASSUME NEW lo \in Int, NEW hi \in Int, lo =< hi, NEW w \in Nat \ {0}, NEW step \in {1, 2},
         NEW n, Visits(lo, hi, w, step, n)
  PROVE  n < hi /\ \E q \in Nat : n = lo + q * step
<1> DEFINE S(t) == StartOf(lo, hi, w, step, t)
           E(t) == StopOf(lo, hi, w, step, t)
<1>1. PICK t \in 0 .. w - 1 : \E i \in DOMAIN Parts(lo, hi, w, step)[t] :
                                 Parts(lo, hi, w, step)[t][i] = n
  BY DEF Visits
<1>2. PICK i \in DOMAIN Parts(lo, hi, w, step)[t] : Parts(lo, hi, w, step)[t][i] = n
  BY <1>1
<1>3. i \in Nat /\ i >= 1 /\ n = S(t) + (i - 1) * step /\ n < E(t)
  BY <1>2, PartVisits
<1>4. S(t) \in Int /\ E(t) \in Int /\ E(t) =< hi
  BY IntervalsApart
<1>5. PICK r \in Nat : S(t) = lo + r * step
  BY IntervalsApart, ZenonT(60)
<1> HIDE DEF S, E
<1>6. n = lo + (r + (i - 1)) * step /\ r + (i - 1) \in Nat
  BY <1>3, <1>5
<1>7. n < hi
  <2>1. n \in Int
    BY <1>3, <1>4
  <2> QED
    BY <1>3, <1>4, <2>1
<1> QED
  BY <1>6, <1>7

\* No index is visited by two threads, or twice by one.
THEOREM NoIndexTwice ==
  ASSUME NEW lo \in Int, NEW hi \in Int, lo =< hi, NEW w \in Nat \ {0}, NEW step \in {1, 2},
         NEW t \in 0 .. w - 1, NEW u \in 0 .. w - 1,
         NEW i \in DOMAIN Parts(lo, hi, w, step)[t],
         NEW j \in DOMAIN Parts(lo, hi, w, step)[u],
         Parts(lo, hi, w, step)[t][i] = Parts(lo, hi, w, step)[u][j]
  PROVE  t = u /\ i = j
<1> DEFINE S(v) == StartOf(lo, hi, w, step, v)
           E(v) == StopOf(lo, hi, w, step, v)
           n == Parts(lo, hi, w, step)[t][i]
<1>1. S(t) \in Int /\ E(t) \in Int /\ S(u) \in Int /\ E(u) \in Int
  BY IntervalsApart
<1>2. /\ n = S(t) + (i - 1) * step /\ n < E(t)
      /\ n = S(u) + (j - 1) * step /\ n < E(u)
      /\ i \in Nat /\ i >= 1 /\ j \in Nat /\ j >= 1
  BY PartVisits
<1>3. (t < u => E(t) =< S(u)) /\ (u < t => E(u) =< S(t))
  BY IntervalsApart
<1> HIDE DEF S, E, n
<1>4. S(t) =< n /\ S(u) =< n /\ n \in Int
  BY <1>1, <1>2
<1>5. t = u
  BY <1>1, <1>2, <1>3, <1>4
<1>6. (i - 1) * step = (j - 1) * step
  BY <1>1, <1>2, <1>5
<1>7. i = j
  <2>1. CASE step = 1
    BY <1>2, <1>6, <2>1
  <2>2. CASE step = 2
    BY <1>2, <1>6, <2>2
  <2> QED
    BY <2>1, <2>2
<1> QED
  BY <1>5, <1>7
=============================================================================
