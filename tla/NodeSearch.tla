----------------------------- MODULE NodeSearch -----------------------------
(***************************************************************************)
(* The search of a key in a bnode, the same loops in lookup, insert and    *)
(* del: halve the range while it has more than 8 entries, and go through   *)
(* what is left.  A range is k(b) .. k(t); a key that is hit ends the      *)
(* search, as the empty range after it.                                    *)
(***************************************************************************)
EXTENDS Integers

CONSTANTS
    Window,             \* the 7 in b+7<=t
    HalfRange           \* keys are -HalfRange .. HalfRange - 1: 2^63 in the build

ASSUME SearchAssumption == Window \in Nat \ {0} /\ HalfRange \in Nat \ {0}

KeyType == -HalfRange .. HalfRange - 1

\* r = key - p->k(m), in a key_type: it wraps around.
Diff(x, y) == ((x - y + HalfRange) % (2 * HalfRange)) - HalfRange

\* Keys whose difference is a key_type.
Near(x, y) == x - y \in KeyType

Large(s) == s.b + Window =< s.t

\* Slip: a key that is hit goes to its left.
HalveLeft(k, s, x) ==
    LET m == (s.b + s.t) \div 2
    IN IF Diff(x, k[m]) > 0 THEN [s EXCEPT !.b = m + 1] ELSE [s EXCEPT !.t = m - 1]

Halve(k, s, x) ==
    LET m == (s.b + s.t) \div 2
        r == Diff(x, k[m])
    IN CASE r > 0 -> [s EXCEPT !.b = m + 1]
         [] r < 0 -> [s EXCEPT !.t = m - 1]
         [] OTHER -> [b |-> m + 1, t |-> m]

\* Slip: <= for <, so a key equal to a separator goes to its left.
PassesLarger(k, s, x) == s.b =< s.t /\ k[s.b] < x

\* for (; b<=t; b++) if (key < p->k(b)) break;
Passes(k, s, x) == s.b =< s.t /\ k[s.b] =< x

Scan(s) == [s EXCEPT !.b = @ + 1]

\* The position of the child under which key x belongs.  The range only
\* shrinks: the first loop does not come back.
ChildOf(k, num, x) ==
    LET f[s \in [b : 1 .. num + 1, t : 0 .. num]] ==
          IF Large(s) THEN f[Halve(k, s, x)]
          ELSE IF Passes(k, s, x) THEN f[Scan(s)] ELSE s.b - 1
    IN f[[b |-> 1, t |-> num]]
=============================================================================
