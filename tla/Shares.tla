------------------------------- MODULE Shares -------------------------------
(***************************************************************************)
(* How the driver shares the indexes of keys among its threads: all but    *)
(* the last get the same number, and the last what is left.  Where only    *)
(* every second key is meant, the number is even.                          *)
(***************************************************************************)
EXTENDS Integers

RangeOf(n, w, step) ==
    LET all == n \div w IN IF step = 2 /\ all % 2 = 1 THEN all - 1 ELSE all


\* Slip: one more key than the range.
EndBeyond(start, range, t, w, hi) == IF t < w - 1 THEN start + range + 1 ELSE hi

EndOf(start, range, t, w, hi) == IF t < w - 1 THEN start + range ELSE hi

\* Rounds of for (ii=start; ii<end; ii+=step).
Rounds(start, end, step) == IF end > start THEN (end - start + step - 1) \div step ELSE 0

Up(start, end, step) == [i \in 1 .. Rounds(start, end, step) |-> start + (i - 1) * step]

\* for (ii=start; ii>end; ii-=step)
Down(start, end, step) == [i \in 1 .. Rounds(end, start, step) |-> start - (i - 1) * step]

\* The indexes lo .. hi - 1 among w threads.
Parts(lo, hi, w, step) ==
    LET range == RangeOf(hi - lo, w, step)
    IN [t \in 0 .. w - 1 |->
          LET start == lo + range * t IN Up(start, EndOf(start, range, t, w, hi), step)]

\* From the right: all threads but the last stop at ekey - range.
PartsDown(ekey, skey, w) ==
    LET range == RangeOf(ekey - skey, w, 2)
    IN [t \in 0 .. w - 1 |->
          Down(ekey - range * t, IF t < w - 1 THEN ekey - range ELSE skey, 2)]
=============================================================================
