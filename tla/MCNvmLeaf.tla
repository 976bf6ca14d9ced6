------------------------------ MODULE MCNvmLeaf ------------------------------
(***************************************************************************)
(* A leaf of three slots on two lines: line 0 has the header and one slot, *)
(* the last line the other two and next[2].  Word 0 has the fingerprints   *)
(* of the first two slots and word 1 that of the third, so that, as in the *)
(* build, the last line's fingerprints are split between the words.  Four  *)
(* keys on three slots: a full leaf meets one more key and splits; slot 1  *)
(* filled with slot 2 empty is when entries are copied from line 0.        *)
(***************************************************************************)
EXTENDS NvmLeaf, TLC

CONSTANTS h0, h1, n1, n2

MCKeys       == 1 .. 4
MCHash       == {h0, h1}
MCHashcode1B == [k \in MCKeys |-> IF k % 2 = 0 THEN h0 ELSE h1]
MCLastSlot   == [s \in 0 .. 2 |-> IF s = 0 THEN 0 ELSE 2]
MCNodes      == {n1, n2}
MCSymmetry   == Permutations(MCNodes)
==============================================================================
