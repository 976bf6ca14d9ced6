------------------------------ MODULE MCNvmLog ------------------------------
(***************************************************************************)
(* A log of four lines with three log bytes each, one address and one      *)
(* node: a WRITE record spans two lines, and transactions wrap around the  *)
(* log.                                                                    *)
(***************************************************************************)
EXTENDS NvmLogAccount

MCAddr  == {1}
MCNode  == {2}
MCValue == {0, 1}
=============================================================================
