---------------------------- MODULE MCTaskEngine ----------------------------
(***************************************************************************)
(* TaskEngine for TLC: worker processes are interchangeable model values.  *)
(***************************************************************************)
EXTENDS TaskEngine, TLC

CONSTANTS w1, w2

MCWorkers == {w1, w2}
MCSymmetry == Permutations(MCWorkers)
=============================================================================
