----------------------------- MODULE MCScheduler ----------------------------
(***************************************************************************)
(* Scheduler for TLC: workers and requests are interchangeable model       *)
(* values.                                                                 *)
(***************************************************************************)
EXTENDS Scheduler, TLC

CONSTANTS p1, p2, q1

TwoPasses == {p1, p2}
OnePass == {p1}
OneRequest == {q1}
MCSymmetry == Permutations(TwoPasses)
=============================================================================
