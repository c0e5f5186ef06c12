----------------------------- MODULE MCPlanner ------------------------------
(***************************************************************************)
(* A small instance of Planner for TLC.  Runs and deltas are interchange-  *)
(* able, and no liveness is checked, so both may be permuted.              *)
(***************************************************************************)
EXTENDS Planner, TLC

CONSTANTS r1, r2, d1, d2

OneRun == {r1}
TwoRuns == {r1, r2}
TwoDeltas == {d1, d2}
InterchangeableRuns == Permutations(TwoRuns)
InterchangeableDeltas == Permutations(TwoDeltas)
=============================================================================
