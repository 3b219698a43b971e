---------------------------- MODULE MCLifecycle ----------------------------
(***************************************************************************)
(* Small instances of Lifecycle: two openings, two stops, one cleanup.     *)
(***************************************************************************)
EXTENDS Lifecycle, TLC

CONSTANTS o1, o2, c1, c2, q

TwoOpenings == <<o1, o2>>
OneOpening == <<o1>>
StopSymmetry == Permutations(StopRuns)
=============================================================================
