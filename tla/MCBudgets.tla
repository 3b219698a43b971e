----------------------------- MODULE MCBudgets -----------------------------
(***************************************************************************)
(* Instances of BudgetRevisions for TLC.                                   *)
(***************************************************************************)
EXTENDS BudgetRevisions, TLC

Interchangeable == Permutations(Requests) \cup Permutations(Lines)
=============================================================================
