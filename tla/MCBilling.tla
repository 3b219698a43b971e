------------------------------ MODULE MCBilling ------------------------------
(***************************************************************************)
(* Instances of Billing, with what it records, for TLC.                    *)
(***************************************************************************)
EXTENDS StatusHistory, TLC

UpToTwo == 0 .. 2

Interchangeable == Permutations(Workers) \cup Permutations(Keys)
=============================================================================
