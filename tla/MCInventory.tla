----------------------------- MODULE MCInventory -----------------------------
(***************************************************************************)
(* Instances of Inventory for TLC: small workshops.                        *)
(***************************************************************************)
EXTENDS Inventory, TLC

CONSTANTS brake, oil

Two == 1 .. 2
Three == 1 .. 3

\* No part, or two of the only product: one is a partial reservation.
OneProductScopes == [{brake} -> {0, 2}]

\* Everything up to one unit of each of two products.
TwoProductScopes == [{brake, oil} -> 0 .. 1]

RowSymmetry == Permutations(RowIds)

(***************************************************************************)
(* The allocation of ReservationQueue is the closed form of the loop of    *)
(* _reconcile_product_queue, which counts down what remains.  TLC compares *)
(* the two over every queue of four, three units each, before it runs.     *)
(***************************************************************************)
ASSUME LoopAssumption ==
  \A demand \in [1 .. 4 -> 0 .. 3], available \in 0 .. 13, q \in 1 .. 4 :
    Granted(demand, 1 .. 4, available, q)
      = Minimum(demand[q], Remaining(demand, <<1, 2, 3, 4>>, available)[q - 1])
=============================================================================
