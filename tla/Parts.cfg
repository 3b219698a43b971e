\* Two OSs compete for one product while budgets are revised, statuses
\* overridden, purchases made by hand and the stock corrected.
SPECIFICATION Spec
CONSTANTS
  brake = brake
  oil = oil
  Orders <- Two
  Products = {brake}
  Scopes <- OneProductScopes
  RowIds = {w1, w2}
  MaxStock = 2
  MaxRequest = 1
  MaxLoose = 1
  MaxSent = 1
  Interventions = {"ADJUST", "OVERRIDE", "PURCHASE", "RECONCILE", "REVISION"}
SYMMETRY RowSymmetry
INVARIANTS TypeOK ScopeRespected
PROPERTIES OnlyCorrectionOverReserves FirstComeFirstServed PreemptionLeavesBackorder KeepsTheJob
