\* One OS, two withdrawals in progress: do they ask for more than its scope?
SPECIFICATION Spec
CONSTANTS
  brake = brake
  oil = oil
  Orders = {1}
  Products = {brake}
  Scopes <- OneProductScopes
  RowIds = {w1, w2}
  MaxStock = 2
  MaxRequest = 0
  MaxLoose = 0
  MaxSent = 1
  Interventions = {}
INVARIANTS RequestsWithinScope
CHECK_DEADLOCK FALSE
