\* One OS whose budget is revised: does it keep its parts while in execution?
SPECIFICATION Spec
CONSTANTS
  brake = brake
  oil = oil
  Orders = {1}
  Products = {brake}
  Scopes <- OneProductScopes
  RowIds = {w1}
  MaxStock = 2
  MaxRequest = 0
  MaxLoose = 0
  MaxSent = 1
  Interventions = {"REVISION"}
INVARIANTS ExecutionKeepsItsParts
CHECK_DEADLOCK FALSE
