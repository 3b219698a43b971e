\* Three OSs wait for one unit of each of two products and nobody intervenes:
\* statuses and backorders agree, and every OS is finished.
SPECIFICATION FairSpec
CONSTANTS
  brake = brake
  oil = oil
  Orders <- Three
  Products = {brake, oil}
  Scopes <- TwoProductScopes
  RowIds = {w1}
  MaxStock = 1
  MaxRequest = 0
  MaxLoose = 0
  MaxSent = 1
  Interventions = {}
INVARIANTS WaitingOrdersSettled
PROPERTIES EveryOrderFinishes
CHECK_DEADLOCK FALSE
