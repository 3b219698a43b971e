\* A budget and a revision of it, each of up to two lines, two links, and
\* two requests at a time.  A quotation that was refused is the end.
SPECIFICATION Spec
CHECK_DEADLOCK FALSE
CONSTANTS
  Requests = {r1, r2}
  Lines = {l1}
  MaxUnits = 1
  Corrections = {"RECEBIDA", "EM_DIAGNOSTICO"}
  MaxBudgets = 2
  MaxLinks = 2
SYMMETRY Interchangeable
INVARIANTS TypeOK HonouredLinkIsSpent AgreeUnlessStale
PROPERTIES SentIsFrozen
