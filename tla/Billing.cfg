\* Three requests at a time finish, edit, bill, pay and deliver one OS of
\* any total up to two, leaving its audit trail.
SPECIFICATION HistorySpec
CONSTANTS
  Orders = {car}
  Prices <- UpToTwo
  Keys = {k1, k2}
  Workers = {w1, w2, w3}
  Idle = Idle
SYMMETRY Interchangeable
INVARIANTS TypeOK LedgerAgrees DeliveredMeansPaid EventsOnRecord
PROPERTIES OnlyStaleWritesReopen AuditTrail
