\* Two requests at a time on one OS that costs one.
SPECIFICATION HistorySpec
CONSTANTS
  Orders = {car}
  Prices = {1}
  Keys = {k1}
  Workers = {w1, w2}
  Idle = Idle
INVARIANTS PaidMeansDelivered
