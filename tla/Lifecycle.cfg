\* One session, two openings, two stops, the cleanup and the emergency stop.
SPECIFICATION Spec
CONSTANTS
  o1 = o1
  o2 = o2
  c1 = c1
  c2 = c2
  q = q
  Openings <- TwoOpenings
  StopRuns = {c1, c2}
  CleanupRuns = {q}
  NoRun = NoRun
  Manual = Manual
  Emergency = Emergency
  Starters = {Manual, Emergency}
  MaxAttempt = 2
  ExpiresAt = 1
  TeardownEnd = 2
  WindowEnd = 3
  CleanupDeadline = 3
  CloseLease = 3
  AuthTtl = 1
  Gaps = {}
  MaxFaults = 1
  MaxReruns = 1
SYMMETRY StopSymmetry
INVARIANTS
  TypeOK
  EvidenceComplete
  DestroyedByOneRun
  DestroyerHoldsLease
PROPERTIES
  TeardownSeenThrough
  ImplementsLease
