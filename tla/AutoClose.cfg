\* One opening, and nobody but the automatic machinery to close its session.
SPECIFICATION Spec
CONSTANTS
  o1 = o1
  o2 = o2
  c1 = c1
  c2 = c2
  q = q
  Openings <- OneOpening
  StopRuns = {c1, c2}
  CleanupRuns = {q}
  NoRun = NoRun
  Manual = Manual
  Emergency = Emergency
  Starters = {Emergency}
  MaxAttempt = 1
  ExpiresAt = 1
  TeardownEnd = 2
  WindowEnd = 3
  CleanupDeadline = 3
  CloseLease = 3
  AuthTtl = 1
  Gaps = {"open", "auto-stop", "stop name", "emergency", "audit"}
  MaxFaults = 0
  MaxReruns = 0
PROPERTY BuiltIsClosed
