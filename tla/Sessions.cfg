\* Two requests at a time; two names, of which one is a user's; three failures
\* within two ticks lock for two; room for one bucket; three sessions.
SPECIFICATION Spec
CONSTANTS
  ana = ana
  nobody = nobody
  Names <- MCNames
  Staff <- MCStaff
  Requests = {q1, q2}
  MaxAttempts = 3
  Window = 2
  Lockout = 2
  MaxBuckets = 1
  MaxRow = 3
SYMMETRY Interchangeable
INVARIANTS
  TypeOK
  OneLiveSession
  TriesBounded
PROPERTIES
  RevocationHolds
  LockoutHolds
