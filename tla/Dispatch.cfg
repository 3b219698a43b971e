\* Three attempts, two failing calls, two runs that create what is destroyed.
SPECIFICATION FairSpec
CONSTANTS
  p = p
  q = q
  Applies <- MCApplies
  MaxAttempt = 3
  MaxFaults = 2
INVARIANTS
  TypeOK
  DoneInTime
  NeverWithAnApply
PROPERTIES
  ImplementsOperation
  EveryAttemptEnds
CHECK_DEADLOCK FALSE
