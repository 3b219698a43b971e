\* Two failing calls, two changes by hand, three changes of the definitions.
SPECIFICATION FairSpec
CONSTANTS
  a = a
  b = b
  first = first
  second = second
  Names <- MCNames
  Defined <- MCDefined
  Verified <- MCVerified
  Titles <- MCTitles
  Owners <- MCOwners
  PolicyNames <- MCPolicyNames
  Flaws <- MCFlaws
  MaxVersion = 4
  MaxDashboards = 2
  MaxFaults = 2
INVARIANTS
  TypeOK
  DoneAsAsked
PROPERTIES
  StaysWithinItsTask
  RecoversOrAsks
CHECK_DEADLOCK FALSE
