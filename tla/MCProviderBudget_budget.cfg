CONSTANTS
  Users = {"ada", "ben"}
  Names <- TwoAndAPlan
  Amount = 2
  Budget = 3
  LastDay = 2
  PendingLimit = 1
  LeaseTime = 2
SPECIFICATION FairSpec
INVARIANTS CallsWithinBudget
PROPERTIES ShownForward RequestsSettle
CHECK_DEADLOCK FALSE
