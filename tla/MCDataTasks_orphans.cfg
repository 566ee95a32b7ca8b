\* What the documentation says of snapshots whose process died.
CONSTANTS
  Users = {u1}
  Keys = {k1}
  Requests <- OneSource
  Workers = {w1}
  TotalLimit = 1
  WaitingLimit = 1
  DatasetLimit = 1
  MaxVersions = 1
  MaxAttempts = 2
  LeaseTime = 1
SPECIFICATION FairSpec
PROPERTIES
  OrphansReleased
CHECK_DEADLOCK FALSE
