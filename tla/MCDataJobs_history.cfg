\* Three jobs on two datasets, both processing modes: retries, previews and
\* confirmations that race for the same version.
CONSTANTS
  Users = {u1}
  Workers = {w1}
  Modes = {"STREAM", "LEGACY"}
  TotalLimit = 3
  WaitingLimit = 2
  DatasetLimit = 2
  MaxVersions = 3
  MaxAttempts = 1
  LeaseTime = 1
SPECIFICATION Spec
INVARIANTS
  LinearHistory
  OneImport
PROPERTIES
  ImplementsHistory
CHECK_DEADLOCK FALSE
