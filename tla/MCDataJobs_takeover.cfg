CONSTANTS
  Users = {u1}
  Workers = {w1, w2}
  Modes = {"STREAM"}
  TotalLimit = 1
  WaitingLimit = 1
  DatasetLimit = 1
  MaxVersions = 2
  MaxAttempts = 2
  LeaseTime = 2

SPECIFICATION FairSpec

INVARIANTS
  ResultsSealed
  PartsAccounted

PROPERTIES
  OnlyWritersPublish
  JobsEnd
  PartsSettle

CHECK_DEADLOCK FALSE
