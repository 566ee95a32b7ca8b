CONSTANTS
  Users = {u1}
  Keys = {k1, k2}
  Requests <- AllRequests
  Workers = {w1, w2}
  TotalLimit = 1
  WaitingLimit = 1
  DatasetLimit = 1
  MaxVersions = 2
  MaxAttempts = 2
  LeaseTime = 1

SPECIFICATION FairSpec

INVARIANTS
  AnswersTheRequest
  SnapshotsAccounted
  OneLivePreview
  DatasetsBound

PROPERTIES
  OnlyWritersSucceed
  ImplementsOutcome
  TasksEnd
  SnapshotsSettle

CHECK_DEADLOCK FALSE
