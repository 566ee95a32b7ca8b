CONSTANTS
  j1 = j1
  j2 = j2
  d1 = d1
  Processes = {p1, p2}
  Jobs = {j1, j2}
  Datasets = {d1}
  DatasetOf <- MCDatasetOf
  MaxVersions = 2

SPECIFICATION FairSpec

INVARIANTS
  WritersSerialized
  DetailConsistent
  CirclesNeedReport

PROPERTIES
  TransactionsEnd

CHECK_DEADLOCK FALSE
