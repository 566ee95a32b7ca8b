CONSTANTS
  j1 = j1
  j2 = j2
  d1 = d1
  Processes = {p1, p2}
  Jobs = {j1}
  Datasets = {d1}
  DatasetOf <- MCDatasetOf
  MaxVersions = 2
SPECIFICATION Spec
INVARIANT NoCircle
CHECK_DEADLOCK FALSE
