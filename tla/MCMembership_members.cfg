CONSTANTS
  Users = {u1, u2, u3}
  Founders = {u1, u2}
  Requests = {r1, r2}
  Roles = {"ORG_ADMIN", "VIEWER"}
  MaxRevision = 3
SPECIFICATION Spec
SYMMETRY Symmetry
INVARIANTS LastAdmin
PROPERTIES NoLostUpdate ByAdmin
CHECK_DEADLOCK FALSE
