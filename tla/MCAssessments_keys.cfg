CONSTANTS
  Users = {u1, u2}
  Keys = {k1, k2}
  Options = {o1}
  Requests = {r1, r2}
  MaxVersion = 3
  MaxAssessments = 2
SPECIFICATION Spec
SYMMETRY Symmetry
INVARIANTS NoLostVersion
PROPERTIES ImplementsService
CHECK_DEADLOCK FALSE
