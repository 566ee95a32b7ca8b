CONSTANTS
  Attempts = {"a1", "a2"}
  Callbacks = {c1, c2}
  Orgs = {"o1", "o2"}
  MaxSessions = 3
  MaxEpoch = 1
  SessionIdle = 2
  SessionAbsolute = 3
  LoginLifetime = 1
SPECIFICATION Spec
SYMMETRY CallbackSymmetry
INVARIANTS OneLivePerLogin LoginLimit
PROPERTIES DeadStaysDead
CHECK_DEADLOCK FALSE
