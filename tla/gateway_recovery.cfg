\* A goal, a command and a silent update through a crash, a failing transaction or
\* an aged claim, from the start and from a crash; two drives that share the relay.
SPECIFICATION MCSpec
CONSTANTS
  u1 = u1  u2 = u2  None = None
  Update = {u1, u2}
  Linked = FALSE
  MaxDeliveries = 2
  MaxSessions = 2
  MaxFaults = 1
  Env = {"crash", "database", "age"}
INVARIANTS ExecutedOnce
PROPERTIES  LoggedIsTakenUp
CHECK_DEADLOCK FALSE
