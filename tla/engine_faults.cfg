\* Every fault and every operator request at once, on one task.
SPECIFICATION FairSpec
CONSTANTS
  a = a  b = b  c = c  s1 = s1  s2 = s2
  r1 = r1  r2 = r2  r3 = r3  r4 = r4  k1 = k1  i1 = i1
  None = None
  Task <- Single
  Session = {s1}
  SessionOf <- SingleSession
  Deps <- NoDeps
  Run = {r1, r2}
  Runner = {k1}
  Inline = {i1}
  Cap = 1
  MaxAttempts = 2
  MaxRounds = 2
  MaxStarts = 1
  Env = {"crash", "heartbeat", "database", "deadline", "run", "cancel", "override", "delete"}
INVARIANTS RunningIsRecoverable AttemptsCountRuns
PROPERTIES RunningResolves ContractHolds
CHECK_DEADLOCK FALSE
