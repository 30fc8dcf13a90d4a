\* Operator moves, retries, cancellations, dead heartbeats and crashes fall between
\* the reads and the writes of a run and of two recoverers.
SPECIFICATION SpecRC
CONSTANTS
  a = a  b = b  s1 = s1  r1 = r1  r2 = r2  k1 = k1  i1 = i1
  None = None
  Task <- Single
  Session = {s1}
  SessionOf <- SingleSession
  Deps <- NoDeps
  Run = {r1, r2}
  Runner = {k1}
  Inline = {i1}
  Cap = 1
  MaxAttempts = 2
  MaxRounds = 1
  MaxStarts = 0
  Env = {"crash", "heartbeat", "override", "cancel", "run", "deadline"}
INVARIANTS SuccessHasRun LeaseMeansRunning
CHECK_DEADLOCK FALSE
