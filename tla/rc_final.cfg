\* The tick and drive_session recover the same orphan.
SPECIFICATION SpecRC
CONSTANTS
  a = a  b = b  s1 = s1  r1 = r1  r2 = r2  k1 = k1  i1 = i1
  None = None
  Task <- Chain
  Session = {s1}
  SessionOf <- ChainSession
  Deps <- ChainOnlyDeps
  Run = {r1, r2}
  Runner = {k1}
  Inline = {i1}
  Cap = 1
  MaxAttempts = 2
  MaxRounds = 1
  MaxStarts = 1
  Env = {"crash"}
PROPERTY TerminalIsFinal
CHECK_DEADLOCK FALSE
