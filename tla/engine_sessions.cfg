\* Two sessions compete for one slot while the process crashes, heartbeats die,
\* commits raise, runners stop between rounds and the operator retries tasks.
SPECIFICATION Spec
CONSTANTS
  a = a  b = b  c = c  s1 = s1  s2 = s2
  r1 = r1  r2 = r2  r3 = r3  r4 = r4  k1 = k1  i1 = i1
  None = None
  Task <- ChainAndOne
  Session = {s1, s2}
  SessionOf <- InSessions
  Deps <- ChainDeps
  Run = {r1, r2}
  Runner = {k1}
  Inline = {i1}
  Cap = 1
  MaxAttempts = 3
  MaxRounds = 2
  MaxStarts = 1
  Env = {"crash", "heartbeat", "database", "deadline", "run"}
INVARIANTS TypeOK    
 
CHECK_DEADLOCK FALSE
