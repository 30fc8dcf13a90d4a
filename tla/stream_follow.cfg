\* A stream and a poller follow two writers through rollbacks and restarts.
SPECIFICATION FairSpec
CONSTANTS
  w1 = w1  w2 = w2  s1 = s1  s2 = s2
  ws = ws  sse = sse  poll = poll
  Writer = {w1, w2}
  Session = {s1, s2}
  Ws = {ws}
  Sse = {sse}
  Poller = {poll}
  Mine <- MCMine
  Unfiltered = {ws}
  MaxReplay = 1
  PageLimit = 2
  Limit <- MCLimit
  MaxEvents = 3
  MaxConnects = 2
  MaxFaults = 1
INVARIANTS NothingElseIsLost InOrder
PROPERTIES LeaversAreDropped
CHECK_DEADLOCK FALSE
