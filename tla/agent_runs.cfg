\* A task with all its retries, fallbacks, iterations, results and a crash; or two
\* messages of one chat, which share its lock, the health of the models and the budget.
SPECIFICATION MCSpec
CONSTANTS
  t1 = t1  k1 = k1  k2 = k2  s1 = s1  s2 = s2
  cloud = cloud  other = other  m1 = m1  m2 = m2  e1 = e1
  Task = {t1}
  Chat = {k1, k2}
  Session = {s1, s2}
  SessionOf <- MCSessionOf
  Model = {m1, m2, e1}
  ProviderOf <- MCProviderOf
  Cloud = cloud
  Primaries = {cloud, other}
  DefaultModel <- MCDefaultModel
  CloudOrder <- MCCloudOrder
  Emergency <- MCEmergency
  Ranked <- MCRanked
  ToolModel = {m1, e1}
  Requested = {e1}
  Failure = {"missing", "timeout"}
  Attempts = 2
  BreakAfter = 2
  DownAfter = 2
  DailyLimit = 1
  TaskLimit = 1
  MaxCost = 1
  MaxIters = 2
  MaxCalls = 2
  ContextLimit = 2
  KeepRecent = 1
  Results = {"low", "long", "pinned"}
  MaxRuns <- MCMaxRuns
  MaxCrashes = 1
  MaxDays = 1
INVARIANTS BoundedOverspend ImportantStays
PROPERTIES CloudFirst RunEnds
CHECK_DEADLOCK FALSE
