\* Two drainers share three messages through crashes, failing commits and a
\* missing token.
SPECIFICATION FairSpec
CONSTANTS
  m1 = m1  m2 = m2  m3 = m3  e1 = e1  d1 = d1  d2 = d2  p1 = p1  p2 = p2
  None = None
  Msg = {m1, m2, m3}
  Event = {e1}
  EventOf <- Mixed
  Ephemeral <- OneTyping
  Drainer = {d1, d2}
  Producer = {p1}
  Batch = 2
  MaxAttempts = 2
  Env = {"crash", "database", "token"}
INVARIANTS OneHolder ConfirmedOnce DeliveredWasAccepted
PROPERTIES ContractHolds WaitingIsTaken
CHECK_DEADLOCK FALSE
