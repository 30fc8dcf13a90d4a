\* Two calls race for what two decisions grant while rows expire and are swept.
SPECIFICATION MCSpec
CONSTANTS
  shell = shell  secret = secret  here = here  there = there
  None = None
  Approval = {1, 2}
  c1 = c1  c2 = c2
  Call = {c1, c2}
  d1 = d1
  Decider = {d1}
  Demands <- MCDemands
  Dangerous <- MCDangerous
  Env = {"sweep", "expire"}
INVARIANTS OneWinner  
PROPERTIES ContractHolds
SYMMETRY Symmetric
CHECK_DEADLOCK FALSE
