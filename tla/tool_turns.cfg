\* The three ways from a call to its result, next to each other, under every mode.
SPECIFICATION MCSpec
CONSTANTS
  files = files  shell = shell  secret = secret
  NoName = NoName
  r1 = r1
  Run = {r1}
  Catalog <- MCCatalog
  Messages <- MCMessages
  Dangerous <- MCDangerous
  Outcomes = {"fine", "exit_code", "error_none", "Exception"}
  MaxTurns = 2
  MaxGrants = 2
INVARIANTS EachCallIsAnswered PathsAgree HandlersAreShielded
PROPERTIES LifecycleHolds
CHECK_DEADLOCK FALSE
