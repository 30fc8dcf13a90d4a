\* Any two requests that create tasks, over all graphs of two tasks, while
\* drivers run what there is and the process crashes.
SPECIFICATION Spec
CONSTANTS
  p1 = p1  i1 = i1  c1 = c1  w1 = w1  w2 = w2  q1 = q1  q2 = q2  q3 = q3
  alice = alice  bob = bob  key = key
  None = None
  Planned = {p1, i1}
  Inline = {i1}
  Recipe = {c1}
  Swarm = {w1, w2}
  Post = {q1, q2, q3}
  KeyOf <- MCKeyOf
  OwnerOf <- MCOwnerOf
  MaxKeys = 2
  Limit = 2
  MaxRequests = 2
SYMMETRY Alike
INVARIANTS  PassIsWhole RetriesConverge OvershootIsBounded AcceptedRecipesRun
CHECK_DEADLOCK FALSE
