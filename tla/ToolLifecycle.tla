---------------------------- MODULE ToolLifecycle ----------------------------
(***************************************************************************)
(* What the contract of a capability invocation promises                   *)
(* (services/tools/contract.py): every request moves along TRANSITIONS,    *)
(* and ends in one of three states it never leaves.                        *)
(***************************************************************************)
CONSTANT Request

VARIABLE life  \* [Request -> States]

Terminal == {"REJECTED", "SUCCEEDED", "FAILED"}
States   == {"REQUESTED", "VALIDATED", "AWAITING_APPROVAL", "EXECUTING"} \cup Terminal

TRANSITIONS ==
  [s \in States |->
     CASE s = "REQUESTED"         -> {"VALIDATED", "REJECTED"}
       [] s = "VALIDATED"         -> {"AWAITING_APPROVAL", "EXECUTING", "REJECTED"}
       [] s = "AWAITING_APPROVAL" -> {"EXECUTING", "REJECTED"}
       [] s = "EXECUTING"         -> {"SUCCEEDED", "FAILED"}
       [] s \in Terminal          -> {}]

Init == life = [q \in Request |-> "REQUESTED"]

Move(q) == \E s \in TRANSITIONS[life[q]] : life' = [life EXCEPT ![q] = s]

Next == \E q \in Request : Move(q)

Spec == Init /\ [][Next]_life
=============================================================================
