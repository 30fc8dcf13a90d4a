---------------------------- MODULE GrantContract ----------------------------
(***************************************************************************)
(* What the permission system promises about one approval, whoever asks,   *)
(* decides, sweeps or executes: it is granted only while it is pending, a  *)
(* single-use grant is spent only while it is granted, and what is closed  *)
(* -- denied, expired -- is closed for good.                               *)
(***************************************************************************)
CONSTANT Approval  \* rows of the table approvals

VARIABLE stage     \* [Approval -> Stages]

Stages == {"none", "pending", "granted", "spent", "closed"}

\* The table outlives the process: it may hold rows already.
Init == stage \in [Approval -> Stages]

Move(r, from, to) == stage[r] \in from /\ stage' = [stage EXCEPT ![r] = to]

Ask(r)    == Move(r, {"none"}, "pending")
Refuse(r) == Move(r, {"none"}, "closed")
Grant(r)  == Move(r, {"pending"}, "granted")
Spend(r)  == Move(r, {"granted"}, "spent")
Close(r)  == Move(r, {"pending", "granted", "spent"}, "closed")

Next == \E r \in Approval : Ask(r) \/ Refuse(r) \/ Grant(r) \/ Spend(r) \/ Close(r)

Spec == Init /\ [][Next]_stage
=============================================================================
