--------------------------- MODULE OutboxContract ---------------------------
(***************************************************************************)
(* What the delivery outbox promises about each message, whoever drains    *)
(* it: it is taken before it is settled, every recorded failure is counted *)
(* once, it is dead exactly when its attempts are spent, and a settled     *)
(* message never moves again.                                              *)
(***************************************************************************)
EXTENDS Naturals

CONSTANTS Msg,         \* rows of delivery_outbox
          MaxAttempts  \* settings.outbox_max_attempts

VARIABLES status,    \* [Msg -> {"none", "PENDING", "SENDING", "RETRY", "DELIVERED", "DEAD"}]
          attempts   \* [Msg -> Nat]

vars == <<status, attempts>>

Init == /\ status = [m \in Msg |-> "none"]
        /\ attempts = [m \in Msg |-> 0]

Step(m, from, to) == status[m] \in from /\ status'[m] = to

Submit(m)  == Step(m, {"none"}, "PENDING") /\ attempts'[m] = attempts[m]
Take(m)    == Step(m, {"PENDING", "RETRY"}, "SENDING") /\ attempts'[m] = attempts[m]
Deliver(m) == Step(m, {"SENDING"}, "DELIVERED") /\ attempts'[m] = attempts[m]

Fail(m) ==
  /\ attempts'[m] = attempts[m] + 1
  /\ \/ Step(m, {"SENDING"}, "RETRY") /\ attempts'[m] < MaxAttempts
     \/ Step(m, {"SENDING"}, "DEAD") /\ attempts'[m] = MaxAttempts

Stay(m) == status'[m] = status[m] /\ attempts'[m] = attempts[m]

Next == /\ \A m \in Msg : Submit(m) \/ Take(m) \/ Deliver(m) \/ Fail(m) \/ Stay(m)
        /\ DOMAIN status' = Msg
        /\ DOMAIN attempts' = Msg

Spec == Init /\ [][Next]_vars
=============================================================================
