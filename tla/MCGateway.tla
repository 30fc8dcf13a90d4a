------------------------------ MODULE MCGateway ------------------------------
(***************************************************************************)
(* Instances of Gateway for TLC.  Each initial state is a point of some    *)
(* behaviour from which the checks go on.                                  *)
(***************************************************************************)
EXTENDS Gateway, TLC

CONSTANTS u1, u2

\* u1 has been processed long ago, u2 is in the given state; nothing runs.
One(ledger2, gate2, bound2, state2) ==
  /\ kind[u1] = "goal"
  /\ ledger = u1 :> "processed" @@ u2 :> ledger2
  /\ gate = u1 :> "COMPLETED" @@ u2 :> gate2
  /\ old = u1 :> TRUE @@ u2 :> (gate2 # "none")
  /\ bound = u1 :> None @@ u2 :> bound2
  /\ session = [s \in Session |-> IF s = <<u2, 1>> THEN state2 ELSE "none"]
  /\ worker = [x \in Executor |-> [u \in Update |-> Idle]]
  /\ inFlight = {}
  /\ deliveries = 0 /\ faults = 0

\* u2 is new.
OneNew == One("none", "none", None, "none")

\* Ten minutes after a crash: u2 was claimed, a session created, or bound.
OneStranded ==
  /\ kind[u2] = "goal"
  /\ \/ One("logged", "IN_PROGRESS", None, "none")
     \/ One("logged", "IN_PROGRESS", None, "empty")
     \/ One("logged", "DISPATCHED", <<u2, 1>>, "open")

\* The service drives both, one of them may just have raised, and nothing goes
\* wrong any more.
TwoDriven ==
  /\ kind = [u \in Update |-> "goal"]
  /\ ledger = [u \in Update |-> "logged"]
  /\ gate = [u \in Update |-> "DISPATCHED"]
  /\ old = [u \in Update |-> FALSE]
  /\ bound = [u \in Update |-> <<u, 1>>]
  /\ session = [s \in Session |-> IF s[2] = 1 THEN "open" ELSE "none"]
  /\ \E pc \in {"drive", "errflush"} :
       worker = [x \in Executor |-> [u \in Update |->
                   IF x = "recovery" THEN Idle
                   ELSE [pc |-> IF u = u2 THEN pc ELSE "drive", s |-> <<u, 1>>]]]
  /\ inFlight = Update
  /\ deliveries = MaxDeliveries /\ faults = MaxFaults

MCInit == Calm /\ (OneNew \/ OneStranded \/ TwoDriven)
MCSpec == MCInit /\ [][Next]_vars /\ Fairness
=============================================================================
