----------------------------- MODULE MCApprovals -----------------------------
(***************************************************************************)
(* Instances of Approvals for TLC.                                         *)
(***************************************************************************)
EXTENDS Approvals, TLC

CONSTANTS shell, secret, here, there, c1, c2, d1

Demand(path, tier, scope, place) ==
  [path |-> path, tier |-> tier, scope |-> scope, place |-> place]

\* A capability that can be granted, from two places and by every path, and two
\* that cannot: one by its tier, one by its scope.
MCDemands ==
  {Demand("tool", "write", shell, here), Demand("request", "write", shell, here),
   Demand("policy", "execute", shell, here), Demand("exec", "execute", shell, there),
   Demand("preview", "write", shell, here), Demand("delegate", "write", shell, here),
   Demand("policy", "destructive", shell, here), Demand("tool", "destructive", shell, here),
   Demand("tool", "read", secret, here)}

MCDangerous == {secret}

Settings(mode, required, sandbox) == [mode |-> mode, required |-> required, sandbox |-> sandbox]

\* Every mode; approvals switched on and off; with and without a sandbox.
MCSettings == {Settings("build", TRUE, TRUE), Settings("plan", FALSE, TRUE),
               Settings("auto", TRUE, FALSE), Settings("unrestricted", TRUE, TRUE)}

Stored(decision, policy) ==
  [Row(decision, Demand("tool", "write", shell, here)) EXCEPT !.policy = policy]

\* One row is free, the other was swept or decided some time ago; or two grants.
MCInit ==
  /\ settings \in MCSettings
  /\ row \in {<<None, Stored("EXPIRED", "ALLOW_ONCE")>>,
              <<Stored("APPROVED", "ALLOW_ONCE"), Stored("APPROVED", "ALLOW_ONCE")>>,
              <<None, Stored("APPROVED", "ALLOW_SESSION")>>}
  /\ expired = {} /\ sweeping = {}
  /\ call = [c \in Call |-> [pc |-> "idle"]]
  /\ decider = [d \in Decider |-> [pc |-> "idle"]]
MCSpec == MCInit /\ [][Next]_vars

Symmetric == Permutations(Call)
=============================================================================
