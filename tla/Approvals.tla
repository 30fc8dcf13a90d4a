------------------------------ MODULE Approvals ------------------------------
(***************************************************************************)
(* Who may run what: the PermissionGate and its durable store              *)
(* (services/permissions.py), the PolicyEngine (services/policy.py), the   *)
(* execution paths that ask them (services/tools/execution.py, the         *)
(* workspace exec endpoint, services/a2a.py) and those who decide: the     *)
(* REST endpoints and the Telegram commands, and the expiry sweep.         *)
(*                                                                         *)
(* Every database transaction of theirs is a step; what they read in one   *)
(* is used in a later one.  A session and a workspace are both a place.    *)
(***************************************************************************)
EXTENDS Integers, FiniteSets

CONSTANTS
  Approval,  \* row numbers, in the order of creation; bounds the requests
  Call,      \* capability calls
  Decider,   \* decisions by users and administrators
  Demands,   \* the calls there are: [path, tier, scope, place]
  Dangerous, \* scopes that are default-deny (DANGEROUS_SCOPES)
  Env,       \* which of EnvEvents may happen
  None

Paths == {"tool",      \* execute_tool: the agent loop
          "request",   \* execute_request: decide() first
          "policy",    \* execute_with_policy
          "preview",   \* execute_request_with_policy
          "exec",      \* POST /workspaces/{id}/exec
          "delegate"}  \* A2AService.delegate

Tiers     == {"read", "write", "execute", "destructive"}
Modes     == {"build", "plan", "auto", "unrestricted"}
EnvEvents == {"sweep",    \* POST /approvals/sweep
              "expire"}   \* the time to live of a row passes

ASSUME ApprovalAssumption == Approval \subseteq Nat /\ Env \subseteq EnvEvents

Decisions == {"PENDING", "APPROVED", "DENIED", "EXPIRED"}
Policies  == {"ALLOW_ONCE", "ALLOW_SESSION", "ALLOW_ALWAYS", "DENY"}

VARIABLES
  settings,  \* autonomy_mode, tools_require_approval, and whether a sandbox exists
  row,       \* approvals: None, or the columns decision, policy, consumed, scope, place
  expired,   \* rows whose expires_at has passed
  call,      \* each call with the locals of its way through the gate
  decider,   \* locals of decide()
  sweeping   \* what sweep_expired has listed as PENDING and not yet come to

vars == <<settings, row, expired, call, decider, sweeping>>

\* The columns of a row; None is no row.
Rows == [decision : Decisions, policy : Policies, consumed : BOOLEAN,
         scope : {d.scope : d \in Demands}, place : {d.place : d \in Demands}]

ASSUME RowAssumption == None \notin Rows \cup Approval

Init ==
  /\ settings \in [mode : Modes, required : BOOLEAN, sandbox : BOOLEAN]
  /\ row = [r \in Approval |-> None]
  /\ expired = {}
  /\ call = [c \in Call |-> [pc |-> "idle"]]
  /\ decider = [d \in Decider |-> [pc |-> "idle"]]
  /\ sweeping = {}

-----------------------------------------------------------------------------
(* Risk and plan.                                                          *)

Level(d) ==
  IF d.scope \in Dangerous THEN "CRITICAL"
  ELSE CASE d.tier = "read" -> "LOW" [] d.tier = "write" -> "MEDIUM"
         [] d.tier = "execute" -> "HIGH" [] d.tier = "destructive" -> "CRITICAL"

DefaultDeny(d) == d.tier = "destructive" \/ d.scope \in Dangerous

\* Tool.permission_required.
Required(d) == settings.required /\ d.tier # "read"

\* The endpoint that executes commands and the delegation name their own scopes,
\* none of them dangerous.
ASSUME DemandAssumption ==
  \A d \in Demands :
    /\ d.path \in Paths /\ d.tier \in Tiers
    /\ d.path \in {"exec", "delegate"} => ~DefaultDeny(d)

\* Mutated form: the unrestricted mode is looked at first.
PlanUnrestricted(d) ==
  IF settings.mode = "unrestricted" THEN "free"
  ELSE IF DefaultDeny(d) \/ (settings.mode = "plan" /\ Level(d) # "LOW") THEN "refuse"
  ELSE IF Required(d) THEN "ask" ELSE "free"

\* plan_permission.
Plan(d) ==
  IF DefaultDeny(d) \/ (settings.mode = "plan" /\ Level(d) # "LOW") THEN "refuse"
  ELSE IF \/ settings.mode = "auto" /\ Level(d) \in {"LOW", "MEDIUM"}
          \/ settings.mode = "unrestricted"
          \/ ~Required(d)
       THEN "free"
  ELSE "ask"

-----------------------------------------------------------------------------
(* The store.                                                              *)

Row(decision, d) ==
  [decision |-> decision, policy |-> "ALLOW_ONCE", consumed |-> FALSE,
   scope |-> d.scope, place |-> d.place]

\* PermissionGate.request, from any caller: the next row, denied at once if the
\* scope is dangerous.
Request(d) ==
  \E r \in Approval :
    /\ row[r] = None /\ \A q \in Approval : q < r => row[q] # None
    /\ row' = [row EXCEPT ![r] = Row(IF d.scope \in Dangerous THEN "DENIED" ELSE "PENDING", d)]

\* Mutated form: the row is consumed whatever it says.
ConsumeAnyway(r, late) ==
  row' = [row EXCEPT ![r].consumed = TRUE]

\* mark_consumed, with the clock of its caller, succeeds ...
Consume(r, late) ==
  /\ ~row[r].consumed /\ r \notin late
  /\ row' = [row EXCEPT ![r].consumed = TRUE]

\* ... or not.
Beaten(r, late) == row[r].consumed \/ r \in late

\* Mutated form: a grant for a session serves every session.
MatchesAnywhere(r, d) == row[r].scope = d.scope

Matches(r, d) ==
  row[r].scope = d.scope /\ (row[r].policy = "ALLOW_SESSION" => row[r].place = d.place)

\* What check and peek make of grants_for: approved rows, with their policies.
Grants(c) ==
  {<<r, row[r].policy>> : r \in {q \in Approval :
     /\ row[q] # None /\ row[q].decision = "APPROVED"
     /\ q \notin call[c].late /\ ~row[q].consumed /\ Matches(q, call[c].demand)}}

\* The newest grant comes first.
Newest(c, g) == \A h \in call[c].todo : h[1] <= g[1]

-----------------------------------------------------------------------------
(* A call begins.                                                          *)

At(c, pc) == call[c].pc = pc

\* What a call that ran remembers: the grant it runs on, and whether it spent it.
Executed(d, g, won) == [pc |-> "ran", demand |-> d, ground |-> g, won |-> won]

Runs(c, g, won) == call' = [call EXCEPT ![c] = Executed(@.demand, g, won)]
Refuses(c)      == call' = [call EXCEPT ![c] = [pc |-> "refused"]]

\* The ways out of the first step: run, be refused, ask a human, look for a grant.
Free(c, d)        == call' = [call EXCEPT ![c] = Executed(d, None, FALSE)] /\ UNCHANGED row
Refused(c)        == Refuses(c) /\ UNCHANGED row
Asks(c, d)        == Refuses(c) /\ Request(d)
Seeks(c, d, audit) ==
  /\ call' = [call EXCEPT ![c] = [pc |-> "clock", demand |-> d, audit |-> audit,
                                  late |-> {}, todo |-> {}, tries |-> 0]]
  /\ UNCHANGED row

\* execute_tool, after the schema and Jev: authorize_tool and require_capability.
\* A destructive capability goes to the gate for its audit record only.
ToolCall(c, d) ==
  IF Plan(d) = "free" THEN Free(c, d)
  ELSE IF d.scope \in Dangerous THEN Asks(c, d)
  ELSE IF d.tier = "destructive" THEN Seeks(c, d, TRUE)
  ELSE IF settings.required THEN Seeks(c, d, FALSE) ELSE Free(c, d)

\* execute_with_policy and execute_request_with_policy: evaluate, as far as no
\* grant matters.
PolicyCall(c, d) ==
  IF DefaultDeny(d) THEN Asks(c, d)
  ELSE IF Required(d) THEN Seeks(c, d, FALSE)
  ELSE Free(c, d) \/ Refused(c)

\* A2AService.delegate, given the id of an approval or none.
Delegate(c, d) ==
  \/ \E r \in Approval :
       /\ row[r] # None /\ row[r].decision = "APPROVED" /\ r \notin expired
       /\ row[r].scope = d.scope /\ row[r].place = d.place
       /\ call' = [call EXCEPT ![c] = Executed(d, r, FALSE)]
       /\ UNCHANGED row
  \/ Asks(c, d)

\* Bad arguments, and Jev, refuse before anything else happens.
Start(c) ==
  /\ At(c, "idle")
  /\ \E d \in Demands :
       \/ d.path \in {"tool", "request", "policy", "preview"} /\ Refused(c)
       \/ d.path = "tool" /\ ToolCall(c, d)
       \/ d.path = "request" /\ Plan(d) # "refuse" /\ ToolCall(c, d)
       \/ d.path \in {"policy", "preview"} /\ PolicyCall(c, d)
       \/ d.path = "exec" /\ IF settings.required THEN Seeks(c, d, FALSE) ELSE Free(c, d)
       \/ d.path = "delegate" /\ Delegate(c, d)
  /\ UNCHANGED <<settings, expired, decider, sweeping>>

\* check and peek note the time ...
ReadClock(c) ==
  /\ At(c, "clock")
  /\ call' = [call EXCEPT ![c].pc = "read", ![c].late = expired]
  /\ UNCHANGED <<settings, row, expired, decider, sweeping>>

\* ... and then read the grants.
ReadGrants(c) ==
  /\ At(c, "read")
  /\ call' = [call EXCEPT ![c].pc = "choose", ![c].todo = Grants(c)]
  /\ UNCHANGED <<settings, row, expired, decider, sweeping>>

Evaluates(c) == call[c].demand.path \in {"policy", "preview"}

\* No grant: a request is left for a human, and the call refused.
AskForGrant(c) ==
  /\ At(c, "choose") /\ call[c].todo = {}
  /\ Asks(c, call[c].demand)
  /\ UNCHANGED <<settings, expired, decider, sweeping>>

-----------------------------------------------------------------------------
(* check: the gate path.                                                   *)

Allowed(c, r, won) == IF call[c].audit THEN Refuses(c) ELSE Runs(c, r, won)

\* A losing or failing consumption goes on to the next grant.
TryGrant(c) ==
  /\ At(c, "choose") /\ ~Evaluates(c)
  /\ \E g \in call[c].todo :
     /\ Newest(c, g)
     /\ \/ g[2] # "ALLOW_ONCE" /\ Allowed(c, g[1], FALSE) /\ UNCHANGED row
        \/ g[2] = "ALLOW_ONCE" /\ Consume(g[1], call[c].late) /\ Allowed(c, g[1], TRUE)
        \/ /\ g[2] = "ALLOW_ONCE" /\ Beaten(g[1], call[c].late)
           /\ call' = [call EXCEPT ![c].todo = @ \ {g}] /\ UNCHANGED row
  /\ UNCHANGED <<settings, expired, decider, sweeping>>

-----------------------------------------------------------------------------
(* evaluate and evaluate_and_authorize: the engine's path.                 *)

NeedsSandbox(d) == d.tier \in {"execute", "destructive"}

\* The verdict on the newest grant: a limit or a missing sandbox denies, a
\* preview and a grant of the third evaluation run as they are.
Judge(c) ==
  /\ At(c, "choose") /\ Evaluates(c)
  /\ \E g \in call[c].todo :
     /\ Newest(c, g)
     /\ \/ Refuses(c)
        \/ /\ NeedsSandbox(call[c].demand) => settings.sandbox
           /\ IF call[c].demand.path = "policy" /\ g[2] = "ALLOW_ONCE" /\ call[c].tries < 2
              THEN call' = [call EXCEPT ![c].pc = "spend"]
              ELSE Runs(c, g[1], FALSE)
  /\ UNCHANGED <<settings, row, expired, decider, sweeping>>

\* consume, with a clock of its own; a loser evaluates again.
SpendGrant(c) ==
  /\ At(c, "spend")
  /\ \E g \in call[c].todo :
     /\ Newest(c, g)
     /\ \/ Consume(g[1], expired) /\ Runs(c, g[1], TRUE)
        \/ /\ Beaten(g[1], expired)
           /\ call' = [call EXCEPT ![c].pc = "clock", ![c].tries = @ + 1] /\ UNCHANGED row
  /\ UNCHANGED <<settings, expired, decider, sweeping>>

-----------------------------------------------------------------------------
(* Decisions and expiry.                                                   *)

\* decide, and the endpoints before it, read the row: nothing happens to one that
\* is decided, an expired one will be written back, a pending one decided.
DecideReads(d) ==
  /\ decider[d].pc = "idle"
  /\ \E r \in Approval, approve \in BOOLEAN, policy \in Policies :
       /\ row[r] # None /\ row[r].decision = "PENDING"
       /\ decider' = [decider EXCEPT ![d] =
            [pc |-> IF r \in expired THEN "expire" ELSE "decide", r |-> r, policy |-> policy,
             decision |-> IF approve /\ policy # "DENY" /\ row[r].scope \notin Dangerous
                          THEN "APPROVED" ELSE "DENIED"]]
  /\ UNCHANGED <<settings, row, expired, call, sweeping>>

\* update writes the whole row back as it was read, PENDING, but for the decision.
Overwrite(r) ==
  row' = [row EXCEPT ![r].decision = "EXPIRED", ![r].policy = "ALLOW_ONCE", ![r].consumed = FALSE]

\* Mutated form: the last decision sticks.
DecidableAlways(r) == TRUE

\* decide_atomic updates a row only WHERE decision = 'PENDING'.
Decidable(r) == row[r].decision = "PENDING"

DecideWrites(d) ==
  LET x == decider[d] IN
  /\ \/ x.pc = "expire" /\ Overwrite(x.r)
     \/ /\ x.pc = "decide"
        /\ row' = IF Decidable(x.r)
                  THEN [row EXCEPT ![x.r].decision = x.decision, ![x.r].policy = x.policy]
                  ELSE row
  /\ decider' = [decider EXCEPT ![d] = [pc |-> "idle"]]
  /\ UNCHANGED <<settings, expired, call, sweeping>>

\* POST /approvals: a request without a call.
Post ==
  /\ \E d \in Demands : Request(d)
  /\ UNCHANGED <<settings, expired, call, decider, sweeping>>

\* sweep_expired reads all rows ...
SweepLists ==
  /\ "sweep" \in Env /\ sweeping = {}
  /\ sweeping' = {r \in Approval : row[r] # None /\ row[r].decision = "PENDING"}
  /\ UNCHANGED <<settings, row, expired, call, decider>>

\* ... and writes those back that have expired by the time it comes to them.
SweepWrites(r) ==
  /\ r \in sweeping
  /\ sweeping' = sweeping \ {r}
  /\ IF r \in expired THEN Overwrite(r) ELSE UNCHANGED row
  /\ UNCHANGED <<settings, expired, call, decider>>

Expire(r) ==
  /\ "expire" \in Env /\ row[r] # None /\ r \notin expired
  /\ expired' = expired \cup {r}
  /\ UNCHANGED <<settings, row, call, decider, sweeping>>

-----------------------------------------------------------------------------
Next ==
  \/ \E c \in Call : \/ Start(c) \/ ReadClock(c) \/ ReadGrants(c) \/ AskForGrant(c)
                     \/ TryGrant(c) \/ Judge(c) \/ SpendGrant(c)
  \/ \E d \in Decider : DecideReads(d) \/ DecideWrites(d)
  \/ \E r \in Approval : SweepWrites(r) \/ Expire(r)
  \/ Post \/ SweepLists

Spec == Init /\ [][Next]_vars

-----------------------------------------------------------------------------
(* Correctness.                                                            *)

\* A call that has not begun or was refused, one on its way, one that ran.
Calls ==
  [pc : {"idle", "refused"}] \cup
  [pc : {"clock", "read", "choose", "spend"}, demand : Demands, audit : BOOLEAN,
   late : SUBSET Approval, todo : SUBSET (Approval \X Policies), tries : 0..2] \cup
  [pc : {"ran"}, demand : Demands, ground : Approval \cup {None}, won : BOOLEAN]

\* Every variable has its type.
TypeOK ==
  /\ settings \in [mode : Modes, required : BOOLEAN, sandbox : BOOLEAN]
  /\ row \in [Approval -> Rows \cup {None}]
  /\ expired \subseteq Approval /\ sweeping \subseteq Approval
  /\ call \in [Call -> Calls]
  /\ decider \in [Decider -> [pc : {"idle"}] \cup
       [pc : {"expire", "decide"}, r : Approval, policy : Policies,
        decision : {"APPROVED", "DENIED"}]]

Ran(c)    == call[c].pc = "ran"
Users(r)  == {c \in Call : Ran(c) /\ call[c].ground = r}

\* Two executions that race for a single-use grant, through check or through
\* consume: one wins -- as long as no late expiry has been written over the grant.
OneWinner ==
  \A r \in Approval :
    row[r] # None /\ row[r].decision = "APPROVED"
    => Cardinality({c \in Users(r) : call[c].won}) <= 1

\* No mode, setting, grant or race lets a default-deny capability run, and the
\* read-only mode refuses every request to change something.
DefaultDenyHolds ==
  \A c \in Call : Ran(c) =>
    /\ ~DefaultDeny(call[c].demand)
    /\ call[c].demand.path = "request" /\ settings.mode = "plan" => call[c].demand.tier = "read"

\* What runs with approvals switched on was granted by somebody, for this scope
\* and this place, or needs no approval in this mode; a grant that was read and
\* then changed under the call included.
RunsAreCovered ==
  \A c \in Call : Ran(c) =>
    LET d == call[c].demand IN
    IF call[c].ground = None
    THEN ~settings.required \/ d.tier = "read" \/ settings.mode \in {"auto", "unrestricted"}
    ELSE /\ row[call[c].ground].decision \in {"APPROVED", "EXPIRED"}
         /\ row[call[c].ground].scope = d.scope
         /\ row[call[c].ground].policy = "ALLOW_SESSION" => row[call[c].ground].place = d.place

\* The table implements its contract: a row is granted and spent once, and closed
\* for good.
StageOf(columns) ==
  IF columns = None THEN "none"
  ELSE CASE columns.decision = "PENDING" -> "pending"
         [] columns.decision = "APPROVED" -> IF columns.consumed THEN "spent" ELSE "granted"
         [] columns.decision \in {"DENIED", "EXPIRED"} -> "closed"

Contract == INSTANCE GrantContract WITH stage <- [r \in Approval |-> StageOf(row[r])]
ContractHolds == Contract!Spec
=============================================================================
