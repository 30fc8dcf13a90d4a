------------------------------- MODULE ToolUse -------------------------------
(***************************************************************************)
(* From a model's message to the results of the capabilities it calls: the *)
(* three wire protocols (services/tools/protocol.py), the schema, Jev      *)
(* (services/jev.py), the plan and the gate, the policy engine's verdict   *)
(* (services/policy.py), the handler, and what is said of it.              *)
(*                                                                         *)
(* There are three ways from a call to its result: the agent loop's, which *)
(* is the one the program takes, and the two entry points that return      *)
(* values, run_tool_call and execute_request_with_policy.  The gate is     *)
(* here a grant per scope; Approvals has its rows.                         *)
(***************************************************************************)
EXTENDS Integers, Sequences, FiniteSets, Filter

CONSTANTS
  Run,       \* agent runs, or other callers of the execution module
  Catalog,   \* the registry: a function from names to tools
  Messages,  \* what a model may answer
  Dangerous, \* scopes that are default-deny (DANGEROUS_SCOPES)
  Outcomes,  \* what a handler may do, from HandlerOutcomes
  MaxTurns,  \* bounds the answers with calls
  MaxGrants, \* bounds the decisions of the human
  NoName     \* a call without a name, or one whose fence or tag is not closed

Ways  == {"loop",     \* run_tool_loop: _run_one_call and execute_tool
          "engine",   \* run_tool_call: execute_request
          "policy"}   \* execute_request_with_policy

Tiers == {"read", "write", "execute", "destructive"}
Modes == {"build", "plan", "auto", "unrestricted"}
Levels == {"LOW", "MEDIUM", "HIGH", "CRITICAL"}

\* Returned dicts, and exceptions; no handler of a capability raises
\* NeedsApprovalError itself.
HandlerOutcomes == {"fine", "exit_code", "ok_false", "error", "error_none",
                    "not_dict", "ToolError", "Exception"}

\* The arguments of a call as the provider or the text gives them.
RawArguments == {"absent", "fits", "misfits", "too_long", "list", "not_json"}

Calls    == [id : Nat, name : DOMAIN Catalog \cup {NoName, "unknown"}, raw : RawArguments]
Scopes   == {Catalog[n].scope : n \in DOMAIN Catalog}

ASSUME ToolUseAssumption ==
  /\ Outcomes \subseteq HandlerOutcomes
  /\ MaxTurns \in Nat /\ MaxGrants \in Nat
  /\ \A n \in DOMAIN Catalog :
       Catalog[n] \in [tier : Tiers, scope : Scopes, group : {"shell", "other"},
                       level : Levels,  \* by words in its name
                       schema : {"strict", "broken"}, required : BOOLEAN]
  /\ \A m \in Messages : m \in [native : Seq(Calls), fenced : Seq(Calls), invoke : Seq(Calls)]

\* The id names what the model wants done, the same in every protocol; no protocol
\* holds a call twice.
ASSUME IdsAssumption ==
  \A m \in Messages : \A items \in {m.native, m.fenced, m.invoke} :
    \A i, j \in DOMAIN items : items[i].id = items[j].id => i = j

VARIABLES
  way,      \* [Run -> Ways], which never changes
  settings, \* autonomy_mode, tools_require_approval, and the sandbox there is
  grant,    \* for each scope: "none", "once", or "standing"
  granted,  \* decisions made so far
  calls,    \* the calls parsed so far
  results,  \* their results, in order
  now,      \* where the call at hand is
  turns

vars == <<way, settings, grant, granted, calls, results, now, turns>>

Init ==
  /\ way \in [Run -> Ways]
  /\ settings \in [mode : Modes, required : BOOLEAN, backend : {"jail", "docker", "none"},
                   limit : 0..1]
  /\ grant = [s \in Scopes |-> "none"] /\ granted = 0
  /\ calls = [r \in Run |-> <<>>] /\ results = [r \in Run |-> <<>>]
  /\ now = [r \in Run |-> "thinking"] /\ turns = [r \in Run |-> 0]

-----------------------------------------------------------------------------
(* Protocols and schemas.                                                  *)

\* Items that are no calls are skipped.
Kept(items) == {i \in DOMAIN items : items[i].name # NoName}
Named(items) == At(items, Kept(items))

\* Mutated form: every protocol is heard.
ParseAll(m) == Named(m.native) \o Named(m.fenced) \o Named(m.invoke)

\* parse_tool_calls: the first protocol that sees something of its own decides,
\* even if it makes no call of it.
Parse(m) ==
  Named(IF m.native # <<>> THEN m.native ELSE IF m.fenced # <<>> THEN m.fenced ELSE m.invoke)

\* _coerce_arguments; nothing at all is an empty object.
Malformed(c) == c.raw \in {"list", "not_json"}

\* Mutated form: long arguments are walked like any others.
InvalidWhenMisfit(tool, c) ==
  tool.schema = "strict" /\ (c.raw = "misfits" \/ (c.raw = "absent" /\ tool.required))

\* validate_arguments; a broken schema accepts what can be encoded at all.
Invalid(tool, c) ==
  \/ c.raw = "too_long"
  \/ tool.schema = "strict" /\ (c.raw = "misfits" \/ (c.raw = "absent" /\ tool.required))

-----------------------------------------------------------------------------
(* Verdicts.                                                               *)

\* classify_risk.
Level(tool) ==
  IF tool.scope \in Dangerous THEN "CRITICAL"
  ELSE CASE tool.tier = "read" -> "LOW" [] tool.tier = "write" -> "MEDIUM"
         [] tool.tier = "execute" -> "HIGH" [] tool.tier = "destructive" -> "CRITICAL"

DefaultDeny(tool) == tool.tier = "destructive" \/ tool.scope \in Dangerous

\* Tool.permission_required, for capabilities without an override.
Required(tool) == tool.tier = "destructive" \/ (settings.required /\ tool.tier # "read")

\* _classify_tool_risk: by words in the name, and by the category they make.
NamedLevel(tool) == IF tool.tier = "destructive" THEN "CRITICAL" ELSE tool.level

\* The singleton get_jev makes, and the one a caller might make.
DefaultJev == [mode |-> "build", production |-> FALSE, strict |-> FALSE]

\* Jev.evaluate of a tool call by a user without failures before it.
Verdict(jev, tool) ==
  LET level == NamedLevel(tool) IN
  IF tool.scope \in Dangerous \/ (jev.mode = "plan" /\ level # "LOW") THEN "DENY"
  ELSE IF \/ tool.tier = "destructive" /\ jev.mode # "unrestricted"
          \/ level = "CRITICAL"
          \/ level = "HIGH" /\ (jev.mode # "auto" \/ jev.strict)
          \/ level = "MEDIUM" /\ jev.mode \notin {"auto", "unrestricted"} /\ jev.production
          \/ level = "LOW" /\ jev.mode = "build" /\ jev.strict
  THEN "ASK" ELSE "ALLOW"

\* Mutated form: Jev shares the read-only mode of the settings.
JevDeniesInMode(tool) == Verdict([DefaultJev EXCEPT !.mode = settings.mode], tool) = "DENY"

\* _jev_pre_check: only a denial matters.
JevDenies(tool) == Verdict(DefaultJev, tool) = "DENY"

\* plan_permission.
Plan(tool) ==
  IF DefaultDeny(tool) \/ (settings.mode = "plan" /\ Level(tool) # "LOW") THEN "refuse"
  ELSE IF \/ settings.mode = "auto" /\ Level(tool) \in {"LOW", "MEDIUM"}
          \/ settings.mode = "unrestricted"
          \/ ~Required(tool)
       THEN "free"
  ELSE "ask"

\* authorize_tool and require_capability: a plan that is not free is asked about;
\* the gate refuses what is default-deny, and asks for nothing when it is off.
Gate(tool) ==
  IF Plan(tool) = "free" THEN "allow"
  ELSE IF DefaultDeny(tool) THEN "deny"
  ELSE IF ~settings.required \/ grant[tool.scope] # "none" THEN "allow"
  ELSE "wait"

\* _evaluate_sandbox.
NeedsSandbox(tool) == tool.tier \in {"execute", "destructive"} \/ tool.group = "shell"

\* _evaluate_resource: nothing reports a usage, so only a limit of zero is met.
OverLimit == settings.limit = 0

\* PolicyEngine.evaluate, dimension by dimension; the identity only matters for
\* scopes that are denied anyway, and the timeout for none.
Evaluate(tool) ==
  IF DefaultDeny(tool) \/ OverLimit THEN "deny"
  ELSE IF Required(tool) /\ grant[tool.scope] = "none" THEN "wait"
  ELSE IF NeedsSandbox(tool) /\ settings.backend = "none" THEN "no_sandbox"
  ELSE "allow"

-----------------------------------------------------------------------------
(* Results.                                                                *)

Current(r) == calls[r][Len(results[r]) + 1]
Tool(r)  == Catalog[Current(r).name]

\* result_succeeded: what the loop reports as tool.completed.
Completed(outcome) == outcome \in {"fine", "error_none"}

\* ExecutionResult.ok: no key "error" in the output.
Succeeded(outcome) == outcome \in {"fine", "exit_code", "ok_false"}

\* The result of the call at hand: how it ended, and what its handler did, if it
\* was entered.
Answer(r, state, outcome) ==
  /\ results' = [results EXCEPT ![r] =
       Append(@, [call |-> Current(r), state |-> state, outcome |-> outcome])]
  /\ now' = [now EXCEPT ![r] = "idle"]

Goes(r, where) == now' = [now EXCEPT ![r] = where] /\ UNCHANGED results

\* A single-use grant is spent by whoever it lets through.
Spend(tool) ==
  grant' = IF grant[tool.scope] = "once" THEN [grant EXCEPT ![tool.scope] = "none"] ELSE grant

-----------------------------------------------------------------------------
(* The run.                                                                *)

\* The model answers; without calls the run is done.
Receive(r) ==
  /\ now[r] = "thinking"
  /\ \E m \in Messages :
       IF Parse(m) = <<>> THEN now' = [now EXCEPT ![r] = "done"] /\ UNCHANGED <<calls, turns>>
       ELSE /\ turns[r] < MaxTurns
            /\ calls' = [calls EXCEPT ![r] = @ \o Parse(m)]
            /\ turns' = [turns EXCEPT ![r] = @ + 1]
            /\ now' = [now EXCEPT ![r] = "idle"]
  /\ UNCHANGED <<way, settings, grant, granted, results>>

\* All calls are answered: the results go back to the model.
Return(r) ==
  /\ now[r] = "idle" /\ Len(results[r]) = Len(calls[r])
  /\ Goes(r, "thinking")
  /\ UNCHANGED <<way, settings, grant, granted, calls, turns>>

\* The registry and the schema, in every way, before anything is asked; run_tool_call
\* and decide then refuse what the plan refuses.
Look(r) ==
  /\ now[r] = "idle" /\ Len(results[r]) < Len(calls[r])
  /\ IF \/ Current(r).name = "unknown" \/ Malformed(Current(r))
        \/ Invalid(Tool(r), Current(r))
     THEN Answer(r, "REJECTED", "none")
     ELSE Goes(r, "valid")
  /\ UNCHANGED <<way, settings, grant, granted, calls, turns>>

\* What asking the gate comes to: the handler, a refusal, or a pause.
Asked(r, verdict) ==
  CASE verdict = "allow" -> Goes(r, "executing")
    [] verdict = "deny"  -> Answer(r, "REJECTED", "none")
    [] verdict = "wait"  -> Goes(r, "waiting")

\* Jev and the gate, which execute_request asks only when the plan does not refuse.
Authorize(r) ==
  /\ now[r] = "valid" /\ way[r] \in {"loop", "engine"}
  /\ IF JevDenies(Tool(r)) \/ (way[r] = "engine" /\ Plan(Tool(r)) = "refuse")
     THEN Answer(r, "REJECTED", "none") /\ UNCHANGED grant
     ELSE /\ Asked(r, Gate(Tool(r)))
          /\ IF Plan(Tool(r)) # "free" /\ (settings.required \/ DefaultDeny(Tool(r)))
             THEN Spend(Tool(r)) ELSE UNCHANGED grant
  /\ UNCHANGED <<way, settings, granted, calls, turns>>

\* evaluate_and_materialize: a preview, which spends nothing.
Evaluated(r) ==
  /\ now[r] = "valid" /\ way[r] = "policy"
  /\ CASE Evaluate(Tool(r)) = "allow" -> Goes(r, "executing")
       [] Evaluate(Tool(r)) = "wait"  -> Goes(r, "waiting")
       [] Evaluate(Tool(r)) \in {"deny", "no_sandbox"} -> Answer(r, "REJECTED", "none")
  /\ UNCHANGED <<way, settings, grant, granted, calls, turns>>

\* A call that needs an approval is refused for now; it is not taken up again.
Pause(r) ==
  /\ now[r] = "waiting" /\ Answer(r, "REJECTED", "none")
  /\ UNCHANGED <<way, settings, grant, granted, calls, turns>>

\* Mutated form: a handler that fails is reported as a refusal.
ExecuteRefusing(r) ==
  /\ now[r] = "executing"
  /\ \E o \in Outcomes :
       Answer(r, IF IF way[r] = "loop" THEN Completed(o) ELSE Succeeded(o)
                 THEN "SUCCEEDED" ELSE "REJECTED", o)
  /\ UNCHANGED <<way, settings, grant, granted, calls, turns>>

\* _invoke_handler; every exception becomes a result.
Execute(r) ==
  /\ now[r] = "executing"
  /\ \E o \in Outcomes :
       Answer(r, IF IF way[r] = "loop" THEN Completed(o) ELSE Succeeded(o)
                 THEN "SUCCEEDED" ELSE "FAILED", o)
  /\ UNCHANGED <<way, settings, grant, granted, calls, turns>>

\* A human decides, and a grant expires.
Grant(s) ==
  /\ granted < MaxGrants /\ granted' = granted + 1
  /\ s \notin Dangerous /\ grant[s] = "none"
  /\ \E g \in {"once", "standing"} : grant' = [grant EXCEPT ![s] = g]
  /\ UNCHANGED <<way, settings, calls, results, now, turns>>

Expire(s) ==
  /\ grant[s] # "none" /\ grant' = [grant EXCEPT ![s] = "none"]
  /\ UNCHANGED <<way, settings, granted, calls, results, now, turns>>

Next ==
  \/ \E r \in Run : \/ Receive(r) \/ Return(r) \/ Look(r) \/ Authorize(r)
                    \/ Evaluated(r) \/ Pause(r) \/ Execute(r)
  \/ \E s \in Scopes : Grant(s) \/ Expire(s)

Spec == Init /\ [][Next]_vars

-----------------------------------------------------------------------------
(* Correctness.                                                            *)

\* A model that puts the same call into two protocols at once is understood once,
\* and every call it makes is answered, in its order and before the model is asked
\* again -- whatever the earlier calls of the same answer did.
EachCallIsAnswered ==
  \A r \in Run :
    /\ \A i \in 1..Len(results[r]) : results[r][i].call = calls[r][i]
    /\ now[r] \in {"thinking", "done"} => Len(results[r]) = Len(calls[r])
    /\ \A i \in 1..Len(calls[r]) :
         Cardinality({j \in 1..Len(calls[r]) : calls[r][j].id = calls[r][i].id}) <= turns[r]

\* The program has two authorities.  What the policy engine lets run, the gate's way
\* lets run, under the same settings and grants; and with neither an autonomous mode,
\* a missing sandbox nor a limit of zero between them they agree on every capability.
PathsAgree ==
  \A n \in DOMAIN Catalog :
    LET tool == Catalog[n]
        gate == Gate(tool) = "allow" /\ ~JevDenies(tool) IN
    /\ Evaluate(tool) = "allow" => gate
    /\ settings.mode \in {"build", "plan"} /\ settings.backend # "none" /\ ~OverLimit
       => (gate => Evaluate(tool) = "allow")

\* No handler sees arguments its schema refuses, in any way; what the loop reports as
\* completed did what it was asked to.
HandlersAreShielded ==
  \A r \in Run : \A i \in 1..Len(results[r]) :
    LET result == results[r][i] IN
    /\ result.outcome # "none"
       => /\ result.call.name \in DOMAIN Catalog
          /\ result.call.raw \in {"absent", "fits", "misfits"}
          /\ \/ result.call.raw = "fits" \/ Catalog[result.call.name].schema = "broken"
             \/ result.call.raw = "absent" /\ ~Catalog[result.call.name].required
          /\ ~DefaultDeny(Catalog[result.call.name])
    /\ way[r] = "loop" /\ result.state = "SUCCEEDED"
       => result.outcome \notin {"exit_code", "ok_false", "error"}

\* The states of the calls of those that get a value back follow the lifecycle.
Requests == Run \X (1 .. MaxTurns * 3)
LifeOf(r, i) ==
  IF way[r] = "loop" \/ i > Len(results[r]) + 1 THEN "REQUESTED"
  ELSE IF i <= Len(results[r]) THEN results[r][i].state
  ELSE CASE now[r] = "valid"     -> "VALIDATED"
         [] now[r] = "waiting"   -> "AWAITING_APPROVAL"
         [] now[r] = "executing" -> "EXECUTING"
         [] OTHER                -> "REQUESTED"

Contract == INSTANCE ToolLifecycle WITH Request <- Requests,
                                        life <- [q \in Requests |-> LifeOf(q[1], q[2])]
LifecycleHolds == Contract!Spec
=============================================================================
