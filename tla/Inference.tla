------------------------------ MODULE Inference ------------------------------
(***************************************************************************)
(* Calls to language models: the choice of a model and the retries and     *)
(* fallbacks around one call (services/inference_runtime.py), the router   *)
(* with its budget check, circuit breakers and records                     *)
(* (services/model_router.py, services/budget.py), and the strategic       *)
(* choice of an agent run (agents/react_agent.py, services/llm_router.py). *)
(*                                                                         *)
(* The callers are the threads that execute tasks or answer chats.  They   *)
(* share, in the process, the two health trackers and the session locks,   *)
(* and in the database the recorded spend.  A router, and so its circuit   *)
(* breakers, belongs to one caller.  Time passes between any two steps:    *)
(* that a cooldown or a rate limit is over is a free choice.               *)
(***************************************************************************)
EXTENDS Integers, Sequences, FiniteSets, Filter

CONSTANTS
  Task,         \* threads that execute an agent run
  Chat,         \* threads that answer a chat message
  Session,
  SessionOf,    \* the session, or chat, of a caller
  Model,
  ProviderOf,
  Cloud,        \* PRIMARY_PROVIDER, Ollama Cloud
  Primaries,    \* what effective_primary may be in this deployment
  DefaultModel, \* the default model under each effective primary
  CloudOrder,   \* models of Ollama Cloud, best first
  Emergency,    \* models of fallback_provider_list, in its order
  Ranked,       \* rank_candidates: keyed models that call tools, best first
  ToolModel,    \* models that call tools
  Requested,    \* models a task may ask for by name
  Failure,      \* the errors providers answer with, from the kinds below
  Attempts,     \* ollama_retry_attempts
  BreakAfter,   \* circuit_breaker_threshold
  DownAfter,    \* failures in a row that make a silent model unroutable (5)
  DailyLimit,   \* daily_budget_usd
  TaskLimit,    \* max_task_cost_usd
  MaxCost       \* of one call

Caller    == Task \cup Chat
Providers == {ProviderOf[m] : m \in Model}

\* Errors by what follows from them.  "budget" and "circuit" are the refusals
\* of the router itself: the first reads as an exhausted quota.
Unretryable  == {"auth_failed", "missing", "invalid", "tools", "quota", "budget"}
Unavailable  == {"auth_failed", "missing", "quota", "budget"}
WrongModel   == {"missing", "tools", "quota", "budget"}
Disabling    == {"auth_failed", "missing", "invalid", "tools"}
CoolingDown  == {"rate_limited", "quota", "budget"}
Silent       == {"timeout", "server_error"}
FailureKinds == Unretryable \cup Disabling \cup CoolingDown \cup Silent \cup {"unknown", "circuit"}

\* Answers without error: text, text with fenced calls, native calls only, nothing.
Answers == {"text", "text_calls", "calls", "empty"}

ASSUME InferenceAssumption ==
  /\ IsFiniteSet(Caller) /\ Task \cap Chat = {}
  /\ SessionOf \in [Caller -> Session] /\ Primaries \subseteq Providers
  /\ DefaultModel \in [Primaries -> Model]
  /\ \A i \in DOMAIN CloudOrder : ProviderOf[CloudOrder[i]] = Cloud
  /\ CloudOrder \in Seq(Model) /\ Emergency \in Seq(Model) /\ Ranked \in Seq(Model)
  /\ ToolModel \subseteq Model /\ Requested \subseteq Model /\ Failure \subseteq FailureKinds
  /\ Attempts \in Nat \ {0} /\ BreakAfter \in Nat \ {0} /\ DownAfter \in Nat \ {0}
  /\ DailyLimit \in Nat \ {0} /\ TaskLimit \in Nat \ {0} /\ MaxCost \in Nat

VARIABLES
  primary,     \* effective_primary, from the settings
  unavailable, \* models INFERENCE_HEALTH holds UNAVAILABLE
  tracker,     \* GLOBAL_HEALTH_TRACKER: state and consecutive failures
  lock,        \* INFERENCE_LOCKS: the locked model and its candidates
  spent,       \* model_calls: the cost of today
  ownSpent,    \* model_calls: the cost of each task
  breaker,     \* each caller's router: its circuit breakers
  call         \* each caller's way through inference_runtime.invoke

shared == <<primary, unavailable, tracker, lock, spent, ownSpent>>
inferenceVars == <<shared, breaker, call>>

NoCall == [pc |-> "idle", chain |-> <<>>, queue |-> <<>>, try |-> 0, next |-> <<>>, last |-> "empty"]
Closed == [state |-> "closed", failures |-> 0]
Fresh  == [state |-> "routable", failures |-> 0]

InitInference ==
  /\ primary \in Primaries
  /\ unavailable = {}
  /\ tracker = [m \in Model |-> Fresh]
  /\ lock = [s \in Session |-> <<>>]
  /\ spent = 0 /\ ownSpent = [c \in Caller |-> 0]
  /\ breaker = [c \in Caller |-> [p \in Providers |-> Closed]]
  /\ call = [c \in Caller |-> NoCall]

-----------------------------------------------------------------------------
(* The choice of a model.                                                  *)

\* A chain of candidates that begins with the chosen one.
From(m, candidates) == <<m>> \o Only(candidates, Model \ {m})

Satisfies(c, m) == c \in Task => m \in ToolModel

\* ProviderHealthTracker.is_routable; a rate limit may be over.
Routable(m) == tracker[m].state # "out"

\* _strategic_selection: the first four that are routable; rate-limited ones
\* are left out for as long as they cool down.
Strategic(c) ==
  IF c \notin Task THEN {}
  ELSE {SubSeq(s, 1, IF Len(s) < 4 THEN Len(s) ELSE 4) : s \in
          {Only(Ranked, {m \in Model : Routable(m)} \ cold) :
             cold \in SUBSET {m \in Model : tracker[m].state = "cooling"}}}

\* Mutated form: a locked model is kept although it became unavailable.
LockHoldsAnyway(c) ==
  LET locked == lock[SessionOf[c]] IN
    locked # <<>> /\ ProviderOf[Head(locked)] = primary /\ Satisfies(c, Head(locked))

LockHolds(c) ==
  LET locked == lock[SessionOf[c]] IN
    /\ locked # <<>>
    /\ ProviderOf[Head(locked)] = primary
    /\ Head(locked) \notin unavailable
    /\ Satisfies(c, Head(locked))

Usable(c, candidates) == Only(candidates, {m \in Model \ unavailable : Satisfies(c, m)})

\* _emergency_candidates without the providers the chain starts with.
EmergencyFor(c) ==
  Usable(c, Only(Emergency, {m \in Model : ProviderOf[m] \notin {primary, Cloud}}))

\* select_model: the locked chain, the configured provider, Ollama Cloud with its
\* alternates and the emergency layer, or the default when nothing is left.
Selected(c) ==
  LET usable == Usable(c, CloudOrder) \o EmergencyFor(c) IN
    IF LockHolds(c) THEN lock[SessionOf[c]]
    ELSE IF primary # Cloud THEN From(DefaultModel[primary], <<DefaultModel[primary]>> \o EmergencyFor(c))
    ELSE IF usable # <<>> THEN usable
    ELSE <<DefaultModel[primary]>>

\* The lock after select_model: an unusable one is cleared, and the default of a
\* deployment without any candidate is not locked.
LockAfter(c, chain) ==
  IF LockHolds(c) THEN lock
  ELSE IF primary = Cloud /\ Usable(c, CloudOrder) \o EmergencyFor(c) = <<>>
         THEN [lock EXCEPT ![SessionOf[c]] =
                 IF lock[SessionOf[c]] # <<>> /\ ProviderOf[Head(lock[SessionOf[c]])] # primary
                   THEN @ ELSE <<>>]
  ELSE [lock EXCEPT ![SessionOf[c]] = chain]

\* A call of the first model of the chain.
Begun(chain) ==
  [pc |-> "ready", chain |-> chain, queue |-> <<Head(chain)>>, try |-> 1, next |-> <<>>, last |-> "empty"]

\* _resolve_selection, or select_model for a chat; a router is built for the run.
Select(c) ==
  /\ call[c].pc = "idle"
  /\ \/ \E m \in Requested : c \in Task /\ call' = [call EXCEPT ![c] = Begun(<<m>>)] /\ UNCHANGED lock
     \/ \E chain \in Strategic(c) \ {<<>>} :
          call' = [call EXCEPT ![c] = Begun(chain)] /\ UNCHANGED lock
     \/ /\ <<>> \in Strategic(c) \/ c \in Chat
        /\ call' = [call EXCEPT ![c] = Begun(Selected(c))]
        /\ lock' = LockAfter(c, Selected(c))
  /\ breaker' = [breaker EXCEPT ![c] = [p \in Providers |-> Closed]]
  /\ UNCHANGED <<primary, unavailable, tracker, spent, ownSpent>>

-----------------------------------------------------------------------------
(* One call through the router.                                            *)

Current(c) == Head(call[c].queue)

\* Mutated form: only the task's own budget is looked at.
BrokeAlone(c) == c \in Task /\ ownSpent[c] >= TaskLimit

\* BudgetLedger.check: a chat has no task.
Broke(c) == (c \in Task /\ ownSpent[c] >= TaskLimit) \/ spent >= DailyLimit

\* ProviderHealthTracker.report_success and report_failure.
Tracked(entry, o) ==
  IF o \in Answers THEN Fresh
  ELSE LET failures == IF entry.failures < DownAfter THEN entry.failures + 1 ELSE DownAfter IN
    [failures |-> failures,
     state |-> IF o \in Disabling \/ (o \in Silent /\ failures = DownAfter) THEN "out"
               ELSE IF o \in CoolingDown THEN "cooling" ELSE "routable"]

\* _record: the health of the model, and the model_calls row with its cost.
Record(c, o, cost) ==
  /\ tracker' = [tracker EXCEPT ![Current(c)] = Tracked(@, o)]
  /\ spent' = spent + cost
  /\ ownSpent' = [ownSpent EXCEPT ![c] = IF c \in Task THEN @ + cost ELSE 0]
  /\ call' = [call EXCEPT ![c].pc = "returned", ![c].last = o]

\* before_call: an open circuit refuses, or lets one probe through when its
\* cooldown is over; the budget refuses before it.
Admit(c) ==
  LET p == ProviderOf[Current(c)] IN
  /\ call[c].pc = "ready"
  /\ \/ Broke(c) /\ Record(c, "budget", 0) /\ UNCHANGED breaker
     \/ ~Broke(c) /\ breaker[c][p].state = "open" /\ Record(c, "circuit", 0) /\ UNCHANGED breaker
     \/ /\ ~Broke(c)
        /\ call' = [call EXCEPT ![c].pc = "calling"]
        /\ breaker' = [breaker EXCEPT ![c][p].state = IF @ = "open" THEN "half-open" ELSE @]
        /\ UNCHANGED <<tracker, spent, ownSpent>>
  /\ UNCHANGED <<primary, unavailable, lock>>

\* after_success and after_failure.
Tripped(b, o) ==
  IF o \in Answers THEN Closed
  ELSE LET failures == IF b.failures < BreakAfter THEN b.failures + 1 ELSE BreakAfter IN
    [failures |-> failures,
     state |-> IF b.state = "half-open" \/ failures = BreakAfter THEN "open" ELSE b.state]

\* What a provider may answer: only a task offers tools.
Outcomes(c) == Failure \cup (IF c \in Task THEN Answers ELSE {"text", "empty"})

\* The provider answers, or its call raises: _run_guarded, then _record.
Return(c) ==
  /\ call[c].pc = "calling"
  /\ \E o \in Outcomes(c) :
       /\ \E cost \in IF o \in Answers THEN 0..MaxCost ELSE {0} : Record(c, o, cost)
       /\ breaker' = [breaker EXCEPT ![c][ProviderOf[Current(c)]] = Tripped(@, o)]
  /\ UNCHANGED <<primary, unavailable, lock>>

-----------------------------------------------------------------------------
(* Retries and fallbacks.                                                  *)

\* An answer without text counts as a failure of unknown kind.
Useful(o) == o \in {"text", "text_calls"}

\* InferenceHealthTracker.report_success and report_failure.
Reported(m, o) == IF o \in Unavailable THEN unavailable \cup {m} ELSE unavailable \ {m}

\* _continue_chain: Ollama Cloud alternates first if the model was the problem,
\* else other providers only.
Continued(chain, o, down) ==
  LET others == Only(Tail(chain), Model \ down)
      Of(p)  == {m \in Model : ProviderOf[m] = p}
  IN
    IF o \in WrongModel THEN Only(others, Of(Cloud)) \o Only(others, Model \ Of(Cloud))
                        ELSE Only(others, Model \ Of(ProviderOf[Head(chain)]))

\* Mutated form: every failure begins the fallbacks of the selection again.
RestOfChain(c, o, down) == Continued(call[c].chain, o, down)

\* The candidates that are left: those of a failed fallback were computed before.
Rest(c, o, down) ==
  IF call[c].try > 0 THEN Continued(call[c].chain, o, down) ELSE Tail(call[c].queue)

Retries(c, o) == call[c].try > 0 /\ o \notin Unretryable /\ call[c].try < Attempts

\* The caller of the router reports the health of the model.
Report(c) ==
  /\ call[c].pc = "returned"
  /\ unavailable' = Reported(Current(c), call[c].last)
  /\ UNCHANGED <<primary, tracker, spent, ownSpent, breaker>>

\* The candidates left after the failure, health included.
Left(c) == Rest(c, call[c].last, Reported(Current(c), call[c].last))

\* The answer is returned; a fallback that answers takes the session's lock.
Answered(c) ==
  /\ Report(c) /\ Useful(call[c].last)
  /\ call' = [call EXCEPT ![c].pc = "answered"]
  /\ lock' = [lock EXCEPT ![SessionOf[c]] =
                IF call[c].try > 0 THEN @ ELSE From(Current(c), call[c].next)]

\* The same model again, after a delay.
RetryCall(c) ==
  /\ Report(c) /\ ~Useful(call[c].last) /\ Retries(c, call[c].last)
  /\ call' = [call EXCEPT ![c].pc = "ready", ![c].try = @ + 1]
  /\ UNCHANGED lock

\* The next candidate; each of them has one try.
FallBack(c) ==
  /\ Report(c) /\ ~Useful(call[c].last) /\ ~Retries(c, call[c].last) /\ Left(c) # <<>>
  /\ call' = [call EXCEPT ![c].pc = "ready", ![c].try = 0, ![c].queue = Left(c),
                          ![c].next = IF call[c].try > 0 THEN Left(c) ELSE @]
  /\ UNCHANGED lock

\* No candidate is left.
GiveUp(c) ==
  /\ Report(c) /\ ~Useful(call[c].last) /\ ~Retries(c, call[c].last) /\ Left(c) = <<>>
  /\ call' = [call EXCEPT ![c].pc = "exhausted"]
  /\ UNCHANGED lock

Judge(c) == Answered(c) \/ RetryCall(c) \/ FallBack(c) \/ GiveUp(c)

CallStep(c) == Admit(c) \/ Return(c) \/ Judge(c)

-----------------------------------------------------------------------------
(* Properties.                                                             *)

InferenceTypeOK ==
  /\ primary \in Primaries /\ unavailable \subseteq Model
  /\ tracker \in [Model -> [state : {"routable", "cooling", "out"}, failures : 0..DownAfter]]
  /\ lock \in [Session -> Seq(Model)]
  /\ spent \in Nat /\ ownSpent \in [Caller -> Nat]
  /\ breaker \in [Caller -> [Providers -> [state : {"closed", "open", "half-open"}, failures : 0..BreakAfter]]]
  /\ call \in [Caller -> [pc : {"idle", "ready", "calling", "returned", "answered", "exhausted"},
                          chain : Seq(Model), queue : Seq(Model), try : 0..Attempts,
                          next : Seq(Model), last : Answers \cup FailureKinds]]

\* The budget is read before a call and its cost recorded after it, so parallel
\* calls may overspend together; but never by more than one call each.
BoundedOverspend == spent <= DailyLimit - 1 + MaxCost * Cardinality(Caller)

\* As long as Ollama Cloud has a model that will do, select_model takes one: it
\* neither keeps a lock on a model that became unavailable nor stays with the
\* fallback another call has moved the session to.
CloudFirst ==
  [][\A c \in Chat :
       call[c].pc = "idle" /\ call'[c].pc = "ready" /\ primary = Cloud
         /\ Usable(c, CloudOrder) # <<>> =>
       /\ ProviderOf[Head(call'[c].chain)] = Cloud
       /\ Head(call'[c].chain) \notin unavailable]_inferenceVars
=============================================================================
