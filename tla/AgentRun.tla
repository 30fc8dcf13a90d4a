------------------------------ MODULE AgentRun -------------------------------
(***************************************************************************)
(* An agent run on top of Inference: the handler (agents/react_agent.py),  *)
(* the loop of model calls and tool calls (services/agent_loop.py) and the *)
(* context it keeps (services/context.py), next to chats that make single  *)
(* calls (services/gateway.py).  What a tool does is left open: only the   *)
(* size and the importance of its result matter here.                      *)
(***************************************************************************)
EXTENDS Inference

CONSTANTS
  MaxIters,     \* tools_max_iters
  MaxCalls,     \* bounds the tool calls in one answer
  ContextLimit, \* tokens of results above which they are compacted
  KeepRecent,   \* compaction_keep_recent
  Results,      \* results tools may have, from ResultKinds
  MaxRuns,      \* bounds the runs of a task and the messages of a chat
  MaxCrashes,   \* bounds the restarts of the process
  MaxDays       \* bounds the days

\* A result by its importance; a "long" one was cut when it was rendered and is
\* cut again by observe.
ResultKinds == {"low", "long", "pinned"}

ASSUME AgentRunAssumption ==
  /\ MaxIters \in Nat \ {0} /\ MaxCalls \in Nat \ {0}
  /\ ContextLimit \in Nat /\ KeepRecent \in Nat \ {0} /\ Results \subseteq ResultKinds
  /\ MaxRuns \in [Caller -> Nat] /\ MaxCrashes \in Nat /\ MaxDays \in Nat

VARIABLES
  run,     \* locals of run_tool_loop
  seen,    \* the results of a run's tool calls, in their order
  kept,    \* those the ContextManager still tracks
  shown,   \* those whose text is in the transcript
  crashes,
  days

context == <<seen, kept, shown>>
vars    == <<inferenceVars, run, context, crashes, days>>

NoRun == [pc |-> "idle", runs |-> 0, iteration |-> 0]

Init ==
  /\ InitInference
  /\ run = [c \in Caller |-> NoRun]
  /\ seen = [t \in Task |-> <<>>] /\ kept = [t \in Task |-> {}] /\ shown = [t \in Task |-> {}]
  /\ crashes = 0 /\ days = 0

-----------------------------------------------------------------------------
(* The context.                                                            *)

Weight(kind) == IF kind = "long" THEN 2 ELSE 1

\* The tokens of the first i results, those in the set ids.
Tokens(results, ids) ==
  LET sum[i \in 0..Len(results)] ==
        IF i = 0 THEN 0 ELSE sum[i - 1] + (IF i \in ids THEN Weight(results[i]) ELSE 0)
  IN  sum[Len(results)]

Recent(ids) == {i \in ids : Cardinality({j \in ids : j > i}) < KeepRecent}

\* Mutated form: only the recent results are protected.
DroppableOld(results, ids) == ids \ Recent(ids)

Droppable(results, ids) == {i \in ids \ Recent(ids) : results[i] # "pinned"}

\* ContextManager.compact: what remains tracked, the oldest droppable results
\* going first until the rest fits.  When none is droppable nothing is done: the
\* least important pinned one is looked for among blocks that were all kept.
Compacted(results, ids) ==
  LET older(i) == {j \in Droppable(results, ids) : j < i} IN
    IF Cardinality(ids) <= 1 THEN ids
    ELSE {i \in ids : \/ i \notin Droppable(results, ids)
                      \/ Tokens(results, ids \ older(i)) <= ContextLimit}

\* The dropped texts are replaced in the transcript; that of a long result, as
\* observe cut it, does not occur there.
Erased(results, dropped) == {i \in dropped : results[i] # "long"}

\* One answer's tool calls: their results are rendered and observed, then the
\* transcript is compacted.
UseTools(t) ==
  \E new \in UNION {[1..n -> Results] : n \in 1..MaxCalls} :
    LET results == seen[t] \o new
        fresh   == (Len(seen[t]) + 1)..Len(results)
        rest    == Compacted(results, kept[t] \cup fresh)
    IN
    /\ seen' = [seen EXCEPT ![t] = results]
    /\ kept' = [kept EXCEPT ![t] = rest]
    /\ shown' = [shown EXCEPT ![t] = (@ \cup fresh) \ Erased(results, (kept[t] \cup fresh) \ rest)]

-----------------------------------------------------------------------------
(* The loop.                                                               *)

\* The handler selects a model once; the loop makes its first call.
Begin(c) ==
  /\ run[c].pc # "loop" /\ run[c].runs < MaxRuns[c]
  /\ Select(c)
  /\ run' = [run EXCEPT ![c] = [NoRun EXCEPT !.pc = "loop", !.runs = run[c].runs + 1, !.iteration = 1]]
  /\ seen' = [t \in Task |-> IF t = c THEN <<>> ELSE seen[t]]
  /\ kept' = [t \in Task |-> IF t = c THEN {} ELSE kept[t]]
  /\ shown' = [t \in Task |-> IF t = c THEN {} ELSE shown[t]]
  /\ UNCHANGED <<crashes, days>>

\* A model call of its run, or of a chat.
Work(c) ==
  /\ CallStep(c)
  /\ UNCHANGED <<run, context, crashes, days>>

\* The loop returns, or the gateway sends the answer or an apology.  The router
\* goes with its run.
End(c) ==
  /\ run' = [run EXCEPT ![c].pc = "idle"]
  /\ call' = [call EXCEPT ![c] = NoCall]
  /\ breaker' = [breaker EXCEPT ![c] = [p \in Providers |-> Closed]]

\* The next call goes to the model the run has selected, whatever became of it.
CallAgain(t) ==
  /\ run' = [run EXCEPT ![t].iteration = @ + 1]
  /\ call' = [call EXCEPT ![t] = Begun(call[t].chain)]
  /\ UNCHANGED breaker

\* The last call asks for an answer without tools; its errors are ignored.
LastCall(t) == run[t].iteration > MaxIters

\* What the loop makes of the result of a model call.
Turn(t) ==
  LET o == call[t].last IN
  /\ call[t].pc \in {"answered", "exhausted"}
  /\ \/ LastCall(t) /\ End(t) /\ UNCHANGED context
     \/ ~LastCall(t) /\ o \notin Answers /\ End(t) /\ UNCHANGED context
     \/ ~LastCall(t) /\ o \in {"text", "empty"} /\ End(t) /\ UNCHANGED context
     \/ /\ ~LastCall(t) /\ o \in {"calls", "text_calls"}
        /\ UseTools(t)
        /\ IF run[t].iteration = MaxIters /\ o = "text_calls" THEN End(t) ELSE CallAgain(t)
  /\ UNCHANGED <<shared, crashes, days>>

Reply(c) ==
  /\ call[c].pc \in {"answered", "exhausted"}
  /\ End(c)
  /\ UNCHANGED <<shared, context, crashes, days>>

Step(c) == Work(c) \/ (c \in Task /\ Turn(c)) \/ (c \in Chat /\ Reply(c))

-----------------------------------------------------------------------------
(* The world.                                                              *)

\* The process dies and starts again: what is not in the database is lost.
Crash ==
  /\ crashes < MaxCrashes /\ crashes' = crashes + 1
  /\ unavailable' = {} /\ tracker' = [m \in Model |-> Fresh]
  /\ lock' = [s \in Session |-> <<>>]
  /\ breaker' = [c \in Caller |-> [p \in Providers |-> Closed]]
  /\ call' = [c \in Caller |-> NoCall]
  /\ run' = [c \in Caller |-> [NoRun EXCEPT !.runs = run[c].runs]]
  /\ UNCHANGED <<primary, spent, ownSpent, context, days>>

\* Midnight: the usage of the day begins again.
NewDay ==
  /\ days < MaxDays /\ days' = days + 1
  /\ spent' = 0
  /\ UNCHANGED <<primary, unavailable, tracker, lock, ownSpent, breaker, call, run, context, crashes>>

Next == (\E c \in Caller : Begin(c) \/ Step(c)) \/ Crash \/ NewDay

Spec == Init /\ [][Next]_vars

\* A thread that makes a call goes on: providers are called with a timeout.
FairSpec == Spec /\ \A c \in Caller : WF_vars(Step(c))

-----------------------------------------------------------------------------
(* Properties.                                                             *)

TypeOK ==
  /\ InferenceTypeOK
  /\ run \in [Caller -> [pc : {"idle", "loop"}, runs : Nat, iteration : 0..(MaxIters + 1)]]
  /\ seen \in [Task -> Seq(ResultKinds)]
  /\ \A t \in Task : kept[t] \subseteq DOMAIN seen[t] /\ shown[t] \subseteq DOMAIN seen[t]
  /\ crashes \in 0..MaxCrashes /\ days \in 0..MaxDays

\* Compaction never takes an important or a recent result from the transcript, in
\* whatever order results of all sizes arrive (context.py: decisions and state "the
\* agent must not lose").
ImportantStays ==
  \A t \in Task : \A i \in DOMAIN seen[t] :
    seen[t][i] = "pinned" \/ i > Len(seen[t]) - KeepRecent => i \in shown[t]

\* Every run of an agent ends, whatever the providers answer: retries, fallbacks
\* and iterations are bounded.
RunEnds == \A c \in Caller : run[c].pc = "loop" ~> run[c].pc # "loop"
=============================================================================
