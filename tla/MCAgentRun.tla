----------------------------- MODULE MCAgentRun ------------------------------
(***************************************************************************)
(* Instances of AgentRun for TLC.                                          *)
(***************************************************************************)
EXTENDS AgentRun, TLC

CONSTANTS t1, k1, k2, s1, s2, cloud, other, m1, m2, e1

\* A task, and messages of one chat.
MCSessionOf == [c \in Caller |-> IF c = t1 THEN s1 ELSE s2]
MCMaxRuns    == [c \in Caller |-> 1]

\* Two models of Ollama Cloud and one of an emergency provider; the task's keyed
\* candidates begin with the emergency provider.
MCProviderOf   == [m \in Model |-> IF m = e1 THEN other ELSE cloud]
MCDefaultModel == [p \in Primaries |-> IF p = cloud THEN m1 ELSE e1]
MCCloudOrder   == SelectSeq(<<m1, m2>>, LAMBDA m : m \in Model)
MCEmergency    == <<e1>>
MCRanked       == <<e1, m1>>

\* Either the task runs, after m2 has been found missing, or the chat's two messages
\* are answered next to each other.
Alone(callers, primaries, missing) ==
  /\ primary \in primaries /\ unavailable = missing
  /\ run = [c \in Caller |-> IF c \in callers THEN NoRun ELSE [NoRun EXCEPT !.runs = MaxRuns[c]]]

MCInit ==
  /\ \/ Alone({t1}, {cloud}, {m2}) /\ crashes = 0 /\ days = MaxDays
     \/ Alone({k1, k2}, {cloud}, {}) /\ crashes = MaxCrashes /\ days = MaxDays
     \/ Alone({k1, k2}, {other}, {}) /\ crashes = MaxCrashes /\ days = 0
  /\ tracker = [m \in Model |-> Fresh]
  /\ lock = [s \in Session |-> <<>>]
  /\ spent = 0 /\ ownSpent = [c \in Caller |-> 0]
  /\ breaker = [c \in Caller |-> [p \in Providers |-> Closed]]
  /\ call = [c \in Caller |-> NoCall]
  /\ seen = [t \in Task |-> <<>>] /\ kept = [t \in Task |-> {}] /\ shown = [t \in Task |-> {}]

MCSpec == MCInit /\ [][Next]_vars /\ \A c \in Caller : WF_vars(Step(c))
=============================================================================
