---------------------------- MODULE TaskContract ----------------------------
(***************************************************************************)
(* What the platform promises about a task row, whoever moves it: every    *)
(* step follows an edge of the transition table, or the composite          *)
(* RUNNING -> RECOVERING -> QUEUED that recovery commits as one            *)
(* transaction; `attempt' counts entries into RUNNING and nothing else;    *)
(* recovery requeues only a task that has starts left.  Several rows may   *)
(* move in one step, because one transaction may move several.             *)
(***************************************************************************)
EXTENDS Naturals, TaskStates

CONSTANTS Task,        \* the task rows
          MaxAttempts  \* starts after which recovery stops requeueing (3)

VARIABLES state,   \* [Task -> TaskState \cup {Absent}]
          attempt  \* [Task -> Nat]

vars == <<state, attempt>>

Init == /\ state = [t \in Task |-> "PENDING"]
        /\ attempt = [t \in Task |-> 0]

\* attempt is bumped exactly when the row enters RUNNING.
Counted(t) == attempt'[t] = IF state'[t] = "RUNNING" THEN attempt[t] + 1 ELSE attempt[t]

\* One validated transition of the table.
Advance(t) == CanTransition(state[t], state'[t]) /\ Counted(t)

\* Recovery of an orphan, RECOVERING being visible only in the event log.
Recover(t) == /\ state[t] = "RUNNING"
              /\ state'[t] = "QUEUED"
              /\ attempt[t] < MaxAttempts
              /\ attempt'[t] = attempt[t]

\* The row goes away with its session.
Remove(t) == state'[t] = Absent /\ attempt'[t] = attempt[t]

Stay(t) == state'[t] = state[t] /\ attempt'[t] = attempt[t]

Next == /\ \A t \in Task : Advance(t) \/ Recover(t) \/ Remove(t) \/ Stay(t)
        /\ DOMAIN state' = Task
        /\ DOMAIN attempt' = Task

Spec == Init /\ [][Next]_vars
=============================================================================
