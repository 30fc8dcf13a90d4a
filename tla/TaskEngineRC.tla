---------------------------- MODULE TaskEngineRC ----------------------------
(***************************************************************************)
(* The execution engine under the isolation its database gives it.  Task   *)
(* rows carry no version column and are not locked: on PostgreSQL a        *)
(* transaction runs READ COMMITTED, on SQLite a SELECT before the first    *)
(* write holds nothing, so a transaction that reads a row, decides, and    *)
(* writes it back may overwrite what another one committed in between.     *)
(*                                                                         *)
(* The guarded UPDATEs (claim_queued_task; the transition, run and retry   *)
(* endpoints) stay atomic.  _finish, _verify_and_finish, cancel_task and   *)
(* recover_orphans read in one step and write in a later one, by key.      *)
(* Queueing and the last-resort record are left atomic, and no session is  *)
(* deleted here (a write to a deleted row would fail instead).             *)
(***************************************************************************)
EXTENDS TaskEngine

VARIABLES
  seen,      \* [Driver -> the state _finish or _verify_and_finish read, or None]
  snapshot,  \* [Recoverer -> what its recover_orphans has read, or None]
  doomed     \* tasks a cancel_task has found cancellable and not yet written

readVars == <<seen, snapshot, doomed>>
varsRC   == <<vars, readVars>>

\* The callers of recover_orphans: the recovery tick and each drive_session.
Tick == "tick"
Recoverer == {Tick} \cup Inline

InitRC == /\ Init
          /\ seen = [d \in Driver |-> None]
          /\ snapshot = [x \in Recoverer |-> None]
          /\ doomed = {}

-----------------------------------------------------------------------------
\* db.get(Task, task_id), at the head of the transaction.
ReadTask(d) ==
  /\ Working(d) /\ seen[d] = None
  /\ seen' = [seen EXCEPT ![d] = state[Job(d)]]
  /\ UNCHANGED <<vars, snapshot, doomed>>

\* Its commit, decided on what was read.
WriteTask(d) ==
  /\ Working(d) /\ seen[d] # None
  /\ ExecutionStep(d, seen[d]) \/ FailureStep(d, seen[d])
  /\ seen' = [seen EXCEPT ![d] = None]
  /\ UNCHANGED <<snapshot, doomed>>

Orphans == {t \in Running : \E r \in Stale : runTask[r] = t}

\* The stale leases are read, and of their tasks what the write depends on.
ReadOrphans(x) ==
  /\ snapshot[x] = None
  /\ IF x = Tick THEN Stale # {} ELSE drv[x].pc = "idle"
  /\ snapshot' = [snapshot EXCEPT ![x] =
       [stale |-> Stale,
        read  |-> [t \in Task |-> IF t \in Orphans THEN "RUNNING" ELSE None],
        tries |-> [t \in Task |-> IF t \in Orphans THEN attempt[t] ELSE 0]]]
  /\ UNCHANGED <<vars, seen, doomed>>

WriteOrphans(x) ==
  /\ snapshot[x] # None
  /\ RecoverOrphans(snapshot[x].stale, snapshot[x].read, snapshot[x].tries)
  /\ snapshot' = [snapshot EXCEPT ![x] = None]
  /\ UNCHANGED <<hb, history, seen, doomed>>

TickRC == WriteOrphans(Tick) /\ UNCHANGED drv

StartInlineRC(d, s) ==
  /\ d \in Inline /\ drv[d].pc = "idle"
  /\ TasksOf(s) # {}
  /\ WriteOrphans(d)
  /\ drv' = [drv EXCEPT ![d] = StartOf(s)]

\* cancel_task of a task that has not started.  For a RUNNING one it puts a request
\* into the _cancel_requested of an Orchestrator built for this message, which no
\* driver ever consults: nothing happens.
ReadCancel(t) ==
  /\ "cancel" \in Env
  /\ state[t] \in Cancellable
  /\ doomed' = doomed \cup {t}
  /\ UNCHANGED <<vars, seen, snapshot>>

WriteCancel(t) ==
  /\ t \in doomed
  /\ state' = [state EXCEPT ![t] = "CANCELLED"]
  /\ doomed' = doomed \ {t}
  /\ UNCHANGED <<attempt, runs, hb, drv, history, seen, snapshot>>

CrashRC == /\ Crash
           /\ seen' = [d \in Driver |-> None]
           /\ snapshot' = [x \in Recoverer |-> None]
           /\ doomed' = {}

-----------------------------------------------------------------------------
\* What is one step here as it is in TaskEngine.
Atomic ==
  /\ \/ \E d \in Driver, t \in Task : Kick(d, t)
     \/ \E d \in Driver : RoundStep(d) \/ StopBetweenRounds(d)
     \/ \E r \in Run : LeaseExpires(r) \/ HeartbeatDies(r)
     \/ \E t \in Task : RunRequest(t)
     \/ \E t \in Task, target \in TaskState : Transition(t, target)
  /\ UNCHANGED readVars

NextRC ==
  \/ Atomic
  \/ CrashRC
  \/ \E d \in Driver : ReadTask(d) \/ WriteTask(d)
  \/ \E x \in Recoverer : ReadOrphans(x)
  \/ TickRC
  \/ \E d \in Driver, s \in Session : StartInlineRC(d, s)
  \/ \E t \in Task : ReadCancel(t) \/ WriteCancel(t)

SpecRC == InitRC /\ [][NextRC]_varsRC

-----------------------------------------------------------------------------
(* Correctness.                                                            *)

\* A terminal task row is never moved, except by an explicit retry of a failed
\* one ("CANCELLED": set(), "explicit retry only").
TerminalIsFinal ==
  [][\A t \in Task :
       /\ state[t] \in {"SUCCEEDED", "CANCELLED"} => state'[t] = state[t]
       /\ state[t] = "FAILED" => state'[t] \in {"FAILED", "QUEUED", "RECOVERING"}]_varsRC
=============================================================================
