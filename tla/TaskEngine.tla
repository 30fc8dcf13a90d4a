----------------------------- MODULE TaskEngine -----------------------------
(***************************************************************************)
(* The task execution engine of services/orchestrator.py, driven by the    *)
(* threads of services/task_runner.py and services/cloud.py, reconciled by *)
(* the recovery tick of api/main.py and poked by the REST operator         *)
(* endpoints of api/v1/router.py.                                          *)
(*                                                                         *)
(* Every action is one database transaction (one session_scope block) with *)
(* the in-memory assignments around it.  What happens when the read and    *)
(* the write of a transaction are themselves interleaved is the subject of *)
(* TaskEngineRC.                                                           *)
(***************************************************************************)
EXTENDS Naturals, FiniteSets, TaskStates

CONSTANTS
  Task,         \* task rows
  Session,      \* sessions
  SessionOf,    \* [Task -> Session]
  Deps,         \* [Task -> SUBSET Task], depends_on_json within the session
  Run,          \* identifiers of agent runs; also bounds the number of claims
  Runner,       \* threads of the bounded task runner (_run_task_thread)
  Inline,       \* threads inside drive_session (Telegram and gateway)
  Cap,          \* settings.max_concurrent_tasks, at least 1
  MaxAttempts,  \* recover_orphans requeues while attempt < MaxAttempts (3)
  MaxRounds,    \* MAX_DRIVE_ROUNDS (25)
  MaxStarts,    \* bound: operator moves into RUNNING stop at this attempt
  Env,          \* which of EnvEvents the environment may produce
  None          \* the null of the driver fields

EnvEvents == {"crash",      \* the process dies and is restarted
              "heartbeat",  \* a heartbeat thread exits on a database error
              "database",   \* a commit raises in the driver
              "deadline",   \* a runner stops between rounds (deadline, shutdown)
              "cancel", "run", "override", "delete"}  \* operator requests

Driver == Runner \cup Inline

ASSUME RowsAssumption ==
  /\ IsFiniteSet(Task)
  /\ SessionOf \in [Task -> Session]
  /\ Deps \in [Task -> SUBSET Task]
  /\ \A t \in Task : \A u \in Deps[t] : SessionOf[u] = SessionOf[t]

ASSUME SettingsAssumption ==
  /\ Cap \in Nat \ {0}
  /\ MaxAttempts \in Nat
  /\ MaxRounds \in Nat \ {0}
  /\ MaxStarts \in Nat

ASSUME ActorsAssumption ==
  /\ Runner \cap Inline = {}
  /\ Env \subseteq EnvEvents
  /\ None \notin Task \cup Run \cup Session

VARIABLES
  state,     \* tasks.state, Absent once the row is deleted
  attempt,   \* tasks.attempt
  runTask,   \* agent_runs.task_id
  runState,  \* agent_runs.state, "UNUSED" before the row exists
  lease,     \* agent_leases row of a run: none, live, or past lease_expires_at
  hb,        \* heartbeat thread of a run: none, beating, or exited on an error
  drv,       \* locals of each driver thread
  manual,    \* history: tasks the raw transition endpoint has ever moved
  struck     \* history: tasks failed by a runner's last-resort record

rows    == <<state, attempt>>
runs    == <<runTask, runState, lease>>
history == <<manual, struck>>
vars    == <<state, attempt, runTask, runState, lease, hb, drv, manual, struck>>

IdleDriver == [pc |-> "idle", session |-> None, kicked |-> None, round |-> 0,
               todo |-> {}, began |-> FALSE, run |-> None]

Init == /\ state    = [t \in Task |-> "PENDING"]
        /\ attempt  = [t \in Task |-> 0]
        /\ runTask  = [r \in Run |-> None]
        /\ runState = [r \in Run |-> "UNUSED"]
        /\ lease    = [r \in Run |-> "none"]
        /\ hb       = [r \in Run |-> "none"]
        /\ drv      = [d \in Driver |-> IdleDriver]
        /\ manual   = {}
        /\ struck   = {}

-----------------------------------------------------------------------------
(* Readings of the database and of the drivers.                            *)

TasksOf(s) == {t \in Task : SessionOf[t] = s /\ state[t] # Absent}

\* all(by_id[d].state == SUCCEEDED for d in deps if d in by_id)
DepsSucceeded(t) == \A u \in Deps[t] : state[u] \in {"SUCCEEDED", Absent}

Live == {t \in Task : state[t] \in LiveSlotStates}

Running == {t \in Task : state[t] = "RUNNING"}

Working(d) == drv[d].pc \in {"handle", "judge", "except"}

Job(d) == runTask[drv[d].run]

\* Runner threads hold the semaphore and an entry of _active while they live.
ActiveRunners == {d \in Runner : drv[d].pc # "idle"}

-----------------------------------------------------------------------------
(* Starting a driver.                                                      *)

\* A driver about to run its first round over session s.
StartOf(s) == [IdleDriver EXCEPT !.pc = "queue", !.round = 1, !.session = s]

\* kick_task, for a QUEUED task: one runner per session, capacity taken
\* before the thread exists.  (The state is read just before the lock is taken;
\* a task that left QUEUED in between only gives the thread less to do.)
Kick(d, t) ==
  /\ d \in Runner /\ drv[d].pc = "idle"
  /\ state[t] = "QUEUED"
  /\ \A e \in ActiveRunners : drv[e].session # SessionOf[t]
  /\ Cardinality(ActiveRunners) < Cap
  /\ drv' = [drv EXCEPT ![d] = [StartOf(SessionOf[t]) EXCEPT !.kicked = t]]
  /\ UNCHANGED <<rows, runs, hb, history>>

\* Mutated form: any lease counts as stale.
AnyLease == {r \in Run : lease[r] # "none"}

Stale == {r \in Run : lease[r] = "expired"}

\* Mutated form: a task without starts left is given up without a record.
GivenUp(tries) == IF tries < MaxAttempts THEN "QUEUED" ELSE "RUNNING"

\* What becomes of an orphan.
Recovered(tries) == IF tries < MaxAttempts THEN "QUEUED" ELSE "FAILED"

\* recover_orphans, with the expired leases, task states and attempts it read:
\* every such lease is deleted; a RUNNING task is charged to the first of its
\* expired leases and requeued, or failed for good.
RecoverOrphans(stale, read, tries) ==
  LET hit == {t \in Task : read[t] = "RUNNING" /\ \E r \in stale : runTask[r] = t}
  IN \E charged \in [hit -> stale] :
       /\ \A t \in hit : runTask[charged[t]] = t
       /\ state' = [t \in Task |-> IF t \notin hit THEN state[t]
                                   ELSE Recovered(tries[t])]
       /\ runState' = [r \in Run |-> IF \E t \in hit : charged[t] = r THEN "FAILED"
                                     ELSE runState[r]]
       /\ lease' = [r \in Run |-> IF r \in stale THEN "none" ELSE lease[r]]
       /\ UNCHANGED <<attempt, runTask>>

\* drive_session: recovery first, then rounds over the session.
StartInline(d, s) ==
  /\ d \in Inline /\ drv[d].pc = "idle"
  /\ TasksOf(s) # {}
  /\ RecoverOrphans(Stale, state, attempt)
  /\ drv' = [drv EXCEPT ![d] = StartOf(s)]
  /\ UNCHANGED <<hb, history>>

-----------------------------------------------------------------------------
(* One round of a driver: run_ready_tasks.                                 *)

\* First transaction: PENDING tasks whose dependencies succeeded are queued.
QueueReady(d) ==
  /\ drv[d].pc = "queue"
  /\ state' = [t \in Task |-> IF /\ t \in TasksOf(drv[d].session)
                                 /\ state[t] = "PENDING" /\ DepsSucceeded(t)
                              THEN "QUEUED" ELSE state[t]]
  /\ drv' = [drv EXCEPT ![d].pc = "scan"]
  /\ UNCHANGED <<attempt, runs, hb, history>>

\* Mutated form: the queued tasks, their dependencies not looked at again.
Queued(s) == {t \in TasksOf(s) : state[t] = "QUEUED"}

Runnable(s) == {t \in TasksOf(s) : state[t] = "QUEUED" /\ DepsSucceeded(t)}

\* Second transaction: the runnable tasks are read once for the whole round.
Scan(d) ==
  /\ drv[d].pc = "scan"
  /\ drv' = [drv EXCEPT ![d].pc = "pick", ![d].began = FALSE,
                         ![d].todo = Runnable(drv[d].session)]
  /\ UNCHANGED <<rows, runs, hb, history>>

\* Mutated form: a cap one too high.
ClaimableOverCap(t)  == state[t] = "QUEUED" /\ Cardinality(Live) <= Cap

\* claim_queued_task's WHERE clause.
Claimable(t) == state[t] = "QUEUED" /\ Cardinality(Live) < Cap

\* Mutated form: the attempt is set, not counted.
SetAttempt(t) == [attempt EXCEPT ![t] = 1]

\* attempt = attempt + 1, on every entry into RUNNING.
CountAttempt(t) == [attempt EXCEPT ![t] = @ + 1]

FreshRun == CHOOSE r \in Run : runState[r] = "UNUSED"

\* _run_task: claim, run row and lease in one transaction; then the heartbeat
\* starts and the handler is entered.
Claim(d, t) ==
  /\ drv[d].pc = "pick" /\ t \in drv[d].todo
  /\ Claimable(t)
  /\ \E r \in Run : runState[r] = "UNUSED"
  /\ state'    = [state EXCEPT ![t] = "RUNNING"]
  /\ attempt'  = CountAttempt(t)
  /\ runTask'  = [runTask EXCEPT ![FreshRun] = t]
  /\ runState' = [runState EXCEPT ![FreshRun] = "RUNNING"]
  /\ lease'    = [lease EXCEPT ![FreshRun] = "live"]
  /\ hb'       = [hb EXCEPT ![FreshRun] = "beating"]
  /\ drv'      = [drv EXCEPT ![d].pc = "handle", ![d].todo = @ \ {t},
                             ![d].run = FreshRun]
  /\ UNCHANGED history

\* The guarded UPDATE matched no row: the task waits for a later round.
Refused(d, t) ==
  /\ drv[d].pc = "pick" /\ t \in drv[d].todo
  /\ ~Claimable(t)
  /\ drv' = [drv EXCEPT ![d].todo = @ \ {t}]
  /\ UNCHANGED <<rows, runs, hb, history>>

NothingQueued(d) == \A t \in TasksOf(drv[d].session) : state[t] # "QUEUED"

\* The loops around run_ready_tasks: a runner stops when nothing started, an
\* inline driver when moreover nothing is QUEUED; both after MaxRounds.
Quiescent(d) ==
  /\ ~drv[d].began
  /\ d \in Inline => NothingQueued(d)

EndRound(d) ==
  /\ drv[d].pc = "pick" /\ drv[d].todo = {}
  /\ LET again == [drv[d] EXCEPT !.pc = "queue", !.round = drv[d].round + 1]
     IN drv' = [drv EXCEPT ![d] = IF Quiescent(d) \/ drv[d].round = MaxRounds
                                  THEN IdleDriver ELSE again]
  /\ UNCHANGED <<rows, runs, hb, history>>

\* _shutdown or the wall-clock deadline, tested before each round.
StopBetweenRounds(d) ==
  /\ "deadline" \in Env
  /\ d \in Runner /\ drv[d].pc = "queue"
  /\ drv' = [drv EXCEPT ![d] = IdleDriver]
  /\ UNCHANGED <<rows, runs, hb, history>>

-----------------------------------------------------------------------------
(* Executing the claimed task: the rest of _run_task.                      *)

StopHeartbeat(r) == IF hb[r] = "beating" THEN "none" ELSE hb[r]

\* Mutated forms: the task's state copied; success taken for "everything else".
TaskOutcome(s)  == s
EndedOutcome(s) == IF s = "FAILED" THEN "FAILED" ELSE "TERMINATED"

AgentOutcome(s) == IF s = "SUCCEEDED" THEN "COMPLETED"
                   ELSE IF s = "FAILED" THEN "FAILED" ELSE "TERMINATED"

\* Mutated form: only a task under review is still written.
EndedUnlessReview(current) == current # "REVIEW"

Ended(current) == current \in TERMINAL_STATES \cup {Absent}

\* Mutated form: no validation.
AlwaysFinish(current, outcome) == TRUE

\* _finish, having read `current', raises on an edge that is not in the table,
\* except that a terminal or deleted task is only reconciled.
MayFinish(current, outcome) == Ended(current) \/ CanTransition(current, outcome)

\* Mutated form: the outcome wins over a state that is already terminal.
Outcome(current, outcome) == outcome

Effective(current, outcome) == IF current \in TERMINAL_STATES THEN current ELSE outcome

RecordRun(r, effective) ==
  runState' = [runState EXCEPT ![r] = IF @ = Absent THEN @ ELSE AgentOutcome(effective)]

\* Mutated form: the lease is left to expire.
CloseRunOnly(r, effective) == RecordRun(r, effective) /\ UNCHANGED lease

\* The run row, unless it went with its session, takes the effective state; the
\* lease goes.
CloseRun(r, effective) == RecordRun(r, effective) /\ lease' = [lease EXCEPT ![r] = "none"]

\* _finish.
Finish(d, current, outcome) ==
  /\ MayFinish(current, outcome)
  /\ state' = [state EXCEPT ![Job(d)] = IF Ended(current) THEN @ ELSE outcome]
  /\ CloseRun(drv[d].run, Effective(current, outcome))
  /\ hb' = [hb EXCEPT ![drv[d].run] = StopHeartbeat(drv[d].run)]
  /\ UNCHANGED <<attempt, runTask, history>>

\* _run_task returns to the round; only TRUE counts as started.
Return(d, started) ==
  drv' = [drv EXCEPT ![d].pc = "pick", ![d].run = None,
                     ![d].began = @ \/ started]

\* _verify_and_finish, first transaction: the result goes under review.
EnterReview(d, current) ==
  /\ drv[d].pc = "handle" /\ current = "RUNNING"
  /\ state' = [state EXCEPT ![Job(d)] = "REVIEW"]
  /\ drv' = [drv EXCEPT ![d].pc = "judge"]
  /\ UNCHANGED <<attempt, runs, hb, history>>

\* ... or, the task having left RUNNING meanwhile, is recorded unverified.
FinishUnverified(d, current) ==
  /\ drv[d].pc = "handle" /\ current # "RUNNING"
  /\ Finish(d, current, "SUCCEEDED")
  /\ Return(d, TRUE)

Verdicts == {"SUCCEEDED", "FAILED"}

\* The verifier's verdict.
Judge(d, current, verdict) ==
  /\ drv[d].pc = "judge"
  /\ Finish(d, current, verdict)
  /\ Return(d, TRUE)

\* An exception reaches _run_task's except clause: from the handler, from
\* _finish's validation, or from the database.
Raise(d, current) ==
  /\ \/ drv[d].pc = "handle"
     \/ /\ drv[d].pc = "judge"
        /\ \/ "database" \in Env
           \/ \E verdict \in Verdicts : ~MayFinish(current, verdict)
  /\ drv' = [drv EXCEPT ![d].pc = "except"]
  /\ UNCHANGED <<rows, runs, hb, history>>

RecordFailure(d, current) ==
  /\ drv[d].pc = "except"
  /\ Finish(d, current, "FAILED")
  /\ Return(d, FALSE)

\* _finish raises again: the exception leaves run_ready_tasks, the run row and
\* the lease stay as they are, the heartbeat is stopped by the finally clause.
Escape(d, current) ==
  /\ drv[d].pc = "except"
  /\ ~MayFinish(current, "FAILED") \/ "database" \in Env
  /\ hb' = [hb EXCEPT ![drv[d].run] = StopHeartbeat(drv[d].run)]
  /\ drv' = [drv EXCEPT ![d] = IF d \in Inline THEN IdleDriver
                               ELSE [@ EXCEPT !.pc = "lastResort", !.run = None,
                                              !.todo = {}]]
  /\ UNCHANGED <<rows, runs, history>>

\* _run_task_thread's handler: the task it was kicked for is not left RUNNING
\* (unless that write fails too).
LastResort(d) ==
  /\ drv[d].pc = "lastResort"
  /\ \/ /\ drv[d].kicked \in Running
        /\ state' = [state EXCEPT ![drv[d].kicked] = "FAILED"]
        /\ struck' = struck \cup {drv[d].kicked}
     \/ /\ drv[d].kicked \notin Running \/ "database" \in Env
        /\ UNCHANGED <<state, struck>>
  /\ drv' = [drv EXCEPT ![d] = IdleDriver]
  /\ UNCHANGED <<attempt, runs, hb, manual>>

-----------------------------------------------------------------------------
(* Leases, recovery, crashes.                                              *)

\* _heartbeat_loop gives up on a database error while the handler runs on.
HeartbeatDies(r) ==
  /\ "heartbeat" \in Env
  /\ hb[r] = "beating"
  /\ hb' = [hb EXCEPT ![r] = "dead"]
  /\ UNCHANGED <<rows, runs, drv, history>>

\* Mutated form: heartbeats do not extend the lease.
LeaseExpiresAnyway(r) ==
  /\ lease[r] = "live"
  /\ lease' = [lease EXCEPT ![r] = "expired"]
  /\ UNCHANGED <<rows, runTask, runState, hb, drv, history>>

\* lease_expires_at passes, which a beating heartbeat keeps from happening.
LeaseExpires(r) ==
  /\ lease[r] = "live" /\ hb[r] # "beating"
  /\ lease' = [lease EXCEPT ![r] = "expired"]
  /\ UNCHANGED <<rows, runTask, runState, hb, drv, history>>

\* recover_tasks_tick, its first half; the second half is Kick.
RecoveryTick ==
  /\ Stale # {}
  /\ RecoverOrphans(Stale, state, attempt)
  /\ UNCHANGED <<hb, drv, history>>

\* The process dies: threads and memory are gone, the database stays.
Crash ==
  /\ "crash" \in Env
  /\ \E d \in Driver : drv[d].pc # "idle"
  /\ drv' = [d \in Driver |-> IdleDriver]
  /\ hb' = [r \in Run |-> StopHeartbeat(r)]
  /\ UNCHANGED <<rows, runs, history>>

-----------------------------------------------------------------------------
(* Operator requests.                                                      *)

MoveTo(t, target) ==
  /\ CanTransition(state[t], target)
  /\ state' = [state EXCEPT ![t] = target]
  /\ UNCHANGED <<runs, hb, drv>>

\* POST /tasks/{id}/transition: any edge of the table, no cap, no lease.
Transition(t, target) ==
  /\ "override" \in Env
  /\ MoveTo(t, target)
  /\ target = "RUNNING" => attempt[t] < MaxStarts
  /\ attempt' = IF target = "RUNNING" THEN CountAttempt(t) ELSE attempt
  /\ manual' = manual \cup {t}
  /\ UNCHANGED struck

\* POST /tasks/{id}/retry, and within it what /run and cloud.retry_task_queued
\* allow: the queueing half; the kick that follows is Kick.
RunRequest(t) ==
  /\ "run" \in Env
  /\ MoveTo(t, "QUEUED")
  /\ UNCHANGED <<attempt, history>>

Cancellable == {"PENDING", "PLANNING", "QUEUED"}

\* cancel_task on a task that has not started.
CancelTask(t) ==
  /\ "cancel" \in Env
  /\ state[t] \in Cancellable
  /\ MoveTo(t, "CANCELLED")
  /\ UNCHANGED <<attempt, history>>

\* DELETE /sessions/{id}: the task rows go, their run rows by cascade; leases
\* and threads are not touched.
DeleteSession(s) ==
  /\ "delete" \in Env
  /\ TasksOf(s) # {}
  /\ state' = [t \in Task |-> IF t \in TasksOf(s) THEN Absent ELSE state[t]]
  /\ runState' = [r \in Run |-> IF runTask[r] \in TasksOf(s) THEN Absent
                                ELSE runState[r]]
  /\ UNCHANGED <<attempt, runTask, lease, hb, drv, history>>

-----------------------------------------------------------------------------
\* The handler's end and everything after it, on the task state `current'.
ExecutionStep(d, current) ==
  \/ EnterReview(d, current) \/ FinishUnverified(d, current)
  \/ \E verdict \in Verdicts : Judge(d, current, verdict)
  \/ RecordFailure(d, current)

FailureStep(d, current) == Raise(d, current) \/ Escape(d, current)

RoundStep(d) ==
  \/ QueueReady(d) \/ Scan(d) \/ EndRound(d) \/ LastResort(d)
  \/ \E t \in Task : Claim(d, t) \/ Refused(d, t)

DriverStep(d) ==
  \/ RoundStep(d)
  \/ /\ Working(d)
     /\ ExecutionStep(d, state[Job(d)]) \/ FailureStep(d, state[Job(d)])

Environment ==
  \/ \E d \in Driver : StopBetweenRounds(d)
  \/ \E r \in Run : HeartbeatDies(r)
  \/ Crash
  \/ \E t \in Task : RunRequest(t) \/ CancelTask(t)
  \/ \E t \in Task, target \in TaskState : Transition(t, target)
  \/ \E s \in Session : DeleteSession(s)

Next ==
  \/ \E d \in Driver, t \in Task : Kick(d, t)
  \/ \E d \in Driver, s \in Session : StartInline(d, s)
  \/ \E d \in Driver : DriverStep(d)
  \/ \E r \in Run : LeaseExpires(r)
  \/ RecoveryTick
  \/ Environment

Spec == Init /\ [][Next]_vars

(***************************************************************************)
(* Fairness.  Driver threads run; a QUEUED task is kicked by the ten-second*)
(* sweep; unrefreshed leases run out; the tick recovers.  Nothing is       *)
(* assumed of the environment, and an inline driver is never owed a start. *)
(* A handler is assumed to return, whichever way.                          *)
(***************************************************************************)
Fairness ==
  /\ \A d \in Driver : WF_vars(DriverStep(d))
  /\ \A t \in Task : WF_vars(\E d \in Driver : Kick(d, t))
  /\ \A r \in Run : WF_vars(LeaseExpires(r))
  /\ WF_vars(RecoveryTick)

FairSpec == Spec /\ Fairness

-----------------------------------------------------------------------------
(* Correctness.                                                            *)

DriverState ==
  [pc : {"idle", "queue", "scan", "pick", "handle", "judge", "except", "lastResort"},
   session : Session \cup {None}, kicked : Task \cup {None}, round : Nat,
   todo : SUBSET Task, began : BOOLEAN, run : Run \cup {None}]

\* Every variable has its type.
TypeOK ==
  /\ state \in [Task -> TaskState \cup {Absent}]
  /\ attempt \in [Task -> Nat]
  /\ runTask \in [Run -> Task \cup {None}]
  /\ runState \in [Run -> {"UNUSED", "RUNNING", "COMPLETED", "FAILED", "TERMINATED",
                            Absent}]
  /\ lease \in [Run -> {"none", "live", "expired"}]
  /\ hb \in [Run -> {"none", "beating", "dead"}]
  /\ drv \in [Driver -> DriverState]
  /\ manual \subseteq Task /\ struck \subseteq Task

\* INV-010: tasks moved only by the engine never hold more than Cap live slots,
\* however many drivers claim, recover and finish at once.
CapRespected == Cardinality(Live \ manual) <= Cap

\* A task the engine left RUNNING is always within recovery's reach: one of
\* its runs still has a lease that is live or expired.
RunningIsRecoverable ==
  \A t \in Task \ manual :
    state[t] = "RUNNING" => \E r \in Run : runTask[r] = t /\ lease[r] # "none"

\* The operator, a last-resort record or a heartbeat that died has come between
\* a task and a run of it that may still hold a lease or a thread.
Disturbed(t) ==
  \/ t \in manual \cup struck
  \/ \E r \in Run : runTask[r] = t /\ hb[r] = "dead"

\* Recovery takes the task from a run whose lease is live.
TakesLive(t) ==
  /\ state[t] = "RUNNING" /\ state'[t] = "QUEUED"
  /\ \E r \in Run : runTask[r] = t /\ lease[r] = "live"

\* Documented (tests/adversarial/test_audit_p0_completion.py): a task RUNNING under
\* a live lease is not recoverable.
LiveLeaseProtects == [][\A t \in Task : ~TakesLive(t)]_vars

\* Recovery leaves a task alone while some run of it has a live lease, unless an
\* earlier run of a disturbed task has left its lease behind.
LiveLeaseUntouched == [][\A t \in Task : TakesLive(t) => Disturbed(t)]_vars

\* Two threads execute one task only after some run of it lost its heartbeat,
\* or the operator or a last-resort record moved it under a running thread:
\* otherwise a live lease excludes a second claim.
NoDoubleExecution ==
  \A d, e \in Driver :
    d # e /\ Working(d) /\ Working(e) /\ Job(d) = Job(e) => Disturbed(Job(d))

\* A handler only ever runs on top of dependencies that have succeeded, however
\* old the round's snapshot is when the task is claimed.
StartedAfterDeps == \A d \in Driver : Working(d) => DepsSucceeded(Job(d))

\* Success has evidence: a run of the task completed.
SuccessHasRun ==
  \A t \in Task \ manual :
    state[t] = "SUCCEEDED" => \E r \in Run : runTask[r] = t /\ runState[r] = "COMPLETED"

\* ... and a completed run is never contradicted by its task.
CompletedRunStands ==
  \A r \in Run : runState[r] = "COMPLETED" => state[runTask[r]] = "SUCCEEDED"

\* A lease belongs to a run row that has not ended.
LeaseMeansRunning == \A r \in Run : lease[r] # "none" => runState[r] \in {"RUNNING", Absent}

\* attempt counts the executions started: the run rows, plus starts by hand.
AttemptsCountRuns ==
  \A t \in Task :
    LET started == Cardinality({r \in Run : runTask[r] = t})
    IN attempt[t] >= started /\ (attempt[t] > started => t \in manual)

\* The engine implements the contract of the task table.
Contract == INSTANCE TaskContract WITH state <- state, attempt <- attempt
ContractHolds == Contract!Spec

\* A task the engine runs does not stay RUNNING: it is reviewed, finished or
\* recovered, through crashes, lost heartbeats, database errors and operator
\* requests.  A task the operator moved by hand is nobody's to resolve.
RunningResolves ==
  \A t \in Task : (state[t] = "RUNNING") ~> (state[t] # "RUNNING" \/ t \in manual)
=============================================================================
