-------------------------- MODULE TaskEngineProofs --------------------------
(***************************************************************************)
(* Theorems about TaskEngine and TaskEngineRC, for every number of tasks,  *)
(* sessions, runs and drivers, every cap and every choice of environment.  *)
(***************************************************************************)
EXTENDS TaskEngineRC, FiniteSetTheorems, TLAPS

-----------------------------------------------------------------------------
(* The table of edges and its contract.                                    *)

\* The moves of the engine are edges of the table.
LEMMA Edges ==
  /\ CanTransition("PENDING", "QUEUED") /\ CanTransition("QUEUED", "RUNNING")
  /\ CanTransition("RUNNING", "REVIEW") /\ CanTransition("RUNNING", "FAILED")
BY DEF CanTransition, TRANSITIONS

\* No edge leaves success, cancellation or a deleted row, and failure is left
\* only by an explicit retry.
LEMMA TerminalEdges ==
  ASSUME NEW current, NEW target, CanTransition(current, target)
  PROVE  /\ current \notin {"SUCCEEDED", "CANCELLED", Absent}
         /\ current = "FAILED" => target \in {"QUEUED", "RECOVERING"}
BY DEF CanTransition, TRANSITIONS, Absent

\* Success and cancellation are final: such a row only ever disappears.  A
\* failed one leaves its state by an explicit retry or by disappearing.
EndsAreFinal ==
  [][\A t \in Task :
       /\ state[t] \in {"SUCCEEDED", "CANCELLED"} => state'[t] \in {state[t], Absent}
       /\ state[t] = "FAILED" => state'[t] \in {"FAILED", "QUEUED", "RECOVERING", Absent}]_rows

\* The contract alone makes terminal states final, so everything that implements
\* it does.
THEOREM ContractKeepsTerminal == Contract!Spec => EndsAreFinal
<1> DEFINE Keeps(t) ==
      /\ state[t] \in {"SUCCEEDED", "CANCELLED"} => state'[t] \in {state[t], Absent}
      /\ state[t] = "FAILED" => state'[t] \in {"FAILED", "QUEUED", "RECOVERING", Absent}
<1>1. [Contract!Next]_(Contract!vars) => [\A t \in Task : Keeps(t)]_rows
  <2> SUFFICES ASSUME [Contract!Next]_(Contract!vars), ~UNCHANGED rows, NEW t \in Task
               PROVE  Keeps(t)
    OBVIOUS
  <2>1. Contract!Next
    BY DEF rows, Contract!vars
  <2>2. CASE Contract!Advance(t)
    BY <2>2, TerminalEdges DEF Contract!Advance, Contract!CanTransition, Contract!TRANSITIONS,
                               CanTransition, TRANSITIONS
  <2>3. CASE Contract!Recover(t) \/ Contract!Remove(t) \/ Contract!Stay(t)
    BY <2>3 DEF Contract!Recover, Contract!Remove, Contract!Stay, Contract!Absent, Absent
  <2> QED BY <2>1, <2>2, <2>3 DEF Contract!Next
<1> QED BY <1>1, PTL DEF Contract!Spec, EndsAreFinal

-----------------------------------------------------------------------------
(* Steps.                                                                  *)

\* recover_orphans, on whatever it has read.
Recovery ==
  /\ \E stale, read, tries : RecoverOrphans(stale, read, tries)
  /\ UNCHANGED <<hb, history>>
  /\ UNCHANGED drv \/ \E d \in Inline, s \in Session : drv' = [drv EXCEPT ![d] = StartOf(s)]

\* What a step of TaskEngine and a step of TaskEngineRC have in common: the code is
\* the same, only the age of what it decides on differs.
Step ==
  \/ \E d \in Driver, t \in Task : Kick(d, t)
  \/ \E d \in Driver : RoundStep(d)
  \/ \E d \in Driver : /\ Working(d)
                       /\ \E current : ExecutionStep(d, current) \/ FailureStep(d, current)
  \/ \E r \in Run : LeaseExpires(r)
  \/ Recovery
  \/ Environment
  \/ /\ \E t \in Task : state' = [state EXCEPT ![t] = "CANCELLED"]
     /\ UNCHANGED <<attempt, runs, hb, drv, history>>
  \/ UNCHANGED vars

LEMMA AtomicSteps == [Next]_vars => Step
BY DEF Next, Step, DriverStep, Recovery, StartInline, RecoveryTick

LEMMA StaleSteps == [NextRC]_varsRC => Step
<1> SUFFICES ASSUME [NextRC]_varsRC PROVE Step
  OBVIOUS
<1>1. CASE Atomic
  BY <1>1 DEF Atomic, Step, Environment
<1>2. CASE CrashRC
  BY <1>2 DEF CrashRC, Step, Environment
<1>3. CASE \E d \in Driver : ReadTask(d) \/ WriteTask(d)
  BY <1>3 DEF ReadTask, WriteTask, Step
<1>4. CASE \E x \in Recoverer : ReadOrphans(x)
  BY <1>4 DEF ReadOrphans, Step
<1>5. CASE TickRC
  BY <1>5 DEF TickRC, WriteOrphans, Step, Recovery
<1>6. CASE \E d \in Driver, s \in Session : StartInlineRC(d, s)
  BY <1>6 DEF StartInlineRC, WriteOrphans, Step, Recovery
<1>7. CASE \E t \in Task : ReadCancel(t)
  BY <1>7 DEF ReadCancel, Step
<1>8. CASE \E t \in Task : WriteCancel(t)
  BY <1>8 DEF WriteCancel, Step
<1>9. CASE UNCHANGED varsRC
  BY <1>9 DEF varsRC, Step
<1> QED BY <1>1, <1>2, <1>3, <1>4, <1>5, <1>6, <1>7, <1>8, <1>9 DEF NextRC

-----------------------------------------------------------------------------
(* Types.                                                                  *)

\* The identifier a claim takes is a run that was not used before.
LEMMA FreshRunIsUnused ==
  ASSUME \E r \in Run : runState[r] = "UNUSED"
  PROVE  FreshRun \in Run /\ runState[FreshRun] = "UNUSED"
BY DEF FreshRun

\* recover_orphans keeps the types of what it writes.
LEMMA RecoverOrphansType ==
  ASSUME TypeOK, NEW stale, NEW read, NEW tries, RecoverOrphans(stale, read, tries)
  PROVE  /\ state' \in [Task -> TaskState \cup {Absent}]
         /\ runState' \in [Run -> {"UNUSED", "RUNNING", "COMPLETED", "FAILED",
                                   "TERMINATED", Absent}]
         /\ lease' \in [Run -> {"none", "live", "expired"}]
         /\ attempt' = attempt /\ runTask' = runTask
BY DEF TypeOK, RecoverOrphans, Recovered, TaskState, Absent

\* _finish keeps the types of what it writes.
LEMMA FinishType ==
  ASSUME TypeOK, NEW d \in Driver, NEW current, NEW outcome \in TaskState,
         Finish(d, current, outcome)
  PROVE  /\ state' \in [Task -> TaskState \cup {Absent}]
         /\ runState' \in [Run -> {"UNUSED", "RUNNING", "COMPLETED", "FAILED",
                                   "TERMINATED", Absent}]
         /\ lease' \in [Run -> {"none", "live", "expired"}]
         /\ hb' \in [Run -> {"none", "beating", "dead"}]
         /\ attempt' = attempt /\ runTask' = runTask
         /\ manual' = manual /\ struck' = struck
BY DEF TypeOK, Finish, CloseRun, RecordRun, TaskState, Absent, AgentOutcome, StopHeartbeat, history

LEMMA InitialTypes == Init => TypeOK
BY DEF Init, TypeOK, DriverState, IdleDriver, TaskState, Driver

\* A step keeps every variable within its type.
LEMMA TypesStay == TypeOK /\ Step => TypeOK'
<1> SUFFICES ASSUME TypeOK, Step PROVE TypeOK'
  OBVIOUS
<1> IdleDriver \in DriverState /\ \A s \in Session : StartOf(s) \in DriverState
  BY DEF IdleDriver, StartOf, DriverState
<1> USE DEF rows, runs, history
<1>1. ASSUME NEW d \in Driver, NEW t \in Task, Kick(d, t) PROVE TypeOK'
  <2>1. [StartOf(SessionOf[t]) EXCEPT !.kicked = t] \in DriverState
    BY RowsAssumption DEF StartOf, IdleDriver, DriverState
  <2> QED BY <1>1, <2>1 DEF Kick, TypeOK
<1>2. CASE Recovery
  <2>1. PICK stale, read, tries : RecoverOrphans(stale, read, tries)
    BY <1>2 DEF Recovery
  <2>2. drv' \in [Driver -> DriverState]
    BY <1>2 DEF Recovery, TypeOK
  <2> QED BY <1>2, <2>1, <2>2, RecoverOrphansType DEF Recovery, TypeOK
<1>3. ASSUME NEW d \in Driver, RoundStep(d) PROVE TypeOK'
  <2>1. CASE QueueReady(d)
    BY <2>1 DEF QueueReady, TypeOK, DriverState, TaskState
  <2>2. CASE Scan(d)
    <3> DEFINE ready == Runnable(drv[d].session)
    <3>1. ready \in SUBSET Task
      BY DEF Runnable, TasksOf
    <3> HIDE DEF ready
    <3>2. [drv[d] EXCEPT !.pc = "pick", !.began = FALSE, !.todo = ready] \in DriverState
      BY <3>1 DEF TypeOK, DriverState
    <3>3. drv' = [drv EXCEPT ![d] = [drv[d] EXCEPT !.pc = "pick", !.began = FALSE,
                                                   !.todo = ready]]
      BY <2>2 DEF Scan, ready, TypeOK
    <3>4. drv' \in [Driver -> DriverState]
      BY <3>2, <3>3 DEF TypeOK
    <3> QED BY <2>2, <3>4 DEF Scan, TypeOK
  <2>3. CASE EndRound(d)
    <3> DEFINE next == drv[d].round + 1
               again == [drv[d] EXCEPT !.pc = "queue", !.round = next]
    <3>1. next \in Nat
      BY DEF TypeOK, DriverState
    <3>2. \/ drv' = [drv EXCEPT ![d] = IdleDriver]
          \/ drv' = [drv EXCEPT ![d] = again]
      BY <2>3, Zenon DEF EndRound
    <3> HIDE DEF next
    <3>3. again \in DriverState
      BY <3>1 DEF TypeOK, DriverState
    <3> HIDE DEF again
    <3>4. drv' \in [Driver -> DriverState]
      BY <3>2, <3>3 DEF TypeOK
    <3> QED BY <2>3, <3>4 DEF EndRound, TypeOK
  <2>4. CASE LastResort(d)
    BY <2>4 DEF LastResort, Running, TypeOK, DriverState, TaskState
  <2>5. ASSUME NEW t \in Task, Claim(d, t) PROVE TypeOK'
    <3>1. FreshRun \in Run
      BY <2>5, FreshRunIsUnused DEF Claim
    <3> QED BY <2>5, <3>1 DEF Claim, CountAttempt, TypeOK, DriverState, TaskState
  <2>6. ASSUME NEW t \in Task, Refused(d, t) PROVE TypeOK'
    BY <2>6 DEF Refused, TypeOK, DriverState
  <2> QED BY <1>3, <2>1, <2>2, <2>3, <2>4, <2>5, <2>6 DEF RoundStep
<1>4. ASSUME NEW d \in Driver, NEW current, ExecutionStep(d, current) PROVE TypeOK'
  <2>1. CASE EnterReview(d, current)
    BY <2>1 DEF EnterReview, TypeOK, DriverState, TaskState
  <2>2. ASSUME NEW outcome \in TaskState, NEW started \in BOOLEAN,
               Finish(d, current, outcome), Return(d, started)
        PROVE  TypeOK'
    <3> DEFINE any == drv[d].began \/ started
               next == [drv[d] EXCEPT !.pc = "pick", !.run = None, !.began = any]
    <3>1. any \in BOOLEAN
      OBVIOUS
    <3>2. drv' = [drv EXCEPT ![d] = next]
      BY <2>2 DEF Return, TypeOK
    <3> HIDE DEF any
    <3>3. next \in DriverState
      BY <3>1 DEF TypeOK, DriverState
    <3> HIDE DEF next
    <3>4. drv' \in [Driver -> DriverState]
      BY <3>2, <3>3 DEF TypeOK
    <3> QED BY <2>2, <3>4, FinishType DEF TypeOK
  <2> QED BY <1>4, <2>1, <2>2 DEF ExecutionStep, FinishUnverified, Judge, RecordFailure,
                                  Verdicts, TaskState
<1>5. ASSUME NEW d \in Driver, NEW current, FailureStep(d, current) PROVE TypeOK'
  <2>1. CASE Raise(d, current)
    BY <2>1 DEF Raise, TypeOK, DriverState
  <2>2. CASE Escape(d, current)
    BY <2>2 DEF Escape, TypeOK, DriverState, StopHeartbeat
  <2> QED BY <1>5, <2>1, <2>2 DEF FailureStep
<1>6. CASE \E r \in Run : LeaseExpires(r)
  BY <1>6 DEF LeaseExpires, TypeOK
<1>7. CASE /\ \E t \in Task : state' = [state EXCEPT ![t] = "CANCELLED"]
           /\ UNCHANGED <<attempt, runs, hb, drv, history>>
  BY <1>7 DEF TypeOK, TaskState
<1>8. CASE Environment
  <2>1. ASSUME NEW d \in Driver, StopBetweenRounds(d) PROVE TypeOK'
    BY <2>1 DEF StopBetweenRounds, TypeOK
  <2>2. ASSUME NEW r \in Run, HeartbeatDies(r) PROVE TypeOK'
    BY <2>2 DEF HeartbeatDies, TypeOK
  <2>3. CASE Crash
    BY <2>3 DEF Crash, TypeOK, StopHeartbeat
  <2>4. ASSUME NEW t \in Task, RunRequest(t) \/ CancelTask(t) PROVE TypeOK'
    BY <2>4 DEF RunRequest, CancelTask, MoveTo, TypeOK, TaskState
  <2>5. ASSUME NEW t \in Task, NEW target \in TaskState, Transition(t, target)
        PROVE  TypeOK'
    BY <2>5 DEF Transition, MoveTo, CountAttempt, TypeOK
  <2>6. ASSUME NEW s \in Session, DeleteSession(s) PROVE TypeOK'
    BY <2>6 DEF DeleteSession, TypeOK
  <2> QED BY <1>8, <2>1, <2>2, <2>3, <2>4, <2>5, <2>6 DEF Environment
<1>9. CASE UNCHANGED vars
  BY <1>9 DEF vars, TypeOK
<1> QED BY <1>1, <1>2, <1>3, <1>4, <1>5, <1>6, <1>7, <1>8, <1>9 DEF Step

\* Every action keeps every variable within its type.
THEOREM TypeCorrect == Spec => []TypeOK
<1>1. TypeOK /\ [Next]_vars => TypeOK'
  BY TypesStay, AtomicSteps
<1> QED BY <1>1, InitialTypes, PTL DEF Spec

-----------------------------------------------------------------------------
(* The engine implements the contract of the task table.                   *)

\* One row's part of a step of the contract.
Follows(t) == \/ Contract!Advance(t) \/ Contract!Recover(t)
              \/ Contract!Remove(t) \/ Contract!Stay(t)

\* A step that starts nothing follows the contract if it stays, removes the
\* row, or takes an edge to a state other than RUNNING.
LEMMA QuietFollows ==
  ASSUME NEW t \in Task, attempt'[t] = attempt[t],
         \/ state'[t] \in {state[t], Absent}
         \/ CanTransition(state[t], state'[t]) /\ state'[t] # "RUNNING"
  PROVE  Follows(t)
BY DEF Follows, Contract!Advance, Contract!Counted, Contract!CanTransition,
       Contract!TRANSITIONS, CanTransition, TRANSITIONS, Contract!Remove, Contract!Stay,
       Contract!Absent, Absent

\* Recovery moves rows only by its composite edge or to FAILED.
LEMMA RecoverOrphansFollows ==
  ASSUME TypeOK, RecoverOrphans(Stale, state, attempt), NEW t \in Task
  PROVE  Follows(t)
<1>1. attempt' = attempt
  BY DEF RecoverOrphans, Recovered
<1>2. \/ state'[t] = state[t]
      \/ state[t] = "RUNNING" /\ state'[t] = "QUEUED" /\ attempt[t] < MaxAttempts
      \/ state[t] = "RUNNING" /\ state'[t] = "FAILED"
  BY DEF RecoverOrphans, Recovered
<1>3. CASE state[t] = "RUNNING" /\ state'[t] = "QUEUED" /\ attempt[t] < MaxAttempts
  BY <1>1, <1>3 DEF Follows, Contract!Recover
<1> QED BY <1>1, <1>2, <1>3, Edges, QuietFollows

\* _finish moves its own row by the table, and only if it has not ended.
LEMMA FinishFollows ==
  ASSUME TypeOK, NEW d \in Driver, NEW outcome \in {"SUCCEEDED", "FAILED"},
         Finish(d, state[Job(d)], outcome), NEW t \in Task
  PROVE  Follows(t)
<1>1. attempt' = attempt
  BY DEF Finish, CloseRun, RecordRun
<1>2. state'[t] = state[t] \/ (CanTransition(state[t], state'[t]) /\ state'[t] = outcome)
  BY DEF Finish, CloseRun, RecordRun, MayFinish, TypeOK
<1> QED BY <1>1, <1>2, QuietFollows

\* Every step of the engine moves every row along the contract.
LEMMA StepFollows == TypeOK /\ [Next]_vars => \A t \in Task : Follows(t)
<1> SUFFICES ASSUME TypeOK, [Next]_vars, NEW t \in Task PROVE Follows(t)
  OBVIOUS
<1> USE DEF rows, runs, history
<1>1. ASSUME UNCHANGED rows PROVE Follows(t)
  BY <1>1, QuietFollows
<1>2. ASSUME NEW d \in Driver, NEW u \in Task, Kick(d, u) PROVE Follows(t)
  BY <1>1, <1>2 DEF Kick
<1>3. ASSUME NEW d \in Driver, NEW s \in Session, StartInline(d, s) PROVE Follows(t)
  BY <1>3, RecoverOrphansFollows DEF StartInline
<1>4. ASSUME NEW d \in Driver, RoundStep(d) PROVE Follows(t)
  <2>1. CASE QueueReady(d)
    <3>1. attempt'[t] = attempt[t]
      BY <2>1 DEF QueueReady
    <3>2. state'[t] = state[t] \/ (state[t] = "PENDING" /\ state'[t] = "QUEUED")
      BY <2>1 DEF QueueReady, TypeOK
    <3> QED BY <3>1, <3>2, Edges, QuietFollows
  <2>2. CASE Scan(d) \/ EndRound(d)
    BY <1>1, <2>2 DEF Scan, EndRound
  <2>3. CASE LastResort(d)
    <3>1. attempt'[t] = attempt[t]
      BY <2>3 DEF LastResort
    <3>2. state'[t] = state[t] \/ (state[t] = "RUNNING" /\ state'[t] = "FAILED")
      BY <2>3 DEF LastResort, Running, TypeOK
    <3> QED BY <3>1, <3>2, Edges, QuietFollows
  <2>4. ASSUME NEW u \in Task, Claim(d, u) PROVE Follows(t)
    <3>1. CASE t = u
      <4>1. state[t] = "QUEUED" /\ state'[t] = "RUNNING" /\ attempt'[t] = attempt[t] + 1
        BY <2>4, <3>1 DEF Claim, CountAttempt, Claimable, TypeOK
      <4> QED BY <4>1 DEF Follows, Contract!Advance, Contract!Counted,
                          Contract!CanTransition, Contract!TRANSITIONS
    <3>2. CASE t # u
      <4>1. state'[t] = state[t] /\ attempt'[t] = attempt[t]
        BY <2>4, <3>2 DEF Claim, CountAttempt, TypeOK
      <4> QED BY <4>1, QuietFollows
    <3> QED BY <3>1, <3>2
  <2>5. ASSUME NEW u \in Task, Refused(d, u) PROVE Follows(t)
    BY <1>1, <2>5 DEF Refused
  <2> QED BY <1>4, <2>1, <2>2, <2>3, <2>4, <2>5 DEF RoundStep
<1>5. ASSUME NEW d \in Driver, ExecutionStep(d, state[Job(d)]) PROVE Follows(t)
  <2>1. CASE EnterReview(d, state[Job(d)])
    <3>1. attempt'[t] = attempt[t]
      BY <2>1 DEF EnterReview
    <3>2. state'[t] = state[t] \/ (state[t] = "RUNNING" /\ state'[t] = "REVIEW")
      BY <2>1 DEF EnterReview, TypeOK
    <3> QED BY <3>1, <3>2, Edges, QuietFollows
  <2> QED BY <1>5, <2>1, FinishFollows DEF ExecutionStep, FinishUnverified, Judge,
                                           RecordFailure, Verdicts
<1>6. ASSUME NEW d \in Driver, FailureStep(d, state[Job(d)]) PROVE Follows(t)
  BY <1>1, <1>6 DEF FailureStep, Raise, Escape
<1>7. CASE \E r \in Run : LeaseExpires(r)
  BY <1>1, <1>7 DEF LeaseExpires
<1>8. CASE RecoveryTick
  BY <1>8, RecoverOrphansFollows DEF RecoveryTick
<1>9. CASE Environment
  <2>1. CASE \/ \E d \in Driver : StopBetweenRounds(d)
             \/ \E r \in Run : HeartbeatDies(r)
             \/ Crash
    BY <1>1, <2>1 DEF StopBetweenRounds, HeartbeatDies, Crash
  <2>2. ASSUME NEW u \in Task, RunRequest(u) \/ CancelTask(u) PROVE Follows(t)
    <3>1. attempt'[t] = attempt[t]
      BY <2>2 DEF RunRequest, CancelTask
    <3>2. \/ state'[t] = state[t]
          \/ CanTransition(state[t], state'[t]) /\ state'[t] \in {"QUEUED", "CANCELLED"}
      BY <2>2 DEF RunRequest, CancelTask, MoveTo, TypeOK
    <3> QED BY <3>1, <3>2, QuietFollows
  <2>3. ASSUME NEW u \in Task, NEW target \in TaskState, Transition(u, target)
        PROVE  Follows(t)
    <3>1. CASE t = u
      <4>1. /\ CanTransition(state[t], target) /\ state'[t] = target
            /\ attempt'[t] = IF target = "RUNNING" THEN attempt[t] + 1 ELSE attempt[t]
        BY <2>3, <3>1 DEF Transition, MoveTo, CountAttempt, TypeOK
      <4> QED BY <4>1 DEF Follows, Contract!Advance, Contract!Counted, CanTransition,
                          TRANSITIONS, Contract!CanTransition, Contract!TRANSITIONS
    <3>2. CASE t # u
      <4>1. state'[t] = state[t] /\ attempt'[t] = attempt[t]
        BY <2>3, <3>2 DEF Transition, MoveTo, CountAttempt, TypeOK
      <4> QED BY <4>1, QuietFollows
    <3> QED BY <3>1, <3>2
  <2>4. ASSUME NEW s \in Session, DeleteSession(s) PROVE Follows(t)
    <3>1. attempt'[t] = attempt[t] /\ state'[t] \in {state[t], Absent}
      BY <2>4 DEF DeleteSession
    <3> QED BY <3>1, QuietFollows
  <2> QED BY <1>9, <2>1, <2>2, <2>3, <2>4 DEF Environment
<1>10. CASE UNCHANGED vars
  BY <1>1, <1>10 DEF vars
<1> QED BY <1>2, <1>3, <1>4, <1>5, <1>6, <1>7, <1>8, <1>9, <1>10 DEF Next, DriverStep

\* The engine implements the contract: whatever drivers, recovery and operators
\* do to the task table, every row follows the transition table, and its
\* attempt counts its entries into RUNNING.
THEOREM EngineImplementsContract == Spec => ContractHolds
<1>1. Init => Contract!Init
  BY DEF Init, Contract!Init
<1>2. TypeOK /\ TypeOK' /\ [Next]_vars => [Contract!Next]_(Contract!vars)
  <2> SUFFICES ASSUME TypeOK, TypeOK', [Next]_vars PROVE Contract!Next
    OBVIOUS
  <2>1. \A t \in Task : Follows(t)
    BY StepFollows
  <2>2. DOMAIN state' = Task /\ DOMAIN attempt' = Task
    BY DEF TypeOK
  <2> QED BY <2>1, <2>2 DEF Contract!Next, Follows
<1> QED BY <1>1, <1>2, TypeCorrect, PTL DEF Spec, ContractHolds, Contract!Spec

\* Hence no driver, recovery or operator ever takes a task out of success or
\* cancellation, as long as each transaction is atomic (TaskEngineRC says what
\* happens when recovery's is not).
THEOREM EngineKeepsTerminal == Spec => EndsAreFinal
BY EngineImplementsContract, ContractKeepsTerminal DEF ContractHolds

-----------------------------------------------------------------------------
(* INV-010: the concurrency cap.                                           *)

\* The slots that CapRespected counts.
EngineLive == Live \ manual

\* Recovery and _finish give slots back and take none.
LEMMA RecoverOrphansFrees ==
  ASSUME TypeOK, NEW stale, NEW tries, RecoverOrphans(stale, state, tries)
  PROVE  Live' \subseteq Live
BY DEF RecoverOrphans, Recovered, Live, LiveSlotStates

\* Nor does _finish: its outcomes are terminal.
LEMMA FinishFrees ==
  ASSUME TypeOK, NEW d \in Driver, NEW current, NEW outcome \in {"SUCCEEDED", "FAILED"},
         Finish(d, current, outcome)
  PROVE  Live' \subseteq Live /\ manual' = manual
BY DEF Finish, CloseRun, RecordRun, Live, LiveSlotStates, TypeOK, history

\* A claim takes one slot, and only below the cap.
LEMMA ClaimTakesOne ==
  ASSUME TypeOK, NEW d \in Driver, NEW t \in Task, Claim(d, t)
  PROVE  Live' \subseteq Live \cup {t} /\ Cardinality(Live) < Cap /\ manual' = manual
BY DEF Claim, CountAttempt, Claimable, Live, LiveSlotStates, TypeOK, history

\* No other step takes a slot, save the operator's, who is on his own account.
LEMMA OthersTakeNone ==
  ASSUME TypeOK, [Next]_vars, \A d \in Driver, t \in Task : ~Claim(d, t)
  PROVE  EngineLive' \subseteq EngineLive
<1> USE DEF rows, history, EngineLive
<1>1. ASSUME UNCHANGED <<state, manual>> PROVE EngineLive' \subseteq EngineLive
  BY <1>1 DEF Live
<1>2. ASSUME Live' \subseteq Live, UNCHANGED manual PROVE EngineLive' \subseteq EngineLive
  BY <1>2
<1>3. CASE \E d \in Driver, t \in Task : Kick(d, t)
  BY <1>1, <1>3 DEF Kick
<1>4. CASE \E d \in Driver, s \in Session : StartInline(d, s)
  BY <1>2, <1>4, RecoverOrphansFrees DEF StartInline
<1>5. ASSUME NEW d \in Driver, RoundStep(d) PROVE EngineLive' \subseteq EngineLive
  <2>1. CASE Scan(d) \/ EndRound(d) \/ \E t \in Task : Refused(d, t)
    BY <1>1, <2>1 DEF Scan, EndRound, Refused
  <2>2. CASE QueueReady(d)
    BY <1>2, <2>2 DEF QueueReady, Live, LiveSlotStates
  <2>3. CASE LastResort(d)
    BY <1>2, <2>3 DEF LastResort, Live, LiveSlotStates, TypeOK
  <2> QED BY <1>5, <2>1, <2>2, <2>3 DEF RoundStep
<1>6. ASSUME NEW d \in Driver, ExecutionStep(d, state[Job(d)])
      PROVE  EngineLive' \subseteq EngineLive
  <2>1. CASE EnterReview(d, state[Job(d)])
    BY <1>2, <2>1 DEF EnterReview, Live, LiveSlotStates, TypeOK
  <2> QED BY <1>2, <1>6, <2>1, FinishFrees DEF ExecutionStep, FinishUnverified, Judge,
                                              RecordFailure, Verdicts
<1>7. ASSUME NEW d \in Driver, FailureStep(d, state[Job(d)])
      PROVE  EngineLive' \subseteq EngineLive
  BY <1>1, <1>7 DEF FailureStep, Raise, Escape
<1>8. CASE RecoveryTick
  BY <1>2, <1>8, RecoverOrphansFrees DEF RecoveryTick
<1>9. CASE \E r \in Run : LeaseExpires(r)
  BY <1>1, <1>9 DEF LeaseExpires
<1>10. CASE Environment
  <2>1. CASE \/ \E d \in Driver : StopBetweenRounds(d)
             \/ \E r \in Run : HeartbeatDies(r)
             \/ Crash
    BY <1>1, <2>1 DEF StopBetweenRounds, HeartbeatDies, Crash
  <2>2. CASE \/ \E t \in Task : RunRequest(t) \/ CancelTask(t)
             \/ \E s \in Session : DeleteSession(s)
    BY <1>2, <2>2 DEF RunRequest, CancelTask, MoveTo, DeleteSession, Live, LiveSlotStates,
                      TypeOK, Absent
  <2>3. CASE \E t \in Task, target \in TaskState : Transition(t, target)
    BY <2>3 DEF Transition, MoveTo, CountAttempt, Live, TypeOK
  <2> QED BY <1>10, <2>1, <2>2, <2>3 DEF Environment
<1>11. CASE UNCHANGED vars
  BY <1>1, <1>11 DEF vars
<1> QED BY <1>3, <1>4, <1>5, <1>6, <1>7, <1>8, <1>9, <1>10, <1>11 DEF Next, DriverStep

\* INV-010: however many drivers claim, recover and finish at once, and
\* whatever fails, the engine never holds more than Cap live slots.
THEOREM CapIsRespected == Spec => []CapRespected
<1>1. Init => CapRespected
  <2> SUFFICES ASSUME Init PROVE CapRespected
    OBVIOUS
  <2>1. Live \ manual = {}
    BY DEF Init, Live, LiveSlotStates
  <2> QED BY <2>1, FS_EmptySet, SettingsAssumption DEF CapRespected
<1>2. TypeOK /\ CapRespected /\ [Next]_vars => CapRespected'
  <2> SUFFICES ASSUME TypeOK, CapRespected, [Next]_vars PROVE CapRespected'
    OBVIOUS
  <2>1. IsFiniteSet(Live) /\ IsFiniteSet(EngineLive)
    <3>1. Live \subseteq Task /\ EngineLive \subseteq Task
      BY DEF Live, EngineLive
    <3> QED BY <3>1, FS_Subset, RowsAssumption
  <2>2. CASE \A d \in Driver, t \in Task : ~Claim(d, t)
    <3>1. EngineLive' \subseteq EngineLive
      BY <2>2, OthersTakeNone
    <3>2. Cardinality(EngineLive') <= Cardinality(EngineLive)
      BY <2>1, <3>1, FS_Subset
    <3>3. Cardinality(EngineLive) \in Nat /\ Cardinality(EngineLive') \in Nat
      BY <2>1, <3>1, FS_Subset, FS_CardinalityType
    <3> QED BY <3>2, <3>3, SettingsAssumption DEF CapRespected, EngineLive
  <2>3. ASSUME NEW d \in Driver, NEW t \in Task, Claim(d, t) PROVE CapRespected'
    <3>1. EngineLive' \subseteq Live \cup {t} /\ Cardinality(Live) < Cap
      BY <2>3, ClaimTakesOne DEF EngineLive
    <3>2. /\ IsFiniteSet(Live \cup {t})
          /\ Cardinality(Live \cup {t}) <= Cardinality(Live) + 1
          /\ Cardinality(Live) \in Nat
      <4>1. /\ IsFiniteSet(Live \cup {t})
            /\ Cardinality(Live \cup {t}) =
                 IF t \in Live THEN Cardinality(Live) ELSE Cardinality(Live) + 1
        BY <2>1, FS_AddElement
      <4>2. Cardinality(Live) \in Nat
        BY <2>1, FS_CardinalityType
      <4> QED BY <4>1, <4>2
    <3>3. /\ Cardinality(EngineLive') <= Cardinality(Live \cup {t})
          /\ Cardinality(EngineLive') \in Nat /\ Cardinality(Live \cup {t}) \in Nat
      BY <3>1, <3>2, FS_Subset, FS_CardinalityType
    <3> QED BY <3>1, <3>2, <3>3, SettingsAssumption DEF CapRespected, EngineLive
  <2> QED BY <2>2, <2>3
<1> QED BY <1>1, <1>2, TypeCorrect, PTL DEF Spec

-----------------------------------------------------------------------------
(* A RUNNING task is within recovery's reach.                              *)

\* The strengthening: a run row that does not exist has no lease, so that the
\* claim which creates it takes no task's lease away.
UnusedIsFree == \A r \in Run : runState[r] = "UNUSED" => lease[r] = "none"

Reach == UnusedIsFree /\ RunningIsRecoverable

\* Tasks that did not become RUNNING keep the lease they had, if no lease goes.
LEMMA ReachKept ==
  ASSUME TypeOK, Reach,
         UNCHANGED <<runTask>>, manual \subseteq manual',
         \A t \in Task : state'[t] = "RUNNING" => state[t] = "RUNNING" \/ t \in manual',
         \A r \in Run : lease[r] # "none" => lease'[r] # "none",
         \A r \in Run : runState'[r] = "UNUSED" => runState[r] = "UNUSED" /\ lease'[r] = lease[r]
  PROVE  Reach'
BY DEF Reach, UnusedIsFree, RunningIsRecoverable

\* recover_orphans drops a lease only with the task's RUNNING state.
LEMMA ReachRecover ==
  ASSUME TypeOK, Reach, RecoverOrphans(Stale, state, attempt), manual' = manual
  PROVE  Reach'
<1>1. UnusedIsFree'
  BY DEF RecoverOrphans, Recovered, Reach, UnusedIsFree, TypeOK
<1>2. ASSUME NEW t \in Task \ manual, state'[t] = "RUNNING"
      PROVE  \E r \in Run : runTask'[r] = t /\ lease'[r] # "none"
  <2>1. state[t] = "RUNNING" /\ ~\E r \in Stale : runTask[r] = t
    BY <1>2 DEF RecoverOrphans, Recovered
  <2>2. PICK r \in Run : runTask[r] = t /\ lease[r] # "none"
    BY <2>1 DEF Reach, RunningIsRecoverable
  <2>3. r \notin Stale
    BY <2>1, <2>2
  <2> QED BY <2>2, <2>3 DEF RecoverOrphans, Recovered
<1> QED BY <1>1, <1>2 DEF Reach, RunningIsRecoverable

\* So does _finish.
LEMMA ReachFinish ==
  ASSUME TypeOK, Reach, NEW d \in Driver, NEW outcome \in {"SUCCEEDED", "FAILED"},
         Finish(d, state[Job(d)], outcome)
  PROVE  Reach'
<1> DEFINE mine == drv[d].run
<1>1. UnusedIsFree'
  BY DEF Finish, CloseRun, RecordRun, Reach, UnusedIsFree, TypeOK, AgentOutcome
<1>2. ASSUME NEW t \in Task \ manual, state'[t] = "RUNNING"
      PROVE  \E r \in Run : runTask'[r] = t /\ lease'[r] # "none"
  <2>1. state[t] = "RUNNING" /\ t # Job(d)
    BY <1>2 DEF Finish, CloseRun, RecordRun, TypeOK, Ended, TERMINAL_STATES, Absent
  <2>2. PICK r \in Run : runTask[r] = t /\ lease[r] # "none"
    BY <2>1 DEF Reach, RunningIsRecoverable
  <2>3. r # mine
    BY <2>1, <2>2 DEF Job
  <2> QED BY <2>2, <2>3 DEF Finish, CloseRun, RecordRun, TypeOK
<1>3. manual' = manual
  BY DEF Finish, CloseRun, RecordRun, history
<1> QED BY <1>1, <1>2, <1>3 DEF Reach, RunningIsRecoverable

\* A task that the engine left RUNNING always has a run whose lease recovery
\* will see expire: no step of a driver, of recovery or of a fault strands it.
THEOREM RunningStaysRecoverable == Spec => []RunningIsRecoverable
<1>1. Init => Reach
  BY DEF Init, Reach, UnusedIsFree, RunningIsRecoverable
<1>2. TypeOK /\ Reach /\ [Next]_vars => Reach'
  <2> SUFFICES ASSUME TypeOK, Reach, [Next]_vars PROVE Reach'
    OBVIOUS
  <2> USE DEF rows, runs, history
  <2>1. ASSUME UNCHANGED <<state, runTask, runState, lease, manual>> PROVE Reach'
    BY <2>1, ReachKept
  <2>2. CASE \E d \in Driver, t \in Task : Kick(d, t)
    BY <2>1, <2>2 DEF Kick
  <2>3. CASE \E d \in Driver, s \in Session : StartInline(d, s)
    BY <2>3, ReachRecover DEF StartInline
  <2>4. ASSUME NEW d \in Driver, RoundStep(d) PROVE Reach'
    <3>1. CASE Scan(d) \/ EndRound(d) \/ \E t \in Task : Refused(d, t)
      BY <2>1, <3>1 DEF Scan, EndRound, Refused
    <3>2. CASE QueueReady(d)
      BY <3>2, ReachKept DEF QueueReady
    <3>3. CASE LastResort(d)
      BY <3>3, ReachKept DEF LastResort, TypeOK
    <3>4. ASSUME NEW t \in Task, Claim(d, t) PROVE Reach'
      <4>1. FreshRun \in Run /\ runState[FreshRun] = "UNUSED"
        BY <3>4, FreshRunIsUnused DEF Claim
      <4>2. lease[FreshRun] = "none"
        BY <4>1 DEF Reach, UnusedIsFree
      <4>3. /\ runTask' = [runTask EXCEPT ![FreshRun] = t]
            /\ lease' = [lease EXCEPT ![FreshRun] = "live"]
            /\ runState' = [runState EXCEPT ![FreshRun] = "RUNNING"]
            /\ state' = [state EXCEPT ![t] = "RUNNING"]
            /\ manual' = manual
        BY <3>4 DEF Claim
      <4> HIDE DEF FreshRun
      <4>4. UnusedIsFree'
        BY <4>1, <4>3 DEF Reach, UnusedIsFree, TypeOK
      <4>5. ASSUME NEW u \in Task \ manual, state'[u] = "RUNNING"
            PROVE  \E r \in Run : runTask'[r] = u /\ lease'[r] # "none"
        <5>1. CASE u = t
          BY <4>1, <4>3, <5>1 DEF TypeOK
        <5>2. CASE u # t
          <6>1. PICK r \in Run : runTask[r] = u /\ lease[r] # "none"
            BY <4>3, <4>5, <5>2 DEF Reach, RunningIsRecoverable, TypeOK
          <6> QED BY <4>2, <4>3, <6>1 DEF TypeOK
        <5> QED BY <5>1, <5>2
      <4> QED BY <4>3, <4>4, <4>5 DEF Reach, RunningIsRecoverable
    <3> QED BY <2>4, <3>1, <3>2, <3>3, <3>4 DEF RoundStep
  <2>5. ASSUME NEW d \in Driver, ExecutionStep(d, state[Job(d)]) PROVE Reach'
    <3>1. CASE EnterReview(d, state[Job(d)])
      BY <3>1, ReachKept DEF EnterReview, TypeOK
    <3> QED BY <2>5, <3>1, ReachFinish DEF ExecutionStep, FinishUnverified, Judge,
                                           RecordFailure, Verdicts
  <2>6. ASSUME NEW d \in Driver, FailureStep(d, state[Job(d)]) PROVE Reach'
    BY <2>1, <2>6 DEF FailureStep, Raise, Escape
  <2>7. CASE RecoveryTick
    BY <2>7, ReachRecover DEF RecoveryTick
  <2>8. CASE \E r \in Run : LeaseExpires(r)
    <3>1. PICK r \in Run : LeaseExpires(r)
      BY <2>8
    <3>2. lease' = [lease EXCEPT ![r] = "expired"] /\ lease[r] = "live"
      BY <3>1 DEF LeaseExpires
    <3>3. runState[r] # "UNUSED"
      BY <3>2 DEF Reach, UnusedIsFree
    <3>4. UNCHANGED <<state, runTask, runState, manual>>
      BY <3>1 DEF LeaseExpires
    <3> QED BY <3>2, <3>3, <3>4, ReachKept DEF TypeOK
  <2>9. CASE Environment
    <3>1. CASE \/ \E d \in Driver : StopBetweenRounds(d)
               \/ \E r \in Run : HeartbeatDies(r)
               \/ Crash
      BY <2>1, <3>1 DEF StopBetweenRounds, HeartbeatDies, Crash
    <3>2. ASSUME NEW t \in Task, RunRequest(t) \/ CancelTask(t) PROVE Reach'
      BY <3>2, ReachKept DEF RunRequest, CancelTask, MoveTo, TypeOK
    <3>3. ASSUME NEW t \in Task, NEW target \in TaskState, Transition(t, target)
          PROVE  Reach'
      BY <3>3, ReachKept DEF Transition, MoveTo, CountAttempt, TypeOK
    <3>4. ASSUME NEW s \in Session, DeleteSession(s) PROVE Reach'
      BY <3>4, ReachKept DEF DeleteSession, TypeOK, Absent
    <3> QED BY <2>9, <3>1, <3>2, <3>3, <3>4 DEF Environment
  <2>10. CASE UNCHANGED vars
    BY <2>1, <2>10 DEF vars
  <2> QED BY <2>2, <2>3, <2>4, <2>5, <2>6, <2>7, <2>8, <2>9, <2>10 DEF Next, DriverStep
<1>3. Reach => RunningIsRecoverable
  BY DEF Reach
<1> QED BY <1>1, <1>2, <1>3, TypeCorrect, PTL DEF Spec

-----------------------------------------------------------------------------
(* Handlers run on top of their dependencies.                              *)

\* What a round's snapshot lists, and what a driver executes, has dependencies
\* that succeeded; a driver executes a run that exists.
TodoReady == \A d \in Driver : \A t \in drv[d].todo : DepsSucceeded(t)

WorkReady == \A d \in Driver :
  Working(d) => /\ drv[d].run \in Run /\ runState[drv[d].run] # "UNUSED"
                /\ Job(d) \in Task /\ DepsSucceeded(Job(d))

Ready == TodoReady /\ WorkReady

\* A dependency that succeeded stays so, or disappears with its session.
LEMMA SuccessStays ==
  ASSUME TypeOK, [Next]_vars, NEW t \in Task, DepsSucceeded(t)
  PROVE  DepsSucceeded(t)'
<1> SUFFICES ASSUME NEW u \in Deps[t] PROVE state'[u] \in {"SUCCEEDED", Absent}
  BY DEF DepsSucceeded
<1>1. u \in Task /\ state[u] \in {"SUCCEEDED", Absent}
  BY RowsAssumption DEF DepsSucceeded
<1>2. Follows(u)
  BY <1>1, StepFollows
<1>3. ~CanTransition(state[u], state'[u])
  BY <1>1, TerminalEdges
<1> QED BY <1>1, <1>2, <1>3
        DEF Follows, Contract!Advance, Contract!CanTransition, Contract!TRANSITIONS,
            CanTransition, TRANSITIONS, Contract!Recover, Contract!Remove, Contract!Stay,
            Contract!Absent, Absent

\* A run row that exists keeps its task and does not become unused again.
LEMMA RunsStay ==
  ASSUME TypeOK, Step, NEW r \in Run, runState[r] # "UNUSED"
  PROVE  runState'[r] # "UNUSED" /\ runTask'[r] = runTask[r]
<1> USE DEF runs
<1>1. ASSUME UNCHANGED <<runTask, runState>>
      PROVE  runState'[r] # "UNUSED" /\ runTask'[r] = runTask[r]
  BY <1>1
<1>2. CASE \E stale, read, tries : RecoverOrphans(stale, read, tries)
  BY <1>2 DEF RecoverOrphans, Recovered
<1>3. CASE \E d \in Driver : \E current, outcome : Finish(d, current, outcome)
  BY <1>3 DEF Finish, CloseRun, RecordRun, AgentOutcome, TypeOK
<1>4. CASE \E d \in Driver, t \in Task : Claim(d, t)
  <2>1. PICK d \in Driver, t \in Task : Claim(d, t)
    BY <1>4
  <2>2. FreshRun \in Run /\ runState[FreshRun] = "UNUSED"
    BY <2>1, FreshRunIsUnused DEF Claim
  <2> QED BY <2>1, <2>2 DEF Claim, CountAttempt, TypeOK
<1>5. CASE \E s \in Session : DeleteSession(s)
  BY <1>5 DEF DeleteSession, Absent
<1>6. CASE \E d \in Driver : RoundStep(d)
  BY <1>1, <1>4, <1>6 DEF RoundStep, QueueReady, Scan, EndRound, LastResort, Refused
<1>7. CASE \E d \in Driver : \E current : ExecutionStep(d, current) \/ FailureStep(d, current)
  BY <1>1, <1>3, <1>7 DEF ExecutionStep, EnterReview, FinishUnverified, Judge, RecordFailure,
                          FailureStep, Raise, Escape
<1>8. CASE Environment
  BY <1>1, <1>5, <1>8 DEF Environment, StopBetweenRounds, HeartbeatDies, Crash, RunRequest,
                          CancelTask, Transition, MoveTo
<1>9. CASE UNCHANGED vars
  BY <1>1, <1>9 DEF vars
<1> QED BY <1>1, <1>2, <1>6, <1>7, <1>8, <1>9 DEF Step, Kick, Recovery, LeaseExpires

\* A driver lists only what a scan finds ready, and executes a task only after
\* claiming it from the list.
Moves(e) ==
  /\ \/ drv'[e].todo \subseteq drv[e].todo
     \/ \A t \in drv'[e].todo : t \in Task /\ DepsSucceeded(t)
  /\ Working(e)' => \/ Working(e) /\ drv'[e].run = drv[e].run
                    \/ \E t \in drv[e].todo : t \in Task /\ Claim(e, t)

\* Every step moves every driver like that.
LEMMA DriverMoves ==
  ASSUME TypeOK, Step, NEW e \in Driver
  PROVE  Moves(e)
<1>1. ASSUME drv'[e] = drv[e] PROVE Moves(e)
  BY <1>1 DEF Moves, Working
<1>2. ASSUME NEW x, drv'[e] = x, x.pc \notin {"handle", "judge", "except"}, x.todo = {}
      PROVE  Moves(e)
  BY <1>2 DEF Moves, Working
<1>3. \A s : /\ StartOf(s).pc \notin {"handle", "judge", "except"}
             /\ StartOf(s).todo = {}
             /\ \A t : /\ [StartOf(s) EXCEPT !.kicked = t].pc \notin {"handle", "judge", "except"}
                       /\ [StartOf(s) EXCEPT !.kicked = t].todo = {}
  BY DEF StartOf, IdleDriver
<1>4. IdleDriver.pc \notin {"handle", "judge", "except"} /\ IdleDriver.todo = {}
  BY DEF IdleDriver
<1>5. CASE UNCHANGED drv
  BY <1>1, <1>5
<1>6. ASSUME NEW d \in Driver, NEW t \in Task, Kick(d, t) PROVE Moves(e)
  <2>1. drv' = [drv EXCEPT ![d] = [StartOf(SessionOf[t]) EXCEPT !.kicked = t]]
    BY <1>6 DEF Kick
  <2> QED BY <1>1, <1>2, <1>3, <2>1 DEF TypeOK
<1>7. CASE Recovery
  <2>1. UNCHANGED drv \/ \E d \in Inline, s \in Session : drv' = [drv EXCEPT ![d] = StartOf(s)]
    BY <1>7 DEF Recovery
  <2> QED BY <1>1, <1>2, <1>3, <1>5, <2>1 DEF TypeOK
<1>8. ASSUME NEW d \in Driver, RoundStep(d) PROVE Moves(e)
  <2>1. CASE e # d
    <3>1. drv'[e] = drv[e]
      <4>1. \E x : drv' = [drv EXCEPT ![d] = x]
        <5>1. CASE QueueReady(d)
          BY <5>1 DEF QueueReady
        <5>2. CASE Scan(d)
          BY <5>2 DEF Scan
        <5>3. CASE EndRound(d)
          BY <5>3 DEF EndRound
        <5>4. CASE LastResort(d)
          BY <5>4 DEF LastResort
        <5>5. CASE \E t \in Task : Claim(d, t) \/ Refused(d, t)
          BY <5>5 DEF Claim, Refused
        <5> QED BY <1>8, <5>1, <5>2, <5>3, <5>4, <5>5 DEF RoundStep
      <4> QED BY <2>1, <4>1 DEF TypeOK
    <3> QED BY <1>1, <3>1
  <2>2. CASE e = d
    <3>1. CASE QueueReady(e)
      BY <3>1 DEF QueueReady, Moves, Working, TypeOK, DriverState
    <3>2. CASE Scan(e)
      BY <3>2 DEF Scan, Runnable, Moves, Working, TypeOK, DriverState, TasksOf
    <3>3. CASE EndRound(e)
      <4> DEFINE again == [drv[e] EXCEPT !.pc = "queue", !.round = drv[e].round + 1]
      <4>1. drv'[e] = IdleDriver \/ drv'[e] = again
        BY <3>3 DEF EndRound, TypeOK
      <4>2. again.pc = "queue" /\ again.todo = drv[e].todo
        BY DEF TypeOK, DriverState
      <4> HIDE DEF again
      <4> QED BY <1>2, <1>4, <4>1, <4>2 DEF Moves, Working
    <3>4. CASE LastResort(e)
      <4>1. drv'[e] = IdleDriver
        BY <3>4 DEF LastResort, TypeOK
      <4> QED BY <1>2, <1>4, <4>1
    <3>5. ASSUME NEW t \in Task, Claim(e, t) PROVE Moves(e)
      <4>1. t \in drv[e].todo /\ drv'[e].todo = drv[e].todo \ {t}
        BY <3>5 DEF Claim, CountAttempt, TypeOK, DriverState
      <4> QED BY <3>5, <4>1 DEF Moves
    <3>6. ASSUME NEW t \in Task, Refused(e, t) PROVE Moves(e)
      BY <3>6 DEF Refused, Moves, Working, TypeOK, DriverState
    <3> QED BY <1>8, <2>2, <3>1, <3>2, <3>3, <3>4, <3>5, <3>6 DEF RoundStep
  <2> QED BY <2>1, <2>2
<1>9. ASSUME NEW d \in Driver, NEW current, ExecutionStep(d, current) \/ FailureStep(d, current),
             Working(d)
      PROVE  Moves(e)
  <2>1. CASE e # d
    <3>1. drv'[e] = drv[e]
      BY <1>9, <2>1 DEF ExecutionStep, EnterReview, FinishUnverified, Judge, RecordFailure,
                        FailureStep, Raise, Escape, Return, TypeOK
    <3> QED BY <1>1, <3>1
  <2>2. CASE e = d
    <3>1. CASE EnterReview(e, current) \/ Raise(e, current)
      <4>1. drv'[e].run = drv[e].run /\ drv'[e].todo = drv[e].todo
        BY <3>1 DEF EnterReview, Raise, TypeOK, DriverState
      <4> QED BY <1>9, <2>2, <4>1 DEF Moves
    <3>2. ASSUME NEW started, Return(e, started) PROVE Moves(e)
      <4>1. drv'[e].pc = "pick" /\ drv'[e].todo = drv[e].todo
        BY <3>2 DEF Return, TypeOK, DriverState
      <4> QED BY <4>1 DEF Moves, Working
    <3>3. CASE Escape(e, current)
      <4> DEFINE last == [drv[e] EXCEPT !.pc = "lastResort", !.run = None, !.todo = {}]
      <4>1. drv'[e] = IdleDriver \/ drv'[e] = last
        BY <3>3 DEF Escape, TypeOK
      <4>2. last.pc = "lastResort" /\ last.todo = {}
        BY DEF TypeOK, DriverState
      <4> HIDE DEF last
      <4> QED BY <1>2, <1>4, <4>1, <4>2
    <3> QED BY <1>9, <2>2, <3>1, <3>2, <3>3 DEF ExecutionStep, FinishUnverified, Judge,
                                                RecordFailure, FailureStep
  <2> QED BY <2>1, <2>2
<1>10. CASE Environment
  <2>1. ASSUME NEW d \in Driver, StopBetweenRounds(d) PROVE Moves(e)
    <3>1. drv' = [drv EXCEPT ![d] = IdleDriver]
      BY <2>1 DEF StopBetweenRounds
    <3> QED BY <1>1, <1>2, <1>4, <3>1 DEF TypeOK
  <2>2. CASE Crash
    <3>1. drv'[e] = IdleDriver
      BY <2>2 DEF Crash
    <3> QED BY <1>2, <1>4, <3>1
  <2> QED BY <1>5, <1>10, <2>1, <2>2 DEF Environment, HeartbeatDies, RunRequest, CancelTask,
                                         Transition, MoveTo, DeleteSession
<1>11. CASE UNCHANGED vars
  BY <1>5, <1>11 DEF vars
<1> QED BY <1>5, <1>6, <1>7, <1>8, <1>9, <1>10, <1>11 DEF Step, LeaseExpires

\* Every step keeps the snapshots and the executions ready.
LEMMA ReadyAlways == Spec => []Ready
<1>1. Init => Ready
  BY DEF Init, IdleDriver, Ready, TodoReady, WorkReady, Working
<1>2. TypeOK /\ TypeOK' /\ Ready /\ [Next]_vars => Ready'
  <2> SUFFICES ASSUME TypeOK, TypeOK', Ready, [Next]_vars, NEW e \in Driver
               PROVE  /\ \A t \in drv'[e].todo : DepsSucceeded(t)'
                      /\ Working(e)' => /\ drv'[e].run \in Run
                                        /\ runState'[drv'[e].run] # "UNUSED"
                                        /\ Job(e)' \in Task /\ DepsSucceeded(Job(e))'
    BY DEF Ready, TodoReady, WorkReady
  <2>1. Moves(e)
    BY DriverMoves, AtomicSteps
  <2>2. ASSUME NEW t \in drv'[e].todo PROVE DepsSucceeded(t)'
    <3>1. t \in Task
      BY DEF TypeOK, DriverState
    <3>2. DepsSucceeded(t)
      BY <2>1, <3>1 DEF Moves, Ready, TodoReady
    <3> QED BY <3>1, <3>2, SuccessStays
  <2>3. CASE Working(e) /\ drv'[e].run = drv[e].run
    <3>1. /\ drv[e].run \in Run /\ runState[drv[e].run] # "UNUSED"
          /\ Job(e) \in Task /\ DepsSucceeded(Job(e))
      BY <2>3 DEF Ready, WorkReady
    <3>2. runState'[drv[e].run] # "UNUSED" /\ Job(e)' = Job(e)
      BY <2>3, <3>1, RunsStay, AtomicSteps DEF Job
    <3>3. DepsSucceeded(Job(e))'
      <4> DEFINE job == Job(e)
      <4>1. \A u \in Deps[job] : state'[u] \in {"SUCCEEDED", Absent}
        BY <3>1, SuccessStays DEF DepsSucceeded
      <4> QED BY <3>2, <4>1 DEF DepsSucceeded
    <3> QED BY <2>2, <2>3, <3>1, <3>2, <3>3
  <2>4. ASSUME NEW t \in drv[e].todo, t \in Task, Claim(e, t)
        PROVE  /\ drv'[e].run \in Run /\ runState'[drv'[e].run] # "UNUSED"
               /\ Job(e)' = t /\ DepsSucceeded(Job(e))'
    <3>1. FreshRun \in Run
      BY <2>4, FreshRunIsUnused DEF Claim
    <3>2. /\ drv'[e].run = FreshRun
          /\ runState'[FreshRun] = "RUNNING" /\ runTask'[FreshRun] = t
      BY <2>4, <3>1 DEF Claim, CountAttempt, TypeOK, DriverState
    <3>3. Job(e)' = t
      BY <3>2 DEF Job
    <3>4. \A u \in Deps[t] : state'[u] \in {"SUCCEEDED", Absent}
      BY <2>4, SuccessStays DEF DepsSucceeded, Ready, TodoReady
    <3> QED BY <3>1, <3>2, <3>3, <3>4 DEF DepsSucceeded
  <2> QED BY <2>1, <2>2, <2>3, <2>4 DEF Moves
<1> QED BY <1>1, <1>2, TypeCorrect, PTL DEF Spec

\* A handler only runs while all dependencies of its task have succeeded,
\* however long ago its driver listed the task.
THEOREM StartsFollowDeps == Spec => []StartedAfterDeps
<1>1. Ready => StartedAfterDeps
  BY DEF Ready, WorkReady, StartedAfterDeps
<1> QED BY <1>1, ReadyAlways, PTL

-----------------------------------------------------------------------------
(* Leases end with their runs.                                             *)

\* Whoever ends a run row takes its lease away in the same transaction, however old
\* the state is that he decided on.
LEMMA LeasesStay == TypeOK /\ LeaseMeansRunning /\ Step => LeaseMeansRunning'
<1> SUFFICES ASSUME TypeOK, LeaseMeansRunning, Step PROVE LeaseMeansRunning'
  OBVIOUS
<1> USE DEF runs
<1>1. ASSUME UNCHANGED <<runState, lease>> PROVE LeaseMeansRunning'
  BY <1>1 DEF LeaseMeansRunning
<1>2. CASE \E stale, read, tries : RecoverOrphans(stale, read, tries)
  BY <1>2 DEF RecoverOrphans, Recovered, LeaseMeansRunning
<1>3. CASE \E d \in Driver : \E current, outcome : Finish(d, current, outcome)
  BY <1>3 DEF Finish, CloseRun, RecordRun, LeaseMeansRunning, TypeOK
<1>4. CASE \E d \in Driver, t \in Task : Claim(d, t)
  BY <1>4 DEF Claim, CountAttempt, LeaseMeansRunning, TypeOK
<1>5. CASE \E r \in Run : LeaseExpires(r)
  BY <1>5 DEF LeaseExpires, LeaseMeansRunning, TypeOK
<1>6. CASE \E s \in Session : DeleteSession(s)
  BY <1>6 DEF DeleteSession, LeaseMeansRunning
<1>7. CASE \E d \in Driver : RoundStep(d)
  BY <1>1, <1>4, <1>7 DEF RoundStep, QueueReady, Scan, EndRound, LastResort, Refused
<1>8. CASE \E d \in Driver : \E current : ExecutionStep(d, current) \/ FailureStep(d, current)
  BY <1>1, <1>3, <1>8 DEF ExecutionStep, EnterReview, FinishUnverified, Judge,
                          RecordFailure, FailureStep, Raise, Escape
<1>9. CASE Environment
  BY <1>1, <1>6, <1>9 DEF Environment, StopBetweenRounds, HeartbeatDies, Crash, RunRequest,
                          CancelTask, Transition, MoveTo
<1>10. CASE UNCHANGED vars
  BY <1>1, <1>10 DEF vars
<1> QED BY <1>1, <1>2, <1>5, <1>7, <1>8, <1>9, <1>10 DEF Step, Kick, Recovery

\* A lease is never left on a run that has ended.
THEOREM LeasesEndWithRuns == Spec => []LeaseMeansRunning
<1>1. Init => LeaseMeansRunning
  BY DEF Init, LeaseMeansRunning
<1>2. TypeOK /\ LeaseMeansRunning /\ [Next]_vars => LeaseMeansRunning'
  BY LeasesStay, AtomicSteps
<1> QED BY <1>1, <1>2, TypeCorrect, PTL DEF Spec

-----------------------------------------------------------------------------
(* What a step does to the rows.                                           *)

\* No run row is made and no task starts or succeeds; a task that moves takes an
\* edge of the table, and gives up a live slot only to a last-resort record.
Quiet ==
  /\ UNCHANGED <<attempt, runTask, runState, manual>>
  /\ \A t \in Task : \/ state'[t] = state[t]
                     \/ /\ CanTransition(state[t], state'[t])
                        /\ state'[t] \notin {"RUNNING", "SUCCEEDED"}
                        /\ \/ state[t] \notin LiveSlotStates \/ state'[t] = "REVIEW"
                           \/ t \in struck'

Finishes(d) == /\ Working(d)
               /\ \E outcome \in Verdicts : Finish(d, state[Job(d)], outcome)

\* Task and run rows are written by claims, recovery, _finish, operator moves and
\* deletions; every other step is quiet.
LEMMA Effects ==
  ASSUME TypeOK, [Next]_vars
  PROVE  \/ Quiet
         \/ \E d \in Driver, t \in Task : Claim(d, t)
         \/ RecoverOrphans(Stale, state, attempt) /\ UNCHANGED history
         \/ \E d \in Driver : Finishes(d)
         \/ \E t \in Task, target \in TaskState : Transition(t, target)
         \/ \E s \in Session : DeleteSession(s)
<1> USE DEF rows, runs, history
<1>1. ASSUME UNCHANGED <<rows, runTask, runState, manual>> PROVE Quiet
  BY <1>1 DEF Quiet
<1>2. ASSUME UNCHANGED <<attempt, runTask, runState, manual>>, NEW t \in Task, NEW s,
             state' = [state EXCEPT ![t] = s], CanTransition(state[t], s),
             s \notin {"RUNNING", "SUCCEEDED"}, state[t] \notin LiveSlotStates
      PROVE  Quiet
  BY <1>2 DEF Quiet, TypeOK
<1>3. CASE \E d \in Driver, t \in Task : Kick(d, t)
  BY <1>1, <1>3 DEF Kick
<1>4. CASE \E d \in Driver, s \in Session : StartInline(d, s)
  BY <1>4 DEF StartInline
<1>5. ASSUME NEW d \in Driver, RoundStep(d), \A t \in Task : ~Claim(d, t) PROVE Quiet
  <2>1. CASE Scan(d) \/ EndRound(d) \/ \E t \in Task : Refused(d, t)
    BY <1>1, <2>1 DEF Scan, EndRound, Refused
  <2>2. CASE QueueReady(d)
    <3>1. \A t \in Task : state'[t] = state[t] \/ (state[t] = "PENDING" /\ state'[t] = "QUEUED")
      BY <2>2 DEF QueueReady
    <3> QED BY <2>2, <3>1, Edges DEF QueueReady, Quiet, LiveSlotStates
  <2>3. CASE LastResort(d)
    <3> DEFINE kicked == drv[d].kicked
    <3>1. CASE UNCHANGED state
      BY <1>1, <2>3, <3>1 DEF LastResort, Quiet
    <3>2. CASE kicked \in Running /\ state' = [state EXCEPT ![kicked] = "FAILED"]
               /\ struck' = struck \cup {kicked}
      <4> HIDE DEF kicked
      <4>1. kicked \in Task /\ state[kicked] = "RUNNING" /\ kicked \in struck'
        BY <3>2 DEF Running
      <4>2. \A t \in Task : IF t = kicked THEN state'[t] = "FAILED" ELSE state'[t] = state[t]
        BY <3>2, <4>1 DEF TypeOK
      <4>3. UNCHANGED <<attempt, runTask, runState, manual>>
        BY <2>3 DEF LastResort
      <4> QED BY <4>1, <4>2, <4>3, Edges DEF Quiet
    <3> QED BY <2>3, <3>1, <3>2 DEF LastResort
  <2> QED BY <1>5, <2>1, <2>2, <2>3 DEF RoundStep
<1>6. ASSUME NEW d \in Driver, Working(d), ExecutionStep(d, state[Job(d)])
      PROVE  Quiet \/ Finishes(d)
  <2>1. CASE EnterReview(d, state[Job(d)])
    <3>1. \A t \in Task : state'[t] = state[t] \/ (state[t] = "RUNNING" /\ state'[t] = "REVIEW")
      BY <2>1 DEF EnterReview, TypeOK
    <3> QED BY <2>1, <3>1, Edges DEF EnterReview, Quiet
  <2> QED BY <1>6, <2>1 DEF ExecutionStep, FinishUnverified, Judge, RecordFailure, Verdicts,
                           Finishes
<1>7. ASSUME NEW d \in Driver, FailureStep(d, state[Job(d)]) PROVE Quiet
  BY <1>1, <1>7 DEF FailureStep, Raise, Escape
<1>8. CASE RecoveryTick
  BY <1>8 DEF RecoveryTick
<1>9. CASE \E r \in Run : LeaseExpires(r)
  BY <1>1, <1>9 DEF LeaseExpires
<1>10. CASE Environment
  <2>1. CASE \/ \E d \in Driver : StopBetweenRounds(d)
             \/ \E r \in Run : HeartbeatDies(r)
             \/ Crash
    BY <1>1, <2>1 DEF StopBetweenRounds, HeartbeatDies, Crash
  <2>2. CASE \E t \in Task : RunRequest(t) \/ CancelTask(t)
    BY <1>2, <2>2 DEF RunRequest, CancelTask, MoveTo, CanTransition, TRANSITIONS, LiveSlotStates,
                      Cancellable
  <2> QED BY <1>10, <2>1, <2>2 DEF Environment
<1>11. CASE UNCHANGED vars
  BY <1>1, <1>11 DEF vars
<1> QED BY <1>3, <1>4, <1>5, <1>6, <1>7, <1>8, <1>9, <1>10, <1>11 DEF Next, DriverStep

-----------------------------------------------------------------------------
(* Run rows and attempts.                                                  *)

RunsOf(t) == {r \in Run : runTask[r] = t}

\* A run belongs to a task from the moment its row exists.
Recorded == \A r \in Run : runState[r] = "UNUSED" <=> runTask[r] = None

\* The strengthening for AttemptsCountRuns: finitely many runs of each task.
Counts == Recorded /\ AttemptsCountRuns /\ \A t \in Task : IsFiniteSet(RunsOf(t))

\* Run rows that keep their tasks and do not change between used and unused.
LEMMA RecordedKept ==
  ASSUME Recorded, UNCHANGED runTask,
         \A r \in Run : runState'[r] = "UNUSED" <=> runState[r] = "UNUSED"
  PROVE  Recorded'
BY DEF Recorded

\* Only a claim makes a run row.
LEMMA RecordedStays ==
  ASSUME TypeOK, WorkReady, Recorded, [Next]_vars
  PROVE  Recorded'
<1> USE DEF runs
<1>1. CASE Quiet
  BY <1>1, RecordedKept DEF Quiet
<1>2. ASSUME NEW d \in Driver, NEW t \in Task, Claim(d, t) PROVE Recorded'
  <2>1. FreshRun \in Run
    BY <1>2, FreshRunIsUnused DEF Claim
  <2> QED BY <1>2, <2>1, ActorsAssumption DEF Claim, Recorded, TypeOK
<1>3. CASE RecoverOrphans(Stale, state, attempt)
  <2>1. \A r \in Run : runState'[r] = runState[r]
                       \/ (runState'[r] = "FAILED" /\ runTask[r] \in Task)
    BY <1>3 DEF RecoverOrphans, Recovered
  <2>2. runTask' = runTask
    BY <1>3 DEF RecoverOrphans, Recovered
  <2> QED BY <2>1, <2>2, ActorsAssumption DEF Recorded
<1>4. ASSUME NEW d \in Driver, NEW current, NEW outcome, Finish(d, current, outcome),
             runState[drv[d].run] # "UNUSED"
      PROVE  Recorded'
  BY <1>4, RecordedKept DEF Finish, CloseRun, RecordRun, AgentOutcome, TypeOK
<1>5. CASE \E t \in Task, target \in TaskState : Transition(t, target)
  BY <1>5, RecordedKept DEF Transition, MoveTo
<1>6. CASE \E s \in Session : DeleteSession(s)
  BY <1>6, RecordedKept, ActorsAssumption DEF DeleteSession, Recorded, TasksOf, Absent
<1> QED BY <1>1, <1>2, <1>3, <1>4, <1>5, <1>6, Effects DEF Finishes, WorkReady

\* One task's part of AttemptsCountRuns.
CountedRuns(t) ==
  /\ IsFiniteSet(RunsOf(t))
  /\ attempt[t] >= Cardinality(RunsOf(t))
  /\ attempt[t] > Cardinality(RunsOf(t)) => t \in manual

LEMMA CountsByTask == Counts <=> Recorded /\ \A t \in Task : CountedRuns(t)
BY DEF Counts, AttemptsCountRuns, CountedRuns, RunsOf

\* A step without a claim counts no attempt but those made by hand.
LEMMA OthersCount ==
  ASSUME TypeOK, [Next]_vars, \A d \in Driver, t \in Task : ~Claim(d, t), NEW t \in Task
  PROVE  /\ runTask' = runTask
         /\ \/ attempt'[t] = attempt[t] /\ (t \in manual => t \in manual')
            \/ attempt'[t] = attempt[t] + 1 /\ t \in manual'
<1> USE DEF rows, runs, history
<1>1. CASE Quiet
  BY <1>1 DEF Quiet
<1>2. CASE RecoverOrphans(Stale, state, attempt) /\ UNCHANGED history
  BY <1>2 DEF RecoverOrphans, Recovered
<1>3. CASE \E d \in Driver : Finishes(d)
  BY <1>3 DEF Finishes, Finish, CloseRun, RecordRun
<1>4. CASE \E u \in Task, target \in TaskState : Transition(u, target)
  BY <1>4 DEF Transition, MoveTo, CountAttempt, TypeOK
<1>5. CASE \E s \in Session : DeleteSession(s)
  BY <1>5 DEF DeleteSession
<1> QED BY <1>1, <1>2, <1>3, <1>4, <1>5, Effects

\* A claim makes one run of its task, and counts it.
LEMMA ClaimCounts ==
  ASSUME TypeOK, Counts, NEW d \in Driver, NEW u \in Task, Claim(d, u), NEW t \in Task
  PROVE  CountedRuns(t)'
<1>1. FreshRun \in Run /\ runTask[FreshRun] = None
  BY FreshRunIsUnused DEF Claim, Counts, Recorded
<1>2. /\ runTask' = [runTask EXCEPT ![FreshRun] = u]
      /\ attempt' = [attempt EXCEPT ![u] = @ + 1] /\ manual' = manual
  BY DEF Claim, CountAttempt, history
<1> HIDE DEF FreshRun
<1>3. CountedRuns(t) /\ attempt[t] \in Nat
  BY CountsByTask DEF TypeOK
<1>4. CASE t # u
  <2>1. RunsOf(t)' = RunsOf(t)
    BY <1>1, <1>2, <1>4, ActorsAssumption DEF RunsOf, TypeOK
  <2>2. attempt'[t] = attempt[t]
    BY <1>2, <1>4 DEF TypeOK
  <2> QED BY <1>2, <1>3, <2>1, <2>2 DEF CountedRuns
<1>5. CASE t = u
  <2>1. RunsOf(t)' = RunsOf(t) \cup {FreshRun} /\ FreshRun \notin RunsOf(t)
    BY <1>1, <1>2, <1>5, ActorsAssumption DEF RunsOf, TypeOK
  <2>2. attempt'[t] = attempt[t] + 1
    BY <1>2, <1>5 DEF TypeOK
  <2>3. /\ IsFiniteSet(RunsOf(t)')
        /\ Cardinality(RunsOf(t)') = Cardinality(RunsOf(t)) + 1
        /\ Cardinality(RunsOf(t)) \in Nat
    BY <1>3, <2>1, FS_AddElement, FS_CardinalityType DEF CountedRuns
  <2> QED BY <1>2, <1>3, <2>2, <2>3 DEF CountedRuns
<1> QED BY <1>4, <1>5

\* No step breaks the counting.
LEMMA CountsStay ==
  ASSUME TypeOK, WorkReady, Counts, [Next]_vars
  PROVE  Counts'
<1>1. Recorded'
  BY RecordedStays DEF Counts
<1>2. ASSUME NEW t \in Task PROVE CountedRuns(t)'
  <2>1. CASE \E d \in Driver, u \in Task : Claim(d, u)
    BY <2>1, ClaimCounts
  <2>2. CASE \A d \in Driver, u \in Task : ~Claim(d, u)
    <3>1. CountedRuns(t) /\ attempt[t] \in Nat
      BY CountsByTask DEF TypeOK
    <3>2. RunsOf(t)' = RunsOf(t)
      BY <2>2, OthersCount DEF RunsOf
    <3>3. Cardinality(RunsOf(t)) \in Nat
      BY <3>1, FS_CardinalityType DEF CountedRuns
    <3> QED BY <2>2, <3>1, <3>2, <3>3, OthersCount DEF CountedRuns
  <2> QED BY <2>1, <2>2
<1> DEFINE all == \A t \in Task : CountedRuns(t)
<1>3. all'
  BY <1>2
<1> QED BY <1>1, <1>3, CountsByTask, PTL

\* Every reachable state counts its runs.
LEMMA CountsAlways == Spec => []Counts
<1>1. Init => Counts
  <2> SUFFICES ASSUME Init PROVE Counts
    OBVIOUS
  <2>1. \A t \in Task : RunsOf(t) = {}
    BY ActorsAssumption DEF Init, RunsOf
  <2>2. \A t \in Task : CountedRuns(t)
    BY <2>1, FS_EmptySet DEF Init, CountedRuns
  <2>3. Recorded
    BY DEF Init, Recorded
  <2> QED BY <2>2, <2>3, CountsByTask
<1>2. TypeOK /\ Ready /\ Counts /\ [Next]_vars => Counts'
  BY CountsStay DEF Ready
<1> QED BY <1>1, <1>2, TypeCorrect, ReadyAlways, PTL DEF Spec

\* The attempt a task shows is the number of its run rows, plus the starts made
\* by hand: recovery, failures and deletions neither lose nor invent one.
THEOREM AttemptsAreCounted == Spec => []AttemptsCountRuns
<1>1. Counts => AttemptsCountRuns
  BY DEF Counts
<1> QED BY <1>1, CountsAlways, PTL

-----------------------------------------------------------------------------
(* Success and its evidence.                                               *)

\* The rows of the runs of a deleted task are gone, and no others are.
Gone == \A r \in Run : runState[r] = Absent <=> runTask[r] \in Task /\ state[runTask[r]] = Absent

\* The strengthening: each half of the agreement of task and run rows is needed
\* for the other, and both for what _finish does to a row that is gone.
Evidence == Recorded /\ Gone /\ CompletedRunStands /\ SuccessHasRun

\* A step that writes no run row, ends no task well and takes none out of success.
LEMMA EvidenceKept ==
  ASSUME TypeOK, Evidence, UNCHANGED <<runTask, runState>>, manual \subseteq manual',
         \A t \in Task : /\ state[t] = "SUCCEEDED" => state'[t] = "SUCCEEDED"
                         /\ state'[t] = "SUCCEEDED" => state[t] = "SUCCEEDED" \/ t \in manual'
                         /\ state'[t] = Absent <=> state[t] = Absent
  PROVE  Evidence'
<1>1. Recorded' /\ Gone'
  BY DEF Evidence, Recorded, Gone
<1>2. CompletedRunStands'
  <2> SUFFICES ASSUME NEW r \in Run, runState[r] = "COMPLETED"
               PROVE  state'[runTask[r]] = "SUCCEEDED"
    BY DEF CompletedRunStands
  <2>1. runTask[r] \in Task
    BY DEF Evidence, Recorded, TypeOK
  <2> QED BY <2>1 DEF Evidence, CompletedRunStands
<1>3. SuccessHasRun'
  BY DEF Evidence, SuccessHasRun
<1> QED BY <1>1, <1>2, <1>3 DEF Evidence

\* Recovery fails only runs of tasks that are RUNNING, which have no evidence.
LEMMA EvidenceRecovers ==
  ASSUME TypeOK, Evidence, RecoverOrphans(Stale, state, attempt), UNCHANGED manual
  PROVE  Evidence'
<1>1. /\ runTask' = runTask
      /\ \A t \in Task : state'[t] = state[t]
                         \/ (state[t] = "RUNNING" /\ state'[t] \in {"QUEUED", "FAILED"})
      /\ \A r \in Run : \/ runState'[r] = runState[r]
                        \/ /\ runState'[r] = "FAILED" /\ runTask[r] \in Task
                           /\ state[runTask[r]] = "RUNNING"
  BY DEF RecoverOrphans, Recovered
<1>2. \A r \in Run : runTask[r] \in Task => state[runTask[r]] \in TaskState \cup {Absent}
  BY DEF TypeOK
<1>3. Recorded'
  BY <1>1, ActorsAssumption DEF Evidence, Recorded
<1>4. Gone'
  <2> SUFFICES ASSUME NEW r \in Run
               PROVE  runState'[r] = Absent <=> runTask[r] \in Task /\ state'[runTask[r]] = Absent
    BY <1>1 DEF Gone
  <2>1. runState[r] = Absent <=> runTask[r] \in Task /\ state[runTask[r]] = Absent
    BY DEF Evidence, Gone
  <2> QED BY <1>1, <2>1 DEF Absent
<1>5. CompletedRunStands'
  <2> SUFFICES ASSUME NEW r \in Run, runState'[r] = "COMPLETED"
               PROVE  state'[runTask[r]] = "SUCCEEDED"
    BY <1>1 DEF CompletedRunStands
  <2>1. runTask[r] \in Task /\ state[runTask[r]] = "SUCCEEDED"
    BY <1>1 DEF Evidence, Recorded, CompletedRunStands, TypeOK
  <2> QED BY <1>1, <2>1
<1>6. SuccessHasRun'
  <2> SUFFICES ASSUME NEW t \in Task \ manual, state'[t] = "SUCCEEDED"
               PROVE  \E r \in Run : runTask[r] = t /\ runState'[r] = "COMPLETED"
    BY <1>1 DEF SuccessHasRun
  <2>1. state[t] = "SUCCEEDED"
    BY <1>1
  <2>2. PICK r \in Run : runTask[r] = t /\ runState[r] = "COMPLETED"
    BY <2>1 DEF Evidence, SuccessHasRun
  <2> QED BY <1>1, <2>1, <2>2
<1> QED BY <1>3, <1>4, <1>5, <1>6 DEF Evidence

\* _finish writes the task and its run together: the outcome to both, or what an
\* ended task shows to the run, which is the same if the run was complete.
LEMMA EvidenceFinishes ==
  ASSUME TypeOK, WorkReady, Evidence, NEW d \in Driver, Finishes(d)
  PROVE  Evidence'
<1> DEFINE mine == drv[d].run
           job == Job(d)
           was == state[job]
<1>1. PICK outcome \in Verdicts : Finish(d, was, outcome)
  BY DEF Finishes
<1>2. mine \in Run /\ runState[mine] # "UNUSED" /\ job \in Task /\ runTask[mine] = job
  BY DEF Finishes, WorkReady, Job
<1>3. outcome \in {"SUCCEEDED", "FAILED"}
  BY DEF Verdicts
<1>4. /\ runTask' = runTask /\ manual' = manual
      /\ state' = [state EXCEPT ![job] = IF Ended(was) THEN was ELSE outcome]
      /\ runState' = [runState EXCEPT ![mine] =
                        IF runState[mine] = Absent THEN Absent
                        ELSE AgentOutcome(Effective(was, outcome))]
  BY <1>1 DEF Finish, CloseRun, RecordRun, history
<1> HIDE DEF mine, job
<1>5. /\ \A t \in Task \ {job} : state'[t] = state[t]
      /\ \A r \in Run \ {mine} : runState'[r] = runState[r]
      /\ state'[job] = IF Ended(was) THEN was ELSE outcome
      /\ runState'[mine] = IF runState[mine] = Absent THEN Absent
                           ELSE AgentOutcome(Effective(was, outcome))
  BY <1>2, <1>4 DEF TypeOK
<1>6. runState[mine] = Absent <=> was = Absent
  BY <1>2 DEF Evidence, Gone
<1>7. state'[job] = Absent <=> was = Absent
  BY <1>3, <1>5 DEF Ended, Absent, TERMINAL_STATES
<1>8. runState'[mine] \in {"COMPLETED", "FAILED", "TERMINATED", Absent}
  BY <1>5 DEF AgentOutcome
<1>9. runState'[mine] = "COMPLETED" <=> state'[job] = "SUCCEEDED"
  BY <1>3, <1>5, <1>6 DEF AgentOutcome, Effective, Ended, TERMINAL_STATES, Absent
<1>10. was = "SUCCEEDED" => state'[job] = "SUCCEEDED"
  BY <1>5 DEF Ended, TERMINAL_STATES
<1>11. Recorded'
  <2>1. \A r \in Run : runState'[r] = "UNUSED" <=> runState[r] = "UNUSED"
    BY <1>2, <1>5, <1>8 DEF Absent
  <2> QED BY <1>4, <2>1, RecordedKept DEF Evidence
<1>12. Gone'
  <2> SUFFICES ASSUME NEW r \in Run
               PROVE  runState'[r] = Absent <=> runTask[r] \in Task /\ state'[runTask[r]] = Absent
    BY <1>4 DEF Gone
  <2>1. runState[r] = Absent <=> runTask[r] \in Task /\ state[runTask[r]] = Absent
    BY DEF Evidence, Gone
  <2>2. runState'[r] = Absent <=> runState[r] = Absent
    BY <1>5, <1>6 DEF AgentOutcome, Absent
  <2> QED BY <1>5, <1>7, <2>1, <2>2
<1>13. CompletedRunStands'
  <2> SUFFICES ASSUME NEW r \in Run, runState'[r] = "COMPLETED"
               PROVE  state'[runTask[r]] = "SUCCEEDED"
    BY <1>4 DEF CompletedRunStands
  <2>1. CASE r = mine
    BY <1>2, <1>9, <2>1
  <2>2. CASE r # mine
    <3>1. runTask[r] \in Task /\ state[runTask[r]] = "SUCCEEDED"
      BY <1>5, <2>2 DEF Evidence, Recorded, CompletedRunStands, TypeOK
    <3> QED BY <1>5, <1>10, <3>1
  <2> QED BY <2>1, <2>2
<1>14. SuccessHasRun'
  <2> SUFFICES ASSUME NEW t \in Task \ manual, state'[t] = "SUCCEEDED"
               PROVE  \E r \in Run : runTask[r] = t /\ runState'[r] = "COMPLETED"
    BY <1>4 DEF SuccessHasRun
  <2>1. CASE t = job
    BY <1>2, <1>9, <2>1
  <2>2. CASE t # job
    <3>1. PICK r \in Run : runTask[r] = t /\ runState[r] = "COMPLETED"
      BY <1>5, <2>2 DEF Evidence, SuccessHasRun
    <3> QED BY <1>2, <1>5, <2>2, <3>1
  <2> QED BY <2>1, <2>2
<1> QED BY <1>11, <1>12, <1>13, <1>14 DEF Evidence

\* A claim takes a new run for a QUEUED task.
LEMMA EvidenceClaims ==
  ASSUME TypeOK, Evidence, NEW d \in Driver, NEW t \in Task, Claim(d, t)
  PROVE  Evidence'
<1>1. FreshRun \in Run /\ runState[FreshRun] = "UNUSED"
  BY FreshRunIsUnused DEF Claim
<1>2. /\ runTask' = [runTask EXCEPT ![FreshRun] = t]
      /\ runState' = [runState EXCEPT ![FreshRun] = "RUNNING"]
      /\ state' = [state EXCEPT ![t] = "RUNNING"] /\ state[t] = "QUEUED" /\ manual' = manual
  BY DEF Claim, Claimable, history
<1> HIDE DEF FreshRun
<1>3. /\ \A u \in Task \ {t} : state'[u] = state[u]
      /\ \A r \in Run \ {FreshRun} : runState'[r] = runState[r] /\ runTask'[r] = runTask[r]
      /\ runTask'[FreshRun] = t /\ runState'[FreshRun] = "RUNNING" /\ state'[t] = "RUNNING"
  BY <1>1, <1>2 DEF TypeOK
<1>4. Recorded'
  BY <1>3, ActorsAssumption DEF Evidence, Recorded
<1>5. Gone'
  BY <1>2, <1>3 DEF Evidence, Gone, Absent
<1>6. CompletedRunStands'
  <2> SUFFICES ASSUME NEW r \in Run, runState'[r] = "COMPLETED"
               PROVE  state'[runTask'[r]] = "SUCCEEDED"
    BY DEF CompletedRunStands
  <2>1. /\ runTask'[r] = runTask[r] /\ runTask[r] \in Task
        /\ state[runTask[r]] = "SUCCEEDED"
    BY <1>3 DEF Evidence, Recorded, CompletedRunStands, TypeOK
  <2> QED BY <1>2, <1>3, <2>1
<1>7. SuccessHasRun'
  BY <1>1, <1>2, <1>3 DEF Evidence, SuccessHasRun
<1> QED BY <1>4, <1>5, <1>6, <1>7 DEF Evidence

\* A deletion takes the run rows of every task it takes.
LEMMA EvidenceDeletes ==
  ASSUME TypeOK, Evidence, NEW s \in Session, DeleteSession(s)
  PROVE  Evidence'
<1>1. /\ runTask' = runTask /\ manual' = manual
      /\ \A t \in Task : state'[t] = IF t \in TasksOf(s) THEN Absent ELSE state[t]
      /\ \A r \in Run : runState'[r] = IF runTask[r] \in TasksOf(s) THEN Absent ELSE runState[r]
      /\ TasksOf(s) \subseteq Task
  BY DEF DeleteSession, history, TasksOf
<1>2. Recorded'
  BY <1>1, RecordedKept, ActorsAssumption DEF Evidence, Recorded, Absent
<1>3. Gone'
  BY <1>1 DEF Evidence, Gone
<1>4. CompletedRunStands'
  <2> SUFFICES ASSUME NEW r \in Run, runState'[r] = "COMPLETED"
               PROVE  state'[runTask[r]] = "SUCCEEDED"
    BY <1>1 DEF CompletedRunStands
  <2>1. /\ runTask[r] \in Task /\ runTask[r] \notin TasksOf(s)
        /\ state[runTask[r]] = "SUCCEEDED"
    BY <1>1 DEF Evidence, Recorded, CompletedRunStands, TypeOK, Absent
  <2> QED BY <1>1, <2>1
<1>5. SuccessHasRun'
  <2> SUFFICES ASSUME NEW t \in Task \ manual, state'[t] = "SUCCEEDED"
               PROVE  \E r \in Run : runTask[r] = t /\ runState'[r] = "COMPLETED"
    BY <1>1 DEF SuccessHasRun
  <2>1. t \notin TasksOf(s) /\ state[t] = "SUCCEEDED"
    BY <1>1 DEF Absent
  <2>2. PICK r \in Run : runTask[r] = t /\ runState[r] = "COMPLETED"
    BY <2>1 DEF Evidence, SuccessHasRun
  <2> QED BY <1>1, <2>1, <2>2
<1> QED BY <1>2, <1>3, <1>4, <1>5 DEF Evidence

\* Every step keeps the evidence.
LEMMA EvidenceAlways == Spec => []Evidence
<1>1. Init => Evidence
  BY ActorsAssumption DEF Init, Evidence, Recorded, Gone, CompletedRunStands, SuccessHasRun, Absent
<1>2. TypeOK /\ Ready /\ Evidence /\ [Next]_vars => Evidence'
  <2> SUFFICES ASSUME TypeOK, WorkReady, Evidence, [Next]_vars PROVE Evidence'
    BY DEF Ready
  <2>1. ASSUME NEW t \in Task, NEW target, CanTransition(state[t], target)
        PROVE  state[t] \notin {"SUCCEEDED", Absent} /\ target # Absent
    BY <2>1 DEF CanTransition, TRANSITIONS, Absent
  <2>2. CASE Quiet
    BY <2>1, <2>2, EvidenceKept DEF Quiet
  <2>3. CASE \E t \in Task, target \in TaskState : Transition(t, target)
    <3>1. PICK t \in Task, target \in TaskState : Transition(t, target)
      BY <2>3
    <3>2. /\ CanTransition(state[t], target) /\ state' = [state EXCEPT ![t] = target]
          /\ UNCHANGED <<runTask, runState>> /\ manual' = manual \cup {t}
      BY <3>1 DEF Transition, MoveTo, runs
    <3> QED BY <2>1, <3>2, EvidenceKept DEF TypeOK
  <2>4. RecoverOrphans(Stale, state, attempt) /\ UNCHANGED history => Evidence'
    BY EvidenceRecovers DEF history
  <2> QED BY <2>2, <2>3, <2>4, Effects, EvidenceClaims, EvidenceFinishes, EvidenceDeletes
<1> QED BY <1>1, <1>2, TypeCorrect, ReadyAlways, PTL DEF Spec

\* A completed run is never contradicted by its task, whoever recovers, deletes or
\* finishes what.
THEOREM CompletedRunsStand == Spec => []CompletedRunStands
<1>1. Evidence => CompletedRunStands
  BY DEF Evidence
<1> QED BY <1>1, EvidenceAlways, PTL

\* A task that succeeded, save by the operator's hand, has a run that completed.
THEOREM SuccessIsEarned == Spec => []SuccessHasRun
<1>1. Evidence => SuccessHasRun
  BY DEF Evidence
<1> QED BY <1>1, EvidenceAlways, PTL

-----------------------------------------------------------------------------
(* One thread per task.                                                    *)

\* A run without a row has neither a lease nor a heartbeat.
BlankRuns == \A r \in Run : runState[r] = "UNUSED" => lease[r] = "none" /\ hb[r] = "none"

\* No two threads execute one run.
OwnRuns == \A d, e \in Driver : d # e /\ Working(d) /\ Working(e) => drv[d].run # drv[e].run

\* What is left of a lease keeps an undisturbed task from being queued, and is the
\* only one of its task.
HeldTask(t) == \A r \in RunsOf(t) :
  lease[r] # "none" => /\ state[t] \in LiveSlotStates \cup {Absent}
                       /\ \A q \in RunsOf(t) : lease[q] # "none" => q = r

HeldTasks == \A t \in Task : ~Disturbed(t) => HeldTask(t)

\* The heartbeat of an undisturbed execution holds its lease.
WorkHolds == \A d \in Driver : Working(d) /\ ~Disturbed(Job(d))
                => lease[drv[d].run] = "live" /\ hb[drv[d].run] = "beating"

\* The strengthening: two executions of an undisturbed task would hold two leases.
Exclusive == BlankRuns /\ OwnRuns /\ HeldTasks /\ WorkHolds

\* Only a claim grants a lease or starts a heartbeat, and what disturbs a task is
\* not forgotten.
LEMMA OthersGrantNone ==
  ASSUME TypeOK, [Next]_vars, \A d \in Driver, t \in Task : ~Claim(d, t)
  PROVE  /\ manual \subseteq manual' /\ struck \subseteq struck'
         /\ \A r \in Run : /\ lease[r] = "none" => lease'[r] = "none"
                           /\ hb[r] = "none" => hb'[r] = "none"
                           /\ hb[r] = "dead" => hb'[r] = "dead"
<1> USE DEF rows, runs, history, StopHeartbeat
<1> DEFINE Goal == /\ manual \subseteq manual' /\ struck \subseteq struck'
                   /\ \A r \in Run : /\ lease[r] = "none" => lease'[r] = "none"
                                     /\ hb[r] = "none" => hb'[r] = "none"
                                     /\ hb[r] = "dead" => hb'[r] = "dead"
<1>1. CASE UNCHANGED <<lease, hb, history>>
  BY <1>1
<1>2. ASSUME RecoverOrphans(Stale, state, attempt), UNCHANGED <<hb, history>> PROVE Goal
  BY <1>2 DEF RecoverOrphans, Recovered
<1>3. ASSUME NEW d \in Driver, RoundStep(d) PROVE Goal
  BY <1>1, <1>3 DEF RoundStep, QueueReady, Scan, EndRound, Refused, LastResort
<1>4. ASSUME NEW d \in Driver, NEW current, NEW outcome, Finish(d, current, outcome) PROVE Goal
  BY <1>4 DEF Finish, CloseRun, RecordRun, TypeOK
<1>5. ASSUME NEW d \in Driver,
             ExecutionStep(d, state[Job(d)]) \/ FailureStep(d, state[Job(d)])
      PROVE  Goal
  <2>1. CASE EnterReview(d, state[Job(d)]) \/ Raise(d, state[Job(d)])
    BY <1>1, <2>1 DEF EnterReview, Raise
  <2>2. CASE Escape(d, state[Job(d)])
    BY <2>2 DEF Escape, TypeOK
  <2> QED BY <1>4, <1>5, <2>1, <2>2 DEF ExecutionStep, FailureStep, FinishUnverified, Judge,
                                        RecordFailure
<1>6. CASE \E r \in Run : LeaseExpires(r)
  BY <1>6 DEF LeaseExpires, TypeOK
<1>7. CASE Environment
  <2>1. CASE \E r \in Run : HeartbeatDies(r)
    BY <2>1 DEF HeartbeatDies, TypeOK
  <2>2. CASE Crash
    BY <2>2 DEF Crash, TypeOK
  <2>3. CASE \E t \in Task, target \in TaskState : Transition(t, target)
    BY <2>3 DEF Transition, MoveTo
  <2> QED BY <1>1, <1>7, <2>1, <2>2, <2>3 DEF Environment, StopBetweenRounds, RunRequest,
                                              CancelTask, MoveTo, DeleteSession
<1>8. CASE UNCHANGED vars
  BY <1>1, <1>8 DEF vars
<1> QED BY <1>1, <1>2, <1>3, <1>5, <1>6, <1>7, <1>8
        DEF Next, DriverStep, Kick, StartInline, RecoveryTick

\* A beating run keeps its lease, unless its heartbeat dies, its execution ends or
\* the process does.
LEMMA BeatingHolds ==
  ASSUME TypeOK, WorkReady, [Next]_vars, NEW r \in Run, runState[r] # "UNUSED",
         lease[r] = "live", hb[r] = "beating"
  PROVE  \/ lease'[r] = "live" /\ hb'[r] \in {"beating", "dead"}
         \/ \E e \in Driver : Working(e) /\ drv[e].run = r /\ ~Working(e)'
         \/ \A e \in Driver : ~Working(e)'
<1> USE DEF rows, runs, history, StopHeartbeat
<1> DEFINE Goal == \/ lease'[r] = "live" /\ hb'[r] \in {"beating", "dead"}
                   \/ \E e \in Driver : Working(e) /\ drv[e].run = r /\ ~Working(e)'
                   \/ \A e \in Driver : ~Working(e)'
<1>1. CASE UNCHANGED <<lease, hb>>
  BY <1>1
<1>2. ASSUME RecoverOrphans(Stale, state, attempt), UNCHANGED hb PROVE Goal
  BY <1>2 DEF RecoverOrphans, Recovered, Stale
<1>3. ASSUME NEW d \in Driver, NEW t \in Task, Claim(d, t) PROVE Goal
  <2>1. FreshRun \in Run /\ FreshRun # r
    BY <1>3, FreshRunIsUnused DEF Claim
  <2> QED BY <1>3, <2>1 DEF Claim, CountAttempt, TypeOK
<1>4. ASSUME NEW d \in Driver, RoundStep(d) PROVE Goal
  BY <1>1, <1>3, <1>4 DEF RoundStep, QueueReady, Scan, EndRound, Refused, LastResort
<1>5. ASSUME NEW d \in Driver, Working(d), NEW current, NEW outcome, NEW started,
             Finish(d, current, outcome), Return(d, started)
      PROVE  Goal
  <2>1. ~Working(d)'
    BY <1>5 DEF Return, Working, TypeOK, DriverState
  <2>2. r # drv[d].run => lease'[r] = lease[r] /\ hb'[r] = hb[r]
    BY <1>5 DEF Finish, CloseRun, RecordRun, TypeOK
  <2> QED BY <1>5, <2>1, <2>2
<1>6. ASSUME NEW d \in Driver, Working(d), Escape(d, state[Job(d)]) PROVE Goal
  <2> DEFINE last == [drv[d] EXCEPT !.pc = "lastResort", !.run = None, !.todo = {}]
  <2>1. drv'[d] = IdleDriver \/ drv'[d] = last
    BY <1>6 DEF Escape, TypeOK
  <2>2. IdleDriver.pc = "idle" /\ last.pc = "lastResort"
    BY DEF IdleDriver, TypeOK, DriverState
  <2> HIDE DEF last
  <2>3. ~Working(d)'
    BY <2>1, <2>2 DEF Working
  <2>4. r # drv[d].run => lease'[r] = lease[r] /\ hb'[r] = hb[r]
    BY <1>6 DEF Escape, TypeOK
  <2> QED BY <1>6, <2>3, <2>4
<1>7. ASSUME NEW d \in Driver, Working(d),
             ExecutionStep(d, state[Job(d)]) \/ FailureStep(d, state[Job(d)])
      PROVE  Goal
  BY <1>1, <1>5, <1>6, <1>7 DEF ExecutionStep, FailureStep, EnterReview, Raise,
                                FinishUnverified, Judge, RecordFailure
<1>8. CASE \E q \in Run : LeaseExpires(q)
  BY <1>8 DEF LeaseExpires, TypeOK
<1>9. CASE Environment
  <2>1. CASE \E q \in Run : HeartbeatDies(q)
    BY <2>1 DEF HeartbeatDies, TypeOK
  <2>2. CASE Crash
    BY <2>2 DEF Crash, Working, IdleDriver
  <2> QED BY <1>1, <1>9, <2>1, <2>2 DEF Environment, StopBetweenRounds, RunRequest, CancelTask,
                                        Transition, MoveTo, DeleteSession
<1>10. CASE UNCHANGED vars
  BY <1>1, <1>10 DEF vars
<1> QED BY <1>1, <1>2, <1>4, <1>7, <1>8, <1>9, <1>10
        DEF Next, DriverStep, Kick, StartInline, RecoveryTick

\* Blank runs stay blank until they are claimed.
LEMMA BlankStays ==
  ASSUME TypeOK, BlankRuns, [Next]_vars
  PROVE  BlankRuns'
<1> SUFFICES ASSUME NEW r \in Run, runState'[r] = "UNUSED"
             PROVE  lease'[r] = "none" /\ hb'[r] = "none"
  BY DEF BlankRuns
<1>1. runState[r] = "UNUSED" /\ lease[r] = "none" /\ hb[r] = "none"
  BY RunsStay, AtomicSteps DEF BlankRuns
<1>2. CASE \A d \in Driver, t \in Task : ~Claim(d, t)
  BY <1>1, <1>2, OthersGrantNone
<1>3. ASSUME NEW d \in Driver, NEW t \in Task, Claim(d, t) PROVE lease'[r] = "none" /\ hb'[r] = "none"
  <2>1. FreshRun \in Run
    BY <1>3, FreshRunIsUnused DEF Claim
  <2>2. r # FreshRun
    BY <1>3, <2>1 DEF Claim, TypeOK
  <2> QED BY <1>1, <1>3, <2>1, <2>2 DEF Claim, TypeOK
<1> QED BY <1>2, <1>3

\* A claim gives its driver a run of its own, and leaves the other drivers alone.
LEMMA ClaimsAreAlone ==
  ASSUME TypeOK, NEW d \in Driver, NEW t \in Task, Claim(d, t)
  PROVE  /\ drv'[d].run = FreshRun /\ ~Working(d)
         /\ \A e \in Driver \ {d} : drv'[e] = drv[e]
BY DEF Claim, Working, TypeOK, DriverState

\* Executions keep their runs to themselves.
LEMMA OwnRunsStay ==
  ASSUME TypeOK, OwnRuns, Step,
         \A d \in Driver : Working(d) => runState[drv[d].run] # "UNUSED"
  PROVE  OwnRuns'
<1>1. ASSUME NEW d \in Driver, NEW e \in Driver, d # e, Working(d)', Working(e)',
             NEW t \in Task, Claim(d, t)
      PROVE  drv'[d].run # drv'[e].run
  <2>1. drv'[d].run = FreshRun /\ drv'[e] = drv[e]
    BY <1>1, ClaimsAreAlone
  <2>2. Working(e)
    BY <1>1, <2>1 DEF Working
  <2>3. runState[drv[e].run] # "UNUSED" /\ runState[FreshRun] = "UNUSED"
    BY <1>1, <2>2, FreshRunIsUnused DEF Claim
  <2> QED BY <2>1, <2>3
<1>2. ASSUME NEW d \in Driver, NEW e \in Driver, d # e, Working(d)', Working(e)',
             \A t \in Task : ~Claim(d, t) /\ ~Claim(e, t)
      PROVE  drv'[d].run # drv'[e].run
  <2>1. Moves(d) /\ Moves(e)
    BY DriverMoves
  <2>2. /\ Working(d) /\ drv'[d].run = drv[d].run
        /\ Working(e) /\ drv'[e].run = drv[e].run
    BY <1>2, <2>1 DEF Moves
  <2> QED BY <1>2, <2>2 DEF OwnRuns
<1> SUFFICES ASSUME NEW d \in Driver, NEW e \in Driver, d # e, Working(d)', Working(e)'
             PROVE  drv'[d].run # drv'[e].run
  BY DEF OwnRuns
<1>3. CASE \E t \in Task : Claim(d, t)
  BY <1>1, <1>3
<1>4. CASE \E t \in Task : Claim(e, t)
  <2>1. drv'[e].run # drv'[d].run
    BY <1>1, <1>4
  <2> QED BY <2>1
<1> QED BY <1>2, <1>3, <1>4

\* What disturbed a task disturbs it for good.
LEMMA DisturbedStays ==
  ASSUME TypeOK, BlankRuns, [Next]_vars, NEW t \in Task, Disturbed(t)
  PROVE  Disturbed(t)'
<1>1. manual \subseteq manual' /\ struck \subseteq struck'
      /\ \A r \in Run : hb[r] = "dead" => hb'[r] = "dead"
  <2>1. CASE \A d \in Driver, u \in Task : ~Claim(d, u)
    BY <2>1, OthersGrantNone
  <2>2. ASSUME NEW d \in Driver, NEW u \in Task, Claim(d, u)
        PROVE  UNCHANGED history /\ \A r \in Run : hb[r] = "dead" => hb'[r] = "dead"
    <3>1. FreshRun \in Run /\ hb[FreshRun] = "none"
      BY <2>2, FreshRunIsUnused DEF Claim, BlankRuns
    <3> QED BY <2>2, <3>1 DEF Claim, TypeOK
  <2> QED BY <2>1, <2>2 DEF history
<1>2. CASE t \in manual \cup struck
  BY <1>1, <1>2 DEF Disturbed
<1>3. ASSUME NEW r \in Run, runTask[r] = t, hb[r] = "dead" PROVE Disturbed(t)'
  <2>1. runState[r] # "UNUSED"
    BY <1>3 DEF BlankRuns
  <2>2. runTask'[r] = t /\ hb'[r] = "dead"
    BY <1>1, <1>3, <2>1, RunsStay, AtomicSteps
  <2> QED BY <2>2 DEF Disturbed, RunsOf
<1> QED BY <1>2, <1>3 DEF Disturbed, RunsOf

\* A task whose runs keep what they hold or lose it, and that stays in its slot if
\* something is held, is held as before.
LEMMA HeldKept ==
  ASSUME NEW t \in Task, HeldTask(t), UNCHANGED runTask,
         \A r \in RunsOf(t) : lease'[r] # "none" => lease[r] # "none",
         \/ \A r \in RunsOf(t) : lease'[r] = "none"
         \/ state[t] \in LiveSlotStates \cup {Absent} => state'[t] \in LiveSlotStates \cup {Absent}
  PROVE  HeldTask(t)'
BY DEF HeldTask, RunsOf

\* Undisturbed tasks stay held.
LEMMA HeldStays ==
  ASSUME TypeOK, WorkReady, Recorded, Exclusive, [Next]_vars, NEW t \in Task, ~Disturbed(t)'
  PROVE  HeldTask(t)'
<1>1. ~Disturbed(t) /\ HeldTask(t)
  BY DisturbedStays DEF Exclusive, HeldTasks
<1>2. t \notin manual' /\ t \notin struck'
  BY DEF Disturbed
<1>3. ASSUME NEW d \in Driver, NEW u \in Task, Claim(d, u) PROVE HeldTask(t)'
  <2>1. FreshRun \in Run /\ runTask[FreshRun] = None
    BY <1>3, FreshRunIsUnused DEF Claim, Recorded
  <2>2. /\ runTask' = [runTask EXCEPT ![FreshRun] = u]
        /\ lease' = [lease EXCEPT ![FreshRun] = "live"]
        /\ state' = [state EXCEPT ![u] = "RUNNING"] /\ state[u] = "QUEUED"
    BY <1>3 DEF Claim, Claimable
  <2> HIDE DEF FreshRun
  <2>3. CASE t = u
    <3>1. \A r \in RunsOf(t) : lease[r] = "none"
      BY <1>1, <2>2, <2>3 DEF HeldTask, LiveSlotStates, Absent
    <3>2. state'[t] = "RUNNING"
      BY <2>2, <2>3 DEF TypeOK
    <3>3. \A r \in Run \ {FreshRun} : runTask'[r] = runTask[r] /\ lease'[r] = lease[r]
      BY <2>2 DEF TypeOK
    <3>4. \A r \in RunsOf(t)' : r = FreshRun \/ lease'[r] = "none"
      BY <3>1, <3>3 DEF RunsOf
    <3> QED BY <3>2, <3>4 DEF HeldTask, LiveSlotStates, RunsOf
  <2>4. CASE t # u
    <3>1. RunsOf(t)' = RunsOf(t) /\ FreshRun \notin RunsOf(t)
      BY <2>1, <2>2, <2>4, ActorsAssumption DEF RunsOf, TypeOK
    <3>2. state'[t] = state[t] /\ \A r \in RunsOf(t) : lease'[r] = lease[r]
      BY <2>2, <2>4, <3>1 DEF TypeOK, RunsOf
    <3> QED BY <1>1, <3>1, <3>2 DEF HeldTask
  <2> QED BY <2>3, <2>4
<1>4. ASSUME \A d \in Driver, u \in Task : ~Claim(d, u)
      PROVE  HeldTask(t)'
  <2>1. runTask' = runTask /\ \A r \in Run : lease'[r] # "none" => lease[r] # "none"
    BY <1>4, OthersCount, OthersGrantNone
  <2>2. \A r \in RunsOf(t) : r \in Run
    BY DEF RunsOf
  <2>3. CASE state'[t] = state[t] \/ state'[t] = Absent
    BY <1>1, <2>1, <2>2, <2>3, HeldKept
  <2>4. CASE Quiet
    <3>1. state'[t] = state[t] \/ state[t] \notin LiveSlotStates \cup {Absent} \/ state'[t] = "REVIEW"
      BY <1>2, <2>4, TerminalEdges DEF Quiet
    <3> QED BY <1>1, <2>1, <2>2, <3>1, HeldKept DEF LiveSlotStates
  <2>5. CASE RecoverOrphans(Stale, state, attempt)
    <3>1. \/ state'[t] = state[t]
          \/ /\ \E r \in Stale : runTask[r] = t
             /\ \A r \in Stale : lease'[r] = "none"
      BY <2>5 DEF RecoverOrphans, Recovered, Stale
    <3>2. ASSUME NEW r \in Stale, runTask[r] = t, \A q \in Stale : lease'[q] = "none"
          PROVE  \A q \in RunsOf(t) : lease'[q] = "none"
      <4>1. r \in RunsOf(t) /\ lease[r] # "none"
        BY <3>2 DEF RunsOf, Stale
      <4>2. \A q \in RunsOf(t) : lease[q] = "none" \/ q = r
        BY <1>1, <4>1 DEF HeldTask
      <4> QED BY <2>1, <2>2, <3>2, <4>2
    <3> QED BY <1>1, <2>1, <2>2, <2>3, <3>1, <3>2, HeldKept
  <2>6. ASSUME NEW d \in Driver, Finishes(d) PROVE HeldTask(t)'
    <3> DEFINE mine == drv[d].run
    <3>1. Working(d) /\ mine \in Run /\ runTask[mine] = Job(d)
      BY <2>6 DEF Finishes, WorkReady, Job
    <3>2. \/ state'[t] = state[t]
          \/ t = Job(d) /\ lease'[mine] = "none"
      BY <2>6, <3>1 DEF Finishes, Finish, CloseRun, RecordRun, TypeOK
    <3>3. ASSUME t = Job(d), lease'[mine] = "none"
          PROVE  \A q \in RunsOf(t) : lease'[q] = "none"
      <4>1. mine \in RunsOf(t) /\ lease[mine] = "live"
        BY <1>1, <3>1, <3>3 DEF RunsOf, Exclusive, WorkHolds
      <4>2. \A q \in RunsOf(t) : lease[q] = "none" \/ q = mine
        BY <1>1, <4>1 DEF HeldTask
      <4> QED BY <2>1, <2>2, <3>3, <4>2
    <3> QED BY <1>1, <2>1, <2>2, <2>3, <3>2, <3>3, HeldKept
  <2>7. CASE \E u \in Task, target \in TaskState : Transition(u, target)
    <3>1. state'[t] = state[t]
      BY <1>2, <2>7 DEF Transition, MoveTo, TypeOK
    <3> QED BY <2>3, <3>1
  <2>8. CASE \E s \in Session : DeleteSession(s)
    <3>1. state'[t] = state[t] \/ state'[t] = Absent
      BY <2>8 DEF DeleteSession
    <3> QED BY <2>3, <3>1
  <2> QED BY <1>4, <2>4, <2>5, <2>6, <2>7, <2>8, Effects
<1> QED BY <1>3, <1>4

\* Undisturbed executions keep their leases alive.
LEMMA WorkStays ==
  ASSUME TypeOK, TypeOK', WorkReady, Exclusive, [Next]_vars,
         NEW d \in Driver, Working(d)', ~Disturbed(Job(d))'
  PROVE  lease'[drv'[d].run] = "live" /\ hb'[drv'[d].run] = "beating"
<1>1. ASSUME NEW t \in Task, Claim(d, t)
      PROVE  lease'[drv'[d].run] = "live" /\ hb'[drv'[d].run] = "beating"
  <2>1. drv'[d].run = FreshRun /\ FreshRun \in Run
    BY <1>1, ClaimsAreAlone, FreshRunIsUnused DEF Claim
  <2> QED BY <1>1, <2>1 DEF Claim, TypeOK
<1>2. ASSUME Working(d), drv'[d].run = drv[d].run
      PROVE  lease'[drv'[d].run] = "live" /\ hb'[drv'[d].run] = "beating"
  <2> DEFINE mine == drv[d].run
  <2>1. /\ mine \in Run /\ runState[mine] # "UNUSED" /\ Job(d) \in Task
        /\ runTask[mine] = Job(d)
    BY <1>2 DEF WorkReady, Job
  <2>2. runTask'[mine] = Job(d) /\ Job(d)' = Job(d)
    BY <1>2, <2>1, RunsStay, AtomicSteps DEF Job
  <2> DEFINE job == Job(d)
  <2>3. ASSUME NEW j \in Task, Disturbed(j) PROVE Disturbed(j)'
    BY <2>3, DisturbedStays DEF Exclusive
  <2>4. job' = job /\ (Disturbed(job)' <=> Disturbed(Job(d))')
    BY <2>2
  <2>5. ~Disturbed(job)
    BY <2>1, <2>2, <2>3 DEF Disturbed
  <2>6. lease[mine] = "live" /\ hb[mine] = "beating"
    BY <1>2, <2>5 DEF Exclusive, WorkHolds
  <2>7. hb'[mine] # "dead"
    BY <2>1, <2>2 DEF Disturbed, RunsOf
  <2>8. \A e \in Driver : Working(e) /\ drv[e].run = mine => e = d
    BY <1>2 DEF Exclusive, OwnRuns
  <2> QED BY <1>2, <2>1, <2>6, <2>7, <2>8, BeatingHolds
<1>3. Moves(d)
  BY DriverMoves, AtomicSteps
<1> QED BY <1>1, <1>2, <1>3 DEF Moves

\* Every reachable state is exclusive.
LEMMA ExclusiveAlways == Spec => []Exclusive
<1>1. Init => Exclusive
  BY DEF Init, Exclusive, BlankRuns, OwnRuns, HeldTasks, HeldTask, WorkHolds, Working, IdleDriver,
         RunsOf
<1>2. TypeOK /\ TypeOK' /\ Ready /\ Counts /\ Exclusive /\ [Next]_vars => Exclusive'
  <2> SUFFICES ASSUME TypeOK, TypeOK', WorkReady, Recorded, Exclusive, [Next]_vars
               PROVE  Exclusive'
    BY DEF Ready, Counts
  <2>1. BlankRuns' /\ OwnRuns'
    BY BlankStays, OwnRunsStay, AtomicSteps DEF Exclusive, WorkReady
  <2>2. HeldTasks'
    BY HeldStays DEF HeldTasks
  <2>3. WorkHolds'
    BY WorkStays DEF WorkHolds
  <2> QED BY <2>1, <2>2, <2>3 DEF Exclusive
<1> QED BY <1>1, <1>2, TypeCorrect, ReadyAlways, CountsAlways, PTL DEF Spec

\* Two threads execute one task only after its heartbeat died, or the operator or a
\* last-resort record moved it: crashes, expiring leases, recovery, deletions and
\* any number of drivers do not suffice.
THEOREM TasksRunOnce == Spec => []NoDoubleExecution
<1>1. Ready /\ Exclusive => NoDoubleExecution
  <2> SUFFICES ASSUME WorkReady, Exclusive, NEW d \in Driver, NEW e \in Driver,
                      d # e, Working(d), Working(e), Job(d) = Job(e), ~Disturbed(Job(d))
               PROVE  FALSE
    BY DEF Ready, NoDoubleExecution, Disturbed, RunsOf
  <2>1. /\ drv[d].run \in RunsOf(Job(d)) /\ drv[e].run \in RunsOf(Job(d))
        /\ Job(d) \in Task
    BY DEF WorkReady, RunsOf, Job
  <2>2. lease[drv[d].run] = "live" /\ lease[drv[e].run] = "live"
    BY DEF Exclusive, WorkHolds
  <2>3. drv[e].run = drv[d].run
    BY <2>1, <2>2 DEF Exclusive, HeldTasks, HeldTask
  <2> QED BY <2>3 DEF Exclusive, OwnRuns
<1> QED BY <1>1, ReadyAlways, ExclusiveAlways, PTL

\* Recovery never takes an undisturbed task from a run whose lease is live: the
\* expired lease that it finds is the only one of the task.
THEOREM LiveLeasesAreUntouched == Spec => LiveLeaseUntouched
<1>1. TypeOK /\ Exclusive /\ [Next]_vars => [\A t \in Task : TakesLive(t) => Disturbed(t)]_vars
  <2> SUFFICES ASSUME TypeOK, Exclusive, [Next]_vars, NEW t \in Task, TakesLive(t), ~Disturbed(t)
               PROVE  FALSE
    OBVIOUS
  <2>1. PICK r \in Run : runTask[r] = t /\ lease[r] = "live"
    BY DEF TakesLive
  <2>2. state[t] = "RUNNING" /\ state'[t] = "QUEUED"
    BY DEF TakesLive
  <2>3. CASE Quiet
    <3>1. CanTransition("RUNNING", "QUEUED")
      BY <2>2, <2>3 DEF Quiet
    <3> QED BY <3>1 DEF CanTransition, TRANSITIONS
  <2>4. CASE \E d \in Driver, u \in Task : Claim(d, u)
    BY <2>2, <2>4 DEF Claim, TypeOK
  <2>5. CASE RecoverOrphans(Stale, state, attempt)
    <3>1. PICK q \in Stale : runTask[q] = t
      BY <2>2, <2>5 DEF RecoverOrphans, Recovered
    <3>2. q \in Run /\ lease[q] = "expired"
      BY DEF Stale
    <3>3. r = q
      BY <2>1, <3>1, <3>2 DEF Exclusive, HeldTasks, HeldTask, RunsOf
    <3> QED BY <2>1, <3>2, <3>3
  <2>6. CASE \E d \in Driver : Finishes(d)
    BY <2>2, <2>6 DEF Finishes, Finish, Verdicts, TypeOK
  <2>7. CASE \E u \in Task, target \in TaskState : Transition(u, target)
    <3>1. PICK u \in Task, target \in TaskState : Transition(u, target)
      BY <2>7
    <3>2. CanTransition("RUNNING", "QUEUED")
      BY <2>2, <3>1 DEF Transition, MoveTo, TypeOK
    <3> QED BY <3>2 DEF CanTransition, TRANSITIONS
  <2>8. CASE \E s \in Session : DeleteSession(s)
    BY <2>2, <2>8 DEF DeleteSession, Absent
  <2> QED BY <2>3, <2>4, <2>5, <2>6, <2>7, <2>8, Effects
<1> QED BY <1>1, TypeCorrect, ExclusiveAlways, PTL DEF Spec, LiveLeaseUntouched

-----------------------------------------------------------------------------
(* TaskEngineRC: what survives decisions on what was read earlier.         *)

\* Leases end with their runs although recovery and _finish write by key.
THEOREM LeasesEndWithRunsRC == SpecRC => []LeaseMeansRunning
<1>1. InitRC => TypeOK /\ LeaseMeansRunning
  BY InitialTypes DEF InitRC, Init, LeaseMeansRunning
<1>2. TypeOK /\ LeaseMeansRunning /\ [NextRC]_varsRC => TypeOK' /\ LeaseMeansRunning'
  BY TypesStay, LeasesStay, StaleSteps
<1> QED BY <1>1, <1>2, PTL DEF SpecRC

\* No run row is written, and a task succeeds only by the operator's hand.
Idles ==
  /\ UNCHANGED <<runTask, runState>>
  /\ manual \subseteq manual'
  /\ \A t \in Task : state'[t] = "SUCCEEDED" => state[t] = "SUCCEEDED" \/ t \in manual'

\* _finish ends an execution on whatever it has read of its task.
Records(d) ==
  /\ Working(d) /\ ~Working(d)'
  /\ \E current : \E outcome \in Verdicts : Finish(d, current, outcome)

\* Run rows are written by claims, recovery and _finish; every other step idles.
LEMMA StaleEffects ==
  ASSUME TypeOK, [NextRC]_varsRC
  PROVE  \/ Idles
         \/ \E d \in Driver, t \in Task : Claim(d, t)
         \/ (\E stale, read, tries : RecoverOrphans(stale, read, tries)) /\ UNCHANGED history
         \/ \E d \in Driver : Records(d)
<1> USE DEF rows, runs, history
<1>1. ASSUME UNCHANGED <<state, runTask, runState, manual>> PROVE Idles
  BY <1>1 DEF Idles
<1>2. ASSUME NEW t, NEW s, state' = [state EXCEPT ![t] = s], s # "SUCCEEDED",
             UNCHANGED <<runTask, runState, manual>>
      PROVE  Idles
  BY <1>2 DEF Idles, TypeOK
<1>3. CASE Atomic
  <2>1. CASE \/ \E d \in Driver, t \in Task : Kick(d, t)
             \/ \E d \in Driver : StopBetweenRounds(d)
             \/ \E r \in Run : LeaseExpires(r) \/ HeartbeatDies(r)
    BY <1>1, <2>1 DEF Kick, StopBetweenRounds, LeaseExpires, HeartbeatDies
  <2>2. ASSUME NEW d \in Driver, RoundStep(d), \A t \in Task : ~Claim(d, t) PROVE Idles
    <3>1. CASE Scan(d) \/ EndRound(d) \/ \E t \in Task : Refused(d, t)
      BY <1>1, <3>1 DEF Scan, EndRound, Refused
    <3>2. CASE QueueReady(d)
      BY <3>2 DEF QueueReady, Idles
    <3>3. CASE LastResort(d)
      BY <1>1, <1>2, <3>3 DEF LastResort
    <3> QED BY <2>2, <3>1, <3>2, <3>3 DEF RoundStep
  <2>3. CASE \E t \in Task : RunRequest(t)
    BY <1>2, <2>3 DEF RunRequest, MoveTo
  <2>4. ASSUME NEW t \in Task, NEW target \in TaskState, Transition(t, target) PROVE Idles
    BY <2>4 DEF Transition, MoveTo, Idles, TypeOK
  <2> QED BY <1>3, <2>1, <2>2, <2>3, <2>4 DEF Atomic
<1>4. CASE CrashRC
  BY <1>1, <1>4 DEF CrashRC, Crash
<1>5. ASSUME NEW d \in Driver, WriteTask(d) PROVE Idles \/ Records(d)
  <2> DEFINE current == seen[d]
  <2>1. Working(d) /\ (ExecutionStep(d, current) \/ FailureStep(d, current))
    BY <1>5 DEF WriteTask
  <2> HIDE DEF current
  <2>2. CASE EnterReview(d, current)
    BY <1>2, <2>2 DEF EnterReview
  <2>3. CASE FailureStep(d, current)
    BY <1>1, <2>3 DEF FailureStep, Raise, Escape
  <2>4. ASSUME NEW outcome \in Verdicts, NEW started, Finish(d, current, outcome),
               Return(d, started)
        PROVE  Records(d)
    <3>1. ~Working(d)'
      BY <2>4 DEF Return, Working, TypeOK, DriverState
    <3> QED BY <2>1, <2>4, <3>1 DEF Records
  <2> QED BY <2>1, <2>2, <2>3, <2>4 DEF ExecutionStep, FinishUnverified, Judge, RecordFailure,
                                        Verdicts
<1>6. CASE \/ \E d \in Driver : ReadTask(d)
           \/ \E x \in Recoverer : ReadOrphans(x)
           \/ \E t \in Task : ReadCancel(t)
           \/ UNCHANGED varsRC
  BY <1>1, <1>6 DEF ReadTask, ReadOrphans, ReadCancel, varsRC, vars
<1>7. CASE TickRC \/ \E d \in Driver, s \in Session : StartInlineRC(d, s)
  BY <1>7 DEF TickRC, StartInlineRC, WriteOrphans
<1>8. CASE \E t \in Task : WriteCancel(t)
  BY <1>2, <1>8 DEF WriteCancel
<1> QED BY <1>3, <1>4, <1>5, <1>6, <1>7, <1>8 DEF NextRC

\* An execution's run is there and has not completed: only _finish completes it,
\* which ends the execution.
ExecutionsOpen ==
  \A d \in Driver :
    Working(d) => drv[d].run \in Run /\ runState[drv[d].run] \notin {"UNUSED", "COMPLETED"}

RowsPresent == \A r \in Run : runState[r] # Absent

\* The strengthening: a run that completed is nobody's to write but recovery's, and
\* recovery takes the task out of success with it.
Backed == OwnRuns /\ ExecutionsOpen /\ RowsPresent /\ SuccessHasRun

LEMMA BackedIdles ==
  ASSUME Backed, Idles
  PROVE  RowsPresent' /\ SuccessHasRun' /\ \A r \in Run : runState'[r] = runState[r]
BY DEF Backed, RowsPresent, SuccessHasRun, Idles

LEMMA BackedClaims ==
  ASSUME TypeOK, Backed, NEW d \in Driver, NEW t \in Task, Claim(d, t)
  PROVE  /\ RowsPresent' /\ SuccessHasRun'
         /\ FreshRun \in Run /\ runState[FreshRun] = "UNUSED" /\ runState'[FreshRun] = "RUNNING"
         /\ drv'[d].run = FreshRun
         /\ \A r \in Run \ {FreshRun} : runState'[r] = runState[r]
<1>1. FreshRun \in Run /\ runState[FreshRun] = "UNUSED"
  BY FreshRunIsUnused DEF Claim
<1>2. /\ runTask' = [runTask EXCEPT ![FreshRun] = t]
      /\ runState' = [runState EXCEPT ![FreshRun] = "RUNNING"]
      /\ state' = [state EXCEPT ![t] = "RUNNING"] /\ manual' = manual
  BY DEF Claim, history
<1>3. drv'[d].run = FreshRun
  BY ClaimsAreAlone
<1> HIDE DEF FreshRun
<1>4. /\ \A r \in Run \ {FreshRun} : runState'[r] = runState[r] /\ runTask'[r] = runTask[r]
      /\ runState'[FreshRun] = "RUNNING" /\ state'[t] = "RUNNING"
      /\ \A u \in Task \ {t} : state'[u] = state[u]
  BY <1>1, <1>2 DEF TypeOK
<1>5. RowsPresent'
  BY <1>1, <1>4 DEF Backed, RowsPresent, Absent
<1>6. SuccessHasRun'
  BY <1>1, <1>2, <1>4 DEF Backed, SuccessHasRun
<1> QED BY <1>1, <1>3, <1>4, <1>5, <1>6

\* Recovery on an old snapshot may fail a run that completed, but then it also takes
\* the task out of success.
LEMMA BackedRecovers ==
  ASSUME TypeOK, Backed, NEW stale, NEW read, NEW tries, RecoverOrphans(stale, read, tries),
         UNCHANGED history
  PROVE  /\ RowsPresent' /\ SuccessHasRun'
         /\ \A r \in Run : runState'[r] \in {runState[r], "FAILED"}
<1>1. /\ runTask' = runTask /\ manual' = manual
      /\ \A t \in Task : state'[t] = state[t] \/ state'[t] \in {"QUEUED", "FAILED"}
      /\ \A r \in Run : \/ runState'[r] = runState[r]
                        \/ /\ runState'[r] = "FAILED" /\ runTask[r] \in Task
                           /\ state'[runTask[r]] \in {"QUEUED", "FAILED"}
  BY DEF RecoverOrphans, Recovered, history
<1>2. RowsPresent'
  BY <1>1 DEF Backed, RowsPresent, Absent
<1>3. SuccessHasRun'
  <2> SUFFICES ASSUME NEW t \in Task \ manual, state'[t] = "SUCCEEDED"
               PROVE  \E r \in Run : runTask[r] = t /\ runState'[r] = "COMPLETED"
    BY <1>1 DEF SuccessHasRun
  <2>1. state[t] = "SUCCEEDED"
    BY <1>1
  <2>2. PICK r \in Run : runTask[r] = t /\ runState[r] = "COMPLETED"
    BY <2>1 DEF Backed, SuccessHasRun
  <2> QED BY <1>1, <2>2
<1> QED BY <1>1, <1>2, <1>3

\* _finish writes success to the task only together with completion to its run, and
\* to no run that had completed.
LEMMA BackedRecords ==
  ASSUME TypeOK, Backed, NEW d \in Driver, Records(d)
  PROVE  /\ RowsPresent' /\ SuccessHasRun'
         /\ \A r \in Run \ {drv[d].run} : runState'[r] = runState[r]
<1> DEFINE mine == drv[d].run
           job == Job(d)
<1>1. PICK current : \E outcome \in Verdicts : Finish(d, current, outcome)
  BY DEF Records
<1>2. PICK outcome \in Verdicts : Finish(d, current, outcome)
  BY <1>1
<1>3. /\ mine \in Run /\ runState[mine] # "COMPLETED" /\ runState[mine] # Absent
      /\ runTask[mine] = job
  BY DEF Records, Backed, ExecutionsOpen, RowsPresent, Job
<1>4. /\ runTask' = runTask /\ manual' = manual
      /\ state' = [state EXCEPT ![job] = IF Ended(current) THEN @ ELSE outcome]
      /\ runState' = [runState EXCEPT ![mine] =
                        IF runState[mine] = Absent THEN Absent
                        ELSE AgentOutcome(Effective(current, outcome))]
  BY <1>2 DEF Finish, CloseRun, RecordRun, history
<1> HIDE DEF mine, job
<1>5. /\ \A t \in Task : state'[t] = state[t] \/ (t = job /\ ~Ended(current) /\ state'[t] = outcome)
      /\ \A r \in Run \ {mine} : runState'[r] = runState[r]
      /\ runState'[mine] = AgentOutcome(Effective(current, outcome))
  BY <1>3, <1>4 DEF TypeOK
<1>6. RowsPresent'
  BY <1>5 DEF Backed, RowsPresent, AgentOutcome, Absent
<1>7. SuccessHasRun'
  <2> SUFFICES ASSUME NEW t \in Task \ manual, state'[t] = "SUCCEEDED"
               PROVE  \E r \in Run : runTask[r] = t /\ runState'[r] = "COMPLETED"
    BY <1>4 DEF SuccessHasRun
  <2>1. CASE state'[t] = state[t]
    <3>1. PICK r \in Run : runTask[r] = t /\ runState[r] = "COMPLETED"
      BY <2>1 DEF Backed, SuccessHasRun
    <3> QED BY <1>3, <1>5, <3>1
  <2>2. CASE t = job /\ ~Ended(current) /\ state'[t] = outcome
    <3>1. runState'[mine] = "COMPLETED"
      BY <1>5, <2>2 DEF Effective, Ended, AgentOutcome
    <3> QED BY <1>3, <2>2, <3>1
  <2> QED BY <1>5, <2>1, <2>2
<1> QED BY <1>5, <1>6, <1>7 DEF mine

LEMMA BackedStays == TypeOK /\ Backed /\ [NextRC]_varsRC => Backed'
<1> SUFFICES ASSUME TypeOK, Backed, [NextRC]_varsRC PROVE Backed'
  OBVIOUS
<1>1. RowsPresent' /\ SuccessHasRun'
  BY StaleEffects, BackedIdles, BackedClaims, BackedRecovers, BackedRecords
<1>2. OwnRuns'
  BY OwnRunsStay, StaleSteps DEF Backed, ExecutionsOpen
<1>3. ASSUME NEW e \in Driver, Working(e)'
      PROVE  drv'[e].run \in Run /\ runState'[drv'[e].run] \notin {"UNUSED", "COMPLETED"}
  <2>1. Moves(e)
    BY DriverMoves, StaleSteps
  <2>2. CASE \E t \in Task : Claim(e, t)
    BY <2>2, BackedClaims
  <2>3. CASE Working(e) /\ drv'[e].run = drv[e].run
    <3> DEFINE mine == drv[e].run
    <3>1. mine \in Run /\ runState[mine] \notin {"UNUSED", "COMPLETED"}
      BY <2>3 DEF Backed, ExecutionsOpen
    <3>2. runState'[mine] \in {runState[mine], "FAILED"}
      <4>1. CASE Idles
        BY <3>1, <4>1, BackedIdles
      <4>2. CASE \E d \in Driver, t \in Task : Claim(d, t)
        BY <3>1, <4>2, BackedClaims
      <4>3. CASE (\E stale, read, tries : RecoverOrphans(stale, read, tries)) /\ UNCHANGED history
        BY <3>1, <4>3, BackedRecovers
      <4>4. ASSUME NEW d \in Driver, Records(d) PROVE runState'[mine] = runState[mine]
        <5>1. d # e
          BY <1>3, <4>4 DEF Records
        <5>2. drv[d].run # mine
          BY <2>3, <4>4, <5>1 DEF Backed, OwnRuns, Records
        <5> QED BY <3>1, <4>4, <5>2, BackedRecords
      <4> QED BY <4>1, <4>2, <4>3, <4>4, StaleEffects
    <3> QED BY <2>3, <3>1, <3>2
  <2> QED BY <1>3, <2>1, <2>2, <2>3 DEF Moves
<1>4. ExecutionsOpen'
  BY <1>3 DEF ExecutionsOpen
<1> QED BY <1>1, <1>2, <1>4 DEF Backed

\* Success has evidence even when recovery, _finish and cancellation decide on rows
\* that others have written since.
THEOREM SuccessIsEarnedRC == SpecRC => []SuccessHasRun
<1>1. InitRC => TypeOK /\ Backed
  BY InitialTypes DEF InitRC, Init, IdleDriver, Backed, OwnRuns, ExecutionsOpen, RowsPresent,
                      SuccessHasRun, Working, Absent
<1>2. TypeOK /\ Backed /\ [NextRC]_varsRC => TypeOK' /\ Backed'
  BY TypesStay, BackedStays, StaleSteps
<1>3. Backed => SuccessHasRun
  BY DEF Backed
<1> QED BY <1>1, <1>2, <1>3, PTL DEF SpecRC
=============================================================================
