------------------------------- MODULE Gateway -------------------------------
(***************************************************************************)
(* From a Telegram update to its answer: the ingest ledger and the message *)
(* handler of services/telegram.py, the GatewayExecutor and GatewayRelay   *)
(* of services/gateway.py, and the recovery tick that calls recover().     *)
(*                                                                         *)
(* Two executors share the tables.  The service's one lives as long as the *)
(* process: its relay subscribes to the event bus and each delivery runs   *)
(* in a thread of its own.  The recovery tick makes a new executor every   *)
(* time, whose relay never subscribes: it works through the pending        *)
(* updates one by one and leaves the drive of an agent task to a thread.   *)
(*                                                                         *)
(* Every action is one transaction (or one pop of the relay's deque).  The *)
(* engine that runs the tasks is reduced to the end of a session's master  *)
(* task, the outbox to the set of messages it has accepted.                *)
(***************************************************************************)
EXTENDS Naturals, FiniteSets

CONSTANTS
  Update,         \* telegram update ids
  Linked,         \* owners have a TelegramAccount chat (identity mode)
  MaxDeliveries,  \* bounds the deliveries by Telegram, repeated ones included
  MaxSessions,    \* bounds the sessions created for one update
  MaxFaults,      \* bounds crashes, failing transactions and aged claims together
  Env,            \* which of EnvEvents may happen
  None            \* no session

Kinds == {"goal",     \* text for Bob: small talk or a task, as the classifier finds
          "command",  \* a registered command
          "silent"}   \* denied, without text, or a callback: nothing to execute

EnvEvents == {"crash",     \* the process dies and is restarted
              "database",  \* a transaction of an executor raises
              "age"}       \* ten minutes pass after a claim

ASSUME BoundsAssumption ==
  /\ Linked \in BOOLEAN /\ Env \subseteq EnvEvents
  /\ MaxDeliveries \in Nat /\ MaxSessions \in Nat /\ MaxFaults \in Nat

Executor == {"service", "recovery"}
Session  == Update \X (1..MaxSessions)

VARIABLES
  kind,        \* what each update is; chosen once and for all by its sender
  ledger,      \* telegram_updates: no row, logged, or processed_at set
  gate,        \* telegram_gateway_messages.processing_status
  old,         \* received_at of that row is more than 600 seconds ago
  bound,       \* its session_id
  session,     \* none, empty (no tasks yet), open, or how its master task ended
  queued,      \* events in the deque of the service's relay
  sent,        \* events with a row in the outbox
  answers,     \* final messages enqueued for a chat update
  apologised,  \* updates with a telegram.drive.error row in the outbox
  worker,      \* locals of _process_one and _drive_and_finish
  inFlight,    \* _in_flight of the service's executor
  reported,    \* _drive_reported_failure of each executor
  tick,        \* locals of recover(): replay candidates, pending updates
  deliveries,  \* deliveries so far
  faults       \* faults so far

rows   == <<ledger, gate, old, bound, session>>
outbox == <<sent, answers, apologised>>
vars   == <<kind, rows, queued, outbox, worker, inFlight, reported, tick, deliveries, faults>>

Idle    == [pc |-> "idle", s |-> None]
Resting == [phase |-> "sweep", events |-> {}, updates |-> {}]

\* Nothing has been sent or lost yet, and recovery is between two ticks.
Calm ==
  /\ kind \in [Update -> Kinds]
  /\ queued = {} /\ sent = {} /\ apologised = {}
  /\ answers = [u \in Update |-> 0]
  /\ reported = [x \in Executor |-> FALSE]
  /\ tick = Resting

Init ==
  /\ Calm
  /\ ledger = [u \in Update |-> "none"]
  /\ gate = [u \in Update |-> "none"]
  /\ old = [u \in Update |-> FALSE]
  /\ bound = [u \in Update |-> None]
  /\ session = [s \in Session |-> "none"]
  /\ worker = [x \in Executor |-> [u \in Update |-> Idle]]
  /\ inFlight = {}
  /\ deliveries = 0 /\ faults = 0

Claimed  == {"IN_PROGRESS", "DISPATCHED", "COMPLETED"}
Terminal == {"completed", "failed"}

-----------------------------------------------------------------------------
(* Moving a worker.                                                        *)

At(x, u, pc)   == worker[x][u].pc = pc
Goto(x, u, pc) == worker' = [worker EXCEPT ![x][u].pc = pc]

\* A worker that ends gives its update back, and forgets its session.
Leave(x, u) ==
  /\ worker' = [worker EXCEPT ![x][u] = Idle]
  /\ inFlight' = IF x = "service" THEN inFlight \ {u} ELSE inFlight

\* An exception out of _process_one leaves the update in _in_flight.
Abandon(x, u) ==
  /\ worker' = [worker EXCEPT ![x][u] = Idle]
  /\ UNCHANGED inFlight

MarkProcessed(u) == ledger' = [ledger EXCEPT ![u] = "processed"]

Fault(event) == event \in Env /\ faults < MaxFaults /\ faults' = faults + 1

-----------------------------------------------------------------------------
(* Ingest: handle_update, from the webhook or the poller.                  *)

\* _log_update refuses an update that has been processed, and no other.
Refused(u) == ledger[u] = "processed"

\* A goal starts a thread, unless the service is already at it; a command or a
\* silent update is handled by the poller itself.
Deliver(u) ==
  /\ deliveries < MaxDeliveries
  /\ deliveries' = deliveries + 1
  /\ IF Refused(u)
     THEN UNCHANGED <<ledger, worker, inFlight>>
     ELSE /\ ledger' = [ledger EXCEPT ![u] = IF @ = "none" THEN "logged" ELSE @]
          /\ IF At("service", u, "idle") /\ u \notin inFlight
             THEN IF kind[u] = "goal"
                  THEN Goto("service", u, "read") /\ inFlight' = inFlight \cup {u}
                  ELSE Goto("service", u, "handle") /\ UNCHANGED inFlight
             ELSE UNCHANGED <<worker, inFlight>>
  /\ UNCHANGED <<gate, old, bound, session, queued, outbox, reported, tick, faults>>

\* The command, callback or refusal ends in _mark_processed, even if it failed.
Handle(u) ==
  /\ At("service", u, "handle")
  /\ MarkProcessed(u)
  /\ Leave("service", u)
  /\ UNCHANGED <<gate, old, bound, session, queued, outbox, reported, tick, deliveries, faults>>

-----------------------------------------------------------------------------
(* _process_one, up to the claim.                                          *)

\* _owner_and_chat, and _resolve_owner with the test for a text.  A command that
\* was never handled is a goal like any other here.
AlreadyProcessed(u) == ledger[u] = "processed"
Denied(u)           == kind[u] = "silent"

Look(x, u) ==
  \/ /\ AlreadyProcessed(u)
     /\ Leave(x, u) /\ UNCHANGED ledger
  \/ /\ ~AlreadyProcessed(u) /\ Denied(u)
     /\ MarkProcessed(u) /\ Leave(x, u)
  \/ /\ ~AlreadyProcessed(u) /\ ~Denied(u)
     /\ Goto(x, u, "claim") /\ UNCHANGED <<ledger, inFlight>>

\* The thread of a delivery.
Read(u) ==
  /\ At("service", u, "read")
  /\ Look("service", u)
  /\ UNCHANGED <<gate, old, bound, session, queued, outbox, reported, tick, deliveries, faults>>

\* Mutated form: only a finished update counts as claimed.
TakenFinished(u) == gate[u] = "COMPLETED" /\ ~old[u]

Taken(u) == gate[u] \in Claimed /\ ~old[u]

\* The claim is read ...
ReadClaim(x, u) ==
  /\ At(x, u, "claim")
  /\ \/ Taken(u) /\ Leave(x, u)
     \/ /\ ~Taken(u)
        /\ Goto(x, u, IF gate[u] = "none" THEN "insert" ELSE "update")
        /\ UNCHANGED inFlight
  /\ UNCHANGED <<rows, queued, outbox, reported, tick, deliveries, faults>>

\* ... and written: a row that has appeared meanwhile violates the unique
\* constraint, an existing one is overwritten.  The classifier picks the path.
WriteClaim(x, u) ==
  /\ \/ /\ At(x, u, "insert") /\ gate[u] # "none"
        /\ Abandon(x, u) /\ UNCHANGED gate
     \/ /\ At(x, u, "update") \/ (At(x, u, "insert") /\ gate[u] = "none")
        /\ gate' = [gate EXCEPT ![u] = "IN_PROGRESS"]
        /\ \E path \in {"chat", "agent"} : Goto(x, u, path)
        /\ UNCHANGED inFlight
  /\ UNCHANGED <<ledger, old, bound, session, queued, outbox, reported, tick, deliveries, faults>>

-----------------------------------------------------------------------------
(* The chat path and the agent path of _process_one.                       *)

\* Typing, history, memories and one invocation; whatever it yields, an answer
\* is enqueued and drained.
Answer(x, u) ==
  /\ At(x, u, "chat")
  /\ answers' = [answers EXCEPT ![u] = @ + 1]
  /\ Goto(x, u, "finish")
  /\ UNCHANGED <<rows, queued, sent, apologised, inFlight, reported, tick, deliveries, faults>>

\* A drive begins: what was reported before does not count.
ResetReport(x) == reported' = [reported EXCEPT ![x] = FALSE]

\* The acknowledgement is enqueued and the session of an earlier attempt looked
\* up: driven again, or nothing is left to do.
Resume(x, u) ==
  /\ At(x, u, "agent")
  /\ worker' = [worker EXCEPT ![x][u] =
       IF bound[u] = None THEN [pc |-> "create", s |-> None]
       ELSE IF session[bound[u]] \in Terminal THEN [pc |-> "finish", s |-> None]
       ELSE [pc |-> "drive", s |-> bound[u]]]
  /\ IF worker'[x][u].pc = "drive" THEN ResetReport(x) ELSE UNCHANGED reported
  /\ UNCHANGED <<rows, queued, outbox, inFlight, tick, deliveries, faults>>

\* Supervisor.create_session.
Create(x, u) ==
  /\ At(x, u, "create")
  /\ \E i \in 1..MaxSessions :
       /\ session[<<u, i>>] = "none" /\ \A j \in 1..(i - 1) : session[<<u, j>>] # "none"
       /\ session' = [session EXCEPT ![<<u, i>>] = "empty"]
       /\ worker' = [worker EXCEPT ![x][u] = [pc |-> "plan", s |-> <<u, i>>]]
  /\ UNCHANGED <<ledger, gate, old, bound, queued, outbox, inFlight, reported, tick, deliveries, faults>>

\* ensure_session_tasks: from here on the engine may run the master task.
Plan(x, u) ==
  /\ At(x, u, "plan")
  /\ session' = [session EXCEPT ![worker[x][u].s] = "open"]
  /\ Goto(x, u, "bind")
  /\ UNCHANGED <<ledger, gate, old, bound, queued, outbox, inFlight, reported, tick, deliveries, faults>>

\* _gateway_bound.
Bind(x, u) ==
  /\ At(x, u, "bind")
  /\ bound' = [bound EXCEPT ![u] = worker[x][u].s]
  /\ gate' = [gate EXCEPT ![u] = "DISPATCHED"]
  /\ Goto(x, u, "drive")
  /\ ResetReport(x)
  /\ UNCHANGED <<ledger, old, session, queued, outbox, inFlight, tick, deliveries, faults>>

-----------------------------------------------------------------------------
(* _drive_and_finish.                                                      *)

\* drive_session returns: all tasks are done, or none can go on.
DriveReturns(x, u) ==
  /\ At(x, u, "drive")
  /\ Goto(x, u, "flush")
  /\ UNCHANGED <<rows, queued, outbox, inFlight, reported, tick, deliveries, faults>>

DriveRaises(x, u) ==
  /\ At(x, u, "drive")
  /\ Fault("database")
  /\ Goto(x, u, "errflush")
  /\ UNCHANGED <<rows, queued, outbox, inFlight, reported, tick, deliveries>>

\* The chat of an event: the row bound to the task, else the owner's account.
Resolvable(s) == Linked \/ \E u \in Update : bound[u] = s

\* _relay: enqueue, deduplicated by event id; a failure is remembered.
Relay(x, s) ==
  /\ sent' = IF Resolvable(s) THEN sent \cup {s} ELSE sent
  /\ reported' = [reported EXCEPT ![x] = @ \/ (Resolvable(s) /\ session[s] = "failed")]

\* The relay of the recovery's executor never receives an event.
Deque(x) == IF x = "service" THEN queued ELSE {}

After(pc) == IF pc = "errflush" THEN "sorry" ELSE "finish"

\* flush asks whether the deque is empty ...
FlushTest(x, u) ==
  \E pc \in {"flush", "errflush"} :
    /\ At(x, u, pc)
    /\ Goto(x, u, IF Deque(x) = {} THEN After(pc) ELSE IF pc = "flush" THEN "pop" ELSE "errpop")
    /\ UNCHANGED <<rows, queued, outbox, inFlight, reported, tick, deliveries, faults>>

\* ... and pops; an exception of _relay loses the event.
FlushPop(x, u) ==
  \E pc \in {"pop", "errpop"}, s \in queued :
    /\ At(x, u, pc)
    /\ queued' = queued \ {s}
    /\ \/ Relay(x, s) /\ UNCHANGED faults
       \/ Fault("database") /\ UNCHANGED <<sent, reported>>
    /\ Goto(x, u, IF pc = "pop" THEN "flush" ELSE "errflush")
    /\ UNCHANGED <<rows, answers, apologised, inFlight, tick, deliveries>>

\* Another thread has emptied the deque: popleft raises.  In the finally clause
\* that ends the drive unmarked.
FlushEmpty(x, u) ==
  /\ queued = {}
  /\ \/ At(x, u, "pop") /\ Leave(x, u)
     \/ At(x, u, "errpop") /\ Goto(x, u, "sorry") /\ UNCHANGED inFlight
  /\ UNCHANGED <<rows, queued, outbox, reported, tick, deliveries, faults>>

\* The apology, unless a failure has been reported since the drive began.
Apologise(x, u) ==
  /\ At(x, u, "sorry")
  /\ apologised' = IF reported[x] THEN apologised ELSE apologised \cup {u}
  /\ Goto(x, u, "flush")
  /\ UNCHANGED <<rows, queued, sent, answers, inFlight, reported, tick, deliveries, faults>>

\* _gateway_done and _mark_processed.
Finish(x, u) ==
  /\ At(x, u, "finish")
  /\ gate' = [gate EXCEPT ![u] = IF @ = "none" THEN @ ELSE "COMPLETED"]
  /\ MarkProcessed(u)
  /\ Leave(x, u)
  /\ UNCHANGED <<old, bound, session, queued, outbox, reported, tick, deliveries, faults>>

-----------------------------------------------------------------------------
(* The engine: the master task of a session ends.  The event is stored with *)
(* the state, and handed to the subscribed relay.                          *)

Emit(s) ==
  /\ session[s] = "open"
  /\ \E end \in Terminal : session' = [session EXCEPT ![s] = end]
  /\ queued' = queued \cup {s}
  /\ UNCHANGED <<ledger, gate, old, bound, outbox, worker, inFlight, reported, tick, deliveries, faults>>

-----------------------------------------------------------------------------
(* recover(), called by the recovery tick with a new executor.             *)

\* The tick is inside _process_one; a drive has a thread of its own.
InDrive == {"drive", "flush", "pop", "errflush", "errpop", "sorry"}
Inline  == {"read", "claim", "insert", "update", "chat", "agent", "create", "plan", "bind"}

Busy == \E u \in Update : \/ worker["recovery"][u].pc \in Inline
                          \/ worker["recovery"][u] = [pc |-> "finish", s |-> None]

Stored == {s \in Session : session[s] \in Terminal}

\* Mutated form: what the deque still holds is left to it.
CandidatesUnqueued == {}

\* replay looks at every relayable event of the last day ...
Candidates == Stored \ sent

TickBegins ==
  /\ tick.phase = "sweep" /\ tick.updates = {} /\ ~Busy
  /\ tick' = [tick EXCEPT !.phase = "replay", !.events = Candidates]
  /\ reported' = [reported EXCEPT !["recovery"] = FALSE]
  /\ UNCHANGED <<rows, queued, outbox, worker, inFlight, deliveries, faults>>

\* ... and relays those without an outbox row.
Replay(s) ==
  /\ s \in tick.events
  /\ tick' = [tick EXCEPT !.events = @ \ {s}]
  /\ \/ s \notin sent /\ Relay("recovery", s) /\ UNCHANGED faults
     \/ s \in sent /\ UNCHANGED <<sent, reported, faults>>
     \/ Fault("database") /\ UNCHANGED <<sent, reported>>
  /\ UNCHANGED <<rows, queued, answers, apologised, worker, inFlight, deliveries>>

\* Mutated form: an update without a row of the gateway is not looked at.
PendingClaimed == {u \in Update : ledger[u] = "logged" /\ gate[u] # "none"}

\* process_pending selects what is not processed and not claimed.
Pending == {u \in Update : ledger[u] = "logged" /\ gate[u] \notin Claimed}

Select ==
  /\ tick.phase = "replay" /\ tick.events = {}
  /\ tick' = [tick EXCEPT !.phase = "sweep", !.updates = Pending]
  /\ UNCHANGED <<rows, queued, outbox, worker, inFlight, reported, deliveries, faults>>

\* Every executor of the tick is new: its _in_flight is empty.
Take(u) ==
  /\ tick.phase = "sweep" /\ u \in tick.updates
  /\ At("recovery", u, "idle") /\ ~Busy
  /\ tick' = [tick EXCEPT !.updates = @ \ {u}]
  /\ Look("recovery", u)
  /\ UNCHANGED <<gate, old, bound, session, queued, outbox, reported, deliveries, faults>>

-----------------------------------------------------------------------------
(* Time and faults.                                                        *)

\* Ten minutes pass since the claim was inserted; nothing refreshes the date.
ClaimAges(u) ==
  /\ Fault("age")
  /\ gate[u] # "none" /\ ~old[u]
  /\ old' = [old EXCEPT ![u] = TRUE]
  /\ UNCHANGED <<ledger, gate, bound, session, queued, outbox, worker, inFlight, reported,
                 tick, deliveries>>

\* A transaction raises: out of _process_one, or in the finally clause of a
\* drive, which gives the update back.
Raise(x, u) ==
  /\ \/ worker[x][u].pc \in Inline /\ Abandon(x, u)
     \/ At(x, u, "finish") /\ IF worker[x][u].s = None THEN Abandon(x, u) ELSE Leave(x, u)
  /\ Fault("database")
  /\ UNCHANGED <<rows, queued, outbox, reported, tick, deliveries>>

Crash ==
  /\ Fault("crash")
  /\ worker' = [x \in Executor |-> [u \in Update |-> Idle]]
  /\ inFlight' = {} /\ queued' = {} /\ tick' = Resting
  /\ reported' = [x \in Executor |-> FALSE]
  /\ UNCHANGED <<rows, outbox, deliveries>>

-----------------------------------------------------------------------------
Work(x, u) ==
  \/ ReadClaim(x, u) \/ WriteClaim(x, u)
  \/ Answer(x, u) \/ Resume(x, u) \/ Create(x, u) \/ Plan(x, u) \/ Bind(x, u)
  \/ DriveReturns(x, u)
  \/ FlushTest(x, u) \/ FlushPop(x, u) \/ FlushEmpty(x, u)
  \/ Apologise(x, u) \/ Finish(x, u)

Recover ==
  \/ TickBegins \/ (\E s \in Session : Replay(s)) \/ Select
  \/ \E u \in Update : Take(u)

Next ==
  /\ UNCHANGED kind
  /\ \/ \E u \in Update : Deliver(u) \/ Handle(u) \/ Read(u) \/ ClaimAges(u)
     \/ \E x \in Executor, u \in Update : Work(x, u) \/ DriveRaises(x, u) \/ Raise(x, u)
     \/ \E s \in Session : Emit(s)
     \/ Recover
     \/ Crash

Spec == Init /\ [][Next]_vars

\* Some thread runs as long as one can (each has finitely much to do), the tick
\* is called every ten seconds and its queries end.  The engine is not assumed
\* to finish a task.
Fairness ==
  /\ WF_vars(UNCHANGED kind /\ \E u \in Update :
                Handle(u) \/ Read(u) \/ \E x \in Executor : Work(x, u))
  /\ WF_vars(UNCHANGED kind /\ Recover)

FairSpec == Spec /\ Fairness

-----------------------------------------------------------------------------
(* Correctness.                                                            *)

\* Every variable has its type.
TypeOK ==
  /\ kind \in [Update -> Kinds]
  /\ ledger \in [Update -> {"none", "logged", "processed"}]
  /\ gate \in [Update -> {"none"} \cup Claimed]
  /\ old \in [Update -> BOOLEAN]
  /\ bound \in [Update -> Session \cup {None}]
  /\ session \in [Session -> {"none", "empty", "open"} \cup Terminal]
  /\ queued \subseteq Session /\ sent \subseteq Session
  /\ answers \in [Update -> Nat] /\ apologised \subseteq Update
  /\ worker \in [Executor -> [Update ->
       [pc : {"idle", "handle", "finish"} \cup Inline \cup InDrive, s : Session \cup {None}]]]
  /\ inFlight \subseteq Update
  /\ reported \in [Executor -> BOOLEAN]
  /\ tick \in [phase : {"replay", "sweep"}, events : SUBSET Session,
               updates : SUBSET Update]
  /\ deliveries \in Nat /\ faults \in Nat

SessionsOf(u) == {s \in Session : s[1] = u /\ session[s] # "none"}

\* Until its claim is ten minutes old an update has one answer or one session at
\* most, however often it is delivered, whatever the recovery tick selects, and
\* whenever the process dies.
ExecutedOnce ==
  \A u \in Update : old[u] \/ answers[u] + Cardinality(SessionsOf(u)) <= 1

\* The end of a task reaches the outbox as long as its chat can be found: through
\* the relay, or, if that lost it, through the replay.
EndIsRelayed ==
  \A s \in Session : (s \in Stored /\ Resolvable(s)) ~> (s \in sent \/ ~Resolvable(s))

\* A logged update is always taken up, by the thread of its delivery or by the
\* recovery tick.
LoggedIsTakenUp ==
  \A u \in Update :
    (ledger[u] = "logged" /\ gate[u] = "none") ~> (ledger[u] = "processed" \/ gate[u] # "none")
=============================================================================
