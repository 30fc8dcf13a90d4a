------------------------------- MODULE Outbox -------------------------------
(***************************************************************************)
(* The durable delivery outbox of services/outbox.py: producers persist    *)
(* messages, drainers (the recovery tick, gateway executors and Telegram   *)
(* handler threads, each calling drain) claim and deliver them, and        *)
(* reap_stuck looks after old claims.                                      *)
(*                                                                         *)
(* Every action is one transaction or one request to Telegram.  Time is    *)
(* reduced to the two comparisons the queries make: next_attempt_at <= now *)
(* and claimed_at <= now - lease.                                          *)
(***************************************************************************)
EXTENDS Naturals, FiniteSets

CONSTANTS
  Msg,          \* identifiers of outbox rows; bounds what is ever enqueued
  Event,        \* events that may produce a message
  EventOf,      \* [Msg -> Event \cup {None}], event_id of the row
  Ephemeral,    \* rows of kind typing or progress_edit
  Drainer,      \* threads inside drain
  Producer,     \* threads inside enqueue
  Batch,        \* max_rows (50)
  MaxAttempts,  \* settings.outbox_max_attempts (5)
  Env,          \* which of EnvEvents the environment may produce
  None          \* no event

EnvEvents == {"crash",     \* the process dies and is restarted
              "database",  \* a commit raises while a result is recorded
              "token"}     \* the bot token is missing for a while

ASSUME RowsAssumption == /\ EventOf \in [Msg -> Event \cup {None}]
                         /\ Ephemeral \subseteq Msg
                         /\ None \notin Event
ASSUME LimitsAssumption == Batch \in Nat \ {0} /\ MaxAttempts \in Nat \ {0}
ASSUME EnvAssumption == Env \subseteq EnvEvents

VARIABLES
  status,    \* delivery_outbox.state, "none" before the row exists
  attempts,  \* delivery_outbox.attempts
  due,       \* next_attempt_at has passed
  claimAge,  \* claimed_at: null, within the lease, or older than the lease
  drainer,   \* locals of drain: phase, rows still to do, row at hand
  producer,  \* event whose absence an enqueue has found, or None
  confirmed  \* history: messages whose acceptance by Telegram a drainer has seen

row  == <<status, attempts, due, claimAge>>
vars == <<status, attempts, due, claimAge, drainer, producer, confirmed>>

Idle == [phase |-> "idle", todo |-> {}, tries |-> [m \in Msg |-> 0], at |-> None]

Init == /\ status    = [m \in Msg |-> "none"]
        /\ attempts  = [m \in Msg |-> 0]
        /\ due       = [m \in Msg |-> FALSE]
        /\ claimAge  = [m \in Msg |-> "null"]
        /\ drainer   = [d \in Drainer |-> Idle]
        /\ producer  = [p \in Producer |-> None]
        /\ confirmed = {}

-----------------------------------------------------------------------------
(* enqueue.                                                                *)

Insert(m) ==
  /\ status[m] = "none"
  /\ status' = [status EXCEPT ![m] = "PENDING"]
  /\ due'    = [due EXCEPT ![m] = TRUE]
  /\ UNCHANGED <<attempts, claimAge, drainer, confirmed>>

\* A message of no event is inserted as it is.
EnqueuePlain(m) == EventOf[m] = None /\ Insert(m) /\ UNCHANGED producer

Known(e) == \E m \in Msg : status[m] # "none" /\ EventOf[m] = e

\* An event's message is looked up first; the enqueue ends if it is there.
\* (No unique index backs the look-up.)
LookUp(p, e) ==
  /\ producer[p] = None
  /\ ~Known(e)
  /\ producer' = [producer EXCEPT ![p] = e]
  /\ UNCHANGED <<row, drainer, confirmed>>

EnqueueEvent(p, m) ==
  /\ producer[p] # None /\ EventOf[m] = producer[p]
  /\ Insert(m)
  /\ producer' = [producer EXCEPT ![p] = None]

-----------------------------------------------------------------------------
(* drain: claim_batch, then deliver_one for each row.                      *)

\* Mutated forms: a failed row is not taken up again; a taken one is.
ClaimStatesFirst  == {"PENDING"}
ClaimStatesAgain  == {"PENDING", "RETRY", "SENDING"}

ClaimStates == {"PENDING", "RETRY"}

Claimable == {m \in Msg : status[m] \in ClaimStates /\ due[m]}

\* The rows are read with the attempts they have now.  Each is taken by a
\* conditional update: claimers that select the same rows share them out, and
\* one that gets none is done.
Claim(d) ==
  /\ drainer[d].phase = "idle"
  /\ \E rows \in SUBSET Claimable :
       /\ rows # {} /\ Cardinality(rows) <= Batch
       /\ status'   = [m \in Msg |-> IF m \in rows THEN "SENDING" ELSE status[m]]
       /\ due'      = [m \in Msg |-> due[m] /\ m \notin rows]
       /\ claimAge' = [m \in Msg |-> IF m \in rows THEN "recent" ELSE claimAge[m]]
       /\ drainer'  = [drainer EXCEPT ![d] =
            [Idle EXCEPT !.phase = "next", !.todo = rows,
                         !.tries = [m \in Msg |-> IF m \in rows THEN attempts[m] ELSE 0]]]
  /\ UNCHANGED <<attempts, producer, confirmed>>

\* The drainer takes up its next row, if any.
Rest(d, m) ==
  LET left == drainer[d].todo \ {m}
  IN drainer' = [drainer EXCEPT ![d] = IF left = {} THEN Idle
                                       ELSE [@ EXCEPT !.phase = "next", !.todo = left,
                                                      !.at = None]]

\* Without a token deliver_one returns at once; the row stays as it is.
Skip(d, m) ==
  /\ "token" \in Env
  /\ drainer[d].phase = "next" /\ m \in drainer[d].todo
  /\ Rest(d, m)
  /\ UNCHANGED <<row, producer, confirmed>>

Responses == {"ok",    \* accepted and answered
              "error"} \* refused, or the answer is lost

\* Mutated form: every failure is forgiven.
ForgiveAll(m) == TRUE

\* A failed typing action or progress edit counts as delivered.
Forgive(m) == m \in Ephemeral

\* One request to Telegram.
Post(d, m, response) ==
  /\ drainer[d].phase = "next" /\ m \in drainer[d].todo
  /\ LET good == response = "ok" \/ Forgive(m)
     IN drainer' = [drainer EXCEPT ![d].at = m,
                                   ![d].phase = IF good THEN "mark" ELSE "advance"]
  /\ confirmed' = IF response = "ok" THEN confirmed \cup {m} ELSE confirmed
  /\ UNCHANGED <<row, producer>>

\* _mark_delivered.
Mark(d) ==
  /\ drainer[d].phase = "mark"
  /\ LET m    == drainer[d].at
         open == status[m] \in {"PENDING", "RETRY", "SENDING"}
     IN /\ status'   = [status EXCEPT ![m] = IF open THEN "DELIVERED" ELSE @]
        /\ claimAge' = [claimAge EXCEPT ![m] = IF open THEN "null" ELSE @]
        /\ Rest(d, m)
  /\ UNCHANGED <<attempts, due, producer, confirmed>>

\* Mutated form: one attempt more.
VerdictLater(tries) == IF tries > MaxAttempts THEN "DEAD" ELSE "RETRY"

Verdict(tries) == IF tries >= MaxAttempts THEN "DEAD" ELSE "RETRY"

\* _advance_failure, on the attempts the row was claimed with; it does not ask
\* what became of the row, and claimed_at stays.
Advance(d) ==
  /\ drainer[d].phase = "advance"
  /\ LET m     == drainer[d].at
         tries == drainer[d].tries[m] + 1
     IN /\ attempts' = [attempts EXCEPT ![m] = tries]
        /\ status'   = [status EXCEPT ![m] = Verdict(tries)]
        /\ due'      = [due EXCEPT ![m] = FALSE]
        /\ Rest(d, m)
  /\ UNCHANGED <<claimAge, producer, confirmed>>

\* Recording the result raises: the exception ends the drain, and with it the
\* rest of its batch.
Break(d) ==
  /\ "database" \in Env
  /\ drainer[d].phase \in {"mark", "advance"}
  /\ drainer' = [drainer EXCEPT ![d] = Idle]
  /\ UNCHANGED <<row, producer, confirmed>>

-----------------------------------------------------------------------------
(* Time, reaping, crashes.                                                 *)

\* The backoff of a failed row elapses.
FallDue(m) ==
  /\ status[m] = "RETRY" /\ ~due[m]
  /\ due' = [due EXCEPT ![m] = TRUE]
  /\ UNCHANGED <<status, attempts, claimAge, drainer, producer, confirmed>>

\* A claim outlives outbox_lease_seconds, its drainer alive or not.
ClaimAges(m) ==
  /\ claimAge[m] = "recent"
  /\ claimAge' = [claimAge EXCEPT ![m] = "old"]
  /\ UNCHANGED <<status, attempts, due, drainer, producer, confirmed>>

Stuck == {m \in Msg : status[m] \in {"PENDING", "SENDING", "RETRY"} /\ claimAge[m] = "old"}

\* Mutated form: the rows are released for another claim.
StatusReleased(m) == IF m \in Stuck THEN "RETRY" ELSE status[m]

\* reap_stuck touches claimed_at and next_attempt_at only.
StatusReaped(m) == status[m]

ReapStuck ==
  /\ Stuck # {}
  /\ status'   = [m \in Msg |-> StatusReaped(m)]
  /\ claimAge' = [m \in Msg |-> IF m \in Stuck THEN "null" ELSE claimAge[m]]
  /\ due'      = [m \in Msg |-> due[m] \/ m \in Stuck]
  /\ UNCHANGED <<attempts, drainer, producer, confirmed>>

Crash ==
  /\ "crash" \in Env
  /\ \/ \E d \in Drainer : drainer[d].phase # "idle"
     \/ \E p \in Producer : producer[p] # None
  /\ drainer' = [d \in Drainer |-> Idle]
  /\ producer' = [p \in Producer |-> None]
  /\ UNCHANGED <<row, confirmed>>

-----------------------------------------------------------------------------
DeliverStep(d) ==
  \/ \E m \in Msg, response \in Responses : Post(d, m, response)
  \/ Mark(d) \/ Advance(d)

Produce ==
  \/ \E m \in Msg : EnqueuePlain(m)
  \/ \E p \in Producer, e \in Event : LookUp(p, e)
  \/ \E p \in Producer, m \in Msg : EnqueueEvent(p, m)

Next ==
  \/ Produce
  \/ \E d \in Drainer : Claim(d) \/ DeliverStep(d) \/ Break(d)
  \/ \E d \in Drainer, m \in Msg : Skip(d, m)
  \/ \E m \in Msg : FallDue(m) \/ ClaimAges(m)
  \/ ReapStuck
  \/ Crash

Spec == Init /\ [][Next]_vars

\* drain is called every ten seconds, its threads run, time passes, and the
\* recovery sweep reaps.
Fairness ==
  /\ WF_vars(\E d \in Drainer : Claim(d))
  /\ \A d \in Drainer : WF_vars(DeliverStep(d))
  /\ \A m \in Msg : WF_vars(FallDue(m)) /\ WF_vars(ClaimAges(m))
  /\ WF_vars(ReapStuck)

FairSpec == Spec /\ Fairness

-----------------------------------------------------------------------------
(* Correctness.                                                            *)

\* Every variable has its type.
TypeOK ==
  /\ status \in [Msg -> {"none", "PENDING", "SENDING", "RETRY", "DELIVERED", "DEAD"}]
  /\ attempts \in [Msg -> Nat]
  /\ due \in [Msg -> BOOLEAN]
  /\ claimAge \in [Msg -> {"null", "recent", "old"}]
  /\ drainer \in [Drainer -> [phase : {"idle", "next", "mark", "advance"},
                              todo : SUBSET Msg, tries : [Msg -> Nat],
                              at : Msg \cup {None}]]
  /\ producer \in [Producer -> Event \cup {None}]
  /\ confirmed \subseteq Msg

\* A message is in the hands of one drainer at most, which nothing takes it from:
\* not another drain, not the reaper, not a restart.
OneHolder ==
  \A d \in Drainer : \A m \in drainer[d].todo :
    /\ status[m] = "SENDING"
    /\ \A e \in Drainer \ {d} : m \notin drainer[e].todo

\* A message that a drainer has seen accepted is never up for delivery again,
\* even if the record of it failed or the process died.
ConfirmedOnce ==
  \A m \in confirmed : /\ status[m] \in {"SENDING", "DELIVERED"}
                       /\ \A d \in Drainer : m \in drainer[d].todo => drainer[d].at = m

\* What counts as delivered has been accepted, or may be missed.
DeliveredWasAccepted ==
  \A m \in Msg \ Ephemeral : status[m] = "DELIVERED" => m \in confirmed

\* The outbox implements its contract.
Contract == INSTANCE OutboxContract WITH status <- status, attempts <- attempts
ContractHolds == Contract!Spec

\* A waiting message is always taken up, the first time and after a failure,
\* whatever crashes meanwhile.
WaitingIsTaken ==
  \A m \in Msg : (status[m] \in {"PENDING", "RETRY"}) ~> (status[m] \notin {"PENDING", "RETRY"})
=============================================================================
