----------------------------- MODULE EventStream -----------------------------
(***************************************************************************)
(* The event pipeline: EventBus.emit and replay_after                      *)
(* (infra/event_bus.py), the WebSocket and SSE streams that replay stored  *)
(* events and then follow the bus (api/v1/realtime.py), and the pollers of *)
(* GET /events (api/v1/router.py).                                         *)
(*                                                                         *)
(* An event is fanned out to the subscribers as soon as it is inserted,    *)
(* before the transaction that inserts it commits.                         *)
(***************************************************************************)
EXTENDS Naturals, FiniteSets, Sequences, FiniteSetsExt

CONSTANTS
  Writer,      \* threads that emit inside a transaction of theirs
  Session,     \* sessions events belong to
  Ws, Sse,     \* clients that stream over WebSocket and over SSE
  Poller,      \* clients that page through GET /events
  Mine,        \* sessions the principal of a client owns, or all in local mode
  Unfiltered,  \* the clients of local mode: _owned_session_ids is None
  MaxReplay,   \* MAX_REPLAY (200)
  PageLimit,   \* limit of list_events (200)
  Limit,       \* max_events of an SSE request, 0 if unbounded
  MaxEvents,   \* bounds the events emitted
  MaxConnects, \* bounds the connections of all clients
  MaxFaults    \* bounds rollbacks, failed replays and restarts

Client == Ws \cup Sse \cup Poller

ASSUME ClientsAssumption ==
  /\ Ws \cap Sse = {} /\ (Ws \cup Sse) \cap Poller = {}
  /\ Mine \in [Client -> SUBSET Session]
  /\ Unfiltered \subseteq Client /\ \A c \in Unfiltered : Mine[c] = Session

ASSUME LimitsAssumption ==
  /\ MaxReplay \in Nat \ {0} /\ PageLimit \in Nat \ {0} /\ Limit \in [Sse -> Nat]
  /\ MaxEvents \in Nat /\ MaxConnects \in Nat /\ MaxFaults \in Nat

VARIABLES
  log,       \* committed rows of the events table
  open,      \* rows a writer has inserted in its transaction
  emitted,   \* number of emits; names the next event
  conn,      \* the handler of a client's stream
  cursor,    \* highest sequence number a client has seen
  connects,
  faults,
  got,       \* history: events a client has seen
  missable,  \* history: events a client's stream may miss, see NothingElseIsLost
  voided     \* history: numbers of events that were rolled back

server  == <<log, open, emitted>>
history == <<got, missable, voided>>
vars    == <<server, conn, cursor, connects, faults, history>>

Row == [seq : Nat, id : Nat, session : Session]

Off == [pc |-> "off", peer |-> FALSE, owned |-> {}, queue |-> <<>>, sent |-> <<>>]

Init ==
  /\ log = {} /\ open = [w \in Writer |-> {}] /\ emitted = 0
  /\ conn = [c \in Ws \cup Sse |-> Off]
  /\ cursor = [c \in Client |-> 0] /\ connects = 0 /\ faults = 0
  /\ got = [c \in Client |-> {}] /\ missable = [c \in Ws \cup Sse |-> {}] /\ voided = {}

Ids(rows) == {row.id : row \in rows}
Seqs(rows) == {row.seq : row \in rows}

\* The sessions of a client that a query finds: a session is created in one
\* transaction with its first event.
Owned(c) == Mine[c] \cap {row.session : row \in log}

\* _event_visible, with the set of sessions computed when the stream began.
Visible(c, owned, row) == c \in Unfiltered \/ row.session \in owned

-----------------------------------------------------------------------------
(* The bus.                                                                *)

\* Mutated form: the lock is not taken.
NeverLocked(w) == FALSE

\* One transaction inserts events at a time: SQLite's writer lock, or the
\* advisory lock emit takes on PostgreSQL.
Locked(w) == \E v \in Writer \ {w} : open[v] # {}

\* COALESCE(MAX(sequence), 0) + 1 inside the INSERT.
NextSequence(rows) == IF rows = {} THEN 1 ELSE Max(Seqs(rows)) + 1

\* on_event of every stream that is subscribed: call_soon_threadsafe.
FanOut(row) ==
  conn' = [c \in Ws \cup Sse |->
             IF conn[c].pc # "off" /\ Visible(c, conn[c].owned, row)
               THEN [conn[c] EXCEPT !.queue = Append(@, row)] ELSE conn[c]]

\* Sessions created since the stream began are not among the owned ones.
OwnedTooLate(c, row) ==
  conn[c].pc # "off" /\ row.session \in Mine[c] /\ ~Visible(c, conn[c].owned, row)

\* emit of a new event; a known event_id returns the stored row and does nothing.
Emit(w) ==
  /\ emitted < MaxEvents /\ ~Locked(w)
  /\ emitted' = emitted + 1
  /\ \E s \in Session :
       LET row == [seq |-> NextSequence(log \cup open[w]), id |-> emitted + 1, session |-> s] IN
       /\ open' = [open EXCEPT ![w] = @ \cup {row}]
       /\ FanOut(row)
       /\ missable' = [c \in Ws \cup Sse |->
                         IF OwnedTooLate(c, row) THEN missable[c] \cup {row.id} ELSE missable[c]]
  /\ UNCHANGED <<log, cursor, connects, faults, got, voided>>

\* session_scope ends.
Commit(w) ==
  /\ open[w] # {}
  /\ log' = log \cup open[w]
  /\ open' = [open EXCEPT ![w] = {}]
  /\ UNCHANGED <<emitted, conn, cursor, connects, faults, history>>

\* The caller raised, or its commit did: the row and its number are gone.
Rollback(w) ==
  /\ open[w] # {}
  /\ faults < MaxFaults /\ faults' = faults + 1
  /\ open' = [open EXCEPT ![w] = {}]
  /\ voided' = voided \cup Seqs(open[w])
  /\ UNCHANGED <<log, emitted, conn, cursor, connects, got, missable>>

\* replay_after: the first committed rows with higher numbers.
ReplayAfter(after, limit) ==
  LET later == {row \in log : row.seq > after}
  IN  {row \in later : Cardinality({r \in later : r.seq < row.seq}) < limit}

-----------------------------------------------------------------------------
(* The streams.                                                            *)

\* The handler subscribes before it replays.  What it can miss from now on: rows
\* that were inserted and not committed, and those beyond the page it replays.
Subscribe(c) ==
  /\ conn[c].pc = "off" /\ connects < MaxConnects
  /\ connects' = connects + 1
  /\ conn' = [conn EXCEPT ![c] = [Off EXCEPT !.pc = "subscribed", !.peer = TRUE, !.owned = Owned(c)]]
  /\ missable' = [missable EXCEPT ![c] = @ \cup Ids(UNION {open[w] : w \in Writer})
                                           \cup Ids({row \in log : row.seq > cursor[c] + MaxReplay})]
  /\ UNCHANGED <<server, cursor, faults, got, voided>>

\* ws_events up to subscribe_all; the client resumes from what it has seen.
AcceptWs(c) == c \in Ws /\ Subscribe(c)

\* generator of sse_events up to subscribe_all.
OpenSse(c) == c \in Sse /\ Subscribe(c)

\* Mutated form: what was fanned out meanwhile goes first.
FollowedByReplay(rows, queue) == queue \o rows

\* The callbacks of the bus run when the handler waits: the replay goes first.
Ahead(rows, queue) == rows \o queue

\* ORDER BY sequence.
Sorted(rows) ==
  {page \in [1..Cardinality(rows) -> rows] :
     /\ \A row \in rows : \E i \in DOMAIN page : page[i] = row
     /\ \A i, j \in DOMAIN page : i < j => page[i].seq < page[j].seq}

Replay(c) ==
  /\ conn[c].pc = "subscribed"
  /\ \E page \in Sorted({row \in ReplayAfter(cursor[c], MaxReplay) : Visible(c, conn[c].owned, row)}) :
       conn' = [conn EXCEPT ![c].pc = "live", ![c].queue = Ahead(page, @)]
  /\ UNCHANGED <<server, cursor, connects, faults, history>>

\* _drain puts the page into the queue.
DrainWs(c) == c \in Ws /\ Replay(c)

\* sse_events yields the page before it looks into the queue.
ReplaySse(c) == c \in Sse /\ Replay(c)

\* The query raises; the finally clause unsubscribes.
ReplayFails(c) ==
  /\ conn[c].pc = "subscribed"
  /\ faults < MaxFaults /\ faults' = faults + 1
  /\ conn' = [conn EXCEPT ![c] = Off]
  /\ UNCHANGED <<server, cursor, connects, history>>

Shift(h) == [h EXCEPT !.queue = Tail(@), !.sent = Append(@, Head(h.queue))]

\* The head of the queue reaches the client; the stream may end with it.
Send(c, ends) ==
  LET row == Head(conn[c].queue) IN
  /\ conn[c].pc = "live" /\ conn[c].queue # <<>> /\ conn[c].peer
  /\ conn' = [conn EXCEPT ![c] = IF ends THEN Off ELSE Shift(@)]
  /\ cursor' = [cursor EXCEPT ![c] = Max({@, row.seq})]
  /\ got' = [got EXCEPT ![c] = @ \cup {row.id}]
  /\ UNCHANGED <<server, connects, faults, missable, voided>>

FollowWs(c) == c \in Ws /\ Send(c, FALSE)

FollowSse(c) == c \in Sse /\ Send(c, Limit[c] # 0 /\ Len(conn[c].sent) + 1 >= Limit[c])

\* The client goes away, and comes back through AcceptWs or OpenSse.
Leave(c) ==
  /\ conn[c].peer
  /\ conn' = [conn EXCEPT ![c].peer = FALSE]
  /\ UNCHANGED <<server, cursor, connects, faults, history>>

\* Mutated form: without heartbeats, only a new event shows that the client left.
NoticedByEvent(c) == conn[c].queue # <<>>

\* The next frame fails, an event or a heartbeat; SSE asks is_disconnected.
Noticed(c) == TRUE

Unsubscribe(c) ==
  /\ conn[c].pc = "live" /\ ~conn[c].peer /\ Noticed(c)
  /\ conn' = [conn EXCEPT ![c] = Off]
  /\ UNCHANGED <<server, cursor, connects, faults, history>>

\* list_events: a page, then the rows of other principals are left out of it.
Poll(c) ==
  LET rows == {row \in ReplayAfter(cursor[c], PageLimit) : Visible(c, Owned(c), row)} IN
  /\ rows # {}
  /\ got' = [got EXCEPT ![c] = @ \cup Ids(rows)]
  /\ cursor' = [cursor EXCEPT ![c] = Max(Seqs(rows))]
  /\ UNCHANGED <<server, conn, connects, faults, missable, voided>>

\* The process is restarted: subscribers, queues and open transactions are gone.
Restart ==
  /\ faults < MaxFaults /\ faults' = faults + 1
  /\ conn' = [c \in Ws \cup Sse |-> Off]
  /\ open' = [w \in Writer |-> {}]
  /\ voided' = voided \cup Seqs(UNION {open[w] : w \in Writer})
  /\ UNCHANGED <<log, emitted, cursor, connects, got, missable>>

-----------------------------------------------------------------------------

Handle(c) == DrainWs(c) \/ ReplaySse(c) \/ FollowWs(c) \/ FollowSse(c) \/ Unsubscribe(c)

Next ==
  \/ \E w \in Writer : Emit(w) \/ Commit(w) \/ Rollback(w)
  \/ \E c \in Ws \cup Sse : AcceptWs(c) \/ OpenSse(c) \/ ReplayFails(c) \/ Handle(c) \/ Leave(c)
  \/ \E c \in Poller : Poll(c)
  \/ Restart

Spec == Init /\ [][Next]_vars

\* A handler is a coroutine that waits for nothing but its queue and a heartbeat.
FairSpec == Spec /\ \A c \in Ws \cup Sse : WF_vars(Handle(c))

-----------------------------------------------------------------------------
(* Properties.                                                             *)

TypeOK ==
  /\ log \subseteq Row /\ open \in [Writer -> SUBSET Row] /\ emitted \in 0..MaxEvents
  /\ conn \in [Ws \cup Sse -> [pc : {"off", "subscribed", "live"}, peer : BOOLEAN,
                               owned : SUBSET Session, queue : Seq(Row), sent : Seq(Row)]]
  /\ cursor \in [Client -> Nat] /\ connects \in 0..MaxConnects
  /\ faults \in 0..MaxFaults
  /\ got \in [Client -> SUBSET (1..MaxEvents)] /\ missable \in [Ws \cup Sse -> SUBSET (1..MaxEvents)]
  /\ voided \subseteq Nat

CaughtUp(c) == c \notin Poller /\ conn[c].pc = "live" /\ conn[c].peer /\ conn[c].queue = <<>>

\* A committed event that a client should see and that it has passed, or that a
\* stream with nothing left to send has left out.
Lost(c, row) ==
  /\ row.session \in Mine[c] /\ row.id \notin got[c]
  /\ row.seq <= cursor[c] \/ CaughtUp(c)

\* Documented (docs/DEVELOPER_GUIDE.md): "reconnects never miss events".  A poller
\* misses none, since numbers become visible in their order.  A stream misses an
\* event only if it was inserted but not committed when the stream subscribed, lay
\* beyond the page replayed, belongs to a session younger than the stream, or has
\* the number of an event that was sent and then rolled back.
NothingElseIsLost ==
  \A c \in Client : \A row \in log :
    Lost(c, row) => c \notin Poller /\ (row.id \in missable[c] \/ row.seq \in voided)

\* What a stream sends for the first time comes in the order of its numbers, unless
\* its number had been that of a rolled-back event; and nothing is sent more often
\* than once by the replay and once by the bus.
InOrder ==
  \A c \in Ws \cup Sse :
    LET sent == conn[c].sent
        Before(j) == {sent[i] : i \in 1..(j - 1)}
    IN
    /\ \A j \in DOMAIN sent :
         \/ sent[j] \in Before(j) \/ sent[j].seq \in voided
         \/ \A row \in Before(j) : row.seq < sent[j].seq
    /\ \A j \in DOMAIN sent : Cardinality({i \in DOMAIN sent : sent[i] = sent[j]}) <= 2

\* A client that has left does not stay subscribed, even if nothing happens any more.
LeaversAreDropped ==
  \A c \in Ws \cup Sse : (conn[c].pc # "off" /\ ~conn[c].peer) ~> conn[c].pc = "off"
=============================================================================
