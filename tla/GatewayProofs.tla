---------------------------- MODULE GatewayProofs ----------------------------
(***************************************************************************)
(* Theorems about Gateway, for any number of updates, deliveries, sessions *)
(* and faults.                                                             *)
(***************************************************************************)
EXTENDS Gateway, FiniteSetTheorems, TLAPS

Pcs    == {"idle", "handle", "finish"} \cup Inline \cup InDrive
Locals == [pc : Pcs, s : Session \cup {None}]

-----------------------------------------------------------------------------
(* How a step moves a worker.                                              *)

Put(x, u, w) == worker' = [worker EXCEPT ![x][u] = w]

\* The locals of one worker, and of no other, are replaced.
Replaced(x, u, w) ==
  /\ worker' \in [Executor -> [Update -> Locals]]
  /\ worker'[x][u] = w
  /\ \A y \in Executor, v \in Update : y # x \/ v # u => worker'[y][v] = worker[y][v]

\* A worker that is given new locals is the only one to change.
LEMMA PutReplaces ==
  ASSUME TypeOK, NEW x \in Executor, NEW u \in Update, NEW w \in Locals, Put(x, u, w)
  PROVE  Replaced(x, u, w)
<1> DEFINE mine == [worker[x] EXCEPT ![u] = w]
<1>1. worker \in [Executor -> [Update -> Locals]]
  BY DEF TypeOK, Locals, Pcs
<1>2. worker[x] \in [Update -> Locals]
  BY <1>1
<1>3. mine \in [Update -> Locals] /\ mine[u] = w /\ \A v \in Update \ {u} : mine[v] = worker[x][v]
  BY <1>2
<1>4. worker' = [worker EXCEPT ![x] = mine]
  BY DEF Put
<1> HIDE DEF mine
<1>5. worker' \in [Executor -> [Update -> Locals]]
  BY <1>1, <1>3, <1>4
<1>6. worker'[x] = mine /\ \A y \in Executor \ {x} : worker'[y] = worker[y]
  BY <1>1, <1>4
<1> QED BY <1>3, <1>5, <1>6 DEF Replaced

\* Going somewhere keeps the session.
LEMMA GotoReplaces ==
  ASSUME TypeOK, NEW x \in Executor, NEW u \in Update, NEW pc \in Pcs, Goto(x, u, pc)
  PROVE  Replaced(x, u, [pc |-> pc, s |-> worker[x][u].s])
<1> DEFINE w == [worker[x][u] EXCEPT !.pc = pc]
<1>1. worker[x][u] \in Locals
  BY DEF TypeOK, Locals, Pcs
<1>2. w \in Locals /\ w = [pc |-> pc, s |-> worker[x][u].s]
  BY <1>1 DEF Locals
<1>3. Put(x, u, w)
  BY DEF Goto, Put
<1> HIDE DEF w
<1>4. Replaced(x, u, w)
  BY <1>2, <1>3, PutReplaces
<1> QED BY <1>2, <1>4

\* So does leaving, to idle.
LEMMA IdleReplaces ==
  ASSUME TypeOK, NEW x \in Executor, NEW u \in Update, Leave(x, u) \/ Abandon(x, u)
  PROVE  Replaced(x, u, Idle) /\ inFlight' \subseteq Update
<1>1. Idle \in Locals
  BY DEF Idle, Locals, Pcs
<1>2. Put(x, u, Idle)
  BY DEF Leave, Abandon, Put
<1>3. inFlight' \subseteq Update
  BY DEF Leave, Abandon, TypeOK
<1> QED BY <1>1, <1>2, <1>3, PutReplaces

-----------------------------------------------------------------------------
(* Types.                                                                  *)

\* The types of all variables but those of the workers.
RestOK ==
  /\ kind \in [Update -> Kinds]
  /\ ledger \in [Update -> {"none", "logged", "processed"}]
  /\ gate \in [Update -> {"none"} \cup Claimed]
  /\ old \in [Update -> BOOLEAN]
  /\ bound \in [Update -> Session \cup {None}]
  /\ session \in [Session -> {"none", "empty", "open"} \cup Terminal]
  /\ queued \subseteq Session /\ sent \subseteq Session
  /\ answers \in [Update -> Nat] /\ apologised \subseteq Update
  /\ reported \in [Executor -> BOOLEAN]
  /\ tick \in [phase : {"replay", "sweep"}, events : SUBSET Session, updates : SUBSET Update]
  /\ deliveries \in Nat /\ faults \in Nat

WorkersOK == worker \in [Executor -> [Update -> Locals]] /\ inFlight \subseteq Update

LEMMA TypeParts == TypeOK <=> RestOK /\ WorkersOK
BY DEF TypeOK, RestOK, WorkersOK, Locals, Pcs

\* A worker that is alone to move, and takes no update in flight, keeps the types.
LEMMA GotoType ==
  ASSUME TypeOK, NEW x \in Executor, NEW u \in Update, NEW pc \in Pcs, Goto(x, u, pc),
         inFlight' = inFlight \/ inFlight' = inFlight \cup {u}
  PROVE  WorkersOK'
<1>1. Replaced(x, u, [pc |-> pc, s |-> worker[x][u].s])
  BY GotoReplaces
<1> QED BY <1>1 DEF Replaced, WorkersOK, TypeOK

LEMMA IdleType ==
  ASSUME TypeOK, NEW x \in Executor, NEW u \in Update, Leave(x, u) \/ Abandon(x, u)
  PROVE  WorkersOK'
BY IdleReplaces DEF Replaced, WorkersOK

LEMMA PutType ==
  ASSUME TypeOK, NEW x \in Executor, NEW u \in Update, NEW w \in Locals, Put(x, u, w),
         UNCHANGED inFlight
  PROVE  WorkersOK'
<1>1. Replaced(x, u, w)
  BY PutReplaces
<1> QED BY <1>1 DEF Replaced, WorkersOK, TypeOK

\* Looking at an update writes at most its ledger row.
LEMMA LookType ==
  ASSUME TypeOK, NEW x \in Executor, NEW u \in Update, Look(x, u)
  PROVE  WorkersOK' /\ ledger' \in [Update -> {"none", "logged", "processed"}]
<1>1. WorkersOK'
  <2>1. "claim" \in Pcs
    BY DEF Pcs, Inline
  <2> QED BY <2>1, GotoType, IdleType DEF Look
<1> QED BY <1>1 DEF Look, MarkProcessed, TypeOK

\* Every step of an executor or of the poller keeps the types.
LEMMA WorkTypes ==
  ASSUME TypeOK, UNCHANGED kind, NEW x \in Executor, NEW u \in Update,
         Work(x, u) \/ DriveRaises(x, u) \/ Raise(x, u)
  PROVE  TypeOK'
<1> USE DEF rows, outbox
<1> SUFFICES RestOK' /\ WorkersOK'
  <2>1. RestOK' /\ WorkersOK' => TypeOK'
    BY TypeParts, PTL
  <2> QED BY <2>1
<1>1. \A pc \in Inline \cup InDrive \cup {"finish"} : pc \in Pcs
  BY DEF Pcs
<1>2. \A f : Fault(f) => faults' \in Nat
  BY DEF Fault, TypeOK
<1>3. ASSUME NEW pc \in Inline \cup InDrive \cup {"finish"}, Goto(x, u, pc), UNCHANGED inFlight
      PROVE  WorkersOK'
  BY <1>1, <1>3, GotoType
<1>4. worker[x][u] \in Locals
  BY DEF TypeOK, Locals, Pcs
<1>5. CASE ReadClaim(x, u)
  <2>1. WorkersOK'
    BY <1>3, <1>5, IdleType DEF ReadClaim, Inline
  <2> QED BY <1>5, <2>1 DEF ReadClaim, TypeOK, RestOK
<1>6. CASE WriteClaim(x, u)
  <2>1. WorkersOK'
    BY <1>3, <1>6, IdleType DEF WriteClaim, Inline
  <2> QED BY <1>6, <2>1 DEF WriteClaim, TypeOK, RestOK, Claimed
<1>7. CASE Answer(x, u)
  <2>1. WorkersOK'
    BY <1>3, <1>7 DEF Answer
  <2> QED BY <1>7, <2>1 DEF Answer, TypeOK, RestOK
<1>8. CASE Resume(x, u)
  <2>1. PICK w \in {[pc |-> "create", s |-> None], [pc |-> "finish", s |-> None],
                    [pc |-> "drive", s |-> bound[u]]} : Put(x, u, w)
    BY <1>8 DEF Resume, Put
  <2>2. w \in Locals
    BY DEF Locals, Pcs, Inline, InDrive, TypeOK
  <2>3. reported' \in [Executor -> BOOLEAN]
    BY <1>8 DEF Resume, ResetReport, TypeOK
  <2>4. WorkersOK'
    BY <1>8, <2>1, <2>2, PutType DEF Resume
  <2> QED BY <1>8, <2>3, <2>4 DEF Resume, TypeOK, RestOK
<1>9. CASE Create(x, u)
  <2>1. PICK i \in 1..MaxSessions :
           /\ session' = [session EXCEPT ![<<u, i>>] = "empty"]
           /\ Put(x, u, [pc |-> "plan", s |-> <<u, i>>])
    BY <1>9 DEF Create, Put
  <2>2. [pc |-> "plan", s |-> <<u, i>>] \in Locals
    BY DEF Locals, Pcs, Inline, Session
  <2>3. WorkersOK'
    BY <1>9, <2>1, <2>2, PutType DEF Create
  <2> QED BY <1>9, <2>1, <2>3 DEF Create, TypeOK, RestOK
<1>10. CASE Plan(x, u)
  <2>1. WorkersOK'
    BY <1>3, <1>10 DEF Plan, Inline
  <2> QED BY <1>10, <2>1 DEF Plan, TypeOK, RestOK
<1>11. CASE Bind(x, u)
  <2>1. WorkersOK'
    BY <1>3, <1>11 DEF Bind, InDrive
  <2>2. worker[x][u].s \in Session \cup {None}
    BY <1>4 DEF Locals
  <2>3. reported' \in [Executor -> BOOLEAN]
    BY <1>11 DEF Bind, ResetReport, TypeOK
  <2> QED BY <1>11, <2>1, <2>2, <2>3 DEF Bind, TypeOK, RestOK, Claimed
<1>12. CASE DriveReturns(x, u) \/ DriveRaises(x, u)
  <2>1. WorkersOK'
    BY <1>3, <1>12 DEF DriveReturns, DriveRaises, InDrive
  <2> QED BY <1>2, <1>12, <2>1 DEF DriveReturns, DriveRaises, TypeOK, RestOK
<1>13. CASE FlushTest(x, u)
  <2>1. WorkersOK'
    BY <1>3, <1>13 DEF FlushTest, InDrive, After
  <2> QED BY <1>13, <2>1 DEF FlushTest, TypeOK, RestOK
<1>14. CASE FlushPop(x, u)
  <2>1. WorkersOK'
    BY <1>3, <1>14 DEF FlushPop, InDrive
  <2>2. PICK s \in queued : \/ Relay(x, s) /\ UNCHANGED faults
                            \/ Fault("database") /\ UNCHANGED <<sent, reported>>
    BY <1>14 DEF FlushPop
  <2>3. faults' \in Nat /\ sent' \subseteq Session /\ reported' \in [Executor -> BOOLEAN]
    BY <1>2, <2>2 DEF Relay, TypeOK
  <2> QED BY <1>14, <2>1, <2>3 DEF FlushPop, TypeOK, RestOK
<1>15. CASE FlushEmpty(x, u)
  <2>1. WorkersOK'
    BY <1>3, <1>15, IdleType DEF FlushEmpty, InDrive
  <2> QED BY <1>15, <2>1 DEF FlushEmpty, TypeOK, RestOK
<1>16. CASE Apologise(x, u)
  <2>1. WorkersOK'
    BY <1>3, <1>16 DEF Apologise, InDrive
  <2> QED BY <1>16, <2>1 DEF Apologise, TypeOK, RestOK
<1>17. CASE Finish(x, u)
  <2>1. WorkersOK'
    BY <1>17, IdleType DEF Finish
  <2> QED BY <1>17, <2>1 DEF Finish, MarkProcessed, TypeOK, RestOK, Claimed
<1>18. CASE Raise(x, u)
  <2>1. WorkersOK'
    BY <1>18, IdleType DEF Raise
  <2> QED BY <1>2, <1>18, <2>1 DEF Raise, TypeOK, RestOK
<1> QED BY <1>5, <1>6, <1>7, <1>8, <1>9, <1>10, <1>11, <1>12, <1>13, <1>14, <1>15, <1>16, <1>17,
           <1>18 DEF Work

\* Every step keeps every variable within its type.
THEOREM TypeCorrect == Spec => []TypeOK
<1> USE DEF rows, outbox
<1>1. Init => TypeOK
  <2> SUFFICES ASSUME Init PROVE TypeOK
    OBVIOUS
  <2>1. Idle \in Locals
    BY DEF Idle, Locals, Pcs
  <2>2. WorkersOK
    BY <2>1 DEF Init, WorkersOK
  <2>3. RestOK
    BY DEF Init, Calm, RestOK, Resting
  <2> QED BY <2>2, <2>3, TypeParts
<1>2. TypeOK /\ [Next]_vars => TypeOK'
  <2> SUFFICES ASSUME TypeOK, [Next]_vars PROVE RestOK' /\ WorkersOK'
    BY TypeParts, PTL
  <2>1. ASSUME TypeOK' PROVE RestOK' /\ WorkersOK'
    BY <2>1, TypeParts, PTL
  <2>2. \A f : Fault(f) => faults' \in Nat
    BY DEF Fault, TypeOK
  <2>3. CASE UNCHANGED vars
    BY <2>3 DEF vars, TypeOK, RestOK, WorkersOK, Locals, Pcs
  <2>4. ASSUME NEW u \in Update, Deliver(u), UNCHANGED kind PROVE RestOK' /\ WorkersOK'
    <3>1. "service" \in Executor /\ {"read", "handle"} \subseteq Pcs
      BY DEF Executor, Pcs, Inline
    <3>2. WorkersOK'
      <4>1. CASE UNCHANGED <<worker, inFlight>>
        BY <4>1, TypeParts DEF WorkersOK
      <4> QED BY <2>4, <3>1, <4>1, GotoType DEF Deliver
    <3> QED BY <2>4, <3>2 DEF Deliver, TypeOK, RestOK
  <2>5. ASSUME NEW u \in Update, Handle(u), UNCHANGED kind PROVE RestOK' /\ WorkersOK'
    <3>1. WorkersOK'
      BY <2>5, IdleType DEF Handle, Executor
    <3> QED BY <2>5, <3>1 DEF Handle, MarkProcessed, TypeOK, RestOK
  <2>6. ASSUME NEW u \in Update, Read(u), UNCHANGED kind PROVE RestOK' /\ WorkersOK'
    <3>1. WorkersOK' /\ ledger' \in [Update -> {"none", "logged", "processed"}]
      BY <2>6, LookType DEF Read, Executor
    <3> QED BY <2>6, <3>1 DEF Read, TypeOK, RestOK
  <2>7. ASSUME NEW u \in Update, ClaimAges(u), UNCHANGED kind PROVE RestOK' /\ WorkersOK'
    <3>1. WorkersOK'
      BY <2>7, TypeParts DEF ClaimAges, WorkersOK
    <3> QED BY <2>2, <2>7, <3>1 DEF ClaimAges, TypeOK, RestOK
  <2>8. ASSUME NEW s \in Session, Emit(s), UNCHANGED kind PROVE RestOK' /\ WorkersOK'
    <3>1. WorkersOK'
      BY <2>8, TypeParts DEF Emit, WorkersOK
    <3> QED BY <2>8, <3>1 DEF Emit, TypeOK, RestOK
  <2>9. CASE TickBegins /\ UNCHANGED kind
    <3>1. WorkersOK'
      BY <2>9, TypeParts DEF TickBegins, WorkersOK
    <3>2. tick' = [phase |-> "replay", events |-> Candidates, updates |-> tick.updates]
      BY <2>9 DEF TickBegins, TypeOK
    <3>3. Candidates \subseteq Session
      BY DEF Candidates, Stored
    <3> QED BY <2>9, <3>1, <3>2, <3>3 DEF TickBegins, TypeOK, RestOK
  <2>10. ASSUME NEW s \in Session, Replay(s), UNCHANGED kind PROVE RestOK' /\ WorkersOK'
    <3>1. WorkersOK'
      BY <2>10, TypeParts DEF Replay, WorkersOK
    <3>2. tick' = [phase |-> tick.phase, events |-> tick.events \ {s}, updates |-> tick.updates]
      BY <2>10 DEF Replay, TypeOK
    <3>3. sent' \subseteq Session /\ reported' \in [Executor -> BOOLEAN] /\ faults' \in Nat
      BY <2>2, <2>10 DEF Replay, Relay, TypeOK
    <3> QED BY <2>10, <3>1, <3>2, <3>3 DEF Replay, TypeOK, RestOK
  <2>11. CASE Select /\ UNCHANGED kind
    <3>1. WorkersOK'
      BY <2>11, TypeParts DEF Select, WorkersOK
    <3>2. tick' = [phase |-> "sweep", events |-> tick.events, updates |-> Pending]
      BY <2>11 DEF Select, TypeOK
    <3>3. Pending \subseteq Update
      BY DEF Pending
    <3> QED BY <2>11, <3>1, <3>2, <3>3 DEF Select, TypeOK, RestOK
  <2>12. ASSUME NEW u \in Update, Take(u), UNCHANGED kind PROVE RestOK' /\ WorkersOK'
    <3>1. WorkersOK' /\ ledger' \in [Update -> {"none", "logged", "processed"}]
      BY <2>12, LookType DEF Take, Executor
    <3>2. tick' = [phase |-> tick.phase, events |-> tick.events, updates |-> tick.updates \ {u}]
      BY <2>12 DEF Take, TypeOK
    <3> QED BY <2>12, <3>1, <3>2 DEF Take, TypeOK, RestOK
  <2>13. CASE Crash /\ UNCHANGED kind
    <3>1. Idle \in Locals
      BY DEF Idle, Locals, Pcs
    <3>2. WorkersOK'
      BY <2>13, <3>1 DEF Crash, WorkersOK
    <3> QED BY <2>2, <2>13, <3>2 DEF Crash, Resting, TypeOK, RestOK
  <2> QED BY <2>1, <2>3, <2>4, <2>5, <2>6, <2>7, <2>8, <2>9, <2>10, <2>11, <2>12, <2>13, WorkTypes
          DEF Next, Recover
<1> QED BY <1>1, <1>2, PTL DEF Spec

-----------------------------------------------------------------------------
(* An update is executed once while its claim is young.                    *)

\* Where a worker is before it has claimed, between the claim and what comes of
\* it, and after that.
Before   == {"idle", "handle", "read", "claim", "insert"}
Starting == {"chat", "agent", "create"}
Later    == {"plan", "bind", "finish"} \cup InDrive

Unused(u) == answers[u] = 0 /\ SessionsOf(u) = {}

\* A young claim has one taker: as long as nothing is claimed nobody is past the
\* claim, and whoever is about to answer or to create a session is alone and has
\* found neither an answer nor a session.
Once(u) ==
  /\ gate[u] = "none" => Unused(u) /\ \A x \in Executor : worker[x][u].pc \in Before
  /\ \A x \in Executor : worker[x][u].pc # "update"
  /\ \A x \in Executor : worker[x][u].pc \in Starting =>
       Unused(u) /\ \A y \in Executor \ {x} : worker[y][u].pc \in Before
  /\ answers[u] + Cardinality(SessionsOf(u)) <= 1

\* What is planned has been created.
Planned ==
  \A x \in Executor, u \in Update :
    At(x, u, "plan") => worker[x][u].s \in Session /\ session[worker[x][u].s] # "none"

OnceInv == TypeOK /\ Planned /\ \A u \in Update : old[u] \/ Once(u)

\* Moves that bring nobody nearer to an answer or a session.
MovesOn(p, q) ==
  \/ p = q \/ q \in Before
  \/ p \notin Before /\ q \in Later
  \/ p = "agent" /\ q = "create"

SameSessions == \A s \in Session : session'[s] = "none" <=> session[s] = "none"

\* A step that leaves the claim of u, its answers and its sessions alone.
Still(u) ==
  /\ gate'[u] = "none" <=> gate[u] = "none"
  /\ answers'[u] = answers[u] /\ SessionsOf(u)' = SessionsOf(u)
  /\ \A x \in Executor : MovesOn(worker[x][u].pc, worker'[x][u].pc)

LEMMA StillKeeps ==
  ASSUME NEW u \in Update, Once(u), Still(u)
  PROVE  Once(u)'
<1>1. (Unused(u) => Unused(u)') /\ (answers[u] + Cardinality(SessionsOf(u)) <= 1)'
  BY DEF Still, Unused, Once
<1>2. \A x \in Executor : worker[x][u].pc \in Before => worker'[x][u].pc \in Before
  BY DEF Still, MovesOn, Before
<1>3. \A x \in Executor : worker'[x][u].pc # "update"
  BY DEF Still, MovesOn, Before, Later, InDrive, Once
<1>4. \A x \in Executor : worker'[x][u].pc \in Starting => worker[x][u].pc \in Starting
  BY DEF Still, MovesOn, Before, Later, InDrive, Starting
<1>5. gate'[u] = "none" => gate[u] = "none"
  BY DEF Still
<1> QED BY <1>1, <1>2, <1>3, <1>4, <1>5 DEF Once

LEMMA SessionsStay ==
  ASSUME SameSessions, NEW u \in Update
  PROVE  SessionsOf(u)' = SessionsOf(u)
BY DEF SameSessions, SessionsOf

\* If one worker moves, every update whose rows are left alone is still.
LEMMA OneMoves ==
  ASSUME NEW x \in Executor, NEW u \in Update, NEW w \in Locals, Replaced(x, u, w),
         SameSessions, NEW v \in Update, gate'[v] = gate[v], answers'[v] = answers[v],
         v = u => MovesOn(worker[x][u].pc, w.pc)
  PROVE  Still(v)
<1>1. \A y \in Executor : MovesOn(worker[y][v].pc, worker'[y][v].pc)
  BY DEF Replaced, MovesOn
<1> QED BY <1>1, SessionsStay DEF Still

\* A worker is not planning afterwards, or plans what exists.
LEMMA PlannedKept ==
  ASSUME Planned, NEW x \in Executor, NEW u \in Update, NEW w \in Locals, Replaced(x, u, w),
         w.pc = "plan" => w.s \in Session /\ session'[w.s] # "none",
         \A s \in Session : session[s] # "none" => session'[s] # "none"
  PROVE  Planned'
<1> SUFFICES ASSUME NEW y \in Executor, NEW v \in Update, worker'[y][v].pc = "plan"
             PROVE  worker'[y][v].s \in Session /\ session'[worker'[y][v].s] # "none"
  BY DEF Planned, At
<1>1. CASE y = x /\ v = u
  BY <1>1 DEF Replaced
<1>2. CASE ~(y = x /\ v = u)
  <2>1. worker'[y][v] = worker[y][v]
    BY <1>2 DEF Replaced
  <2> QED BY <2>1 DEF Planned, At
<1> QED BY <1>1, <1>2

\* A worker that moves on, with no row of consequence written.
LEMMA OnlyMoves ==
  ASSUME OnceInv, NEW x \in Executor, NEW u \in Update, NEW w \in Locals, Replaced(x, u, w),
         w.pc # "plan", SameSessions, UNCHANGED <<gate, answers, old>>,
         ~old[u] => MovesOn(worker[x][u].pc, w.pc)
  PROVE  Planned' /\ \A v \in Update : old'[v] \/ Once(v)'
<1>1. Planned'
  BY PlannedKept DEF OnceInv, SameSessions
<1>2. \A v \in Update : old[v] \/ Still(v)
  BY OneMoves
<1> QED BY <1>1, <1>2, StillKeeps DEF OnceInv

\* The executors' steps but those that write the claim, answer, or create, plan,
\* bind or finish a session.
LEMMA QuietWork ==
  ASSUME OnceInv, NEW x \in Executor, NEW u \in Update,
         \/ ReadClaim(x, u) \/ Resume(x, u) \/ DriveReturns(x, u) \/ DriveRaises(x, u)
         \/ FlushTest(x, u) \/ FlushPop(x, u) \/ FlushEmpty(x, u) \/ Apologise(x, u)
         \/ Raise(x, u)
  PROVE  Planned' /\ \A v \in Update : old'[v] \/ Once(v)'
<1> USE DEF rows, outbox
<1>1. TypeOK /\ (old[u] \/ Once(u))
  BY DEF OnceInv
<1>2. SameSessions /\ UNCHANGED <<gate, answers, old>>
  BY DEF ReadClaim, Resume, DriveReturns, DriveRaises, FlushTest, FlushPop, FlushEmpty,
         Apologise, Raise, SameSessions
<1>3. worker[x][u] \in Locals
  BY <1>1 DEF TypeOK, Locals, Pcs
<1>4. \A pc \in Inline \cup InDrive \cup {"finish"} : pc \in Pcs
  BY DEF Pcs
<1>5. Idle \in Locals /\ Idle.pc = "idle" /\ "idle" \in Before
  BY DEF Idle, Locals, Pcs, Before
<1>6. ASSUME NEW w \in Locals, Replaced(x, u, w), w.pc # "plan",
             ~old[u] => MovesOn(worker[x][u].pc, w.pc)
      PROVE  Planned' /\ \A v \in Update : old'[v] \/ Once(v)'
  BY <1>2, <1>6, OnlyMoves
<1>7. ASSUME Leave(x, u) \/ Abandon(x, u)
      PROVE  Planned' /\ \A v \in Update : old'[v] \/ Once(v)'
  BY <1>1, <1>5, <1>6, <1>7, IdleReplaces DEF MovesOn
<1>8. ASSUME NEW pc \in (Inline \cup InDrive \cup {"finish"}) \ {"plan"}, Goto(x, u, pc),
             ~old[u] => MovesOn(worker[x][u].pc, pc)
      PROVE  Planned' /\ \A v \in Update : old'[v] \/ Once(v)'
  <2> DEFINE w == [pc |-> pc, s |-> worker[x][u].s]
  <2>1. w \in Locals /\ w.pc = pc
    BY <1>3, <1>4 DEF Locals
  <2>2. Replaced(x, u, w)
    BY <1>1, <1>4, <1>8, GotoReplaces
  <2> HIDE DEF w
  <2> QED BY <1>6, <1>8, <2>1, <2>2
<1>9. CASE ReadClaim(x, u)
  <2>1. CASE Leave(x, u)
    BY <1>7, <2>1
  <2>2. CASE ~Taken(u) /\ Goto(x, u, IF gate[u] = "none" THEN "insert" ELSE "update")
    <3>1. gate[u] # "none" => old[u]
      BY <1>1, <2>2 DEF Taken, TypeOK
    <3>2. ~old[u] => Goto(x, u, "insert")
      BY <2>2, <3>1
    <3>3. CASE old[u]
      BY <1>8, <2>2, <3>3 DEF Inline
    <3>4. CASE ~old[u]
      BY <1>8, <3>2, <3>4 DEF Inline, MovesOn, Before
    <3> QED BY <3>3, <3>4
  <2> QED BY <1>9, <2>1, <2>2 DEF ReadClaim
<1>10. CASE Resume(x, u)
  <2>1. PICK w \in {[pc |-> "create", s |-> None], [pc |-> "finish", s |-> None],
                    [pc |-> "drive", s |-> bound[u]]} : Put(x, u, w)
    BY <1>10 DEF Resume, Put
  <2>2. w \in Locals /\ w.pc \in {"create", "finish", "drive"}
    BY <1>1 DEF Locals, Pcs, Inline, InDrive, TypeOK
  <2>3. worker[x][u].pc = "agent"
    BY <1>10 DEF Resume, At
  <2>4. MovesOn(worker[x][u].pc, w.pc)
    BY <2>2, <2>3 DEF MovesOn, Before, Later, InDrive
  <2>5. Replaced(x, u, w)
    BY <1>1, <2>1, <2>2, PutReplaces
  <2> QED BY <1>6, <2>2, <2>4, <2>5
<1>11. CASE \/ DriveReturns(x, u) \/ DriveRaises(x, u) \/ FlushTest(x, u) \/ FlushPop(x, u)
            \/ Apologise(x, u)
  <2>1. PICK pc \in InDrive \cup {"finish"} : Goto(x, u, pc)
    BY <1>11 DEF DriveReturns, DriveRaises, FlushTest, FlushPop, Apologise, After, InDrive
  <2>2. worker[x][u].pc \in InDrive
    BY <1>11 DEF DriveReturns, DriveRaises, FlushTest, FlushPop, Apologise, At, InDrive
  <2>3. MovesOn(worker[x][u].pc, pc) /\ pc # "plan"
    BY <2>1, <2>2 DEF MovesOn, Before, Later, InDrive
  <2> QED BY <1>8, <2>1, <2>3
<1>12. CASE FlushEmpty(x, u)
  <2>1. CASE Leave(x, u)
    BY <1>7, <2>1
  <2>2. CASE At(x, u, "errpop") /\ Goto(x, u, "sorry")
    BY <1>8, <2>2 DEF At, InDrive, MovesOn, Before, Later
  <2> QED BY <1>12, <2>1, <2>2 DEF FlushEmpty
<1>13. CASE Raise(x, u)
  BY <1>7, <1>13 DEF Raise
<1> QED BY <1>9, <1>10, <1>11, <1>12, <1>13

\* The claim is written: by the first, while nobody is past it; later ones are
\* refused by the unique constraint.
LEMMA ClaimOnce ==
  ASSUME OnceInv, NEW x \in Executor, NEW u \in Update, WriteClaim(x, u)
  PROVE  Planned' /\ \A v \in Update : old'[v] \/ Once(v)'
<1> USE DEF rows, outbox
<1>1. TypeOK /\ (old[u] \/ Once(u))
  BY DEF OnceInv
<1>2. SameSessions /\ UNCHANGED <<answers, old, session>>
  BY DEF WriteClaim, SameSessions
<1>3. CASE Abandon(x, u) /\ UNCHANGED gate
  <2>1. Replaced(x, u, Idle) /\ Idle \in Locals /\ Idle.pc = "idle"
    BY <1>1, <1>3, IdleReplaces DEF Idle, Locals, Pcs
  <2> QED BY <1>2, <1>3, <2>1, OnlyMoves DEF MovesOn, Before
<1>4. CASE /\ At(x, u, "update") \/ (At(x, u, "insert") /\ gate[u] = "none")
           /\ gate' = [gate EXCEPT ![u] = "IN_PROGRESS"]
           /\ \E path \in {"chat", "agent"} : Goto(x, u, path)
  <2>1. PICK path \in {"chat", "agent"} : Goto(x, u, path)
    BY <1>4
  <2> DEFINE w == [pc |-> path, s |-> worker[x][u].s]
  <2>2. w \in Locals /\ w.pc = path /\ Replaced(x, u, w)
    BY <1>1, <2>1, GotoReplaces DEF TypeOK, Locals, Pcs, Inline
  <2> HIDE DEF w
  <2>3. Planned'
    BY <1>2, <2>2, PlannedKept DEF OnceInv
  <2>4. \A v \in Update : v # u => gate'[v] = gate[v]
    BY <1>1, <1>4 DEF TypeOK
  <2>5. \A v \in Update \ {u} : old'[v] \/ Once(v)'
    BY <1>2, <2>2, <2>4, OneMoves, StillKeeps DEF OnceInv
  <2>6. ASSUME ~old[u] PROVE Once(u)'
    <3>1. gate[u] = "none" /\ Unused(u) /\ \A y \in Executor : worker[y][u].pc \in Before
      BY <1>1, <1>4, <2>6 DEF Once, At
    <3>2. gate'[u] = "IN_PROGRESS"
      BY <1>1, <1>4 DEF TypeOK
    <3>3. worker'[x][u].pc = path /\ \A y \in Executor \ {x} : worker'[y][u].pc \in Before
      BY <2>2, <3>1 DEF Replaced
    <3>4. SessionsOf(u)' = SessionsOf(u) /\ answers'[u] = answers[u]
      BY <1>2, SessionsStay
    <3>5. (answers[u] + Cardinality(SessionsOf(u)) <= 1)' /\ Unused(u)'
      BY <1>1, <2>6, <3>1, <3>4 DEF Once, Unused
    <3> QED BY <3>2, <3>3, <3>5 DEF Once, Before, Starting
  <2> QED BY <1>2, <2>3, <2>5, <2>6
<1> QED BY <1>3, <1>4 DEF WriteClaim

\* The one answer is given by the one that claimed.
LEMMA AnswerOnce ==
  ASSUME OnceInv, NEW x \in Executor, NEW u \in Update, Answer(x, u)
  PROVE  Planned' /\ \A v \in Update : old'[v] \/ Once(v)'
<1> USE DEF rows, outbox
<1>1. TypeOK /\ (old[u] \/ Once(u))
  BY DEF OnceInv
<1>2. SameSessions /\ UNCHANGED <<gate, old, session>>
  BY DEF Answer, SameSessions
<1> DEFINE w == [pc |-> "finish", s |-> worker[x][u].s]
<1>3. w \in Locals /\ w.pc = "finish" /\ Replaced(x, u, w)
  BY <1>1, GotoReplaces DEF Answer, TypeOK, Locals, Pcs
<1> HIDE DEF w
<1>4. Planned'
  BY <1>2, <1>3, PlannedKept DEF OnceInv
<1>5. answers'[u] = answers[u] + 1 /\ \A v \in Update : v # u => answers'[v] = answers[v]
  BY <1>1 DEF Answer, TypeOK
<1>6. \A v \in Update \ {u} : old'[v] \/ Once(v)'
  BY <1>2, <1>3, <1>5, OneMoves, StillKeeps DEF OnceInv
<1>7. ASSUME ~old[u] PROVE Once(u)'
  <2>1. Unused(u) /\ gate[u] # "none" /\ \A y \in Executor \ {x} : worker[y][u].pc \in Before
    BY <1>1, <1>7 DEF Once, Answer, At, Starting, Before
  <2>2. worker'[x][u].pc = "finish" /\ \A y \in Executor \ {x} : worker'[y][u].pc \in Before
    BY <1>3, <2>1 DEF Replaced
  <2>3. SessionsOf(u)' = {} /\ answers'[u] = 1
    BY <1>2, <1>5, <2>1, SessionsStay DEF Unused
  <2>4. (answers[u] + Cardinality(SessionsOf(u)) <= 1)'
    BY <2>3, FS_EmptySet
  <2> QED BY <1>2, <2>1, <2>2, <2>4 DEF Once, Before, Starting
<1> QED BY <1>2, <1>4, <1>6, <1>7

\* So is the one session.
LEMMA CreateOnce ==
  ASSUME OnceInv, NEW x \in Executor, NEW u \in Update, Create(x, u)
  PROVE  Planned' /\ \A v \in Update : old'[v] \/ Once(v)'
<1> USE DEF rows, outbox
<1>1. TypeOK /\ (old[u] \/ Once(u))
  BY DEF OnceInv
<1>2. UNCHANGED <<gate, old, answers>>
  BY DEF Create
<1>3. PICK i \in 1..MaxSessions :
         /\ session' = [session EXCEPT ![<<u, i>>] = "empty"]
         /\ Put(x, u, [pc |-> "plan", s |-> <<u, i>>])
  BY DEF Create, Put
<1> DEFINE s == <<u, i>>
           w == [pc |-> "plan", s |-> s]
<1>4. s \in Session /\ s[1] = u /\ w \in Locals /\ w.pc = "plan" /\ w.s = s
  BY DEF Session, Locals, Pcs, Inline
<1>5. session' = [session EXCEPT ![s] = "empty"] /\ Replaced(x, u, w)
  BY <1>1, <1>3, <1>4, PutReplaces
<1> HIDE DEF w, s
<1>6. session'[s] = "empty" /\ \A r \in Session \ {s} : session'[r] = session[r]
  BY <1>1, <1>4, <1>5 DEF TypeOK
<1>7. Planned'
  BY <1>4, <1>5, <1>6, PlannedKept DEF OnceInv
<1>8. ASSUME NEW v \in Update, v # u, ~old[v] PROVE Once(v)'
  <2>1. SessionsOf(v)' = SessionsOf(v)
    BY <1>4, <1>6, <1>8 DEF SessionsOf
  <2>2. \A y \in Executor : worker'[y][v] = worker[y][v]
    BY <1>5, <1>8 DEF Replaced
  <2>3. Still(v)
    BY <1>2, <2>1, <2>2 DEF Still, MovesOn
  <2> QED BY <1>8, <2>3, StillKeeps DEF OnceInv
<1>9. ASSUME ~old[u] PROVE Once(u)'
  <2>1. Unused(u) /\ gate[u] # "none" /\ \A y \in Executor \ {x} : worker[y][u].pc \in Before
    BY <1>1, <1>9 DEF Once, Create, At, Starting, Before
  <2>2. worker'[x][u].pc = "plan" /\ \A y \in Executor \ {x} : worker'[y][u].pc \in Before
    BY <1>4, <1>5, <2>1 DEF Replaced
  <2>3. SessionsOf(u)' = {s} /\ answers'[u] = 0
    BY <1>2, <1>4, <1>6, <2>1 DEF SessionsOf, Unused
  <2>4. Cardinality({s}) = 1
    BY FS_Singleton
  <2>5. (answers[u] + Cardinality(SessionsOf(u)) <= 1)'
    BY <2>3, <2>4
  <2> QED BY <1>2, <2>1, <2>2, <2>5 DEF Once, Before, Starting
<1> QED BY <1>2, <1>7, <1>8, <1>9

\* Planning, binding and finishing come after that.
LEMMA LateWork ==
  ASSUME OnceInv, NEW x \in Executor, NEW u \in Update, Plan(x, u) \/ Bind(x, u) \/ Finish(x, u)
  PROVE  Planned' /\ \A v \in Update : old'[v] \/ Once(v)'
<1> USE DEF rows, outbox
<1>1. TypeOK /\ (old[u] \/ Once(u))
  BY DEF OnceInv
<1>2. UNCHANGED <<old, answers>>
  BY DEF Plan, Bind, Finish
<1>3. SameSessions
  <2>1. CASE Plan(x, u)
    <3>1. worker[x][u].s \in Session /\ session[worker[x][u].s] # "none"
      BY <2>1 DEF OnceInv, Planned, Plan
    <3>2. session' = [session EXCEPT ![worker[x][u].s] = "open"]
      BY <2>1 DEF Plan
    <3> QED BY <1>1, <3>1, <3>2 DEF SameSessions, TypeOK
  <2>2. CASE Bind(x, u) \/ Finish(x, u)
    BY <2>2 DEF Bind, Finish, SameSessions
  <2> QED BY <2>1, <2>2
<1>4. PICK w \in Locals : Replaced(x, u, w) /\ w.pc \in {"bind", "drive", "idle"}
  <2>1. CASE Plan(x, u)
    <3>1. "bind" \in Pcs /\ [pc |-> "bind", s |-> worker[x][u].s] \in Locals
      BY <1>1 DEF TypeOK, Locals, Pcs, Inline
    <3> QED BY <1>1, <2>1, <3>1, GotoReplaces DEF Plan
  <2>2. CASE Bind(x, u)
    <3>1. "drive" \in Pcs /\ [pc |-> "drive", s |-> worker[x][u].s] \in Locals
      BY <1>1 DEF TypeOK, Locals, Pcs, InDrive
    <3> QED BY <1>1, <2>2, <3>1, GotoReplaces DEF Bind
  <2>3. CASE Finish(x, u)
    <3>1. Idle \in Locals /\ Idle.pc = "idle"
      BY DEF Idle, Locals, Pcs
    <3> QED BY <1>1, <2>3, <3>1, IdleReplaces DEF Finish
  <2> QED BY <2>1, <2>2, <2>3
<1>5. worker[x][u].pc \in {"plan", "bind", "finish"}
  BY DEF Plan, Bind, Finish, At
<1>6. MovesOn(worker[x][u].pc, w.pc)
  BY <1>4, <1>5 DEF MovesOn, Before, Later, InDrive
<1>7. Planned'
  BY <1>3, <1>4, PlannedKept DEF OnceInv, SameSessions
<1>8. \A v \in Update : v # u => gate'[v] = gate[v]
  BY <1>1 DEF Plan, Bind, Finish, TypeOK
<1>9. \A v \in Update \ {u} : old'[v] \/ Once(v)'
  BY <1>2, <1>3, <1>4, <1>8, OneMoves, StillKeeps DEF OnceInv
<1>10. ASSUME ~old[u] PROVE Once(u)'
  <2>1. gate[u] # "none"
    BY <1>1, <1>5, <1>10 DEF Once, Before
  <2>2. gate'[u] # "none"
    BY <1>1, <2>1 DEF Plan, Bind, Finish, TypeOK
  <2>3. \A y \in Executor : MovesOn(worker[y][u].pc, worker'[y][u].pc)
    BY <1>4, <1>6 DEF Replaced, MovesOn
  <2>4. Still(u)
    BY <1>2, <1>3, <2>1, <2>2, <2>3, SessionsStay DEF Still
  <2> QED BY <1>1, <1>10, <2>4, StillKeeps
<1> QED BY <1>2, <1>7, <1>9, <1>10

\* What the executors do between the updates, the poller, the engine, the tick
\* and a crash: nobody is brought nearer to an answer, no session appears.
LEMMA RestIsStill ==
  ASSUME OnceInv,
         \/ \E u \in Update : Deliver(u) \/ Handle(u) \/ Read(u) \/ ClaimAges(u)
         \/ \E s \in Session : Emit(s)
         \/ Recover \/ Crash
  PROVE  /\ SameSessions /\ UNCHANGED <<gate, answers>>
         /\ \A v \in Update : old[v] => old'[v]
         /\ \A y \in Executor, v \in Update :
              worker'[y][v] = worker[y][v] \/ worker'[y][v].pc \in {"idle", "handle", "read", "claim"}
<1> USE DEF rows, outbox
<1> DEFINE Near == \A y \in Executor, v \in Update :
              worker'[y][v] = worker[y][v] \/ worker'[y][v].pc \in {"idle", "handle", "read", "claim"}
<1>1. TypeOK
  BY DEF OnceInv
<1>2. "service" \in Executor /\ "recovery" \in Executor
  BY DEF Executor
<1>3. ASSUME NEW x \in Executor, NEW u \in Update, Leave(x, u) PROVE Near
  <2>1. Replaced(x, u, Idle) /\ Idle.pc = "idle"
    BY <1>1, <1>3, IdleReplaces DEF Idle
  <2> QED BY <2>1 DEF Replaced
<1>4. ASSUME NEW x \in Executor, NEW u \in Update, NEW pc \in {"handle", "read", "claim"}, Goto(x, u, pc)
      PROVE  Near
  <2>1. pc \in Pcs
    BY DEF Pcs, Inline
  <2>2. Replaced(x, u, [pc |-> pc, s |-> worker[x][u].s])
    BY <1>1, <1>4, <2>1, GotoReplaces
  <2> QED BY <2>2 DEF Replaced
<1>5. ASSUME NEW x \in Executor, NEW u \in Update, Look(x, u) PROVE Near
  BY <1>3, <1>4, <1>5 DEF Look
<1>6. CASE UNCHANGED <<worker, old, session, gate, answers>>
  BY <1>6 DEF SameSessions
<1>7. ASSUME NEW u \in Update, Deliver(u)
      PROVE  UNCHANGED <<old, session, gate, answers>> /\ Near
  <2>1. CASE UNCHANGED worker
    BY <1>7, <2>1 DEF Deliver
  <2>2. CASE Goto("service", u, "read") \/ Goto("service", u, "handle")
    BY <1>2, <1>4, <1>7, <2>2 DEF Deliver
  <2> QED BY <1>7, <2>1, <2>2 DEF Deliver
<1>8. ASSUME NEW u \in Update, Handle(u) \/ Read(u) \/ Take(u)
      PROVE  UNCHANGED <<old, session, gate, answers>> /\ Near
  BY <1>2, <1>3, <1>5, <1>8 DEF Handle, Read, Take
<1>9. ASSUME NEW u \in Update, ClaimAges(u)
      PROVE  UNCHANGED <<worker, session, gate, answers>> /\ \A v \in Update : old[v] => old'[v]
  BY <1>1, <1>9 DEF ClaimAges, TypeOK
<1>10. ASSUME NEW s \in Session, Emit(s)
       PROVE  UNCHANGED <<worker, old, gate, answers>> /\ SameSessions
  BY <1>1, <1>10 DEF Emit, SameSessions, Terminal, TypeOK
<1>11. ASSUME TickBegins \/ Select \/ \E s \in Session : Replay(s)
       PROVE  UNCHANGED <<worker, old, session, gate, answers>>
  BY <1>11 DEF TickBegins, Select, Replay
<1>12. ASSUME Crash PROVE UNCHANGED <<old, session, gate, answers>> /\ Near
  BY <1>12 DEF Crash, Idle
<1>13. UNCHANGED session => SameSessions
  BY DEF SameSessions
<1> QED BY <1>6, <1>7, <1>8, <1>9, <1>10, <1>11, <1>12, <1>13 DEF Recover

\* However often an update is delivered, whatever the recovery tick selects, and
\* whenever the process dies, a young claim yields one answer or one session.
THEOREM UpdatesExecuteOnce == Spec => []ExecutedOnce
<1>1. Init => Planned /\ \A u \in Update : old[u] \/ Once(u)
  <2> SUFFICES ASSUME Init PROVE Planned /\ \A u \in Update : Once(u)
    OBVIOUS
  <2>1. \A x \in Executor, u \in Update : worker[x][u].pc = "idle"
    BY DEF Init, Idle
  <2>2. \A u \in Update : Unused(u)
    BY DEF Init, Calm, Unused, SessionsOf
  <2>3. \A u \in Update : answers[u] + Cardinality(SessionsOf(u)) <= 1
    BY <2>2, FS_EmptySet DEF Unused
  <2> QED BY <2>1, <2>2, <2>3 DEF Planned, At, Once, Before, Starting
<1>2. OnceInv /\ [Next]_vars => Planned' /\ \A u \in Update : old'[u] \/ Once(u)'
  <2> SUFFICES ASSUME OnceInv, [Next]_vars
               PROVE  Planned' /\ \A u \in Update : old'[u] \/ Once(u)'
    OBVIOUS
  <2>1. ASSUME SameSessions, UNCHANGED <<gate, answers>>, \A v \in Update : old[v] => old'[v],
               \A y \in Executor, v \in Update :
                 worker'[y][v] = worker[y][v] \/ worker'[y][v].pc \in {"idle", "handle", "read", "claim"}
        PROVE  Planned' /\ \A u \in Update : old'[u] \/ Once(u)'
    <3>1. Planned'
      BY <2>1 DEF OnceInv, Planned, At, SameSessions
    <3>2. \A u \in Update : Still(u)
      BY <2>1, SessionsStay DEF Still, MovesOn, Before
    <3> QED BY <2>1, <3>1, <3>2, StillKeeps DEF OnceInv
  <2>2. CASE UNCHANGED vars
    BY <2>1, <2>2 DEF vars, rows, outbox, SameSessions
  <2>3. CASE \E x \in Executor, u \in Update : Work(x, u) \/ DriveRaises(x, u) \/ Raise(x, u)
    BY <2>3, QuietWork, ClaimOnce, AnswerOnce, CreateOnce, LateWork DEF Work
  <2>4. CASE \/ \E u \in Update : Deliver(u) \/ Handle(u) \/ Read(u) \/ ClaimAges(u)
             \/ \E s \in Session : Emit(s)
             \/ Recover \/ Crash
    BY <2>1, <2>4, RestIsStill
  <2> QED BY <2>2, <2>3, <2>4 DEF Next
<1>3. OnceInv => ExecutedOnce
  BY DEF OnceInv, Once, ExecutedOnce
<1> DEFINE Safe == Planned /\ \A u \in Update : old[u] \/ Once(u)
<1>4. Init => Safe
  BY <1>1
<1>5. Safe /\ TypeOK /\ [Next]_vars => Safe'
  BY <1>2 DEF OnceInv
<1>6. Safe /\ TypeOK => ExecutedOnce
  BY <1>3 DEF OnceInv
<1> QED BY <1>4, <1>5, <1>6, TypeCorrect, PTL DEF Spec
=============================================================================
