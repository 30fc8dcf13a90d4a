---------------------------- MODULE OutboxProofs ----------------------------
(***************************************************************************)
(* Theorems about the outbox, for any messages, producers, drainers, batch *)
(* size and attempt limit.                                                 *)
(***************************************************************************)
EXTENDS Outbox, TLAPS

-----------------------------------------------------------------------------
(* Types.                                                                  *)

LocalsType == [phase : {"idle", "next", "mark", "advance"}, todo : SUBSET Msg,
               tries : [Msg -> Nat], at : Msg \cup {None}]

\* Moving on to the next row keeps the drainers' locals well typed.
LEMMA RestType ==
  ASSUME TypeOK, NEW d \in Drainer, NEW m, Rest(d, m)
  PROVE  drainer' \in [Drainer -> LocalsType]
<1>1. Idle \in LocalsType
  BY DEF Idle, LocalsType
<1>2. drainer[d] \in LocalsType
  BY DEF TypeOK, LocalsType
<1>3. [drainer[d] EXCEPT !.phase = "next", !.todo = drainer[d].todo \ {m}, !.at = None]
        \in LocalsType
  BY <1>2 DEF LocalsType
<1> QED BY <1>1, <1>3 DEF TypeOK, Rest, LocalsType

\* Every variable of the outbox keeps its type.
THEOREM TypeCorrect == Spec => []TypeOK
<1>1. Init => TypeOK
  BY DEF Init, TypeOK, Idle
<1>2. TypeOK /\ [Next]_vars => TypeOK'
  <2> SUFFICES ASSUME TypeOK, [Next]_vars PROVE TypeOK'
    OBVIOUS
  <2> USE RowsAssumption DEF LocalsType
  <2>1. CASE Produce
    <3>1. ASSUME NEW m \in Msg, EnqueuePlain(m) PROVE TypeOK'
      BY <3>1 DEF EnqueuePlain, Insert, TypeOK
    <3>2. ASSUME NEW p \in Producer, NEW e \in Event, LookUp(p, e) PROVE TypeOK'
      BY <3>2 DEF LookUp, TypeOK, row
    <3>3. ASSUME NEW p \in Producer, NEW m \in Msg, EnqueueEvent(p, m) PROVE TypeOK'
      BY <3>3 DEF EnqueueEvent, Insert, TypeOK
    <3> QED BY <2>1, <3>1, <3>2, <3>3 DEF Produce
  <2>2. ASSUME NEW d \in Drainer, Claim(d) PROVE TypeOK'
    <3>1. PICK rows \in SUBSET Claimable :
            drainer' = [drainer EXCEPT ![d] =
              [Idle EXCEPT !.phase = "next", !.todo = rows,
                           !.tries = [m \in Msg |-> IF m \in rows THEN attempts[m] ELSE 0]]]
      BY <2>2 DEF Claim
    <3>2. rows \subseteq Msg /\ [m \in Msg |-> IF m \in rows THEN attempts[m] ELSE 0] \in [Msg -> Nat]
      BY DEF TypeOK, Claimable
    <3>3. drainer' \in [Drainer -> LocalsType]
      BY <3>1, <3>2 DEF TypeOK, Idle
    <3>4. status' \in [Msg -> {"none", "PENDING", "SENDING", "RETRY", "DELIVERED", "DEAD"}]
      BY <2>2 DEF Claim, TypeOK
    <3>5. due' \in [Msg -> BOOLEAN] /\ claimAge' \in [Msg -> {"null", "recent", "old"}]
      BY <2>2 DEF Claim, TypeOK
    <3> QED BY <2>2, <3>3, <3>4, <3>5 DEF Claim, TypeOK
  <2>3. ASSUME NEW d \in Drainer, NEW m \in Msg, NEW response \in Responses, Post(d, m, response)
        PROVE TypeOK'
    BY <2>3 DEF Post, TypeOK, row
  <2>4. ASSUME NEW d \in Drainer, Mark(d) PROVE TypeOK'
    BY <2>4, RestType DEF Mark, TypeOK
  <2>5. ASSUME NEW d \in Drainer, Advance(d) PROVE TypeOK'
    <3> DEFINE m == drainer[d].at
    <3>1. attempts' = [attempts EXCEPT ![m] = drainer[d].tries[m] + 1]
      BY <2>5 DEF Advance
    <3>2. attempts' \in [Msg -> Nat]
      <4>1. CASE m \in Msg
        <5>1. drainer[d].tries[m] \in Nat
          BY <4>1 DEF TypeOK
        <5>2. drainer[d].tries[m] + 1 \in Nat /\ attempts \in [Msg -> Nat]
          BY <5>1 DEF TypeOK
        <5> HIDE DEF m
        <5> QED BY <3>1, <5>2
      <4>2. CASE m \notin Msg
        BY <3>1, <4>2 DEF TypeOK
      <4> QED BY <4>1, <4>2
    <3> QED BY <2>5, <3>2, RestType DEF Advance, Verdict, TypeOK
  <2>6. ASSUME NEW d \in Drainer, Break(d) PROVE TypeOK'
    BY <2>6 DEF Break, TypeOK, Idle, row
  <2>7. ASSUME NEW d \in Drainer, NEW m \in Msg, Skip(d, m) PROVE TypeOK'
    BY <2>7, RestType DEF Skip, TypeOK, row
  <2>8. CASE \E m \in Msg : FallDue(m) \/ ClaimAges(m)
    BY <2>8 DEF FallDue, ClaimAges, TypeOK
  <2>9. CASE ReapStuck
    BY <2>9 DEF ReapStuck, StatusReaped, TypeOK
  <2>10. CASE Crash
    BY <2>10 DEF Crash, TypeOK, Idle, row
  <2>11. CASE UNCHANGED vars
    BY <2>11 DEF vars, TypeOK
  <2> QED BY <2>1, <2>2, <2>3, <2>4, <2>5, <2>6, <2>7, <2>8, <2>9, <2>10, <2>11
          DEF Next, DeliverStep
<1> QED BY <1>1, <1>2, PTL DEF Spec
-----------------------------------------------------------------------------
(* Who holds a row.  The claims alone do not exclude two holders: a claim   *)
(* takes only rows that wait, and every row in some drainer's hands is      *)
(* SENDING, with the attempts it was read with.                             *)

InHand(d) ==
  /\ \A m \in drainer[d].todo : status[m] = "SENDING" /\ drainer[d].tries[m] = attempts[m]
  /\ drainer[d].phase \in {"mark", "advance"} => drainer[d].at \in drainer[d].todo
  /\ drainer[d].phase = "idle" => drainer[d].todo = {}

Apart == \A d \in Drainer, e \in Drainer : d # e => drainer[d].todo \cap drainer[e].todo = {}

Open == {"none", "PENDING", "RETRY", "SENDING"}

Spare == \A m \in Msg : status[m] \in Open => attempts[m] < MaxAttempts

Held == (\A d \in Drainer : InHand(d)) /\ Apart /\ Spare

\* A step that leaves the rows alone and takes rows from one drainer only.
LEMMA HeldPut ==
  ASSUME TypeOK, Held, NEW d \in Drainer,
         UNCHANGED <<status, attempts>>,
         drainer' = [drainer EXCEPT ![d] = drainer'[d]],
         drainer'[d].todo \subseteq drainer[d].todo,
         drainer'[d].todo # {} => drainer'[d].tries = drainer[d].tries,
         drainer'[d].phase \in {"mark", "advance"} => drainer'[d].at \in drainer'[d].todo,
         drainer'[d].phase = "idle" => drainer'[d].todo = {}
  PROVE  Held'
<1>1. \A e \in Drainer : e # d => drainer'[e] = drainer[e]
  BY DEF TypeOK
<1>2. \A e \in Drainer : drainer'[e].todo \subseteq drainer[e].todo
  BY <1>1
<1>3. Apart'
  BY <1>2 DEF Held, Apart
<1>4. ASSUME NEW e \in Drainer PROVE InHand(e)'
  <2>1. CASE e # d
    BY <1>1, <2>1 DEF Held, InHand
  <2>2. CASE e = d
    BY <2>2 DEF Held, InHand
  <2> QED BY <2>1, <2>2
<1> QED BY <1>3, <1>4 DEF Held, Spare

\* A step that settles or returns the row at hand, and moves on to the rest.
LEMMA HeldRest ==
  ASSUME TypeOK, Held, NEW d \in Drainer, NEW m \in drainer[d].todo, Rest(d, m),
         \A n \in Msg \ {m} : status'[n] = status[n] /\ attempts'[n] = attempts[n],
         status'[m] \in Open => attempts'[m] < MaxAttempts
  PROVE  Held'
<1>1. m \in Msg
  BY DEF TypeOK
<1>2. \A e \in Drainer : e # d => drainer'[e] = drainer[e] /\ m \notin drainer[e].todo
  BY DEF Rest, Held, Apart, TypeOK
<1>3. /\ drainer'[d].todo = drainer[d].todo \ {m}
      /\ drainer'[d].todo # {} => drainer'[d].tries = drainer[d].tries
      /\ drainer'[d].phase \in {"idle", "next"}
      /\ drainer'[d].phase = "idle" => drainer'[d].todo = {}
  BY DEF Rest, Idle, TypeOK
<1>4. Apart'
  BY <1>2, <1>3 DEF Held, Apart
<1>5. Spare'
  BY <1>1 DEF Held, Spare
<1>6. ASSUME NEW e \in Drainer PROVE InHand(e)'
  <2>1. \A n \in drainer'[e].todo : n \in Msg \ {m} /\ n \in drainer[e].todo
    BY <1>2, <1>3 DEF TypeOK
  <2>2. CASE e # d
    BY <1>2, <2>1, <2>2 DEF Held, InHand
  <2>3. CASE e = d
    BY <1>3, <2>1, <2>3 DEF Held, InHand
  <2> QED BY <2>2, <2>3
<1> QED BY <1>4, <1>5, <1>6 DEF Held

\* A row that is inserted is in nobody's hands and has no failed attempt.
LEMMA HeldInsert ==
  ASSUME TypeOK, Held, NEW m \in Msg, Insert(m) PROVE Held'
<1>1. \A d \in Drainer : m \notin drainer[d].todo
  BY DEF Insert, Held, InHand
<1>2. \A n \in Msg : n # m => status'[n] = status[n]
  BY DEF Insert, TypeOK
<1>3. \A d \in Drainer : InHand(d)'
  BY <1>1, <1>2 DEF Insert, Held, InHand, TypeOK
<1>4. Spare'
  BY <1>2 DEF Insert, Held, Spare, Open, TypeOK
<1> QED BY <1>3, <1>4 DEF Insert, Held, Apart

\* A claim takes only rows that wait, which nobody holds.
LEMMA HeldClaim ==
  ASSUME TypeOK, Held, NEW d \in Drainer, Claim(d) PROVE Held'
<1>1. PICK rows \in SUBSET Claimable :
        /\ status' = [m \in Msg |-> IF m \in rows THEN "SENDING" ELSE status[m]]
        /\ drainer' = [drainer EXCEPT ![d] =
             [Idle EXCEPT !.phase = "next", !.todo = rows,
                          !.tries = [m \in Msg |-> IF m \in rows THEN attempts[m] ELSE 0]]]
  BY DEF Claim
<1>2. \A m \in rows : m \in Msg /\ status[m] \in {"PENDING", "RETRY"}
  BY DEF Claimable, ClaimStates
<1>3. /\ drainer'[d].todo = rows /\ drainer'[d].phase = "next"
      /\ \A m \in rows : drainer'[d].tries[m] = attempts[m]
  BY <1>1, <1>2 DEF Idle, TypeOK
<1>4. \A e \in Drainer : e # d => drainer'[e] = drainer[e]
  BY <1>1 DEF TypeOK
<1>5. \A e \in Drainer : rows \cap drainer[e].todo = {}
  BY <1>2 DEF Held, InHand
<1>6. attempts' = attempts
  BY DEF Claim
<1>7. Apart'
  BY <1>3, <1>4, <1>5 DEF Held, Apart
<1>8. Spare'
  BY <1>1, <1>2, <1>6 DEF Held, Spare, Open
<1>9. ASSUME NEW e \in Drainer PROVE InHand(e)'
  <2>1. CASE e = d
    BY <1>1, <1>2, <1>3, <1>6, <2>1 DEF InHand
  <2>2. CASE e # d
    <3>1. InHand(e)
      BY DEF Held
    <3>2. \A m \in drainer[e].todo : m \in Msg /\ status'[m] = status[m]
      BY <1>1, <1>5 DEF TypeOK
    <3> QED BY <1>4, <1>6, <2>2, <3>1, <3>2 DEF InHand
  <2> QED BY <2>1, <2>2
<1> QED BY <1>7, <1>8, <1>9 DEF Held

\* Recording a delivery settles the row at hand and nothing else.
LEMMA HeldMark ==
  ASSUME TypeOK, Held, NEW d \in Drainer, Mark(d) PROVE Held'
<1> DEFINE m == drainer[d].at
<1>1. m \in drainer[d].todo /\ m \in Msg /\ status[m] = "SENDING"
  BY DEF Mark, Held, InHand, TypeOK
<1>2. Rest(d, m)
  BY DEF Mark
<1>3. /\ \A n \in Msg \ {m} : status'[n] = status[n] /\ attempts'[n] = attempts[n]
      /\ status'[m] = "DELIVERED"
  BY <1>1 DEF Mark, TypeOK
<1> HIDE DEF m
<1> QED BY <1>1, <1>2, <1>3, HeldRest DEF Open

\* The row at hand fails once more: its counter moves by one.
LEMMA AdvanceCounts ==
  ASSUME TypeOK, Held, NEW d \in Drainer, Advance(d)
  PROVE  LET m == drainer[d].at IN
         /\ m \in drainer[d].todo /\ m \in Msg /\ status[m] = "SENDING"
         /\ attempts'[m] = attempts[m] + 1 /\ attempts[m] < MaxAttempts
         /\ status'[m] = Verdict(attempts[m] + 1)
         /\ \A n \in Msg \ {m} : status'[n] = status[n] /\ attempts'[n] = attempts[n]
<1> DEFINE m == drainer[d].at
<1>1. m \in drainer[d].todo /\ m \in Msg /\ status[m] = "SENDING"
      /\ drainer[d].tries[m] = attempts[m]
  BY DEF Advance, Held, InHand, TypeOK
<1>2. attempts[m] < MaxAttempts
  BY <1>1 DEF Held, Spare, Open
<1>3. /\ attempts' = [attempts EXCEPT ![m] = attempts[m] + 1]
      /\ status' = [status EXCEPT ![m] = Verdict(attempts[m] + 1)]
  BY <1>1 DEF Advance
<1> HIDE DEF m
<1>4. /\ attempts'[m] = attempts[m] + 1 /\ status'[m] = Verdict(attempts[m] + 1)
      /\ \A n \in Msg \ {m} : status'[n] = status[n] /\ attempts'[n] = attempts[n]
  BY <1>1, <1>3 DEF TypeOK
<1> QED BY <1>1, <1>2, <1>4 DEF m

\* Recording a failure leaves a row open only while attempts are left.
LEMMA HeldAdvance ==
  ASSUME TypeOK, Held, NEW d \in Drainer, Advance(d) PROVE Held'
<1> DEFINE m == drainer[d].at
<1>1. Rest(d, m)
  BY DEF Advance
<1>2. status'[m] \in Open => attempts'[m] < MaxAttempts
  <2>1. attempts[m] \in Nat
    BY AdvanceCounts DEF TypeOK
  <2> QED BY <2>1, AdvanceCounts, LimitsAssumption DEF Verdict, Open
<1> HIDE DEF m
<1> QED BY <1>1, <1>2, AdvanceCounts, HeldRest DEF m

\* A restart empties all hands; the rows stay as they are.
LEMMA HeldCrash == ASSUME TypeOK, Held, Crash PROVE Held'
BY DEF Crash, Held, InHand, Apart, Spare, Idle, row, TypeOK

\* No step puts a row into two hands, moves it under its holder or overspends it.
LEMMA HeldStep == TypeOK /\ Held /\ [Next]_vars => Held'
<1> SUFFICES ASSUME TypeOK, Held, [Next]_vars PROVE Held'
  OBVIOUS
<1>1. CASE Produce
  <2>1. ASSUME NEW p \in Producer, NEW e \in Event, LookUp(p, e) PROVE Held'
    BY <2>1 DEF LookUp, row, Held, InHand, Apart, Spare
  <2> QED BY <1>1, <2>1, HeldInsert DEF Produce, EnqueuePlain, EnqueueEvent
<1>2. ASSUME NEW d \in Drainer, NEW m \in Msg, NEW response \in Responses, Post(d, m, response)
      PROVE Held'
  <2>1. /\ drainer'[d].todo = drainer[d].todo /\ drainer'[d].tries = drainer[d].tries
        /\ drainer'[d].at = m /\ drainer'[d].phase \in {"mark", "advance"}
    BY <1>2 DEF Post, TypeOK
  <2>2. /\ drainer' = [drainer EXCEPT ![d] = drainer'[d]] /\ m \in drainer[d].todo
        /\ UNCHANGED <<status, attempts>>
    BY <1>2 DEF Post, row, TypeOK
  <2> QED BY <2>1, <2>2, HeldPut
<1>3. ASSUME NEW d \in Drainer, Break(d) PROVE Held'
  <2>1. drainer'[d] = Idle /\ drainer' = [drainer EXCEPT ![d] = drainer'[d]]
        /\ UNCHANGED <<status, attempts>>
    BY <1>3 DEF Break, row, TypeOK
  <2> QED BY <2>1, HeldPut DEF Idle
<1>4. ASSUME NEW d \in Drainer, NEW m \in Msg, Skip(d, m) PROVE Held'
  <2>1. /\ m \in drainer[d].todo /\ Rest(d, m) /\ UNCHANGED <<status, attempts>>
        /\ status[m] \in Open => attempts[m] < MaxAttempts
    BY <1>4 DEF Skip, row, Held, Spare
  <2> QED BY <2>1, HeldRest
<1>5. CASE \E m \in Msg : FallDue(m) \/ ClaimAges(m)
  BY <1>5 DEF FallDue, ClaimAges, Held, InHand, Apart, Spare
<1>6. CASE ReapStuck
  <2>1. status' = status
    BY <1>6 DEF ReapStuck, StatusReaped, TypeOK
  <2> QED BY <1>6, <2>1 DEF ReapStuck, Held, InHand, Apart, Spare
<1>7. CASE UNCHANGED vars
  BY <1>7 DEF vars, Held, InHand, Apart, Spare
<1> QED BY <1>1, <1>2, <1>3, <1>4, <1>5, <1>6, <1>7, HeldClaim, HeldMark, HeldAdvance, HeldCrash
        DEF Next, DeliverStep

\* So the strengthening holds throughout.
LEMMA HeldAlways == Spec => [](TypeOK /\ Held)
<1>1. Init => Held
  BY LimitsAssumption DEF Init, Held, InHand, Apart, Spare, Idle
<1> QED BY <1>1, HeldStep, TypeCorrect, PTL DEF Spec

\* A message is in the hands of one drainer at most, and stays SENDING there.
THEOREM RowsHaveOneHolder == Spec => []OneHolder
<1>1. TypeOK /\ Held => OneHolder
  BY DEF TypeOK, Held, InHand, Apart, OneHolder
<1> QED BY <1>1, HeldAlways, PTL

-----------------------------------------------------------------------------
(* The contract.                                                           *)

Follows(m) == \/ Contract!Submit(m) \/ Contract!Take(m) \/ Contract!Deliver(m)
              \/ Contract!Fail(m) \/ Contract!Stay(m)

\* Each step moves every message along the contract.
LEMMA StepFollows ==
  ASSUME TypeOK, Held, [Next]_vars, NEW n \in Msg PROVE Follows(n)
<1>1. CASE UNCHANGED <<status, attempts>>
  BY <1>1 DEF Follows, Contract!Stay
<1>2. ASSUME NEW m \in Msg, Insert(m) PROVE Follows(n)
  BY <1>2 DEF Insert, TypeOK, Follows, Contract!Submit, Contract!Step, Contract!Stay
<1>3. ASSUME NEW d \in Drainer, Claim(d) PROVE Follows(n)
  BY <1>3 DEF Claim, Claimable, ClaimStates, TypeOK, Follows, Contract!Take, Contract!Step,
              Contract!Stay
<1>4. ASSUME NEW d \in Drainer, Mark(d) PROVE Follows(n)
  <2>1. drainer[d].at \in Msg /\ status[drainer[d].at] = "SENDING"
    BY <1>4 DEF Mark, Held, InHand, TypeOK
  <2> QED BY <1>4, <2>1 DEF Mark, TypeOK, Follows, Contract!Deliver, Contract!Step,
                            Contract!Stay
<1>5. ASSUME NEW d \in Drainer, Advance(d) PROVE Follows(n)
  <2>1. CASE n = drainer[d].at
    <3>1. attempts[n] \in Nat /\ attempts'[n] = attempts[n] + 1 /\ attempts[n] < MaxAttempts
          /\ status[n] = "SENDING" /\ status'[n] = Verdict(attempts[n] + 1)
      BY <1>5, <2>1, AdvanceCounts DEF TypeOK
    <3> QED BY <3>1, LimitsAssumption
            DEF Verdict, Follows, Contract!Fail, Contract!Step
  <2>2. CASE n # drainer[d].at
    BY <1>5, <2>2, AdvanceCounts DEF Follows, Contract!Stay
  <2> QED BY <2>1, <2>2
<1>6. CASE ReapStuck
  BY <1>6 DEF ReapStuck, StatusReaped, TypeOK, Follows, Contract!Stay
<1>7. CASE Produce
  BY <1>1, <1>2, <1>7 DEF Produce, LookUp, row, EnqueuePlain, EnqueueEvent
<1>8. ASSUME NEW d \in Drainer, NEW m \in Msg, NEW response \in Responses, Post(d, m, response)
      PROVE Follows(n)
  BY <1>1, <1>8 DEF Post, row
<1>9. ASSUME NEW d \in Drainer, NEW m \in Msg, Skip(d, m) PROVE Follows(n)
  BY <1>1, <1>9 DEF Skip, row
<1>10. ASSUME NEW d \in Drainer, Break(d) PROVE Follows(n)
  BY <1>1, <1>10 DEF Break, row
<1>11. CASE \E m \in Msg : FallDue(m) \/ ClaimAges(m)
  BY <1>1, <1>11 DEF FallDue, ClaimAges
<1>12. CASE Crash
  BY <1>1, <1>12 DEF Crash, row
<1>13. CASE UNCHANGED vars
  BY <1>1, <1>13 DEF vars
<1> QED BY <1>3, <1>4, <1>5, <1>6, <1>7, <1>8, <1>9, <1>10, <1>11, <1>12, <1>13
        DEF Next, DeliverStep

\* The outbox implements its contract: every recorded failure is counted once,
\* attempts never pass the limit, and a settled message never moves.
THEOREM OutboxImplementsContract == Spec => ContractHolds
<1>1. Init => Contract!Init
  BY DEF Init, Contract!Init
<1>2. TypeOK /\ TypeOK' /\ Held /\ [Next]_vars => [Contract!Next]_(Contract!vars)
  <2> SUFFICES ASSUME TypeOK, TypeOK', Held, [Next]_vars PROVE Contract!Next
    OBVIOUS
  <2>1. \A n \in Msg : Follows(n)
    BY StepFollows
  <2>2. DOMAIN status' = Msg /\ DOMAIN attempts' = Msg
    BY DEF TypeOK
  <2> QED BY <2>1, <2>2 DEF Contract!Next, Follows
<1> QED BY <1>1, <1>2, HeldAlways, PTL DEF Spec, ContractHolds, Contract!Spec

-----------------------------------------------------------------------------
(* Acceptance.  A drainer that has seen a message accepted can only record *)
(* it, and it records only what it has seen accepted or may miss.          *)

Seen == \A m \in confirmed :
          /\ status[m] \in {"SENDING", "DELIVERED"}
          /\ \A d \in Drainer : m \in drainer[d].todo =>
                               drainer[d].at = m /\ drainer[d].phase = "mark"

Marked == \A d \in Drainer : drainer[d].phase = "mark" =>
                            drainer[d].at \in confirmed \cup Ephemeral

Accepted == Seen /\ Marked /\ DeliveredWasAccepted

\* A step that only moves a drainer on past the row at hand.
LEMMA AcceptedRest ==
  ASSUME TypeOK, Held, Accepted, NEW d \in Drainer, NEW m \in Msg, Rest(d, m),
         drainer[d].phase = "mark" => drainer[d].at = m,
         \A n \in Msg \ {m} : status'[n] = status[n],
         m \in confirmed => status'[m] \in {"SENDING", "DELIVERED"},
         m \notin Ephemeral /\ status'[m] = "DELIVERED" => m \in confirmed,
         confirmed' = confirmed
  PROVE  Accepted'
<1>1. \A e \in Drainer : e # d => drainer'[e] = drainer[e]
  BY DEF Rest, TypeOK
<1>2. drainer'[d].todo = drainer[d].todo \ {m} /\ drainer'[d].phase \in {"idle", "next"}
  BY DEF Rest, Idle, TypeOK
<1>3. Marked'
  BY <1>1, <1>2 DEF Accepted, Marked
<1>4. Seen'
  <2> SUFFICES ASSUME NEW n \in confirmed
               PROVE /\ status'[n] \in {"SENDING", "DELIVERED"}
                     /\ \A e \in Drainer : n \in drainer'[e].todo =>
                           drainer'[e].at = n /\ drainer'[e].phase = "mark"
    BY DEF Seen
  <2>1. n \in Msg /\ status'[n] \in {"SENDING", "DELIVERED"}
    BY DEF TypeOK, Accepted, Seen
  <2>2. n \notin drainer'[d].todo
    BY <1>2 DEF Accepted, Seen
  <2> QED BY <1>1, <2>1, <2>2 DEF Accepted, Seen
<1>5. DeliveredWasAccepted'
  BY DEF Accepted, DeliveredWasAccepted
<1> QED BY <1>3, <1>4, <1>5 DEF Accepted

\* A claim never takes a message that was seen accepted.
LEMMA AcceptedClaim ==
  ASSUME TypeOK, Held, Accepted, NEW d \in Drainer, Claim(d) PROVE Accepted'
<1>1. PICK rows \in SUBSET Claimable :
        /\ status' = [m \in Msg |-> IF m \in rows THEN "SENDING" ELSE status[m]]
        /\ drainer' = [drainer EXCEPT ![d] =
             [Idle EXCEPT !.phase = "next", !.todo = rows,
                          !.tries = [m \in Msg |-> IF m \in rows THEN attempts[m] ELSE 0]]]
  BY DEF Claim
<1>2. confirmed' = confirmed /\ \A m \in rows : m \notin confirmed
  BY DEF Claim, Claimable, ClaimStates, Accepted, Seen
<1>3. drainer'[d].todo = rows /\ drainer'[d].phase = "next"
      /\ \A e \in Drainer : e # d => drainer'[e] = drainer[e]
  BY <1>1 DEF Idle, TypeOK
<1>4. Seen'
  BY <1>1, <1>2, <1>3 DEF Accepted, Seen, TypeOK
<1>5. Marked' /\ DeliveredWasAccepted'
  BY <1>1, <1>2, <1>3 DEF Accepted, Marked, DeliveredWasAccepted
<1> QED BY <1>4, <1>5 DEF Accepted

\* A request changes only what its own drainer knows of its own message.
LEMMA AcceptedPost ==
  ASSUME TypeOK, Held, Accepted, NEW d \in Drainer, NEW m \in Msg,
         NEW response \in Responses, Post(d, m, response)
  PROVE  Accepted'
<1>1. /\ drainer[d].phase = "next" /\ m \in drainer[d].todo /\ status' = status
      /\ confirmed' = IF response = "ok" THEN confirmed \cup {m} ELSE confirmed
      /\ \A e \in Drainer : e # d => drainer'[e] = drainer[e]
      /\ drainer'[d].at = m /\ drainer'[d].todo = drainer[d].todo
      /\ drainer'[d].phase = IF response = "ok" \/ m \in Ephemeral THEN "mark" ELSE "advance"
  BY DEF Post, Forgive, row, TypeOK
<1>2. \A n \in drainer[d].todo : n \notin confirmed
  BY <1>1 DEF Accepted, Seen
<1>3. \A e \in Drainer : e # d => m \notin drainer[e].todo
  BY <1>1 DEF Held, Apart
<1>4. status[m] = "SENDING"
  BY <1>1 DEF Held, InHand
<1>5. Seen'
  <2> SUFFICES ASSUME NEW n \in confirmed'
               PROVE /\ status[n] \in {"SENDING", "DELIVERED"}
                     /\ \A e \in Drainer : n \in drainer'[e].todo =>
                           drainer'[e].at = n /\ drainer'[e].phase = "mark"
    BY <1>1 DEF Seen
  <2>1. CASE n = m /\ response = "ok"
    BY <1>1, <1>3, <1>4, <2>1
  <2>2. CASE n \in confirmed
    BY <1>1, <1>2, <2>2 DEF Accepted, Seen
  <2> QED BY <1>1, <2>1, <2>2
<1>6. Marked' /\ DeliveredWasAccepted'
  BY <1>1 DEF Accepted, Marked, DeliveredWasAccepted
<1> QED BY <1>5, <1>6 DEF Accepted

\* No step offers an accepted message again or records an unaccepted one.
LEMMA AcceptedStep == TypeOK /\ Held /\ Accepted /\ [Next]_vars => Accepted'
<1> SUFFICES ASSUME TypeOK, Held, Accepted, [Next]_vars PROVE Accepted'
  OBVIOUS
<1>1. ASSUME UNCHANGED <<status, drainer, confirmed>> PROVE Accepted'
  BY <1>1 DEF Accepted, Seen, Marked, DeliveredWasAccepted
<1>2. ASSUME NEW m \in Msg, Insert(m) PROVE Accepted'
  <2>1. m \notin confirmed
    BY <1>2 DEF Insert, Accepted, Seen
  <2>2. status' = [status EXCEPT ![m] = "PENDING"] /\ UNCHANGED <<drainer, confirmed>>
    BY <1>2 DEF Insert
  <2> QED BY <2>1, <2>2 DEF Accepted, Seen, Marked, DeliveredWasAccepted, TypeOK
<1>3. ASSUME NEW d \in Drainer, Mark(d) PROVE Accepted'
  <2> DEFINE m == drainer[d].at
  <2>1. m \in Msg /\ status[m] = "SENDING" /\ m \in confirmed \cup Ephemeral
    BY <1>3 DEF Mark, Held, InHand, Accepted, Marked, TypeOK
  <2>2. Rest(d, m) /\ confirmed' = confirmed
    BY <1>3 DEF Mark
  <2>3. status' = [status EXCEPT ![m] = "DELIVERED"]
    BY <1>3, <2>1 DEF Mark
  <2>4. drainer[d].phase = "mark" => drainer[d].at = m
    OBVIOUS
  <2> HIDE DEF m
  <2>5. status'[m] = "DELIVERED" /\ \A n \in Msg \ {m} : status'[n] = status[n]
    BY <2>1, <2>3 DEF TypeOK
  <2> QED BY <2>1, <2>2, <2>4, <2>5, AcceptedRest
<1>4. ASSUME NEW d \in Drainer, Advance(d) PROVE Accepted'
  <2> DEFINE m == drainer[d].at
  <2>1. m \in drainer[d].todo /\ m \in Msg /\ \A n \in Msg \ {m} : status'[n] = status[n]
    BY <1>4, AdvanceCounts
  <2>2. drainer[d].phase = "advance" /\ Rest(d, m) /\ confirmed' = confirmed
    BY <1>4 DEF Advance
  <2>3. m \notin confirmed
    BY <2>1, <2>2 DEF Accepted, Seen
  <2>4. status'[m] # "DELIVERED"
    BY <1>4, AdvanceCounts DEF Verdict
  <2> HIDE DEF m
  <2> QED BY <2>1, <2>2, <2>3, <2>4, AcceptedRest
<1>5. ASSUME NEW d \in Drainer, NEW m \in Msg, Skip(d, m) PROVE Accepted'
  <2>1. /\ drainer[d].phase = "next" /\ m \in drainer[d].todo /\ Rest(d, m)
        /\ status' = status /\ confirmed' = confirmed
    BY <1>5 DEF Skip, row
  <2>2. m \notin confirmed /\ (m \notin Ephemeral /\ status[m] = "DELIVERED" => m \in confirmed)
    BY <2>1 DEF Accepted, Seen, DeliveredWasAccepted
  <2> QED BY <2>1, <2>2, AcceptedRest
<1>6. ASSUME NEW d \in Drainer, Break(d) PROVE Accepted'
  <2>1. /\ \A e \in Drainer : e # d => drainer'[e] = drainer[e]
        /\ drainer'[d].todo = {} /\ drainer'[d].phase = "idle"
        /\ UNCHANGED <<status, confirmed>>
    BY <1>6 DEF Break, row, Idle, TypeOK
  <2> QED BY <2>1 DEF Accepted, Seen, Marked, DeliveredWasAccepted
<1>7. CASE Crash
  BY <1>7 DEF Crash, row, Idle, Accepted, Seen, Marked, DeliveredWasAccepted
<1>8. CASE ReapStuck
  <2>1. status' = status
    BY <1>8 DEF ReapStuck, StatusReaped, TypeOK
  <2> QED BY <1>1, <1>8, <2>1 DEF ReapStuck
<1>9. CASE \E m \in Msg : FallDue(m) \/ ClaimAges(m)
  BY <1>1, <1>9 DEF FallDue, ClaimAges
<1>10. CASE \E p \in Producer, e \in Event : LookUp(p, e)
  BY <1>1, <1>10 DEF LookUp, row
<1>11. CASE UNCHANGED vars
  BY <1>1, <1>11 DEF vars
<1> QED BY <1>2, <1>3, <1>4, <1>5, <1>6, <1>7, <1>8, <1>9, <1>10, <1>11,
           AcceptedClaim, AcceptedPost
        DEF Next, Produce, DeliverStep, EnqueuePlain, EnqueueEvent

\* So acceptance is kept throughout.
LEMMA AcceptedAlways == Spec => []Accepted
<1>1. Init => Accepted
  BY DEF Init, Accepted, Seen, Marked, DeliveredWasAccepted, Idle
<1> QED BY <1>1, AcceptedStep, HeldAlways, PTL DEF Spec

\* A message seen accepted is never delivered again, whatever fails afterwards.
THEOREM AcceptedOnce == Spec => []ConfirmedOnce
<1>1. Accepted => ConfirmedOnce
  BY DEF Accepted, Seen, ConfirmedOnce
<1> QED BY <1>1, AcceptedAlways, PTL

\* What is recorded as delivered was accepted, unless it may be missed.
THEOREM DeliveriesWereAccepted == Spec => []DeliveredWasAccepted
<1>1. Accepted => DeliveredWasAccepted
  BY DEF Accepted
<1> QED BY <1>1, AcceptedAlways, PTL
=============================================================================
