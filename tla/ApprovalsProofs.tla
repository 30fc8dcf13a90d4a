--------------------------- MODULE ApprovalsProofs ---------------------------
(***************************************************************************)
(* Theorems about Approvals, for any number of rows, calls and deciders    *)
(* and any capabilities.                                                   *)
(***************************************************************************)
EXTENDS Approvals, FiniteSetTheorems, TLAPS

\* The row r is, or was, a grant for the demand d.
Grounds(r, d) ==
  /\ r \in Approval /\ row[r] \in Rows
  /\ row[r].decision \in {"APPROVED", "EXPIRED"}
  /\ row[r].scope = d.scope
  /\ row[r].policy = "ALLOW_SESSION" => row[r].place = d.place

\* The read-only mode is kept.
ReadOnly(d) == d.path = "request" /\ settings.mode = "plan" => d.tier = "read"

WaitingOK(k) ==
  /\ k.audit \/ ~DefaultDeny(k.demand)
  /\ k.audit => k.demand.path \notin {"policy", "preview"}
  /\ ReadOnly(k.demand)
  /\ k.pc = "spend" => k.tries < 2 /\ ~k.audit
  /\ \A g \in k.todo : Grounds(g[1], k.demand)

RanOK(k) ==
  /\ ~DefaultDeny(k.demand) /\ ReadOnly(k.demand)
  /\ IF k.ground = None
     THEN ~settings.required \/ k.demand.tier = "read" \/ settings.mode \in {"auto", "unrestricted"}
     ELSE Grounds(k.ground, k.demand)

\* What is known of a call on its way, and of one that ran.
CallOK(k) ==
  /\ k.pc \in {"clock", "read", "choose", "spend"} => WaitingOK(k)
  /\ k.pc = "ran" => RanOK(k)

Inv ==
  /\ TypeOK
  /\ \A c \in Call : CallOK(call[c])
  /\ \A r \in sweeping : row[r] # None
  /\ \A d \in Decider : decider[d].pc # "idle" => row[decider[d].r] # None
  /\ \A r \in Approval : row[r] # None /\ row[r].decision = "PENDING" => ~row[r].consumed

-----------------------------------------------------------------------------
(* What a step may do to a row.                                            *)

Born(r)    == /\ row[r] = None /\ row'[r] \in Rows
              /\ row'[r].decision \in {"PENDING", "DENIED"} /\ ~row'[r].consumed
Spent(r)   == /\ row[r] \in Rows /\ row[r].decision \in {"APPROVED", "EXPIRED"}
              /\ row'[r] = [row[r] EXCEPT !.consumed = TRUE]
Decided(r) == /\ row[r] \in Rows /\ row[r].decision = "PENDING"
              /\ \E x \in {"APPROVED", "DENIED"}, y \in Policies :
                   row'[r] = [row[r] EXCEPT !.decision = x, !.policy = y]
Lapsed(r)  == /\ row[r] \in Rows
              /\ row'[r] = [row[r] EXCEPT !.decision = "EXPIRED", !.policy = "ALLOW_ONCE", !.consumed = FALSE]

RowMoves ==
  \/ UNCHANGED row
  \/ \E r \in Approval :
       /\ \A q \in Approval \ {r} : row'[q] = row[q]
       /\ row' = [q \in Approval |-> row'[q]]
       /\ Born(r) \/ Spent(r) \/ Decided(r) \/ Lapsed(r)

LEMMA Asked ==
  ASSUME TypeOK, NEW d \in Demands, Request(d)
  PROVE  RowMoves
<1>1. PICK r \in Approval : row[r] = None /\ row' = [row EXCEPT ![r] = Row(IF d.scope \in Dangerous THEN "DENIED" ELSE "PENDING", d)]
  BY DEF Request
<1>2. row \in [Approval -> Rows \cup {None}]
  BY DEF TypeOK
<1>3. Born(r)
  BY <1>1, <1>2 DEF Born, Row, Rows, Decisions, Policies
<1> QED
  BY <1>1, <1>2, <1>3 DEF RowMoves

LEMMA Consumed ==
  ASSUME TypeOK, NEW r, NEW d, Grounds(r, d), NEW late, Consume(r, late)
  PROVE  RowMoves /\ Spent(r)
<1>1. /\ r \in Approval /\ row \in [Approval -> Rows \cup {None}]
      /\ row' = [row EXCEPT ![r].consumed = TRUE]
  BY DEF TypeOK, Consume, Grounds
<1>2. Spent(r)
  BY <1>1 DEF Spent, Grounds
<1> QED
  BY <1>1, <1>2 DEF RowMoves

LEMMA Overwritten ==
  ASSUME TypeOK, NEW r \in Approval, row[r] # None, Overwrite(r)
  PROVE  RowMoves
<1>1. /\ row \in [Approval -> Rows \cup {None}]
      /\ row' = [row EXCEPT ![r].decision = "EXPIRED", ![r].policy = "ALLOW_ONCE", ![r].consumed = FALSE]
  BY DEF TypeOK, Overwrite
<1>2. Lapsed(r)
  BY <1>1 DEF Lapsed
<1> QED
  BY <1>1, <1>2 DEF RowMoves

-----------------------------------------------------------------------------
(* What follows from it.                                                   *)

LEMMA RowsKeepTheirType ==
  ASSUME TypeOK, RowMoves
  PROVE  row' \in [Approval -> Rows \cup {None}]
<1>1. row \in [Approval -> Rows \cup {None}]
  BY DEF TypeOK
<1>2. CASE UNCHANGED row
  BY <1>1, <1>2
<1>3. ASSUME NEW r \in Approval, row' = [q \in Approval |-> row'[q]],
             \A q \in Approval \ {r} : row'[q] = row[q],
             Born(r) \/ Spent(r) \/ Decided(r) \/ Lapsed(r)
      PROVE  row' \in [Approval -> Rows \cup {None}]
  <2>1. row'[r] \in Rows
    BY <1>3 DEF Born, Spent, Decided, Lapsed, Rows, Decisions, Policies
  <2> QED
    BY <1>1, <1>3, <2>1
<1> QED
  BY <1>2, <1>3 DEF RowMoves

\* A row stays, a grant for a demand stays one, and a pending row is not consumed.
LEMMA GroundsStay ==
  ASSUME Inv, RowMoves
  PROVE  /\ \A r \in Approval : row[r] # None => row'[r] # None
         /\ \A r, d : Grounds(r, d) => Grounds(r, d)'
         /\ \A r \in Approval : row'[r] # None /\ row'[r].decision = "PENDING" => ~row'[r].consumed
<1>1. TypeOK /\ row \in [Approval -> Rows \cup {None}] /\ None \notin Rows
  BY RowAssumption DEF Inv, TypeOK
<1>2. CASE UNCHANGED row
  BY <1>2 DEF Inv, Grounds
<1>3. ASSUME NEW r \in Approval,
             \A q \in Approval \ {r} : row'[q] = row[q],
             Born(r) \/ Spent(r) \/ Decided(r) \/ Lapsed(r)
      PROVE  /\ \A q \in Approval : row[q] # None => row'[q] # None
             /\ \A q, d : Grounds(q, d) => Grounds(q, d)'
             /\ \A q \in Approval : row'[q] # None /\ row'[q].decision = "PENDING" => ~row'[q].consumed
  <2>1. row'[r] \in Rows
    BY <1>3 DEF Born, Spent, Decided, Lapsed, Rows, Decisions, Policies
  <2>2. \A d : Grounds(r, d) => Grounds(r, d)'
    BY <1>1, <1>3, <2>1 DEF Grounds, Born, Spent, Decided, Lapsed, Rows
  <2>3. row'[r].decision = "PENDING" => ~row'[r].consumed
    BY <1>1, <1>3, <2>1 DEF Inv, Born, Spent, Decided, Lapsed, Rows
  <2>4. \A q \in Approval \ {r} : \A d : Grounds(q, d) => Grounds(q, d)'
    BY <1>3 DEF Grounds
  <2> QED
    BY <1>1, <1>3, <2>1, <2>2, <2>3, <2>4 DEF Inv, Grounds
<1> QED
  BY <1>2, <1>3 DEF RowMoves

-----------------------------------------------------------------------------
(* What a step may do to a call.                                           *)

\* The call c, not yet run, becomes k; it wins only what it spends.
Becomes(c, k) ==
  /\ call[c].pc # "ran" /\ call' = [call EXCEPT ![c] = k]
  /\ k \in Calls /\ CallOK(k)
  /\ k.pc = "ran" /\ k.won => ~row[k.ground].consumed /\ Spent(k.ground)

CallMoves(c) == \E k \in Calls : Becomes(c, k)

LEMMA RefusedMoves ==
  ASSUME TypeOK, NEW c \in Call, call[c].pc # "ran", Refuses(c)
  PROVE  CallMoves(c)
<1> DEFINE k == [pc |-> "refused"]
<1>1. call' = [call EXCEPT ![c] = k]
  BY DEF Refuses
<1>2. k \in Calls
  BY DEF Calls
<1>3. k.pc = "refused"
  OBVIOUS
<1>4. Becomes(c, k)
  <2> HIDE DEF k
  <2> QED
    BY <1>1, <1>2, <1>3 DEF Becomes, CallOK
<1> QED
  BY <1>2, <1>4 DEF CallMoves

LEMMA RunMoves ==
  ASSUME TypeOK, NEW c \in Call, call[c].pc # "ran", NEW d \in Demands,
         NEW g \in Approval \cup {None}, NEW won \in BOOLEAN,
         call' = [call EXCEPT ![c] = Executed(d, g, won)],
         ~DefaultDeny(d), ReadOnly(d),
         IF g = None
         THEN ~settings.required \/ d.tier = "read" \/ settings.mode \in {"auto", "unrestricted"}
         ELSE Grounds(g, d),
         won => ~row[g].consumed /\ Spent(g)
  PROVE  CallMoves(c)
<1> DEFINE k == Executed(d, g, won)
<1>1. k \in Calls
  BY DEF Executed, Calls
<1>2. k.pc = "ran" /\ k.demand = d /\ k.ground = g /\ k.won = won
  BY DEF Executed
<1>3. Becomes(c, k)
  <2> HIDE DEF k
  <2>1. call' = [call EXCEPT ![c] = k]
    BY DEF k
  <2> QED
    BY <1>1, <1>2, <2>1 DEF Becomes, CallOK, RanOK
<1> QED
  BY <1>1, <1>3 DEF CallMoves

LEMMA SeekMoves ==
  ASSUME TypeOK, NEW c \in Call, call[c].pc # "ran", NEW d \in Demands, NEW audit \in BOOLEAN,
         Seeks(c, d, audit), audit \/ ~DefaultDeny(d), ReadOnly(d),
         audit => d.path \notin {"policy", "preview"}
  PROVE  CallMoves(c)
<1> DEFINE k == [pc |-> "clock", demand |-> d, audit |-> audit, late |-> {}, todo |-> {}, tries |-> 0]
<1>1. k \in Calls
  BY DEF Calls
<1>2. k.pc = "clock" /\ k.demand = d /\ k.audit = audit /\ k.todo = {}
  OBVIOUS
<1>3. call' = [call EXCEPT ![c] = k]
  BY DEF Seeks
<1>4. Becomes(c, k)
  <2> HIDE DEF k
  <2> QED
    BY <1>1, <1>2, <1>3 DEF Becomes, CallOK, WaitingOK
<1> QED
  BY <1>1, <1>4 DEF CallMoves

LEMMA StartMoves ==
  ASSUME Inv, NEW c \in Call, Start(c)
  PROVE  RowMoves /\ CallMoves(c)
<1>1. TypeOK /\ call[c].pc # "ran"
  BY DEF Inv, Start, At
<1>2. PICK d \in Demands :
       \/ d.path \in {"tool", "request", "policy", "preview"} /\ Refused(c)
       \/ d.path = "tool" /\ ToolCall(c, d)
       \/ d.path = "request" /\ Plan(d) # "refuse" /\ ToolCall(c, d)
       \/ d.path \in {"policy", "preview"} /\ PolicyCall(c, d)
       \/ d.path = "exec" /\ IF settings.required THEN Seeks(c, d, FALSE) ELSE Free(c, d)
       \/ d.path = "delegate" /\ Delegate(c, d)
  BY DEF Start
<1>3. ASSUME Refused(c)
      PROVE  RowMoves /\ CallMoves(c)
  BY <1>1, <1>3, RefusedMoves DEF Refused, RowMoves
<1>4. ASSUME Asks(c, d)
      PROVE  RowMoves /\ CallMoves(c)
  BY <1>1, <1>4, RefusedMoves, Asked DEF Asks
<1>5. ASSUME Free(c, d), ~DefaultDeny(d), ReadOnly(d),
             ~settings.required \/ d.tier = "read" \/ settings.mode \in {"auto", "unrestricted"}
      PROVE  RowMoves /\ CallMoves(c)
  <2>1. call' = [call EXCEPT ![c] = Executed(d, None, FALSE)]
    BY <1>5 DEF Free
  <2>2. CallMoves(c)
    BY <1>1, <1>5, <2>1, RunMoves
  <2> QED
    BY <1>5, <2>2 DEF Free, RowMoves
<1>6. ASSUME NEW audit \in BOOLEAN, Seeks(c, d, audit), audit \/ ~DefaultDeny(d), ReadOnly(d),
             audit => d.path \notin {"policy", "preview"}
      PROVE  RowMoves /\ CallMoves(c)
  BY <1>1, <1>6, SeekMoves DEF Seeks, RowMoves
<1>7. d.path \in Paths /\ d.tier \in Tiers /\ (d.path \in {"exec", "delegate"} => ~DefaultDeny(d))
  BY DemandAssumption
<1>8. ASSUME d.path \in {"tool", "request"}, d.path = "request" => Plan(d) # "refuse", ToolCall(c, d)
      PROVE  RowMoves /\ CallMoves(c)
  <2>1. ReadOnly(d)
    BY <1>7, <1>8 DEF ReadOnly, Plan, Level, Tiers
  <2>2. Plan(d) = "free" => /\ ~DefaultDeny(d)
                            /\ ~settings.required \/ d.tier = "read" \/ settings.mode \in {"auto", "unrestricted"}
    BY DEF Plan, Required
  <2> QED
    BY <1>4, <1>5, <1>6, <1>8, <2>1, <2>2 DEF ToolCall, DefaultDeny
<1>9. ASSUME d.path \in {"policy", "preview"}, PolicyCall(c, d)
      PROVE  RowMoves /\ CallMoves(c)
  <2>1. ReadOnly(d)
    BY <1>9 DEF ReadOnly
  <2> QED
    BY <1>3, <1>4, <1>5, <1>6, <1>9, <2>1 DEF PolicyCall, Required
<1>10. ASSUME d.path = "exec", IF settings.required THEN Seeks(c, d, FALSE) ELSE Free(c, d)
       PROVE  RowMoves /\ CallMoves(c)
  BY <1>5, <1>6, <1>7, <1>10 DEF ReadOnly
<1>11. ASSUME d.path = "delegate", Delegate(c, d)
       PROVE  RowMoves /\ CallMoves(c)
  <2>1. ReadOnly(d) /\ ~DefaultDeny(d)
    BY <1>7, <1>11 DEF ReadOnly
  <2>2. ASSUME NEW r \in Approval, row[r] # None, row[r].decision = "APPROVED",
               row[r].scope = d.scope, row[r].place = d.place,
               call' = [call EXCEPT ![c] = Executed(d, r, FALSE)], UNCHANGED row
        PROVE  RowMoves /\ CallMoves(c)
    <3>1. Grounds(r, d) /\ r # None
      BY <1>1, <2>2, RowAssumption DEF TypeOK, Grounds
    <3> QED
      BY <1>1, <2>1, <2>2, <3>1, RunMoves DEF RowMoves
  <2> QED
    BY <1>4, <1>11, <2>1, <2>2 DEF Delegate
<1> QED
  BY <1>2, <1>3, <1>8, <1>9, <1>10, <1>11

Waiting == {"clock", "read", "choose", "spend"}

LEMMA WaitingCall ==
  ASSUME Inv, NEW c \in Call, call[c].pc \in Waiting
  PROVE  /\ WaitingOK(call[c])
         /\ call[c] \in [pc : Waiting, demand : Demands, audit : BOOLEAN, late : SUBSET Approval,
                         todo : SUBSET (Approval \X Policies), tries : 0..2]
<1>1. call[c] \in Calls /\ CallOK(call[c])
  BY DEF Inv, TypeOK
<1>2. call[c] \in [pc : Waiting, demand : Demands, audit : BOOLEAN, late : SUBSET Approval,
                   todo : SUBSET (Approval \X Policies), tries : 0..2]
  BY <1>1 DEF Calls, Waiting
<1> QED
  BY <1>1, <1>2 DEF CallOK, Waiting

\* A waiting call that goes on waiting.
LEMMA GoesOn ==
  ASSUME Inv, NEW c \in Call, call[c].pc \in Waiting, NEW pc \in Waiting, NEW late \in SUBSET Approval,
         NEW todo \in SUBSET (Approval \X Policies), NEW tries \in 0..2,
         call' = [call EXCEPT ![c].pc = pc, ![c].late = late, ![c].todo = todo, ![c].tries = tries],
         pc = "spend" => tries < 2 /\ ~call[c].audit,
         \A g \in todo : Grounds(g[1], call[c].demand)
  PROVE  CallMoves(c)
<1> DEFINE k == [call[c] EXCEPT !.pc = pc, !.late = late, !.todo = todo, !.tries = tries]
<1>1. /\ WaitingOK(call[c])
      /\ call[c] \in [pc : Waiting, demand : Demands, audit : BOOLEAN, late : SUBSET Approval,
                      todo : SUBSET (Approval \X Policies), tries : 0..2]
  BY WaitingCall
<1>2. /\ k \in [pc : Waiting, demand : Demands, audit : BOOLEAN, late : SUBSET Approval,
                todo : SUBSET (Approval \X Policies), tries : 0..2]
      /\ k.pc = pc /\ k.demand = call[c].demand /\ k.audit = call[c].audit /\ k.todo = todo /\ k.tries = tries
  BY <1>1
<1>3. call' = [call EXCEPT ![c] = k]
  BY DEF Inv, TypeOK
<1>4. Becomes(c, k) /\ k \in Calls
  <2> HIDE DEF k
  <2>1. WaitingOK(k)
    BY <1>1, <1>2 DEF WaitingOK
  <2>2. k.pc # "ran" /\ call[c].pc # "ran" /\ k \in Calls
    BY <1>2 DEF Waiting, Calls
  <2> QED
    BY <1>2, <1>3, <2>1, <2>2 DEF Becomes, CallOK
<1> QED
  BY <1>4 DEF CallMoves

LEMMA ReadClockMoves ==
  ASSUME Inv, NEW c \in Call, ReadClock(c)
  PROVE  RowMoves /\ CallMoves(c)
<1>1. /\ call[c].pc \in Waiting /\ UNCHANGED row /\ expired \in SUBSET Approval
      /\ call' = [call EXCEPT ![c].pc = "read", ![c].late = expired]
  BY DEF ReadClock, At, Waiting, Inv, TypeOK
<1>2. /\ WaitingOK(call[c])
      /\ call[c] \in [pc : Waiting, demand : Demands, audit : BOOLEAN, late : SUBSET Approval,
                      todo : SUBSET (Approval \X Policies), tries : 0..2]
  BY <1>1, WaitingCall
<1>3. call' = [call EXCEPT ![c].pc = "read", ![c].late = expired, ![c].todo = call[c].todo,
                           ![c].tries = call[c].tries]
  BY <1>1, <1>2 DEF Inv, TypeOK
<1>4. "read" \in Waiting /\ call[c].todo \in SUBSET (Approval \X Policies) /\ call[c].tries \in 0..2
      /\ \A g \in call[c].todo : Grounds(g[1], call[c].demand)
  BY <1>2 DEF Waiting, WaitingOK
<1> QED
  BY <1>1, <1>3, <1>4, GoesOn DEF RowMoves

LEMMA ReadGrantsMoves ==
  ASSUME Inv, NEW c \in Call, ReadGrants(c)
  PROVE  RowMoves /\ CallMoves(c)
<1> DEFINE todo == Grants(c)
<1>1. /\ call[c].pc \in Waiting /\ UNCHANGED row
      /\ call' = [call EXCEPT ![c].pc = "choose", ![c].todo = todo]
  BY DEF ReadGrants, At, Waiting
<1>2. /\ WaitingOK(call[c])
      /\ call[c] \in [pc : Waiting, demand : Demands, audit : BOOLEAN, late : SUBSET Approval,
                      todo : SUBSET (Approval \X Policies), tries : 0..2]
  BY <1>1, WaitingCall
<1>3. ASSUME NEW g \in todo
      PROVE  g \in Approval \X Policies /\ Grounds(g[1], call[c].demand)
  <2>1. PICK r \in Approval : /\ g = <<r, row[r].policy>> /\ row[r] # None
                              /\ row[r].decision = "APPROVED" /\ Matches(r, call[c].demand)
    BY DEF Grants
  <2>2. row[r] \in Rows
    BY <2>1 DEF Inv, TypeOK
  <2>3. g[1] = r /\ row[r].policy \in Policies
    BY <2>1, <2>2 DEF Rows
  <2> QED
    BY <2>1, <2>2, <2>3 DEF Grounds, Matches
<1> HIDE DEF todo
<1>4. call' = [call EXCEPT ![c].pc = "choose", ![c].late = call[c].late, ![c].todo = todo,
                           ![c].tries = call[c].tries]
  BY <1>1, <1>2 DEF Inv, TypeOK
<1>5. "choose" \in Waiting /\ todo \in SUBSET (Approval \X Policies) /\ call[c].tries \in 0..2
      /\ call[c].late \in SUBSET Approval
  BY <1>2, <1>3 DEF Waiting
<1> QED
  BY <1>1, <1>3, <1>4, <1>5, GoesOn DEF RowMoves

LEMMA AskForGrantMoves ==
  ASSUME Inv, NEW c \in Call, AskForGrant(c)
  PROVE  RowMoves /\ CallMoves(c)
<1>1. TypeOK /\ call[c].pc \in Waiting /\ call[c].pc # "ran" /\ Refuses(c) /\ Request(call[c].demand)
  BY DEF Inv, AskForGrant, At, Waiting, Asks
<1>2. call[c].demand \in Demands
  BY <1>1, WaitingCall
<1> QED
  BY <1>1, <1>2, RefusedMoves, Asked

\* A grant that is used as it is, or spent.
LEMMA GrantMoves ==
  ASSUME Inv, NEW c \in Call, call[c].pc \in Waiting, ~call[c].audit,
         NEW g \in call[c].todo, NEW won \in BOOLEAN, Runs(c, g[1], won),
         won => ~row[g[1]].consumed /\ Spent(g[1])
  PROVE  CallMoves(c)
<1>1. /\ WaitingOK(call[c]) /\ call[c].demand \in Demands
      /\ g \in Approval \X Policies
  BY WaitingCall
<1>2. g[1] \in Approval /\ g[1] # None /\ Grounds(g[1], call[c].demand)
  BY <1>1, RowAssumption DEF WaitingOK
<1>3. call' = [call EXCEPT ![c] = Executed(call[c].demand, g[1], won)]
  BY DEF Runs, Inv, TypeOK
<1>4. TypeOK /\ call[c].pc # "ran" /\ ~DefaultDeny(call[c].demand) /\ ReadOnly(call[c].demand)
  BY <1>1 DEF Inv, Waiting, WaitingOK
<1> QED
  BY <1>1, <1>2, <1>3, <1>4, RunMoves

LEMMA TryGrantMoves ==
  ASSUME Inv, NEW c \in Call, TryGrant(c)
  PROVE  RowMoves /\ CallMoves(c)
<1>1. TypeOK /\ call[c].pc \in Waiting /\ call[c].pc # "ran"
  BY DEF Inv, TryGrant, At, Waiting
<1>2. /\ WaitingOK(call[c])
      /\ call[c] \in [pc : Waiting, demand : Demands, audit : BOOLEAN, late : SUBSET Approval,
                      todo : SUBSET (Approval \X Policies), tries : 0..2]
  BY <1>1, WaitingCall
<1>3. PICK g \in call[c].todo :
        \/ Allowed(c, g[1], FALSE) /\ UNCHANGED row
        \/ Consume(g[1], call[c].late) /\ Allowed(c, g[1], TRUE)
        \/ call' = [call EXCEPT ![c].todo = @ \ {g}] /\ UNCHANGED row
  BY DEF TryGrant
<1>4. CASE Allowed(c, g[1], FALSE) /\ UNCHANGED row
  BY <1>1, <1>2, <1>4, GrantMoves, RefusedMoves DEF Allowed, RowMoves
<1>5. CASE Consume(g[1], call[c].late) /\ Allowed(c, g[1], TRUE)
  <2>1. Grounds(g[1], call[c].demand) /\ ~row[g[1]].consumed
    BY <1>2, <1>5 DEF WaitingOK, Consume
  <2>2. RowMoves /\ Spent(g[1])
    BY <1>1, <1>5, <2>1, Consumed
  <2> QED
    BY <1>1, <1>5, <2>1, <2>2, GrantMoves, RefusedMoves DEF Allowed
<1>6. CASE call' = [call EXCEPT ![c].todo = @ \ {g}] /\ UNCHANGED row
  <2> DEFINE todo == call[c].todo \ {g}
  <2>1. call' = [call EXCEPT ![c].pc = call[c].pc, ![c].late = call[c].late, ![c].todo = todo,
                             ![c].tries = call[c].tries]
    BY <1>2, <1>6 DEF Inv, TypeOK
  <2>2. /\ todo \in SUBSET (Approval \X Policies)
        /\ \A h \in todo : Grounds(h[1], call[c].demand)
        /\ call[c].pc = "spend" => call[c].tries < 2 /\ ~call[c].audit
        /\ call[c].tries \in 0..2 /\ call[c].late \in SUBSET Approval
    BY <1>2 DEF WaitingOK
  <2> HIDE DEF todo
  <2>3. CallMoves(c)
    BY <1>1, <2>1, <2>2, GoesOn
  <2> QED
    BY <1>6, <2>3 DEF RowMoves
<1> QED
  BY <1>3, <1>4, <1>5, <1>6

LEMMA JudgeMoves ==
  ASSUME Inv, NEW c \in Call, Judge(c)
  PROVE  RowMoves /\ CallMoves(c)
<1>1. TypeOK /\ call[c].pc \in Waiting /\ call[c].pc # "ran" /\ Evaluates(c) /\ UNCHANGED row
  BY DEF Inv, Judge, At, Waiting
<1>2. /\ WaitingOK(call[c])
      /\ call[c] \in [pc : Waiting, demand : Demands, audit : BOOLEAN, late : SUBSET Approval,
                      todo : SUBSET (Approval \X Policies), tries : 0..2]
  BY <1>1, WaitingCall
<1>3. ~call[c].audit
  BY <1>1, <1>2 DEF Evaluates, WaitingOK
<1>4. PICK g \in call[c].todo :
        \/ Refuses(c)
        \/ call[c].tries < 2 /\ call' = [call EXCEPT ![c].pc = "spend"]
        \/ Runs(c, g[1], FALSE)
  BY DEF Judge
<1>5. CASE Refuses(c)
  BY <1>1, <1>5, RefusedMoves DEF RowMoves
<1>6. CASE call[c].tries < 2 /\ call' = [call EXCEPT ![c].pc = "spend"]
  <2>1. call' = [call EXCEPT ![c].pc = "spend", ![c].late = call[c].late, ![c].todo = call[c].todo,
                             ![c].tries = call[c].tries]
    BY <1>2, <1>6 DEF Inv, TypeOK
  <2>2. /\ "spend" \in Waiting /\ call[c].todo \in SUBSET (Approval \X Policies)
        /\ \A h \in call[c].todo : Grounds(h[1], call[c].demand)
        /\ call[c].tries \in 0..2 /\ call[c].late \in SUBSET Approval
    BY <1>2 DEF WaitingOK, Waiting
  <2>3. "spend" = "spend" => call[c].tries < 2 /\ ~call[c].audit
    BY <1>3, <1>6
  <2>4. CallMoves(c)
    BY <1>1, <2>1, <2>2, <2>3, GoesOn
  <2> QED
    BY <1>1, <2>4 DEF RowMoves
<1>7. CASE Runs(c, g[1], FALSE)
  BY <1>1, <1>3, <1>7, GrantMoves DEF RowMoves
<1> QED
  BY <1>4, <1>5, <1>6, <1>7

LEMMA SpendGrantMoves ==
  ASSUME Inv, NEW c \in Call, SpendGrant(c)
  PROVE  RowMoves /\ CallMoves(c)
<1>1. TypeOK /\ call[c].pc \in Waiting /\ call[c].pc = "spend"
  BY DEF Inv, SpendGrant, At, Waiting
<1>2. /\ WaitingOK(call[c])
      /\ call[c] \in [pc : Waiting, demand : Demands, audit : BOOLEAN, late : SUBSET Approval,
                      todo : SUBSET (Approval \X Policies), tries : 0..2]
  BY <1>1, WaitingCall
<1>3. ~call[c].audit /\ call[c].tries < 2
  BY <1>1, <1>2 DEF WaitingOK
<1>4. PICK g \in call[c].todo :
        \/ Consume(g[1], expired) /\ Runs(c, g[1], TRUE)
        \/ call' = [call EXCEPT ![c].pc = "clock", ![c].tries = @ + 1] /\ UNCHANGED row
  BY DEF SpendGrant
<1>5. CASE Consume(g[1], expired) /\ Runs(c, g[1], TRUE)
  <2>1. Grounds(g[1], call[c].demand) /\ ~row[g[1]].consumed
    BY <1>2, <1>5 DEF WaitingOK, Consume
  <2>2. RowMoves /\ Spent(g[1])
    BY <1>1, <1>5, <2>1, Consumed
  <2> QED
    BY <1>1, <1>3, <1>5, <2>1, <2>2, GrantMoves
<1>6. CASE call' = [call EXCEPT ![c].pc = "clock", ![c].tries = @ + 1] /\ UNCHANGED row
  <2> DEFINE tries == call[c].tries + 1
  <2>1. call' = [call EXCEPT ![c].pc = "clock", ![c].late = call[c].late, ![c].todo = call[c].todo,
                             ![c].tries = tries]
    BY <1>2, <1>6 DEF Inv, TypeOK
  <2>2. /\ "clock" \in Waiting /\ call[c].todo \in SUBSET (Approval \X Policies)
        /\ \A h \in call[c].todo : Grounds(h[1], call[c].demand)
        /\ tries \in 0..2 /\ call[c].late \in SUBSET Approval
    BY <1>2, <1>3 DEF WaitingOK, Waiting
  <2> HIDE DEF tries
  <2>3. CallMoves(c)
    BY <1>1, <2>1, <2>2, GoesOn
  <2> QED
    BY <1>6, <2>3 DEF RowMoves
<1> QED
  BY <1>4, <1>5, <1>6

-----------------------------------------------------------------------------
(* The invariant.                                                          *)

LEMMA Initially == ASSUME Init PROVE Inv
<1>1. TypeOK
  BY DEF Init, TypeOK, Calls
<1> QED
  BY <1>1 DEF Init, Inv, CallOK

\* A step of a call.
CallSteps(c) ==
  Start(c) \/ ReadClock(c) \/ ReadGrants(c) \/ AskForGrant(c) \/ TryGrant(c) \/ Judge(c) \/ SpendGrant(c)

LEMMA CallStepMoves ==
  ASSUME Inv, NEW c \in Call, CallSteps(c)
  PROVE  RowMoves /\ CallMoves(c)
BY StartMoves, ReadClockMoves, ReadGrantsMoves, AskForGrantMoves, TryGrantMoves, JudgeMoves, SpendGrantMoves
   DEF CallSteps

\* What the others do to the rows.
LEMMA OtherRowMoves ==
  ASSUME Inv,
         \/ \E d \in Decider : DecideReads(d) \/ DecideWrites(d)
         \/ \E r \in Approval : SweepWrites(r) \/ Expire(r)
         \/ Post \/ SweepLists
  PROVE  RowMoves /\ UNCHANGED call
<1>1. TypeOK
  BY DEF Inv
<1>2. ASSUME NEW d \in Decider, DecideWrites(d)
      PROVE  RowMoves
  <2> DEFINE x == decider[d]
  <2>1. /\ x \in [pc : {"expire", "decide"}, r : Approval, policy : Policies,
                  decision : {"APPROVED", "DENIED"}]
        /\ row[x.r] # None
    BY <1>2 DEF DecideWrites, Inv, TypeOK
  <2>2. CASE x.pc = "expire" /\ Overwrite(x.r)
    BY <1>1, <2>1, <2>2, Overwritten
  <2>3. CASE /\ x.pc = "decide"
             /\ row' = IF Decidable(x.r)
                       THEN [row EXCEPT ![x.r].decision = x.decision, ![x.r].policy = x.policy]
                       ELSE row
    <3>1. CASE Decidable(x.r)
      <4>1. row' = [row EXCEPT ![x.r].decision = x.decision, ![x.r].policy = x.policy]
        BY <2>3, <3>1
      <4>2. row \in [Approval -> Rows \cup {None}]
        BY <1>1 DEF TypeOK
      <4>3. row[x.r] \in Rows /\ row[x.r].decision = "PENDING"
        BY <2>1, <3>1, <4>2 DEF Decidable
      <4>4. row'[x.r] = [row[x.r] EXCEPT !.decision = x.decision, !.policy = x.policy]
        BY <2>1, <4>1, <4>2
      <4>5. Decided(x.r)
        BY <2>1, <4>3, <4>4 DEF Decided
      <4> QED
        BY <2>1, <4>1, <4>2, <4>5 DEF RowMoves
    <3> QED
      BY <2>3, <3>1 DEF RowMoves
  <2> QED
    BY <1>2, <2>2, <2>3 DEF DecideWrites
<1>3. ASSUME NEW r \in Approval, SweepWrites(r)
      PROVE  RowMoves
  <2>1. row[r] # None
    BY <1>3 DEF SweepWrites, Inv
  <2> QED
    BY <1>1, <1>3, <2>1, Overwritten DEF SweepWrites, RowMoves
<1>4. ASSUME Post
      PROVE  RowMoves
  BY <1>1, <1>4, Asked DEF Post
<1>5. ASSUME NEW d \in Decider, DecideReads(d)
      PROVE  RowMoves
  BY <1>5 DEF DecideReads, RowMoves
<1>6. ASSUME NEW r \in Approval, Expire(r)
      PROVE  RowMoves
  BY <1>6 DEF Expire, RowMoves
<1>7. ASSUME SweepLists
      PROVE  RowMoves
  BY <1>7 DEF SweepLists, RowMoves
<1>8. UNCHANGED call
  BY DEF DecideReads, DecideWrites, SweepWrites, Expire, Post, SweepLists
<1> QED
  BY <1>2, <1>3, <1>4, <1>5, <1>6, <1>7, <1>8

\* Every step moves at most one row and at most one call.
LEMMA Moves ==
  ASSUME Inv, [Next]_vars
  PROVE  RowMoves /\ (UNCHANGED call \/ \E c \in Call : CallMoves(c))
<1>1. CASE \E c \in Call : CallSteps(c)
  BY <1>1, CallStepMoves
<1>2. CASE UNCHANGED vars
  BY <1>2 DEF vars, RowMoves
<1> QED
  BY <1>1, <1>2, OtherRowMoves DEF Next, CallSteps

LEMMA OthersKeepTheirType ==
  ASSUME TypeOK, [Next]_vars
  PROVE  /\ settings' = settings
         /\ expired' \subseteq Approval /\ sweeping' \subseteq Approval
         /\ decider' \in [Decider -> [pc : {"idle"}] \cup
              [pc : {"expire", "decide"}, r : Approval, policy : Policies,
               decision : {"APPROVED", "DENIED"}]]
<1> USE DEF TypeOK
<1>1. CASE \E c \in Call : CallSteps(c)
  BY <1>1 DEF CallSteps, Start, ReadClock, ReadGrants, AskForGrant, TryGrant, Judge, SpendGrant
<1>2. ASSUME NEW d \in Decider, DecideReads(d)
      PROVE  decider' \in [Decider -> [pc : {"idle"}] \cup
              [pc : {"expire", "decide"}, r : Approval, policy : Policies,
               decision : {"APPROVED", "DENIED"}]]
  <2>1. PICK r \in Approval, approve \in BOOLEAN, policy \in Policies :
          decider' = [decider EXCEPT ![d] =
            [pc |-> IF r \in expired THEN "expire" ELSE "decide", r |-> r, policy |-> policy,
             decision |-> IF approve /\ policy # "DENY" /\ row[r].scope \notin Dangerous
                          THEN "APPROVED" ELSE "DENIED"]]
    BY <1>2 DEF DecideReads
  <2> QED
    BY <2>1
<1>3. ASSUME NEW d \in Decider, DecideReads(d) \/ DecideWrites(d)
      PROVE  /\ settings' = settings /\ expired' = expired /\ sweeping' = sweeping
             /\ decider' \in [Decider -> [pc : {"idle"}] \cup
                  [pc : {"expire", "decide"}, r : Approval, policy : Policies,
                   decision : {"APPROVED", "DENIED"}]]
  <2>1. CASE DecideReads(d)
    BY <1>2, <2>1 DEF DecideReads
  <2>2. CASE DecideWrites(d)
    BY <2>2 DEF DecideWrites
  <2> QED
    BY <1>3, <2>1, <2>2
<1>4. ASSUME NEW r \in Approval, SweepWrites(r) \/ Expire(r)
      PROVE  /\ settings' = settings /\ decider' = decider
             /\ expired' \subseteq Approval /\ sweeping' \subseteq Approval
  BY <1>4 DEF SweepWrites, Expire
<1>5. CASE Post \/ SweepLists \/ UNCHANGED vars
  BY <1>5 DEF Post, SweepLists, vars
<1> QED
  BY <1>1, <1>3, <1>4, <1>5 DEF Next, CallSteps

LEMMA StillListed ==
  ASSUME Inv, RowMoves, [Next]_vars
  PROVE  /\ \A r \in sweeping' : row'[r] # None
         /\ \A d \in Decider : decider'[d].pc # "idle" => row'[decider'[d].r] # None
<1> USE DEF Inv, TypeOK
<1>1. \A r \in Approval : row[r] # None => row'[r] # None
  BY GroundsStay
<1>2. \A d \in Decider : decider[d].pc # "idle" => decider[d].r \in Approval
  OBVIOUS
<1>3. ASSUME NEW d \in Decider, DecideReads(d)
      PROVE  \A e \in Decider : decider'[e].pc # "idle" => row'[decider'[e].r] # None
  <2>1. PICK r \in Approval, approve \in BOOLEAN, policy \in Policies :
          /\ row[r] # None
          /\ decider' = [decider EXCEPT ![d] =
               [pc |-> IF r \in expired THEN "expire" ELSE "decide", r |-> r, policy |-> policy,
                decision |-> IF approve /\ policy # "DENY" /\ row[r].scope \notin Dangerous
                             THEN "APPROVED" ELSE "DENIED"]]
    BY <1>3 DEF DecideReads
  <2>2. decider'[d].r = r /\ \A e \in Decider \ {d} : decider'[e] = decider[e]
    BY <2>1
  <2> QED
    BY <1>1, <1>2, <2>1, <2>2
<1>4. ASSUME NEW d \in Decider, DecideWrites(d)
      PROVE  \A e \in Decider : decider'[e].pc # "idle" => row'[decider'[e].r] # None
  BY <1>1, <1>2, <1>4 DEF DecideWrites
<1>5. ASSUME UNCHANGED decider
      PROVE  \A d \in Decider : decider'[d].pc # "idle" => row'[decider'[d].r] # None
  BY <1>1, <1>2, <1>5
<1>6. \A d \in Decider : decider'[d].pc # "idle" => row'[decider'[d].r] # None
  BY <1>3, <1>4, <1>5 DEF Next, vars, Start, ReadClock, ReadGrants, AskForGrant, TryGrant, Judge,
     SpendGrant, SweepWrites, Expire, Post, SweepLists
<1>7. \A r \in sweeping' : r \in Approval /\ row[r] # None
  BY DEF Next, vars, Start, ReadClock, ReadGrants, AskForGrant, TryGrant, Judge, SpendGrant,
     DecideReads, DecideWrites, SweepWrites, Expire, Post, SweepLists
<1> QED
  BY <1>1, <1>6, <1>7

LEMMA Inductive == ASSUME Inv, [Next]_vars PROVE Inv'
<1>1. RowMoves /\ TypeOK /\ (UNCHANGED call \/ \E c \in Call : CallMoves(c))
  BY Moves DEF Inv
<1>2. settings' = settings
  BY <1>1, OthersKeepTheirType
<1>3. call \in [Call -> Calls] /\ \A c \in Call : CallOK(call[c])
  BY DEF Inv, TypeOK
<1>4. call' \in [Call -> Calls] /\ \A c \in Call : CallOK(call'[c])
  <2>1. ASSUME NEW c \in Call, NEW k \in Calls, Becomes(c, k)
        PROVE  call' \in [Call -> Calls] /\ \A d \in Call : CallOK(call'[d])
    BY <1>3, <2>1 DEF Becomes
  <2> QED
    BY <1>1, <1>3, <2>1 DEF CallMoves
<1>5. TypeOK'
  <2>1. row' \in [Approval -> Rows \cup {None}]
    BY <1>1, RowsKeepTheirType
  <2> QED
    BY <1>1, <1>2, <1>4, <2>1, OthersKeepTheirType DEF TypeOK
<1>6. \A c \in Call : CallOK(call[c])'
  <2> SUFFICES ASSUME NEW c \in Call
               PROVE  CallOK(call[c])'
    OBVIOUS
  <2>1. \A r, d : Grounds(r, d) => Grounds(r, d)'
    BY <1>1, GroundsStay
  <2>2. CallOK(call'[c])
    BY <1>4
  <2>3. call'[c].pc \in {"clock", "read", "choose", "spend"} => WaitingOK(call[c])'
    BY <1>2, <2>1, <2>2 DEF CallOK, WaitingOK, ReadOnly
  <2>4. call'[c].pc = "ran" => RanOK(call[c])'
    BY <1>2, <2>1, <2>2 DEF CallOK, RanOK, ReadOnly, DefaultDeny
  <2> QED
    BY <2>3, <2>4 DEF CallOK
<1>7. /\ \A r \in sweeping' : row'[r] # None
      /\ \A d \in Decider : decider'[d].pc # "idle" => row'[decider'[d].r] # None
  BY <1>1, StillListed
<1>8. \A r \in Approval : row'[r] # None /\ row'[r].decision = "PENDING" => ~row'[r].consumed
  BY <1>1, GroundsStay
<1> QED
  BY <1>5, <1>6, <1>7, <1>8 DEF Inv

\* Every variable keeps its type.
THEOREM TypeCorrect == Spec => []TypeOK
<1>1. Inv => TypeOK
  BY DEF Inv
<1> QED
  BY <1>1, Initially, Inductive, PTL DEF Spec

\* No mode, setting, grant or race lets a default-deny capability run
\* (permissions.py: "they are never grantable, regardless of who approves them").
THEOREM DefaultDenyIsKept == Spec => []DefaultDenyHolds
<1>1. Inv => DefaultDenyHolds
  BY DEF Inv, CallOK, RanOK, ReadOnly, DefaultDenyHolds, Ran
<1> QED
  BY <1>1, Initially, Inductive, PTL DEF Spec

\* Whatever runs with approvals switched on was granted, for its scope and place,
\* whatever became of the grant between the look at it and the run (policy.py).
THEOREM WhatRunsIsCovered == Spec => []RunsAreCovered
<1>1. Inv => RunsAreCovered
  BY DEF Inv, CallOK, RanOK, Grounds, RunsAreCovered, Ran
<1> QED
  BY <1>1, Initially, Inductive, PTL DEF Spec

-----------------------------------------------------------------------------
(* Single-use grants.                                                      *)

Won(c, r) == call[c].pc = "ran" /\ call[c].won /\ call[c].ground = r

\* An approved row that is not consumed has no winner, and none has two.
WinnersOK ==
  \A r \in Approval : row[r] # None /\ row[r].decision = "APPROVED" =>
    /\ \A c \in Call : Won(c, r) => row[r].consumed
    /\ \A c, d \in Call : Won(c, r) /\ Won(d, r) => c = d

LEMMA WinnersStay == ASSUME Inv, WinnersOK, [Next]_vars PROVE WinnersOK'
<1> SUFFICES ASSUME NEW r \in Approval, row'[r] # None, row'[r].decision = "APPROVED"
             PROVE  /\ \A c \in Call : Won(c, r)' => row'[r].consumed
                    /\ \A c, d \in Call : Won(c, r)' /\ Won(d, r)' => c = d
  BY DEF WinnersOK
<1>1. RowMoves /\ TypeOK /\ (UNCHANGED call \/ \E c \in Call : CallMoves(c))
  BY Moves DEF Inv
<1>2. row \in [Approval -> Rows \cup {None}] /\ None \notin Rows \cup Approval
  BY <1>1, RowAssumption DEF TypeOK
\* Nobody has won a row that was not a grant.
<1>3. \A c \in Call : Won(c, r) => Grounds(r, call[c].demand)
  BY <1>2 DEF Inv, CallOK, RanOK, Won
\* What was a grant and still is keeps its consumption.
<1>4. \/ row[r] = None \/ row[r].decision = "PENDING"
      \/ row[r] \in Rows /\ row[r].decision = "APPROVED" /\ (row[r].consumed => row'[r].consumed)
  <2>1. \/ row'[r] = row[r]
        \/ Born(r) \/ Spent(r) \/ Decided(r) \/ Lapsed(r)
    BY <1>1 DEF RowMoves
  <2>2. CASE row'[r] = row[r]
    BY <1>2, <2>2
  <2>3. CASE Born(r) \/ Decided(r)
    BY <2>3 DEF Born, Decided
  <2>4. CASE Spent(r)
    BY <2>4 DEF Spent, Rows
  <2>5. CASE Lapsed(r)
    BY <2>5 DEF Lapsed, Rows
  <2> QED
    BY <2>1, <2>2, <2>3, <2>4, <2>5
<1>5. /\ \A c \in Call : Won(c, r) => row[r].consumed /\ row'[r].consumed
      /\ \A c, d \in Call : Won(c, r) /\ Won(d, r) => c = d
  BY <1>2, <1>3, <1>4 DEF WinnersOK, Grounds
<1>6. CASE UNCHANGED call
  BY <1>5, <1>6 DEF Won
<1>7. ASSUME NEW c \in Call, NEW k \in Calls, Becomes(c, k)
      PROVE  /\ \A d \in Call : Won(d, r)' => row'[r].consumed
             /\ \A d, e \in Call : Won(d, r)' /\ Won(e, r)' => d = e
  <2>1. \A d \in Call \ {c} : Won(d, r)' <=> Won(d, r)
    BY <1>1, <1>7 DEF Becomes, Won, TypeOK
  <2>2. Won(c, r)' => ~row[r].consumed /\ Spent(r)
    BY <1>1, <1>7 DEF Becomes, Won, TypeOK
  <2>3. Spent(r) => row'[r].consumed
    BY DEF Spent, Rows
  <2> QED
    BY <1>5, <2>1, <2>2, <2>3
<1> QED
  BY <1>1, <1>6, <1>7 DEF CallMoves

\* However many executions race for a single-use grant, one wins (permissions.py).
THEOREM OneWins == Spec => []OneWinner
<1>1. Inv /\ WinnersOK => OneWinner
  <2> SUFFICES ASSUME Inv, WinnersOK, NEW r \in Approval, row[r] # None, row[r].decision = "APPROVED"
               PROVE  Cardinality({c \in Users(r) : call[c].won}) <= 1
    BY DEF OneWinner
  <2> DEFINE W == {c \in Users(r) : call[c].won}
  <2>1. \A c, d \in W : c = d
    BY DEF WinnersOK, Won, Users, Ran
  <2>2. W = {} \/ \E c \in W : W = {c}
    BY <2>1
  <2> HIDE DEF W
  <2>3. Cardinality(W) <= 1
    <3>1. Cardinality({}) = 0
      BY FS_EmptySet
    <3>2. \A c : Cardinality({c}) = 1
      BY FS_Singleton
    <3>3. CASE W = {}
      BY <3>1, <3>3
    <3>4. ASSUME NEW c, W = {c}
          PROVE  Cardinality(W) <= 1
      BY <3>2, <3>4
    <3> QED
      BY <2>2, <3>3, <3>4
  <2> QED
    BY <2>3 DEF W
<1>2. Init => WinnersOK
  BY DEF Init, WinnersOK
<1> QED
  BY <1>1, <1>2, Initially, Inductive, WinnersStay, PTL DEF Spec

-----------------------------------------------------------------------------
(* The contract.                                                           *)

LEMMA FollowsContract ==
  ASSUME Inv, [Next]_vars
  PROVE  [Contract!Next]_[r \in Approval |-> StageOf(row[r])]
<1>1. RowMoves /\ row \in [Approval -> Rows \cup {None}] /\ None \notin Rows
  BY Moves, RowAssumption DEF Inv, TypeOK
<1>2. CASE UNCHANGED row
  BY <1>2
<1>3. ASSUME NEW r \in Approval,
             \A q \in Approval \ {r} : row'[q] = row[q],
             Born(r) \/ Spent(r) \/ Decided(r) \/ Lapsed(r)
      PROVE  [Contract!Next]_[q \in Approval |-> StageOf(row[q])]
  <2> DEFINE stage == [q \in Approval |-> StageOf(row[q])]
  <2>1. \A q \in Approval \ {r} : StageOf(row'[q]) = StageOf(row[q])
    BY <1>3
  <2>2. stage' = [stage EXCEPT ![r] = StageOf(row'[r])] /\ stage[r] = StageOf(row[r])
    <3>1. stage' = [q \in Approval |-> StageOf(row'[q])]
      OBVIOUS
    <3>2. [stage EXCEPT ![r] = StageOf(row'[r])] = [q \in Approval |-> IF q = r THEN StageOf(row'[r]) ELSE StageOf(row[q])]
      OBVIOUS
    <3>3. \A q \in Approval : StageOf(row'[q]) = IF q = r THEN StageOf(row'[r]) ELSE StageOf(row[q])
      BY <2>1
    <3> QED
      BY <3>1, <3>2, <3>3
  <2>3. row[r] \in Rows => StageOf(row[r]) =
          IF row[r].decision = "PENDING" THEN "pending"
          ELSE IF row[r].decision = "APPROVED" THEN (IF row[r].consumed THEN "spent" ELSE "granted")
          ELSE "closed"
    BY <1>1 DEF StageOf, Rows, Decisions
  <2>4. row'[r] \in Rows => StageOf(row'[r]) =
          IF row'[r].decision = "PENDING" THEN "pending"
          ELSE IF row'[r].decision = "APPROVED" THEN (IF row'[r].consumed THEN "spent" ELSE "granted")
          ELSE "closed"
    BY <1>1 DEF StageOf, Rows, Decisions
  <2>5. Born(r) => StageOf(row[r]) = "none" /\ StageOf(row'[r]) \in {"pending", "closed"}
    BY <2>4 DEF Born, StageOf
  <2>6. Decided(r) => StageOf(row[r]) = "pending" /\ StageOf(row'[r]) \in {"granted", "closed"}
    <3>1. Decided(r) => row'[r] \in Rows /\ row'[r].decision \in {"APPROVED", "DENIED"} /\ ~row'[r].consumed
      BY <1>1 DEF Decided, Rows, Decisions, Inv
    <3> QED
      BY <2>3, <2>4, <3>1 DEF Decided
  <2>7. Spent(r) => \/ StageOf(row[r]) \in {"granted", "spent"} /\ StageOf(row'[r]) = "spent"
                    \/ StageOf(row[r]) = "closed" /\ StageOf(row'[r]) = "closed"
    <3>1. Spent(r) => row'[r] \in Rows /\ row'[r].decision = row[r].decision /\ row'[r].consumed
      BY DEF Spent, Rows
    <3> QED
      BY <2>3, <2>4, <3>1 DEF Spent
  <2>8. Lapsed(r) => /\ StageOf(row[r]) \in {"pending", "granted", "spent", "closed"}
                     /\ StageOf(row'[r]) = "closed"
    <3>1. Lapsed(r) => row'[r] \in Rows /\ row'[r].decision = "EXPIRED"
      BY DEF Lapsed, Rows, Decisions, Policies
    <3> QED
      BY <2>3, <2>4, <3>1 DEF Lapsed
  <2> HIDE DEF stage
  <2> QED
    BY <1>3, <2>2, <2>5, <2>6, <2>7, <2>8 DEF stage, Contract!Next, Contract!Ask, Contract!Refuse, Contract!Grant,
       Contract!Spend, Contract!Close, Contract!Move
<1> QED
  BY <1>1, <1>2, <1>3 DEF RowMoves

\* The table implements its contract: a row is granted once, spent once and closed
\* for good (permissions.py).
THEOREM ApprovalsImplementContract == Spec => ContractHolds
<1>1. Init => Contract!Init
  BY DEF Init, Contract!Init, Contract!Stages, StageOf
<1>2. Inv /\ [Next]_vars => [Contract!Next]_[r \in Approval |-> StageOf(row[r])]
  BY FollowsContract
<1> QED
  BY <1>1, <1>2, Initially, Inductive, PTL DEF Spec, ContractHolds, Contract!Spec
=============================================================================
