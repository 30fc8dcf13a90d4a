---------------------------- MODULE ToolUseProofs ----------------------------
(***************************************************************************)
(* Theorems about ToolUse, for any registry, messages and runs.            *)
(***************************************************************************)
EXTENDS ToolUse, FunctionTheorems, FiniteSetTheorems, TLAPS

Settings == [mode : Modes, required : BOOLEAN, backend : {"jail", "docker", "none"}, limit : 0..1]
Grants   == {"none", "once", "standing"}
Places   == {"thinking", "idle", "valid", "waiting", "executing", "done"}
AtCall   == {"valid", "waiting", "executing"}

\* What the two verdicts look at.
Looked == settings \in Settings /\ grant \in [Scopes -> Grants]

-----------------------------------------------------------------------------
(* The two authorities.                                                    *)

LEMMA GrantsStayGrants ==
  ASSUME Looked, NEW tool, Spend(tool)
  PROVE  grant' \in [Scopes -> Grants]
BY DEF Looked, Spend, Grants

LEMMA LookedStays ==
  ASSUME Looked, [Next]_vars
  PROVE  Looked'
<1>1. CASE UNCHANGED <<settings, grant>>
  BY <1>1 DEF Looked
<1>2. ASSUME NEW r \in Run, Authorize(r)
      PROVE  Looked'
  <2>1. settings' = settings
    BY <1>2 DEF Authorize
  <2>2. Spend(Tool(r)) \/ grant' = grant
    BY <1>2 DEF Authorize
  <2> QED
    BY <2>1, <2>2, GrantsStayGrants DEF Looked
<1>3. ASSUME NEW s \in Scopes, Grant(s) \/ Expire(s)
      PROVE  Looked'
  BY <1>3 DEF Grant, Expire, Looked, Grants
<1> QED
  BY <1>1, <1>2, <1>3
  DEF Next, vars, Receive, Return, Look, Evaluated, Pause, Execute, Goes, Answer

LEMMA VerdictsAgree ==
  ASSUME Looked
  PROVE  PathsAgree
<1> SUFFICES ASSUME NEW n \in DOMAIN Catalog
             PROVE  LET tool == Catalog[n]
                        gate == Gate(tool) = "allow" /\ ~JevDenies(tool) IN
                    /\ Evaluate(tool) = "allow" => gate
                    /\ settings.mode \in {"build", "plan"} /\ settings.backend # "none" /\ ~OverLimit
                       => (gate => Evaluate(tool) = "allow")
  BY DEF PathsAgree
<1> DEFINE tool == Catalog[n]
<1>1. tool.tier \in Tiers /\ tool.scope \in Scopes
  BY ToolUseAssumption
<1>2. JevDenies(tool) <=> tool.scope \in Dangerous
  BY DEF JevDenies, Verdict, DefaultJev
<1>3. settings.mode \in Modes /\ settings.required \in BOOLEAN /\ grant[tool.scope] \in Grants
  BY <1>1 DEF Looked, Settings
<1>4. ASSUME Evaluate(tool) = "allow"
      PROVE  Gate(tool) = "allow" /\ ~JevDenies(tool)
  <2>1. ~DefaultDeny(tool) /\ (Required(tool) => grant[tool.scope] # "none")
    BY <1>4 DEF Evaluate
  <2>2. Gate(tool) = "allow"
    <3>1. CASE Plan(tool) = "free"
      BY <3>1 DEF Gate
    <3>2. CASE Plan(tool) # "free" /\ settings.required /\ tool.tier # "read"
      BY <3>2, <2>1 DEF Gate, Required
    <3>3. CASE Plan(tool) # "free" /\ ~settings.required
      BY <3>3, <2>1 DEF Gate
    <3>4. CASE tool.tier = "read"
      <4>1. Level(tool) = "LOW"
        BY <3>4, <2>1 DEF Level, DefaultDeny
      <4> QED
        BY <4>1, <3>4, <2>1 DEF Gate, Plan, Required
    <3> QED
      BY <3>1, <3>2, <3>3, <3>4, <1>3
  <2> QED
    BY <2>1, <2>2, <1>2 DEF DefaultDeny
<1>5. ASSUME settings.mode \in {"build", "plan"}, settings.backend # "none", ~OverLimit,
             Gate(tool) = "allow", ~JevDenies(tool)
      PROVE  Evaluate(tool) = "allow"
  <2>1. ~DefaultDeny(tool)
    BY <1>5, <1>2 DEF Gate, Plan, DefaultDeny
  <2>2. Required(tool) => grant[tool.scope] # "none"
    BY <1>5, <2>1 DEF Gate, Plan, Required, DefaultDeny
  <2> QED
    BY <1>5, <2>1, <2>2 DEF Evaluate
<1> QED
  BY <1>4, <1>5

\* Whatever is registered and granted, the policy engine lets nothing run that the
\* gate's way would not, and where no mode or limit is between them they agree.
THEOREM AuthoritiesAgree == Spec => []PathsAgree
<1>1. Init => Looked
  BY DEF Init, Looked, Settings, Grants
<1>2. Looked /\ [Next]_vars => Looked'
  BY LookedStays
<1>3. Looked => PathsAgree
  BY VerdictsAgree
<1> QED
  BY <1>1, <1>2, <1>3, PTL DEF Spec

-----------------------------------------------------------------------------
(* Parsing.                                                                *)

LEMMA IndicesAreFinite ==
  ASSUME NEW m \in Nat, NEW kept \in SUBSET (1..m)
  PROVE  IsFiniteSet(kept) /\ Cardinality(kept) \in Nat
<1>1. IsFiniteSet(1..m)
  BY FS_Interval
<1>2. IsFiniteSet(kept)
  BY <1>1, FS_Subset
<1> QED BY <1>2, FS_CardinalityType

LEMMA RanksDiffer ==
  ASSUME NEW m \in Nat, NEW kept \in SUBSET (1..m), NEW i \in kept, NEW j \in kept, i < j
  PROVE  Rank(kept, i) < Rank(kept, j)
<1> DEFINE P == {k \in kept : k <= i}
           Q == {k \in kept : k <= j}
<1>1. P \subseteq Q /\ j \in Q /\ j \notin P
  <2>1. i \in Nat /\ j \in Nat /\ \A k \in kept : k \in Nat
    OBVIOUS
  <2>2. ASSUME NEW k \in kept, k <= i PROVE k <= j
    BY <2>1, <2>2
  <2>3. ~(j <= i) /\ j <= j
    BY <2>1
  <2> QED BY <2>1, <2>2, <2>3
<1>2. IsFiniteSet(Q)
  BY IndicesAreFinite, FS_Subset
<1>3. IsFiniteSet(P) /\ Cardinality(P) <= Cardinality(Q) /\ Cardinality(P) # Cardinality(Q)
  <2> HIDE DEF P, Q
  <2> QED BY <1>1, <1>2, FS_Subset
<1>4. Cardinality(P) \in Nat /\ Cardinality(Q) \in Nat
  BY <1>2, <1>3, FS_CardinalityType
<1> QED BY <1>3, <1>4 DEF Rank

\* Ranks enumerate a set of indices: they are different numbers, as many as there
\* are indices, and none is larger.
LEMMA EveryRankIsTaken ==
  ASSUME NEW m \in Nat, NEW kept \in SUBSET (1..m), NEW n \in 1..Cardinality(kept)
  PROVE  Nth(kept, n) \in kept /\ Rank(kept, Nth(kept, n)) = n
<1> DEFINE size == Cardinality(kept)
           f    == [i \in kept |-> Rank(kept, i)]
<1>1. IsFiniteSet(kept) /\ size \in Nat
  BY IndicesAreFinite
<1>2. ASSUME NEW i \in kept PROVE Rank(kept, i) \in 1..size
  <2>1. {k \in kept : k <= i} \subseteq kept /\ {k \in kept : k <= i} # {}
    OBVIOUS
  <2>2. /\ IsFiniteSet({k \in kept : k <= i})
        /\ Cardinality({k \in kept : k <= i}) <= size
    BY <1>1, <2>1, FS_Subset
  <2>3. Cardinality({k \in kept : k <= i}) \in Nat \ {0}
    BY <2>1, <2>2, FS_CardinalityType, FS_EmptySet
  <2> QED BY <1>1, <2>2, <2>3 DEF Rank
<1>3. ASSUME NEW i \in kept, NEW j \in kept, Rank(kept, i) = Rank(kept, j) PROVE i = j
  <2>1. PICK a \in Nat : a = Rank(kept, i) /\ a = Rank(kept, j)
    BY <1>1, <1>2, <1>3
  <2>2. ~(i < j)
    <3>1. i < j => a < a
      BY <2>1, RanksDiffer
    <3> QED BY <3>1
  <2>3. ~(j < i)
    <3>1. j < i => a < a
      BY <2>1, RanksDiffer
    <3> QED BY <3>1
  <2>4. i \in Nat /\ j \in Nat
    OBVIOUS
  <2> QED BY <2>2, <2>3, <2>4
<1>4. f \in Injection(kept, 1..size)
  BY <1>2, <1>3 DEF Injection, IsInjective
<1>5. IsFiniteSet(1..size) /\ Cardinality(1..size) = size
  BY <1>1, FS_Interval
<1> HIDE DEF f
<1>6. f \in Surjection(kept, 1..size)
  <2> HIDE DEF size
  <2>1. size = Cardinality(kept)
    BY DEF size
  <2> QED BY <1>4, <1>5, <2>1, FS_Injection
<1>7. \E i \in kept : f[i] = n
  BY <1>6 DEF Surjection
<1>8. \E i \in kept : Rank(kept, i) = n
  BY <1>7 DEF f
<1> QED BY <1>8 DEF Nth

\* Skipping what is no call leaves calls, in their order, each once.
LEMMA NamedItems ==
  ASSUME NEW items \in Seq(Calls)
  PROVE  /\ Named(items) \in Seq(Calls)
         /\ \A n \in DOMAIN Named(items) : Named(items)[n].name # NoName
         /\ (\A i, j \in DOMAIN items : items[i].id = items[j].id => i = j)
            => \A k, n \in DOMAIN Named(items) : Named(items)[k].id = Named(items)[n].id => k = n
<1>1. PICK m \in Nat : m = Len(items) /\ DOMAIN items = 1..m
  OBVIOUS
<1>2. PICK kept \in SUBSET (1..m) : kept = Kept(items)
  BY <1>1 DEF Kept
<1>3. PICK size \in Nat : size = Cardinality(kept)
  BY IndicesAreFinite
<1>4. DOMAIN Named(items) = 1..size /\ \A n \in 1..size : Named(items)[n] = items[Nth(kept, n)]
  BY <1>2, <1>3 DEF Named, At
<1>5. \A n \in 1..size : Nth(kept, n) \in kept /\ Rank(kept, Nth(kept, n)) = n
  BY <1>3, EveryRankIsTaken
<1>6. \A n \in 1..size : Nth(kept, n) \in 1..m /\ items[Nth(kept, n)] \in Calls
                         /\ items[Nth(kept, n)].name # NoName
  BY <1>1, <1>2, <1>5 DEF Kept
<1>7. Named(items) \in [1..size -> Calls]
  BY <1>2, <1>3, <1>6 DEF Named, At
<1>8. Named(items) \in Seq(Calls)
  BY <1>7
<1>9. ASSUME \A i, j \in DOMAIN items : items[i].id = items[j].id => i = j,
             NEW k \in 1..size, NEW n \in 1..size, Named(items)[k].id = Named(items)[n].id
      PROVE  k = n
  <2>1. Nth(kept, k) = Nth(kept, n)
    BY <1>1, <1>4, <1>6, <1>9
  <2> QED BY <1>5, <2>1
<1>10. \A n \in 1..size : Named(items)[n].name # NoName
  BY <1>4, <1>6
<1> QED BY <1>4, <1>8, <1>9, <1>10

LEMMA ParsedCalls ==
  ASSUME NEW m \in Messages
  PROVE  /\ Parse(m) \in Seq(Calls) /\ \A n \in DOMAIN Parse(m) : Parse(m)[n].name # NoName
         /\ \A k, n \in DOMAIN Parse(m) : Parse(m)[k].id = Parse(m)[n].id => k = n
<1>1. PICK items \in {m.native, m.fenced, m.invoke} : Parse(m) = Named(items)
  BY DEF Parse
<1>2. items \in Seq(Calls)
  BY <1>1, ToolUseAssumption
<1>3. \A i, j \in DOMAIN items : items[i].id = items[j].id => i = j
  BY IdsAssumption
<1> QED BY <1>1, <1>2, <1>3, NamedItems

-----------------------------------------------------------------------------
(* The turns of a run.                                                     *)

Ends    == {"REJECTED", "SUCCEEDED", "FAILED"}
Results == [call : Calls, state : Ends, outcome : HandlerOutcomes \cup {"none"}]

\* What the schema lets through.
Fits(call) ==
  /\ call.name \in DOMAIN Catalog /\ call.raw \in {"absent", "fits", "misfits"}
  /\ \/ call.raw = "fits" \/ Catalog[call.name].schema = "broken"
     \/ call.raw = "absent" /\ ~Catalog[call.name].required

Runnable(call) == Fits(call) /\ ~DefaultDeny(Catalog[call.name])

Rightly(w, call, state, outcome) ==
  /\ outcome # "none" => Runnable(call)
  /\ w = "loop" /\ state = "SUCCEEDED" => outcome \notin {"exit_code", "ok_false", "error"}

Same(id, cs) == {j \in 1..Len(cs) : cs[j].id = id}

\* A call at hand is the first without a result, and fits its schema once it was
\* looked at; no call comes twice in a turn.
TurnOK(r) ==
  /\ Len(results[r]) <= Len(calls[r])
  /\ \A i \in 1..Len(calls[r]) : calls[r][i].name # NoName
  /\ \A i \in 1..Len(results[r]) :
       /\ results[r][i].call = calls[r][i]
       /\ Rightly(way[r], results[r][i].call, results[r][i].state, results[r][i].outcome)
  /\ now[r] \in {"thinking", "done"} => Len(results[r]) = Len(calls[r])
  /\ now[r] \in AtCall => Len(results[r]) < Len(calls[r]) /\ Fits(Current(r))
  /\ now[r] = "executing" => Runnable(Current(r))
  /\ \A id \in Nat : Cardinality(Same(id, calls[r])) <= turns[r]

Machine ==
  /\ way \in [Run -> Ways] /\ now \in [Run -> Places] /\ turns \in [Run -> Nat]
  /\ calls \in [Run -> Seq(Calls)] /\ results \in [Run -> Seq(Results)]

TurnInv == Machine /\ \A r \in Run : TurnOK(r)

LEMMA RunTypes ==
  ASSUME Machine, NEW r \in Run
  PROVE  /\ way[r] \in Ways /\ now[r] \in Places /\ turns[r] \in Nat
         /\ calls[r] \in Seq(Calls) /\ results[r] \in Seq(Results)
         /\ Len(calls[r]) \in Nat /\ Len(results[r]) \in Nat
BY DEF Machine

\* Turns depend on what a run has, not on grants.
LEMMA TurnStays ==
  ASSUME NEW r \in Run, TurnOK(r), way'[r] = way[r], calls'[r] = calls[r],
         results'[r] = results[r], now'[r] = now[r], turns'[r] = turns[r]
  PROVE  TurnOK(r)'
BY DEF TurnOK, Current, Same

LEMMA CurrentCall ==
  ASSUME Machine, NEW r \in Run, Len(results[r]) < Len(calls[r])
  PROVE  Current(r) \in Calls /\ Len(results[r]) + 1 \in 1..Len(calls[r])
<1>1. Len(results[r]) + 1 \in 1..Len(calls[r])
  BY RunTypes
<1> QED BY <1>1, RunTypes DEF Current

\* A result is that of the first call without one.
LEMMA AnswerKeepsTurn ==
  ASSUME TurnInv, NEW r \in Run, NEW state \in Ends, NEW outcome \in HandlerOutcomes \cup {"none"},
         Answer(r, state, outcome), UNCHANGED <<way, calls, turns>>,
         Len(results[r]) < Len(calls[r]), Rightly(way[r], Current(r), state, outcome)
  PROVE  TurnInv'
<1>1. PICK result \in Results :
         result = [call |-> Current(r), state |-> state, outcome |-> outcome]
  BY CurrentCall DEF Results, TurnInv
<1>2. PICK n \in Nat, m \in Nat : n = Len(results[r]) /\ m = Len(calls[r]) /\ n < m
  BY RunTypes DEF TurnInv
<1>3. PICK more \in Seq(Results) : more = Append(results[r], result)
  <2>1. results[r] \in Seq(Results)
    BY RunTypes DEF TurnInv
  <2>2. Append(results[r], result) \in Seq(Results)
    BY <1>1, <2>1
  <2> QED BY <2>2
<1>4. results' = [results EXCEPT ![r] = more] /\ now' = [now EXCEPT ![r] = "idle"]
  BY <1>1, <1>3 DEF Answer
<1>5. Machine'
  BY <1>4 DEF TurnInv, Machine, Places
<1>6. results'[r] = more /\ now'[r] = "idle" /\ calls'[r] = calls[r] /\ way'[r] = way[r]
      /\ turns'[r] = turns[r]
  BY <1>4 DEF TurnInv, Machine
<1>7. Len(more) = n + 1 /\ more[n + 1] = result /\ \A i \in 1..n : more[i] = results[r][i]
  BY <1>2, <1>3, RunTypes DEF TurnInv
<1>8. Current(r) = calls[r][n + 1]
  BY <1>2 DEF Current
<1>9. ASSUME NEW i \in 1..(n + 1)
      PROVE  more[i].call = calls[r][i]
             /\ Rightly(way[r], more[i].call, more[i].state, more[i].outcome)
  <2>1. CASE i \in 1..n
    BY <1>2, <1>7, <2>1 DEF TurnInv, TurnOK
  <2>2. CASE i = n + 1
    BY <1>1, <1>7, <1>8, <2>2
  <2> QED BY <1>2, <2>1, <2>2
<1>10. TurnOK(r)'
  <2>1. /\ \A i \in 1..m : calls[r][i].name # NoName
        /\ \A id \in Nat : Cardinality(Same(id, calls[r])) <= turns[r]
    BY <1>2 DEF TurnInv, TurnOK
  <2> QED BY <1>2, <1>6, <1>7, <1>9, <2>1 DEF TurnOK, AtCall, Same
<1>11. ASSUME NEW q \in Run, q # r PROVE TurnOK(q)'
  BY <1>4, <1>11, TurnStays DEF TurnInv, Machine
<1> QED BY <1>5, <1>10, <1>11 DEF TurnInv

\* The call at hand moves on without a result.
LEMMA GoingKeepsTurn ==
  ASSUME TurnInv, NEW r \in Run, NEW where \in Places, Goes(r, where),
         UNCHANGED <<way, calls, turns>>,
         where = "thinking" => Len(results[r]) = Len(calls[r]),
         where \in AtCall => Len(results[r]) < Len(calls[r]) /\ Fits(Current(r)),
         where = "executing" => Runnable(Current(r)), where # "done"
  PROVE  TurnInv'
<1>1. Machine'
  BY DEF Goes, TurnInv, Machine
<1>2. now'[r] = where /\ UNCHANGED <<results, way, calls, turns>>
  BY DEF Goes, TurnInv, Machine
<1>3. TurnOK(r)'
  BY <1>2 DEF TurnInv, TurnOK, Current, Same
<1>4. ASSUME NEW q \in Run, q # r PROVE TurnOK(q)'
  <2>1. now'[q] = now[q]
    BY <1>4 DEF Goes, TurnInv, Machine
  <2> QED BY <1>2, <2>1, TurnStays DEF TurnInv
<1> QED BY <1>1, <1>3, <1>4 DEF TurnInv

LEMMA SameAreFew ==
  ASSUME NEW cs \in Seq(Calls), NEW more \in Seq(Calls), NEW id, NEW t \in Nat,
         Cardinality(Same(id, cs)) <= t,
         \A k, n \in DOMAIN more : more[k].id = more[n].id => k = n
  PROVE  Cardinality(Same(id, cs \o more)) <= t + 1
<1>1. PICK n \in Nat, m \in Nat : n = Len(cs) /\ m = Len(more) /\ DOMAIN more = 1..m
  OBVIOUS
<1>2. /\ Len(cs \o more) = n + m
      /\ \A j \in 1..n : (cs \o more)[j] = cs[j]
      /\ \A j \in 1..m : (cs \o more)[n + j] = more[j]
  BY <1>1
<1>3. PICK old \in SUBSET (1..n) : old = Same(id, cs)
  BY <1>1 DEF Same
<1>4. IsFiniteSet(old) /\ Cardinality(old) \in Nat /\ Cardinality(old) <= t
  BY <1>3, IndicesAreFinite
<1>5. \A j \in Same(id, cs \o more) : j \in old \/ \E k \in 1..m : j = n + k /\ more[k].id = id
  <2> SUFFICES ASSUME NEW j \in 1..(n + m), (cs \o more)[j].id = id
               PROVE  j \in old \/ \E k \in 1..m : j = n + k /\ more[k].id = id
    BY <1>2 DEF Same
  <2>1. CASE j \in 1..n
    BY <1>1, <1>2, <1>3, <2>1 DEF Same
  <2>2. CASE j \notin 1..n
    <3>1. j - n \in 1..m /\ j = n + (j - n)
      BY <2>2
    <3> QED BY <1>2, <3>1
  <2> QED BY <2>1, <2>2
<1>6. \E new : Same(id, cs \o more) \subseteq old \cup {new}
  <2>1. CASE \E k \in 1..m : more[k].id = id
    <3>1. PICK k \in 1..m : more[k].id = id
      BY <2>1
    <3>2. Same(id, cs \o more) \subseteq old \cup {n + k}
      BY <1>1, <1>5, <3>1
    <3> QED BY <3>2
  <2>2. CASE ~\E k \in 1..m : more[k].id = id
    <3>1. Same(id, cs \o more) \subseteq old \cup {0}
      BY <1>5, <2>2
    <3> QED BY <3>1
  <2> QED BY <2>1, <2>2
<1>7. PICK new : Same(id, cs \o more) \subseteq old \cup {new}
  BY <1>6
<1>8. IsFiniteSet(old \cup {new}) /\ Cardinality(old \cup {new}) <= t + 1
      /\ Cardinality(old \cup {new}) \in Nat
  <2>1. IsFiniteSet(old \cup {new})
        /\ Cardinality(old \cup {new}) = IF new \in old THEN Cardinality(old) ELSE Cardinality(old) + 1
    BY <1>4, FS_AddElement
  <2> QED BY <1>4, <2>1
<1>9. /\ Cardinality(Same(id, cs \o more)) <= Cardinality(old \cup {new})
      /\ IsFiniteSet(Same(id, cs \o more))
  BY <1>7, <1>8, FS_Subset
<1>10. Cardinality(Same(id, cs \o more)) \in Nat
  BY <1>9, FS_CardinalityType
<1> QED BY <1>8, <1>9, <1>10

\* The calls of an answer come after those that are done.
LEMMA ReceiveKeepsTurn ==
  ASSUME TurnInv, NEW r \in Run, Receive(r)
  PROVE  TurnInv'
<1>1. now[r] = "thinking" /\ UNCHANGED <<way, results>> /\ Len(results[r]) = Len(calls[r])
  BY DEF Receive, TurnInv, TurnOK
<1>2. PICK m \in Messages :
        IF Parse(m) = <<>> THEN now' = [now EXCEPT ![r] = "done"] /\ UNCHANGED <<calls, turns>>
        ELSE /\ turns[r] < MaxTurns
             /\ calls' = [calls EXCEPT ![r] = @ \o Parse(m)]
             /\ turns' = [turns EXCEPT ![r] = @ + 1]
             /\ now' = [now EXCEPT ![r] = "idle"]
  BY DEF Receive
<1>3. CASE Parse(m) = <<>>
  <2>1. now' = [now EXCEPT ![r] = "done"] /\ UNCHANGED <<way, results, calls, turns>>
    BY <1>1, <1>2, <1>3
  <2>2. Machine'
    BY <2>1 DEF TurnInv, Machine, Places
  <2>3. now'[r] = "done" /\ \A q \in Run \ {r} : now'[q] = now[q]
    BY <2>1 DEF TurnInv, Machine
  <2>4. TurnOK(r)'
    BY <1>1, <2>1, <2>3 DEF TurnInv, TurnOK, Current, Same, AtCall
  <2>5. \A q \in Run \ {r} : TurnOK(q)'
    BY <2>1, <2>3, TurnStays DEF TurnInv
  <2> QED BY <2>2, <2>4, <2>5 DEF TurnInv
<1>4. CASE Parse(m) # <<>>
  <2>1. PICK more \in Seq(Calls) :
          /\ more = Parse(m) /\ \A n \in DOMAIN more : more[n].name # NoName
          /\ \A k, n \in DOMAIN more : more[k].id = more[n].id => k = n
    BY ParsedCalls
  <2>2. PICK cs \in Seq(Calls), n \in Nat, l \in Nat, t \in Nat :
          cs = calls[r] /\ n = Len(cs) /\ l = Len(more) /\ DOMAIN more = 1..l /\ t = turns[r]
    BY RunTypes DEF TurnInv
  <2>3. PICK all \in Seq(Calls) : all = cs \o more
    <3>1. cs \o more \in Seq(Calls)
      BY <2>1, <2>2
    <3> QED BY <3>1
  <2>4. /\ Len(all) = n + l /\ \A j \in 1..n : all[j] = cs[j]
        /\ \A j \in 1..l : all[n + j] = more[j]
    BY <2>2, <2>3
  <2>5. /\ calls' = [calls EXCEPT ![r] = all] /\ turns' = [turns EXCEPT ![r] = t + 1]
        /\ now' = [now EXCEPT ![r] = "idle"]
    BY <1>2, <1>4, <2>1, <2>2, <2>3
  <2>6. Machine'
    BY <1>1, <2>5 DEF TurnInv, Machine, Places
  <2>7. calls'[r] = all /\ turns'[r] = t + 1 /\ now'[r] = "idle"
    BY <2>5 DEF TurnInv, Machine
  <2>8. \A j \in 1..(n + l) : all[j].name # NoName
    <3> SUFFICES ASSUME NEW j \in 1..(n + l) PROVE all[j].name # NoName
      OBVIOUS
    <3>1. CASE j \in 1..n
      BY <2>2, <2>4, <3>1 DEF TurnInv, TurnOK
    <3>2. CASE j \notin 1..n
      <4>1. j - n \in 1..l /\ j = n + (j - n)
        BY <2>2, <3>2
      <4>2. PICK k \in 1..l : j = n + k
        BY <4>1
      <4>3. all[j] = more[k] /\ k \in DOMAIN more
        BY <2>2, <2>4, <4>2
      <4> QED BY <2>1, <4>3
    <3> QED BY <3>1, <3>2
  <2>9. \A id \in Nat : Cardinality(Same(id, all)) <= t + 1
    <3> SUFFICES ASSUME NEW id \in Nat PROVE Cardinality(Same(id, all)) <= t + 1
      OBVIOUS
    <3>1. Cardinality(Same(id, cs)) <= t
      BY <2>2 DEF TurnInv, TurnOK
    <3> QED BY <2>1, <2>3, <3>1, SameAreFew
  <2>10. \A i \in 1..n :
           /\ results[r][i].call = all[i]
           /\ Rightly(way[r], results[r][i].call, results[r][i].state, results[r][i].outcome)
    BY <1>1, <2>2, <2>4 DEF TurnInv, TurnOK
  <2>11. TurnOK(r)'
    <3>1. results'[r] = results[r] /\ way'[r] = way[r] /\ Len(results[r]) = n
      BY <1>1, <2>2
    <3>2. n <= n + l
      BY <2>2
    <3> QED BY <2>4, <2>7, <2>8, <2>9, <2>10, <3>1, <3>2 DEF TurnOK, AtCall, Same
  <2>12. \A q \in Run \ {r} : TurnOK(q)'
    BY <1>1, <2>5, TurnStays DEF TurnInv, Machine
  <2> QED BY <2>6, <2>11, <2>12 DEF TurnInv
<1> QED BY <1>3, <1>4

LEMMA OutcomesEnd ==
  ASSUME NEW outcome \in Outcomes, NEW w \in Ways, NEW call, Runnable(call)
  PROVE  LET state == IF IF w = "loop" THEN Completed(outcome) ELSE Succeeded(outcome)
                      THEN "SUCCEEDED" ELSE "FAILED"
         IN  state \in {"SUCCEEDED", "FAILED"} /\ Rightly(w, call, state, outcome)
BY DEF Completed, Rightly

\* What the gate or the policy engine lets run is not default-deny.
LEMMA AllowedIsRunnable ==
  ASSUME NEW r, Fits(Current(r)),
         (Gate(Tool(r)) = "allow" /\ ~JevDenies(Tool(r))) \/ Evaluate(Tool(r)) = "allow"
  PROVE  Runnable(Current(r))
<1>1. ASSUME Gate(Tool(r)) = "allow" PROVE ~DefaultDeny(Tool(r))
  BY <1>1 DEF Gate, Plan
<1>2. ASSUME Evaluate(Tool(r)) = "allow" PROVE ~DefaultDeny(Tool(r))
  BY <1>2 DEF Evaluate
<1> QED BY <1>1, <1>2 DEF Runnable, Tool

\* What has been looked at and is neither unknown nor malformed nor invalid fits.
LEMMA LookedAtFits ==
  ASSUME Machine, NEW r \in Run, Len(results[r]) < Len(calls[r]), Current(r).name # NoName,
         ~(Current(r).name = "unknown" \/ Malformed(Current(r)) \/ Invalid(Tool(r), Current(r)))
  PROVE  Fits(Current(r))
<1>1. Current(r) \in Calls
  BY CurrentCall
<1>2. Current(r).name \in DOMAIN Catalog
  BY <1>1 DEF Calls
<1>3. Catalog[Current(r).name].schema \in {"strict", "broken"}
  BY <1>2, ToolUseAssumption
<1>4. Current(r).raw \in {"absent", "fits", "misfits"}
  BY <1>1 DEF Calls, RawArguments, Malformed, Invalid
<1> QED BY <1>2, <1>3, <1>4 DEF Invalid, Tool, Fits

\* Where a verdict sends the call at hand.
LEMMA VerdictKeepsTurn ==
  ASSUME TurnInv, NEW r \in Run, now[r] = "valid", UNCHANGED <<way, calls, turns>>,
         \/ Goes(r, "executing") /\ Runnable(Current(r))
         \/ Goes(r, "waiting") \/ Answer(r, "REJECTED", "none")
  PROVE  TurnInv'
<1>1. Len(results[r]) < Len(calls[r]) /\ Fits(Current(r))
  BY DEF TurnInv, TurnOK, AtCall
<1>2. Rightly(way[r], Current(r), "REJECTED", "none")
  BY DEF Rightly
<1>3. CASE Answer(r, "REJECTED", "none")
  BY <1>1, <1>2, <1>3, AnswerKeepsTurn DEF Ends
<1>4. CASE Goes(r, "waiting")
  BY <1>1, <1>4, GoingKeepsTurn DEF Places
<1>5. CASE Goes(r, "executing") /\ Runnable(Current(r))
  BY <1>1, <1>5, GoingKeepsTurn DEF Places
<1> QED BY <1>3, <1>4, <1>5

LEMMA GateAnswers ==
  ASSUME NEW tool PROVE Gate(tool) \in {"allow", "deny", "wait"}
BY DEF Gate

LEMMA EvaluateAnswers ==
  ASSUME NEW tool PROVE Evaluate(tool) \in {"allow", "deny", "wait", "no_sandbox"}
BY DEF Evaluate

\* What Authorize and Evaluated do to the call at hand.
LEMMA Verdicts ==
  ASSUME NEW r, Fits(Current(r)), Authorize(r) \/ Evaluated(r)
  PROVE  \/ Goes(r, "executing") /\ Runnable(Current(r))
         \/ Goes(r, "waiting") \/ Answer(r, "REJECTED", "none")
<1>1. CASE Authorize(r)
  <2>1. CASE Answer(r, "REJECTED", "none")
    BY <2>1
  <2>2. CASE ~JevDenies(Tool(r)) /\ Asked(r, Gate(Tool(r)))
    <3>1. Gate(Tool(r)) = "allow" => Goes(r, "executing") /\ Runnable(Current(r))
      BY <2>2, AllowedIsRunnable DEF Asked
    <3>2. Gate(Tool(r)) = "deny" => Answer(r, "REJECTED", "none")
      BY <2>2 DEF Asked
    <3>3. Gate(Tool(r)) = "wait" => Goes(r, "waiting")
      BY <2>2 DEF Asked
    <3> QED BY <3>1, <3>2, <3>3, GateAnswers
  <2> QED BY <1>1, <2>1, <2>2 DEF Authorize
<1>2. CASE Evaluated(r)
  <2>1. Evaluate(Tool(r)) = "allow" => Goes(r, "executing") /\ Runnable(Current(r))
    BY <1>2, AllowedIsRunnable DEF Evaluated
  <2>2. Evaluate(Tool(r)) = "wait" => Goes(r, "waiting")
    BY <1>2 DEF Evaluated
  <2>3. Evaluate(Tool(r)) \in {"deny", "no_sandbox"} => Answer(r, "REJECTED", "none")
    BY <1>2 DEF Evaluated
  <2> QED BY <2>1, <2>2, <2>3, EvaluateAnswers
<1> QED BY <1>1, <1>2

LEMMA RunKeepsTurn ==
  ASSUME TurnInv, NEW r \in Run,
         Return(r) \/ Look(r) \/ Authorize(r) \/ Evaluated(r) \/ Pause(r) \/ Execute(r)
  PROVE  TurnInv'
<1>1. CASE Return(r)
  BY <1>1, GoingKeepsTurn DEF Return, Places, AtCall
<1>2. CASE Look(r)
  <2>1. UNCHANGED <<way, calls, turns>> /\ Len(results[r]) < Len(calls[r])
    BY <1>2 DEF Look
  <2>2. CASE Answer(r, "REJECTED", "none")
    <3>1. Rightly(way[r], Current(r), "REJECTED", "none")
      BY DEF Rightly
    <3> QED BY <2>1, <2>2, <3>1, AnswerKeepsTurn DEF Ends
  <2>3. CASE ~Answer(r, "REJECTED", "none")
    <3>1. Goes(r, "valid")
      BY <1>2, <2>3 DEF Look
    <3>2. Current(r).name # NoName
      BY <2>1, CurrentCall DEF TurnInv, TurnOK, Current
    <3>3. Fits(Current(r))
      BY <1>2, <2>1, <2>3, <3>2, LookedAtFits DEF Look, TurnInv
    <3> QED BY <2>1, <3>1, <3>3, GoingKeepsTurn DEF Places
  <2> QED BY <2>2, <2>3
<1>3. CASE Authorize(r) \/ Evaluated(r)
  <2>1. UNCHANGED <<way, calls, turns>> /\ now[r] = "valid"
    BY <1>3 DEF Authorize, Evaluated
  <2>2. Fits(Current(r))
    BY <2>1 DEF TurnInv, TurnOK, AtCall
  <2> QED BY <1>3, <2>1, <2>2, Verdicts, VerdictKeepsTurn
<1>4. CASE Pause(r)
  <2>1. Len(results[r]) < Len(calls[r]) /\ Rightly(way[r], Current(r), "REJECTED", "none")
    BY <1>4 DEF Pause, TurnInv, TurnOK, AtCall, Rightly
  <2> QED BY <1>4, <2>1, AnswerKeepsTurn DEF Pause, Ends
<1>5. CASE Execute(r)
  <2>1. Len(results[r]) < Len(calls[r]) /\ Runnable(Current(r)) /\ way[r] \in Ways
    BY <1>5, RunTypes DEF Execute, TurnInv, TurnOK, AtCall
  <2>2. PICK o \in Outcomes, state \in {"SUCCEEDED", "FAILED"} :
          Answer(r, state, o) /\ Rightly(way[r], Current(r), state, o)
    BY <1>5, <2>1, OutcomesEnd DEF Execute
  <2>3. state \in Ends /\ o \in HandlerOutcomes \cup {"none"}
    BY <2>2, ToolUseAssumption DEF Ends
  <2> QED BY <1>5, <2>1, <2>2, <2>3, AnswerKeepsTurn DEF Execute
<1> QED BY <1>1, <1>2, <1>3, <1>4, <1>5

LEMMA TurnInvHolds == Spec => []TurnInv
<1>1. Init => TurnInv
  <2> SUFFICES ASSUME Init PROVE TurnInv
    OBVIOUS
  <2>1. Machine
    BY DEF Init, Machine, Places
  <2>2. ASSUME NEW r \in Run PROVE TurnOK(r)
    <3>1. calls[r] = <<>> /\ results[r] = <<>> /\ now[r] = "thinking" /\ turns[r] = 0
      BY DEF Init
    <3>2. \A id : Same(id, calls[r]) = {}
      BY <3>1 DEF Same
    <3>3. \A id : Cardinality(Same(id, calls[r])) = 0
      BY <3>2, FS_EmptySet
    <3> QED BY <3>1, <3>3 DEF TurnOK, AtCall
  <2> QED BY <2>1, <2>2 DEF TurnInv
<1>2. TurnInv /\ [Next]_vars => TurnInv'
  <2> SUFFICES ASSUME TurnInv, [Next]_vars PROVE TurnInv'
    OBVIOUS
  <2>1. CASE UNCHANGED <<way, calls, results, now, turns>>
    BY <2>1, TurnStays DEF TurnInv, Machine
  <2>2. ASSUME NEW r \in Run, Receive(r) \/ Return(r) \/ Look(r) \/ Authorize(r)
                               \/ Evaluated(r) \/ Pause(r) \/ Execute(r)
        PROVE  TurnInv'
    BY <2>2, ReceiveKeepsTurn, RunKeepsTurn
  <2> QED BY <2>1, <2>2 DEF Next, Grant, Expire, vars
<1> QED BY <1>1, <1>2, PTL DEF Spec

\* Every call of an answer is answered, once, in its order and before the model is
\* asked again, however many calls an answer has and whatever their handlers do.
THEOREM CallsAreAnswered == Spec => []EachCallIsAnswered
<1>1. TurnInv => EachCallIsAnswered
  <2> SUFFICES ASSUME TurnInv, NEW r \in Run, NEW i \in 1..Len(calls[r])
               PROVE  Cardinality({j \in 1..Len(calls[r]) : calls[r][j].id = calls[r][i].id})
                        <= turns[r]
    BY DEF EachCallIsAnswered, TurnInv, TurnOK
  <2>1. calls[r][i].id \in Nat
    <3>1. calls[r][i] \in Calls
      BY RunTypes DEF TurnInv
    <3> QED BY <3>1 DEF Calls
  <2> QED BY <2>1 DEF TurnInv, TurnOK, Same
<1> QED BY <1>1, TurnInvHolds, PTL

\* No handler is entered with arguments that its schema refuses or for a capability
\* that is default-deny, whatever is registered; and the loop reports as completed
\* only what its handler did.
THEOREM HandlersSeeOnlyWhatFits == Spec => []HandlersAreShielded
<1>1. TurnInv => HandlersAreShielded
  BY DEF TurnInv, TurnOK, Rightly, Runnable, Fits, HandlersAreShielded
<1> QED BY <1>1, TurnInvHolds, PTL

-----------------------------------------------------------------------------
(* The lifecycle.                                                          *)

life == [q \in Requests |-> LifeOf(q[1], q[2])]

AtNow(place) ==
  CASE place = "valid"     -> "VALIDATED"
    [] place = "waiting"   -> "AWAITING_APPROVAL"
    [] place = "executing" -> "EXECUTING"
    [] OTHER               -> "REQUESTED"

LEMMA Edges ==
  /\ Contract!TRANSITIONS["REQUESTED"] = {"VALIDATED", "REJECTED"}
  /\ Contract!TRANSITIONS["VALIDATED"] = {"AWAITING_APPROVAL", "EXECUTING", "REJECTED"}
  /\ Contract!TRANSITIONS["AWAITING_APPROVAL"] = {"EXECUTING", "REJECTED"}
  /\ Contract!TRANSITIONS["EXECUTING"] = {"SUCCEEDED", "FAILED"}
BY DEF Contract!TRANSITIONS, Contract!States, Contract!Terminal

LEMMA LifeParts ==
  ASSUME NEW r, NEW i, NEW n \in Nat, n = Len(results[r]) + 1, i \in Nat
  PROVE  /\ way[r] = "loop" => LifeOf(r, i) = "REQUESTED"
         /\ i > n => LifeOf(r, i) = "REQUESTED"
         /\ way[r] # "loop" /\ i < n => LifeOf(r, i) = results[r][i].state
         /\ way[r] # "loop" /\ i = n => LifeOf(r, i) = AtNow(now[r])
BY DEF LifeOf, AtNow

\* At most one request moves, along an edge.
LEMMA OneLifeMoves ==
  ASSUME NEW r \in Run, NEW n \in Nat,
         \A q \in Requests : q # <<r, n>> => LifeOf(q[1], q[2])' = LifeOf(q[1], q[2]),
         <<r, n>> \in Requests =>
           \/ LifeOf(r, n)' = LifeOf(r, n)
           \/ LifeOf(r, n)' \in Contract!TRANSITIONS[LifeOf(r, n)]
  PROVE  [Contract!Next]_life
<1>1. life' = [q \in Requests |-> LifeOf(q[1], q[2])']
  BY DEF life
<1>2. CASE <<r, n>> \in Requests /\ LifeOf(r, n)' # LifeOf(r, n)
  <2>1. PICK to \in Contract!TRANSITIONS[LifeOf(r, n)] : to = LifeOf(r, n)'
    BY <1>2
  <2>2. life[<<r, n>>] = LifeOf(r, n)
    BY <1>2 DEF life
  <2>3. life' = [life EXCEPT ![<<r, n>>] = to]
    <3>1. ASSUME NEW q \in Requests
          PROVE  LifeOf(q[1], q[2])' = IF q = <<r, n>> THEN to ELSE LifeOf(q[1], q[2])
      <4>1. CASE q = <<r, n>>
        <5>1. q[1] = r /\ q[2] = n
          BY <4>1
        <5> QED BY <2>1, <4>1, <5>1
      <4>2. CASE q # <<r, n>>
        BY <4>2
      <4> QED BY <4>1, <4>2
    <3>2. life' = [q \in Requests |-> IF q = <<r, n>> THEN to ELSE LifeOf(q[1], q[2])]
      BY <1>1, <3>1
    <3> QED BY <3>2 DEF life
  <2>4. Contract!Move(<<r, n>>)
    BY <2>1, <2>2, <2>3 DEF Contract!Move, life
  <2> QED BY <1>2, <2>4 DEF Contract!Next
<1>3. CASE ~(<<r, n>> \in Requests /\ LifeOf(r, n)' # LifeOf(r, n))
  <2>1. \A q \in Requests : LifeOf(q[1], q[2])' = LifeOf(q[1], q[2])
    BY <1>3
  <2>2. life' = life
    BY <1>1, <2>1 DEF life
  <2> QED BY <2>2
<1> QED BY <1>2, <1>3

LEMMA AnswerMovesLife ==
  ASSUME TurnInv, NEW r \in Run, NEW state \in Ends, NEW outcome, Answer(r, state, outcome),
         UNCHANGED <<way, calls>>,
         way[r] = "loop" \/ state \in Contract!TRANSITIONS[AtNow(now[r])]
  PROVE  [Contract!Next]_life
<1>1. PICK n \in Nat : n = Len(results[r]) + 1
  BY RunTypes DEF TurnInv
<1>2. PICK result, more : /\ result = [call |-> Current(r), state |-> state, outcome |-> outcome]
                         /\ more = Append(results[r], result)
  OBVIOUS
<1>3. results' = [results EXCEPT ![r] = more] /\ now' = [now EXCEPT ![r] = "idle"]
  BY <1>2 DEF Answer
<1>4. results'[r] = more /\ now'[r] = "idle"
      /\ \A q \in Run \ {r} : results'[q] = results[q] /\ now'[q] = now[q]
  BY <1>3 DEF TurnInv, Machine
<1>5. Len(more) = n /\ more[n].state = state /\ \A i \in 1..(n - 1) : more[i] = results[r][i]
  BY <1>1, <1>2, RunTypes DEF TurnInv
<1>6. ASSUME NEW i \in Nat \ {0}, i # n PROVE LifeOf(r, i)' = LifeOf(r, i)
  <2>1. CASE way[r] = "loop"
    BY <2>1 DEF LifeOf
  <2>2. CASE way[r] # "loop" /\ i < n
    <3>1. i \in 1..(n - 1) /\ ~(i > n) /\ ~(i > n + 1) /\ i <= n /\ i <= n - 1
      BY <1>1, <2>2
    <3>2. LifeOf(r, i) = results[r][i].state /\ LifeOf(r, i)' = results'[r][i].state
      BY <1>1, <1>4, <1>5, <2>2, <3>1, RunTypes DEF LifeOf, TurnInv
    <3> QED BY <1>4, <1>5, <3>1, <3>2
  <2>3. CASE way[r] # "loop" /\ i > n
    <3>1. LifeOf(r, i) = "REQUESTED"
      BY <1>1, <2>3, RunTypes DEF LifeOf, TurnInv
    <3>2. LifeOf(r, i)' = "REQUESTED"
      BY <1>1, <1>4, <1>5, <1>6, <2>3 DEF LifeOf
    <3> QED BY <3>1, <3>2
  <2> QED BY <1>1, <1>6, <2>1, <2>2, <2>3
<1>7. \/ LifeOf(r, n)' = LifeOf(r, n)
      \/ LifeOf(r, n)' \in Contract!TRANSITIONS[LifeOf(r, n)]
  <2>1. CASE way[r] = "loop"
    BY <2>1 DEF LifeOf
  <2>2. CASE way[r] # "loop"
    <3>1. LifeOf(r, n) = AtNow(now[r])
      BY <1>1, <2>2, LifeParts
    <3>2. LifeOf(r, n)' = state
      BY <1>4, <1>5, <2>2 DEF LifeOf
    <3> QED BY <2>2, <3>1, <3>2
  <2> QED BY <2>1, <2>2
<1>8. ASSUME NEW q \in Requests, q # <<r, n>> PROVE LifeOf(q[1], q[2])' = LifeOf(q[1], q[2])
  <2>1. PICK p \in Run, i \in 1..(MaxTurns * 3) : q = <<p, i>>
    BY DEF Requests
  <2>2. i \in Nat \ {0}
    BY ToolUseAssumption
  <2>3. LifeOf(p, i)' = LifeOf(p, i)
    <3>1. CASE p = r
      BY <1>6, <1>8, <2>1, <2>2, <3>1
    <3>2. CASE p # r
      BY <1>4, <3>2 DEF LifeOf
    <3> QED BY <3>1, <3>2
  <2> QED BY <2>1, <2>3
<1> QED BY <1>7, <1>8, OneLifeMoves

LEMMA GoingMovesLife ==
  ASSUME TurnInv, NEW r \in Run, NEW where, Goes(r, where), way' = way,
         \/ way[r] = "loop" \/ AtNow(where) = AtNow(now[r])
         \/ AtNow(where) \in Contract!TRANSITIONS[AtNow(now[r])]
  PROVE  [Contract!Next]_life
<1>1. PICK n \in Nat : n = Len(results[r]) + 1
  BY RunTypes DEF TurnInv
<1>2. results' = results /\ now'[r] = where /\ \A q \in Run \ {r} : now'[q] = now[q]
  BY DEF Goes, TurnInv, Machine
<1>3. ASSUME NEW p \in Run, NEW i \in Nat \ {0}, p # r \/ i # n
      PROVE  LifeOf(p, i)' = LifeOf(p, i)
  <2>1. CASE p # r
    BY <1>2, <2>1 DEF LifeOf
  <2>2. CASE p = r /\ i # n
    <3>1. i > n \/ i <= n - 1
      BY <2>2
    <3>2. Len(results[r]) = n - 1
      BY <1>1, RunTypes DEF TurnInv
    <3> QED BY <1>1, <1>2, <2>2, <3>1, <3>2 DEF LifeOf
  <2> QED BY <1>3, <2>1, <2>2
<1>4. \/ LifeOf(r, n)' = LifeOf(r, n)
      \/ LifeOf(r, n)' \in Contract!TRANSITIONS[LifeOf(r, n)]
  <2>1. CASE way[r] = "loop"
    BY <2>1 DEF LifeOf
  <2>2. CASE way[r] # "loop"
    <3>1. LifeOf(r, n) = AtNow(now[r])
      BY <1>1, <2>2, LifeParts
    <3>2. LifeOf(r, n)' = AtNow(where)
      <4>1. Len(results[r]) = n - 1
        BY <1>1, RunTypes DEF TurnInv
      <4> QED BY <1>2, <2>2, <4>1 DEF LifeOf, AtNow
    <3> QED BY <2>2, <3>1, <3>2
  <2> QED BY <2>1, <2>2
<1>5. ASSUME NEW q \in Requests, q # <<r, n>> PROVE LifeOf(q[1], q[2])' = LifeOf(q[1], q[2])
  <2>1. PICK p \in Run, i \in 1..(MaxTurns * 3) : q = <<p, i>>
    BY DEF Requests
  <2>2. i \in Nat \ {0}
    BY ToolUseAssumption
  <2> QED BY <1>3, <1>5, <2>1, <2>2
<1> QED BY <1>4, <1>5, OneLifeMoves

LEMMA RunMovesLife ==
  ASSUME TurnInv, NEW r \in Run,
         Receive(r) \/ Return(r) \/ Look(r) \/ Authorize(r) \/ Evaluated(r) \/ Pause(r) \/ Execute(r)
  PROVE  [Contract!Next]_life
<1>1. CASE Return(r)
  <2>1. AtNow("thinking") = AtNow(now[r])
    BY <1>1 DEF Return, AtNow
  <2> QED BY <1>1, <2>1, GoingMovesLife DEF Return
<1>2. CASE Receive(r)
  <2>1. UNCHANGED <<way, results>> /\ now[r] = "thinking"
    BY <1>2 DEF Receive
  <2>2. PICK where \in {"done", "idle"} : now' = [now EXCEPT ![r] = where]
    BY <1>2 DEF Receive
  <2>3. Goes(r, where) /\ AtNow(where) = AtNow(now[r])
    BY <2>1, <2>2 DEF Goes, AtNow
  <2> QED BY <2>1, <2>3, GoingMovesLife
<1>3. CASE Look(r)
  <2>1. AtNow(now[r]) = "REQUESTED" /\ AtNow("valid") = "VALIDATED"
    BY <1>3 DEF Look, AtNow
  <2>2. CASE Answer(r, "REJECTED", "none")
    BY <1>3, <2>1, <2>2, AnswerMovesLife, Edges DEF Look, Ends
  <2>3. CASE Goes(r, "valid")
    BY <1>3, <2>1, <2>3, GoingMovesLife, Edges DEF Look
  <2> QED BY <1>3, <2>2, <2>3 DEF Look
<1>4. CASE Authorize(r) \/ Evaluated(r)
  <2>1. UNCHANGED <<way, calls>> /\ now[r] = "valid" /\ Fits(Current(r))
    BY <1>4 DEF Authorize, Evaluated, TurnInv, TurnOK, AtCall
  <2>2. /\ AtNow(now[r]) = "VALIDATED" /\ AtNow("executing") = "EXECUTING"
        /\ AtNow("waiting") = "AWAITING_APPROVAL"
    BY <2>1 DEF AtNow
  <2>3. Goes(r, "executing") \/ Goes(r, "waiting") \/ Answer(r, "REJECTED", "none")
    BY <1>4, <2>1, Verdicts
  <2> QED BY <2>1, <2>2, <2>3, GoingMovesLife, AnswerMovesLife, Edges DEF Ends
<1>5. CASE Pause(r)
  <2>1. AtNow(now[r]) = "AWAITING_APPROVAL"
    BY <1>5 DEF Pause, AtNow
  <2> QED BY <1>5, <2>1, AnswerMovesLife, Edges DEF Pause, Ends
<1>6. CASE Execute(r)
  <2>1. AtNow(now[r]) = "EXECUTING" /\ UNCHANGED <<way, calls>>
    BY <1>6 DEF Execute, AtNow
  <2>2. PICK o \in Outcomes, state \in {"SUCCEEDED", "FAILED"} : Answer(r, state, o)
    BY <1>6 DEF Execute
  <2> QED BY <2>1, <2>2, AnswerMovesLife, Edges DEF Ends
<1> QED BY <1>1, <1>2, <1>3, <1>4, <1>5, <1>6

\* The states that callers see of their requests move along TRANSITIONS and stay in
\* the three that are terminal: ToolUse implements the contract.
THEOREM RequestsFollowLifecycle == Spec => LifecycleHolds
<1>1. Init => Contract!Init
  <2> SUFFICES ASSUME Init PROVE \A q \in Requests : LifeOf(q[1], q[2]) = "REQUESTED"
    BY DEF Contract!Init
  <2> TAKE q \in Requests
  <2>1. PICK r \in Run, i \in 1..(MaxTurns * 3) : q = <<r, i>>
    BY DEF Requests
  <2>2. results[r] = <<>> /\ now[r] = "thinking"
    BY DEF Init
  <2>3. i \in Nat \ {0}
    BY ToolUseAssumption
  <2>4. LifeOf(r, i) = "REQUESTED"
    BY <2>2, <2>3 DEF LifeOf
  <2> QED BY <2>1, <2>4
<1>2. TurnInv /\ [Next]_vars => [Contract!Next]_life
  <2> SUFFICES ASSUME TurnInv, [Next]_vars PROVE [Contract!Next]_life
    OBVIOUS
  <2>1. CASE UNCHANGED <<way, results, now>>
    <3>1. life' = life
      BY <2>1 DEF life, LifeOf
    <3> QED BY <3>1
  <2>2. ASSUME NEW r \in Run, Receive(r) \/ Return(r) \/ Look(r) \/ Authorize(r)
                               \/ Evaluated(r) \/ Pause(r) \/ Execute(r)
        PROVE  [Contract!Next]_life
    BY <2>2, RunMovesLife
  <2> QED BY <2>1, <2>2 DEF Next, Grant, Expire, vars
<1> QED BY <1>1, <1>2, TurnInvHolds, PTL DEF Spec, LifecycleHolds, Contract!Spec, life
=============================================================================
