--------------------------- MODULE AgentRunProofs ----------------------------
(***************************************************************************)
(* Theorems about AgentRun, for any callers, models, limits and errors.    *)
(***************************************************************************)
EXTENDS AgentRun, FunctionTheorems, FiniteSetTheorems, SequenceTheorems, TLAPS

-----------------------------------------------------------------------------
(* Filtering.                                                              *)

LEMMA IndicesAreFinite ==
  ASSUME NEW m \in Nat, NEW picked \in SUBSET (1..m)
  PROVE  IsFiniteSet(picked) /\ Cardinality(picked) \in Nat
<1>1. IsFiniteSet(1..m)
  BY FS_Interval
<1>2. IsFiniteSet(picked)
  BY <1>1, FS_Subset
<1> QED BY <1>2, FS_CardinalityType

LEMMA RanksDiffer ==
  ASSUME NEW m \in Nat, NEW picked \in SUBSET (1..m), NEW i \in picked, NEW j \in picked, i < j
  PROVE  Rank(picked, i) < Rank(picked, j)
<1> DEFINE P == {k \in picked : k <= i}
           Q == {k \in picked : k <= j}
<1>1. P \subseteq Q /\ j \in Q /\ j \notin P
  <2>1. i \in Nat /\ j \in Nat /\ \A k \in picked : k \in Nat
    OBVIOUS
  <2>2. ASSUME NEW k \in picked, k <= i PROVE k <= j
    BY <2>1, <2>2
  <2>3. ~(j <= i) /\ j <= j
    BY <2>1
  <2> QED BY <2>1, <2>2, <2>3
<1>2. IsFiniteSet(Q)
  BY IndicesAreFinite, FS_Subset
<1>3. IsFiniteSet(P) /\ Cardinality(P) <= Cardinality(Q) /\ Cardinality(P) # Cardinality(Q)
  <2> HIDE DEF P, Q
  <2> QED BY <1>1, <1>2, FS_Subset
<1>4. Cardinality(P) \in Nat /\ Cardinality(Q) \in Nat
  BY <1>2, <1>3, FS_CardinalityType
<1> QED BY <1>3, <1>4 DEF Rank

\* Ranks enumerate a set of indices: they are different numbers, as many as there
\* are indices, and none is larger.
LEMMA EveryRankIsTaken ==
  ASSUME NEW m \in Nat, NEW picked \in SUBSET (1..m), NEW n \in 1..Cardinality(picked)
  PROVE  Nth(picked, n) \in picked /\ Rank(picked, Nth(picked, n)) = n
<1> DEFINE size == Cardinality(picked)
           f    == [i \in picked |-> Rank(picked, i)]
<1>1. IsFiniteSet(picked) /\ size \in Nat
  BY IndicesAreFinite
<1>2. ASSUME NEW i \in picked PROVE Rank(picked, i) \in 1..size
  <2>1. {k \in picked : k <= i} \subseteq picked /\ {k \in picked : k <= i} # {}
    OBVIOUS
  <2>2. /\ IsFiniteSet({k \in picked : k <= i})
        /\ Cardinality({k \in picked : k <= i}) <= size
    BY <1>1, <2>1, FS_Subset
  <2>3. Cardinality({k \in picked : k <= i}) \in Nat \ {0}
    BY <2>1, <2>2, FS_CardinalityType, FS_EmptySet
  <2> QED BY <1>1, <2>2, <2>3 DEF Rank
<1>3. ASSUME NEW i \in picked, NEW j \in picked, Rank(picked, i) = Rank(picked, j) PROVE i = j
  <2>1. PICK a \in Nat : a = Rank(picked, i) /\ a = Rank(picked, j)
    BY <1>1, <1>2, <1>3
  <2>2. ~(i < j)
    <3>1. i < j => a < a
      BY <2>1, RanksDiffer
    <3> QED BY <3>1
  <2>3. ~(j < i)
    <3>1. j < i => a < a
      BY <2>1, RanksDiffer
    <3> QED BY <3>1
  <2>4. i \in Nat /\ j \in Nat
    OBVIOUS
  <2> QED BY <2>2, <2>3, <2>4
<1>4. f \in Injection(picked, 1..size)
  BY <1>2, <1>3 DEF Injection, IsInjective
<1>5. IsFiniteSet(1..size) /\ Cardinality(1..size) = size
  BY <1>1, FS_Interval
<1> HIDE DEF f
<1>6. f \in Surjection(picked, 1..size)
  <2> HIDE DEF size
  <2>1. size = Cardinality(picked)
    BY DEF size
  <2> QED BY <1>4, <1>5, <2>1, FS_Injection
<1>7. \E i \in picked : f[i] = n
  BY <1>6 DEF Surjection
<1>8. \E i \in picked : Rank(picked, i) = n
  BY <1>7 DEF f
<1> QED BY <1>8 DEF Nth

\* What is left of a sequence of models are models of it that were wanted.
LEMMA OnlyWanted ==
  ASSUME NEW items \in Seq(Model), NEW wanted
  PROVE  /\ Only(items, wanted) \in Seq(Model)
         /\ \A n \in DOMAIN Only(items, wanted) :
              /\ Only(items, wanted)[n] \in wanted
              /\ \E i \in DOMAIN items : Only(items, wanted)[n] = items[i]
<1>1. PICK m \in Nat : m = Len(items) /\ DOMAIN items = 1..m
  OBVIOUS
<1>2. PICK picked \in SUBSET (1..m) : picked = {i \in DOMAIN items : items[i] \in wanted}
  BY <1>1
<1>3. PICK size \in Nat : size = Cardinality(picked)
  BY IndicesAreFinite
<1>4. Only(items, wanted) = [n \in 1..size |-> items[Nth(picked, n)]]
  BY <1>2, <1>3 DEF Only, At
<1>5. \A n \in 1..size : Nth(picked, n) \in picked
  BY <1>3, EveryRankIsTaken
<1>6. \A n \in 1..size : /\ items[Nth(picked, n)] \in Model /\ items[Nth(picked, n)] \in wanted
                         /\ Nth(picked, n) \in DOMAIN items
  BY <1>1, <1>2, <1>5
<1>7. Only(items, wanted) \in [1..size -> Model]
  BY <1>4, <1>6
<1>8. Only(items, wanted) \in Seq(Model)
  BY <1>7
<1> QED BY <1>4, <1>6, <1>8

-----------------------------------------------------------------------------
(* Calls in flight.                                                        *)

Shape == /\ call = [c \in Caller |-> call[c]]
         /\ \A c \in Caller : "pc" \in DOMAIN call[c]

InFlight == {c \in Caller : call[c].pc = "calling"}

\* The step moves the call of c, into flight or not.
Moves(c, flies) ==
  /\ call' = [d \in Caller |-> call'[d]]
  /\ \A d \in Caller \ {c} : call'[d] = call[d]
  /\ "pc" \in DOMAIN call'[c]
  /\ call'[c].pc = "calling" <=> flies

\* It keeps the shape, and the other calls in flight.
LEMMA MovesOne ==
  ASSUME Shape, NEW c \in Caller, NEW flies \in BOOLEAN, Moves(c, flies)
  PROVE  /\ Shape'
         /\ InFlight' = IF flies THEN InFlight \cup {c} ELSE InFlight \ {c}
BY DEF Shape, Moves, InFlight

\* The router lets a call through only below the daily limit; a refused one costs
\* nothing.
LEMMA AdmitMoves ==
  ASSUME Shape, NEW c \in Caller, Admit(c), spent \in Nat
  PROVE  /\ c \notin InFlight /\ spent' = spent
         /\ Moves(c, FALSE) \/ (Moves(c, TRUE) /\ ~(spent >= DailyLimit))
<1>1. c \notin InFlight
  BY DEF Admit, InFlight
<1>2. ASSUME NEW o, Record(c, o, 0)
      PROVE  Moves(c, FALSE) /\ spent' = spent
  <2>1. Moves(c, FALSE)
    BY <1>2 DEF Record, Moves, Shape
  <2>2. spent' = spent
    BY <1>2 DEF Record
  <2> QED
    BY <2>1, <2>2
<1>3. CASE ~Broke(c) /\ call' = [call EXCEPT ![c].pc = "calling"] /\ UNCHANGED spent
  BY <1>1, <1>3 DEF Moves, Shape, Broke
<1> QED
  BY <1>1, <1>2, <1>3 DEF Admit

\* An answer ends a call in flight, and costs at most MaxCost.
LEMMA ReturnMoves ==
  ASSUME Shape, NEW c \in Caller, Return(c), spent \in Nat, MaxCost \in Nat
  PROVE  /\ c \in InFlight /\ Moves(c, FALSE)
         /\ spent' \in Nat /\ spent' <= spent + MaxCost
<1>1. c \in InFlight
  BY DEF Return, InFlight
<1>2. PICK cost \in 0..MaxCost : \E o : Record(c, o, cost)
  BY DEF Return
<1>3. PICK o : Record(c, o, cost)
  BY <1>2
<1>4. Moves(c, FALSE)
  BY <1>3 DEF Record, Moves, Shape
<1>5. spent' = spent + cost
  BY <1>3 DEF Record
<1>6. spent' \in Nat /\ spent' <= spent + MaxCost
  BY <1>2, <1>5
<1> QED
  BY <1>1, <1>4, <1>6

\* The other steps of a call, the choice of a model and the turns of the loop start
\* and end nothing, and spend nothing.
LEMMA OthersMove ==
  ASSUME Shape, NEW c \in Caller, Begin(c) \/ Judge(c) \/ Turn(c) \/ Reply(c)
  PROVE  c \notin InFlight /\ Moves(c, FALSE) /\ spent' = spent
<1>1. CASE Begin(c)
  <2>1. PICK chain : call' = [call EXCEPT ![c] = Begun(chain)]
    BY <1>1 DEF Begin, Select
  <2>2. Moves(c, FALSE)
    BY <2>1 DEF Begun, Moves, Shape
  <2> QED
    BY <1>1, <2>2 DEF Begin, Select, InFlight
<1>2. CASE Judge(c)
  <2>1. c \notin InFlight /\ spent' = spent
    BY <1>2 DEF Judge, Answered, RetryCall, FallBack, GiveUp, Report, InFlight
  <2>2. ASSUME NEW pc \in {"answered", "exhausted"}, call' = [call EXCEPT ![c].pc = pc]
        PROVE  Moves(c, FALSE)
    BY <2>2 DEF Moves, Shape
  <2>3. ASSUME NEW n, call' = [call EXCEPT ![c].pc = "ready", ![c].try = n]
        PROVE  Moves(c, FALSE)
    BY <2>3 DEF Moves, Shape
  <2>4. ASSUME NEW queue, NEW next,
               call' = [call EXCEPT ![c].pc = "ready", ![c].try = 0, ![c].queue = queue, ![c].next = next]
        PROVE  Moves(c, FALSE)
    BY <2>4 DEF Moves, Shape
  <2> QED
    BY <1>2, <2>1, <2>2, <2>3, <2>4 DEF Judge, Answered, RetryCall, FallBack, GiveUp
<1>3. CASE Turn(c) \/ Reply(c)
  <2>1. PICK k \in {NoCall, Begun(call[c].chain)} : call' = [call EXCEPT ![c] = k]
    BY <1>3 DEF Turn, Reply, End, CallAgain
  <2>2. Moves(c, FALSE)
    BY <2>1 DEF NoCall, Begun, Moves, Shape
  <2> QED
    BY <1>3, <2>2 DEF Turn, Reply, InFlight, shared
<1> QED
  BY <1>1, <1>2, <1>3

-----------------------------------------------------------------------------
(* The budget.                                                             *)

\* Each call in flight may still spend MaxCost: with what is spent already, that
\* is the most there can be.
Committed == spent + MaxCost * Cardinality(InFlight)
Ceiling   == DailyLimit - 1 + MaxCost * Cardinality(Caller)

SpendInv == Shape /\ spent \in Nat /\ Committed <= Ceiling

LEMMA Smaller ==
  ASSUME NEW m \in Nat, NEW i \in Nat, NEW j \in Nat, i <= j
  PROVE  m * i <= m * j
BY SMT

LEMMA Counted ==
  /\ IsFiniteSet(InFlight) /\ Cardinality(InFlight) \in Nat /\ Cardinality(Caller) \in Nat
  /\ Cardinality(InFlight) <= Cardinality(Caller)
  /\ MaxCost * Cardinality(InFlight) \in Nat /\ MaxCost * Cardinality(Caller) \in Nat
  /\ MaxCost * Cardinality(InFlight) <= MaxCost * Cardinality(Caller)
  /\ MaxCost \in Nat /\ DailyLimit \in Nat \ {0}
<1>1. IsFiniteSet(Caller) /\ MaxCost \in Nat /\ DailyLimit \in Nat \ {0}
  BY InferenceAssumption DEF InferenceAssumption
<1>2. /\ IsFiniteSet(InFlight) /\ Cardinality(InFlight) \in Nat /\ Cardinality(Caller) \in Nat
      /\ Cardinality(InFlight) <= Cardinality(Caller)
  <2>1. InFlight \subseteq Caller
    BY DEF InFlight
  <2> QED
    BY <1>1, <2>1, FS_Subset, FS_CardinalityType
<1>3. MaxCost * Cardinality(InFlight) <= MaxCost * Cardinality(Caller)
  BY <1>1, <1>2, Smaller
<1> QED
  BY <1>1, <1>2, <1>3

\* A step that sends nothing into flight and spends nothing.
LEMMA Quiet ==
  ASSUME SpendInv, Shape', InFlight' \subseteq InFlight, spent' \in Nat, spent' <= spent
  PROVE  SpendInv'
<1>1. /\ Cardinality(InFlight') \in Nat
      /\ Cardinality(InFlight') <= Cardinality(InFlight)
  BY Counted, FS_Subset, FS_CardinalityType
<1>2. MaxCost * Cardinality(InFlight') <= MaxCost * Cardinality(InFlight)
  BY <1>1, Counted, Smaller
<1>3. MaxCost * Cardinality(InFlight') \in Nat
  BY <1>1, Counted
<1> QED
  BY <1>2, <1>3, Counted DEF SpendInv, Committed, Ceiling

\* A step that lands a call, or moves one that did not fly.
LEMMA Lands ==
  ASSUME SpendInv, NEW c \in Caller, Moves(c, FALSE), spent' = spent
  PROVE  SpendInv'
<1>1. Shape' /\ InFlight' = InFlight \ {c}
  BY MovesOne DEF SpendInv
<1>2. InFlight' \subseteq InFlight /\ spent' \in Nat /\ spent' <= spent
  BY <1>1 DEF SpendInv
<1> QED
  BY <1>1, <1>2, Quiet

LEMMA SpendInit == ASSUME Init PROVE SpendInv
<1>1. Shape /\ InFlight = {} /\ spent = 0
  BY DEF Init, InitInference, Shape, InFlight, NoCall
<1>2. Committed = 0
  BY <1>1, Counted, FS_EmptySet DEF Committed
<1> QED
  BY <1>1, <1>2, Counted DEF SpendInv, Ceiling

LEMMA SpendNext == ASSUME SpendInv, [Next]_vars PROVE SpendInv'
<1> USE DEF SpendInv
<1>1. ASSUME NEW c \in Caller, Admit(c)
      PROVE  SpendInv'
  <2>1. c \notin InFlight /\ spent' = spent
    BY <1>1, AdmitMoves
  <2>2. CASE Moves(c, FALSE)
    BY <2>1, <2>2, Lands
  <2>3. CASE Moves(c, TRUE) /\ ~(spent >= DailyLimit)
    <3>1. Shape' /\ InFlight' = InFlight \cup {c}
      BY <2>3, MovesOne
    <3>2. Cardinality(InFlight)' \in Nat /\ Cardinality(InFlight') <= Cardinality(Caller)
      <4>1. InFlight' \subseteq Caller
        BY DEF InFlight
      <4> QED
        BY <4>1, InferenceAssumption, FS_Subset, FS_CardinalityType DEF InferenceAssumption
    <3>3. MaxCost * Cardinality(InFlight') <= MaxCost * Cardinality(Caller)
      BY <3>2, Counted, Smaller
    <3>4. MaxCost * Cardinality(InFlight') \in Nat
      BY <3>2, Counted
    <3> QED
      BY <2>1, <2>3, <3>1, <3>3, <3>4, Counted DEF Committed, Ceiling
  <2> QED
    BY <1>1, <2>2, <2>3, AdmitMoves
<1>2. ASSUME NEW c \in Caller, Return(c)
      PROVE  SpendInv'
  <2>1. /\ c \in InFlight /\ Shape' /\ InFlight' = InFlight \ {c}
        /\ spent' \in Nat /\ spent' <= spent + MaxCost
    BY <1>2, ReturnMoves, MovesOne, Counted
  <2>2. Cardinality(InFlight') = Cardinality(InFlight) - 1 /\ Cardinality(InFlight') \in Nat
    BY <2>1, Counted, FS_RemoveElement, FS_CardinalityType
  <2>3. MaxCost * Cardinality(InFlight') = MaxCost * Cardinality(InFlight) - MaxCost
    BY <2>2, Counted
  <2> QED
    BY <2>1, <2>2, <2>3, Counted DEF Committed, Ceiling
<1>3. ASSUME NEW c \in Caller, Begin(c) \/ Judge(c) \/ Turn(c) \/ Reply(c)
      PROVE  SpendInv'
  BY <1>3, OthersMove, Lands
<1>4. CASE Crash
  <2>1. Shape' /\ InFlight' = {} /\ spent' = spent
    BY <1>4 DEF Crash, Shape, InFlight, NoCall
  <2> QED
    BY <2>1, Quiet
<1>5. CASE NewDay
  BY <1>5, Quiet DEF NewDay, Shape, InFlight
<1>6. CASE UNCHANGED vars
  BY <1>6, Quiet DEF vars, inferenceVars, shared, Shape, InFlight
<1> QED
  BY <1>1, <1>2, <1>3, <1>4, <1>5, <1>6 DEF Next, Step, Work, CallStep

\* Parallel calls overspend together, but by no more than one call each: the
\* budget is read before a call and its cost recorded after it (model_router.py).
THEOREM OverspendIsBounded == Spec => []BoundedOverspend
<1>1. SpendInv => BoundedOverspend
  BY Counted DEF SpendInv, Committed, Ceiling, BoundedOverspend
<1> QED
  BY <1>1, SpendInit, SpendNext, PTL DEF Spec

-----------------------------------------------------------------------------
(* The context.                                                            *)

\* Compaction takes droppable results only.
LEMMA CompactedKeeps ==
  ASSUME NEW results, NEW ids
  PROVE  ids \ Droppable(results, ids) \subseteq Compacted(results, ids)
BY DEF Compacted

\* Nothing among the last KeepRecent results is droppable.
LEMMA RecentStays ==
  ASSUME NEW results, NEW n \in Nat, NEW ids \in SUBSET (1..n), NEW i \in ids, i > n - KeepRecent
  PROVE  i \notin Droppable(results, ids)
<1> DEFINE later == {j \in ids : j > i}
<1>1. KeepRecent \in Nat /\ i \in Int /\ n \in Int
  BY AgentRunAssumption DEF AgentRunAssumption
<1>2. later \subseteq (i + 1)..n
  <2> SUFFICES ASSUME NEW j \in ids, j > i
               PROVE  j \in (i + 1)..n
    OBVIOUS
  <2>1. j \in 1..n /\ i \in 1..n
    OBVIOUS
  <2> QED
    BY <2>1
<1>3. IsFiniteSet((i + 1)..n) /\ Cardinality((i + 1)..n) = IF i + 1 > n THEN 0 ELSE n - (i + 1) + 1
  BY <1>1, FS_Interval
<1>4. Cardinality(later) <= Cardinality((i + 1)..n) /\ Cardinality(later) \in Nat
  BY <1>2, <1>3, FS_Subset, FS_CardinalityType
<1>5. Cardinality(later) < KeepRecent
  BY <1>1, <1>3, <1>4, AgentRunAssumption DEF AgentRunAssumption
<1> QED
  BY <1>5 DEF Droppable, Recent

\* The results of t that must not be lost, after i.
Protected(results) ==
  {i \in DOMAIN results : results[i] = "pinned" \/ i > Len(results) - KeepRecent}

\* They are still tracked, and so safe from the next compaction.
ContextOf(t) ==
  /\ seen[t] \in Seq(ResultKinds)
  /\ kept[t] \subseteq DOMAIN seen[t] /\ shown[t] \subseteq DOMAIN seen[t]
  /\ Protected(seen[t]) \subseteq kept[t] \cap shown[t]

ContextShape ==
  seen = [t \in Task |-> seen[t]] /\ kept = [t \in Task |-> kept[t]] /\ shown = [t \in Task |-> shown[t]]

ContextInv == ContextShape /\ \A t \in Task : ContextOf(t)

LEMMA UseToolsKeeps ==
  ASSUME ContextInv, NEW t \in Task, UseTools(t)
  PROVE  ContextInv'
<1>1. PICK new \in UNION {[1..n -> Results] : n \in 1..MaxCalls} :
        LET results == seen[t] \o new
            fresh   == (Len(seen[t]) + 1)..Len(results)
            rest    == Compacted(results, kept[t] \cup fresh)
        IN
        /\ seen' = [seen EXCEPT ![t] = results]
        /\ kept' = [kept EXCEPT ![t] = rest]
        /\ shown' = [shown EXCEPT ![t] = (@ \cup fresh) \ Erased(results, (kept[t] \cup fresh) \ rest)]
  BY DEF UseTools
<1>n. PICK n \in 1..MaxCalls : new \in [1..n -> Results]
  OBVIOUS
<1> DEFINE results == seen[t] \o new
           fresh   == (Len(seen[t]) + 1)..Len(results)
           ids     == kept[t] \cup fresh
           rest    == Compacted(results, ids)
<1>2. /\ seen[t] \in Seq(ResultKinds) /\ new \in Seq(ResultKinds) /\ Len(new) = n /\ n \in Nat
      /\ KeepRecent \in Nat
  <2>1. Results \subseteq ResultKinds /\ KeepRecent \in Nat /\ MaxCalls \in Nat
    BY AgentRunAssumption DEF AgentRunAssumption
  <2>2. n \in Nat /\ new \in [1..n -> ResultKinds]
    BY <2>1, <1>n
  <2> QED
    BY <2>1, <2>2, IsASeq, LenProperties DEF ContextInv, ContextOf
<1>3. /\ results \in Seq(ResultKinds) /\ Len(results) = Len(seen[t]) + n
      /\ \A i \in 1..Len(seen[t]) : results[i] = seen[t][i]
      /\ Len(seen[t]) \in Nat /\ Len(results) \in Nat
      /\ DOMAIN results = 1..Len(results) /\ DOMAIN seen[t] = 1..Len(seen[t])
  <2>1. Len(seen[t]) \in Nat /\ DOMAIN seen[t] = 1..Len(seen[t])
    BY <1>2, LenProperties
  <2>2. /\ results \in Seq(ResultKinds) /\ Len(results) = Len(seen[t]) + n
        /\ \A i \in 1..(Len(seen[t]) + n) :
             results[i] = IF i <= Len(seen[t]) THEN seen[t][i] ELSE new[i - Len(seen[t])]
    BY <1>2, ConcatProperties
  <2>3. Len(results) \in Nat /\ DOMAIN results = 1..Len(results)
    BY <2>2, LenProperties
  <2>4. \A i \in 1..Len(seen[t]) : i \in 1..(Len(seen[t]) + n) /\ i <= Len(seen[t])
    BY <1>2, <2>1
  <2> HIDE DEF results
  <2> QED
    BY <2>1, <2>2, <2>3, <2>4
<1>4. ids \in SUBSET (1..Len(results)) /\ rest \subseteq ids
  <2>1. kept[t] \subseteq 1..Len(seen[t])
    BY <1>3 DEF ContextInv, ContextOf
  <2>2. rest \subseteq ids
    BY DEF Compacted
  <2>3. 1..Len(seen[t]) \subseteq 1..Len(results) /\ fresh \subseteq 1..Len(results)
    <3> HIDE DEF results
    <3> QED
      BY <1>2, <1>3
  <2> QED
    BY <2>1, <2>2, <2>3
<1>5. ASSUME NEW i \in Protected(results)
      PROVE  i \in rest /\ i \in ids
  <2>1. i \in 1..Len(results) /\ (results[i] = "pinned" \/ i > Len(results) - KeepRecent)
    BY <1>3 DEF Protected
  <2>2. i \in ids
    <3>1. CASE i \in 1..Len(seen[t])
      <4>1. i \in Protected(seen[t])
        BY <1>2, <1>3, <2>1, <3>1 DEF Protected
      <4> QED
        BY <4>1 DEF ContextInv, ContextOf
    <3>2. CASE i \notin 1..Len(seen[t])
      BY <1>3, <2>1, <3>2
    <3> QED
      BY <3>1, <3>2
  <2>3. i \notin Droppable(results, ids)
    <3>1. CASE results[i] = "pinned"
      BY <3>1 DEF Droppable
    <3>2. CASE i > Len(results) - KeepRecent
      BY <1>3, <1>4, <2>2, <3>2, RecentStays
    <3> QED
      BY <2>1, <3>1, <3>2
  <2> QED
    BY <2>2, <2>3, CompactedKeeps
<1>6. /\ seen' = [seen EXCEPT ![t] = results]
      /\ kept' = [kept EXCEPT ![t] = rest]
      /\ shown' = [shown EXCEPT ![t] = (@ \cup fresh) \ Erased(results, ids \ rest)]
  BY <1>1
<1>7. ContextShape' /\ \A u \in Task \ {t} : ContextOf(u)'
  BY <1>6 DEF ContextInv, ContextShape, ContextOf
<1>8. /\ seen'[t] = results /\ kept'[t] = rest
      /\ shown'[t] = (shown[t] \cup fresh) \ Erased(results, ids \ rest)
  BY <1>6 DEF ContextInv, ContextShape
<1>9. ASSUME NEW i \in Protected(results)
      PROVE  i \in shown'[t]
  <2>1. i \in shown[t] \cup fresh
    <3>1. CASE i \in 1..Len(seen[t])
      <4>1. i \in Protected(seen[t])
        BY <1>2, <1>3, <3>1 DEF Protected
      <4> QED
        BY <4>1 DEF ContextInv, ContextOf
    <3>2. CASE i \notin 1..Len(seen[t])
      BY <1>3, <3>2 DEF Protected
    <3> QED
      BY <3>1, <3>2
  <2>2. i \notin Erased(results, ids \ rest)
    BY <1>5 DEF Erased
  <2> QED
    BY <1>8, <2>1, <2>2
<1>10. shown'[t] \subseteq 1..Len(results)
  <2>1. shown[t] \subseteq 1..Len(seen[t])
    BY <1>3 DEF ContextInv, ContextOf
  <2>2. 1..Len(seen[t]) \subseteq 1..Len(results) /\ fresh \subseteq 1..Len(results)
    <3> HIDE DEF results
    <3> QED BY <1>2, <1>3
  <2> QED BY <1>8, <2>1, <2>2
<1>11. ContextOf(t)'
  BY <1>3, <1>4, <1>5, <1>8, <1>9, <1>10 DEF ContextOf
<1> QED
  BY <1>7, <1>11 DEF ContextInv

LEMMA ContextInit == ASSUME Init PROVE ContextInv
<1>1. <<>> \in Seq(ResultKinds) /\ DOMAIN <<>> = {}
  BY EmptySeq, LenProperties
<1> QED
  BY <1>1 DEF Init, ContextInv, ContextShape, ContextOf, Protected

LEMMA ContextNext == ASSUME ContextInv, [Next]_vars PROVE ContextInv'
<1>1. ASSUME UNCHANGED context
      PROVE  ContextInv'
  BY <1>1 DEF context, ContextInv, ContextShape, ContextOf, Protected
<1>2. ASSUME NEW c \in Caller, Begin(c)
      PROVE  ContextInv'
  <2>1. <<>> \in Seq(ResultKinds) /\ DOMAIN <<>> = {}
    BY EmptySeq, LenProperties
  <2>2. /\ seen' = [t \in Task |-> IF t = c THEN <<>> ELSE seen[t]]
        /\ kept' = [t \in Task |-> IF t = c THEN {} ELSE kept[t]]
        /\ shown' = [t \in Task |-> IF t = c THEN {} ELSE shown[t]]
    BY <1>2 DEF Begin
  <2> QED
    BY <2>1, <2>2 DEF ContextInv, ContextShape, ContextOf, Protected
<1>3. ASSUME NEW t \in Task, Turn(t)
      PROVE  ContextInv'
  BY <1>1, <1>3, UseToolsKeeps DEF Turn
<1>4. ASSUME NEW c \in Caller, Work(c) \/ Reply(c)
      PROVE  ContextInv'
  BY <1>1, <1>4 DEF Work, Reply
<1>5. ASSUME Crash \/ NewDay \/ UNCHANGED vars
      PROVE  ContextInv'
  BY <1>1, <1>5 DEF Crash, NewDay, vars, context
<1> QED
  BY <1>2, <1>3, <1>4, <1>5 DEF Next, Step

\* However many results arrive and whatever their sizes, compaction never takes an
\* important or a recent one from the transcript (context.py).
THEOREM ImportantResultsStay == Spec => []ImportantStays
<1>1. ContextInv => ImportantStays
  BY DEF ContextInv, ContextOf, Protected, ImportantStays
<1> QED
  BY <1>1, ContextInit, ContextNext, PTL DEF Spec

-----------------------------------------------------------------------------
(* The choice of a model.                                                  *)

\* A chat begins with a model of Ollama Cloud, one that is not unavailable, as long
\* as there is one.
LEMMA ChatsSelectCloud ==
  ASSUME Shape, NEW c \in Chat, Select(c), primary = Cloud, Usable(c, CloudOrder) # <<>>
  PROVE  /\ ProviderOf[Head(call'[c].chain)] = Cloud
         /\ Head(call'[c].chain) \notin unavailable
<1>1. c \in Caller /\ c \notin Task
  BY InferenceAssumption DEF InferenceAssumption, Caller
<1>2. Strategic(c) = {}
  BY <1>1 DEF Strategic
<1>3. call' = [call EXCEPT ![c] = Begun(Selected(c))]
  BY <1>1, <1>2 DEF Select
<1>4. call'[c].chain = Selected(c)
  BY <1>1, <1>3 DEF Shape, Begun
<1>5. CASE LockHolds(c)
  BY <1>4, <1>5 DEF Selected, LockHolds
<1>6. CASE ~LockHolds(c)
  <2> DEFINE wanted == {m \in Model \ unavailable : Satisfies(c, m)}
             cloud  == Usable(c, CloudOrder)
             rest   == EmergencyFor(c)
  <2>1. CloudOrder \in Seq(Model) /\ Emergency \in Seq(Model)
        /\ \A i \in DOMAIN CloudOrder : ProviderOf[CloudOrder[i]] = Cloud
    BY InferenceAssumption DEF InferenceAssumption
  <2>2. cloud = Only(CloudOrder, wanted)
    BY DEF Usable
  <2>3. cloud \in Seq(Model) /\ cloud # <<>>
    BY <2>1, <2>2, OnlyWanted
  <2>4. rest \in Seq(Model)
    <3>1. Only(Emergency, {m \in Model : ProviderOf[m] \notin {primary, Cloud}}) \in Seq(Model)
      BY <2>1, OnlyWanted
    <3> QED BY <3>1, OnlyWanted DEF EmergencyFor, Usable
  <2>5. 1 \in DOMAIN cloud /\ Head(cloud) = cloud[1]
    <3> HIDE DEF cloud
    <3> QED BY <2>3
  <2>6. cloud \o rest # <<>> /\ Head(cloud \o rest) = Head(cloud)
    <3> HIDE DEF cloud, rest
    <3> QED BY <2>3, <2>4
  <2>7. cloud[1] \in wanted /\ \E i \in DOMAIN CloudOrder : cloud[1] = CloudOrder[i]
    <3>1. \A n \in DOMAIN cloud : /\ cloud[n] \in wanted
                                  /\ \E i \in DOMAIN CloudOrder : cloud[n] = CloudOrder[i]
      <4> HIDE DEF wanted
      <4> QED BY <2>1, <2>2, OnlyWanted
    <3> HIDE DEF cloud, wanted
    <3> QED BY <2>5, <3>1
  <2>8. ProviderOf[cloud[1]] = Cloud /\ cloud[1] \notin unavailable
    BY <2>1, <2>7
  <2>9. Selected(c) = cloud \o rest
    BY <1>6, <2>6 DEF Selected
  <2> HIDE DEF cloud, rest
  <2> QED BY <1>4, <2>5, <2>6, <2>8, <2>9
<1> QED BY <1>5, <1>6

\* Only a choice of a model takes an idle caller to a call.
LEMMA OnlySelectBegins ==
  ASSUME Shape, [Next]_vars, NEW c \in Chat, call[c].pc = "idle", call'[c].pc = "ready"
  PROVE  Select(c)
<1>1. c \in Caller /\ c \notin Task
  BY InferenceAssumption DEF InferenceAssumption, Caller
<1>2. call'[c] # call[c]
  OBVIOUS
<1>3. ASSUME NEW d \in Caller, Begin(d)
      PROVE  Select(c)
  <2>1. \E k : call' = [call EXCEPT ![d] = k]
    BY <1>3 DEF Begin, Select
  <2>2. d = c
    BY <2>1, <1>1, <1>2 DEF Shape
  <2> QED BY <1>3, <2>2 DEF Begin
<1>4. ASSUME NEW d \in Caller, CallStep(d) \/ Turn(d) \/ Reply(d)
      PROVE  FALSE
  <2>1. call[d].pc # "idle"
    BY <1>4 DEF CallStep, Admit, Return, Judge, Answered, RetryCall, FallBack, GiveUp, Report, Turn, Reply
  <2>2. d # c
    BY <2>1
  <2>3. call'[c] = call[c]
    <3>1. \E flies \in BOOLEAN : Moves(d, flies)
      <4>1. CASE Admit(d)
        <5>1. ASSUME NEW o, Record(d, o, 0) PROVE Moves(d, FALSE)
          BY <5>1 DEF Record, Moves, Shape
        <5>2. ASSUME call' = [call EXCEPT ![d].pc = "calling"] PROVE Moves(d, TRUE)
          BY <5>2 DEF Moves, Shape
        <5> QED BY <4>1, <5>1, <5>2 DEF Admit
      <4>2. CASE Return(d)
        <5>1. ASSUME NEW o, NEW cost, Record(d, o, cost) PROVE Moves(d, FALSE)
          BY <5>1 DEF Record, Moves, Shape
        <5> QED BY <4>2, <5>1 DEF Return
      <4> QED BY <1>4, <4>1, <4>2, OthersMove DEF CallStep
    <3> QED BY <1>1, <2>2, <3>1 DEF Moves
  <2> QED BY <1>2, <2>3
<1>5. ASSUME Crash \/ NewDay \/ UNCHANGED vars
      PROVE  FALSE
  <2>1. CASE Crash
    BY <1>1, <2>1 DEF Crash, NoCall
  <2> QED BY <1>2, <1>5, <2>1 DEF NewDay, vars, inferenceVars
<1> QED
  BY <1>3, <1>4, <1>5 DEF Next, Step, Work

\* Whatever other callers do to the shared locks and to the health of the models, a
\* chat is answered by Ollama Cloud as long as one of its models will do
\* (select_model of inference_runtime.py).
THEOREM CloudComesFirst == Spec => CloudFirst
<1>1. ASSUME SpendInv, [Next]_vars
      PROVE  [\A c \in Chat :
                call[c].pc = "idle" /\ call'[c].pc = "ready" /\ primary = Cloud
                  /\ Usable(c, CloudOrder) # <<>> =>
                /\ ProviderOf[Head(call'[c].chain)] = Cloud
                /\ Head(call'[c].chain) \notin unavailable]_inferenceVars
  BY <1>1, OnlySelectBegins, ChatsSelectCloud DEF SpendInv
<1> QED
  BY <1>1, SpendInit, SpendNext, PTL DEF Spec, CloudFirst

-----------------------------------------------------------------------------
(* Types.                                                                  *)

CallRecords == [pc : {"idle", "ready", "calling", "returned", "answered", "exhausted"},
                chain : Seq(Model), queue : Seq(Model), try : 0..Attempts,
                next : Seq(Model), last : Answers \cup FailureKinds]

\* A call under way has a model it was begun with and one it is at.
Chosen == \A c \in Caller : call[c].pc # "idle" => call[c].chain # <<>> /\ call[c].queue # <<>>

LoopOK == /\ run \in [Caller -> [pc : {"idle", "loop"}, runs : Nat, iteration : 0..(MaxIters + 1)]]
          /\ crashes \in 0..MaxCrashes /\ days \in 0..MaxDays

Typed == InferenceTypeOK /\ Chosen /\ LoopOK

LEMMA Limits ==
  /\ Attempts \in Nat \ {0} /\ BreakAfter \in Nat \ {0} /\ DownAfter \in Nat \ {0}
  /\ MaxCost \in Nat /\ MaxIters \in Nat \ {0} /\ MaxCrashes \in Nat /\ MaxDays \in Nat
BY InferenceAssumption, AgentRunAssumption DEF InferenceAssumption, AgentRunAssumption

\* Removing what will not do leaves a sequence of models.
LEMMA UsableModels ==
  ASSUME NEW c, NEW items \in Seq(Model)
  PROVE  Usable(c, items) \in Seq(Model)
BY OnlyWanted DEF Usable

LEMMA FromModels ==
  ASSUME NEW m \in Model, NEW items \in Seq(Model)
  PROVE  From(m, items) \in Seq(Model) \ {<<>>}
<1>1. Only(items, Model \ {m}) \in Seq(Model)
  BY OnlyWanted
<1>2. <<m>> \in Seq(Model) /\ Len(<<m>>) = 1
  OBVIOUS
<1>3. /\ <<m>> \o Only(items, Model \ {m}) \in Seq(Model)
      /\ Len(<<m>> \o Only(items, Model \ {m})) # 0
  BY <1>1, <1>2, ConcatProperties, LenProperties
<1> QED BY <1>3, EmptySeq DEF From

\* select_model always comes to a model.
LEMMA SelectedModels ==
  ASSUME InferenceTypeOK, NEW c \in Caller
  PROVE  Selected(c) \in Seq(Model) \ {<<>>}
<1>1. /\ CloudOrder \in Seq(Model) /\ Emergency \in Seq(Model)
      /\ DefaultModel[primary] \in Model /\ SessionOf[c] \in Session
      /\ lock[SessionOf[c]] \in Seq(Model)
  BY InferenceAssumption DEF InferenceAssumption, InferenceTypeOK
<1>2. EmergencyFor(c) \in Seq(Model)
  <2>1. Only(Emergency, {m \in Model : ProviderOf[m] \notin {primary, Cloud}}) \in Seq(Model)
    BY <1>1, OnlyWanted
  <2> QED BY <2>1, UsableModels DEF EmergencyFor
<1>3. Usable(c, CloudOrder) \o EmergencyFor(c) \in Seq(Model)
  BY <1>1, <1>2, UsableModels, ConcatProperties
<1>4. <<DefaultModel[primary]>> \in Seq(Model) \ {<<>>}
  BY <1>1
<1>5. <<DefaultModel[primary]>> \o EmergencyFor(c) \in Seq(Model)
  BY <1>2, <1>4, ConcatProperties
<1>6. From(DefaultModel[primary], <<DefaultModel[primary]>> \o EmergencyFor(c)) \in Seq(Model) \ {<<>>}
  BY <1>1, <1>5, FromModels
<1> QED BY <1>1, <1>3, <1>4, <1>6 DEF Selected, LockHolds

LEMMA StrategicModels ==
  ASSUME NEW c \in Caller, NEW chain \in Strategic(c)
  PROVE  chain \in Seq(Model)
<1>1. Ranked \in Seq(Model)
  BY InferenceAssumption DEF InferenceAssumption
<1>2. PICK s \in Seq(Model) : chain = SubSeq(s, 1, IF Len(s) < 4 THEN Len(s) ELSE 4)
  BY <1>1, OnlyWanted DEF Strategic
<1> QED BY <1>2, SubSeqProperties, LenProperties

LEMMA BegunCalls ==
  ASSUME NEW chain \in Seq(Model) \ {<<>>}
  PROVE  /\ Begun(chain) \in CallRecords
         /\ Begun(chain).chain # <<>> /\ Begun(chain).queue # <<>> /\ Begun(chain).pc = "ready"
<1>1. Head(chain) \in Model
  BY HeadTailProperties
<1>2. <<Head(chain)>> \in Seq(Model) \ {<<>>} /\ <<>> \in Seq(Model) /\ 1 \in 0..Attempts
  BY <1>1, Limits
<1>3. "empty" \in Answers
  BY DEF Answers
<1> QED BY <1>2, <1>3 DEF Begun, CallRecords

\* The model of a call under way.
LEMMA CurrentModel ==
  ASSUME Typed, NEW c \in Caller, call[c].pc # "idle"
  PROVE  /\ Current(c) \in Model /\ ProviderOf[Current(c)] \in Providers
         /\ call[c] \in CallRecords
<1>1. call[c] \in CallRecords /\ call[c].queue # <<>>
  BY DEF Typed, InferenceTypeOK, CallRecords, Chosen
<1>2. call[c].queue \in Seq(Model)
  BY <1>1 DEF CallRecords
<1> QED BY <1>1, <1>2, HeadTailProperties DEF Current, Providers

\* The candidates after a failure.
LEMMA LeftModels ==
  ASSUME Typed, NEW c \in Caller, call[c].pc # "idle"
  PROVE  Left(c) \in Seq(Model)
<1>1. /\ call[c].chain \in Seq(Model) \ {<<>>} /\ call[c].queue \in Seq(Model) \ {<<>>}
  BY CurrentModel DEF CallRecords, Typed, Chosen
<1>2. Tail(call[c].chain) \in Seq(Model) /\ Tail(call[c].queue) \in Seq(Model)
  BY <1>1, HeadTailProperties
<1>3. ASSUME NEW o, NEW down
      PROVE  Continued(call[c].chain, o, down) \in Seq(Model)
  <2> DEFINE others == Only(Tail(call[c].chain), Model \ down)
  <2>1. others \in Seq(Model)
    BY <1>2, OnlyWanted
  <2>2. ASSUME NEW wanted PROVE Only(others, wanted) \in Seq(Model)
    <3> HIDE DEF others
    <3> QED BY <2>1, OnlyWanted
  <2> HIDE DEF others
  <2>3. \A v, w : Only(others, v) \o Only(others, w) \in Seq(Model)
    BY <2>2, ConcatProperties
  <2> QED BY <2>2, <2>3 DEF Continued, others
<1> QED BY <1>2, <1>3 DEF Left, Rest

\* The steps of the router and of the fallbacks keep the types.
LEMMA RecordKeeps ==
  ASSUME Typed, NEW c \in Caller, call[c].pc # "idle", NEW o \in Answers \cup FailureKinds,
         NEW cost \in Nat, Record(c, o, cost)
  PROVE  /\ tracker' \in [Model -> [state : {"routable", "cooling", "out"}, failures : 0..DownAfter]]
         /\ spent' \in Nat /\ ownSpent' \in [Caller -> Nat]
         /\ call' \in [Caller -> CallRecords] /\ Chosen'
<1>1. ASSUME NEW e \in [state : {"routable", "cooling", "out"}, failures : 0..DownAfter]
      PROVE  Tracked(e, o) \in [state : {"routable", "cooling", "out"}, failures : 0..DownAfter]
  <2>1. e.failures \in 0..DownAfter
    OBVIOUS
  <2>2. (IF e.failures < DownAfter THEN e.failures + 1 ELSE DownAfter) \in 0..DownAfter
    BY <2>1, Limits
  <2>3. Fresh \in [state : {"routable", "cooling", "out"}, failures : 0..DownAfter]
    BY Limits DEF Fresh
  <2> QED BY <2>2, <2>3 DEF Tracked
<1>2. tracker' \in [Model -> [state : {"routable", "cooling", "out"}, failures : 0..DownAfter]]
  BY <1>1, CurrentModel DEF Record, Typed, InferenceTypeOK
<1>3. spent' \in Nat /\ ownSpent' \in [Caller -> Nat]
  BY DEF Record, Typed, InferenceTypeOK
<1>4. call \in [Caller -> CallRecords]
  BY DEF Typed, InferenceTypeOK, CallRecords
<1>5. call' = [call EXCEPT ![c].pc = "returned", ![c].last = o]
  BY DEF Record
<1>6. call' \in [Caller -> CallRecords]
  BY <1>4, <1>5 DEF CallRecords
<1>7. Chosen'
  BY <1>4, <1>5 DEF Chosen, CallRecords, Typed
<1> QED BY <1>2, <1>3, <1>6, <1>7

LEMMA RouterKeeps ==
  ASSUME Typed, NEW c \in Caller, Admit(c) \/ Return(c)
  PROVE  InferenceTypeOK' /\ Chosen'
<1> DEFINE breakers == [state : {"closed", "open", "half-open"}, failures : 0..BreakAfter]
<1>1. /\ call[c].pc # "idle" /\ ProviderOf[Current(c)] \in Providers
      /\ breaker \in [Caller -> [Providers -> breakers]] /\ call \in [Caller -> CallRecords]
  BY CurrentModel DEF Admit, Return, Typed, InferenceTypeOK, CallRecords
<1>2. UNCHANGED <<primary, unavailable, lock>>
  BY DEF Admit, Return
<1>3. CASE Admit(c)
  <2>1. {"budget", "circuit"} \subseteq Answers \cup FailureKinds
    BY DEF FailureKinds, Unretryable
  <2>2. ASSUME NEW o \in {"budget", "circuit"}, Record(c, o, 0), UNCHANGED breaker
        PROVE  InferenceTypeOK' /\ Chosen'
    BY <1>1, <1>2, <2>1, <2>2, RecordKeeps DEF Typed, InferenceTypeOK, CallRecords
  <2>3. ASSUME call' = [call EXCEPT ![c].pc = "calling"],
               breaker' = [breaker EXCEPT ![c][ProviderOf[Current(c)]].state = IF @ = "open" THEN "half-open" ELSE @],
               UNCHANGED <<tracker, spent, ownSpent>>
        PROVE  InferenceTypeOK' /\ Chosen'
    <3>1. call' \in [Caller -> CallRecords] /\ Chosen'
      BY <1>1, <2>3 DEF CallRecords, Chosen, Typed
    <3>2. breaker' \in [Caller -> [Providers -> breakers]]
      <4> DEFINE p == ProviderOf[Current(c)]
                 state == IF breaker[c][p].state = "open" THEN "half-open" ELSE breaker[c][p].state
      <4>1. breaker[c] \in [Providers -> breakers] /\ breaker[c][p] \in breakers
        BY <1>1
      <4>2. [breaker[c][p] EXCEPT !.state = state] \in breakers
        BY <4>1
      <4>3. breaker' = [breaker EXCEPT ![c] = [breaker[c] EXCEPT ![p] = [breaker[c][p] EXCEPT !.state = state]]]
        BY <1>1, <2>3, <4>1
      <4> HIDE DEF breakers, state, p
      <4> QED BY <1>1, <4>1, <4>2, <4>3
    <3> QED BY <1>2, <2>3, <3>1, <3>2 DEF Typed, InferenceTypeOK, CallRecords
  <2> QED BY <1>3, <2>2, <2>3 DEF Admit
<1>4. CASE Return(c)
  <2>1. PICK o \in Outcomes(c) :
          /\ \E cost \in IF o \in Answers THEN 0..MaxCost ELSE {0} : Record(c, o, cost)
          /\ breaker' = [breaker EXCEPT ![c][ProviderOf[Current(c)]] = Tripped(@, o)]
    BY <1>4 DEF Return
  <2>2. PICK cost \in IF o \in Answers THEN 0..MaxCost ELSE {0} : Record(c, o, cost)
    BY <2>1
  <2>3. o \in Answers \cup FailureKinds /\ cost \in Nat
    BY InferenceAssumption DEF InferenceAssumption, Outcomes, Answers
  <2>4. ASSUME NEW b \in breakers PROVE Tripped(b, o) \in breakers
    <3>1. b.failures \in 0..BreakAfter /\ b.state \in {"closed", "open", "half-open"}
      OBVIOUS
    <3>2. (IF b.failures < BreakAfter THEN b.failures + 1 ELSE BreakAfter) \in 0..BreakAfter
      BY <3>1, Limits
    <3>3. Closed \in breakers
      BY Limits DEF Closed
    <3> QED BY <3>1, <3>2, <3>3 DEF Tripped
  <2>5. breaker' \in [Caller -> [Providers -> breakers]]
    <3> HIDE DEF breakers
    <3> QED BY <1>1, <2>1, <2>4
  <2> QED BY <1>1, <1>2, <2>2, <2>3, <2>5, RecordKeeps DEF Typed, InferenceTypeOK, CallRecords
<1> QED BY <1>3, <1>4

LEMMA JudgeKeeps ==
  ASSUME Typed, NEW c \in Caller, Judge(c)
  PROVE  InferenceTypeOK' /\ Chosen'
<1>1. /\ call[c].pc = "returned" /\ unavailable' = Reported(Current(c), call[c].last)
      /\ UNCHANGED <<primary, tracker, spent, ownSpent, breaker>>
  BY DEF Judge, Answered, RetryCall, FallBack, GiveUp, Report
<1>2. /\ Current(c) \in Model /\ call \in [Caller -> CallRecords] /\ Left(c) \in Seq(Model)
      /\ lock \in [Session -> Seq(Model)] /\ SessionOf[c] \in Session
      /\ call[c].try \in 0..Attempts /\ call[c].next \in Seq(Model) /\ Attempts \in Nat
  BY <1>1, CurrentModel, LeftModels, Limits, InferenceAssumption
  DEF InferenceAssumption, Typed, InferenceTypeOK, CallRecords
<1>3. unavailable' \subseteq Model
  BY <1>1, <1>2 DEF Reported, Typed, InferenceTypeOK
<1>4. ASSUME NEW pc \in {"answered", "exhausted"}, call' = [call EXCEPT ![c].pc = pc]
      PROVE  call' \in [Caller -> CallRecords] /\ Chosen'
  BY <1>1, <1>2, <1>4 DEF CallRecords, Chosen, Typed
<1>5. ASSUME Retries(c, call[c].last), call' = [call EXCEPT ![c].pc = "ready", ![c].try = @ + 1]
      PROVE  call' \in [Caller -> CallRecords] /\ Chosen'
  <2>1. call[c].try + 1 \in 0..Attempts
    BY <1>2, <1>5 DEF Retries
  <2> QED BY <1>1, <1>2, <1>5, <2>1 DEF CallRecords, Chosen, Typed
<1>6. ASSUME NEW next \in Seq(Model), Left(c) # <<>>,
             call' = [call EXCEPT ![c].pc = "ready", ![c].try = 0, ![c].queue = Left(c), ![c].next = next]
      PROVE  call' \in [Caller -> CallRecords] /\ Chosen'
  <2> DEFINE after == [call[c] EXCEPT !.pc = "ready", !.try = 0, !.queue = Left(c), !.next = next]
  <2>1. call' = [call EXCEPT ![c] = after]
    BY <1>2, <1>6
  <2>2. call[c] \in CallRecords /\ call[c].chain # <<>>
    BY <1>1, <1>2 DEF Typed, Chosen
  <2>3. after \in CallRecords /\ after.queue = Left(c) /\ after.chain = call[c].chain
    <3> DEFINE S == Seq(Model)
    <3>1. /\ call[c] \in [pc : {"idle", "ready", "calling", "returned", "answered", "exhausted"},
                          chain : S, queue : S, try : 0..Attempts, next : S,
                          last : Answers \cup FailureKinds]
          /\ 0 \in 0..Attempts /\ Left(c) \in S /\ next \in S
      BY <1>2, <2>2 DEF CallRecords
    <3>2. PICK queue \in S : queue = Left(c)
      BY <3>1
    <3> HIDE DEF S
    <3>3. /\ after \in [pc : {"idle", "ready", "calling", "returned", "answered", "exhausted"},
                        chain : S, queue : S, try : 0..Attempts, next : S,
                        last : Answers \cup FailureKinds]
          /\ after.queue = queue /\ after.chain = call[c].chain
      BY <3>1, <3>2
    <3> QED BY <3>2, <3>3 DEF S, CallRecords
  <2>4. Left(c) # <<>>
    BY <1>6
  <2>5. \A d \in Caller : call'[d] = IF d = c THEN after ELSE call[d]
    BY <1>2, <2>1
  <2>6. call' \in [Caller -> CallRecords]
    BY <1>2, <2>1, <2>3
  <2> HIDE DEF after
  <2>7. Chosen'
    BY <2>2, <2>3, <2>4, <2>5 DEF Chosen, Typed
  <2> QED BY <2>6, <2>7
<1>7. call' \in [Caller -> CallRecords] /\ Chosen'
  BY <1>2, <1>4, <1>5, <1>6 DEF Judge, Answered, RetryCall, FallBack, GiveUp
<1>8. lock' \in [Session -> Seq(Model)]
  <2>1. From(Current(c), call[c].next) \in Seq(Model)
    BY <1>2, FromModels
  <2> QED BY <1>2, <2>1 DEF Judge, Answered, RetryCall, FallBack, GiveUp
<1> QED BY <1>1, <1>3, <1>7, <1>8 DEF Typed, InferenceTypeOK, CallRecords

LEMMA SelectKeeps ==
  ASSUME Typed, NEW c \in Caller, Select(c)
  PROVE  InferenceTypeOK' /\ Chosen'
<1>1. /\ call \in [Caller -> CallRecords] /\ lock \in [Session -> Seq(Model)]
      /\ SessionOf[c] \in Session /\ Requested \subseteq Model
  BY InferenceAssumption DEF InferenceAssumption, Typed, InferenceTypeOK, CallRecords
<1>2. PICK chain \in Seq(Model) \ {<<>>} : call' = [call EXCEPT ![c] = Begun(chain)]
  <2>1. \A m \in Requested : <<m>> \in Seq(Model) \ {<<>>}
    BY <1>1
  <2>2. \A chain \in Strategic(c) \ {<<>>} : chain \in Seq(Model) \ {<<>>}
    BY StrategicModels
  <2>3. Selected(c) \in Seq(Model) \ {<<>>}
    BY SelectedModels DEF Typed
  <2> QED BY <2>1, <2>2, <2>3 DEF Select
<1>3. call' \in [Caller -> CallRecords] /\ Chosen'
  BY <1>1, <1>2, BegunCalls DEF Chosen, Typed
<1>4. lock' \in [Session -> Seq(Model)]
  <2>1. Selected(c) \in Seq(Model) /\ <<>> \in Seq(Model)
    BY SelectedModels DEF Typed
  <2>2. LockAfter(c, Selected(c)) \in [Session -> Seq(Model)]
    BY <1>1, <2>1 DEF LockAfter
  <2> QED BY <1>1, <2>2 DEF Select
<1>5. breaker' \in [Caller -> [Providers -> [state : {"closed", "open", "half-open"}, failures : 0..BreakAfter]]]
  BY Limits DEF Select, Closed, Typed, InferenceTypeOK
<1>6. UNCHANGED <<primary, unavailable, tracker, spent, ownSpent>>
  BY DEF Select
<1> QED BY <1>3, <1>4, <1>5, <1>6 DEF Typed, InferenceTypeOK, CallRecords

\* The loop ends a call or begins it again.
LEMMA LoopKeeps ==
  ASSUME Typed, NEW c \in Caller, Turn(c) \/ Reply(c)
  PROVE  Typed'
<1>1. /\ call[c].pc # "idle" /\ call \in [Caller -> CallRecords] /\ call[c].chain \in Seq(Model) \ {<<>>}
      /\ run[c].iteration \in 0..(MaxIters + 1)
  BY DEF Turn, Reply, Typed, InferenceTypeOK, CallRecords, Chosen, LoopOK
<1>2. UNCHANGED <<shared, crashes, days>>
  BY DEF Turn, Reply
<1>3. NoCall \in CallRecords /\ NoCall.pc = "idle"
  BY Limits DEF NoCall, CallRecords, Answers
<1>4. CASE End(c)
  <2>1. call' \in [Caller -> CallRecords] /\ Chosen'
    BY <1>1, <1>3, <1>4 DEF End, Chosen, Typed
  <2>2. breaker' \in [Caller -> [Providers -> [state : {"closed", "open", "half-open"}, failures : 0..BreakAfter]]]
    BY <1>4, Limits DEF End, Closed, Typed, InferenceTypeOK
  <2>3. LoopOK'
    BY <1>2, <1>4 DEF End, LoopOK, Typed
  <2> QED BY <1>2, <2>1, <2>2, <2>3 DEF shared, Typed, InferenceTypeOK, CallRecords
<1>5. CASE CallAgain(c) /\ ~LastCall(c)
  <2>1. call' \in [Caller -> CallRecords] /\ Chosen'
    BY <1>1, <1>5, BegunCalls DEF CallAgain, Chosen, Typed
  <2>2. run[c].iteration + 1 \in 0..(MaxIters + 1)
    BY <1>1, <1>5, Limits DEF LastCall
  <2>3. LoopOK'
    BY <1>2, <1>5, <2>2 DEF CallAgain, LoopOK, Typed
  <2> QED BY <1>2, <1>5, <2>1, <2>3 DEF CallAgain, shared, Typed, InferenceTypeOK, CallRecords
<1> QED BY <1>4, <1>5 DEF Turn, Reply

LEMMA TypedInit == ASSUME Init PROVE Typed
<1>1. NoCall \in CallRecords /\ NoCall.pc = "idle" /\ <<>> \in Seq(Model)
  BY Limits DEF NoCall, CallRecords, Answers
<1> QED
  BY <1>1, Limits
  DEF Init, InitInference, Typed, InferenceTypeOK, Chosen, LoopOK, CallRecords, NoRun, Fresh, Closed

LEMMA TypedNext == ASSUME Typed, [Next]_vars PROVE Typed'
<1>1. ASSUME NEW c \in Caller, Begin(c)
      PROVE  Typed'
  <2>1. InferenceTypeOK' /\ Chosen'
    BY <1>1, SelectKeeps DEF Begin
  <2>2. [NoRun EXCEPT !.pc = "loop", !.runs = run[c].runs + 1, !.iteration = 1]
          \in [pc : {"idle", "loop"}, runs : Nat, iteration : 0..(MaxIters + 1)]
    <3>1. run[c].runs + 1 \in Nat /\ 1 \in 0..(MaxIters + 1)
      BY Limits DEF Typed, LoopOK
    <3> QED BY <3>1 DEF NoRun
  <2>3. LoopOK'
    BY <1>1, <2>2 DEF Begin, LoopOK, Typed
  <2> QED BY <2>1, <2>3 DEF Typed
<1>2. ASSUME NEW c \in Caller, Work(c)
      PROVE  Typed'
  <2>1. InferenceTypeOK' /\ Chosen'
    BY <1>2, RouterKeeps, JudgeKeeps DEF Work, CallStep
  <2>2. LoopOK'
    BY <1>2 DEF Work, LoopOK, Typed
  <2> QED BY <2>1, <2>2 DEF Typed
<1>3. ASSUME NEW c \in Caller, Turn(c) \/ Reply(c)
      PROVE  Typed'
  BY <1>3, LoopKeeps
<1>4. CASE Crash
  <2>1. NoCall \in CallRecords /\ NoCall.pc = "idle" /\ <<>> \in Seq(Model)
    BY Limits DEF NoCall, CallRecords, Answers
  <2>2. LoopOK'
    BY <1>4, Limits DEF Crash, LoopOK, Typed, NoRun
  <2>3. InferenceTypeOK' /\ Chosen'
    BY <1>4, <2>1, Limits DEF Crash, Typed, InferenceTypeOK, Chosen, CallRecords, Fresh, Closed
  <2> QED BY <2>2, <2>3 DEF Typed
<1>5. CASE NewDay
  BY <1>5, Limits DEF NewDay, Typed, InferenceTypeOK, Chosen, LoopOK
<1>6. CASE UNCHANGED vars
  BY <1>6 DEF vars, inferenceVars, shared, Typed, InferenceTypeOK, Chosen, LoopOK
<1> QED
  BY <1>1, <1>2, <1>3, <1>4, <1>5, <1>6 DEF Next, Step

\* Every variable keeps its type; a call under way always has a model it is at, so
\* select_model and the fallbacks never look at the head of an empty list.
THEOREM TypeCorrect == Spec => []TypeOK
<1>1. Typed /\ ContextInv => TypeOK
  BY DEF Typed, ContextInv, ContextShape, ContextOf, LoopOK, TypeOK
<1> QED
  BY <1>1, TypedInit, TypedNext, ContextInit, ContextNext, PTL DEF Spec
=============================================================================
