--------------------------- MODULE PlanningProofs ---------------------------
(***************************************************************************)
(* Theorems about Planning, for any number of requests and any graphs.     *)
(***************************************************************************)
EXTENDS Planning, FiniteSetTheorems, TLAPS

Graphs == UNION {[S -> SUBSET S] : S \in SUBSET Key}

\* Each request goes its own way.
Kinds ==
  /\ \A m \in Post : pc[m] \in {"idle", "creating", "done", "refused", "dead"}
  /\ \A m \in Maker \ Post : pc[m] # "creating"
  /\ \A m \in Maker \ Planned : pc[m] # "planning"
  /\ \A m \in Maker \ Swarm : pc[m] \notin {"joining", "reading", "labelling"}

\* A request writes no row before it has a graph, and what it has not begun is empty.
Fresh == \A m \in Maker : pc[m] \in {"idle", "planning", "creating"}
                            => \A k \in Key : state[<<m, k>>] = "ABSENT"

\* A row of a graph is there after everything it depends on, and names it.
Grown == \A m \in Maker \ Post, k \in Key : state[<<m, k>>] # "ABSENT"
           => /\ k \in Keys(m)
              /\ \A d \in plan[m][k] : state[<<m, d>>] # "ABSENT" /\ <<m, d>> \in deps[<<m, k>>]

\* Rows name rows that exist.
Founded == \A i \in Id : state[i] # "ABSENT" => \A d \in deps[i] : state[d] # "ABSENT"

Ran == {"RUNNING", "SUCCEEDED", "FAILED"}
Ordered == \A i \in Id : state[i] \in Ran => DepsSucceeded(i)

Inv == TypeOK /\ Kinds /\ Fresh /\ Grown /\ Founded /\ Ordered

-----------------------------------------------------------------------------
(* Graphs.                                                                 *)

LEMMA KeysAreOrdered ==
  ASSUME NEW n \in Key
  PROVE  1..n \subseteq Key
BY PlanningAssumption DEF Key

LEMMA PlansAreGraphs ==
  ASSUME NEW m \in Planned, NEW g \in PlansOf(m), Known(g)
  PROVE  g \in Graphs
<1>1. CASE g \in Deterministic
  <2>1. 1 \in Key /\ (MaxKeys > 1 => 1..2 \subseteq Key) /\ {1} \subseteq Key
    BY PlanningAssumption DEF Key
  <2>2. CASE g = [k \in {1} |-> {}]
    <3>1. g \in [{1} -> SUBSET {1}]
      BY <2>2
    <3> QED
      BY <3>1, <2>1 DEF Graphs
  <2>3. CASE MaxKeys > 1 /\ g = [k \in 1..2 |-> IF k = 1 THEN {} ELSE {1}]
    <3>1. g \in [1..2 -> SUBSET (1..2)]
      BY <2>3
    <3> QED
      BY <3>1, <2>1, <2>3 DEF Graphs
  <2> QED
    BY <1>1, <2>2, <2>3 DEF Deterministic
<1>2. CASE g \in FromModel
  <2>1. PICK raw \in Listing : g = Parsed(raw)
    BY <1>2 DEF FromModel
  <2>2. PICK n \in Key : raw \in [1..n -> SUBSET (0..n)]
    BY <2>1 DEF Listing
  <2>3. g \in [1..n -> SUBSET (1..n)]
    <3>1. DOMAIN raw = 1..n
      BY <2>2
    <3>2. \A k \in 1..n : raw[k] \cap 1..k \subseteq 1..n
      BY PlanningAssumption DEF Key
    <3> QED
      BY <2>1, <3>1, <3>2 DEF Parsed
  <2> QED
    BY <2>3, KeysAreOrdered DEF Graphs
<1> QED
  BY <1>1, <1>2 DEF PlansOf

LEMMA RecipesAreGraphs ==
  ASSUME NEW g \in RecipeGraphs
  PROVE  g \in Graphs
<1>1. PICK n \in Key : g \in [1..n -> SUBSET (0..n)]
  BY DEF RecipeGraphs, Listing
<1>2. g \in [1..n -> SUBSET (1..n)]
  BY <1>1 DEF RecipeGraphs, Known
<1> QED
  BY <1>2, KeysAreOrdered DEF Graphs

LEMMA SwarmsAreGraphs ==
  ASSUME NEW g \in SwarmGraphs
  PROVE  g \in Graphs
<1>1. PICK n \in Key : g = [k \in 1..n |-> {}]
  BY DEF SwarmGraphs
<1>2. g \in [1..n -> SUBSET (1..n)]
  BY <1>1
<1> QED
  BY <1>2, KeysAreOrdered DEF Graphs

-----------------------------------------------------------------------------
(* What a step may do to a row, and to a graph.                            *)

Exists(i) == state[i] # "ABSENT"

Inserted(i) ==
  /\ state[i] = "ABSENT" /\ state'[i] = "PENDING"
  /\ \A d \in deps'[i] : d \in Id /\ Exists(d)
  /\ pc'[i[1]] \notin {"idle", "planning", "creating"}
  /\ i[1] \notin Post => /\ i[2] \in Addable(i[1])
                         /\ deps'[i] = {i[1]} \X (plan[i[1]][i[2]] \cap Made(i[1]))
                         /\ pc[i[1]] \notin {"idle", "planning"}
  /\ i[1] \in Post => CreateTask(i[1])

Moved(i) ==
  /\ state[i] \notin {"ABSENT", "SUCCEEDED"} /\ state'[i] # "ABSENT"
  /\ deps'[i] = deps[i]
  /\ state'[i] \in Ran => state[i] \in Ran \/ DepsSucceeded(i)

RowStep(i) == Inserted(i) \/ Moved(i) \/ (state'[i] = state[i] /\ deps'[i] = deps[i])

Grounded == \A m \in Maker : plan'[m] = plan[m] \/ pc[m] \in {"idle", "planning"}

LEMMA QueueingMoves ==
  ASSUME TypeOK, NEW s, QueueReady(s), UNCHANGED deps
  PROVE  \A i \in Id : RowStep(i)
BY DEF TypeOK, QueueReady, RowStep, Moved, Ran

LEMMA EngineMoves ==
  ASSUME TypeOK, NEW i \in Id, Engine(i)
  PROVE  \A j \in Id : RowStep(j)
BY DEF TypeOK, Engine, Start, Succeed, Fail, RunTask, CancelTask, Move, Unrelated, RowStep, Moved, Ran

LEMMA AddingInserts ==
  ASSUME Inv, NEW m \in Maker, AddTask(m)
  PROVE  \A i \in Id : RowStep(i)
<1>1. PICK k \in Addable(m) :
        /\ state' = [state EXCEPT ![<<m, k>>] = "PENDING"]
        /\ deps' = [deps EXCEPT ![<<m, k>>] = {m} \X (plan[m][k] \cap Made(m))]
  BY DEF AddTask
<1>2. k \in Keys(m) /\ k \notin Made(m) /\ Keys(m) \subseteq Key
  BY DEF Addable, Inv, TypeOK, Keys
<1>3. <<m, k>> \in Id /\ state[<<m, k>>] = "ABSENT"
  BY <1>2 DEF Id, Made
<1>4. \A d \in {m} \X (plan[m][k] \cap Made(m)) : d \in Id /\ Exists(d)
  BY <1>2 DEF Made, Exists, Id
<1>5. Inserted(<<m, k>>)
  BY <1>1, <1>3, <1>4 DEF Inserted, Inv, TypeOK, Kinds, AddTask, GoTo
<1>6. \A i \in Id \ {<<m, k>>} : state'[i] = state[i] /\ deps'[i] = deps[i]
  BY <1>1 DEF Inv, TypeOK
<1> QED
  BY <1>5, <1>6 DEF RowStep

LEMMA PostingInserts ==
  ASSUME Inv, NEW p \in Maker, CreateTask(p)
  PROVE  \A i \in Id : RowStep(i)
<1>1. p \in Post /\ pc[p] = "creating" /\ 1 \in Key
  BY PlanningAssumption DEF Inv, Kinds, CreateTask, Key
<1>2. <<p, 1>> \in Id /\ state[<<p, 1>>] = "ABSENT"
  BY <1>1 DEF Inv, Fresh, Id
<1>3. PICK ds \in {{}} \cup {{i} : i \in {j \in Id : state[j] # "ABSENT"}} :
        deps' = [deps EXCEPT ![<<p, 1>>] = ds]
  BY DEF CreateTask
<1>4. Inserted(<<p, 1>>)
  <2>1. state'[<<p, 1>>] = "PENDING" /\ deps'[<<p, 1>>] = ds /\ pc'[p] = "done"
    BY <1>2, <1>3 DEF Inv, TypeOK, CreateTask, Answer, GoTo
  <2>2. \A d \in ds : d \in Id /\ Exists(d)
    BY <1>3 DEF Exists
  <2> QED
    BY <1>1, <1>2, <2>1, <2>2 DEF Inserted
<1>5. \A i \in Id \ {<<p, 1>>} : state'[i] = state[i] /\ deps'[i] = deps[i]
  BY <1>3 DEF Inv, TypeOK, CreateTask
<1> QED
  BY <1>4, <1>5 DEF RowStep

LEMMA RowsStep ==
  ASSUME Inv, [Next]_vars
  PROVE  \A i \in Id : RowStep(i)
<1>1. CASE UNCHANGED <<state, deps>>
  BY <1>1 DEF RowStep
<1>2. ASSUME NEW m \in Maker, Request(m)
      PROVE  \A i \in Id : RowStep(i)
  <2>1. CASE QueuePlan(m)
    BY <2>1, QueueingMoves DEF QueuePlan, Inv
  <2>2. CASE AddTask(m)
    BY <2>2, AddingInserts
  <2>3. CASE CreateTask(m)
    BY <2>3, PostingInserts
  <2> QED
    BY <1>1, <1>2, <2>1, <2>2, <2>3 DEF Request, LookForTasks, Plan, BeginRecipe, BeginSwarm,
       CountTasks, AllAdded, CannotBeOrdered, JoinSwarm, ReadMembers, LabelMembers, LookUpKey,
       LoseCreateRace
<1>3. ASSUME NEW s \in {"shared"} \cup Recipe, Round(s)
      PROVE  \A i \in Id : RowStep(i)
  BY <1>3, QueueingMoves DEF Round, Unrelated, Inv
<1>4. CASE Crash
  BY <1>4 DEF Crash, RowStep, Moved, Ran, Inv, TypeOK
<1> QED
  BY <1>1, <1>2, <1>3, <1>4, EngineMoves DEF Next, vars, VerifySwarm, Inv

LEMMA GraphsStay ==
  ASSUME Inv, [Next]_vars
  PROVE  Grounded
BY DEF Next, vars, Grounded, Request, LookForTasks, Plan, BeginRecipe, BeginSwarm, TakenUp,
   CountTasks, AddTask, AllAdded, CannotBeOrdered, QueuePlan, JoinSwarm, ReadMembers,
   LabelMembers, LookUpKey, CreateTask, LoseCreateRace, VerifySwarm, Round, Engine, Start,
   Succeed, Fail, RunTask, CancelTask, Move, Unrelated, Crash, Inv, TypeOK

Onward(m) ==
  \/ pc'[m] \in {pc[m], "done", "refused", "dead"}
  \/ m \in Planned /\ pc[m] = "idle" /\ pc'[m] = "planning"
  \/ m \in Post /\ pc[m] = "idle" /\ pc'[m] = "creating"
  \/ m \in Swarm /\ pc'[m] \in {"joining", "reading", "labelling"}
  \/ m \notin Post /\ pc'[m] \in {"adding", "inserting", "queueing", "failed", "stuck"}

LEMMA RequestsAdvance ==
  ASSUME Inv, [Next]_vars
  PROVE  \A m \in Maker : Onward(m)
<1>1. CASE UNCHANGED pc
  BY <1>1 DEF Onward
<1>2. ASSUME NEW m \in Maker, NEW l, GoTo(m, l),
             \/ l \in {"done", "refused", "dead"}
             \/ m \in Planned /\ pc[m] = "idle" /\ l = "planning"
             \/ m \in Post /\ pc[m] = "idle" /\ l = "creating"
             \/ m \in Swarm /\ l \in {"joining", "reading", "labelling"}
             \/ m \notin Post /\ l \in {"adding", "inserting", "queueing", "failed", "stuck"}
      PROVE  \A n \in Maker : Onward(n)
  BY <1>2 DEF GoTo, Onward, Inv, TypeOK
<1>3. ASSUME NEW m \in Maker, Request(m) PROVE \A n \in Maker : Onward(n)
  <2>1. CASE m \in Post
    <3>1. LookUpKey(m) \/ CreateTask(m) \/ LoseCreateRace(m)
      BY <1>3, <2>1, PlanningAssumption DEF Request, LookForTasks, Plan, BeginRecipe, BeginSwarm,
         CountTasks, AddTask, AllAdded, CannotBeOrdered, QueuePlan, JoinSwarm, ReadMembers,
         LabelMembers, Inv, Kinds
    <3> QED
      BY <3>1, <2>1, <1>2 DEF LookUpKey, CreateTask, LoseCreateRace, Answer, TakenUp
  <2>2. CASE m \notin Post
    <3>1. CASE LookForTasks(m)
      BY <3>1, <1>2 DEF LookForTasks, TakenUp
    <3>2. CASE Plan(m) \/ BeginRecipe(m) \/ BeginSwarm(m) \/ CountTasks(m) \/ AddTask(m) \/ CannotBeOrdered(m)
      BY <3>2, <2>2, <1>2 DEF Plan, BeginRecipe, BeginSwarm, CountTasks, AddTask, CannotBeOrdered
    <3>3. CASE AllAdded(m) \/ QueuePlan(m) \/ JoinSwarm(m) \/ ReadMembers(m) \/ LabelMembers(m)
      <4>1. JoinSwarm(m) => m \in Swarm
        BY DEF JoinSwarm, Inv, Kinds
      <4> QED
        BY <3>3, <4>1, <2>2, <1>2 DEF AllAdded, QueuePlan, JoinSwarm, ReadMembers, LabelMembers
    <3>4. ~(LookUpKey(m) \/ CreateTask(m) \/ LoseCreateRace(m))
      BY <2>2 DEF LookUpKey, CreateTask, LoseCreateRace, Inv, Kinds
    <3> QED
      BY <1>3, <3>1, <3>2, <3>3, <3>4 DEF Request
  <2> QED
    BY <2>1, <2>2
<1>4. CASE Crash
  BY <1>4 DEF Crash, Onward, Inv, TypeOK
<1> QED
  BY <1>1, <1>3, <1>4 DEF Next, vars, VerifySwarm, Round, Engine, Start, Succeed, Fail, RunTask,
     CancelTask, Move, Unrelated

-----------------------------------------------------------------------------
(* The invariant.                                                          *)

LEMMA InitInv == Init => Inv
<1>1. NoGraph \in [{} -> SUBSET {}] /\ NoGraph \in Graphs
  BY DEF NoGraph, Graphs
<1> QED
  <2> SUFFICES ASSUME Init PROVE Inv
    OBVIOUS
  <2>1. TypeOK
    BY <1>1 DEF Init, TypeOK, Graphs, State
  <2>2. \A m \in Maker, k \in Key : <<m, k>> \in Id /\ state[<<m, k>>] = "ABSENT"
    BY DEF Init, Id
  <2>3. \A i \in Id : state[i] = "ABSENT"
    BY DEF Init
  <2> QED
    BY <2>1, <2>2, <2>3 DEF Init, Inv, Kinds, Maker, Fresh, Grown, Founded, Ordered, Ran

LEMMA KindsStay ==
  ASSUME Inv, [Next]_vars
  PROVE  Kinds'
BY RequestsAdvance, PlanningAssumption DEF Onward, Inv, Kinds, Maker

LEMMA RowsRemain ==
  ASSUME \A i \in Id : RowStep(i)
  PROVE  \A i \in Id : Exists(i) => state'[i] # "ABSENT" /\ deps'[i] = deps[i]
BY DEF RowStep, Inserted, Moved, Exists

LEMMA FreshStays ==
  ASSUME Inv, [Next]_vars
  PROVE  Fresh'
<1> SUFFICES ASSUME NEW m \in Maker, pc'[m] \in {"idle", "planning", "creating"}, NEW k \in Key
             PROVE  state'[<<m, k>>] = "ABSENT"
  BY DEF Fresh
<1>1. <<m, k>> \in Id /\ state[<<m, k>>] = "ABSENT"
  BY RequestsAdvance DEF Onward, Inv, Fresh, Id
<1>2. ~Inserted(<<m, k>>)
  BY DEF Inserted
<1> QED
  BY <1>1, <1>2, RowsStep DEF RowStep, Moved

LEMMA GrownStays ==
  ASSUME Inv, [Next]_vars
  PROVE  Grown'
<1> SUFFICES ASSUME NEW m \in Maker \ Post, NEW k \in Key, state'[<<m, k>>] # "ABSENT"
             PROVE  /\ k \in DOMAIN plan'[m]
                    /\ \A d \in plan'[m][k] :
                         state'[<<m, d>>] # "ABSENT" /\ <<m, d>> \in deps'[<<m, k>>]
  BY DEF Grown, Keys
<1> DEFINE i == <<m, k>>
<1>1. i \in Id /\ i[1] = m /\ i[2] = k
  BY DEF Id
<1>2. plan[m] \in Graphs /\ DOMAIN plan[m] \subseteq Key
  BY DEF Inv, TypeOK, Graphs
<1>3. CASE Exists(i)
  <2>1. k \in DOMAIN plan[m]
        /\ \A d \in plan[m][k] : state[<<m, d>>] # "ABSENT" /\ <<m, d>> \in deps[i]
    BY <1>3 DEF Inv, Grown, Keys, Exists
  <2>2. plan'[m] = plan[m]
    BY <1>3, GraphsStay DEF Grounded, Inv, Fresh, Exists
  <2>3. \A d \in plan[m][k] : <<m, d>> \in Id
    BY <1>2, <2>1 DEF Id, Graphs
  <2> QED
    BY <1>1, <1>3, <2>1, <2>2, <2>3, RowsStep, RowsRemain DEF Exists
<1>4. CASE ~Exists(i)
  <2>1. Inserted(i)
    BY <1>1, <1>4, RowsStep DEF RowStep, Moved, Exists
  <2>2. k \in Addable(m) /\ deps'[i] = {m} \X (plan[m][k] \cap Made(m)) /\ plan'[m] = plan[m]
    BY <1>1, <2>1, GraphsStay DEF Inserted, Grounded
  <2>3. k \in DOMAIN plan[m] /\ plan[m][k] \subseteq Made(m)
    BY <2>2 DEF Addable, Keys
  <2>4. \A d \in plan[m][k] : <<m, d>> \in Id /\ Exists(<<m, d>>)
    BY <1>2, <2>3 DEF Made, Keys, Id, Exists
  <2> QED
    BY <2>2, <2>3, <2>4, RowsStep, RowsRemain DEF Exists
<1> QED
  BY <1>3, <1>4

LEMMA FoundedStays ==
  ASSUME Inv, [Next]_vars
  PROVE  Founded'
<1> SUFFICES ASSUME NEW i \in Id, state'[i] # "ABSENT", NEW d \in deps'[i]
             PROVE  state'[d] # "ABSENT"
  BY DEF Founded
<1>1. d \in Id /\ Exists(d)
  <2>1. CASE Inserted(i)
    BY <2>1 DEF Inserted
  <2>2. CASE ~Inserted(i)
    BY <2>2, RowsStep DEF RowStep, Moved, Inv, Founded, TypeOK, Exists
  <2> QED
    BY <2>1, <2>2
<1> QED
  BY <1>1, RowsStep, RowsRemain

LEMMA OrderedStays ==
  ASSUME Inv, [Next]_vars
  PROVE  Ordered'
<1> SUFFICES ASSUME NEW i \in Id, state'[i] \in Ran, NEW d \in deps'[i],
                    d \in Rows(SessionOf(i[1]))'
             PROVE  state'[d] = "SUCCEEDED"
  BY DEF Ordered, DepsSucceeded
<1>1. Exists(i) /\ deps'[i] = deps[i] /\ DepsSucceeded(i)
  BY RowsStep DEF RowStep, Inserted, Moved, Ran, Exists, Inv, Ordered
<1>2. d \in Id /\ Exists(d)
  BY <1>1 DEF Inv, Founded, TypeOK, Exists
<1>3. d \in Rows(SessionOf(i[1]))
  BY <1>2 DEF Rows, Exists
<1>4. state[d] = "SUCCEEDED"
  BY <1>1, <1>3 DEF DepsSucceeded
<1> QED
  BY <1>2, <1>4, RowsStep DEF RowStep, Inserted, Moved

LEMMA TypeStays ==
  ASSUME Inv, [Next]_vars
  PROVE  TypeOK'
<1>1. CASE UNCHANGED vars
  BY <1>1 DEF vars, Inv, TypeOK
<1>2. ASSUME NEW m \in Maker, LookForTasks(m) PROVE TypeOK'
  BY <1>2 DEF LookForTasks, GoTo, Inv, TypeOK
<1>3. ASSUME NEW m \in Maker, Plan(m) PROVE TypeOK'
  <2>1. m \in Planned
    BY <1>3 DEF Plan, Inv, Kinds
  <2>2. plan' \in [Maker -> Graphs]
    BY <1>3, <2>1, PlansAreGraphs DEF Plan, Inv, TypeOK, Graphs
  <2> QED
    BY <1>3, <2>2 DEF Plan, GoTo, Inv, TypeOK, Graphs
<1>4. ASSUME NEW m \in Maker, BeginRecipe(m) PROVE TypeOK'
  <2>1. PICK g \in RecipeGraphs :
          /\ plan' = [plan EXCEPT ![m] = g]
          /\ \E twice \in SUBSET {k \in DOMAIN g : g[k] # {}} :
               repeats' = [repeats EXCEPT ![m] = twice]
    BY <1>4 DEF BeginRecipe
  <2>2. g \in Graphs /\ DOMAIN g \subseteq Key
    BY RecipesAreGraphs DEF Graphs
  <2>3. plan' \in [Maker -> Graphs] /\ repeats' \in [Maker -> SUBSET Key]
    BY <2>1, <2>2 DEF Inv, TypeOK, Graphs
  <2> QED
    BY <1>4, <2>3 DEF BeginRecipe, GoTo, Inv, TypeOK, Graphs
<1>5. ASSUME NEW m \in Maker, BeginSwarm(m) PROVE TypeOK'
  <2>1. plan' \in [Maker -> Graphs]
    BY <1>5, SwarmsAreGraphs DEF BeginSwarm, Inv, TypeOK, Graphs
  <2> QED
    BY <1>5, <2>1 DEF BeginSwarm, GoTo, Inv, TypeOK, Graphs
<1>6. ASSUME NEW m \in Maker,
             CountTasks(m) \/ AllAdded(m) \/ CannotBeOrdered(m) PROVE TypeOK'
  BY <1>6 DEF CountTasks, AllAdded, CannotBeOrdered, GoTo, Inv, TypeOK
<1>7. ASSUME NEW m \in Maker, AddTask(m) PROVE TypeOK'
  <2>1. PICK k \in Addable(m) :
          /\ state' = [state EXCEPT ![<<m, k>>] = "PENDING"]
          /\ deps' = [deps EXCEPT ![<<m, k>>] = {m} \X (plan[m][k] \cap Made(m))]
    BY <1>7 DEF AddTask
  <2>2. Made(m) \subseteq Key
    BY DEF Made, Keys, Inv, TypeOK
  <2>3. {m} \X (plan[m][k] \cap Made(m)) \subseteq Id
    BY <2>2 DEF Id
  <2>4. state' \in [Id -> State] /\ deps' \in [Id -> SUBSET Id]
    BY <2>1, <2>3 DEF Inv, TypeOK, State
  <2> QED
    BY <1>7, <2>4 DEF AddTask, GoTo, Inv, TypeOK
<1>8. ASSUME NEW m \in Maker, QueuePlan(m) PROVE TypeOK'
  BY <1>8 DEF QueuePlan, QueueReady, GoTo, Inv, TypeOK, State
<1>9. ASSUME NEW m \in Maker,
             JoinSwarm(m) \/ ReadMembers(m) \/ LabelMembers(m) PROVE TypeOK'
  BY <1>9 DEF JoinSwarm, ReadMembers, LabelMembers, GoTo, Inv, TypeOK
<1>10. ASSUME NEW m \in Maker,
              LookUpKey(m) \/ LoseCreateRace(m) PROVE TypeOK'
  <2>1. \A p, q \in Post : <<q, 1>> \in Id
    BY PlanningAssumption DEF Id, Maker, Key
  <2> QED
    BY <1>10, <2>1 DEF LookUpKey, LoseCreateRace, Holding, Answer, GoTo, Inv, TypeOK
<1>11. ASSUME NEW m \in Maker, CreateTask(m) PROVE TypeOK'
  <2>1. m \in Post /\ <<m, 1>> \in Id
    BY <1>11, PlanningAssumption DEF CreateTask, Inv, Kinds, Id, Key
  <2> QED
    BY <1>11, <2>1 DEF CreateTask, Answer, GoTo, Inv, TypeOK, State
<1>12. CASE VerifySwarm
  <2>1. member' \in [Swarm \X Key -> {None, "pending", "queued", "verified", "failed"}]
    BY <1>12 DEF VerifySwarm, Inv, TypeOK
  <2>2. vouched' \subseteq Swarm
    BY <1>12 DEF VerifySwarm, Joined, Inv, TypeOK
  <2> QED
    BY <1>12, <2>1, <2>2 DEF VerifySwarm, Inv, TypeOK
<1>13. ASSUME NEW s \in {"shared"} \cup Recipe, Round(s) PROVE TypeOK'
  BY <1>13 DEF Round, Unrelated, QueueReady, Inv, TypeOK, State
<1>14. ASSUME NEW i \in Id, Engine(i) PROVE TypeOK'
  BY <1>14 DEF Engine, Start, Succeed, Fail, RunTask, CancelTask, Move, Unrelated, Inv, TypeOK, State
<1>15. CASE Crash
  BY <1>15 DEF Crash, Inv, TypeOK, State
<1> QED
  BY <1>1, <1>2, <1>3, <1>4, <1>5, <1>6, <1>7, <1>8, <1>9, <1>10, <1>11, <1>12, <1>13, <1>14,
     <1>15 DEF Next, Request

LEMMA NextInv == Inv /\ [Next]_vars => Inv'
BY TypeStays, KindsStay, FreshStays, GrownStays, FoundedStays, OrderedStays DEF Inv

\* Every row of every request stays what the module declares it to be.
THEOREM TypeCorrect == Spec => []TypeOK
BY InitInv, NextInv, PTL DEF Spec, Inv

\* However many requests write their graphs while rounds, cancellations and crashes
\* fall between the inserts, no task starts before all it was meant to wait for has
\* succeeded.
THEOREM DependenciesAreHonoured == Spec => []NothingRunsEarly
<1>1. Inv => NothingRunsEarly
  <2> SUFFICES ASSUME Inv, NEW i \in Id, state[i] \in Ran, NEW d \in Awaited(i)
               PROVE  state[d] = "SUCCEEDED"
    BY DEF NothingRunsEarly, Ran
  <2>1. PICK m \in Maker, k \in Key : i = <<m, k>>
    BY DEF Id
  <2>2. DepsSucceeded(i) /\ state[i] # "ABSENT"
    BY DEF Inv, Ordered, Ran
  <2>3. CASE m \in Post
    BY <2>1, <2>2, <2>3 DEF Awaited, DepsSucceeded, Inv, Founded, TypeOK, Rows
  <2>4. CASE m \notin Post
    <3>1. PICK e \in plan[m][k] : d = <<m, e>>
      BY <2>1, <2>4 DEF Awaited
    <3>2. d \in deps[i] /\ state[d] # "ABSENT"
      BY <2>1, <2>2, <2>4, <3>1 DEF Inv, Grown
    <3>3. d \in Rows(SessionOf(i[1]))
      BY <2>1, <3>1, <3>2 DEF Inv, TypeOK, Rows
    <3> QED
      BY <2>2, <3>2, <3>3 DEF DepsSucceeded
  <2> QED
    BY <2>3, <2>4
<1> QED
  BY <1>1, InitInv, NextInv, PTL DEF Spec

-----------------------------------------------------------------------------
(* Recipes.                                                                *)

Accepted ==
  /\ \A m \in Recipe : Known(plan[m]) /\ Acyclic(plan[m])
  /\ AcceptedRecipesRun

\* As long as a step is missing, some missing step waits for none of them.
LEMMA AcyclicGraphsGrow ==
  ASSUME NEW m \in Maker, Known(plan[m]), Acyclic(plan[m]), repeats[m] = {}, Made(m) # Keys(m)
  PROVE  Addable(m) # {}
<1> DEFINE S == Keys(m) \ Made(m)
<1>1. S # {} /\ S \in SUBSET DOMAIN plan[m]
  BY DEF Made, Keys
<1>2. PICK k \in S : plan[m][k] \cap S = {}
  BY <1>1 DEF Acyclic
<1>3. plan[m][k] \subseteq Made(m)
  BY <1>2 DEF Known, Keys
<1> QED
  BY <1>2, <1>3 DEF Addable

LEMMA AcceptedStays ==
  ASSUME Inv, Accepted, [Next]_vars
  PROVE  Accepted'
<1>1. ASSUME NEW m \in Recipe PROVE Known(plan'[m]) /\ Acyclic(plan'[m])
  <2>1. CASE \E n \in Maker : BeginRecipe(n)
    <3>1. PICK n \in Maker, g \in RecipeGraphs : plan' = [plan EXCEPT ![n] = g]
      BY <2>1 DEF BeginRecipe
    <3> QED
      BY <3>1 DEF Accepted, RecipeGraphs, Inv, TypeOK
  <2>2. CASE plan' = plan
    BY <2>2 DEF Accepted
  <2>3. CASE \E n \in Maker : Plan(n) \/ BeginSwarm(n)
    <3>1. PICK n \in Maker \ Recipe : plan' = plan \/ \E g : plan' = [plan EXCEPT ![n] = g]
      BY <2>3, PlanningAssumption DEF Plan, BeginSwarm, Inv, Kinds
    <3>2. plan'[m] = plan[m]
      BY <3>1 DEF Inv, TypeOK, Maker
    <3> QED
      BY <3>2 DEF Accepted
  <2> QED
    BY <2>1, <2>2, <2>3 DEF Next, vars, Request, LookForTasks, CountTasks, AddTask, AllAdded,
       CannotBeOrdered, QueuePlan, JoinSwarm, ReadMembers, LabelMembers, LookUpKey, CreateTask,
       LoseCreateRace, VerifySwarm, Round, Engine, Start, Succeed, Fail, RunTask, CancelTask,
       Move, Unrelated, Crash
<1>2. ASSUME NEW m \in Recipe, pc'[m] = "stuck" PROVE repeats'[m] # {}
  <2>1. m \in Maker
    BY DEF Maker
  <2>2. CASE pc[m] = "stuck"
    <3>1. repeats[m] # {}
      BY <2>2 DEF Accepted, AcceptedRecipesRun
    <3>2. repeats'[m] = repeats[m]
      BY <2>1, <2>2 DEF Next, vars, Request, LookForTasks, Plan, BeginRecipe, BeginSwarm, TakenUp,
         CountTasks, AddTask, AllAdded, CannotBeOrdered, QueuePlan, JoinSwarm, ReadMembers,
         LabelMembers, LookUpKey, CreateTask, LoseCreateRace, VerifySwarm, Round, Engine, Start,
         Succeed, Fail, RunTask, CancelTask, Move, Unrelated, Crash, Inv, TypeOK
    <3> QED
      BY <3>1, <3>2
  <2>3. CASE pc[m] # "stuck"
    <3>1. CannotBeOrdered(m)
      <4>1. CASE UNCHANGED pc
        BY <2>3, <4>1, <1>2
      <4>2. CASE Crash
        BY <2>1, <2>3, <4>2, <1>2 DEF Crash, Inv, TypeOK
      <4>3. ASSUME NEW n \in Maker, Request(n) PROVE CannotBeOrdered(m)
        <5>1. ~(\E l : GoTo(n, l) /\ (n # m \/ l # "stuck"))
          BY <2>1, <2>3, <1>2 DEF GoTo, Inv, TypeOK
        <5>2. CannotBeOrdered(n)
          BY <4>3, <5>1 DEF Request, LookForTasks, Plan, BeginRecipe, BeginSwarm, TakenUp, CountTasks,
             AddTask, AllAdded, QueuePlan, JoinSwarm, ReadMembers, LabelMembers, LookUpKey,
             CreateTask, LoseCreateRace, Answer
        <5> QED
          BY <5>1, <5>2 DEF CannotBeOrdered
      <4> QED
        BY <4>1, <4>2, <4>3 DEF Next, vars, VerifySwarm, Round, Engine, Start, Succeed, Fail,
           RunTask, CancelTask, Move, Unrelated
    <3>2. Addable(m) = {} /\ Made(m) # Keys(m) /\ repeats' = repeats
      BY <3>1 DEF CannotBeOrdered
    <3> QED
      BY <2>1, <3>2, AcyclicGraphsGrow DEF Accepted
  <2> QED
    BY <2>2, <2>3
<1> QED
  BY <1>1, <1>2 DEF Accepted, AcceptedRecipesRun

\* Whatever acyclic graph create_recipe accepted, the passes of execute create all of
\* its steps, whichever they try first, unless a step names a dependency twice.
THEOREM AcceptedRecipesAreExecuted == Spec => []AcceptedRecipesRun
<1>1. Init => Accepted
  BY DEF Init, Accepted, AcceptedRecipesRun, Known, Acyclic, NoGraph, Maker
<1>2. Inv /\ Accepted /\ [Next]_vars => Accepted'
  BY AcceptedStays
<1> QED
  BY <1>1, <1>2, InitInv, NextInv, PTL DEF Spec, Accepted

-----------------------------------------------------------------------------
(* Posted tasks.                                                           *)

Row(p) == state[<<p, 1>>] # "ABSENT"

\* One row to a key, and answers that name a row of the same key and principal.
Single == \A p, q \in Post : Row(p) /\ Row(q) /\ KeyOf[p] = KeyOf[q] /\ KeyOf[p] # None => p = q
Named == \A p \in Post : answer[p] # None =>
           \E q \in Post : /\ answer[p] = <<q, 1>> /\ Row(q)
                           /\ OwnerOf[q] = OwnerOf[p] /\ KeyOf[q] = KeyOf[p]

LEMMA SingleStays ==
  ASSUME Inv, Single, [Next]_vars
  PROVE  Single'
<1> SUFFICES ASSUME NEW p \in Post, NEW q \in Post, Row(p)', Row(q)',
                    KeyOf[p] = KeyOf[q], KeyOf[p] # None
             PROVE  p = q
  BY DEF Single
<1>1. \A r \in Post : <<r, 1>> \in Id
  BY PlanningAssumption DEF Id, Key, Maker
<1>2. CASE \E r \in Post : CreateTask(r)
  <2>1. PICK r \in Post : CreateTask(r)
    BY <1>2
  <2>2. \A x \in Post : Row(x)' => Row(x) \/ x = r
    BY <1>1, <2>1 DEF CreateTask, Row, Inv, TypeOK
  <2>3. \A x \in Post : Row(x) => ~(KeyOf[x] = KeyOf[r] /\ KeyOf[r] # None)
    BY <2>1 DEF CreateTask, Taken, Row
  <2> QED
    BY <2>2, <2>3 DEF Single
<1>3. CASE ~\E r \in Post : CreateTask(r)
  <2>1. \A x \in Post : Row(x)' => Row(x)
    BY <1>1, <1>3, RowsStep DEF RowStep, Inserted, Moved, Row
  <2> QED
    BY <2>1 DEF Single
<1> QED
  BY <1>2, <1>3

LEMMA NamedStays ==
  ASSUME Inv, Named, [Next]_vars
  PROVE  Named'
<1>1. \A r \in Post : <<r, 1>> \in Id
  BY PlanningAssumption DEF Id, Key, Maker
<1>2. \A r \in Post : Row(r) => Row(r)'
  BY <1>1, RowsStep, RowsRemain DEF Row, Exists
<1>3. CASE UNCHANGED answer
  BY <1>2, <1>3 DEF Named
<1>4. ASSUME NEW p \in Post, NEW q \in Post, Answer(p, q), Row(q)',
             OwnerOf[q] = OwnerOf[p], KeyOf[q] = KeyOf[p]
      PROVE  Named'
  <2>1. answer'[p] = <<q, 1>> /\ \A r \in Post \ {p} : answer'[r] = answer[r]
    BY <1>4 DEF Answer, Inv, TypeOK
  <2> QED
    BY <1>2, <1>4, <2>1 DEF Named
<1>5. ASSUME NEW p \in Maker, LookUpKey(p) \/ LoseCreateRace(p) PROVE Named'
  <2>1. p \in Post
    BY <1>5 DEF LookUpKey, LoseCreateRace, Inv, Kinds
  <2>2. UNCHANGED answer \/ \E q \in Holding(p) : Answer(p, q)
    BY <1>5 DEF LookUpKey, LoseCreateRace
  <2> QED
    BY <1>2, <1>3, <1>4, <2>1, <2>2 DEF Holding, Row
<1>6. ASSUME NEW p \in Maker, CreateTask(p) PROVE Named'
  <2>1. p \in Post /\ Answer(p, p)
    BY <1>6 DEF CreateTask, Inv, Kinds
  <2>2. Row(p)'
    BY <1>1, <1>6, <2>1 DEF CreateTask, Row, Inv, TypeOK
  <2> QED
    BY <1>4, <2>1, <2>2
<1> QED
  BY <1>3, <1>5, <1>6 DEF Next, vars, Request, LookForTasks, Plan, BeginRecipe, BeginSwarm,
     CountTasks, AddTask, AllAdded, CannotBeOrdered, QueuePlan, JoinSwarm, ReadMembers,
     LabelMembers, VerifySwarm, Round, Engine, Start, Succeed, Fail, RunTask, CancelTask, Move,
     Unrelated, Crash

\* However many requests carry one idempotency key, and however they overlap, they are
\* answered with one row, which belongs to the principal that is answered.
THEOREM RetriesMeet == Spec => []RetriesConverge
<1>1. Init => Single /\ Named
  <2>1. \A r \in Post : <<r, 1>> \in Id
    BY PlanningAssumption DEF Id, Key, Maker
  <2> QED
    BY <2>1 DEF Init, Single, Named, Row
<1>2. Inv /\ Single /\ Named /\ [Next]_vars => Single' /\ Named'
  BY SingleStays, NamedStays
<1>3. Single /\ Named => RetriesConverge
  BY DEF Single, Named, RetriesConverge
<1> QED
  BY <1>1, <1>2, <1>3, InitInv, NextInv, PTL DEF Spec

-----------------------------------------------------------------------------
(* Swarms.                                                                 *)

\* A swarm's workers have joined all together or not at all.
Whole ==
  /\ \A m \in Swarm : (\E k \in Key : member[<<m, k>>] # None)
       => pc[m] \notin {"idle", "planning"} /\ \A k \in Keys(m) : member[<<m, k>>] # None
  /\ \A m \in Swarm : \A i \in pending[m] : member[i] # None
Vouched ==
  \A m \in vouched : pc[m] \notin {"idle", "planning"}
                       /\ \A k \in Keys(m) : state[<<m, k>>] = "SUCCEEDED"

LEMMA SwarmsAdvance ==
  ASSUME Inv, [Next]_vars, NEW m \in Swarm, pc[m] \notin {"idle", "planning"}
  PROVE  pc'[m] \notin {"idle", "planning"} /\ plan'[m] = plan[m] /\ Keys(m) \subseteq Key
<1>1. m \in Maker /\ m \notin Planned /\ m \notin Post
  BY PlanningAssumption DEF Maker
<1> QED
  BY <1>1, RequestsAdvance, GraphsStay DEF Onward, Grounded, Keys, Inv, TypeOK

LEMMA WholeStays ==
  ASSUME Inv, Whole, [Next]_vars
  PROVE  Whole'
<1> DEFINE W == Swarm \X Key
<1>1. member \in [W -> {None, "pending", "queued", "verified", "failed"}]
      /\ pending \in [Swarm -> SUBSET W]
      /\ None \notin {"pending", "queued", "verified", "failed"}
  BY PlanningAssumption DEF Inv, TypeOK
<1>2. ASSUME \A i \in W : member'[i] # None <=> member[i] # None,
             \A m \in Swarm : \A i \in pending'[m] : i \in W /\ member[i] # None
      PROVE  Whole'
  BY <1>2, SwarmsAdvance DEF Whole, Keys
<1>3. CASE UNCHANGED <<member, pending>>
  BY <1>1, <1>2, <1>3 DEF Whole
<1>4. ASSUME NEW n \in Maker, JoinSwarm(n) PROVE Whole'
  <2>1. n \in Swarm /\ pc[n] = "joining"
    BY <1>4 DEF JoinSwarm, Inv, Kinds
  <2>2. \A i \in W : member'[i] = IF i[1] = n /\ i[2] \in Keys(n) THEN "pending" ELSE member[i]
    BY <1>4 DEF JoinSwarm
  <2>3. pc'[n] = "queueing" /\ plan' = plan /\ pending' = pending
    BY <1>4, <2>1 DEF JoinSwarm, GoTo, Inv, TypeOK, Maker
  <2>4. Keys(n) \subseteq Key
    BY <2>1, SwarmsAdvance
  <2>5. ASSUME NEW m \in Swarm, NEW k \in Key, member'[<<m, k>>] # None
        PROVE  pc'[m] \notin {"idle", "planning"} /\ \A j \in DOMAIN plan'[m] : member'[<<m, j>>] # None
    <3>1. CASE m = n
      BY <1>1, <2>2, <2>3, <2>4, <3>1 DEF Keys
    <3>2. CASE m # n
      <4>1. member[<<m, k>>] # None
        BY <2>2, <2>5, <3>2
      <4>2. pc[m] \notin {"idle", "planning"} /\ \A j \in Keys(m) : member[<<m, j>>] # None
        BY <4>1 DEF Whole
      <4>3. Keys(m) \subseteq Key /\ pc'[m] \notin {"idle", "planning"}
        BY <4>2, SwarmsAdvance
      <4> QED
        BY <2>2, <2>3, <3>2, <4>2, <4>3 DEF Keys
    <3> QED
      BY <3>1, <3>2
  <2>6. \A m \in Swarm : \A i \in pending'[m] : member'[i] # None
    BY <1>1, <2>2, <2>3 DEF Whole
  <2> QED
    BY <2>5, <2>6 DEF Whole, Keys
<1>5. ASSUME NEW n \in Maker, ReadMembers(n) PROVE Whole'
  BY <1>1, <1>2, <1>5 DEF ReadMembers, Whole
<1>6. ASSUME NEW n \in Maker, LabelMembers(n) PROVE Whole'
  <2>1. n \in Swarm
    BY <1>6 DEF LabelMembers
  <2>2. \A i \in W : member'[i] = IF i \in pending[n] THEN "queued" ELSE member[i]
    BY <1>1, <1>6 DEF LabelMembers
  <2>3. \A m \in Swarm : pending'[m] \subseteq pending[m]
    BY <1>1, <1>6 DEF LabelMembers
  <2> QED
    BY <1>1, <1>2, <2>1, <2>2, <2>3 DEF Whole
<1>7. CASE VerifySwarm
  BY <1>1, <1>2, <1>7 DEF VerifySwarm, Joined, Whole
<1>8. CASE Crash
  BY <1>1, <1>2, <1>8 DEF Crash
<1> QED
  BY <1>3, <1>4, <1>5, <1>6, <1>7, <1>8 DEF Next, vars, Request, LookForTasks, Plan, BeginRecipe,
     BeginSwarm, CountTasks, AddTask, AllAdded, CannotBeOrdered, QueuePlan, LookUpKey, CreateTask,
     LoseCreateRace, Round, Engine, Start, Succeed, Fail, RunTask, CancelTask, Move, Unrelated

LEMMA VouchedStays ==
  ASSUME Inv, Whole, Vouched, [Next]_vars
  PROVE  Vouched'
<1> SUFFICES ASSUME NEW m \in vouched'
             PROVE  /\ pc'[m] \notin {"idle", "planning"}
                    /\ \A k \in DOMAIN plan'[m] : state'[<<m, k>>] = "SUCCEEDED"
  BY DEF Vouched, Keys
<1>1. /\ m \in Swarm /\ pc[m] \notin {"idle", "planning"}
      /\ \A k \in Keys(m) : state[<<m, k>>] = "SUCCEEDED"
  <2>1. CASE m \in vouched
    BY <2>1 DEF Vouched, Inv, TypeOK
  <2>2. CASE m \notin vouched
    <3>1. VerifySwarm
      BY <2>2 DEF Next, vars, Request, LookForTasks, Plan, BeginRecipe, BeginSwarm, CountTasks,
         AddTask, AllAdded, CannotBeOrdered, QueuePlan, JoinSwarm, ReadMembers, LabelMembers,
         LookUpKey, CreateTask, LoseCreateRace, Round, Engine, Start, Succeed, Fail,
         RunTask, CancelTask, Move, Unrelated, Crash
    <3>2. Passes /\ m \in Swarm /\ \E k \in Key : member[<<m, k>>] # None
      <4>1. PICK i \in Joined : m = i[1]
        BY <2>2, <3>1 DEF VerifySwarm
      <4>2. Passes
        BY <2>2, <3>1 DEF VerifySwarm
      <4>3. PICK n \in Swarm, k \in Key : i = <<n, k>>
        BY <4>1 DEF Joined, Inv, TypeOK
      <4> QED
        BY <4>1, <4>2, <4>3 DEF Joined
    <3>3. pc[m] \notin {"idle", "planning"} /\ \A k \in Keys(m) : member[<<m, k>>] # None
      BY <3>2 DEF Whole
    <3>4. \A k \in Keys(m) : <<m, k>> \in Joined
      BY <3>2, <3>3, SwarmsAdvance DEF Joined, Inv, TypeOK
    <3> QED
      BY <3>2, <3>3, <3>4 DEF Passes
  <2> QED
    BY <2>1, <2>2
<1>2. pc'[m] \notin {"idle", "planning"} /\ plan'[m] = plan[m] /\ Keys(m) \subseteq Key
  BY <1>1, SwarmsAdvance
<1>3. \A k \in Keys(m) : <<m, k>> \in Id
  BY <1>1, <1>2 DEF Id, Maker
<1> QED
  BY <1>1, <1>2, <1>3, RowsStep DEF RowStep, Inserted, Moved, Keys

\* Whatever swarms share a master, and whenever the verification falls, a verdict that
\* all have passed is about every worker of every swarm it saw a member of.
THEOREM VerdictsAreWhole == Spec => []PassIsWhole
<1>1. Init => Whole /\ Vouched
  BY DEF Init, Whole, Vouched
<1>2. Inv /\ Whole /\ Vouched /\ [Next]_vars => Whole' /\ Vouched'
  BY WholeStays, VouchedStays
<1>3. Vouched => PassIsWhole
  BY DEF Vouched, PassIsWhole
<1> QED
  BY <1>1, <1>2, <1>3, InitInv, NextInv, PTL DEF Spec

-----------------------------------------------------------------------------
(* The task limit.                                                         *)

Written   == {i \in Rows("shared") : i[1] \in Adder}
Inserting == {m \in Adder : pc[m] = "inserting"}
Active    == Begun \cap Adder
Slack(n)  == IF n = 0 THEN 0 ELSE n - 1

\* Requests past the count will insert whatever the others do meanwhile.
Fitting == Cardinality(Written) + Cardinality(Inserting) <= Limit + Slack(Cardinality(Active))

Counted ==
  /\ IsFiniteSet(Rows("shared")) /\ Cardinality(Rows("shared")) \in Nat
  /\ IsFiniteSet(Written) /\ Cardinality(Written) \in Nat
  /\ IsFiniteSet(Inserting) /\ Cardinality(Inserting) \in Nat
  /\ IsFiniteSet(Active) /\ Cardinality(Active) \in Nat
  /\ Inserting \subseteq Active /\ Cardinality(Inserting) <= Cardinality(Active)
  /\ Cardinality(Written) <= Cardinality(Rows("shared"))

LEMMA SetsAreFinite == Counted
<1>1. IsFiniteSet(Maker) /\ IsFiniteSet(Key)
  BY FS_Interval, PlanningAssumption DEF Key
<1>2. IsFiniteSet(Id)
  BY <1>1, FS_Product DEF Id
<1>3. Rows("shared") \subseteq Id /\ Written \subseteq Rows("shared")
  BY DEF Rows, Written
<1>4. Active \subseteq Maker /\ Inserting \subseteq Active
  BY DEF Active, Begun, Inserting, Adder, Maker
<1>5. IsFiniteSet(Rows("shared")) /\ IsFiniteSet(Active)
  BY <1>1, <1>2, <1>3, <1>4, FS_Subset
<1>6. /\ IsFiniteSet(Written) /\ Cardinality(Written) <= Cardinality(Rows("shared"))
      /\ IsFiniteSet(Inserting) /\ Cardinality(Inserting) <= Cardinality(Active)
  BY <1>3, <1>4, <1>5, FS_Subset
<1> QED BY <1>4, <1>5, <1>6, FS_CardinalityType DEF Counted

\* A step that writes no row and counts none keeps the bound.
LEMMA QuietStepFits ==
  ASSUME Fitting, Written' = Written, Inserting' \subseteq Inserting, Active \subseteq Active'
  PROVE  Fitting'
<1>1. Counted /\ Counted'
  BY SetsAreFinite, PTL
<1>2. /\ Cardinality(Active) <= Cardinality(Active')
      /\ Cardinality(Inserting') <= Cardinality(Inserting)
  BY <1>1, FS_Subset DEF Counted
<1>3. Slack(Cardinality(Active)) <= Slack(Cardinality(Active')) /\ Limit \in Nat
  BY <1>1, <1>2, PlanningAssumption DEF Counted, Slack
<1>4. Slack(Cardinality(Active)) \in Nat /\ Slack(Cardinality(Active')) \in Nat
  BY <1>1 DEF Counted, Slack
<1> QED BY <1>1, <1>2, <1>3, <1>4 DEF Counted, Fitting

LEMMA BegunStays ==
  ASSUME Inv, [Next]_vars
  PROVE  Active \subseteq Active'
BY RequestsAdvance DEF Onward, Active, Begun, Inv, Kinds, Adder, Maker

\* What does not insert a row of an adder changes no row into one of its.
LEMMA NothingWritten ==
  ASSUME TypeOK, \A i \in Id : i[1] \in Adder => (state'[i] = "ABSENT" <=> state[i] = "ABSENT")
  PROVE  Written' = Written
BY DEF Written, Rows

LEMMA CountingFits ==
  ASSUME Inv, [Next]_vars, NEW m \in Adder, CountTasks(m), Fitting
  PROVE  Fitting'
<1>1. Counted /\ Counted'
  BY SetsAreFinite, PTL
<1>2. Written' = Written
  BY DEF CountTasks, Written, Rows
<1>3. CASE LimitReached(m)
  <2>1. Inserting' \subseteq Inserting
    BY <1>3 DEF CountTasks, GoTo, Inserting, Inv, TypeOK, Adder, Maker
  <2> QED BY <1>2, <2>1, BegunStays, QuietStepFits
<1>4. CASE ~LimitReached(m)
  <2>1. SessionOf(m) = "shared"
    BY PlanningAssumption DEF SessionOf, Adder
  <2>2. Cardinality(Written) < Limit /\ Limit \in Nat
    BY <1>1, <1>4, <2>1, PlanningAssumption DEF LimitReached, Counted
  <2>3. m \in Active'
    BY <1>4 DEF CountTasks, GoTo, Active, Begun, Inv, TypeOK, Adder, Maker
  <2>4. Cardinality(Active') # 0
    BY <1>1, <2>3, FS_EmptySet DEF Counted
  <2> QED BY <1>1, <1>2, <2>2, <2>4 DEF Counted, Fitting, Slack
<1> QED BY <1>3, <1>4

LEMMA AddingFits ==
  ASSUME Inv, [Next]_vars, NEW m \in Adder, AddTask(m), Fitting
  PROVE  Fitting'
<1>1. Counted /\ Counted'
  BY SetsAreFinite, PTL
<1>2. PICK k \in Addable(m) : state' = [state EXCEPT ![<<m, k>>] = "PENDING"]
  BY DEF AddTask
<1>3. <<m, k>> \in Id /\ SessionOf(m) = "shared"
  BY PlanningAssumption DEF Addable, Keys, Inv, TypeOK, Id, Adder, Maker, SessionOf
<1>4. Written' \subseteq Written \cup {<<m, k>>}
  BY <1>2, <1>3 DEF Written, Rows, Inv, TypeOK
<1>5. Cardinality(Written') <= Cardinality(Written) + 1
  <2>1. IsFiniteSet(Written \cup {<<m, k>>})
        /\ Cardinality(Written \cup {<<m, k>>})
             = IF <<m, k>> \in Written THEN Cardinality(Written) ELSE Cardinality(Written) + 1
    BY <1>1, FS_AddElement DEF Counted
  <2>2. Cardinality(Written') <= Cardinality(Written \cup {<<m, k>>})
    BY <1>4, <2>1, FS_Subset
  <2> QED BY <1>1, <2>1, <2>2 DEF Counted
<1>6. m \in Inserting /\ Inserting' = Inserting \ {m}
  BY DEF AddTask, GoTo, Inserting, Inv, TypeOK, Adder, Maker
<1>7. Cardinality(Inserting') = Cardinality(Inserting) - 1
  BY <1>1, <1>6, FS_RemoveElement DEF Counted
<1>8. Cardinality(Active) <= Cardinality(Active')
  BY <1>1, BegunStays, FS_Subset DEF Counted
<1>9. Cardinality(Written') + Cardinality(Inserting') <= Cardinality(Written) + Cardinality(Inserting)
  BY <1>1, <1>5, <1>7 DEF Counted
<1>10. /\ Slack(Cardinality(Active)) <= Slack(Cardinality(Active'))
       /\ Slack(Cardinality(Active)) \in Nat /\ Slack(Cardinality(Active')) \in Nat
  BY <1>1, <1>8 DEF Counted, Slack
<1> QED BY <1>1, <1>9, <1>10, PlanningAssumption DEF Counted, Fitting

\* No other request writes a row of an adder, or passes the count.
LEMMA OthersAreQuiet ==
  ASSUME Inv, NEW m \in Maker, Request(m), m \notin Adder \/ ~(CountTasks(m) \/ AddTask(m))
  PROVE  Written' = Written /\ Inserting' \subseteq Inserting
<1>1. CASE CountTasks(m) \/ AddTask(m)
  <2>1. m \notin Adder
    BY <1>1
  <2>2. Inserting' \subseteq Inserting
    BY <1>1, <2>1 DEF CountTasks, AddTask, GoTo, Inserting, Inv, TypeOK, Adder, Maker
  <2>3. \A i \in Id : i[1] \in Adder => state'[i] = state[i]
    <3>1. ASSUME NEW k, state' = [state EXCEPT ![<<m, k>>] = "PENDING"], NEW i \in Id, i[1] \in Adder
          PROVE  state'[i] = state[i]
      <4>1. i # <<m, k>>
        BY <2>1, <3>1
      <4> QED BY <3>1, <4>1 DEF Inv, TypeOK
    <3>2. CASE CountTasks(m)
      BY <3>2 DEF CountTasks
    <3>3. CASE AddTask(m)
      BY <3>1, <3>3 DEF AddTask
    <3> QED BY <1>1, <3>2, <3>3
  <2> QED BY <2>2, <2>3, NothingWritten DEF Inv
<1>2. CASE CreateTask(m)
  <2>1. m \in Post /\ m \notin Adder
    BY <1>2, PlanningAssumption DEF CreateTask, Inv, Kinds, Adder
  <2>2. Inserting' \subseteq Inserting
    BY <1>2, <2>1 DEF CreateTask, Answer, GoTo, Inserting, Inv, TypeOK, Adder, Maker
  <2>3. \A i \in Id : i[1] \in Adder => state'[i] = state[i]
    BY <1>2, <2>1 DEF CreateTask, Inv, TypeOK, Id
  <2> QED BY <2>2, <2>3, NothingWritten DEF Inv
<1>3. CASE QueuePlan(m)
  <2>1. Inserting' \subseteq Inserting
    BY <1>3 DEF QueuePlan, GoTo, Inserting, Inv, TypeOK, Adder, Maker
  <2>2. \A i \in Id : state'[i] = "ABSENT" <=> state[i] = "ABSENT"
    BY <1>3 DEF QueuePlan, QueueReady
  <2> QED BY <2>1, <2>2, NothingWritten DEF Inv
<1>4. CASE ~(CountTasks(m) \/ AddTask(m) \/ CreateTask(m) \/ QueuePlan(m))
  <2>1. state' = state
    BY <1>4 DEF Request, LookForTasks, Plan, BeginRecipe, BeginSwarm, AllAdded, CannotBeOrdered,
       JoinSwarm, ReadMembers, LabelMembers, LookUpKey, LoseCreateRace
  <2>2. Written' = Written
    BY <2>1 DEF Written, Rows
  <2>3. PICK l : GoTo(m, l) /\ l # "inserting"
    BY <1>4 DEF Request, LookForTasks, Plan, BeginRecipe, BeginSwarm, AllAdded, CannotBeOrdered,
       JoinSwarm, ReadMembers, LabelMembers, LookUpKey, LoseCreateRace, Answer
  <2>4. Inserting' \subseteq Inserting
    BY <2>3 DEF GoTo, Inserting, Inv, TypeOK, Adder, Maker
  <2> QED BY <2>2, <2>4
<1> QED BY <1>1, <1>2, <1>3, <1>4

LEMMA FittingStays ==
  ASSUME Inv, [Next]_vars, Fitting
  PROVE  Fitting'
<1>1. CASE UNCHANGED <<state, pc>>
  <2>1. Written' = Written /\ Inserting' = Inserting
    BY <1>1 DEF Written, Rows, Inserting
  <2> QED BY <2>1, BegunStays, QuietStepFits
<1>2. ASSUME NEW m \in Maker, Request(m) PROVE Fitting'
  <2>1. CASE m \in Adder /\ (CountTasks(m) \/ AddTask(m))
    BY <2>1, CountingFits, AddingFits
  <2>2. CASE ~(m \in Adder /\ (CountTasks(m) \/ AddTask(m)))
    BY <1>2, <2>2, OthersAreQuiet, BegunStays, QuietStepFits
  <2> QED BY <2>1, <2>2
<1>3. ASSUME pc' = pc, \A i \in Id : state'[i] = "ABSENT" <=> state[i] = "ABSENT" PROVE Fitting'
  <2>1. Written' = Written /\ Inserting' = Inserting
    BY <1>3, NothingWritten DEF Inv, Inserting
  <2> QED BY <2>1, BegunStays, QuietStepFits
<1>4. ASSUME NEW s \in {"shared"} \cup Recipe, Round(s) PROVE Fitting'
  <2>1. pc' = pc /\ \A i \in Id : state'[i] = "ABSENT" <=> state[i] = "ABSENT"
    BY <1>4 DEF Round, QueueReady, Unrelated
  <2> QED BY <1>3, <2>1
<1>5. ASSUME NEW i \in Id, Engine(i) PROVE Fitting'
  <2>1. pc' = pc /\ \A j \in Id : state'[j] = "ABSENT" <=> state[j] = "ABSENT"
    BY <1>5 DEF Engine, Start, Succeed, Fail, RunTask, CancelTask, Move, Unrelated, Inv, TypeOK
  <2> QED BY <1>3, <2>1
<1>6. CASE Crash
  <2>1. \A i \in Id : state'[i] = "ABSENT" <=> state[i] = "ABSENT"
    BY <1>6 DEF Crash
  <2>2. Inserting' \subseteq Inserting
    BY <1>6 DEF Crash, Inserting, Adder, Maker
  <2> QED BY <2>1, <2>2, NothingWritten, BegunStays, QuietStepFits DEF Inv
<1> QED BY <1>1, <1>2, <1>4, <1>5, <1>6 DEF Next, vars, VerifySwarm

\* The limit holds but for one row of each planner or swarm besides the first: for
\* any limit and any number of requests, though each counts before it inserts.
THEOREM LimitIsNearlyKept == Spec => []OvershootIsBounded
<1>1. Init => Fitting
  <2> SUFFICES ASSUME Init PROVE Fitting
    OBVIOUS
  <2>1. Written = {} /\ Inserting = {} /\ Active = {}
    BY DEF Init, Written, Rows, Inserting, Active, Begun, Adder, Maker
  <2>2. Cardinality({}) = 0
    BY FS_EmptySet
  <2> QED BY <2>1, <2>2, PlanningAssumption DEF Fitting, Slack
<1>2. Inv /\ Fitting /\ [Next]_vars => Fitting'
  BY FittingStays
<1>3. Fitting => OvershootIsBounded
  BY SetsAreFinite, PlanningAssumption
  DEF Counted, Fitting, Slack, Written, Active, OvershootIsBounded
<1> QED
  BY <1>1, <1>2, <1>3, InitInv, NextInv, PTL DEF Spec
=============================================================================
