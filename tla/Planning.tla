------------------------------ MODULE Planning ------------------------------
(***************************************************************************)
(* How the tasks of a session come into being, while drivers already run   *)
(* what is there.  The Planner turns a goal into a graph of tasks, the     *)
(* Supervisor validates it and adds one row per transaction; recipes and   *)
(* swarms do the same with graphs of their own, POST /tasks adds single    *)
(* rows.  Nothing holds these transactions together: a round may fall      *)
(* between two of them, another request may add to the same session, and   *)
(* the process may die with half a plan written.                           *)
(*                                                                         *)
(* The engine that executes the rows is the subject of TaskEngine; here it *)
(* appears by the moves of TaskContract.  No session is deleted.           *)
(***************************************************************************)
EXTENDS Naturals, FiniteSets

CONSTANTS
  Planned,       \* requests that have a goal planned: POST /sessions/{id}/plan ...
  Inline,        \* ... and those of them that are ensure_session_tasks
  Recipe,        \* executions of recipes, each in a session of its own
  Swarm,         \* create_swarm requests, all for one master task
  Post,          \* POST /tasks requests
  KeyOf,         \* [Post -> idempotency key, or None]
  OwnerOf,       \* [Post -> the principal]
  MaxKeys,       \* bound: tasks of one graph
  Limit,         \* MAX_TASKS_PER_SESSION
  MaxRequests,   \* bound: requests that are taken up
  None

Maker == Planned \cup Recipe \cup Swarm \cup Post
Adder == Planned \cup Swarm      \* those that add to the shared session by add_task
Key   == 1..MaxKeys
Id    == Maker \X Key            \* a task row, named by its maker and planned key

ASSUME PlanningAssumption ==
  /\ Inline \subseteq Planned
  /\ Planned \cap Recipe = {} /\ Planned \cap Swarm = {} /\ Planned \cap Post = {}
  /\ Recipe \cap Swarm = {} /\ Recipe \cap Post = {} /\ Swarm \cap Post = {}
  /\ "shared" \notin Recipe
  /\ None \notin {"pending", "queued", "verified", "failed"} \cup Id
  /\ IsFiniteSet(Maker)
  /\ MaxKeys \in Nat \ {0} /\ Limit \in Nat \ {0} /\ MaxRequests \in Nat

\* The session a maker's tasks belong to: a recipe's own, else the shared one.
SessionOf(m) == IF m \in Recipe THEN m ELSE "shared"

VARIABLES
  state,    \* [Id -> state of the row, or "ABSENT"]
  deps,     \* [Id -> the rows its depends_on_json names]
  plan,     \* [Maker -> graph: its keys, each with the keys it depends on]
  repeats,  \* [Maker -> keys whose depends_on lists a key twice]
  pc,       \* [Maker -> where the request is]
  member,   \* [rows of swarms -> status of their membership row, or None]
  pending,  \* [Swarm -> the membership rows it has read as pending]
  answer,   \* [Post -> the row its response names, or None]
  status,   \* Session.status of the shared session
  vouched   \* history: swarms a passing verification has spoken for

vars == <<state, deps, plan, repeats, pc, member, pending, answer, status, vouched>>

State == {"ABSENT", "PENDING", "QUEUED", "RUNNING", "SUCCEEDED", "FAILED", "CANCELLED"}
NoGraph == [k \in {} |-> {}]
Keys(m) == DOMAIN plan[m]
Rows(s) == {i \in Id : state[i] # "ABSENT" /\ SessionOf(i[1]) = s}
Made(m) == {k \in Keys(m) : state[<<m, k>>] # "ABSENT"}

Init ==
  /\ state = [i \in Id |-> "ABSENT"]
  /\ deps = [i \in Id |-> {}]
  /\ plan = [m \in Maker |-> NoGraph]
  /\ repeats = [m \in Maker |-> {}]
  /\ pc = [m \in Maker |-> "idle"]
  /\ member = [i \in Swarm \X Key |-> None]
  /\ pending = [m \in Swarm |-> {}]
  /\ answer = [p \in Post |-> None]
  /\ status = "ACTIVE"
  /\ vouched = {}

-----------------------------------------------------------------------------
(* Graphs.                                                                 *)

\* What a language model may answer: keys in the order listed, and for each any keys
\* at all, 0 standing for one that is not in the list.
Listing == UNION {[1..n -> SUBSET (0..n)] : n \in Key}

\* _parse_llm_plan: only references to keys already listed, or to itself, are kept.
Parsed(raw) == [k \in DOMAIN raw |-> raw[k] \cap 1..k]

\* No set of tasks waits for itself (the depth-first search of _has_cycle,
\* _assert_acyclic_keys and _validate_dag).
Acyclic(g) ==
  ~\E S \in SUBSET DOMAIN g : S # {} /\ \A k \in S : g[k] \cap S # {}

Known(g) == \A k \in DOMAIN g : g[k] \subseteq DOMAIN g

\* The deterministic planner: one task, or gathering material and then producing.
Deterministic == {[k \in {1} |-> {}]} \cup
                 (IF MaxKeys > 1 THEN {[k \in 1..2 |-> IF k = 1 THEN {} ELSE {1}]} ELSE {})

\* What plan() may return: the model's graph unless it has a cycle, or the other.
FromModel == {g \in {Parsed(raw) : raw \in Listing} : Acyclic(g)}
PlansOf(m) == Deterministic \cup (IF m \in Inline THEN {} ELSE FromModel)

\* Mutated: without the search for cycles.
RecipeGraphsUnsearched == {g \in Listing : Known(g)}

\* The graphs create_recipe accepts, in any order of listing.
RecipeGraphs == {g \in Listing : Known(g) /\ Acyclic(g)}

SwarmGraphs == {[k \in 1..n |-> {}] : n \in Key}

-----------------------------------------------------------------------------
(* Requests.                                                               *)

Begun == {m \in Maker : pc[m] # "idle"}
TakenUp(m) == pc[m] = "idle" /\ Cardinality(Begun) < MaxRequests
GoTo(m, l) == pc' = [pc EXCEPT ![m] = l]

\* plan_session and ensure_session_tasks look whether the session has tasks at all.
LookForTasks(m) ==
  /\ m \in Planned /\ TakenUp(m)
  /\ GoTo(m, IF Rows("shared") = {} THEN "planning" ELSE "refused")
  /\ UNCHANGED <<state, deps, plan, repeats, member, pending, answer, status, vouched>>

\* The planner answers and validate_plan judges: only then is anything written.
Plan(m) ==
  /\ pc[m] = "planning"
  /\ \E g \in PlansOf(m) :
       IF Known(g) /\ Acyclic(g)
       THEN /\ plan' = [plan EXCEPT ![m] = g]
            /\ GoTo(m, "adding")
            /\ UNCHANGED status
       ELSE /\ GoTo(m, "failed")
            /\ status' = IF m \in Inline THEN status ELSE "PLANNING_FAILED"
            /\ UNCHANGED plan
  /\ UNCHANGED <<state, deps, repeats, member, pending, answer, vouched>>

\* RecipeEngine.execute: the stored graph, its parameters, a session.
BeginRecipe(m) ==
  /\ m \in Recipe /\ TakenUp(m)
  /\ \E g \in RecipeGraphs :
       /\ plan' = [plan EXCEPT ![m] = g]
       /\ \E twice \in SUBSET {k \in DOMAIN g : g[k] # {}} :
            repeats' = [repeats EXCEPT ![m] = twice]
  /\ GoTo(m, "adding")
  /\ UNCHANGED <<state, deps, member, pending, answer, status, vouched>>

\* plan_swarm and the head of create_swarm.
BeginSwarm(m) ==
  /\ m \in Swarm /\ TakenUp(m)
  /\ \E g \in SwarmGraphs : plan' = [plan EXCEPT ![m] = g]
  /\ GoTo(m, "adding")
  /\ UNCHANGED <<state, deps, repeats, member, pending, answer, status, vouched>>

-----------------------------------------------------------------------------
(* Adding the tasks of a graph, each in a transaction of its own.          *)

\* Mutated: in any order.
AddableUnordered(m) == Keys(m) \ (Made(m) \cup repeats[m])

\* The tasks that may be added next: apply_plan goes by _topological_order, execute
\* makes passes over the steps whose dependencies exist, and leaves out for good a
\* step that names one of them twice (it counts the list against the set).
Addable(m) ==
  {k \in Keys(m) \ (Made(m) \cup repeats[m]) : plan[m][k] \subseteq Made(m)}

\* Mutated: off by one.
LimitPassed(m) == Cardinality(Rows(SessionOf(m))) > Limit

\* add_task counts the rows of the session.
LimitReached(m) == Cardinality(Rows(SessionOf(m))) >= Limit

\* At the limit it raises: a planner's request fails with what it has written, as a
\* swarm's does.
CountTasks(m) ==
  /\ pc[m] = "adding" /\ Addable(m) # {}
  /\ IF LimitReached(m)
     THEN /\ GoTo(m, "failed")
          /\ status' = IF m \in Planned \ Inline THEN "PLANNING_FAILED" ELSE status
     ELSE GoTo(m, "inserting") /\ UNCHANGED status
  /\ UNCHANGED <<state, deps, plan, repeats, member, pending, answer, vouched>>

\* ... and inserts a PENDING row, with the ids of the dependencies created so far.
AddTask(m) ==
  /\ pc[m] = "inserting"
  /\ \E k \in Addable(m) :
       /\ state' = [state EXCEPT ![<<m, k>>] = "PENDING"]
       /\ deps' = [deps EXCEPT ![<<m, k>>] = {m} \X (plan[m][k] \cap Made(m))]
  /\ GoTo(m, "adding")
  /\ UNCHANGED <<plan, repeats, member, pending, answer, status, vouched>>

\* All are there: a plan and a swarm go on to queue them, a recipe's stay PENDING.
AllAdded(m) ==
  /\ pc[m] = "adding" /\ Made(m) = Keys(m)
  /\ GoTo(m, CASE m \in Planned -> "queueing" [] m \in Swarm -> "joining" [] OTHER -> "done")
  /\ UNCHANGED <<state, deps, plan, repeats, member, pending, answer, status, vouched>>

\* A pass over the steps made no progress: "recipe DAG could not be ordered (cycle?)".
CannotBeOrdered(m) ==
  /\ pc[m] = "adding" /\ Addable(m) = {} /\ Made(m) # Keys(m)
  /\ GoTo(m, "stuck")
  /\ UNCHANGED <<state, deps, plan, repeats, member, pending, answer, status, vouched>>

-----------------------------------------------------------------------------
(* Queueing.                                                               *)

\* A dependency that is not a row of the session does not count.
DepsSucceeded(i) ==
  \A d \in deps[i] : d \in Rows(SessionOf(i[1])) => state[d] = "SUCCEEDED"

\* Supervisor.plan, and the first transaction of a round.
QueueReady(s) ==
  state' = [i \in Id |-> IF i \in Rows(s) /\ state[i] = "PENDING" /\ DepsSucceeded(i)
                         THEN "QUEUED" ELSE state[i]]

QueuePlan(m) ==
  /\ pc[m] = "queueing"
  /\ QueueReady(SessionOf(m))
  /\ GoTo(m, IF m \in Swarm THEN "reading" ELSE "done")
  /\ UNCHANGED <<deps, plan, repeats, member, pending, answer, status, vouched>>

-----------------------------------------------------------------------------
(* Swarms.                                                                 *)

\* The membership rows of all workers, in one transaction after the tasks.
JoinSwarm(m) ==
  /\ pc[m] = "joining"
  /\ member' = [i \in Swarm \X Key |->
                  IF i[1] = m /\ i[2] \in Keys(m) THEN "pending" ELSE member[i]]
  /\ GoTo(m, "queueing")
  /\ UNCHANGED <<state, deps, plan, repeats, pending, answer, status, vouched>>

\* The members still pending are read, and then written as queued.
ReadMembers(m) ==
  /\ m \in Swarm /\ pc[m] = "reading"
  /\ pending' = [pending EXCEPT ![m] = {i \in DOMAIN member : member[i] = "pending"}]
  /\ GoTo(m, "labelling")
  /\ UNCHANGED <<state, deps, plan, repeats, member, answer, status, vouched>>

LabelMembers(m) ==
  /\ m \in Swarm /\ pc[m] = "labelling"
  /\ member' = [i \in DOMAIN member |-> IF i \in pending[m] THEN "queued" ELSE member[i]]
  /\ pending' = [pending EXCEPT ![m] = {}]
  /\ GoTo(m, "done")
  /\ UNCHANGED <<state, deps, plan, repeats, answer, status, vouched>>

Joined == {i \in DOMAIN member : member[i] # None}

\* Mutated: those still pending are forgotten.
PassesUnlessFailed == \A i \in Joined : state[i] \notin {"FAILED", "CANCELLED"}

\* Its verdict: nobody has failed and nobody is pending.
Passes == \A i \in Joined : state[i] = "SUCCEEDED"

\* verify_swarm, on GET /swarm/{master}: the outcome of the members there are.
VerifySwarm ==
  /\ Joined # {}
  /\ member' = [i \in DOMAIN member |->
       IF i \notin Joined THEN None
       ELSE CASE state[i] = "SUCCEEDED" -> "verified"
              [] state[i] \in {"FAILED", "CANCELLED"} -> "failed"
              [] OTHER -> member[i]]
  /\ vouched' = vouched \cup (IF Passes THEN {i[1] : i \in Joined} ELSE {})
  /\ UNCHANGED <<state, deps, plan, repeats, pc, pending, answer, status>>

-----------------------------------------------------------------------------
(* POST /tasks.                                                            *)

\* The row a key leads this principal to.
Holding(p) ==
  {q \in Post : /\ KeyOf[q] = KeyOf[p] /\ KeyOf[p] # None
                /\ OwnerOf[q] = OwnerOf[p] /\ state[<<q, 1>>] # "ABSENT"}

Answer(p, q) == answer' = [answer EXCEPT ![p] = <<q, 1>>] /\ GoTo(p, "done")

\* A key that is known is answered with its row.
LookUpKey(p) ==
  /\ p \in Post /\ TakenUp(p)
  /\ \/ \E q \in Holding(p) : Answer(p, q)
     \/ Holding(p) = {} /\ GoTo(p, "creating") /\ UNCHANGED answer
  /\ UNCHANGED <<state, deps, plan, repeats, member, pending, status, vouched>>

\* Mutated: without the index.
NeverTaken(p) == FALSE

\* The unique index lets one insert through, whoever owns the key.
Taken(p) == \E q \in Post : /\ KeyOf[q] = KeyOf[p] /\ KeyOf[p] # None
                            /\ state[<<q, 1>>] # "ABSENT"

\* The row may depend on any rows, of any session: nothing is checked.
CreateTask(p) ==
  /\ pc[p] = "creating" /\ ~Taken(p)
  /\ \E ds \in {{}} \cup {{i} : i \in {j \in Id : state[j] # "ABSENT"}} :
       deps' = [deps EXCEPT ![<<p, 1>>] = ds]
  /\ state' = [state EXCEPT ![<<p, 1>>] = "PENDING"]
  /\ Answer(p, p)
  /\ UNCHANGED <<plan, repeats, member, pending, status, vouched>>

\* The insert fails: the row that came first if it is the caller's, else 409.
LoseCreateRace(p) ==
  /\ pc[p] = "creating" /\ Taken(p)
  /\ \/ \E q \in Holding(p) : Answer(p, q)
     \/ Holding(p) = {} /\ GoTo(p, "refused") /\ UNCHANGED answer
  /\ UNCHANGED <<state, deps, plan, repeats, member, pending, status, vouched>>

-----------------------------------------------------------------------------
(* The engine, and the operator.                                           *)

Unrelated == <<deps, plan, repeats, pc, member, pending, answer, status, vouched>>
Move(i, from, to) ==
  state[i] \in from /\ state' = [state EXCEPT ![i] = to] /\ UNCHANGED Unrelated

\* A driver is at a session once something of it was queued, or when drive_session
\* has got past planning; which found tasks, or made them.
Driven(s) ==
  \/ \E i \in Rows(s) : state[i] # "PENDING"
  \/ \E m \in Inline : SessionOf(m) = s /\ pc[m] \in {"done", "refused"}

Round(s) == Driven(s) /\ QueueReady(s) /\ UNCHANGED Unrelated

Start(i)     == DepsSucceeded(i) /\ Move(i, {"QUEUED"}, "RUNNING")
Succeed(i)   == Move(i, {"RUNNING"}, "SUCCEEDED")
Fail(i)      == Move(i, {"RUNNING"}, "FAILED")

\* POST /tasks/{id}/run asks for no dependency; the round that starts it does.
RunTask(i)   == Move(i, {"PENDING", "FAILED"}, "QUEUED")

\* cancel_task, cancel_batch and cancel_run, of what has not started.
CancelTask(i) == Move(i, {"PENDING", "QUEUED"}, "CANCELLED")

\* The process dies: requests end where they are, executions are requeued.
Crash ==
  /\ \E m \in Maker : pc[m] \notin {"idle", "done", "failed", "refused", "stuck", "dead"}
  /\ pc' = [m \in Maker |-> IF pc[m] \in {"idle", "done", "failed", "refused", "stuck"}
                            THEN pc[m] ELSE "dead"]
  /\ state' = [i \in Id |-> IF state[i] = "RUNNING" THEN "QUEUED" ELSE state[i]]
  /\ pending' = [m \in Swarm |-> {}]
  /\ UNCHANGED <<deps, plan, repeats, member, answer, status, vouched>>

Request(m) ==
  \/ LookForTasks(m) \/ Plan(m) \/ BeginRecipe(m) \/ BeginSwarm(m)
  \/ CountTasks(m) \/ AddTask(m) \/ AllAdded(m) \/ CannotBeOrdered(m)
  \/ QueuePlan(m) \/ JoinSwarm(m) \/ ReadMembers(m) \/ LabelMembers(m)
  \/ LookUpKey(m) \/ CreateTask(m) \/ LoseCreateRace(m)

Engine(i) == Start(i) \/ Succeed(i) \/ Fail(i) \/ RunTask(i) \/ CancelTask(i)

Next ==
  \/ \E m \in Maker : Request(m)
  \/ VerifySwarm
  \/ \E s \in {"shared"} \cup Recipe : Round(s)
  \/ \E i \in Id : Engine(i)
  \/ Crash

Spec == Init /\ [][Next]_vars

-----------------------------------------------------------------------------
(* Correctness.                                                            *)

TypeOK ==
  /\ state \in [Id -> State]
  /\ deps \in [Id -> SUBSET Id]
  /\ plan \in [Maker -> UNION {[S -> SUBSET S] : S \in SUBSET Key}]
  /\ repeats \in [Maker -> SUBSET Key]
  /\ pc \in [Maker -> {"idle", "planning", "adding", "inserting", "joining", "queueing",
                       "reading", "labelling", "creating", "done", "failed", "refused",
                       "stuck", "dead"}]
  /\ member \in [Swarm \X Key -> {None, "pending", "queued", "verified", "failed"}]
  /\ pending \in [Swarm -> SUBSET (Swarm \X Key)]
  /\ answer \in [Post -> Id \cup {None}]
  /\ status \in {"ACTIVE", "PLANNING_FAILED"}
  /\ vouched \subseteq Swarm

\* What the row i was meant to wait for: the tasks its graph names, whether or not
\* their rows exist, or for a posted task those it names in its session.
Awaited(i) ==
  IF i[1] \in Post THEN {d \in deps[i] : SessionOf(d[1]) = SessionOf(i[1])}
  ELSE {i[1]} \X plan[i[1]][i[2]]

\* However rounds, other requests and crashes fall between the inserts of a plan, no
\* task of it starts before everything it depends on has succeeded: although the
\* engine skips a dependency it finds no row for, and apply_plan one it has not made.
NothingRunsEarly ==
  \A i \in Id : state[i] \in {"RUNNING", "SUCCEEDED", "FAILED"}
                  => \A d \in Awaited(i) : state[d] = "SUCCEEDED"

\* A verification that passes speaks for whole swarms: each worker of every swarm it
\* counted a member of has succeeded, though it only looks at membership rows.
PassIsWhole ==
  \A m \in vouched : \A k \in Keys(m) : state[<<m, k>>] = "SUCCEEDED"

\* Requests with one idempotency key converge on one row, of their own principal,
\* however they overlap ("a retried request converges"); no key leads to the row of
\* another principal.
RetriesConverge ==
  \A p, q \in Post :
    /\ answer[p] # None => OwnerOf[answer[p][1]] = OwnerOf[p]
    /\ (answer[p] # None /\ answer[q] # None /\ KeyOf[p] = KeyOf[q] /\ KeyOf[p] # None)
         => answer[p] = answer[q]

\* The task limit is checked on a count that others make stale: the planners and
\* swarms of a session can pass it by one row for each other of them, and no more.
OvershootIsBounded ==
  LET begun == Cardinality(Begun \cap Adder)
  IN Cardinality({i \in Rows("shared") : i[1] \in Adder}) <= Limit + (IF begun = 0 THEN 0 ELSE begun - 1)

\* What create_recipe has accepted can be executed, unless a step names one of its
\* dependencies twice.
AcceptedRecipesRun == \A m \in Recipe : pc[m] = "stuck" => repeats[m] # {}
=============================================================================
