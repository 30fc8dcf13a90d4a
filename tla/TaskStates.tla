----------------------------- MODULE TaskStates -----------------------------
(***************************************************************************)
(* The task state machine of domain/tasks.py: the states, the transition   *)
(* table and the terminal states.  The table is a set of edges, so that    *)
(* can_transition is membership.                                           *)
(***************************************************************************)

TaskState == {"PENDING", "PLANNING", "QUEUED", "RUNNING", "BLOCKED_APPROVAL",
              "RECOVERING", "REVIEW", "SUCCEEDED", "FAILED", "CANCELLED"}

TRANSITIONS ==
  UNION { {"PENDING"}          \X {"PLANNING", "QUEUED", "CANCELLED"},
          {"PLANNING"}         \X {"QUEUED", "FAILED", "CANCELLED"},
          {"QUEUED"}           \X {"RUNNING", "CANCELLED"},
          {"RUNNING"}          \X {"BLOCKED_APPROVAL", "RECOVERING", "REVIEW",
                                   "SUCCEEDED", "FAILED", "CANCELLED"},
          {"BLOCKED_APPROVAL"} \X {"RUNNING", "FAILED", "CANCELLED"},
          {"RECOVERING"}       \X {"QUEUED", "RUNNING", "FAILED", "CANCELLED"},
          {"REVIEW"}           \X {"SUCCEEDED", "FAILED", "RUNNING"},
          {"FAILED"}           \X {"QUEUED", "RECOVERING"} }

TERMINAL_STATES == {"SUCCEEDED", "FAILED", "CANCELLED"}

\* can_transition / validate_transition: the edge is in the table.
CanTransition(current, target) == <<current, target>> \in TRANSITIONS

\* A task row that was deleted with its session has no state at all.
Absent == "ABSENT"

\* States that hold a live execution slot (_LIVE_SLOT_STATES).
LiveSlotStates == {"RUNNING", "REVIEW"}
=============================================================================
