---------------------------- MODULE MCEventStream ----------------------------
(***************************************************************************)
(* Instances of EventStream for TLC.                                       *)
(***************************************************************************)
EXTENDS EventStream, TLC

CONSTANTS w1, w2, s1, s2, ws, sse, poll

\* The WebSocket client is unfiltered, the others own s1.
MCMine  == [c \in Client |-> IF c = ws THEN {s1, s2} ELSE {s1}]
MCLimit == [c \in Sse |-> 2]
=============================================================================
