----------------------------- MODULE MCPlanning ------------------------------
(***************************************************************************)
(* An instance of Planning for TLC.                                        *)
(***************************************************************************)
EXTENDS Planning, TLC

CONSTANTS p1, i1, c1, w1, w2, q1, q2, q3, alice, bob, key

\* A request, its retry, and a stranger with the same key.
MCKeyOf   == [p \in Post |-> key]
MCOwnerOf == [p \in Post |-> IF p = q3 THEN bob ELSE alice]

\* Swarms are alike, and so are a request and its retry.
Alike == Permutations(Swarm) \cup Permutations(Post \ {q3})
=============================================================================
