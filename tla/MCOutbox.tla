------------------------------ MODULE MCOutbox ------------------------------
(***************************************************************************)
(* Instances of Outbox for TLC.                                            *)
(***************************************************************************)
EXTENDS Outbox, TLC

CONSTANTS m1, m2, m3, e1, d1, d2, p1, p2

\* A message of an event, a plain one and a typing action.
Mixed     == m1 :> e1 @@ m2 :> None @@ m3 :> None
OneTyping == {m3}

\* Two rows that may be written for the same event.
Twins == m1 :> e1 @@ m2 :> e1
=============================================================================
