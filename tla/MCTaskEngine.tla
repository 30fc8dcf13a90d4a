---------------------------- MODULE MCTaskEngine ----------------------------
(***************************************************************************)
(* Instances of TaskEngine for TLC.                                        *)
(***************************************************************************)
EXTENDS TaskEngine, TLC

CONSTANTS a, b, c, s1, s2, r1, r2, r3, r4, k1, i1

\* One session with one task.
Single        == {a}
SingleSession == a :> s1
NoDeps        == a :> {}

\* One session with the chain a -> b.
Chain         == {a, b}
ChainSession  == a :> s1 @@ b :> s1
ChainOnlyDeps == a :> {} @@ b :> {a}

\* Session s1 holds the chain a -> b, session s2 the single task c.
ChainAndOne == {a, b, c}
InSessions  == a :> s1 @@ b :> s1 @@ c :> s2
ChainDeps   == a :> {} @@ b :> {a} @@ c :> {}
=============================================================================
