-------------------------- MODULE MCTaskEngineRC --------------------------
(***************************************************************************)
(* Instances of TaskEngineRC for TLC.                                      *)
(***************************************************************************)
EXTENDS TaskEngineRC, TLC

CONSTANTS a, b, s1, r1, r2, k1, i1

\* One session with one task.
Single        == {a}
SingleSession == a :> s1
NoDeps        == a :> {}

\* One session with the chain a -> b.
Chain         == {a, b}
ChainSession  == a :> s1 @@ b :> s1
ChainOnlyDeps == a :> {} @@ b :> {a}
=============================================================================
