------------------------------- MODULE Filter --------------------------------
(***************************************************************************)
(* Filtering a sequence, as SelectSeq does, by the ranks of the indices    *)
(* that are kept.  SelectSeq is defined by recursion over the sequence;    *)
(* this form says what is kept and where it goes, which is what the proofs *)
(* about ToolUse and AgentRun need.                                        *)
(***************************************************************************)
EXTENDS Naturals, FiniteSets, Sequences

\* The n-th of some indices.
Rank(kept, i) == Cardinality({k \in kept : k <= i})
Nth(kept, n) == CHOOSE i \in kept : Rank(kept, i) = n

\* The elements of a sequence at the indices kept, in their order.
At(items, kept) == [n \in 1..Cardinality(kept) |-> items[Nth(kept, n)]]

\* The elements that are in a set.
Only(items, wanted) == At(items, {i \in DOMAIN items : items[i] \in wanted})
=============================================================================
