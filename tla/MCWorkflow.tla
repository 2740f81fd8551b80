----------------------------- MODULE MCWorkflow -----------------------------
(* Workflow with three agents, each of a provider of its own. *)
EXTENDS Workflow, TLC

CONSTANTS a1, a2, a3, c1, c2
\* Neither operations nor inputs are told apart.
Alike == Permutations(Operation) \cup Permutations(Input)

MCAgent == {a1, a2, a3}
MCRevision == 1..2
MCCell == MCRevision \X MCAgent
MCProvider == [a \in MCAgent |-> a]
MCQualified == <<a1, a2, a3>>
MCUsedCost == (c1 :> 0) @@ (c2 :> 1)
=============================================================================
