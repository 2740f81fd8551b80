----------------------------- MODULE MCDispute -----------------------------
(* Dispute with a transaction that is mined in one of two blocks, and another one. *)
EXTENDS Dispute, TLC

CONSTANTS f1, f2, f3, t1, t2
MCEvent == {f1, f2, f3}
MCTxOf == (f1 :> t1) @@ (f2 :> t1) @@ (f3 :> t2)
\* Sides are treated alike, and so are the two blocks of t1.
Symmetric == Permutations(Arbiter) \cup Permutations(Side) \cup Permutations({f1, f2})
=============================================================================
