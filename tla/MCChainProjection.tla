-------------------------- MODULE MCChainProjection --------------------------
(* Block trees for the chain projection: a trunk and two branches.           *)
EXTENDS Reconciliation, TLC

\* Projectors are interchangeable.  Used only where no liveness is checked.
Projectors == Permutations(Projector)

CONSTANTS r, a1, b1, b2, t1, t2

Created(tx) == [type |-> "created", tx |-> tx]
Plain(type) == [type |-> type, tx |-> None]

\* On one branch t1 funds the task and t2 reverts, on the other t1 reverts and t2 funds
\* it.  The first is the longer one: the node may return to it.
CONSTANTS a2, a3
ForkBlock == {r, a1, a2, a3, b1, b2}
ForkParent == a1 :> r @@ a2 :> a1 @@ a3 :> a2 @@ b1 :> r @@ b2 :> b1
ForkHeight == r :> 0 @@ a1 :> 1 @@ a2 :> 2 @@ a3 :> 3 @@ b1 :> 1 @@ b2 :> 2
ForkFailed == [b \in ForkBlock |-> IF b = a1 THEN t2 ELSE IF b = b1 THEN t1 ELSE None]
ForkEvents == [b \in ForkBlock |->
    IF b = a1 THEN <<Created(t1)>> ELSE IF b = b2 THEN <<Created(t2)>> ELSE <<>>]

\* After the deposit c1 one branch selects, pays and withdraws (and may fork again
\* before paying), the other refunds.
CONSTANTS c1, s2, x3, w4, y3, y4, f2, f3, f4, f5
LifeBlock == {r, c1, s2, x3, w4, y3, y4, f2, f3, f4, f5}
LifeParent == c1 :> r @@ s2 :> c1 @@ x3 :> s2 @@ w4 :> x3 @@ y3 :> s2 @@ y4 :> y3
              @@ f2 :> c1 @@ f3 :> f2 @@ f4 :> f3 @@ f5 :> f4
LifeHeight == r :> 0 @@ c1 :> 1 @@ s2 :> 2 @@ x3 :> 3 @@ w4 :> 4 @@ y3 :> 3 @@ y4 :> 4
              @@ f2 :> 2 @@ f3 :> 3 @@ f4 :> 4 @@ f5 :> 5
LifeFailed == [b \in LifeBlock |-> None]
LifeEvents == [b \in LifeBlock |->
    CASE b = c1 -> <<Created(t1)>>
      [] b = s2 -> <<Plain("selected")>>
      [] b \in {x3, y4} -> <<Plain("accrued")>>
      [] b = w4 -> <<Plain("withdrawn")>>
      [] b = f2 -> <<Plain("refunded")>>
      [] OTHER -> <<>>]
=============================================================================
