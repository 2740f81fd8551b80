---------------------------- MODULE MCTaskEscrow ----------------------------
(* Two tasks of one publisher, two agent controllers, two resolvers; proofs  *)
(* that share, reuse or zero their one-time ids.                             *)
EXTENDS TaskEscrow, TLC

CONSTANTS t1, t2, pub, ctl, gov, safe, i1, i2, zero

MCTaskId == {t1, t2}
MCAccount == {pub, ctl, gov, safe}
MCPublisherOf == [t \in MCTaskId |-> pub]
MCBudgetOf == t1 :> 2 @@ t2 :> 1
MCFundBefore == t1 :> 0 @@ t2 :> 1

Template == [taskId |-> t1, assignmentId |-> i1, agentController |-> ctl, payout |-> ctl,
             allocationId |-> i1, nonce |-> i1, deadline |-> 1, overviewPrice |-> 1,
             overviewCredit |-> 0, formalGrossPrice |-> 1, complete |-> TRUE, signer |-> gov]

MCSelectionProof == {
    Template,                                                        \* leaves an excess
    [Template EXCEPT !.formalGrossPrice = 3, !.overviewCredit = 1],  \* exact price after credit
    [Template EXCEPT !.formalGrossPrice = 1, !.overviewCredit = 1],  \* nothing left to pay
    [Template EXCEPT !.signer = safe, !.deadline = 0],
    [Template EXCEPT !.taskId = t2],                                 \* every id reused
    [Template EXCEPT !.taskId = t2, !.assignmentId = i2],
    [Template EXCEPT !.taskId = t2, !.assignmentId = i2, !.allocationId = i2],
    [Template EXCEPT !.taskId = t2, !.assignmentId = i2, !.allocationId = i2, !.nonce = i2],
    [Template EXCEPT !.taskId = t2, !.assignmentId = i2, !.nonce = i2],
    [Template EXCEPT !.taskId = t2, !.overviewCredit = 2, !.formalGrossPrice = 2],
    [Template EXCEPT !.taskId = t2, !.payout = zero],
    [Template EXCEPT !.complete = FALSE] }
=============================================================================
