---------------------------- MODULE TaskLifecycle ----------------------------
(***************************************************************************)
(* services/engine/internal/task: one task from its draft to its deletion, *)
(* and of its funding what deletion depends on: the intent, one wallet     *)
(* transaction at a time and what the projector makes of it.  The chain's  *)
(* blocks and the ledger are in ChainProjection and SettlementProjection.  *)
(***************************************************************************)
EXTENDS Clock

CONSTANT Deadlines      \* the deadlines a draft may be given
ASSUME DeadlinesAreTimes == Deadlines \subseteq Nat

VARIABLES
    task,       \* the row of tasks
    funding,    \* the row of task_funding_intents and its current attempt
    deposit     \* the createTask transaction on the chain

taskVars == <<task, funding, deposit>>

Status == {"draft", "pending_escrow", "escrowed", "awaiting_selection", "assigned",
           "funding_refund_pending", "chain_reorg_pending", "refunded", "cancelled"}

TaskRow == [status : Status, deadline : Deadlines, deleting : BOOLEAN, deleted : BOOLEAN]

TaskTypeOK ==
    /\ task \in TaskRow
    /\ funding \in [status : {"none", "prepared", "submitted", "failed", "orphaned", "confirmed"},
                    registered : BOOLEAN,   \* the transaction is one of its attempts
                    recorded : BOOLEAN]     \* it has, or had, a canonical deposit
    /\ deposit \in {"none", "sent", "failed", "mined", "refunded"}

\* Create.
TaskInit ==
    /\ task \in [status : {"draft"}, deadline : {d \in Deadlines : d > now}, deleting : {FALSE}, deleted : {FALSE}]
    /\ funding = [status |-> "none", registered |-> FALSE, recorded |-> FALSE]
    /\ deposit = "none"

UpdateDraft(d) ==
    /\ task.status = "draft" /\ d > now
    /\ task' = [task EXCEPT !.deadline = d]
    /\ UNCHANGED <<funding, deposit>>

Publish ==
    /\ task.status = "draft" /\ task.deadline > now
    /\ task' = [task EXCEPT !.status = "pending_escrow"]
    /\ UNCHANGED <<funding, deposit>>

Deletable == {"draft", "pending_escrow", "escrowed", "awaiting_selection", "funding_refund_pending"}

\* Fault: an intent whose deposit was reorganised away counts as unfunded.
FundedNow == task.status \in {"escrowed", "awaiting_selection", "funding_refund_pending"} \/ funding.status = "confirmed"

Funded ==
    \/ task.status \in {"escrowed", "awaiting_selection", "funding_refund_pending"}
    \/ funding.status = "confirmed"
    \/ funding.status = "orphaned" /\ funding.recorded

RequestDelete ==
    /\ task.status \in Deletable
    /\ ~(funding.status = "submitted" /\ task.status = "pending_escrow")
    /\ task' = IF Funded THEN [task EXCEPT !.deleting = TRUE]
               ELSE [task EXCEPT !.status = "cancelled", !.deleting = TRUE, !.deleted = TRUE]
    /\ UNCHANGED <<funding, deposit>>

-----------------------------------------------------------------------------
(* Funding: taskfunding.Service, the wallet, the chain and the projector *)

PrepareFunding ==
    /\ funding.status = "none" /\ task.status = "pending_escrow" /\ task.deadline > now
    /\ funding' = [funding EXCEPT !.status = "prepared"]
    /\ UNCHANGED <<task, deposit>>

\* The wallet sends createTask, the first time or after one that failed.
Broadcast ==
    /\ funding.status # "none" /\ deposit \in {"none", "failed"}
    /\ deposit' = "sent" /\ funding' = [funding EXCEPT !.registered = FALSE]
    /\ UNCHANGED task

\* The task is not looked at.
SubmitFunding ==
    /\ deposit # "none" /\ ~funding.registered
    /\ funding.status \in {"prepared", "orphaned", "failed", "submitted"}
    /\ funding' = [funding EXCEPT !.status = "submitted", !.registered = TRUE]
    /\ UNCHANGED <<task, deposit>>

Mine ==
    /\ deposit = "sent"
    /\ deposit' \in {"failed"} \cup {x \in {"mined"} : now <= task.deadline}
    /\ UNCHANGED <<task, funding>>

\* The block is projected, or reconciled with its submission.  With a task in any other
\* status the projector stays before the block.
Fundable == task.status \in {"pending_escrow", "escrowed", "funding_refund_pending", "chain_reorg_pending"}
ProjectDeposit ==
    /\ deposit = "mined" /\ funding.registered /\ funding.status # "confirmed" /\ Fundable
    /\ funding' = [funding EXCEPT !.status = "confirmed", !.recorded = TRUE]
    /\ task' = [task EXCEPT !.status = IF @ = "chain_reorg_pending" THEN @
                                       ELSE IF now < task.deadline THEN "escrowed" ELSE "funding_refund_pending"]
    /\ UNCHANGED deposit

ProjectFailure ==
    /\ deposit = "failed" /\ funding.registered /\ funding.status \notin {"confirmed", "failed"}
    /\ funding' = [funding EXCEPT !.status = "failed"]
    /\ UNCHANGED <<task, deposit>>

\* A reorganisation takes back a projected block: the transaction is pending once more.
Orphaned ==
    /\ deposit \in {"mined", "failed"} /\ funding.registered
    /\ funding.status = (IF deposit = "mined" THEN "confirmed" ELSE "failed")
    /\ deposit' = "sent"
    /\ funding' = [funding EXCEPT !.status = "orphaned"]
    /\ task' = [task EXCEPT !.status =
                    IF deposit = "failed" THEN @
                    ELSE IF @ \in {"escrowed", "funding_refund_pending"} THEN "pending_escrow"
                    ELSE "chain_reorg_pending"]

\* FundsRefunded: the publisher takes the deposit back while nobody is selected.
ProjectRefund ==
    /\ deposit = "mined" /\ funding.status = "confirmed"
    /\ deposit' = "refunded"
    /\ task' = [task EXCEPT !.status = "refunded", !.deleted = @ \/ task.deleting]
    /\ UNCHANGED funding

TaskNext ==
    \/ \E d \in Deadlines : UpdateDraft(d)
    \/ Publish \/ RequestDelete
    \/ PrepareFunding \/ Broadcast \/ SubmitFunding \/ Mine \/ ProjectDeposit \/ ProjectFailure

-----------------------------------------------------------------------------

\* While a registered transaction can still bring a deposit that was once recorded, the task
\* disappears only by its refund, whatever was reorganised, resent or failed in between:
\* RequestDelete leaves it recoverable.
RecordedDepositSurvives ==
    [][task'.deleted /\ ~task.deleted /\ funding.recorded /\ funding.registered /\ deposit \in {"sent", "mined"}
           => deposit' = "refunded"]_taskVars
=============================================================================
