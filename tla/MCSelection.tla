----------------------------- MODULE MCSelection -----------------------------
(* One agent, one task, reservations under two keys. *)
EXTENDS Selection, TLC

Symmetry == Permutations(Lease) \cup Permutations(Address) \cup Permutations(Proc)

\* The provider's steps and those of funding touch different rows.  Of their orders the run
\* takes those in which the agent is registered and active before the task is published, and
\* changes again from the time the deposit is recorded until a selection is sent a second
\* time or a request is overtaken.  Reorganisations take back selections and deposits, not
\* selections that failed; one request is overtaken, of a task that is neither deleted nor
\* refunded besides.  Once the task has ended, the refund and the requests under way go on,
\* and nothing else.
Staged ==
    /\ agent' # agent => task.status \in {"draft", "escrowed", "awaiting_selection", "assigned"}
    /\ agent' # agent /\ call' = call => overtaken = {} /\ \A l \in Lease : sent[l].tx < 2
    /\ \A l \in Lease : sent[l].state = "failed" => sent'[l] # [sent[l] EXCEPT !.state = "pending"]
    /\ Cardinality(overtaken') <= 1
    /\ overtaken' # {} => ~task'.deleting /\ deposit' # "refunded"
    /\ task.status = "draft" /\ task'.status # "draft" => agent.status = "active"
    /\ task.status \in {"cancelled", "refunded", "chain_reorg_pending"} =>
           deposit' = "refunded" \/ \E p \in Proc : call[p] # Idle /\ call'[p] # call[p]
==============================================================================
