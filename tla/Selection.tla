------------------------------ MODULE Selection ------------------------------
(***************************************************************************)
(* services/engine/internal/selection: the publisher reserves the agent    *)
(* of a valid overview, selects it on the chain, and the engine makes the  *)
(* confirmed selection an assignment.  A request is several transactions:  *)
(* the registry's, the selection store's and calls to the chain, between   *)
(* which other requests, the provider, deletion and the clock take steps.  *)
(* The lease of a reservation has the reservation's id.  One agent has a   *)
(* valid slot in every round of matching.                                  *)
(***************************************************************************)
EXTENDS Registry, TaskLifecycle

CONSTANTS
    Proc,               \* requests under way at once
    ReservationTtl,
    MaxRounds, MaxSends \* bounds: rounds of matching, transactions of a reservation

ASSUME SelectionTypes == ReservationTtl \in Nat \ {0} /\ MaxRounds \in Nat /\ MaxSends \in Nat

Reservation == Lease

VARIABLES
    round,      \* the newest completed batch, and the price version of its slot
    res,        \* selection_reservations
    sent,       \* the newest selectAgent transaction of each reservation
    call,       \* requests under way
    overtaken   \* ghost: the transactions taken back while a request held their selection

selectionVars == <<round, res, sent, call, overtaken>>
vars == <<registryVars, taskVars, selectionVars, now>>

Open == {"reserved", "submitted"}
Idle == [step |-> "idle"]
NoReservation == [status |-> "none", address |-> "none", deadline |-> 0, round |-> 0, tx |-> 0]

SelectionTypeOK ==
    /\ round \in [no : 0..MaxRounds, price : 0..MaxPrices]
    /\ res \in [Reservation -> [status : Open \cup {"none", "confirmed", "failed", "expired", "orphaned"},
                                address : Address \cup {"none"}, deadline : Nat,
                                round : 0..MaxRounds, tx : 0..MaxSends]]
    /\ sent \in [Reservation -> [tx : 0..MaxSends, state : {"none", "pending", "failed", "selected"}]]
    /\ overtaken \subseteq Reservation \X (0..MaxSends)

Init ==
    /\ now = 1 /\ RegistryInit /\ TaskInit
    /\ round = [no |-> 0, price |-> 0]
    /\ res = [r \in Reservation |-> NoReservation]
    /\ sent = [r \in Reservation |-> [tx |-> 0, state |-> "none"]]
    /\ call = [p \in Proc |-> Idle] /\ overtaken = {}

-----------------------------------------------------------------------------
(* What the queries require *)

HealthyNow == agent.status = "active" /\ agent.until > now
Selectable == task.status = "awaiting_selection" /\ ~task.deleting /\ ~task.deleted
Eligible == Selectable /\ funding.status = "confirmed" /\ HealthyNow /\ agent.price = round.price

\* No two reservations of a task are active or done, and an allocation is reserved only once.
Unique == \A r \in Reservation : res[r].status \notin Open \cup {"confirmed"}
                                 /\ (res[r].status # "none" => res[r].round # round.no)

Earlier(a, b) == IF a < b THEN a ELSE b
Goes(p, step) == call' = [call EXCEPT ![p] = step]

-----------------------------------------------------------------------------
(* Reserve: Eligibility and Replay, ReserveCapacity, Prepare *)

Reserve(p, r) ==
    /\ call[p] = Idle /\ Eligible /\ res[r].status = "none"
    /\ LET deadline == Earlier(now + ReservationTtl, task.deadline)
       IN /\ deadline > now
          /\ Goes(p, [step |-> "eligible", r |-> r, address |-> agent.address, round |-> round,
                      deadline |-> deadline, expires |-> 0])
    /\ UNCHANGED <<registryVars, taskVars, round, res, sent, overtaken, now>>

\* A lease that exists under this id comes back as it is, released or not.
TakeLease(p) ==
    /\ call[p].step = "eligible"
    /\ LET c == call[p]
       IN /\ IF lease[c.r].taken THEN UNCHANGED registryVars
             ELSE ReserveCapacity(c.r, now + (c.deadline - now))
          /\ Goes(p, [c EXCEPT !.step = "leased", !.expires = lease'[c.r].expires])
    /\ UNCHANGED <<taskVars, round, res, sent, overtaken, now>>

LeaseRefused(p) ==
    /\ call[p].step = "eligible" /\ ~lease[call[p].r].taken
    /\ ~(agent.status = "active" /\ now < agent.until /\ Active < agent.limit /\ call[p].deadline > now)
    /\ Goes(p, Idle)
    /\ UNCHANGED <<registryVars, taskVars, round, res, sent, overtaken, now>>

CanPrepare(c) ==
    /\ Eligible /\ c.round = round /\ c.address = agent.address
    /\ c.deadline > now /\ c.expires >= c.deadline
    /\ Unique

\* A reservation made by the same request is the answer, if the task is still selectable.
Prepare(p) ==
    /\ call[p].step = "leased"
    /\ LET c == call[p]
       IN CASE res[c.r].status = "none" /\ CanPrepare(c) ->
                 /\ res' = [res EXCEPT ![c.r] = [status |-> "reserved", address |-> c.address,
                                                 deadline |-> c.deadline, round |-> c.round.no, tx |-> 0]]
                 /\ Goes(p, Idle)
            [] res[c.r].status # "none" /\ Selectable -> Goes(p, Idle) /\ UNCHANGED res
            [] OTHER -> Goes(p, [step |-> "compensate", r |-> c.r]) /\ UNCHANGED res
    /\ UNCHANGED <<registryVars, taskVars, round, sent, overtaken, now>>

-----------------------------------------------------------------------------
(* Reconcile: Eligibility, VerifySelection, and what follows from the answer *)

Reconcile(p, r) ==
    /\ call[p] = Idle /\ res[r].status # "none" /\ sent[r].state # "none"
    /\ res[r].status \in Open => Eligible
    /\ Goes(p, [step |-> sent[r].state, r |-> r, tx |-> sent[r].tx])
    /\ UNCHANGED <<registryVars, taskVars, round, res, sent, overtaken, now>>

SameTx(c) == res[c.r].tx \in {0, c.tx}

RecordSubmitted(p) ==
    /\ call[p].step = "pending" /\ Goes(p, Idle)
    /\ LET c == call[p]
       IN res' = IF Selectable /\ res[c.r].status = "reserved" /\ SameTx(c)
                 THEN [res EXCEPT ![c.r].status = "submitted", ![c.r].tx = c.tx] ELSE res
    /\ UNCHANGED <<registryVars, taskVars, round, sent, overtaken, now>>

\* Fault: Confirm sets the task's status whatever became of the task.
ConfirmableUnseen(c) == res[c.r].status \in Open /\ SameTx(c) /\ task.status # "assigned"

Confirmable(c) == res[c.r].status \in Open /\ SameTx(c) /\ Selectable

Confirm(p) ==
    /\ call[p].step = "selected"
    /\ LET c == call[p]
       IN IF Confirmable(c)
          THEN /\ res' = [res EXCEPT ![c.r].status = "confirmed", ![c.r].tx = c.tx]
               /\ task' = [task EXCEPT !.status = "assigned"]
               /\ Goes(p, [step |-> "confirmed", r |-> c.r])
          ELSE /\ UNCHANGED <<res, task>>
               /\ Goes(p, IF res[c.r].status = "confirmed" THEN [step |-> "confirmed", r |-> c.r] ELSE Idle)
    /\ UNCHANGED <<registryVars, funding, deposit, round, sent, overtaken, now>>

\* ReleaseCapacity, after Confirm, after Expire, before Fail, or for a Prepare that failed.
Release(p) ==
    /\ call[p].step \in {"confirmed", "expired", "failed", "compensate"}
    /\ ReleaseCapacity(call[p].r)
    /\ Goes(p, IF call[p].step = "failed" THEN [call[p] EXCEPT !.step = "released"] ELSE Idle)
    /\ UNCHANGED <<taskVars, round, res, sent, overtaken>>

Fail(p) ==
    /\ call[p].step = "released" /\ Goes(p, Idle)
    /\ LET c == call[p]
       IN res' = IF res[c.r].status \in Open /\ SameTx(c)
                 THEN [res EXCEPT ![c.r].status = "failed", ![c.r].tx = c.tx] ELSE res
    /\ UNCHANGED <<registryVars, taskVars, round, sent, overtaken, now>>

Expire(p, r) ==
    /\ call[p] = Idle /\ res[r].status \in Open /\ now >= res[r].deadline
    /\ res' = [res EXCEPT ![r].status = "expired"]
    /\ Goes(p, [step |-> "expired", r |-> r])
    /\ UNCHANGED <<registryVars, taskVars, round, sent, overtaken, now>>

Dies(p) == call[p] # Idle /\ Goes(p, Idle) /\ UNCHANGED <<registryVars, taskVars, round, res, sent, overtaken, now>>

RequestNext(p) ==
    \/ \E r \in Reservation : Reserve(p, r) \/ Reconcile(p, r) \/ Expire(p, r)
    \/ TakeLease(p) \/ LeaseRefused(p) \/ Prepare(p) \/ RecordSubmitted(p) \/ Confirm(p)
    \/ Release(p) \/ Fail(p) \/ Dies(p)

-----------------------------------------------------------------------------
(* The parts around it *)

Selected == \E r \in Reservation : sent[r].state = "selected"

\* selectAgent is sent, or sent again in place of one that is pending or failed.  It needs the
\* signature, which Intent gives out for an open reservation before its deadline.
Send(r) ==
    /\ res[r].status \in Open /\ now < res[r].deadline /\ sent[r].state # "selected" /\ sent[r].tx < MaxSends
    /\ sent' = [sent EXCEPT ![r] = [tx |-> @.tx + 1, state |-> "pending"]]
    /\ UNCHANGED <<registryVars, taskVars, round, res, call, overtaken, now>>

\* The contract selects once, a funded task, up to the proof's deadline.
Resolve(r) ==
    /\ sent[r].state = "pending"
    /\ sent' \in {[sent EXCEPT ![r].state = x] :
                     x \in {"failed"} \cup {y \in {"selected"} : deposit = "mined" /\ ~Selected /\ now <= res[r].deadline}}
    /\ UNCHANGED <<registryVars, taskVars, round, res, call, overtaken, now>>

\* Matching and overviews end with a valid slot of the agent at its current price.
Overviewed ==
    /\ task.status \in {"escrowed", "awaiting_selection"} /\ HealthyNow /\ round.no < MaxRounds
    /\ round' = [no |-> round.no + 1, price |-> agent.price]
    /\ task' = [task EXCEPT !.status = "awaiting_selection"]
    /\ UNCHANGED <<registryVars, funding, deposit, res, sent, call, overtaken, now>>

\* FundsRefunded: the contract refunds while nobody is selected.
ChainRefunds == ~Selected /\ ProjectRefund /\ UNCHANGED selectionVars

\* Fault: Rewind looks for the transaction among the reservations that are open.
AssignedBySubmitted(r) == res[r].status \in Open /\ sent[r] = [tx |-> res[r].tx, state |-> "selected"]

\* The active assignment is of the transaction that is selected.
AssignedBy(r) == res[r].status = "confirmed" /\ sent[r] = [tx |-> res[r].tx, state |-> "selected"]

\* The selectAgent transactions of R leave the chain with their blocks and are pending again.
SelectionsBack(R) ==
    /\ sent' = [r \in Reservation |-> IF r \in R THEN [sent[r] EXCEPT !.state = "pending"] ELSE sent[r]]
    /\ res' = [r \in Reservation |-> IF r \in R /\ AssignedBy(r) THEN [res[r] EXCEPT !.status = "orphaned"] ELSE res[r]]
    /\ overtaken' = overtaken \cup
           {<<r, sent[r].tx>> : r \in {x \in R : \E p \in Proc : call[p] = [step |-> "selected", r |-> x, tx |-> sent[x].tx]}}
    /\ UNCHANGED <<round, call>>

\* The projector follows a reorganisation.  The deposit goes only with the selection above it.
Rewind ==
    \E R \in SUBSET {r \in Reservation : sent[r].state \in {"failed", "selected"}} :
        /\ SelectionsBack(R)
        /\ \/ /\ R # {} /\ UNCHANGED <<funding, deposit>>
              /\ task' = IF \E r \in R : AssignedBy(r) THEN [task EXCEPT !.status = "chain_reorg_pending"] ELSE task
           \/ Orphaned /\ \A r \in Reservation \ R : sent[r].state # "selected"

Tick ==
    /\ now < MaxTime /\ now' = now + 1
    /\ UNCHANGED <<registryVars, taskVars, selectionVars>>

Next ==
    \/ RegistryNext /\ UNCHANGED <<taskVars, selectionVars>>
    \/ TaskNext /\ UNCHANGED <<registryVars, selectionVars, now>>
    \/ (ChainRefunds \/ Rewind) /\ UNCHANGED <<registryVars, now>>
    \/ \E p \in Proc : RequestNext(p)
    \/ \E r \in Reservation : Send(r) \/ Resolve(r)
    \/ Overviewed
    \/ Tick

Spec == Init /\ [][Next]_vars

-----------------------------------------------------------------------------

\* The payout address a reservation's signed proof names is the agent's for as long as the
\* reservation can be, or has been, selected: the provider pauses, edits and reactivates while
\* publishers hold signatures.
PayoutIsAgents == \A r \in Reservation : res[r].status \in Open \cup {"confirmed"} => res[r].address = agent.address

\* An assigned task has its deposit, exactly one confirmed reservation, and no deletion asked
\* for; the reservation's transaction is the one the contract selected, unless a reorganisation
\* took it back between the chain's answer and Confirm, which does not ask again
\* (README, section 6): with deletion, refund, reorganisation before and after Confirm,
\* replacement transactions and a second reservation.
AssignmentBacked ==
    /\ TaskTypeOK /\ SelectionTypeOK
    /\ task.status = "assigned" =>
          /\ ~task.deleting /\ deposit = "mined" /\ funding.status = "confirmed"
          /\ \E r \in Reservation :
                /\ res[r].status = "confirmed"
                /\ sent[r] = [tx |-> res[r].tx, state |-> "selected"] \/ <<r, res[r].tx>> \in overtaken
                /\ \A q \in Reservation \ {r} : res[q].status \notin Open \cup {"confirmed"}
=============================================================================
