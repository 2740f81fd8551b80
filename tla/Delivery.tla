------------------------------ MODULE Delivery ------------------------------
(***************************************************************************)
(* services/engine/internal/delivery: the versions of one formal package,  *)
(* the feedback between them, the change orders that pay for versions      *)
(* beyond the included ones, and the acceptance of the last version, whose *)
(* payment is observed on a chain that may reorganise.                     *)
(*                                                                         *)
(* Every operation of the publisher holds the advisory lock of the task,   *)
(* so each is one step; RecordDispatched and RecordResult hold the row of  *)
(* their version.  A repeated request with a known idempotency key answers *)
(* from the stored response and is a stuttering step.  The assignment      *)
(* stays active and the overview slot valid throughout.                    *)
(***************************************************************************)
EXTENDS Integers, FiniteSets, Sequences, SequencesExt

CONSTANTS
    IncludedVersions, MaximumVersions,  \* 3 and 5 in the code
    Content,    \* what an agent may deliver
    Item,       \* feedback items a publisher may raise
    OutOfScope, \* those not claimed in_scope
    Tx,         \* acceptance transactions a publisher may send
    Price,      \* requested_price of a change order
    MaxReorgs,  \* bound: blocks that leave the chain
    MaxNonces,  \* bound: nonce advances on one branch
    None

ASSUME DeliveryTypes ==
    /\ IncludedVersions \in Nat \ {0} /\ MaximumVersions \in Nat
    /\ IncludedVersions < MaximumVersions
    /\ Price \in Nat \ {0} /\ MaxReorgs \in Nat /\ MaxNonces \in Nat
    /\ OutOfScope \subseteq Item
    /\ None \notin Content \cup Tx \cup Nat

VARIABLES
    task,       \* tasks.status
    pkg,        \* formal_packages: allocated_version and aggregate_version
    version,    \* formal_versions by number
    feedback,   \* formal_feedback_sets by parent version
    change,     \* formal_change_orders, with their escrow account, by target version
    intent,     \* formal_acceptance_intents, with the latest state, by version
    index,      \* unique indexes of the acceptance history: pending hashes, confirmed events
    journals,   \* change-order journals; reversed when their event left the chain
    chain,      \* canonical events: nonce advances and the release
    clock,      \* logical time: feedback and activations so far
    late        \* has the task's deadline passed?

vars == <<task, pkg, version, feedback, change, intent, index, journals, chain, clock, late>>

Number == 1..MaximumVersions
Paid == (IncludedVersions + 1)..MaximumVersions
Working == {"allocated", "generating"}

NoVersion == [status |-> "none", agg |-> 0, nonce |-> 0, scope |-> 0, content |-> None, billed |-> 0]
NoFeedback == [agg |-> 0, at |-> 0, items |-> {}]
NoChange == [status |-> "none", agg |-> 0, scope |-> 0, price |-> 0,
             account |-> "none", balance |-> 0, funded |-> 0, at |-> 0, expired |-> FALSE]
NoIntent == [state |-> "none", agg |-> 0, tx |-> None, event |-> 0]

TypeOK ==
    /\ task \in {"assigned", "formal_generating", "formal_review", "revision_requested",
                 "change_order_pending", "failed", "settled", "chain_reorg_pending"}
    /\ pkg \in [alloc : 0..MaximumVersions, agg : Nat]
    /\ version \in [Number -> [status : {"none", "review", "failed"} \cup Working, agg : 0..pkg.agg,
                               nonce : Nat, scope : Nat, content : Content \cup {None}, billed : {0, Price}]]
    /\ feedback \in [Number -> [agg : 0..pkg.agg, at : 0..clock, items : SUBSET Item]]
    /\ change \in [Paid -> [status : {"none", "responsibility_pending", "awaiting_acceptance",
                                      "awaiting_funding", "ready_to_activate", "effective", "consumed"},
                            agg : 0..pkg.agg, scope : Nat,
                            price : {0, Price}, account : {"none", "open", "frozen"}, balance : Nat,
                            funded : Nat, at : 0..clock, expired : BOOLEAN]]
    /\ intent \in [Number -> [state : {"none", "intent_recorded", "pending_confirmation",
                                       "confirmed", "orphaned"},
                              agg : 0..pkg.agg, tx : Tx \cup {None}, event : Nat]]
    /\ index.pending \subseteq Tx /\ index.confirmed \subseteq Nat /\ late \in BOOLEAN /\ clock \in Nat
    /\ journals \subseteq [order : Paid, event : Nat, amount : Nat, residual : Nat, reversed : BOOLEAN]
    /\ chain.nonces \in Seq(0..clock) /\ chain.released \in Number \cup {None}

Init ==
    /\ task = "assigned" /\ pkg = [alloc |-> 0, agg |-> 1]
    /\ version = [n \in Number |-> NoVersion]
    /\ feedback = [n \in Number |-> NoFeedback]
    /\ change = [n \in Paid |-> NoChange]
    /\ intent = [n \in Number |-> NoIntent]
    /\ index = [pending |-> {}, confirmed |-> {}] /\ journals = {} /\ clock = 0 /\ late = FALSE
    /\ chain = [nonces |-> <<>>, released |-> None, tx |-> None, event |-> 0,
                sent |-> [t \in Tx |-> None], mined |-> {}, reorgs |-> 0]

Bump == [pkg EXCEPT !.agg = @ + 1]

-----------------------------------------------------------------------------
(* Starting a version *)

\* max over selection_confirmed (nonce 1) and work_nonce_advanced.
CanonicalNonce == 1 + Len(chain.nonces)

\* authorizeRevision, its first query: the feedback is on the current version and is
\* still the last word on the package, or the change order made for it is.
RevisionCurrent(parent, ordered) ==
    /\ feedback[parent].agg # 0
    /\ IF ordered
       THEN /\ parent + 1 \in Paid
            /\ change[parent + 1].status = "effective" /\ change[parent + 1].agg = pkg.agg
       ELSE feedback[parent].agg = pkg.agg /\ feedback[parent].items \cap OutOfScope = {}

\* Its second query: the newest nonce event is this nonce, in a block not older than
\* the feedback or the activation.
NonceAdvanced(parent, ordered, nonce) ==
    /\ nonce = CanonicalNonce /\ nonce > 1
    /\ Last(chain.nonces) >= feedback[parent].at
    /\ ordered => Last(chain.nonces) >= change[parent + 1].at

AuthorizeRevision(parent, ordered, nonce) ==
    RevisionCurrent(parent, ordered) /\ NonceAdvanced(parent, ordered, nonce)

NextIncludedVersion(next, ordered, nonce) ==
    /\ next <= MaximumVersions
    /\ IF next = 1
       THEN nonce = 1 /\ ~ordered
       ELSE /\ version[next - 1].status = "review"
            /\ nonce = version[next - 1].nonce + 1
            /\ ordered <=> next > IncludedVersions

\* authorizeChangeOrder; the rest of its query is RevisionCurrent.
AuthorizeChangeOrder(next) == change[next].status = "effective" /\ ~change[next].expired

Start(ordered, nonce) ==
    LET next == pkg.alloc + 1
    IN /\ ~late
       /\ IF next = 1 THEN task = "assigned" ELSE task \in {"formal_review", "revision_requested"}
       /\ NextIncludedVersion(next, ordered, nonce)
       /\ next > 1 => AuthorizeRevision(pkg.alloc, ordered, nonce)
       /\ \A n \in Number : version[n].status \notin Working
       /\ ordered => AuthorizeChangeOrder(next)
       /\ version' = [version EXCEPT ![next] = [NoVersion EXCEPT !.status = "allocated",
                          !.agg = pkg.agg + 1, !.nonce = nonce,
                          !.scope = IF ordered THEN change[next].scope ELSE 1]]
       /\ pkg' = [alloc |-> next, agg |-> pkg.agg + 1]
       /\ change' = IF ordered
                    THEN [change EXCEPT ![next].status = "consumed", ![next].agg = pkg.agg + 1]
                    ELSE change
       /\ task' = "formal_generating"
       /\ UNCHANGED <<feedback, intent, index, journals, chain, clock, late>>

\* The execution worker has handed the command to the agent; repeats are replays.
RecordDispatched(n) ==
    /\ version[n].status = "allocated"
    /\ version' = [version EXCEPT ![n].status = "generating"]
    /\ UNCHANGED <<task, pkg, feedback, change, intent, index, journals, chain, clock, late>>

\* Fault: compared with the previous version only.
DuplicateOfParent(n, c) == n > 1 /\ version[n - 1].status = "review" /\ version[n - 1].content = c

DuplicateContent(n, c) == \E m \in Number \ {n} : version[m].status = "review" /\ version[m].content = c

\* formal_billing_results: included versions are free, ordered ones cost what was authorized.
Billed(n) == IF n \in Paid THEN change[n].price ELSE 0

\* What the proof of a version is bound to and which items its agent has to answer.
ProofContext(n) ==
    [agg |-> version[n].agg, nonce |-> version[n].nonce, items |-> IF n = 1 THEN {} ELSE feedback[n - 1].items]

\* Service.RecordResult: a success answers exactly the items of the feedback it followed.
\* The context is read before the transaction, but nothing in it ever changes.
ValidResult(n, c, answered) == IF c = None THEN answered = {} ELSE answered = ProofContext(n).items

\* c = None stands for a reported failure.  A terminal version accepts the same report
\* again and refuses another one.
RecordResult(n, c, answered) ==
    /\ version[n].status \in Working /\ task = "formal_generating" /\ ValidResult(n, c, answered)
    /\ IF c # None /\ ~DuplicateContent(n, c)
       THEN /\ version' = [version EXCEPT ![n].status = "review", ![n].content = c, ![n].billed = Billed(n)]
            /\ task' = "formal_review"
       ELSE /\ version' = [version EXCEPT ![n].status = "failed"]
            /\ task' = "failed"
    /\ UNCHANGED <<pkg, feedback, change, intent, index, journals, chain, clock, late>>

FeedbackOpen == task = "formal_review"

SubmitFeedback(items) ==
    LET parent == pkg.alloc
    IN /\ parent \in 1..(MaximumVersions - 1)
       /\ version[parent].status = "review" /\ FeedbackOpen
       /\ feedback[parent].agg = 0                      \* UNIQUE (package_id, parent_version)
       /\ feedback' = [feedback EXCEPT ![parent] =
                          [agg |-> pkg.agg + 1, at |-> clock + 1, items |-> items]]
       /\ clock' = clock + 1 /\ pkg' = Bump /\ task' = "revision_requested"
       /\ UNCHANGED <<version, change, intent, index, journals, chain, late>>

-----------------------------------------------------------------------------
(* Change orders *)

ProposeChangeOrder(trigger) ==
    /\ trigger = pkg.alloc
    /\ version[trigger].status = "review" /\ feedback[trigger].agg # 0
    /\ task \in {"revision_requested", "formal_review"}
    /\ change[trigger + 1].status = "none"           \* UNIQUE (package_id, target_version)
    /\ change' = [change EXCEPT ![trigger + 1] =
                     [NoChange EXCEPT !.status = "responsibility_pending", !.agg = pkg.agg + 1]]
    /\ pkg' = Bump /\ task' = "change_order_pending"
    /\ UNCHANGED <<version, feedback, intent, index, journals, chain, clock, late>>

\* responsibilityPolicy: who pays, and whether an escrow account is opened for it.
ResponsibilityPolicy(by) ==
    IF by = "agent" THEN [price |-> 0, account |-> "none"] ELSE [price |-> Price, account |-> "open"]

DecideChangeOrder(n, by) ==
    /\ change[n].status = "responsibility_pending" /\ ~change[n].expired
    /\ change' = [change EXCEPT ![n].status = "awaiting_acceptance", ![n].agg = pkg.agg + 1,
                                ![n].price = ResponsibilityPolicy(by).price,
                                ![n].account = ResponsibilityPolicy(by).account]
    /\ pkg' = Bump
    /\ UNCHANGED <<task, version, feedback, intent, index, journals, chain, clock, late>>

AcceptChangeOrder(n) ==
    /\ change[n].status = "awaiting_acceptance" /\ ~change[n].expired
    /\ change' = [change EXCEPT ![n].agg = pkg.agg + 1,
                                ![n].status = IF change[n].account = "none" THEN "ready_to_activate"
                                              ELSE "awaiting_funding"]
    /\ pkg' = Bump
    /\ UNCHANGED <<task, version, feedback, intent, index, journals, chain, clock, late>>

\* funds.PostFunding on the order's account, which must be open.
FundChangeOrder(n, amount) ==
    /\ change[n].account = "open" /\ change[n].funded + amount <= 2 * Price
    /\ change' = [change EXCEPT ![n].balance = @ + amount, ![n].funded = @ + amount]
    /\ UNCHANGED <<task, pkg, version, feedback, intent, index, journals, chain, clock, late>>

\* Fault: any balance will do.
FundedUnchecked(n) == TRUE

Funded(n) == change[n].account = "open" => change[n].balance >= change[n].price

\* The new scope is the next revision of the one the parent version was made under.
ActivateScope(n) == version[n - 1].scope + 1

ActivateChangeOrder(n) ==
    /\ change[n].status \in {"ready_to_activate", "awaiting_funding"} /\ ~change[n].expired
    /\ Funded(n) /\ pkg.alloc + 1 = n /\ task = "change_order_pending"
    /\ change' = [change EXCEPT ![n].status = "effective", ![n].agg = pkg.agg + 1, ![n].at = clock + 1,
                                ![n].scope = ActivateScope(n),
                                ![n].account = IF @ = "open" THEN "frozen" ELSE @]
    /\ clock' = clock + 1 /\ pkg' = Bump /\ task' = "revision_requested"
    /\ UNCHANGED <<version, feedback, intent, index, journals, chain, late>>

-----------------------------------------------------------------------------
(* Acceptance *)

ChangeOrderReady(n) ==
    n \in Paid => /\ change[n].status = "consumed"
                  /\ \/ change[n].account = "none"
                     \/ change[n].account = "frozen" /\ change[n].balance >= change[n].price

\* Fault: the nonce on chain is not compared.
SettlementGateOffChain(n, agg) ==
    agg = pkg.agg /\ n = pkg.alloc /\ version[n].status = "review" /\ ChangeOrderReady(n)

\* acceptanceEligibility and SettlementGate; content, proof and nonce of an intent are
\* those of its version, which is immutable in review.
SettlementGate(n, agg) ==
    /\ agg = pkg.agg /\ n = pkg.alloc
    /\ version[n].status = "review"
    /\ version[n].nonce = CanonicalNonce
    /\ ChangeOrderReady(n)

CreateAcceptanceIntent(n) ==
    /\ SettlementGate(n, pkg.agg)
    /\ intent[n].state = "none"       \* UNIQUE (package_id, formal_version, proof_digest)
    /\ intent' = [intent EXCEPT ![n] = [NoIntent EXCEPT !.state = "intent_recorded", !.agg = pkg.agg]]
    /\ UNCHANGED <<task, pkg, version, feedback, change, index, journals, chain, clock, late>>

\* The unique index on pending rows covers the rows of earlier rounds too.
SubmitAcceptance(n, tx) ==
    /\ intent[n].state \in {"intent_recorded", "orphaned"}
    /\ SettlementGate(n, intent[n].agg)
    /\ tx \notin index.pending
    /\ intent' = [intent EXCEPT ![n].state = "pending_confirmation", ![n].tx = tx, ![n].event = 0]
    /\ index' = [index EXCEPT !.pending = @ \cup {tx}]
    /\ UNCHANGED <<task, pkg, version, feedback, change, journals, chain, clock, late>>

\* Fault: what is left in the escrow stays there.
SettlementOfPriceOnly(n, event) ==
    [order |-> n, event |-> event, amount |-> change[n].price, residual |-> 0, reversed |-> FALSE]

\* settleAcceptanceChangeOrder: the price to the agent, the rest back to its owner.
Settlement(n, event) ==
    [order |-> n, event |-> event, amount |-> change[n].price,
     residual |-> change[n].balance - change[n].price, reversed |-> FALSE]

ReconcileAcceptance(n) ==
    /\ intent[n].state = "pending_confirmation"
    /\ SettlementGate(n, intent[n].agg)
    /\ chain.released # None /\ chain.tx = intent[n].tx
    /\ chain.event \notin index.confirmed
    /\ index' = [index EXCEPT !.confirmed = @ \cup {chain.event}]
    /\ intent' = [intent EXCEPT ![n].state = "confirmed", ![n].event = chain.event]
    /\ IF n \in Paid /\ change[n].price > 0
       THEN LET journal == Settlement(n, chain.event)
            IN /\ journals' = journals \cup {journal}
               /\ change' = [change EXCEPT ![n].balance = @ - journal.amount - journal.residual]
       ELSE UNCHANGED <<journals, change>>
    /\ UNCHANGED <<task, pkg, version, feedback, chain, clock, late>>

-----------------------------------------------------------------------------
(* The chain, and what its projection does to these rows *)

\* A nonce advance in a block whose timestamp may lie before the last step of the engine.
AdvanceNonce(at) ==
    /\ chain.released = None /\ Len(chain.nonces) < MaxNonces
    /\ at \in {clock, clock - 1} \cap Nat /\ (chain.nonces # <<>> => at >= Last(chain.nonces))
    /\ chain' = [chain EXCEPT !.nonces = Append(@, at)]
    /\ UNCHANGED <<task, pkg, version, feedback, change, intent, index, journals, clock, late>>

\* The contract pays a proof of the current nonce, once; the transaction is mined in a
\* new block, or the block it was in returns with its event.  ApplyBlock settles the task.
Release(tx, n, event) ==
    /\ chain.released = None /\ chain.sent[tx] \in {None, n}
    /\ version[n].status = "review" /\ version[n].nonce = CanonicalNonce
    /\ event = chain.reorgs + 1 \/ <<tx, event>> \in chain.mined
    /\ chain' = [chain EXCEPT !.released = n, !.tx = tx, !.event = event, !.sent[tx] = n,
                              !.mined = @ \cup {<<tx, event>>}]
    /\ task' = "settled"
    /\ UNCHANGED <<pkg, version, feedback, change, intent, index, journals, clock, late>>

Returned(j) == j.amount + j.residual

\* Rewind over the block of the release: journals of its event are inverted, the task is
\* quarantined and a confirmed acceptance becomes orphaned.
OrphanRelease ==
    LET hit == {j \in journals : j.event = chain.event /\ ~j.reversed}
    IN /\ chain.released # None /\ chain.reorgs < MaxReorgs
       /\ journals' = (journals \ hit) \cup {[j EXCEPT !.reversed = TRUE] : j \in hit}
       /\ change' = [n \in Paid |->
                        IF \E j \in hit : j.order = n
                        THEN [change[n] EXCEPT !.balance = @ + Returned(CHOOSE j \in hit : j.order = n)]
                        ELSE change[n]]
       /\ intent' = [n \in Number |->
                        IF intent[n].state = "confirmed" /\ intent[n].event = chain.event
                        THEN [intent[n] EXCEPT !.state = "orphaned"] ELSE intent[n]]
       /\ task' = "chain_reorg_pending"
       /\ chain' = [chain EXCEPT !.released = None, !.tx = None, !.event = 0, !.reorgs = @ + 1]
       /\ UNCHANGED <<pkg, version, feedback, index, clock, late>>

OrphanNonce ==
    /\ chain.released = None /\ chain.nonces # <<>> /\ chain.reorgs < MaxReorgs
    /\ chain' = [chain EXCEPT !.nonces = Front(@), !.reorgs = @ + 1]
    /\ UNCHANGED <<task, pkg, version, feedback, change, intent, index, journals, clock, late>>

TaskDeadline ==
    /\ ~late /\ late' = TRUE
    /\ UNCHANGED <<task, pkg, version, feedback, change, intent, index, journals, chain, clock>>

OrderDeadline(n) ==
    /\ change[n].status # "none" /\ ~change[n].expired
    /\ change' = [change EXCEPT ![n].expired = TRUE]
    /\ UNCHANGED <<task, pkg, version, feedback, intent, index, journals, chain, clock, late>>

-----------------------------------------------------------------------------
(* What the service lets through to the store, by the caller's role and input *)

Role == {"publisher", "provider", "admin", "arbitrator"}
Responsible == {"publisher", "agent", "platform"}

StartRequest(role, ordered, nonce) == role = "publisher" /\ Start(ordered, nonce)

\* At least one item; the items of a set are told apart by criterion and target.
ValidFeedbackInput(items) == items # {}

FeedbackRequest(role, items) ==
    role = "publisher" /\ ValidFeedbackInput(items) /\ SubmitFeedback(items)

\* Only a version that is the last included one or later, and not the very last, is followed
\* by an order, and not for nothing.
ValidChangeProposal(trigger, price) ==
    trigger >= IncludedVersions /\ trigger < MaximumVersions /\ price # 0

ProposeRequest(role, trigger, price) ==
    role = "publisher" /\ ValidChangeProposal(trigger, price) /\ ProposeChangeOrder(trigger)

DecideRequest(role, n, by) ==
    role \in {"admin", "arbitrator"} /\ by \in Responsible /\ DecideChangeOrder(n, by)

AcceptRequest(role, n) == role = "publisher" /\ AcceptChangeOrder(n)

ActivateRequest(role, n) ==
    role \in {"admin", "arbitrator", "publisher"} /\ ActivateChangeOrder(n)

IntentRequest(role, n) == role = "publisher" /\ CreateAcceptanceIntent(n)

\* acceptanceTransition: a submission names a transaction, a reconciliation none.
AcceptanceTransition(role, n, tx) ==
    /\ role = "publisher"
    /\ IF tx = None THEN ReconcileAcceptance(n) ELSE SubmitAcceptance(n, tx)

Next ==
    \/ \E role \in Role, ordered \in BOOLEAN, nonce \in 1..CanonicalNonce : StartRequest(role, ordered, nonce)
    \/ \E n \in Number : RecordDispatched(n)
    \/ \E n \in Number, c \in Content \cup {None}, answered \in SUBSET Item : RecordResult(n, c, answered)
    \/ \E role \in Role, items \in SUBSET Item : FeedbackRequest(role, items)
    \/ \E role \in Role, trigger \in Number, price \in {0, Price} : ProposeRequest(role, trigger, price)
    \/ \E role \in Role, n \in Paid, by \in Responsible : DecideRequest(role, n, by)
    \/ \E role \in Role, n \in Paid : AcceptRequest(role, n)
    \/ \E n \in Paid, amount \in 1..(2 * Price) : FundChangeOrder(n, amount)
    \/ \E role \in Role, n \in Paid : ActivateRequest(role, n)
    \/ \E role \in Role, n \in Number : IntentRequest(role, n)
    \/ \E role \in Role, n \in Number, tx \in Tx \cup {None} : AcceptanceTransition(role, n, tx)
    \/ \E at \in 0..clock : AdvanceNonce(at)
    \/ \E tx \in Tx, n \in Number, event \in 1..(MaxReorgs + 1) : Release(tx, n, event)
    \/ OrphanRelease
    \/ OrphanNonce
    \/ TaskDeadline
    \/ \E n \in Paid : OrderDeadline(n)

Spec == Init /\ [][Next]_vars

-----------------------------------------------------------------------------
(* Properties *)

\* Versions are made one after another: every version but the last is in review, no two
\* in review have the same content, and each has a nonce and a scope later than the one
\* before (Start, RecordResult and ActivateScope, over any number of rounds).
VersionsInOrder ==
    /\ TypeOK
    /\ \A n \in Number : version[n].status # "none" <=> n <= pkg.alloc
    /\ \A n \in 1..(pkg.alloc - 1) :
          /\ version[n].status = "review"
          /\ version[n + 1].nonce = version[n].nonce + 1
          /\ IF n + 1 \in Paid THEN version[n + 1].scope > version[n].scope
             ELSE version[n + 1].scope = version[n].scope
    /\ \A m, n \in Number : version[m].status = "review" /\ version[n].status = "review"
                            /\ version[m].content = version[n].content => m = n

\* The settlements of an order that were not reversed.
Live(n) == {j \in journals : j.order = n /\ ~j.reversed}

\* Nobody works for nothing: a version beyond the included ones exists only under a
\* consumed change order whose escrow is frozen and still holds the price, or has paid it.
PaidVersionsFunded ==
    \A n \in Paid : version[n].status # "none" =>
        /\ change[n].status = "consumed"
        /\ change[n].price > 0 =>
              change[n].account = "frozen" /\ (change[n].balance >= change[n].price \/ Live(n) # {})

\* An order's escrow is paid out at most once at a time and to the last unit: what was
\* funded is in the account or in the one settlement that was not reversed.
EscrowConserved ==
    \A n \in Paid :
        /\ Cardinality(Live(n)) <= 1
        /\ change[n].funded = change[n].balance
                              + (IF Live(n) = {} THEN 0 ELSE LET j == CHOOSE j \in Live(n) : TRUE
                                                             IN j.amount + j.residual)
        /\ Live(n) # {} => change[n].balance = 0

\* A confirmed acceptance is of the version the chain paid, it is the last one, the task
\* says settled, and an ordered version was settled with that very event; a settlement
\* never outlives its acceptance (ReconcileAcceptance against reorganisations, nonces
\* and a hash that belongs to another version).
ConfirmedIsPaid ==
    /\ \A n \in Number : intent[n].state = "confirmed" =>
          /\ chain.released = n /\ chain.tx = intent[n].tx /\ chain.event = intent[n].event
          /\ pkg.alloc = n /\ task = "settled"
          /\ n \in Paid /\ change[n].price > 0 => \E j \in Live(n) : j.event = chain.event
    /\ \A j \in journals : ~j.reversed => intent[j.order].state = "confirmed"
=============================================================================
