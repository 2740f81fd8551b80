------------------------------ MODULE TaskEscrow ------------------------------
(***************************************************************************)
(* contracts/escrow/src/TaskEscrow.sol: one escrow position per task, a    *)
(* pull-payment ledger for agents, disputes with frozen terms, a pause     *)
(* switch and two rotatable roles.                                         *)
(*                                                                         *)
(* A call that moves tokens is split where the code leaves the contract:   *)
(* the call's own effects, then one step per ERC-20 transfer.  Between the *)
(* two the lock is held, so only the functions without nonReentrant can    *)
(* run (a token that calls back).  A reverted transaction leaves no trace  *)
(* and is therefore no step at all.                                        *)
(***************************************************************************)
EXTENDS Integers, Sequences, FiniteSets

CONSTANTS
    TaskId,        \* derived ids: keccak256 of the fields below (no collisions)
    PublisherOf,   \* the sender hashed into a task id
    BudgetOf,      \* the formal budget hashed into a task id
    FundBefore,    \* the funding deadline hashed into a task id
    Account,       \* non-zero addresses
    Id,            \* non-zero bytes32 values (assignments, credits, nonces)
    Zero,          \* address(0) and bytes32(0)
    SelectionProof,\* the signed selection payloads that circulate
    Admin, Guardian,
    Signer, Resolver,  \* the addresses governance may rotate the two roles to
    FirstResolver, FirstSigner,
    CoolingOff,    \* the "1 days" of freezeDispute
    MaxTime,       \* bound: last block time explored
    MaxNonce       \* bound: last work nonce explored

ProofType ==
    [taskId : TaskId, assignmentId : Id \cup {Zero}, agentController : Account \cup {Zero},
     payout : Account \cup {Zero}, allocationId : Id \cup {Zero}, nonce : Id \cup {Zero},
     deadline : Nat, overviewPrice : Nat, overviewCredit : Nat, formalGrossPrice : Nat,
     complete : BOOLEAN,   \* the ids and versions that are only tested for zero
     signer : Account]     \* whom _recover yields for the signature

ASSUME ConstantTypes ==
    /\ PublisherOf \in [TaskId -> Account]
    /\ BudgetOf \in [TaskId -> Nat]
    /\ FundBefore \in [TaskId -> Nat]
    /\ Zero \notin Account /\ Zero \notin Id
    /\ SelectionProof \subseteq ProofType
    /\ {Admin, Guardian} \cup Signer \cup Resolver \subseteq Account
    /\ FirstSigner \in Signer /\ FirstResolver \in Resolver
    /\ CoolingOff \in Nat /\ MaxTime \in Nat /\ MaxNonce \in Nat

VARIABLES
    status, amount, agent,         \* struct Task (its publisher is PublisherOf)
    assignment, workNonce,         \* assignments, workNonces
    usedNonces, usedAssignments, usedCredits,
    claimable, totalClaimable,     \* claimableEarnings and its total
    yieldOf, totalYield,           \* yieldEligiblePrincipal and its total
    freeze,                        \* disputeFreezes with disputeLeafHashes
    paused, disputeResolver, platformProofSigner,
    locked, transfers,             \* the lock, and the transfers of the call holding it
    balance,                       \* the escrow's balance in the ERC-20 asset
    now,                           \* block.timestamp
    deposited, returned, accrued, fees, withdrawn  \* observed flows, per task but the last

taskVars    == <<status, amount, agent, assignment, workNonce>>
usedVars    == <<usedNonces, usedAssignments, usedCredits>>
ledgerVars  == <<claimable, totalClaimable>>
yieldVars   == <<yieldOf, totalYield>>
roleVars    == <<paused, disputeResolver, platformProofSigner>>
callVars    == <<locked, transfers>>
flowVars    == <<deposited, returned, accrued, fees, withdrawn>>
vars == <<taskVars, usedVars, ledgerVars, yieldVars, freeze, roleVars, callVars,
          balance, now, flowVars>>

Status == {"None", "Funded", "Assigned", "Released", "Refunded", "Disputed"}
Settled == {"Released", "Refunded"}

NoAssignment == [id |-> Zero, agentController |-> Zero, payout |-> Zero, allocationId |-> Zero]
NoFreeze == [root |-> FALSE, publisherLeaf |-> Zero, agentLeaf |-> Zero, cap |-> 0,
             feeRecipient |-> Zero, feeCap |-> 0, finalizeAfter |-> 0, finalized |-> FALSE]

Init ==
    /\ status = [t \in TaskId |-> "None"]
    /\ amount = [t \in TaskId |-> 0]
    /\ agent = [t \in TaskId |-> Zero]
    /\ assignment = [t \in TaskId |-> NoAssignment]
    /\ workNonce = [t \in TaskId |-> 0]
    /\ usedNonces = {} /\ usedAssignments = {} /\ usedCredits = {}
    /\ claimable = [k \in Account \X Account |-> 0] /\ totalClaimable = 0
    /\ yieldOf = [t \in TaskId |-> 0] /\ totalYield = 0
    /\ freeze = [t \in TaskId |-> NoFreeze]
    /\ paused = FALSE
    /\ disputeResolver = FirstResolver /\ platformProofSigner = FirstSigner
    /\ locked = 1 /\ transfers = <<>> /\ balance = 0
    /\ now = 0
    /\ deposited = [t \in TaskId |-> 0] /\ returned = [t \in TaskId |-> 0]
    /\ accrued = [t \in TaskId |-> 0] /\ fees = [t \in TaskId |-> 0] /\ withdrawn = 0
-----------------------------------------------------------------------------
\* Token movements of a call; the code skips a transfer of zero.
Move(dir, n) == IF n = 0 THEN <<>> ELSE <<[dir |-> dir, amount |-> n]>>
In(n)  == Move("in", n)
Out(n) == Move("out", n)

\* nonReentrant: the guarded body runs with the lock free; the lock stays
\* taken exactly while the call still has tokens to move.
NonReentrantUnpaused == locked = 1 /\ ~paused
NonReentrant == locked = 1

\* The transfers a call leaves to the asset; a nested call's go first.
Calls(moves) ==
    /\ transfers' = moves \o transfers
    /\ locked' = IF moves = <<>> THEN 1 ELSE 2

WhenNotPaused == ~paused

\* pause, by the guardian or by governance (_pause reverts when paused).
Pause(caller) ==
    /\ caller \in {Admin, Guardian} /\ ~paused
    /\ paused' = TRUE
    /\ UNCHANGED <<taskVars, usedVars, ledgerVars, yieldVars, freeze, disputeResolver,
                   platformProofSigner, callVars, balance, now, flowVars>>

\* unpause, by governance alone.
Unpause(caller) ==
    /\ caller = Admin /\ paused
    /\ paused' = FALSE
    /\ UNCHANGED <<taskVars, usedVars, ledgerVars, yieldVars, freeze, disputeResolver,
                   platformProofSigner, callVars, balance, now, flowVars>>

SetPlatformProofSigner(caller, next) ==
    /\ caller = Admin
    /\ platformProofSigner' = next
    /\ UNCHANGED <<taskVars, usedVars, ledgerVars, yieldVars, freeze, paused,
                   disputeResolver, callVars, balance, now, flowVars>>

SetDisputeResolver(caller, next) ==
    /\ caller = Admin
    /\ disputeResolver' = next
    /\ UNCHANGED <<taskVars, usedVars, ledgerVars, yieldVars, freeze, paused,
                   platformProofSigner, callVars, balance, now, flowVars>>
-----------------------------------------------------------------------------
TaskExistsByAmount(t) == amount[t] # 0
TaskExists(t) == status[t] # "None"

\* createTask: the position is recorded before the budget is pulled in.
CreateTask(caller, t) ==
    /\ NonReentrant /\ WhenNotPaused
    /\ caller = PublisherOf[t]          \* msg.sender is hashed into the id
    /\ BudgetOf[t] > 0
    /\ now <= FundBefore[t]
    /\ ~TaskExists(t)
    /\ status' = [status EXCEPT ![t] = "Funded"]
    /\ amount' = [amount EXCEPT ![t] = BudgetOf[t]]
    /\ deposited' = [deposited EXCEPT ![t] = BudgetOf[t]]
    /\ Calls(In(BudgetOf[t]))
    /\ UNCHANGED <<agent, assignment, workNonce, usedVars, ledgerVars, yieldVars, freeze,
                   roleVars, balance, now, returned, accrued, fees, withdrawn>>

\* What selectAgent demands of a proof besides the state it consumes.
ProofValid(p) ==
    /\ p.complete
    /\ Zero \notin {p.assignmentId, p.agentController, p.payout, p.allocationId, p.nonce}
    /\ p.deadline >= now
    /\ p.formalGrossPrice > 0
    /\ p.overviewCredit <= p.overviewPrice /\ p.overviewCredit <= p.formalGrossPrice
    /\ p.signer = platformProofSigner

ProofFreshButCredit(p) ==
    /\ p.nonce \notin usedNonces
    /\ assignment[p.taskId].id = Zero
    /\ p.assignmentId \notin usedAssignments
ProofFresh(p) ==
    /\ p.nonce \notin usedNonces
    /\ assignment[p.taskId].id = Zero
    /\ p.assignmentId \notin usedAssignments
    /\ p.allocationId \notin usedCredits

\* selectAgent: consume the proof, fix the assignment at the net price and
\* send back what the publisher overfunded.
SelectAgent(caller, p) ==
    LET t == p.taskId
        payable == p.formalGrossPrice - p.overviewCredit
        excess == amount[t] - payable IN
    /\ NonReentrant /\ WhenNotPaused
    /\ caller = PublisherOf[t] /\ status[t] = "Funded"
    /\ ProofValid(p) /\ ProofFresh(p)
    /\ amount[t] >= payable
    /\ usedNonces' = usedNonces \cup {p.nonce}
    /\ usedAssignments' = usedAssignments \cup {p.assignmentId}
    /\ usedCredits' = usedCredits \cup {p.allocationId}
    /\ agent' = [agent EXCEPT ![t] = p.payout]
    /\ amount' = [amount EXCEPT ![t] = payable]
    /\ status' = [status EXCEPT ![t] = "Assigned"]
    /\ assignment' = [assignment EXCEPT ![t] =
            [id |-> p.assignmentId, agentController |-> p.agentController,
             payout |-> p.payout, allocationId |-> p.allocationId]]
    /\ workNonce' = [workNonce EXCEPT ![t] = 1]
    /\ yieldOf' = [yieldOf EXCEPT ![t] = payable]
    /\ totalYield' = totalYield + payable
    /\ returned' = [returned EXCEPT ![t] = @ + excess]
    /\ Calls(Out(excess))
    /\ UNCHANGED <<ledgerVars, freeze, roleVars, balance, now, deposited, accrued, fees,
                   withdrawn>>

\* advanceWorkNonce: compare-and-swap; not nonReentrant.
AdvanceWorkNonce(caller, t, expected) ==
    /\ WhenNotPaused
    /\ caller = PublisherOf[t] /\ status[t] = "Assigned"
    /\ workNonce[t] = expected /\ expected # 0
    /\ expected < MaxNonce
    /\ workNonce' = [workNonce EXCEPT ![t] = expected + 1]
    /\ UNCHANGED <<status, amount, agent, assignment, usedVars, ledgerVars, yieldVars, freeze,
                   roleVars, callVars, balance, now, flowVars>>
-----------------------------------------------------------------------------
EndYieldEligibilityTotalOnly(t) ==
    UNCHANGED yieldOf /\ totalYield' = totalYield - yieldOf[t]
EndYieldEligibility(t) ==
    /\ yieldOf' = [yieldOf EXCEPT ![t] = 0]
    /\ totalYield' = totalYield - yieldOf[t]

\* claimableEarnings[controller][payout] += n, and the total with it.
AccrueWithoutTotal(t, n) ==
    /\ claimable' = [claimable EXCEPT
            ![<<assignment[t].agentController, assignment[t].payout>>] = @ + n]
    /\ accrued' = [accrued EXCEPT ![t] = @ + n]
    /\ UNCHANGED totalClaimable
Accrue(t, n) ==
    /\ claimable' = [claimable EXCEPT
            ![<<assignment[t].agentController, assignment[t].payout>>] = @ + n]
    /\ totalClaimable' = totalClaimable + n
    /\ accrued' = [accrued EXCEPT ![t] = @ + n]

\* accept and release (both call _accept): the whole principal accrues to the
\* agent; no token moves and no pause blocks it.
Accept(caller, t) ==
    /\ NonReentrant
    /\ caller = PublisherOf[t] /\ status[t] = "Assigned"
    /\ status' = [status EXCEPT ![t] = "Released"]
    /\ amount' = [amount EXCEPT ![t] = 0]
    /\ EndYieldEligibility(t)
    /\ Accrue(t, amount[t])
    /\ Calls(<<>>)
    /\ UNCHANGED <<agent, assignment, workNonce, usedVars, freeze, roleVars, balance, now,
                   deposited, returned, fees, withdrawn>>

AvailableInTotal(caller, payout, n) == n > 0 /\ n <= totalClaimable
Available(caller, payout, n) == n > 0 /\ n <= claimable[<<caller, payout>>]

WithdrawEarnings(caller, payout, n) ==
    /\ NonReentrant
    /\ Available(caller, payout, n)
    /\ claimable' = [claimable EXCEPT ![<<caller, payout>>] = @ - n]
    /\ totalClaimable' = totalClaimable - n
    /\ withdrawn' = withdrawn + n
    /\ Calls(Out(n))
    /\ UNCHANGED <<taskVars, usedVars, yieldVars, freeze, roleVars, balance, now,
                   deposited, returned, accrued, fees>>

\* refund: only before an agent is selected.
Refund(caller, t) ==
    /\ NonReentrant
    /\ caller = PublisherOf[t] /\ status[t] = "Funded"
    /\ status' = [status EXCEPT ![t] = "Refunded"]
    /\ amount' = [amount EXCEPT ![t] = 0]
    /\ EndYieldEligibility(t)
    /\ returned' = [returned EXCEPT ![t] = @ + amount[t]]
    /\ Calls(Out(amount[t]))
    /\ UNCHANGED <<agent, assignment, workNonce, usedVars, ledgerVars, freeze, roleVars,
                   balance, now, deposited, accrued, fees, withdrawn>>
-----------------------------------------------------------------------------
\* freezeDispute: not nonReentrant.  The leaves a caller passes must equal the
\* ones the contract expects, so the caller chooses only feeRecipient and feeCap.
FreezeDispute(caller, t, feeRecipient, feeCap) ==
    /\ WhenNotPaused
    /\ status[t] = "Assigned"
    /\ caller \in {PublisherOf[t], assignment[t].agentController}
    /\ feeRecipient = disputeResolver /\ feeCap <= amount[t]
    /\ ~freeze[t].root
    /\ freeze' = [freeze EXCEPT ![t] =
            [root |-> TRUE, publisherLeaf |-> PublisherOf[t], agentLeaf |-> assignment[t].payout,
             cap |-> amount[t], feeRecipient |-> feeRecipient, feeCap |-> feeCap,
             finalizeAfter |-> now + CoolingOff, finalized |-> FALSE]]
    /\ status' = [status EXCEPT ![t] = "Disputed"]
    /\ UNCHANGED <<amount, agent, assignment, workNonce, usedVars, ledgerVars, yieldVars,
                   roleVars, callVars, balance, now, flowVars>>

\* An allocation names an owner and an amount for each of the two frozen leaves.
LeafMatches(t, pubOwner, agentOwner) ==
    /\ freeze[t].publisherLeaf = pubOwner /\ freeze[t].agentLeaf = agentOwner
    /\ freeze[t].cap = amount[t]

FinalizeDueAtOnce(t) == status[t] = "Disputed" /\ freeze[t].root /\ ~freeze[t].finalized
FinalizeDue(t) ==
    /\ status[t] = "Disputed" /\ freeze[t].root /\ ~freeze[t].finalized
    /\ now >= freeze[t].finalizeAfter

SplitWithin(t, pub, agt, fee) == pub + agt + fee <= amount[t]
SplitExact(t, pub, agt, fee) == pub + agt + fee = amount[t]

\* finalizeDisputeAllocation: the current resolver splits the whole principal;
\* the fee goes to the resolver named when the dispute was frozen.
FinalizeDisputeAllocation(caller, t, pubOwner, agentOwner, pub, agt, fee) ==
    /\ NonReentrant
    /\ caller = disputeResolver
    /\ FinalizeDue(t)
    /\ fee <= freeze[t].feeCap
    /\ LeafMatches(t, pubOwner, agentOwner)
    /\ pub <= amount[t] /\ agt <= amount[t]
    /\ SplitExact(t, pub, agt, fee)
    /\ freeze' = [freeze EXCEPT ![t].finalized = TRUE]
    /\ amount' = [amount EXCEPT ![t] = 0]
    /\ status' = [status EXCEPT ![t] = IF agt = 0 THEN "Refunded" ELSE "Released"]
    /\ EndYieldEligibility(t)
    /\ Accrue(t, agt)
    /\ returned' = [returned EXCEPT ![t] = @ + pub]
    /\ fees' = [fees EXCEPT ![t] = @ + fee]
    /\ Calls(Out(pub) \o Out(fee))
    /\ UNCHANGED <<agent, assignment, workNonce, usedVars, roleVars, balance, now, deposited,
                   withdrawn>>
-----------------------------------------------------------------------------
\* The ERC-20 side of a call: a transfer out needs the escrow to own the tokens.
\* When the last one is done the call returns and nonReentrant frees the lock.
Transfer ==
    /\ transfers # <<>>
    /\ LET m == Head(transfers) IN
       IF m.dir = "in" THEN balance' = balance + m.amount
       ELSE balance >= m.amount /\ balance' = balance - m.amount
    /\ transfers' = Tail(transfers)
    /\ locked' = IF Tail(transfers) = <<>> THEN 1 ELSE locked
    /\ UNCHANGED <<taskVars, usedVars, ledgerVars, yieldVars, freeze, roleVars, now, flowVars>>

\* Block time advances between transactions only.
Tick ==
    /\ locked = 1 /\ now < MaxTime
    /\ now' = now + 1
    /\ UNCHANGED <<taskVars, usedVars, ledgerVars, yieldVars, freeze, roleVars, callVars,
                   balance, flowVars>>

Next ==
    \/ Transfer
    \/ Tick
    \/ \E caller \in Account :
        \/ Pause(caller)
        \/ Unpause(caller)
        \/ \E a \in Signer : SetPlatformProofSigner(caller, a)
        \/ \E a \in Resolver : SetDisputeResolver(caller, a)
        \/ \E p \in SelectionProof : SelectAgent(caller, p)
        \/ \E a \in Account : \E n \in 1..totalClaimable : WithdrawEarnings(caller, a, n)
        \/ \E t \in TaskId :
            \/ CreateTask(caller, t)
            \/ \E n \in 0..MaxNonce : AdvanceWorkNonce(caller, t, n)
            \/ Accept(caller, t)
            \/ Refund(caller, t)
            \/ \E a \in Account : \E cap \in 0..amount[t] : FreezeDispute(caller, t, a, cap)
            \/ \E po \in Account, ao \in Account :
               \E pub \in 0..amount[t], agt \in 0..amount[t], fee \in 0..amount[t] :
                   FinalizeDisputeAllocation(caller, t, po, ao, pub, agt, fee)

Spec == Init /\ [][Next]_vars
-----------------------------------------------------------------------------
AssignmentType ==
    [id : Id \cup {Zero}, agentController : Account \cup {Zero},
     payout : Account \cup {Zero}, allocationId : Id \cup {Zero}]
FreezeType ==
    [root : BOOLEAN, publisherLeaf : Account \cup {Zero}, agentLeaf : Account \cup {Zero},
     cap : Nat, feeRecipient : Account \cup {Zero}, feeCap : Nat,
     finalizeAfter : Nat, finalized : BOOLEAN]
MoveType == [dir : {"in", "out"}, amount : Nat]

TypeOK ==
    /\ status \in [TaskId -> Status]
    /\ amount \in [TaskId -> Nat]
    /\ agent \in [TaskId -> Account \cup {Zero}]
    /\ assignment \in [TaskId -> AssignmentType]
    /\ workNonce \in [TaskId -> Nat]
    /\ usedNonces \subseteq Id /\ usedAssignments \subseteq Id /\ usedCredits \subseteq Id
    /\ claimable \in [Account \X Account -> Nat] /\ totalClaimable \in Int
    /\ yieldOf \in [TaskId -> Nat] /\ totalYield \in Int
    /\ freeze \in [TaskId -> FreezeType]
    /\ paused \in BOOLEAN
    /\ disputeResolver \in Account /\ platformProofSigner \in Account
    /\ locked \in {1, 2}
    /\ transfers \in Seq(MoveType)
    /\ balance \in Int /\ now \in Nat
    /\ deposited \in [TaskId -> Nat] /\ returned \in [TaskId -> Nat]
    /\ accrued \in [TaskId -> Nat] /\ fees \in [TaskId -> Nat] /\ withdrawn \in Int

\* A sum of amounts is the number of the units they are made of.
Units(f, S) == UNION {{x} \X (1..f[x]) : x \in S}
SumOver(f, S) == Cardinality(Units(f, S))
Pending(dir) ==
    SumOver([i \in DOMAIN transfers |-> IF transfers[i].dir = dir THEN transfers[i].amount ELSE 0],
            DOMAIN transfers)

(* At every point, inside a call included, the tokens the escrow owns, less  *)
(* what the running call still sends and plus what it still pulls, are       *)
(* exactly the open principals and the unclaimed earnings, and the running   *)
(* totals of earnings and of yield are the sums they stand for.              *)
Solvency ==
    /\ balance + Pending("in") - Pending("out") = SumOver(amount, TaskId) + totalClaimable
    /\ totalClaimable = SumOver(claimable, Account \X Account)
    /\ totalClaimable + withdrawn = SumOver(accrued, TaskId)
    /\ totalYield = SumOver(yieldOf, TaskId)

(* Principal earns yield exactly from selection to settlement, disputes      *)
(* included (yieldEligiblePrincipal against Task.amount and Task.status).    *)
YieldTracksPrincipal ==
    \A t \in TaskId :
        yieldOf[t] = IF status[t] \in {"Assigned", "Disputed"} THEN amount[t] ELSE 0

Selected == {t \in TaskId : assignment[t].id # Zero}

(* A selection nonce, an assignment id and an overview credit are consumed   *)
(* by one task only, however proofs are replayed across tasks.               *)
OneTimeIds ==
    /\ \A t, u \in Selected : t # u =>
        /\ assignment[t].id # assignment[u].id
        /\ assignment[t].allocationId # assignment[u].allocationId
    /\ Cardinality(usedNonces) = Cardinality(Selected)
    /\ usedAssignments = {assignment[t].id : t \in Selected}
    /\ usedCredits = {assignment[t].allocationId : t \in Selected}

(* While a dispute is open its terms are fixed, whoever becomes resolver and *)
(* whether or not the contract is paused: the principal leaves only after    *)
(* the cooling-off period, whole, and with at most the frozen fee.           *)
DisputeTermsHold ==
    [][\A t \in TaskId : status[t] = "Disputed" =>
          \/ status'[t] = "Disputed" /\ amount'[t] = amount[t] /\ freeze'[t] = freeze[t]
          \/ /\ status'[t] \in Settled
             /\ now >= freeze[t].finalizeAfter
             /\ fees'[t] - fees[t] <= freeze[t].feeCap
             /\ (returned'[t] + accrued'[t] + fees'[t]) - (returned[t] + accrued[t] + fees[t])
                    = freeze[t].cap]_vars

(* A pause never traps money: in every state between calls, a funded task    *)
(* can be refunded, an assigned one accepted, a disputed one past its        *)
(* cooling-off finalized, and any claim withdrawn; and a call that reached   *)
(* its token transfers owns what it is about to pay.                         *)
ExitsOpen ==
    /\ locked = 2 => ENABLED Transfer
    /\ locked = 1 =>
        /\ \A t \in TaskId :
            /\ status[t] = "Funded" => ENABLED Refund(PublisherOf[t], t)
            /\ status[t] = "Assigned" => ENABLED Accept(PublisherOf[t], t)
            /\ status[t] = "Disputed" /\ now >= freeze[t].finalizeAfter =>
                ENABLED FinalizeDisputeAllocation(disputeResolver, t, PublisherOf[t],
                            assignment[t].payout, amount[t], 0, 0)
        /\ \A k \in Account \X Account : claimable[k] > 0 =>
                ENABLED WithdrawEarnings(k[1], k[2], claimable[k])

\* The escrow as a set of positions: what EscrowPosition sees of it.
PhaseOf(s) == IF s = "None" THEN "empty" ELSE IF s \in Settled THEN "closed" ELSE "open"
Position == INSTANCE EscrowPosition WITH
    phase <- [t \in TaskId |-> PhaseOf(status[t])],
    held <- amount,
    paidOut <- [t \in TaskId |-> returned[t] + accrued[t] + fees[t]]

(* The escrow implements EscrowPosition: every call opens a position, pays   *)
(* out part of an open one, closes one, or leaves all positions alone.       *)
PositionsHold == Position!PositionSpec

(* Strengthening used by the proofs: an unopened position is blank and an    *)
(* assigned one names its agent.                                             *)
PositionsWellFormed ==
    \A t \in TaskId :
        /\ status[t] = "None" =>
            amount[t] = 0 /\ deposited[t] = 0 /\ returned[t] = 0 /\ accrued[t] = 0 /\ fees[t] = 0
        /\ status[t] # "None" => deposited[t] = BudgetOf[t]
        /\ status[t] \in {"Assigned", "Disputed"} =>
            assignment[t].agentController \in Account /\ assignment[t].payout \in Account

(* Every unit deposited for a task is held, or was returned, earned or taken *)
(* as a fee exactly once.                                                    *)
TaskConservation ==
    \A t \in TaskId :
        /\ deposited[t] = amount[t] + returned[t] + accrued[t] + fees[t]
        /\ status[t] \in Settled => amount[t] = 0 /\ deposited[t] = BudgetOf[t]
=============================================================================
