# Agent task dispatch: a TLA+ verification project

The repository is a marketplace in which a publisher funds a task in an on-chain
escrow, the platform lets several agents write overviews, the publisher selects
one of them with a proof signed by the platform, the agent delivers, and the
escrow pays. This directory models the parts of it in which money, work or
messages can get lost, duplicated or stuck, checks the models with TLC and
proves the central results with TLAPS.

## 1. Inventory

`src/services/engine/internal` is written `E/` below.

| Component | State it keeps | Operations that change it | Talks to |
|---|---|---|---|
| `contracts/escrow/src/TaskEscrow.sol` | task status and amount, assignment, used ids, claimable earnings, yield principal, dispute freeze, roles, pause, lock | createTask, selectAgent, advanceWorkNonce, accept/release, withdrawEarnings, refund, freezeDispute, finalizeDisputeAllocation, pause, unpause, role rotation | ERC-20 asset (calls out, may be called back) |
| `E/execution` | logical executions, attempts, callback events, poll reconciliations | Dispatch, Cancel, Poll, HandleCallback | agents over HTTP, `E/agent` for capacity |
| `E/agent` | agents, versions, capacity leases, fencing tokens | Create, UpdateProfile, Transition, UpdateHealth, CheckHealth, PublishPrice, UpdateMatchingAuthority, ReserveCapacity, ReleaseCapacity, UpdateCapacity | `E/execution`, `E/selection`, `E/matching` |
| `E/outbox`, `awspublisher` | rows with lease, attempts, due time | Enqueue (inside domain transactions), Claim, Complete, Retry | SQS/SNS |
| `E/sqsconsumer` | processed-message ledger | RunOnce: receive, look up, handle, record, delete | SQS, a business handler |
| `E/chain` | canonical blocks, cursor, observed transactions, canonicalisation epochs, settlement journals | SyncOnce (ApplyBlock, Rewind), ReconcileFundingAttempt, reconciliation runs | Ethereum RPC, ledger, task and selection rows |
| `E/taskfunding` | funding intents and attempts | Prepare, Submit | `E/chain` |
| `E/selection` | reservations, proofs, active assignments | Reserve, RecordSubmitted, Reconcile, Confirm, Fail, Expire | `E/chain`, `E/agent` for capacity |
| `E/delivery` | packages, versions, feedback sets, scopes, change orders, acceptance intents | Start, RecordDispatched, RecordResult, SubmitFeedback, Propose/Decide/Accept/ActivateChangeOrder, CreateAcceptanceIntent, SubmitAcceptance, ReconcileAcceptance | `E/execution`, `E/outbox`, `E/funds`, the contract |
| `E/funds` | accounts, journals, allocations | RecordFunding, AuthorizeOverview, CaptureOverview, ReleaseOverview, ReverseJournal | everything that pays |
| `E/overview` | batches, slots | Start, FinalizeSlot, replacement, ObsoleteBefore | `E/execution`, `E/funds`, `E/matching` |
| `E/dispute` | cases: claims, freeze, evidence, judges, decisions | Open, AddClaim, SubmitFreeze, ReconcileFreeze, AppendEvidence, Assign, Decide, Settle, Review, Finalize | escrow, compliance and payment services |
| `E/task` | tasks and their specification | Create, UpdateDraft, Publish, RequestDelete | `E/taskfunding` |
| `E/workflow`, `E/orchestration` | matching operations, plans | StartMatching, StartOverview, FinalizeOverviewSlot | `E/matching`, `E/overview`, `E/task` |
| `E/matching` | sealed snapshots, exposure of agents | Match, FairShuffle, CreateRevision | `E/agent` |
| `E/auth`, `E/credential` | challenges, rate buckets, sessions; credential versions, bundles in each process's memory | SaveChallenge, ConsumeChallenge, RevokeSession; Rotate, RestoreProtocolBundles | API, `E/execution` |
| views, API, web, BFF, orchestrator, agent runtime | none that is shared | - | - |

What is hard about it, by component (the `hazards` of `PROJECT.json` name the line):

* **escrow**: calls into an unknown token between effects, replayed signed
  proofs, a pause at a bad moment, a rotated dispute resolver, sums that must
  come out exactly;
* **execution**: database transactions of many callers with network calls
  between them, leases that expire under a running attempt, a callback racing a
  poll, a compensation that undoes what a retry then uses;
* **outbox and consumer**: workers that die or outlive their lease, a broker
  that duplicates, a ledger written after the effect;
* **chain projection**: reorganisations, several projecting processes, events
  that arrive before the row they belong to, effects that must be posted once
  per canonical occurrence;
* **delivery, funds, overview, dispute**: idempotency keys under retry, counters
  at their limits, state read in one transaction and used in another.

What makes each part correct is stated as the properties of its module; section 3
lists them.

## 2. Plan

| Order | Module | Abstract specification | State |
|---|---|---|---|
| 1 | `TaskEscrow` | `EscrowPosition` | modelled, checked, proved |
| 2 | `Execution` (with the leases of executions) | `LogicalExecution` | modelled, checked, proved |
| 3 | `Outbox` (workers, queue, consumer) | - | modelled, checked, proved |
| 4 | `ChainProjection` over `SettlementProjection`, compared by `Reconciliation` | `CanonicalIndex` | modelled, checked, proved |
| 5 | `Delivery` (versions, feedback, change orders, acceptance) | - | modelled, checked, proved |
| 6 | `Workflow` over `Overview` over `Funds` (operations, slots, allocations) | - | modelled, checked, proved |
| 7 | `Selection` over `Registry` and `TaskLifecycle` (reservation, agent, task) | - | modelled, checked, proved |
| 8 | `Dispute` (cases) | - | modelled, checked, proved |
| 9 | `Matching` (scores, shuffle, snapshots) | - | modelled, checked, proved |
| 10 | `Access` over `Sessions` and `Credentials` (login, rotation) | - | modelled, checked, proved |

`Clock` is the time the modules of rows 7, 9 and 10 share. "Proved" means that every safety
property the runs check of the module is also a theorem, apart from those section 5 names.

## 3. The modules

### 3.1 TaskEscrow (contract)

State variables carry the contract's names (`yieldOf` is
`yieldEligiblePrincipal`, `freeze` is `disputeFreezes` with the leaf hashes).
`deposited`, `returned`, `accrued`, `fees` and `withdrawn` are observations of
where money went and are read by no guard. Each external function is one action
with its `require`s as conjuncts; a revert is no step. A call that moves tokens
takes the lock and leaves its transfers in `transfers`; `Transfer` performs them
one at a time, so the asset may call back between them: `freezeDispute`,
`advanceWorkNonce`, `pause` and the role setters are not `nonReentrant` and can
run there. Task ids are `keccak256` of their fields, hence the constants
`PublisherOf`, `BudgetOf`, `FundBefore`; hashes and signatures do not collide.
`SelectionProof` is the set of signed payloads in circulation.

| Property | Meaning |
|---|---|
| `Solvency` | inside and between calls, balance less what the call still owes is open principal plus claims; the running totals are the sums they stand for |
| `TaskConservation` | each deposited unit is held, returned, earned or a fee, once |
| `YieldTracksPrincipal` | yield is earned on exactly the principal held from selection to settlement |
| `OneTimeIds` | nonce, assignment and credit of a proof are used once, across tasks |
| `ExitsOpen` | pausing never disables refund, accept, finalise or withdraw, and a call that starts to pay can go on |
| `DisputeTermsHold` | a dispute is settled under its frozen terms, never before the cooling-off |
| `PositionsHold` | refinement of `EscrowPosition` |

Run `escrow`: two tasks of one publisher (budgets 2 and 1, one fundable only at
time 0), four accounts, twelve proofs that share, repeat or zero their ids, two
values of each role, one step of time. Two tasks are needed for replay across
tasks, budget 2 for a three-way split and for an excess, time 1 for the
cooling-off and the two deadlines, `MaxNonce` 2 for one advance. The accounts of
governance and guardian may also be payees. Deadlock is not checked: with every
task settled and the time bound reached the contract has nothing left to do.

### 3.2 Execution (logical executions, attempts, leases)

Every action is one PostgreSQL transaction of `E/execution/postgres/store.go` or
`E/agent/postgres/store.go`, including what the triggers of migration 8 refuse
(`StatusMayChange`, `AttemptMayChange`). `Dispatch`, `Poll`, `Cancel` and
`HandleCallback` in `service.go` are sequences of them. Callers are not
variables: what a caller carries from one transaction to the next (attempt
number, lease, fence) never changes back, so "some caller stands before this
transaction" is a condition on the rows and begins each guard. That covers any
number of concurrent, stalled, dying and redelivered callers at once. Signatures
and envelopes are abstracted to the attempt and fence they name; `FlakyStore`
lets `ActivateAttempt` fail for reasons outside the model.

| Property | Meaning |
|---|---|
| `TablesAgree` | `AttemptsAgree` (attempts are numbered without gap, only the current one is live, and its state fits the execution's), `FencesGrow` (a later attempt has a larger fence, fences are unique and come from the lease) and `CapacityExact` (the agent's counter is its unreleased leases and within the limit) |
| `OneResult` | each attempt is ended by at most one report, success has exactly one |
| `CancelPrevails` | once a cancel is asked for, no dispatch, lease, callback or poll begun before or after it starts, ends, bills or replaces an attempt of that work; only the cancel ends it |
| `PromiseKept` | refinement of `LogicalExecution` |

Run `execution`: one execution, two attempts, one poll in flight, cost cap 1, two
contents, a store that fails. `Cost` contains one value beyond the cap. No fairness is
assumed, because nothing in the code repeats these calls: the message that makes the worker
dispatch (`E/worker/formal_execution.go:49`) is gone once the dispatch went through, the
overview dispatches planned slots only (`E/overview/service.go:237`) and asks for a cancel
once, without looking at the answer (`:165`, `:186`). That a cancel completes or that a
run-out attempt is replaced is therefore not promised (section 6); what is promised is that
nothing else happens to the work meanwhile.

### 3.3 Outbox (workers, queue, consumer)

Rows, the batch each worker holds, the queue (copies, receive count, redrive),
each consumer's position in `RunOnce`, the processed-message ledger. Leases and
back-offs are flags cleared by `LeaseExpires` and `BackoffElapses`. A worker that
dies restarts under the same `WorkerID`, so the lock alone does not tell its two
lives apart; `LockIsLatestClaim` shows that this is harmless because `Run` is one
loop.

| Property | Meaning |
|---|---|
| `MessagesAccounted` | `NoMessageLost` (a published message is in the ledger, in the dead letters or still queued), `LedgerIsEvidence` (a recorded message was sent and had its effect) and `LockIsLatestClaim` (the name on a row is the latest claimant's) |
| `SettledByHolder` | only the last claimer settles a row, and for good |
| `EventuallySettled` | no message is stranded in the outbox, and no published one before the consumer's ledger or the queue's dead letters |

Run `outbox`: one message, two workers, two consumers, two copies, two faults. Fairness:
workers and consumers poll for ever and timers run out; faults are bounded
(`MaxFaults`), without which nothing can be promised: the attempt limit is compared
only when a handler returns an error, and does not bound the deliveries of a message
whose worker dies.

### 3.4 ChainProjection and SettlementProjection

`SettlementProjection` is the part of `E/chain/postgres` that has no state of its
own: what the statements of `projectFundingTransaction`, `projectSettlementEvent`,
`orphanFailedFundingTransactions`, `reverseSettlementBlock` and `Rewind` do to the
rows of one task, as operators from database to database. A failing statement
makes the result not `ok` and the transaction around it is then not a step.
`ChainProjection` adds the node, the index (`chain_canonical_blocks`, the cursor),
the processes in `SyncOnce` and the callers of `taskfunding`, `selection` and
`workflow`. ApplyBlock, Rewind and ReconcileFundingAttempt run under one advisory
lock and are one action each; every other read of node or database is an action
of its own, so a projector acts on what it read earlier (`sync`). A projector that
dies in a round has only read; a new round from `idle` covers its restart.

What is abstracted: the blocks that may be mined are a constant tree with the
events of one task; events whose fields do not match the intent have no effect in
the code and do not occur. Taking back the blocks above an ancestor is written for
the set of them, because each touches its own rows, apart from the task's status,
on which the deposit, the task's oldest event, has the last word; `FundingAlone`
states the case in which that would not do (a block that both funds and settles).
`OneOutcome` says of the tree that a transaction has one outcome on a branch, as a node
guarantees; on different branches the runs let it fund and revert.
`matching`, `overview_generating` and `awaiting_selection` are one status, and a
reservation is `reserved` also after its hash was recorded. Dispute allocations are not
modelled; what a reorganisation does to change orders and acceptances is in `Delivery`.

`Reconciliation` is the daily comparison: `ExpectedInventory` from the rows,
`ObservedInventory` from the contract at the safe block, `CompareInventory` over both.
It has no state; its property is about the states of `ChainProjection`. `ContractOrder`
says of the tree what the contract's states guarantee of one task on one branch: each
settlement event at most once, a payment after the selection, a withdrawal after the payment,
and no refund beside a selection. Withdrawals in parts, which the contract allows, and other
tasks of the same pair of addresses are not modelled.

| Property | Meaning |
|---|---|
| `IndexIsChain` | whatever processes append and remove, the index is one chain and the cursor its tip |
| `IndexHolds` | refinement of `CanonicalIndex`: the index grows and shrinks at its tip and a deposit is counted at most once, and only while its block is there |
| `FollowsChain` | `FundingFollowsChain` (the deposit counted is the canonical one of a known attempt; intent and attempts agree, whether the block or the submission came first) and `FailureFollowsChain` (failed attempts have a canonical failure; a failed intent has nothing that could still fund it) |
| `NoWorkUnfunded` | no task is worked on without a canonical deposit |
| `NoOrphanEffect` | what a reorganisation removes is reversed in the ledger |
| `LedgerFollowsChain` | settlement journals are those of the canonical chain (violated) |
| `LedgerCovered` | neither escrow nor receivable is overdrawn |
| `DivergenceSeen` | whenever ledger and contract disagree about the task, the comparison reports it |
| `Converges` | from every reachable state but a lost cursor, one round of a projector that is left alone brings the index to the node's safe block: no row of the task, no depth and no remainder of a race stands in the way |

Runs: `funding_projection` (two projectors, a fork in which each of two
transactions funds on one branch and reverts on the other; the node may change to the
second branch and return to the first, which grew meanwhile) and
`settlement_races` (two projectors, two changes of branch; deposit, selection,
payment, withdrawal on one branch, a late payment on a second, a refund on a third).
A chain is left only for a longer one, hence the longer refund branch; two changes
of branch are what a stale ancestor needs. `Payable` equals `Budget`: below it every
selected task differs for good (section 6). `Confirmations` is 1, so that a reorganisation
reaches projected blocks: a larger depth only delays them.

`Converges` replays the loop of `SyncOnce` (`Turn`, `LeftAlone`) on the rows of each
reachable state, with the operators the actions use, and so needs no fairness. The
exception `CursorLost` is real and occurs in the run: one projector found ancestor 1 on the
way back, another rewinds to 0 first, and the first then deletes the cursor above a block
that stays canonical (section 6). With one change of branch it would not occur.
`MaxReorgDepth` is 2, so that the way back ends exactly at the depth the scan allows.
Deadlock is checked: an idle projector can always begin a round.

The violated `LedgerFollowsChain` (run `settlement_lost`): the journal of a settlement
event carries the event's id and no epoch. A block that leaves the chain and returns is
not booked again, though the task's status says so. `NoOrphanEffect` is the half of the
property that holds. The settlement runs set `PriorAccounts` so that refunds can be
projected at all (section 6).

### 3.5 Delivery

One package of one task. Each store method is an action, with the service's checks
(`...Request`) around it; ordering of versions, scopes, feedback and nonces is kept in
full, texts and hashes are model values. The contract appears as its nonce and its
release, and `OrphanNonce` and `OrphanRelease` are what a rewind does to the rows.
Deadlines are Booleans that come true at any moment.

| Property | Meaning |
|---|---|
| `VersionsInOrder` | versions are made one after another, with growing nonce and scope, and never repeat a content |
| `PaidVersionsFunded` | a version beyond the included ones has a consumed order whose escrow holds the price or has paid it |
| `EscrowConserved` | an order's escrow is paid out at most once at a time and to the last unit |
| `ConfirmedIsPaid` | a confirmed acceptance is of the version and the event the chain paid |

Run `delivery`: two included versions and an ordered one, three contents, two feedback
items one of which is out of scope, two transactions, a price of one unit, two
reorganisations, two nonces. Contents and transactions are symmetric. Deadlock is not
checked: a settled package stops.

### 3.6 Workflow over Overview over Funds

`Funds` is the overview pool with its allocations, `Overview` adds batches, slots and
the agents' work, `Workflow` the matching operations and the task's status. A call that
consists of several transactions is a place in `op` or a mark on the slot, and a crash
drops it; whatever the next call would find is what the rows say.

| Property | Meaning |
|---|---|
| `ReservesCovered` | whatever is reserved is in the pool, unless a deposit was taken back |
| `OverviewSettles` | `BillingFollowsVerdict` (an agent is paid exactly for a valid deliverable that no other slot brought) and `CompletedIsSettled` (a completed batch has a verdict and a bill for every slot and no reservation left) |
| `OneRevisionPerInput` | one effective input has one revision: a repeated operation gets its own again, operations that saw the same share it, no number is used in between; overviews are only of revisions that stand for a draft, and a task waits for a selection only after a completed batch |

A snapshot is looked up by its effective input, as the store does: the hash covers the
instant of the evaluation and the rows it read, and not the operation, so two operations may
freeze the same `Input` and then get one revision. A crash makes a call forget the revision
it got (`Forgotten`); its repetition looks the frozen draft up again.

Run `pipeline`: two operations and two inputs (symmetric), three agents with a provider each, two slots and a
replacement, two contents one of which costs, two deposits of two units, one revision
overviewed (`MaxStarted`), one crash or failed sweep (`MaxFaults`).

### 3.7 Selection over Registry and TaskLifecycle

`Registry` is one agent with its leases, `TaskLifecycle` one task with its intent and the
deposit on the chain, `Selection` the reservations and the requests under way. The three
share `Clock`. `Reserve` reads, takes a lease and prepares in three transactions.

| Property | Meaning |
|---|---|
| `RegistryHolds` | `OffersKept` (the actions offered are those the store accepts) and `CapacityHeld` (a retired agent has no live lease; counter, leases and limit agree) |
| `PayoutIsAgents` | the payout address in a usable proof stays the agent's |
| `AssignmentBacked` | an assigned task has its deposit, exactly one confirmed reservation and no deletion; the transaction of the reservation is selected on the chain, unless it was taken back while a request held the answer "selected" |
| `RecordedDepositSurvives` | a task whose recorded deposit is or may come on the chain is deleted only with its refund |

`Rewind` is what the projector does to these rows when blocks leave the chain: selections
and failed transactions are pending again, a confirmed reservation whose selection went is
`orphaned` and its task `chain_reorg_pending`, and the deposit goes only with the selection
above it. It may happen before, between or after the chain's answer and Confirm. The
variable `overtaken` is a ghost: it remembers the transactions taken back while a request
held their selection as its answer, the one window `AssignmentBacked` leaves open
(section 6). The run reaches the cases in it: assigned with nothing selected, and assigned
while another reservation's transaction is selected.

Run `selection`: two leases and addresses, one request at a time, two rounds of matching,
two sends, three instants. `Staged` restricts the order of independent steps: the provider
registers before the task is published and changes the agent from the time of the deposit
until a selection is sent a second time or a request is overtaken; reorganisations take back
selections and deposits, but no selection that failed; one request is overtaken, of a task
that is then neither deleted nor refunded; and once the task has ended only the
refund and requests under way go on. The proofs have none of these restrictions.

### 3.8 Dispute

One case; every command of `Apply` is an action, guarded as the service and the store
guard it. Judges, sides and evidence categories are model values, the evidence root is the
set it stands for, and `roots` holds the ones callers have read: a decision compares with
a root read before its transaction. Time is counted in windows of 72 hours.

| Property | Meaning |
|---|---|
| `AwardsHold` | `FinalIsDue` (an award is final only by settlement, by review, or when no review can be asked for any more) and `JudgesAreSeparate` (nobody reviews what he decided, and there is one review) |
| `NothingUnfrozen` | without a canonical freeze no evidence is taken and no case ends |

Run `dispute`: two judges, one category, one award on the tier and one off it, three freeze
events of two transactions, four windows of time, at most two decisions. Judges, sides
and the two blocks of one transaction are symmetric.

### 3.9 Matching

Lists are sorted by total orders before they are cut, so a list is the set of its members
and a cut keeps the members few others precede. The gates of the filter that compare names
are one Boolean. Scores are computed as in the code, with integer division. A draw is any
number below the total weight.

| Property | Meaning |
|---|---|
| `QualifiedIsFair` | an agent within the gap of everyone who meets the floors is never kept out |
| `SnapshotsHold` | `DraftsAreSealable` (no validation between draft and seal refuses what was frozen), `PanelIsFull` (as many agents as providers allow, none twice) and `ExposureExact` (an agent's exposure is the number of snapshots that show it) |

Run `matching`: four agents of three providers, one of them the publisher's own in some
states, scores on both sides of the floors, two answers of the model that ask for
more than it may change, a vector search that is down or reports out of range, two operations. Only the
rows of agent 1 change meanwhile (`Changing`); the instant moves once.

### 3.10 Access over Sessions and Credentials

`Sessions` is `E/auth`: challenges, rate buckets, sessions, and the requests that passed
the checks of `Verify` and have not consumed their challenge yet. `Credentials` is
`E/credential` with `RuntimeCredentialProvider`: the versions in the database and, for each
process, the bundles in memory and the rotation that holds its mutex. `Access` joins them
through the handler that rotates a credential: it reads the session once and goes on with
its user. A challenge is its nonce, a bundle its bearer token; formatting, signatures and
encryption are left out.

| Property | Meaning |
|---|---|
| `LoginsHold` | a challenge brings at most one session, its wallet's; a wallet has one open challenge; no minute exceeds the limits of a wallet or a shard |
| `CredentialsHold` | in every process a token stands for one agent and was configured or stored for it first; rotations of an agent follow one another, each key once |

Run `access`: two wallets of one shard, three challenges, two logins at once, two challenges
a minute for a wallet and for the shard, minutes of two instants; two agents of one owner
with three rotations between them, two tokens one of which is configured, two keys, two
processes that crash and restart at any time. Logins and rotations touch different rows, so
`Staged` lets credentials change only after a first login and before any other; logout
stays possible throughout. Challenges, requests, keys and processes are symmetric. Deadlock
is not checked: when challenges, versions and time are used up nothing is left to do.

## 4. What is proved

Proofs are in modules of their own, some of which hold two components: `SelectionProofs` those
of `Selection` and `Matching`, `WorkflowProofs` those of `Workflow` and `Dispute`,
`ChainProjectionProofs` also that of `Reconciliation`. A theorem holds for every value of
the constants that satisfies the named assumptions of the component's module (types, the
positivity of limits, and the finiteness of the sets that are counted), hence for any number
of callers, rows, messages, blocks or reorganisations. Every invariant named below was
first checked by TLC on the run of its module and then proved inductive action by action.
The order of steps that `Staged` imposes on two runs (3.7, 3.10) is no part of the
specifications: the theorems hold for every order.

| Module | Theorem | Statement |
|---|---|---|
| `TaskEscrowProofs` | `TypeCorrect` | `Spec => []TypeOK` |
| | `Conservation` | `Spec => []TaskConservation` |
| | `YieldExact` | `Spec => []YieldTracksPrincipal` |
| | `AlwaysSolvent` | `Spec => []Solvency` |
| | `IdsServeOnce` | `Spec => []OneTimeIds` |
| | `DisputeTerms` | `Spec => DisputeTermsHold` (action property) |
| | `EscrowRefinesPosition` | `Spec => PositionsHold` (refinement) |
| `ExecutionProofs` | `TablesAlwaysAgree` | `Spec => []TablesAgree` |
| | `ExactlyOneResult` | `Spec => []OneResult` |
| | `CancelAlwaysPrevails` | `Spec => CancelPrevails` |
| | `ExecutionRefinesPromise` | `Spec => PromiseKept` (refinement) |
| `OutboxProofs` | `NothingIsLost` | `Spec => []MessagesAccounted` |
| | `OnlyHolderSettles` | `Spec => SettledByHolder` (action property) |
| `ChainProjectionProofs` | `IndexStaysChain` | `Spec => []IndexIsChain` |
| | `ChainIsFollowed` | `Spec => []FollowsChain` |
| | `WorkIsFunded` | `Spec => []NoWorkUnfunded` |
| | `NoEffectIsOrphan` | `Spec => []NoOrphanEffect` |
| | `LedgerStaysCovered` | `Spec => []LedgerCovered` |
| | `IndexKeepsPromise` | `Spec => IndexHolds` (refinement) |
| | `DivergenceIsSeen` | `Spec => []DivergenceSeen` |
| `DeliveryProofs` | `VersionsStayInOrder` | `Spec => []VersionsInOrder` |
| | `PaidVersionsStayFunded` | `Spec => []PaidVersionsFunded` |
| | `EscrowStaysConserved` | `Spec => []EscrowConserved` |
| | `ConfirmedStaysPaid` | `Spec => []ConfirmedIsPaid` |
| `SelectionProofs` | `RegistryAlwaysHolds` | `Spec => []RegistryHolds` |
| | `PayoutStaysAgents` | `Spec => []PayoutIsAgents` |
| | `AssignmentAlwaysBacked` | `Spec => []AssignmentBacked` |
| | `RecordedDepositsSurvive` | `Spec => RecordedDepositSurvives` (action property) |
| | `QualificationIsFair` | `MatchingSpec => []QualifiedIsFair` |
| | `SnapshotsAlwaysHold` | `MatchingSpec => []SnapshotsHold` |
| `WorkflowProofs` | `PipelineTypeOK` | `WorkflowSpec => []WorkflowTypeOK` |
| | `PromisesCovered` | `WorkflowSpec => []ReservesCovered` |
| | `OverviewAlwaysSettles` | `WorkflowSpec => []OverviewSettles` |
| | `RevisionsAreOne` | `WorkflowSpec => []OneRevisionPerInput` |
| | `AwardsAlwaysHold` | `Spec => []AwardsHold` |
| | `NothingHappensUnfrozen` | `Spec => NothingUnfrozen` (action property) |
| `AccessProofs` | `LoginsAlwaysHold` | `Spec => []LoginsHold` |
| | `CredentialsAlwaysHold` | `Spec => []CredentialsHold` |

### 4.1 TaskEscrow

Assumed: `ConstantTypes` (the functions on tasks and the proofs are well typed, the zero
address is no account and the zero id no id, the roles are accounts).

`TaskConservation` alone is not inductive: that a refund returns what is left, or
that a payment takes no more than what is there, depends on how amount, status and
assignment of the task fit together. The inductive invariant is
`TypeOK /\ PositionsWellFormed /\ TaskConservation /\ YieldTracksPrincipal`:
`PositionsWellFormed` ties a task's status to its books, its deposit and its
assignment, without which neither typing (a claim needs an assigned agent) nor
conservation is preserved, and `YieldTracksPrincipal` gives what
`_endYieldEligibility` takes off. Each action changes one task, so the step is proved for
the books of a single task and carried over to the others by a frame lemma. The refinement
and the dispute terms then follow from the invariant action by action.

`Solvency` is about sums over all tasks and accounts. `SumOver` is written as the number of
units, a unit being a pair of an index and a number up to its amount; adding to one entry
adds that many units, which the library's facts about cardinality give without an induction
over the index set. `MoneyInv` adds to the books that the sets of units are finite and that
`nonReentrant` does what it is for (`CallShape`): the lock is free exactly when no transfer is
pending, and no call leaves more than two. Without it a second call could start on a balance
the first has yet to pay from.

### 4.2 Execution

Assumed: the bounds are naturals, executions are finitely many. `TablesAgree` is not
inductive because a fence is decided when the lease is reserved and appears on the attempt
only when it is activated, possibly by another caller and after the lease expired.
`LeasesInOrder` is the missing link: tokens were handed out in the order of the attempts, to
attempts that exist. The capacity counter is compared with the number of unreleased leases
through the facts on finite sets. `ReportsInv` says for every attempt which reports ended it, which
gives `OneResult`; with `TablesInv` it maps every transaction of a caller to a step of
`LogicalExecution` or to none. `CancelPrevails` follows action by action: every write that
ends, starts or bills an attempt sets a status with it, and the trigger takes no status but
`cancelled` from work whose cancel is asked for.

### 4.3 Outbox

Assumed: the bounds are naturals, messages are finitely many. `NoMessageLost` is not inductive: the queue's deduplication may
absorb a send, so that a row becomes published without a new copy. `SentAccounted` speaks of
everything the broker ever accepted instead, and of the answer a worker holds; `Positions` says
what has happened to the message a consumer holds. `LockIsLatestClaim` is its own inductive
part, and from it follows that a worker that outlived its lease settles nothing.

### 4.4 ChainProjection

Assumed: `TreeTypes` (a tree of blocks with heights), `ContentTypes`, `FundingAlone`,
`OneOutcome` and, for the comparison only, `ContractOrder` (3.4). Nothing is assumed of the number or order of blocks, the depth of
reorganisations or what a projector read before.

*The index.* `IndexIsChain` needs two strengthenings: a nonempty index contains StartBlock
(otherwise a projector that finds no cursor could build a second chain beside an
orphaned remainder; the primary key of `chain_canonical_blocks` is what forbids it),
and what a projector carries is a block of the tree and a number. The argument has two
lemmas: ApplyBlock keeps the chain because it compares parent and cursor under the
lock, and Rewind keeps it for every ancestor, however stale. The second is why a stale
Rewind may lose the cursor (section 6) and yet never corrupts the index.

*The rows.* `ChainInv` adds `RowsInv`, three predicates of the rows and the canonical blocks:
`Supported` (a counted deposit is in a canonical block of the confirmed intent's transaction, a
failure that is recorded has its canonical block among the evidence, a task at work has its
deposit), `Counted` (every canonical deposit of a known attempt is counted, unless its
submission has yet to reconcile it) and `Covered` (what is booked comes from canonical blocks
and does not overdraw the accounts). `LedgerCovered` is not inductive: if a rewind takes back
the release and leaves the withdrawal, the receivable is overdrawn. `Covered` therefore
asks at *every* height that the withdrawals up to it are no more than the releases up to it:
then any rewind leaves a covered ledger, also one to an ancestor that was found before the
lock. A withdrawal keeps it because its block is the highest. The rows of evidence are needed
because an attempt may fail in one block, be replaced, and lose that block later.

*Blocks with several events.* `ProjectEvents` applies the events in order and stops at the
first error. `EventsKeep` carries a predicate through them; the predicate is the membership in
a set of databases, so that the induction (`CountUp`) is over a set of numbers and needs no
operator as parameter.

The refinement of `CanonicalIndex` is read off the same lemmas: ApplyBlock puts its block onto
the tip, Rewind takes blocks from the tip down, and the counted deposit changes only with
them or by reconciliation with a canonical block.

*The comparison.* A journal is lost when its block leaves the chain and returns (3.4): it is
in the table, reversed, and is not booked again. `DivergenceSeen` says that the comparison
never overlooks this. For a task without active assignment the assignment's keys tell; with
one, the escrow balance must: a canonical payment whose journal is reversed leaves the
deposit in escrow, where the contract holds nothing. That there is a deposit then is not in
`ChainInv`. `Booked` adds it: every release ever journalled, also a reversed one, is
`Anchored` in a deposit on its own branch whose attempt is known and which is counted
whenever its block is canonical; every canonical payment has its journal, reversed or not;
every journal is of an event of its block; and where a payment was booked the receivable is
an account, so that its balance is compared and a missing withdrawal shows there. ApplyBlock
gives a new release its anchor because an escrow that can pay has a counted deposit, and that
is in the chain below the block: `Branch` is a recursive function, whose solution
`BranchUnfolds` builds as the intersection of the closed sets around a block, and
`BranchOnChain` finds it equal to the canonical chain up to the block's height. Rewind keeps
anchors because they say nothing of blocks that are not canonical.

### 4.5 Delivery

Assumed: `DeliveryTypes`. `DeliveryInv` has one conjunct per concern. `VersionsInv`: the nonce of a version is its number
and all but the newest are in review, whatever the nonce on the chain is meanwhile.
`OrdersInv`: an order is frozen when it is activated, with its price inside, and is
consumed by the one version it was activated for. `EscrowInv`: a settlement that was not reversed
is the only one of its order and holds all its money, so a reversal restores exactly that.
`ReleaseInv`: the contract paid a version in review at the nonce it still has; without it
nothing ties the event that `ReconcileAcceptance` reads to the version it confirms.

### 4.6 Selection, Registry, TaskLifecycle

Assumed: leases are finitely many, bounds are naturals. A request remembers what it read
several transactions ago, so `SelectionInv` says what a remembered value still implies: the
lease of a request is taken, an answer that the chain had selected still is the chain's answer
or was overtaken (`Answers`), a
reservation that may yet be paid belongs to an agent whose addresses are frozen because it was
activated. One open or confirmed reservation at a time is a conjunct of its own, since
`AssignmentBacked` follows only for the confirmed one. A reorganisation keeps the invariant
(`RewindStep`) because it records in `overtaken` every answer it makes stale, orphans the
confirmed reservation it takes the selection from, and cannot take the deposit away under a
selection: an assigned task with an overtaken answer has its deposit still, or Confirm would
have found the task no longer selectable. The theorems are about the whole
specification, with the agent's and the task's own operations interleaved.

### 4.7 Workflow, Overview, Funds

Assumed: `FundsTypes`, `OverviewTypes`, `WorkflowTypes`. They bound nothing: operations,
revisions, agents, deposits, crashes and sweeps may be any number. Of the snapshot they say
what `Matching` guarantees at the provider cap of 1 that production uses: the agents
shown are of different providers.

`ReservesCovered` compares a balance with a number of rows; `PoolInv` adds that the rows with a
reservation are finitely many, since a step adds at most one or takes some away.
`BillingFollowsVerdict` is not inductive, because verdict, payment and record of the
payment are transactions of callers that may stop between any two. `RowsFit` ties the four
rows of a cell together (allocation, slot, the slot's batch, execution): money moves only
after the verdict, the record follows the money, and only an obsolete batch has obsolete
slots. `Apart` compares two slots of a batch. `CompletedIsSettled` needs most: a reservation
is made in one transaction and its slot in a later one, so `Planning` says what a
reservation without a slot is for. It is of a selection of a batch that is not there yet, or
of the one replacement that is due, whose candidate the rows determine; and a batch is
completed only when neither is left. The replacement is `Least` of a set of indices, hence a small lemma on least
elements. Most steps let slots, batches and reservations live on (`SlotsLive`,
`BatchesLive`, `AllocsKept`), and one lemma per part of the invariant covers all of those.

`OneRevisionPerInput` rests on two parts. `SealedInOrder`: snapshots are sealed in the order of
their numbers, no two for one input, and each for an input that some operation froze.
`DraftFits`: the revision an operation holds is its input's, forgotten by a crash and found
again, since a frozen input never changes. That a task waits for a selection only after a
completed batch needs that batches are made of started revisions alone.

### 4.8 Matching

Assumed: `MatchingLimits` (the floor, the gap and the largest model delta fit together, as the
constants 60, 10 and 5 of the code do), `MatchingTypes` and `ProfileTypes` (agents are numbered in
the order of their ids, scores are integers, a model's answer is any function to the integers).

*Lists.* A list is a set with a strict total order, and a cut keeps the members with fewer
than `k` before them. That such a set has at most `k` members (`CutIsBounded`) follows because
the number of members before is an injection into `0..k-1`. `DraftFits` says what a frozen
draft is; the key to it and to `QualifiedIsFair` is that the model may lift a candidate
below the floor of rule scores by no more than the clamp allows, so it cannot push the gap past
one who meets the floor.

*The draw.* `Drawn` and the running sum of `WeightedDraw` are recursive functions over
numbers and sequences. That such a function exists and obeys its equation is proved from the
least element of a set of numbers (`RecursionExists`), not from an induction theorem
with an operator for parameter. `DrawIsMember`: for any number below the total weight the draw
returns an eligible agent. `Held` and `Filled` go through the draws: no agent twice, no
provider beyond its share, and as many as there are draws or places. `PanelCounts` maps the
chosen agents one to one to places of their providers, for every `ProviderCap`, which gives the
exact length of a panel.

*Snapshots.* `MatchingInv` holds for each sealed snapshot that it is a panel of the draft of
its operation, which remembers the providers as they were (`Remembers`), and for
`ExposureExact` that a seal adds one snapshot and one exposure to each agent shown.

### 4.9 Dispute

Assumed: `DisputeTypes`. `FinalIsDue` is not inductive, because an award becomes final
without its evidence being looked at again; a decided case has to promise it (`Whole`). That
there is one review and that its author is another than the first decision's follows from who
is assigned to each stage and never replaced (`Judged`).

### 4.10 Access, Sessions, Credentials

Assumed: challenges are finitely many, the name of the shard's bucket is no wallet.
`LoginsHold` counts the challenges of a minute over all time, a bucket only those of its own
minute: `BucketHolds` says that the bucket counts no less than were issued in its minute
and that none it should count came later. A session stands for a consumed challenge, and no
two for one. `CredentialsInv` says of each process that every token in its memory was configured or
stored for its agent, and that a rotation between store and memory has stored its token, so
that a crash there is harmless.

## 5. What is only model-checked

* Liveness (`EventuallySettled`) and `ExitsOpen`, which is
  about ENABLED: out of the prover's reach.
* `Converges`, whose rounds are a recursion over the tree of blocks.
* `LedgerFollowsChain` does not hold (3.4); `NoEffectIsOrphan` is the half of it that does.

## 6. Known deviations

One is a run: `settlement_lost` (3.4). The others were met while modelling and are part
of the models' behaviour; the properties are stated so that they hold beside them.

* `E/execution/service.go:70`: a transient error of `ActivateAttempt` releases the lease;
  the retry gets the released lease back, so live attempts can exceed `max_concurrency`.
* `E/execution/postgres/store.go:111`: a prepared attempt whose lease expired is replayed
  for ever; cancelling one commits `cancel_requested` and then fails to build its envelope.
* `E/execution/service.go:58`: nobody dispatches again an active attempt whose lease ran out
  after its command was consumed, and nobody repeats a cancel the agent did not accept
  (`E/overview/service.go:165`, `:186`): the work stays `running` or `cancel_requested`.
* `E/chain/postgres/store.go:368`: Rewind trusts an ancestor found before the lock; after a
  deeper rewind by another process it deletes the cursor while blocks stay canonical, and
  no block can be applied any more.
* `E/chain/postgres/settlement.go:190`: a refund inserts the control account under another
  reference than the deposit did; the insert fails and the projector stays before that
  block, unless a change order made the other row first.
* `E/chain/postgres/settlement.go:247`: the dispute fee pool's account class is not one the
  table allows.
* `E/chain/postgres/settlement.go:88`: a task deleted (`E/task/postgres/store.go:194`) between
  the broadcast and the registration of its deposit leaves a transaction whose block the
  projector refuses for ever; `ProjectDeposit` is then disabled for good.
* `E/chain/decoder.go:106`: the excess a selection returns is decoded and never booked, so
  the comparison reports every task selected below its budget.
* `E/selection/service.go:190`: Confirm acts on an answer of the chain and does not ask
  again: a reorganisation between `SelectionResult` and Confirm leaves the task assigned
  without its selection on the chain, or with another reservation's; nothing there orphans
  it, since Rewind had no confirmed reservation to find.
* `E/delivery/postgres/acceptance.go:123`, `store.go:760`: an orphaned acceptance whose own
  transaction is mined again, and a nonce advanced before its feedback is stored, have no
  way on.
* `E/overview/service.go:178`: reservations of a superseded batch stay when the sweep dies
  after marking it. `E/overview/service.go:290`: a slot that needs a replacement after the
  deadline stays open, since nobody calls `ExhaustReplacement`.
* `E/dispute/state.go:99`: a decision is accepted in any state, which reopens a final case.
* `E/worker/formal_execution.go:49`: a callback that ends the attempt before `RecordDispatch`
  turns the command into a dead letter although the work ran.
* `E/selection/service.go:99`: a repeated Reserve may get back a lease that has been released;
  nobody looks at it again.
* `E/credential/service.go:189`: the update of the memory follows a replay too, so a repeated
  old rotation puts its secret back; with the token free again, or free in another process,
  two agents can store the same one, and the next start fails in `RestoreProtocolBundles`.
* `E/outbox/worker.go:89`: the attempt limit is compared only when a handler returns an error.

## 7. What is not modelled

RPC transport, ABI decoding and generated bindings, signing and encryption (a signature is
whom it recovers to), HTTP routing, orchestration plans (immutable rows), read-only views, the web
application, BFF and orchestrator, and the agents themselves, which the models let answer
anything the protocol accepts. The projection of dispute allocations into the ledger and
deployments of several contracts are left out of the chain projection. In-memory stores
(`memory.go`) repeat the PostgreSQL stores for tests. Costs and amounts are unbounded
naturals: the contract uses checked arithmetic and the database `numeric`, so a
wrap-around is a revert, and the values of the runs are far from both limits.
