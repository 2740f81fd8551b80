------------------------ MODULE SettlementProjection ------------------------
(***************************************************************************)
(* services/engine/internal/chain/postgres: what a canonical block does to *)
(* the engine's rows about one task, and what taking the block back does.  *)
(* A database d is a record; every operator returns the database after the *)
(* statements it stands for, with d.ok = FALSE when one of them fails, in  *)
(* which case the transaction around it is rolled back.                    *)
(*                                                                         *)
(* Events of other contracts, of other tasks and with fields that do not   *)
(* match the intent have no effect here and are left out of EventsIn.      *)
(* Dispute events are not modelled.                                        *)
(***************************************************************************)
EXTENDS Integers, FiniteSets, Sequences, SequencesExt

CONSTANTS
    Block, Tx, None,
    FailedIn,   \* the funding transaction that reverted in a block, or None
    EventsIn,   \* a block's events of the task, in log order
    Budget,     \* formal_amount of the intent
    Payable     \* formal_payable of the assignment

AttemptState == {"absent", "submitted", "observed_failed", "canonical_confirmed",
                 "superseded", "canonical_orphaned"}
IntentStatus == {"absent", "prepared", "submitted", "confirmed", "failed", "orphaned"}
TaskStatus == {"pending_escrow", "escrowed", "funding_refund_pending", "awaiting_selection",
               "assigned", "settled", "refunded", "chain_reorg_pending"}
JournalType == {"release", "withdrawal", "refund"}

\* formal_escrow, formal_agent_receivable, and funding_control under the
\* reference the funding path gives it (the asset) and the other paths give it.
Account == {"formal", "receivable", "control_asset", "control_funding"}

Event == [type : {"created"}, tx : Tx]
         \cup [type : {"selected", "accrued", "withdrawn", "refunded"}, tx : {None}]

ASSUME ContentTypes ==
    /\ None \notin Block \cup Tx
    /\ FailedIn \in [Block -> Tx \cup {None}]
    /\ \A b \in Block : EventsIn[b] \in Seq(Event)
    /\ Budget \in Nat \ {0} /\ Payable \in 0..Budget

\* reverseSettlementBlock orders journals by their hash: a block that both funds
\* and settles the task would be taken back in either order.
ASSUME FundingAlone ==
    \A b \in Block : (\E e \in ToSet(EventsIn[b]) : e.type = "created") => Len(EventsIn[b]) = 1

Has(b, type) == \E e \in ToSet(EventsIn[b]) : e.type = type
Creates(b, tx) == [type |-> "created", tx |-> tx] \in ToSet(EventsIn[b])

Database == [
    attempt : [Tx -> AttemptState],          \* task_funding_attempts
    evidence : SUBSET (Tx \X Block),         \* observed_failed rows of task_funding_attempt_states
    intent : IntentStatus,                   \* task_funding_intents
    intentTx : Tx \cup {None},
    live : Block \cup {None},                \* the canonicalization that is not orphaned
    accounts : SUBSET Account,               \* fund_accounts
    journals : SUBSET (JournalType \X Block),  \* fund_journals, by type and source event
    reversed : SUBSET (JournalType \X Block),  \* those with a reversal
    task : TaskStatus,
    assignment : {"none", "active", "orphaned"},
    reservation : {"none", "reserved", "confirmed", "orphaned"},
    ok : BOOLEAN]

Fails(d) == [d EXCEPT !.ok = FALSE]
Posted(d, type) == {j[2] : j \in {k \in d.journals \ d.reversed : k[1] = type}}

EscrowBalance(d) ==
    (IF d.live = None THEN 0 ELSE Budget)
    - Payable * Cardinality(Posted(d, "release"))
    - Budget * Cardinality(Posted(d, "refund"))
ReceivableBalance(d) ==
    Payable * (Cardinality(Posted(d, "release")) - Cardinality(Posted(d, "withdrawal")))

-----------------------------------------------------------------------------
(* A block becomes canonical. *)

\* Fault: an attempt's failure fails the intent whatever its other attempts do.
AnotherLiveIgnored(d, tx) == FALSE

AnotherLive(d, tx) == \E t \in Tx \ {tx} : d.attempt[t] \in {"submitted", "canonical_confirmed"}

ProjectFundingTransaction(d, b, tx) ==
    IF d.attempt[tx] \in {"absent", "canonical_confirmed", "observed_failed"} THEN d
    ELSE [d EXCEPT !.attempt[tx] = "observed_failed",
                   !.evidence = @ \cup {<<tx, b>>},
                   !.intent = IF @ = "confirmed" \/ AnotherLive(d, tx) THEN @ ELSE "failed"]

Replaceable == {"submitted", "observed_failed", "canonical_orphaned"}
Fundable == {"pending_escrow", "escrowed", "funding_refund_pending", "chain_reorg_pending"}

FundedStatus(d, late) ==
    IF d.task = "chain_reorg_pending" THEN d.task
    ELSE IF late THEN "funding_refund_pending" ELSE "escrowed"

\* TaskCreated: kept as evidence until its attempt is known; counted once.
\* A canonicalization epoch makes the journal new each time the block returns.
Fund(d, b, tx, late) ==
    IF d.attempt[tx] = "absent" \/ d.live = b THEN d
    ELSE IF d.live # None \/ d.task \notin Fundable THEN Fails(d)
    ELSE [d EXCEPT !.attempt = [t \in Tx |-> IF t = tx THEN "canonical_confirmed"
                                             ELSE IF @[t] \in Replaceable THEN "superseded" ELSE @[t]],
                   !.intent = "confirmed",
                   !.intentTx = tx,
                   !.live = b,
                   !.accounts = @ \cup {"formal", "control_asset"},
                   !.task = FundedStatus(d, late)]

\* A journal's id is its event's id: the second insert is skipped.  Business
\* accounts must not go below zero, system accounts may.
InsertJournal(d, type, b, amount) ==
    IF amount = 0 \/ <<type, b>> \in d.journals THEN d
    ELSE [d EXCEPT !.journals = @ \cup {<<type, b>>},
                   !.ok = @ /\ (type = "withdrawal" \/ EscrowBalance(d) >= amount)]

\* INSERT of (controlID, 'funding', asset): the row that the funding path made
\* has the same account_id under another reference, which no ON CONFLICT covers.
EnsureControl(d) ==
    IF "control_funding" \in d.accounts THEN d
    ELSE IF "control_asset" \in d.accounts THEN Fails(d)
    ELSE [d EXCEPT !.accounts = @ \cup {"control_funding"}]

EarningsAccrued(d, b) ==
    IF d.assignment # "active" \/ "formal" \notin d.accounts THEN Fails(d)
    ELSE [InsertJournal(d, "release", b, Payable) EXCEPT
             !.accounts = IF Payable = 0 THEN @ ELSE @ \cup {"receivable"},
             !.task = "settled"]

EarningsWithdrawn(d, b) ==
    IF d.reservation = "none" \/ ~({"formal", "receivable"} \subseteq d.accounts)
       \/ ReceivableBalance(d) < Payable
    THEN Fails(d)
    ELSE IF Payable = 0 THEN d
    ELSE InsertJournal(EnsureControl(d), "withdrawal", b, Payable)

FundsRefunded(d, b) ==
    IF "formal" \notin d.accounts THEN Fails(d)
    ELSE [InsertJournal(EnsureControl(d), "refund", b, Budget) EXCEPT !.task = "refunded"]

ProjectSettlementEvent(d, b, e, late) ==
    CASE e.type = "created"   -> Fund(d, b, e.tx, late)
      [] e.type = "accrued"   -> EarningsAccrued(d, b)
      [] e.type = "withdrawn" -> EarningsWithdrawn(d, b)
      [] e.type = "refunded"  -> FundsRefunded(d, b)
      [] OTHER                -> d

\* The events in log order; the first error ends the block.
ProjectEvents(d, b, late) ==
    LET after[n \in 0..Len(EventsIn[b])] ==
            IF n = 0 THEN d
            ELSE IF after[n - 1].ok
                 THEN ProjectSettlementEvent(after[n - 1], b, EventsIn[b][n], late)
                 ELSE after[n - 1]
    IN  after[Len(EventsIn[b])]

\* A block's failed transaction comes before its events.
ProjectBlock(d, b, late) ==
    ProjectEvents(IF FailedIn[b] = None THEN d ELSE ProjectFundingTransaction(d, b, FailedIn[b]),
                  b, late)

-----------------------------------------------------------------------------
(* Blocks are taken back: all those above the common ancestor, newest first. *)
(* Each touches rows of its own but for the task's status, on which funding,  *)
(* the oldest of the task's events, has the last word: so the loop over the   *)
(* blocks is written as one change for the set of them.                       *)

OrphanFailedFundingTransactions(d, blocks) ==
    LET orphaned == {tx \in Tx : /\ d.attempt[tx] = "observed_failed"
                                 /\ \E b \in blocks : <<tx, b>> \in d.evidence}
    IN [d EXCEPT !.attempt = [t \in Tx |-> IF t \in orphaned THEN "canonical_orphaned" ELSE @[t]],
                 !.intent = IF @ = "failed" /\ d.intentTx \in orphaned THEN "orphaned" ELSE @]

\* Fault: withdrawals are missing from the list of journals that are reversed.
ReverseJournalsOfTask(d, blocks) ==
    [d EXCEPT !.reversed = @ \cup {j \in d.journals : j[2] \in blocks /\ j[1] # "withdrawal"}]

\* Fault: refunds are missing from it.
ReverseJournalsButRefunds(d, blocks) ==
    [d EXCEPT !.reversed = @ \cup {j \in d.journals : j[2] \in blocks /\ j[1] # "refund"}]

ReverseJournals(d, blocks) ==
    LET undone == {j \in d.journals \ d.reversed : j[2] \in blocks}
    IN [d EXCEPT !.reversed = @ \cup undone,
                 !.task = IF \E j \in undone : j[1] \in {"release", "refund"}
                          THEN "chain_reorg_pending" ELSE @]

\* Rewind's own statements: the active assignment whose selection is taken back.
OrphanAssignment(d, blocks) ==
    IF d.assignment # "active" \/ ~\E b \in blocks : Has(b, "selected") THEN d
    ELSE [d EXCEPT !.assignment = "orphaned",
                   !.reservation = IF @ = "confirmed" THEN "orphaned" ELSE @,
                   !.task = "chain_reorg_pending"]

\* Fault: the canonicalization is not marked as orphaned.
ReverseFundingKeepsOccurrence(d, blocks) ==
    IF d.live \notin blocks THEN d
    ELSE [d EXCEPT !.attempt = [t \in Tx |-> IF Creates(d.live, t) THEN "canonical_orphaned" ELSE @[t]],
                   !.intent = "orphaned",
                   !.task = "pending_escrow"]

\* Fault: the task keeps its status.
ReverseFundingKeepsTask(d, blocks) ==
    IF d.live \notin blocks THEN d
    ELSE [d EXCEPT !.live = None,
                   !.attempt = [t \in Tx |-> IF Creates(d.live, t) THEN "canonical_orphaned" ELSE @[t]],
                   !.intent = IF @ = "confirmed" THEN "orphaned" ELSE @]

ReverseFunding(d, blocks) ==
    IF d.live \notin blocks THEN d
    ELSE [d EXCEPT !.live = None,
                   !.attempt = [t \in Tx |-> IF Creates(d.live, t) THEN "canonical_orphaned" ELSE @[t]],
                   !.intent = IF @ = "confirmed" THEN "orphaned" ELSE @,
                   !.task = IF @ \in {"pending_escrow", "escrowed", "funding_refund_pending"}
                            THEN "pending_escrow" ELSE "chain_reorg_pending",
                   !.ok = @ /\ EscrowBalance(d) >= Budget]

RetractBlocks(d, blocks) ==
    ReverseFunding(OrphanAssignment(ReverseJournals(
        OrphanFailedFundingTransactions(d, blocks), blocks), blocks), blocks)
=============================================================================
