--------------------------- MODULE ChainProjection ---------------------------
(***************************************************************************)
(* services/engine/internal/chain: projectors that follow a node whose     *)
(* chain may reorganise, and the services that read and write the same     *)
(* rows (taskfunding, selection, workflow).                                *)
(*                                                                         *)
(* Every API process runs SyncOnce on a timer.  ApplyBlock, Rewind and     *)
(* ReconcileFundingAttempt hold an advisory lock and are one step each;    *)
(* between them a projector carries what it read from database and node.   *)
(* A round that is abandoned has only read, so a process that dies in the  *)
(* middle of one behaves as if it had not begun it.                        *)
(***************************************************************************)
EXTENDS SettlementProjection

CONSTANTS
    Parent, Height, Root,   \* the blocks that may be mined; Root is StartBlock
    Projector,              \* processes running SyncOnce
    Confirmations,          \* Scope.Confirmations
    MaxReorgDepth,          \* Scope.MaxReorgDepth
    PriorAccounts,          \* funding_control rows that other tasks left
    MaxReorgs               \* bound: how often the node changes branch

ASSUME TreeTypes ==
    /\ Root \in Block /\ Height \in [Block -> Nat] /\ Height[Root] = 0
    /\ Parent \in [Block \ {Root} -> Block]
    /\ \A b \in Block \ {Root} : Height[b] = Height[Parent[b]] + 1
    /\ Confirmations \in Nat \ {0} /\ MaxReorgDepth \in Nat /\ MaxReorgs \in Nat
    /\ PriorAccounts \subseteq {"control_asset", "control_funding"}

\* One branch of the tree: from Root on, one block per height.
IsChain(blocks) ==
    /\ \A b \in blocks : b = Root \/ Parent[b] \in blocks
    /\ \A b, c \in blocks : Height[b] = Height[c] => b = c

\* A transaction is executed once on a branch: it reverts or it funds the task.
ASSUME OneOutcome ==
    \A blocks \in SUBSET Block : IsChain(blocks) =>
        \A b, c \in blocks : \A tx \in Tx :
            Creates(c, tx) => FailedIn[b] # tx /\ (Creates(b, tx) => b = c)

VARIABLES
    head, reorgs,   \* the node: its tip, and how often it changed branch
    canonical,      \* chain_canonical_blocks
    cursor,         \* chain_projection_cursors: a block or None
    db,             \* the task's rows
    late,           \* has the task's deadline passed?
    unreconciled,   \* submitted transactions whose reconciliation has not run
    verified,       \* does some caller hold a ChainConfirmed answer?
    sync            \* each projector's place in SyncOnce

nodeVars == <<head, reorgs>>
indexVars == <<canonical, cursor>>
callerVars == <<late, unreconciled, verified>>
vars == <<nodeVars, indexVars, db, callerVars, sync>>

Branch[b \in Block] == IF b = Root THEN {Root} ELSE Branch[Parent[b]] \cup {b}

Step == {"idle", "cursor", "fetch", "apply", "scan", "compare", "rewind"}

\* safe: safeHead; from: the cursor it read; block: the block it fetched or the
\* canonical row it read; height: commonAncestor's counter, then the ancestor.
Idle == [at |-> "idle", safe |-> 0, from |-> None, block |-> None, height |-> 0]

TypeOK ==
    /\ head \in Block /\ reorgs \in 0..MaxReorgs
    /\ canonical \subseteq Block /\ cursor \in Block \cup {None}
    /\ db \in Database /\ db.ok
    /\ late \in BOOLEAN /\ unreconciled \subseteq Tx /\ verified \in BOOLEAN
    /\ sync \in [Projector -> [at : Step, safe : Nat, from : Block \cup {None},
                               block : Block \cup {None}, height : Nat]]

Init ==
    /\ head = Root /\ reorgs = 0
    /\ canonical = {} /\ cursor = None
    /\ db = [attempt |-> [t \in Tx |-> "absent"], evidence |-> {}, intent |-> "absent",
             intentTx |-> None, live |-> None, accounts |-> PriorAccounts, journals |-> {},
             reversed |-> {}, task |-> "pending_escrow", assignment |-> "none",
             reservation |-> "none", ok |-> TRUE]
    /\ late = FALSE /\ unreconciled = {} /\ verified = FALSE
    /\ sync = [p \in Projector |-> Idle]

-----------------------------------------------------------------------------
(* The node. *)

\* Transactions are sent after the engine prepared the intent, and a selection
\* carries the proof of a reservation.
Mineable(b) ==
    \A c \in Branch[b] :
        /\ Has(c, "created") \/ FailedIn[c] # None => db.intent # "absent"
        /\ Has(c, "selected") => db.reservation # "none"

Mine(b) ==
    /\ b # Root /\ Parent[b] = head /\ Mineable(b)
    /\ head' = b
    /\ UNCHANGED <<reorgs, indexVars, db, callerVars, sync>>

Reorganise(b) ==
    /\ reorgs < MaxReorgs
    /\ Height[b] > Height[head] /\ head \notin Branch[b] /\ Mineable(b)
    /\ head' = b /\ reorgs' = reorgs + 1
    /\ UNCHANGED <<indexVars, db, callerVars, sync>>

\* eth_getBlockByNumber: the node's block of this number.
NodeBlock(h) == {b \in Block : b \in Branch[head] /\ Height[b] = h}

-----------------------------------------------------------------------------
(* taskfunding.Service *)

Prepare ==
    /\ db.intent = "absent" /\ db.task \in {"pending_escrow", "escrowed"} /\ ~late
    /\ db' = [db EXCEPT !.intent = "prepared"]
    /\ UNCHANGED <<nodeVars, indexVars, callerVars, sync>>

\* A new hash: the intent's current attempt is superseded.
Submit(tx) ==
    /\ db.attempt[tx] = "absent"
    /\ db.intent \in {"prepared", "orphaned", "failed", "submitted"}
    /\ db' = [db EXCEPT !.attempt = [t \in Tx |->
                            IF t = tx THEN "submitted"
                            ELSE IF t = db.intentTx /\ @[t] \in Replaceable THEN "superseded" ELSE @[t]],
                        !.intent = "submitted",
                        !.intentTx = tx]
    /\ unreconciled' = unreconciled \cup {tx}
    /\ UNCHANGED <<nodeVars, indexVars, late, verified, sync>>

\* What ReconcileFundingAttempt finds: a canonical failure, else a canonical deposit.
Reconciled(tx) ==
    LET failed == {b \in canonical : FailedIn[b] = tx}
        created == {b \in canonical : Creates(b, tx)}
    IN IF failed # {} THEN ProjectFundingTransaction(db, CHOOSE b \in failed : TRUE, tx)
       ELSE IF created # {} THEN Fund(db, CHOOSE b \in created : TRUE, tx, late)
       ELSE db

\* Follows Submit in a transaction of its own; submitting a known hash repeats it.
ReconcileFundingAttempt(tx) ==
    /\ db.attempt[tx] # "absent" /\ Reconciled(tx).ok
    /\ db' = Reconciled(tx)
    /\ unreconciled' = unreconciled \ {tx}
    /\ UNCHANGED <<nodeVars, indexVars, late, verified, sync>>

DeadlinePasses ==
    /\ ~late /\ late' = TRUE
    /\ UNCHANGED <<nodeVars, indexVars, db, unreconciled, verified, sync>>

-----------------------------------------------------------------------------
(* workflow and selection *)

\* escrowed -> matching -> overview_generating -> awaiting_selection, and back to
\* matching: the three are one status here, as nothing in this module but Reserve
\* and what follows it tells them apart.
AwaitSelection ==
    /\ db.task = "escrowed"
    /\ db' = [db EXCEPT !.task = "awaiting_selection"]
    /\ UNCHANGED <<nodeVars, indexVars, callerVars, sync>>

Reserve ==
    /\ db.task = "awaiting_selection" /\ db.intent = "confirmed" /\ db.reservation = "none"
    /\ db' = [db EXCEPT !.reservation = "reserved"]
    /\ UNCHANGED <<nodeVars, indexVars, callerVars, sync>>

SelectionResult == \E b \in canonical : Has(b, "selected")

\* Reconcile of the selection reads the canonical event in one query ...
VerifySelection ==
    /\ db.reservation = "reserved" /\ db.task = "awaiting_selection"
    /\ SelectionResult
    /\ verified' = TRUE
    /\ UNCHANGED <<nodeVars, indexVars, db, late, unreconciled, sync>>

\* ... and confirms in a later transaction.
Confirm ==
    /\ verified /\ db.reservation = "reserved" /\ db.task = "awaiting_selection"
    /\ db' = [db EXCEPT !.assignment = "active", !.reservation = "confirmed", !.task = "assigned"]
    /\ UNCHANGED <<nodeVars, indexVars, callerVars, sync>>

-----------------------------------------------------------------------------
(* SyncOnce *)

Goes(p, place) == sync' = [sync EXCEPT ![p] = place]
Loops(p) == Goes(p, [Idle EXCEPT !.at = "cursor", !.safe = sync[p].safe])

ReadHead(p) ==
    /\ sync[p].at = "idle" /\ Height[head] + 1 >= Confirmations
    /\ Goes(p, [Idle EXCEPT !.at = "cursor", !.safe = Height[head] - (Confirmations - 1)])
    /\ UNCHANGED <<nodeVars, indexVars, db, callerVars>>

NextHeight(from) == IF from = None THEN Height[Root] ELSE Height[from] + 1

ReadCursor(p) ==
    /\ sync[p].at = "cursor"
    /\ IF NextHeight(cursor) > sync[p].safe THEN Goes(p, Idle)
       ELSE Goes(p, [sync[p] EXCEPT !.at = "fetch", !.from = cursor])
    /\ UNCHANGED <<nodeVars, indexVars, db, callerVars>>

\* The block after the cursor either continues it or shows a reorganisation.
FetchBlock(p) ==
    /\ sync[p].at = "fetch"
    /\ \E b \in NodeBlock(NextHeight(sync[p].from)) :
          IF sync[p].from = None \/ Parent[b] = sync[p].from
          THEN Goes(p, [sync[p] EXCEPT !.at = "apply", !.from = None, !.block = b])
          ELSE Goes(p, [sync[p] EXCEPT !.at = "scan", !.height = Height[sync[p].from]])
    /\ UNCHANGED <<nodeVars, indexVars, db, callerVars>>

\* Fault: the block's number is checked and its parent hash is not.
ContinuesByHeight(b) == IF cursor = None THEN b = Root ELSE Height[b] = Height[cursor] + 1

\* The conditions ApplyBlock checks again under the lock.
Continues(b) ==
    /\ IF cursor = None THEN b = Root ELSE b # Root /\ Parent[b] = cursor
    /\ \A c \in canonical : Height[c] # Height[b]

Applied(b) == ProjectBlock(db, b, late)

ApplyBlock(p) ==
    /\ sync[p].at = "apply"
    /\ LET b == sync[p].block
       IN /\ Continues(b) /\ Applied(b).ok
          /\ canonical' = canonical \cup {b}
          /\ cursor' = b
          /\ db' = Applied(b)
    /\ Loops(p)
    /\ UNCHANGED <<nodeVars, callerVars>>

\* An error rolls the transaction back and ends the round.
ApplyRefused(p) ==
    /\ sync[p].at = "apply" /\ ~(Continues(sync[p].block) /\ Applied(sync[p].block).ok)
    /\ Goes(p, Idle)
    /\ UNCHANGED <<nodeVars, indexVars, db, callerVars>>

\* commonAncestor: the canonical hash at this height ...
ReadCanonical(p) ==
    /\ sync[p].at = "scan"
    /\ LET rows == {b \in canonical : Height[b] = sync[p].height}
       IN Goes(p, [sync[p] EXCEPT !.at = "compare",
                                  !.block = IF rows = {} THEN None ELSE CHOOSE b \in rows : TRUE])
    /\ UNCHANGED <<nodeVars, indexVars, db, callerVars>>

Lowest(from) == IF Height[from] > MaxReorgDepth THEN Height[from] - MaxReorgDepth ELSE 0

\* ... and the node's: equal, or one lower, or too deep, which ends the round.
CompareHash(p) ==
    /\ sync[p].at = "compare"
    /\ LET at == sync[p]
       IN Goes(p, IF at.block \in NodeBlock(at.height)
                  THEN [at EXCEPT !.at = "rewind", !.from = None, !.block = None]
                  ELSE IF at.height = Lowest(at.from) THEN Idle
                  ELSE [at EXCEPT !.at = "scan", !.height = @ - 1, !.block = None])
    /\ UNCHANGED <<nodeVars, indexVars, db, callerVars>>

\* The canonical rows above the ancestor, and the row at it.
Above(rows, ancestor) == {b \in rows : Height[b] > ancestor}

Rewound(ancestor) == RetractBlocks(db, Above(canonical, ancestor))

\* Fault: the cursor stays where it was.
CursorStays(rows, ancestor) == cursor

\* The cursor moves to the ancestor's row; where there is none it is deleted.
CursorAt(rows, ancestor) ==
    LET there == {b \in rows : Height[b] = ancestor}
    IN IF there = {} THEN None ELSE CHOOSE b \in there : TRUE

\* Nothing is checked again: neither the cursor nor the ancestor.
Rewind(p) ==
    /\ sync[p].at = "rewind"
    /\ LET ancestor == sync[p].height
       IN IF Rewound(ancestor).ok
          THEN /\ db' = Rewound(ancestor)
               /\ canonical' = canonical \ Above(canonical, ancestor)
               /\ cursor' = IF cursor = None THEN None ELSE CursorAt(canonical, ancestor)
               /\ Loops(p)
          ELSE Goes(p, Idle) /\ UNCHANGED <<indexVars, db>>
    /\ UNCHANGED <<nodeVars, callerVars>>

SyncOnce(p) ==
    \/ ReadHead(p) \/ ReadCursor(p) \/ FetchBlock(p) \/ ApplyBlock(p) \/ ApplyRefused(p)
    \/ ReadCanonical(p) \/ CompareHash(p) \/ Rewind(p)

Next ==
    \/ \E b \in Block : Mine(b) \/ Reorganise(b)
    \/ Prepare
    \/ \E tx \in Tx : Submit(tx) \/ ReconcileFundingAttempt(tx)
    \/ DeadlinePasses
    \/ AwaitSelection \/ Reserve \/ VerifySelection \/ Confirm
    \/ \E p \in Projector : SyncOnce(p)

Spec == Init /\ [][Next]_vars
-----------------------------------------------------------------------------
(* Correctness *)

\* chain_canonical_blocks is one chain from StartBlock on, whatever projectors
\* append and remove; the cursor, while there is one, is its tip (ApplyBlock, Rewind).
IndexIsChain ==
    /\ IsChain(canonical)
    /\ cursor # None => cursor \in canonical /\ \A c \in canonical : Height[c] <= Height[cursor]

\* The index and the deposit it counts behave as CanonicalIndex promises, for all
\* interleavings of projection, rewinding, submission and reconciliation.
Index == INSTANCE CanonicalIndex WITH
             index <- canonical,
             counted <- IF db.live = None THEN {} ELSE {db.live},
             Funds <- {b \in Block : Has(b, "created")}
IndexHolds == Index!IndexSpec

\* The deposit counted is exactly the canonical one whose attempt is known, whether the
\* block came before the submission or after it; intent and attempts say the same.
FundingFollowsChain ==
    \A b \in Block, tx \in Tx : Creates(b, tx) =>
        /\ db.live = b =>
             /\ b \in canonical /\ db.attempt[tx] = "canonical_confirmed"
             /\ db.intent = "confirmed" /\ db.intentTx = tx
        /\ b \in canonical /\ db.attempt[tx] # "absent" /\ tx \notin unreconciled => db.live = b
        /\ db.attempt[tx] = "canonical_confirmed" =>
             \E c \in canonical : db.live = c /\ Creates(c, tx)

\* An attempt counts as failed only while a canonical block holds its failure, and the
\* intent as failed only while nothing can still fund it (projectFundingTransaction,
\* orphanFailedFundingTransactions).
FailureFollowsChain ==
    /\ \A tx \in Tx : db.attempt[tx] = "observed_failed" => \E b \in canonical : FailedIn[b] = tx
    /\ db.intent = "failed" =>
         \A tx \in Tx : db.attempt[tx] \notin {"submitted", "canonical_confirmed"}

\* Intent, attempts and the deposit counted say of every transaction what the canonical
\* chain says of it, in whatever order blocks, submissions and changes of branch come.
FollowsChain == TypeOK /\ FundingFollowsChain /\ FailureFollowsChain

\* Nobody works on a task whose deposit is not on the canonical chain: taking the
\* deposit back stops the task wherever it stands (reverseSettlementBlock).
NoWorkUnfunded ==
    db.task \in {"escrowed", "awaiting_selection", "assigned"} => db.live # None

\* Each settlement event of the canonical chain that moves money is booked once, and none
\* else is: replays and reorganisations converge to the canonical state of the money.
Settles(type, b) ==
    \/ type = "release" /\ Has(b, "accrued") /\ Payable # 0
    \/ type = "withdrawal" /\ Has(b, "withdrawn") /\ Payable # 0
    \/ type = "refund" /\ Has(b, "refunded")
LedgerFollowsChain ==
    \A type \in JournalType : Posted(db, type) = {b \in canonical : Settles(type, b)}

\* No journal outlives its block: what a reorganisation removes is reversed.
NoOrphanEffect == \A type \in JournalType : Posted(db, type) \subseteq canonical

\* Nothing is paid out that was not paid in: neither the task's escrow nor the agent's
\* receivable, which no constraint protects, is ever overdrawn.
LedgerCovered == EscrowBalance(db) >= 0 /\ ReceivableBalance(db) >= 0

\* What the node holds up to the safe block.
SafeBranch == {b \in Branch[head] : Height[b] + Confirmations <= Height[head] + 1}

\* The rows one projector writes: s is a record of them.
Rows == [canonical |-> canonical, cursor |-> cursor, db |-> db]
Extended(s, b) ==
    [canonical |-> s.canonical \cup {b}, cursor |-> b, db |-> ProjectBlock(s.db, b, late)]
TakenBack(s, ancestor) ==
    [canonical |-> s.canonical \ Above(s.canonical, ancestor),
     cursor |-> CursorAt(s.canonical, ancestor),
     db |-> RetractBlocks(s.db, Above(s.canonical, ancestor))]
Written(s, t) == IF t.db.ok THEN t ELSE s

\* One turn of SyncOnce's loop on the rows s while nobody else writes and the node
\* stands still: its next block, or the rows down to the common ancestor.
Turn(s) ==
    LET next == {b \in SafeBranch : Height[b] = NextHeight(s.cursor)}
        new == CHOOSE b \in next : TRUE
        common == {h \in Lowest(s.cursor)..Height[s.cursor] :
                     \E b \in s.canonical : Height[b] = h /\ b \in NodeBlock(h)}
    IN IF next = {} THEN s
       ELSE IF s.cursor = None \/ Parent[new] = s.cursor THEN Written(s, Extended(s, new))
       ELSE IF common = {} THEN s
       ELSE Written(s, TakenBack(s, Max(common)))

\* The rows after a round of turns, enough for one rewind and every block.
LeftAlone ==
    LET after[n \in 0..(Cardinality(Block) + 1)] == IF n = 0 THEN Rows ELSE Turn(after[n - 1])
    IN  after[Cardinality(Block) + 1]

\* A stale Rewind found no row at its ancestor and deleted the cursor, while blocks
\* below it stay canonical: no block applies any more.
CursorLost == cursor = None /\ canonical # {}

\* However projectors, submissions and changes of branch have raced so far, one round that
\* is left alone brings the index to the node's safe block, and no row of the task stands
\* in the way; a lost cursor is the only state of no return.
Converges == CursorLost \/ LeftAlone.canonical = SafeBranch
=============================================================================
