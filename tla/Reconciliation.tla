--------------------------- MODULE Reconciliation ---------------------------
(***************************************************************************)
(* The daily reconciliation of internal/chain: what the engine expects of  *)
(* the contract (ExpectedInventory), what the contract answers at the      *)
(* cursor's height (ObservedInventory), and the differences it reports.    *)
(*                                                                         *)
(* An inventory maps the keys of the one task and the one pair of agent     *)
(* addresses of ChainProjection to numbers; Blank is the empty string, also *)
(* the value of a key that is absent. Run reads while nobody writes: it is  *)
(* described as a function of the state.                                    *)
(***************************************************************************)
EXTENDS ChainProjection

\* The events of one task on one branch, as the contract can emit them: each at most
\* once; what is paid was selected before, what is withdrawn was paid, and only a task
\* without selection is refunded (selectAgent, release, withdrawEarnings, refund). The
\* contract lets an agent withdraw in parts; as everywhere here a withdrawal is whole.
ASSUME ContractOrder ==
    \A blocks \in SUBSET Block : IsChain(blocks) =>
        LET occurs(type) == \E b \in blocks : Has(b, type)
        IN  /\ \A type \in {"selected", "accrued", "withdrawn", "refunded"} :
                  \A b, c \in blocks : Has(b, type) /\ Has(c, type) => b = c
            /\ occurs("accrued") => occurs("selected")
            /\ occurs("withdrawn") => occurs("accrued")
            /\ ~(occurs("selected") /\ occurs("refunded"))

Blank == -1
TaskKeys == {"assignment", "task_amount", "task_status", "work_nonce",
             "ledger_formal_balance", "yield_principal", "reorg_quarantine"}

Count(blocks, type) == Cardinality({b \in blocks : Has(b, type)})

\* Views over the canonical events: chain_task_settlement_positions,
\* chain_agent_earnings_positions and chain_yield_positions.
SettlementPosition(blocks) ==
    IF Count(blocks, "accrued") > 0 THEN [task_status |-> 3, task_amount |-> 0]
    ELSE IF Count(blocks, "refunded") > 0 THEN [task_status |-> 4, task_amount |-> 0]
    ELSE <<>>
EarningsPosition(blocks) ==
    IF Count(blocks, "accrued") + Count(blocks, "withdrawn") = 0 THEN <<>>
    ELSE [claimable |-> Payable * (Count(blocks, "accrued") - Count(blocks, "withdrawn"))]
YieldPosition(blocks) ==
    IF Count(blocks, "selected") = 0 THEN <<>>
    ELSE [yield_principal |-> Payable * (Count(blocks, "selected") - Count(blocks, "accrued"))]

\* Fault: the balances of the ledger are not part of the inventory.
NoLedger == <<>>

\* The entries of f, and those of g under other keys.
f ++ g == [k \in DOMAIN f \cup DOMAIN g |-> IF k \in DOMAIN f THEN f[k] ELSE g[k]]

\* The ledger's balances are read through the active assignment only.
LedgerBalances ==
    IF db.assignment # "active" THEN <<>>
    ELSE [ledger_formal_balance |-> EscrowBalance(db)]
         ++ (IF "receivable" \in db.accounts THEN [ledger_claimable |-> ReceivableBalance(db)] ELSE <<>>)

\* Later queries overwrite what earlier ones put under the same key.
ExpectedInventory ==
    (IF db.reservation = "orphaned" THEN [reorg_quarantine |-> 1] ELSE <<>>)
    ++ YieldPosition(canonical) ++ EarningsPosition(canonical) ++ SettlementPosition(canonical)
    ++ LedgerBalances
    ++ (IF db.assignment = "active"
        THEN [assignment |-> 1, task_amount |-> Payable, task_status |-> 2, work_nonce |-> 1]
        ELSE IF Count(canonical, "selected") > 0
        THEN [k \in {"assignment", "task_amount", "task_status", "work_nonce"} |-> Blank]
        ELSE <<>>)

-----------------------------------------------------------------------------
\* The contract's tasks, assignments, workNonces, yieldEligiblePrincipal and
\* claimableEarnings after these blocks.
ContractStatus(blocks) ==
    IF Count(blocks, "accrued") > 0 THEN 3 ELSE IF Count(blocks, "refunded") > 0 THEN 4
    ELSE IF Count(blocks, "selected") > 0 THEN 2 ELSE Count(blocks, "created")
ContractAmount(blocks) ==
    IF ContractStatus(blocks) = 1 THEN Budget ELSE IF ContractStatus(blocks) = 2 THEN Payable ELSE 0
ContractState(blocks) ==
    [assignment |-> Count(blocks, "selected"), work_nonce |-> Count(blocks, "selected"),
     task_amount |-> ContractAmount(blocks), task_status |-> ContractStatus(blocks),
     ledger_formal_balance |-> ContractAmount(blocks),
     yield_principal |-> IF ContractStatus(blocks) = 2 THEN Payable ELSE 0,
     claimable |-> Payable * (Count(blocks, "accrued") - Count(blocks, "withdrawn")),
     ledger_claimable |-> Payable * (Count(blocks, "accrued") - Count(blocks, "withdrawn"))]

\* A task is asked for when some expected key names it; the other keys are
\* answered when they are expected.
ObservedInventory(blocks, expected) ==
    LET always == IF DOMAIN expected \cap TaskKeys = {} THEN {}
                  ELSE {"assignment", "task_amount", "task_status", "work_nonce"}
        asked == {"ledger_formal_balance", "yield_principal", "claimable", "ledger_claimable"}
    IN  [k \in always \cup (asked \cap DOMAIN expected) |-> ContractState(blocks)[k]]

Lookup(inventory, k) == IF k \in DOMAIN inventory THEN inventory[k] ELSE Blank

CompareInventory(expected, observed) ==
    {k \in DOMAIN expected \cup DOMAIN observed : Lookup(expected, k) # Lookup(observed, k)}

\* Reconciler.Run with the cursor on the node's branch.
Differences ==
    CompareInventory(ExpectedInventory, ObservedInventory(Branch[cursor], ExpectedInventory))

-----------------------------------------------------------------------------
Comparable == cursor # None /\ cursor \in Branch[head]

\* Reconciliation never says "matched" while a settlement of the canonical chain is
\* missing from the ledger, or one is booked without its event: AC-405 of
\* spec/4.escrow-ledger-settlement/requirements.md. The balances are compared only for
\* tasks with an active assignment; of the others a selected one is always reported,
\* because its assignment is expected to be gone, and a refunded one, because nothing is
\* expected of its assignment and its work nonce.
DivergenceSeen == Comparable /\ ~LedgerFollowsChain => Differences # {}
=============================================================================
