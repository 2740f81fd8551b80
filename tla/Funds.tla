-------------------------------- MODULE Funds --------------------------------
(***************************************************************************)
(* services/engine/internal/funds: the discovery pool of one task, the     *)
(* reservations made on it for overviews and the journals that move its    *)
(* money.  Every operation is one transaction under advisory locks; a      *)
(* repeated request answers from the stored row and is a stuttering step.  *)
(* The pool account is open and every agent has the same quote.            *)
(***************************************************************************)
EXTENDS Integers, FiniteSets

CONSTANTS
    Cell,           \* a matching revision and an agent: at most one allocation each
    Price, CostCap, \* overview_price and external_cost_cap of a quote
    Deposit,        \* amount of one funding journal
    MaxFundings     \* bound: funding journals

ASSUME FundsTypes == Price \in Nat /\ CostCap \in Nat /\ Deposit \in Nat \ {0} /\ MaxFundings \in Nat

VARIABLES
    pool,       \* balance of the discovery pool
    funding,    \* funding journals: none, posted or reversed
    alloc       \* fund_allocations with their capture journals

fundsVars == <<pool, funding, alloc>>

NoAllocation == [status |-> "none", reason |-> "none", cost |-> 0, journal |-> "none"]

FundsTypeOK ==
    /\ pool \in Nat
    /\ funding \in [1..MaxFundings -> {"none", "posted", "reversed"}]
    /\ alloc \in [Cell -> [status : {"none", "authorized", "captured", "released"},
                           reason : {"none", "verdict", "obsolete"}, cost : 0..CostCap,
                           journal : {"none", "posted", "reversed"}]]

FundsInit ==
    /\ pool = 0
    /\ funding = [n \in 1..MaxFundings |-> "none"]
    /\ alloc = [c \in Cell |-> NoAllocation]

\* Fault: the costs an agent may cause are not reserved.
ReservePrice == Price

Reserve == Price + CostCap
Reserved == Reserve * Cardinality({c \in Cell : alloc[c].status = "authorized"})

RecordFunding(n) ==
    /\ funding[n] = "none"
    /\ funding' = [funding EXCEPT ![n] = "posted"]
    /\ pool' = pool + Deposit
    /\ UNCHANGED alloc

\* What is in the pool and not promised yet.
Enough == Reserve <= pool - Reserved

\* CompatibleAuthorizationReplay: an allocation that exists is the answer to the same request
\* again.  Only one of a slot that does not exist yet is asked for twice.
Reauthorized(c) == alloc[c].status = "authorized"

AuthorizeOverview(c) ==
    /\ alloc[c].status = "none" /\ Enough
    /\ alloc' = [alloc EXCEPT ![c].status = "authorized"]
    /\ UNCHANGED <<pool, funding>>

\* The price to the agent's receivable, the cost to clearing; a journal of nothing is not
\* posted.  The balance of a business account may not become negative.
CaptureOverview(c, cost) ==
    LET total == Price + cost
    IN /\ alloc[c].status = "authorized" /\ cost <= CostCap /\ total <= pool
       /\ alloc' = [alloc EXCEPT ![c].status = "captured", ![c].cost = cost,
                                 ![c].journal = IF total = 0 THEN "none" ELSE "posted"]
       /\ pool' = pool - total
       /\ UNCHANGED funding

ReleaseOverview(c, reason) ==
    /\ alloc[c].status = "authorized"
    /\ alloc' = [alloc EXCEPT ![c].status = "released", ![c].reason = reason]
    /\ UNCHANGED <<pool, funding>>

\* ReverseJournal, once per journal: the exact inverse; the allocation stays captured and
\* the reservations are not looked at.
ReverseFunding(n) ==
    /\ funding[n] = "posted" /\ Deposit <= pool
    /\ funding' = [funding EXCEPT ![n] = "reversed"]
    /\ pool' = pool - Deposit
    /\ UNCHANGED alloc

ReverseCapture(c) ==
    /\ alloc[c].journal = "posted"
    /\ alloc' = [alloc EXCEPT ![c].journal = "reversed"]
    /\ pool' = pool + Price + alloc[c].cost
    /\ UNCHANGED funding

FundsMaintenance ==
    \/ \E n \in 1..MaxFundings : RecordFunding(n) \/ ReverseFunding(n)
    \/ \E c \in Cell : ReverseCapture(c)

\* Whatever is promised to an agent is in the pool, unless a deposit was taken back from
\* under it (AuthorizeOverview against captures, releases and reversals).
ReservesCovered ==
    pool + Deposit * Cardinality({n \in 1..MaxFundings : funding[n] = "reversed"}) >= Reserved
=============================================================================
