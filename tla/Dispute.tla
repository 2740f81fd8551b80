------------------------------ MODULE Dispute ------------------------------
(***************************************************************************)
(* services/engine/internal/dispute: the case about one delivery.  Every   *)
(* command is one serializable transaction that reads the stored case,     *)
(* looks whether its freeze is still on the canonical chain, applies the   *)
(* command and stores the result; a repeated idempotency key is answered   *)
(* from the stored response.  Between commands time passes and the chain   *)
(* gains and loses freeze events.  Statements, object keys and signatures  *)
(* are left out, an item of evidence is its category and the root of the   *)
(* evidence is the set of items.                                           *)
(***************************************************************************)
EXTENDS Integers, Sequences, SequencesExt

CONSTANTS
    Side,           \* the publisher and the agent's provider
    Category,       \* requiredEvidence
    Arbiter,        \* users with the arbitrator role
    Event, TxOf,    \* dispute_frozen events with matching amounts; their transactions
    Bps, Tier,      \* what may be agreed on, and what may be awarded
    Window,         \* 72 hours, and 48 for the review
    Eligible,       \* the last instant a case may be opened
    None,
    MaxTime, MaxDecisions   \* bounds

ASSUME DisputeTypes ==
    /\ Tier \subseteq Bps /\ Window \in Nat \ {0} /\ MaxTime \in Nat /\ MaxDecisions \in Nat
    /\ None \notin Arbiter \cup Event /\ DOMAIN TxOf = Event

VARIABLES
    case,       \* dispute_case_projections
    now,
    canonical,  \* the freeze event on the canonical chain, or None
    conflicted, \* dispute_conflict_declarations
    paid,       \* dispute_review_fee_authorizations
    roots       \* roots the evidence has had: what a call under way may have read

vars == <<case, now, canonical, conflicted, paid, roots>>

Tx == Range(TxOf)
NoCase == [state |-> "none", tx |-> None, event |-> None, since |-> 0, claims |-> {}, evidence |-> {},
           assigned |-> [s \in {"initial", "review"} |-> None], decisions |-> <<>>, pending |-> TRUE]

Init ==
    /\ case = NoCase /\ now = 1 /\ canonical = None
    /\ conflicted = {} /\ paid = {} /\ roots = {{}}

\* Deadlines start anew with every confirmation of the freeze; before the first they are the
\* zero time.
EvidenceDeadline(c) == IF c.since = 0 THEN 0 ELSE c.since + Window
DecisionDeadline(c) == IF c.since = 0 THEN 0 ELSE c.since + 2 * Window
ReviewDeadline(c) == IF c.since = 0 THEN 0 ELSE c.since + 3 * Window

\* Fault: the stored case is taken at its word.
CanonicalizeNothing(c) == c

\* What every reader and every command makes of the stored case.
CanonicalizeFreeze(c) ==
    IF c.state \in {"none", "soft_lock_pending", "orphaned"} \/ c.event = canonical THEN c
    ELSE [c EXCEPT !.state = "orphaned", !.pending = TRUE]

View == CanonicalizeFreeze(case)

Store(c) == case' = c /\ UNCHANGED <<now, canonical, conflicted, paid>>
Decided(c, kind, by, root, bps) ==
    [c EXCEPT !.decisions = Append(@, [kind |-> kind, by |-> by, root |-> root, bps |-> bps])]
Finish(c) == [c EXCEPT !.state = "final", !.pending = FALSE]
\* Where decisions of a kind stand; decision returns the last one.
Made(c, kind) == {i \in DOMAIN c.decisions : c.decisions[i].kind = kind}

Open(side) ==
    /\ case.state = "none" /\ now <= Eligible
    /\ Store([NoCase EXCEPT !.state = "soft_lock_pending", !.claims = {side}])
    /\ UNCHANGED roots

AddClaim(side) ==
    /\ View.state \in {"soft_lock_pending", "frozen", "evidence", "orphaned"} /\ side \notin View.claims
    /\ Store([View EXCEPT !.claims = @ \cup {side}])
    /\ UNCHANGED roots

SubmitFreeze(tx) ==
    /\ View.state \in {"soft_lock_pending", "orphaned"}
    /\ Store([View EXCEPT !.tx = tx])
    /\ UNCHANGED roots

\* The event is looked up on the canonical chain in the same transaction.
ReconcileFreeze ==
    /\ View.state \in {"soft_lock_pending", "orphaned"}
    /\ canonical # None /\ View.tx = TxOf[canonical]
    /\ Store([View EXCEPT !.state = "frozen", !.event = canonical, !.since = now])
    /\ UNCHANGED roots

AppendEvidence(side, item) ==
    /\ View.state \in {"frozen", "evidence"} /\ now <= EvidenceDeadline(View)
    /\ side \in View.claims /\ item \notin View.evidence
    /\ Store([View EXCEPT !.state = "evidence", !.evidence = @ \cup {item}])
    /\ roots' = roots \cup {case'.evidence}

Assign(stage, a) ==
    /\ View.state # "none" /\ View.assigned[stage] = None /\ a \notin conflicted
    /\ Store([View EXCEPT !.assigned[stage] = a])
    /\ UNCHANGED roots

\* The root was compared with the evidence before the transaction.  No state is asked for.
Decide(a, root, bps) ==
    /\ View.assigned["initial"] = a /\ a \notin conflicted
    /\ EvidenceDeadline(View) <= now /\ now <= DecisionDeadline(View)
    /\ View.evidence = Category /\ bps \in Tier
    /\ Len(View.decisions) < MaxDecisions
    /\ Store([Decided(View, "initial", a, root, bps) EXCEPT !.state = "decided"])
    /\ UNCHANGED roots

\* Both parties have signed the root.
Settle(root, bps) ==
    /\ View.state \in {"frozen", "evidence", "decided"}
    /\ Len(View.decisions) < MaxDecisions
    /\ Store(Finish(Decided(View, "settlement", None, root, bps)))
    /\ UNCHANGED roots

IndependentReviewer(c, a) ==
    \E i \in Made(c, "initial") :
        c.decisions[i].by # a /\ \A j \in Made(c, "initial") : j <= i

Review(a, root, bps) ==
    /\ View.state = "decided" /\ now <= ReviewDeadline(View)
    /\ View.assigned["review"] = a /\ a \in paid \ conflicted /\ IndependentReviewer(View, a)
    /\ Made(View, "review") = {} /\ bps \in Tier
    /\ Len(View.decisions) < MaxDecisions
    /\ Store(Finish(Decided(View, "review", a, root, bps)))
    /\ UNCHANGED roots

\* Fault: the time for a decision is over, the one for a review is not.
FinalizeDueEarly(c) == DecisionDeadline(c) <= now

FinalizeDue(c) == ReviewDeadline(c) <= now

Finalize ==
    /\ View.state = "decided" /\ FinalizeDue(View)
    /\ Store(Finish(View))
    /\ UNCHANGED roots

\* Access to an item for a quarter of an hour; the case is stored as it was read.
GrantAccess ==
    /\ View.evidence # {} /\ View # case
    /\ Store(View)
    /\ UNCHANGED roots

-----------------------------------------------------------------------------
(* Surroundings: the identity and payment services, the clock and the chain, which holds at
   most one freeze of a task. *)

DeclareConflict(a) ==
    /\ case.state # "none" /\ a \notin conflicted
    /\ conflicted' = conflicted \cup {a}
    /\ UNCHANGED <<case, now, canonical, paid, roots>>

AuthorizeReviewFee(a) ==
    /\ case.state # "none" /\ a \notin paid
    /\ paid' = paid \cup {a}
    /\ UNCHANGED <<case, now, canonical, conflicted, roots>>

Tick ==
    /\ now < MaxTime /\ now' = now + 1
    /\ UNCHANGED <<case, canonical, conflicted, paid, roots>>

FreezeMined(e) ==
    /\ canonical = None /\ canonical' = e
    /\ UNCHANGED <<case, now, conflicted, paid, roots>>

FreezeReorganised ==
    /\ canonical # None /\ canonical' = None
    /\ UNCHANGED <<case, now, conflicted, paid, roots>>

\* Who may ask for what.  Judges are checked again inside the transaction.
PartyCommand(s) ==
    \/ Open(s) \/ AddClaim(s) \/ ReconcileFreeze
    \/ \E t \in Tx : SubmitFreeze(t)
    \/ \E i \in Category : AppendEvidence(s, i)

\* The caller's root is compared with a case read before the transaction.
RootedCommand(root, bps) ==
    \/ Settle(root, bps)
    \/ \E a \in Arbiter : Decide(a, root, bps) \/ Review(a, root, bps)

AssignAsAdmin == \E a \in Arbiter, s \in {"initial", "review"} : Assign(s, a)
AdminCommand == Finalize \/ AssignAsAdmin

Next ==
    \/ \E s \in Side : PartyCommand(s)
    \/ \E root \in roots, bps \in Bps : RootedCommand(root, bps)
    \/ AdminCommand \/ GrantAccess
    \/ \E a \in Arbiter : DeclareConflict(a) \/ AuthorizeReviewFee(a)
    \/ Tick \/ FreezeReorganised \/ \E e \in Event : FreezeMined(e)

Spec == Init /\ [][Next]_vars

-----------------------------------------------------------------------------
(* Properties *)

\* An award is final only with both signatures, after a review, or when the time in which
\* one could be asked for is over, counted from the last confirmation of the freeze; and it
\* never rests on less than the whole evidence unless the parties agreed.
FinalIsDue ==
    case.state = "final" =>
        LET last == Last(case.decisions)
        IN /\ case.decisions # <<>>
           /\ last.kind = "initial" => now >= ReviewDeadline(case)
           /\ last.kind # "settlement" => case.evidence = Category /\ last.bps \in Tier

\* However often a case is frozen and decided, nobody reviews what he decided, and there is
\* one review (Assign, Decide and Review at any time and in any order).
JudgesAreSeparate ==
    \A i, j \in DOMAIN case.decisions :
        LET d == case.decisions[i]  e == case.decisions[j]
        IN d.kind = "review" /\ e.kind # "settlement" /\ i # j => e.kind = "initial" /\ e.by # d.by

\* However deadlines, confirmations and judges fall together, what becomes final was due and
\* was judged by separate people (Finalize, Settle, Assign and Review of state.go).
AwardsHold == FinalIsDue /\ JudgesAreSeparate

\* While the freeze is not on the chain the case takes no evidence and no outcome, whatever
\* was stored before the reorganisation.
NothingUnfrozen ==
    [][case'.evidence # case.evidence \/ (case'.state = "final" /\ case # case') =>
          case.event = canonical /\ case.event # None]_vars
=============================================================================
