---------------------------- MODULE WorkflowProofs ----------------------------
(***************************************************************************)
(* The commands of a publisher, proved for every number of revisions,      *)
(* agents, operations and deposits: what is promised is covered, money     *)
(* follows the verdict, a completed batch is settled, and a matching       *)
(* operation stands for one revision.  Verdict, payment and record are     *)
(* transactions of callers that may stop anywhere, so the inductive        *)
(* invariant ties the four rows of a slot together, and says what a        *)
(* reservation without a slot is for.  Before that, the case that may      *)
(* follow a delivery, for every number of judges, freezes and              *)
(* reorganisations.                                                        *)
(***************************************************************************)
EXTENDS Workflow, Dispute, FiniteSetTheorems, SequenceTheorems, TLAPS

-----------------------------------------------------------------------------
(* Disputes: what a case ends with was due, was judged by separate people, *)
(* and took evidence and outcome only under a freeze of the canonical chain. *)

USE DisputeTypes

Stage == {"initial", "review"}
State == {"none", "soft_lock_pending", "frozen", "evidence", "decided", "final", "orphaned"}
Decision == [kind : {"initial", "review", "settlement"}, by : Arbiter \cup {None},
             root : SUBSET Category, bps : Bps]
Case == [state : State, tx : Tx \cup {None}, event : Event \cup {None}, since : Nat,
         claims : SUBSET Side, evidence : SUBSET Category,
         assigned : [Stage -> Arbiter \cup {None}], decisions : Seq(Decision), pending : BOOLEAN]

\* Work on a case begins when it is opened, with a freeze that was once confirmed.
Confirmed(c) ==
    /\ c.since > 0 => c.event # None
    /\ c.state \in {"frozen", "evidence", "decided", "final"} => c.since > 0
    /\ c.state = "none" => c.evidence = {}

\* Who decides is assigned once, so all first decisions have one author; if there is a
\* review, its author is another.
Judged(c) ==
    /\ \A i \in DOMAIN c.decisions :
        /\ c.decisions[i].kind = "initial" => c.decisions[i].by = c.assigned["initial"]
        /\ c.decisions[i].kind = "review" =>
                /\ c.decisions[i].by = c.assigned["review"]
                /\ c.assigned["initial"] \notin {None, c.assigned["review"]}
        /\ c.decisions[i].kind \in Stage => c.decisions[i].by # None
    /\ \A i, j \in DOMAIN c.decisions :
        c.decisions[i].kind = "review" /\ c.decisions[j].kind = "review" => i = j

\* FinalIsDue is not inductive: an award becomes final without its evidence being looked at
\* again, so a decided case has to promise it.
Whole(c) ==
    c.state \in {"decided", "final"} =>
        LET last == Last(c.decisions)
        IN /\ c.decisions # <<>>
           /\ c.state = "decided" => last.kind = "initial"
           /\ last.kind # "settlement" => c.evidence = Category /\ last.bps \in Tier

Due(c) ==
    c.state = "final" /\ Last(c.decisions).kind = "initial" => now >= ReviewDeadline(c)

CaseOK(c) == c \in Case /\ Confirmed(c) /\ Judged(c) /\ Whole(c) /\ Due(c)

DisputeInv ==
    /\ now \in Nat \ {0} /\ canonical \in Event \cup {None} /\ roots \subseteq SUBSET Category
    /\ CaseOK(case)

\* What CanonicalizeFreeze leaves of a case: a case under work is on the canonical chain.
LEMMA ViewFields ==
    ASSUME DisputeInv
    PROVE  /\ View \in Case
           /\ View.tx = case.tx /\ View.event = case.event /\ View.since = case.since
           /\ View.claims = case.claims /\ View.evidence = case.evidence
           /\ View.assigned = case.assigned /\ View.decisions = case.decisions
           /\ View.state = case.state \/ View.state = "orphaned"
           /\ View.state \in {"frozen", "evidence", "decided", "final"} =>
                View = case /\ case.event = canonical /\ case.event # None
<1>1. case \in Case /\ Confirmed(case)
  BY DEF DisputeInv, CaseOK
<1>2. CASE case.state \in {"none", "soft_lock_pending", "orphaned"} \/ case.event = canonical
  <2>1. View = case
    BY <1>2 DEF View, CanonicalizeFreeze
  <2> QED
    BY <1>1, <1>2, <2>1 DEF Confirmed
<1>3. CASE ~(case.state \in {"none", "soft_lock_pending", "orphaned"} \/ case.event = canonical)
  <2>1. View = [case EXCEPT !.state = "orphaned", !.pending = TRUE]
    BY <1>3 DEF View, CanonicalizeFreeze
  <2>2. View \in Case
    BY <1>1, <2>1 DEF Case, State
  <2>3. /\ View.tx = case.tx /\ View.event = case.event /\ View.since = case.since
        /\ View.claims = case.claims /\ View.evidence = case.evidence
        /\ View.assigned = case.assigned /\ View.decisions = case.decisions
        /\ View.state = "orphaned"
    BY <1>1, <2>1 DEF Case
  <2> QED
    BY <2>2, <2>3
<1> QED
  BY <1>2, <1>3

\* A reader's view of a sound case is sound.
LEMMA ViewOK == DisputeInv => CaseOK(View)
<1> SUFFICES ASSUME DisputeInv PROVE CaseOK(View)
  OBVIOUS
<1>1. CaseOK(case)
  BY DEF DisputeInv
<1>2. CASE View.state = "orphaned"
  BY <1>1, <1>2, ViewFields DEF CaseOK, Confirmed, Judged, Whole, Due
<1>3. CASE View.state # "orphaned"
  <2>1. View.state = case.state
    BY <1>3, ViewFields
  <2> QED
    BY <1>1, <2>1, ViewFields DEF CaseOK, Confirmed, Judged, Whole, Due, ReviewDeadline
<1> QED
  BY <1>2, <1>3

\* A command that adds no decision and leaves the case in the same stage of its life.
LEMMA Edited ==
    ASSUME DisputeInv, NEW c \in Case, NEW d \in Case, CaseOK(c),
           d.decisions = c.decisions, d.assigned = c.assigned,
           d.since > 0 => d.event # None,
           d.state \in {"frozen", "evidence"} => d.since > 0,
           d.state \in {"none", "decided", "final"} =>
                d.state = c.state /\ d.since = c.since /\ d.evidence = c.evidence
    PROVE  CaseOK(d)
<1>1. Confirmed(d)
  BY DEF CaseOK, Confirmed
<1>2. Judged(d)
  BY DEF CaseOK, Judged
<1>3. Whole(d) /\ Due(d)
  BY DEF CaseOK, Whole, Due, ReviewDeadline
<1> QED
  BY <1>1, <1>2, <1>3 DEF CaseOK

\* The case before anybody opens it.
LEMMA NoCaseType == NoCase \in Case /\ NoCase.decisions = <<>> /\ NoCase.since = 0
<1>1. [s \in {"initial", "review"} |-> None] \in [Stage -> Arbiter \cup {None}]
  BY DEF Stage
<1>2. <<>> \in Seq(Decision)
  OBVIOUS
<1> QED
  BY <1>1, <1>2 DEF NoCase, Case, State

\* Nothing is wrong with no case.
LEMMA DisputeInit == Init => DisputeInv
BY NoCaseType DEF Init, DisputeInv, CaseOK, Confirmed, Judged, Whole, Due, NoCase
-----------------------------------------------------------------------------
\* Appending puts a decision last and keeps the others.
LEMMA AppendDecision ==
    ASSUME NEW s \in Seq(Decision), NEW d \in Decision
    PROVE  /\ Append(s, d) \in Seq(Decision) /\ Append(s, d) # <<>> /\ Last(Append(s, d)) = d
           /\ DOMAIN s \subseteq DOMAIN Append(s, d)
           /\ \A i \in DOMAIN Append(s, d) :
                \/ i \in DOMAIN s /\ Append(s, d)[i] = s[i]
                \/ i = Len(s) + 1 /\ Append(s, d)[i] = d
BY AppendProperties, LenProperties DEF Last

\* A decision by the assigned judge, or by the parties, keeps the judges separate.
LEMMA JudgedAppend ==
    ASSUME NEW c \in Case, NEW e \in Case, NEW d \in Decision, Judged(c),
           e.decisions = Append(c.decisions, d), e.assigned = c.assigned,
           d.kind = "initial" => d.by = c.assigned["initial"] /\ d.by # None,
           d.kind = "review" =>
                /\ d.by = c.assigned["review"] /\ d.by # None
                /\ c.assigned["initial"] \notin {None, d.by}
                /\ \A i \in DOMAIN c.decisions : c.decisions[i].kind # "review"
    PROVE  Judged(e)
<1>1. c.decisions \in Seq(Decision)
  BY DEF Case
<1>2. \A i \in DOMAIN e.decisions :
        \/ i \in DOMAIN c.decisions /\ e.decisions[i] = c.decisions[i]
        \/ i = Len(c.decisions) + 1 /\ e.decisions[i] = d
  BY <1>1, AppendDecision
<1>3. d.kind \in {"initial", "review", "settlement"}
  BY DEF Decision
<1>4. \A i \in DOMAIN e.decisions :
        /\ e.decisions[i].kind = "initial" => e.decisions[i].by = e.assigned["initial"]
        /\ e.decisions[i].kind = "review" =>
                /\ e.decisions[i].by = e.assigned["review"]
                /\ e.assigned["initial"] \notin {None, e.assigned["review"]}
        /\ e.decisions[i].kind \in Stage => e.decisions[i].by # None
  BY <1>2, <1>3 DEF Judged, Stage
<1>5. ASSUME NEW i \in DOMAIN e.decisions, NEW j \in DOMAIN e.decisions,
             e.decisions[i].kind = "review", e.decisions[j].kind = "review"
      PROVE  i = j
  BY <1>2, <1>5 DEF Judged
<1> QED
  BY <1>4, <1>5 DEF Judged

\* Assigning a judge that was not assigned before keeps the judges of past decisions.
LEMMA JudgedAssign ==
    ASSUME NEW c \in Case, NEW e \in Case, Judged(c), NEW stage \in Stage, NEW a \in Arbiter,
           c.assigned[stage] = None, e.decisions = c.decisions,
           e.assigned = [c.assigned EXCEPT ![stage] = a]
    PROVE  Judged(e)
<1>1. /\ e.assigned[stage] = a
      /\ \A s \in Stage : s # stage => e.assigned[s] = c.assigned[s]
      /\ "initial" \in Stage /\ "review" \in Stage
  BY DEF Case, Stage
<1>2. \A i \in DOMAIN c.decisions : c.decisions[i].kind # stage
  BY DEF Judged, Stage
<1>3. ASSUME NEW i \in DOMAIN c.decisions
      PROVE  /\ c.decisions[i].kind = "initial" => c.decisions[i].by = e.assigned["initial"]
             /\ c.decisions[i].kind = "review" =>
                    /\ c.decisions[i].by = e.assigned["review"]
                    /\ e.assigned["initial"] \notin {None, e.assigned["review"]}
  <2>1. CASE stage = "initial"
    <3>1. c.decisions[i].kind # "review"
      BY <2>1 DEF Judged
    <3>2. c.decisions[i].kind # "initial"
      BY <1>2, <2>1
    <3> QED
      BY <3>1, <3>2
  <2>2. CASE stage = "review"
    <3>1. e.assigned["initial"] = c.assigned["initial"]
      BY <1>1, <2>2
    <3>2. c.decisions[i].kind # "review"
      BY <1>2, <2>2
    <3> QED
      BY <3>1, <3>2 DEF Judged
  <2> QED
    BY <2>1, <2>2 DEF Stage
<1> QED
  BY <1>3 DEF Judged

\* Every command stores a sound case.
LEMMA DisputeStep == DisputeInv /\ [Next]_vars => DisputeInv'
<1> SUFFICES ASSUME DisputeInv, [Next]_vars PROVE DisputeInv'
  OBVIOUS
<1>0. View \in Case /\ CaseOK(View) /\ now \in Nat \ {0} /\ canonical \in Event \cup {None}
  BY ViewFields, ViewOK DEF DisputeInv
<1>1. ASSUME case' \in Case, CaseOK(case'), UNCHANGED now, UNCHANGED canonical,
             roots' \subseteq SUBSET Category
      PROVE  DisputeInv'
  BY <1>1 DEF DisputeInv, CaseOK, Due, Confirmed, Judged, Whole, ReviewDeadline
<1>2. roots \subseteq SUBSET Category
  BY DEF DisputeInv
<1>3. ASSUME NEW s \in Side, Open(s) PROVE DisputeInv'
  <2>1. case' = [NoCase EXCEPT !.state = "soft_lock_pending", !.claims = {s}]
    BY <1>3 DEF Open, Store
  <2>2. case' \in Case
    BY <2>1, NoCaseType DEF Case, State
  <2>3. case'.state = "soft_lock_pending" /\ case'.decisions = <<>> /\ case'.since = 0
    BY <2>1, NoCaseType DEF Case
  <2>4. DOMAIN <<>> = {}
    OBVIOUS
  <2>5. CaseOK(case')
    BY <2>2, <2>3, <2>4 DEF CaseOK, Confirmed, Judged, Whole, Due
  <2> QED
    BY <1>1, <1>2, <1>3, <2>2, <2>5 DEF Open, Store
<1>4. ASSUME NEW s \in Side, AddClaim(s) PROVE DisputeInv'
  <2>1. case' = [View EXCEPT !.claims = View.claims \cup {s}]
    BY <1>4 DEF AddClaim, Store
  <2>2. case' \in Case
    BY <1>0, <2>1 DEF Case
  <2>3. /\ case'.state = View.state /\ case'.decisions = View.decisions
        /\ case'.assigned = View.assigned /\ case'.since = View.since
        /\ case'.event = View.event /\ case'.evidence = View.evidence
    BY <1>0, <2>1 DEF Case
  <2>4. CaseOK(case')
    BY <1>0, <2>2, <2>3, Edited DEF CaseOK, Confirmed
  <2> QED
    BY <1>1, <1>2, <1>4, <2>2, <2>4 DEF AddClaim, Store
<1>5. ASSUME NEW t \in Tx, SubmitFreeze(t) PROVE DisputeInv'
  <2>1. case' = [View EXCEPT !.tx = t]
    BY <1>5 DEF SubmitFreeze, Store
  <2>2. case' \in Case
    BY <1>0, <2>1 DEF Case
  <2>3. /\ case'.state = View.state /\ case'.decisions = View.decisions
        /\ case'.assigned = View.assigned /\ case'.since = View.since
        /\ case'.event = View.event /\ case'.evidence = View.evidence
    BY <1>0, <2>1 DEF Case
  <2>4. CaseOK(case')
    BY <1>0, <2>2, <2>3, Edited DEF CaseOK, Confirmed
  <2> QED
    BY <1>1, <1>2, <1>5, <2>2, <2>4 DEF SubmitFreeze, Store
<1>6. CASE ReconcileFreeze
  <2>1. case' = [View EXCEPT !.state = "frozen", !.event = canonical, !.since = now]
    BY <1>6 DEF ReconcileFreeze, Store
  <2>2. case' \in Case
    BY <1>0, <2>1 DEF Case, State
  <2>3. /\ case'.state = "frozen" /\ case'.decisions = View.decisions
        /\ case'.assigned = View.assigned /\ case'.since = now /\ case'.event = canonical
    BY <1>0, <2>1 DEF Case
  <2>4. canonical # None
    BY <1>6 DEF ReconcileFreeze
  <2>5. CaseOK(case')
    BY <1>0, <2>2, <2>3, <2>4, Edited
  <2> QED
    BY <1>1, <1>2, <1>6, <2>2, <2>5 DEF ReconcileFreeze, Store
<1>7. ASSUME NEW s \in Side, NEW i \in Category, AppendEvidence(s, i) PROVE DisputeInv'
  <2>1. case' = [View EXCEPT !.state = "evidence", !.evidence = View.evidence \cup {i}]
    BY <1>7 DEF AppendEvidence, Store
  <2>2. case' \in Case
    BY <1>0, <2>1 DEF Case, State
  <2>3. /\ case'.state = "evidence" /\ case'.decisions = View.decisions
        /\ case'.assigned = View.assigned /\ case'.since = View.since /\ case'.event = View.event
    BY <1>0, <2>1 DEF Case
  <2>4. View.since > 0
    BY <1>0, <1>7 DEF AppendEvidence, CaseOK, Confirmed
  <2>5. CaseOK(case')
    BY <1>0, <2>2, <2>3, <2>4, Edited DEF CaseOK, Confirmed
  <2>6. roots' \subseteq SUBSET Category
    BY <1>2, <1>7, <2>2 DEF AppendEvidence, Case
  <2> QED
    BY <1>1, <1>7, <2>2, <2>5, <2>6 DEF AppendEvidence, Store
<1>8. ASSUME NEW stage \in Stage, NEW a \in Arbiter, Assign(stage, a) PROVE DisputeInv'
  <2>1. case' = [View EXCEPT !.assigned[stage] = a]
    BY <1>8 DEF Assign, Store
  <2>2. View.assigned \in [Stage -> Arbiter \cup {None}] /\ View.assigned[stage] = None
    BY <1>0, <1>8 DEF Case, Assign
  <2>3. case' = [View EXCEPT !.assigned = [View.assigned EXCEPT ![stage] = a]]
    BY <1>0, <2>1 DEF Case
  <2>4. case' \in Case
    BY <1>0, <2>2, <2>3 DEF Case
  <2>5. /\ case'.state = View.state /\ case'.decisions = View.decisions
        /\ case'.assigned = [View.assigned EXCEPT ![stage] = a] /\ case'.since = View.since
        /\ case'.event = View.event /\ case'.evidence = View.evidence
    BY <1>0, <2>3 DEF Case
  <2>6. Judged(case')
    BY <1>0, <2>2, <2>4, <2>5, JudgedAssign DEF CaseOK
  <2>7. Confirmed(case') /\ Whole(case') /\ Due(case')
    BY <1>0, <2>5 DEF CaseOK, Confirmed, Whole, Due, ReviewDeadline
  <2>8. CaseOK(case')
    BY <2>4, <2>6, <2>7 DEF CaseOK
  <2> QED
    BY <1>1, <1>2, <1>8, <2>4, <2>8 DEF Assign, Store
<1>9. ASSUME NEW a \in Arbiter, NEW root \in roots, NEW bps \in Bps, Decide(a, root, bps)
      PROVE  DisputeInv'
  <2> DEFINE d == [kind |-> "initial", by |-> a, root |-> root, bps |-> bps]
  <2>1. d \in Decision
    BY <1>2 DEF Decision
  <2>2. case' = [View EXCEPT !.decisions = Append(View.decisions, d), !.state = "decided"]
    BY <1>0, <1>9 DEF Decide, Store, Decided, Case
  <2>3. View.decisions \in Seq(Decision)
    BY <1>0 DEF Case
  <2>4. case' \in Case
    BY <1>0, <2>1, <2>2, <2>3, AppendDecision DEF Case, State
  <2>5. /\ case'.state = "decided" /\ case'.decisions = Append(View.decisions, d)
        /\ case'.assigned = View.assigned /\ case'.since = View.since
        /\ case'.event = View.event /\ case'.evidence = View.evidence
    BY <1>0, <2>2 DEF Case
  <2>6. View.assigned["initial"] = a /\ View.evidence = Category /\ bps \in Tier
    BY <1>9 DEF Decide
  <2>7. View.since > 0
    <3>1. View.since \in Nat
      BY <1>0 DEF Case
    <3> QED
      BY <1>0, <1>9, <3>1 DEF Decide, DecisionDeadline
  <2>8. Judged(case')
    BY <1>0, <2>1, <2>4, <2>5, <2>6, JudgedAppend DEF CaseOK
  <2>9. Confirmed(case') /\ Due(case')
    BY <1>0, <2>5, <2>7 DEF CaseOK, Confirmed, Due
  <2>10. Whole(case')
    BY <2>1, <2>3, <2>5, <2>6, AppendDecision DEF Whole
  <2> QED
    BY <1>1, <1>2, <1>9, <2>4, <2>8, <2>9, <2>10 DEF Decide, Store, CaseOK
<1>10. ASSUME NEW root \in roots, NEW bps \in Bps, Settle(root, bps) PROVE DisputeInv'
  <2> DEFINE d == [kind |-> "settlement", by |-> None, root |-> root, bps |-> bps]
  <2>1. d \in Decision
    BY <1>2 DEF Decision
  <2>2. case' = [View EXCEPT !.decisions = Append(View.decisions, d), !.state = "final", !.pending = FALSE]
    BY <1>0, <1>10 DEF Settle, Store, Decided, Finish, Case
  <2>3. View.decisions \in Seq(Decision)
    BY <1>0 DEF Case
  <2>4. case' \in Case
    BY <1>0, <2>1, <2>2, <2>3, AppendDecision DEF Case, State
  <2>5. /\ case'.state = "final" /\ case'.decisions = Append(View.decisions, d)
        /\ case'.assigned = View.assigned /\ case'.since = View.since
        /\ case'.event = View.event /\ case'.evidence = View.evidence
    BY <1>0, <2>2 DEF Case
  <2>6. View.since > 0
    BY <1>0, <1>10 DEF Settle, CaseOK, Confirmed
  <2>7. Judged(case')
    BY <1>0, <2>1, <2>4, <2>5, JudgedAppend DEF CaseOK
  <2>8. Confirmed(case')
    BY <1>0, <2>5, <2>6 DEF CaseOK, Confirmed
  <2>9. Whole(case') /\ Due(case')
    BY <2>1, <2>3, <2>5, AppendDecision DEF Whole, Due
  <2> QED
    BY <1>1, <1>2, <1>10, <2>4, <2>7, <2>8, <2>9 DEF Settle, Store, CaseOK
<1>11. ASSUME NEW a \in Arbiter, NEW root \in roots, NEW bps \in Bps, Review(a, root, bps)
       PROVE  DisputeInv'
  <2> DEFINE d == [kind |-> "review", by |-> a, root |-> root, bps |-> bps]
  <2>1. d \in Decision
    BY <1>2 DEF Decision
  <2>2. case' = [View EXCEPT !.decisions = Append(View.decisions, d), !.state = "final", !.pending = FALSE]
    BY <1>0, <1>11 DEF Review, Store, Decided, Finish, Case
  <2>3. View.decisions \in Seq(Decision)
    BY <1>0 DEF Case
  <2>4. case' \in Case
    BY <1>0, <2>1, <2>2, <2>3, AppendDecision DEF Case, State
  <2>5. /\ case'.state = "final" /\ case'.decisions = Append(View.decisions, d)
        /\ case'.assigned = View.assigned /\ case'.since = View.since
        /\ case'.event = View.event /\ case'.evidence = View.evidence
    BY <1>0, <2>2 DEF Case
  <2>6. View.state = "decided" /\ View.assigned["review"] = a /\ bps \in Tier
    BY <1>11 DEF Review
  <2>7. View.evidence = Category /\ View.since > 0
    BY <1>0, <2>6 DEF CaseOK, Whole, Confirmed
  <2>8. \A i \in DOMAIN View.decisions : View.decisions[i].kind # "review"
    BY <1>11 DEF Review, Made
  <2>9. View.assigned["initial"] \notin {None, a}
    <3>1. PICK i \in DOMAIN View.decisions : View.decisions[i].kind = "initial" /\ View.decisions[i].by # a
      BY <1>11 DEF Review, IndependentReviewer, Made
    <3> QED
      BY <1>0, <3>1 DEF CaseOK, Judged, Stage
  <2>10. Judged(case')
    BY <1>0, <2>1, <2>4, <2>5, <2>6, <2>8, <2>9, JudgedAppend DEF CaseOK
  <2>11. Confirmed(case')
    BY <1>0, <2>5, <2>7 DEF CaseOK, Confirmed
  <2>12. Whole(case') /\ Due(case')
    BY <2>1, <2>3, <2>5, <2>6, <2>7, AppendDecision DEF Whole, Due
  <2> QED
    BY <1>1, <1>2, <1>11, <2>4, <2>10, <2>11, <2>12 DEF Review, Store, CaseOK
<1>12. CASE Finalize
  <2>1. case' = [View EXCEPT !.state = "final", !.pending = FALSE] /\ View.state = "decided"
    BY <1>12 DEF Finalize, Store, Finish
  <2>2. case' \in Case
    BY <1>0, <2>1 DEF Case, State
  <2>3. /\ case'.state = "final" /\ case'.decisions = View.decisions
        /\ case'.assigned = View.assigned /\ case'.since = View.since
        /\ case'.event = View.event /\ case'.evidence = View.evidence
    BY <1>0, <2>1 DEF Case
  <2>4. Confirmed(case') /\ Judged(case') /\ Whole(case')
    BY <1>0, <2>1, <2>3 DEF CaseOK, Confirmed, Judged, Whole
  <2>5. now >= ReviewDeadline(View)
    <3>1. View.since \in Nat
      BY <1>0 DEF Case
    <3> QED
      BY <1>0, <1>12, <3>1 DEF Finalize, FinalizeDue, ReviewDeadline
  <2>6. Due(case')
    BY <2>3, <2>5 DEF Due, ReviewDeadline
  <2> QED
    BY <1>1, <1>2, <1>12, <2>2, <2>4, <2>6 DEF Finalize, Store, CaseOK
<1>13. CASE GrantAccess
  BY <1>0, <1>1, <1>2, <1>13 DEF GrantAccess, Store
<1>14. ASSUME now' \in Nat, now' >= now, UNCHANGED <<case, roots>>, canonical' \in Event \cup {None}
       PROVE  DisputeInv'
  <2>1. Due(case)'
    <3>1. case.since \in Nat
      BY DEF DisputeInv, CaseOK, Case
    <3>2. ReviewDeadline(case) \in Nat
      BY <3>1 DEF ReviewDeadline
    <3>3. Due(case)
      BY DEF DisputeInv, CaseOK
    <3> QED
      BY <1>0, <1>14, <3>2, <3>3 DEF Due, ReviewDeadline
  <2> QED
    BY <1>0, <1>14, <2>1 DEF DisputeInv, CaseOK, Confirmed, Judged, Whole
<1>15. ASSUME NEW a \in Arbiter, DeclareConflict(a) \/ AuthorizeReviewFee(a) PROVE DisputeInv'
  BY <1>0, <1>14, <1>15 DEF DeclareConflict, AuthorizeReviewFee
<1>16. CASE Tick \/ FreezeReorganised \/ \E e \in Event : FreezeMined(e)
  BY <1>0, <1>14, <1>16 DEF Tick, FreezeReorganised, FreezeMined
<1>17. CASE UNCHANGED vars
  BY <1>0, <1>14, <1>17 DEF vars
<1> QED
  BY <1>3, <1>4, <1>5, <1>6, <1>7, <1>8, <1>9, <1>10, <1>11, <1>12, <1>13, <1>15, <1>16, <1>17
     DEF Next, PartyCommand, RootedCommand, AdminCommand, AssignAsAdmin, Stage

\* The inductive invariant of a case, under any reorganisation of the chain.
LEMMA DisputeAlways == Spec => []DisputeInv
BY DisputeInit, DisputeStep, PTL DEF Spec

\* For any number of judges, freezes and decisions, at any deadline: an award is final only
\* if it was due and rests on the whole evidence or on both signatures, and no one reviews
\* his own decision (decision, settlement, review and finalize of dispute's state.go).
THEOREM AwardsAlwaysHold == Spec => []AwardsHold
<1>1. DisputeInv => FinalIsDue
  BY DEF DisputeInv, CaseOK, Whole, Due, FinalIsDue
<1>2. DisputeInv => JudgesAreSeparate
  <2> SUFFICES ASSUME DisputeInv, NEW i \in DOMAIN case.decisions, NEW j \in DOMAIN case.decisions,
                      case.decisions[i].kind = "review", case.decisions[j].kind # "settlement", i # j
               PROVE  case.decisions[j].kind = "initial" /\ case.decisions[j].by # case.decisions[i].by
    BY DEF JudgesAreSeparate
  <2>1. case.decisions \in Seq(Decision)
    BY DEF DisputeInv, CaseOK, Case
  <2>2. case.decisions[j].kind \in {"initial", "review", "settlement"}
    <3>1. j \in 1..Len(case.decisions)
      BY <2>1, LenProperties
    <3>2. case.decisions[j] \in Decision
      BY <2>1, <3>1, ElementOfSeq
    <3> QED
      BY <3>2 DEF Decision
  <2> QED
    BY <2>2 DEF DisputeInv, CaseOK, Judged
<1> QED
  BY <1>1, <1>2, DisputeAlways, PTL DEF AwardsHold

\* A command that changes the evidence or makes the case final found its freeze on the
\* canonical chain, whatever was stored before a reorganisation (canonicalizeFreeze).
THEOREM NothingHappensUnfrozen == Spec => NothingUnfrozen
<1> DEFINE Moves == case'.evidence # case.evidence \/ (case'.state = "final" /\ case # case')
           Frozen == case.event = canonical /\ case.event # None
<1>1. DisputeInv /\ [Next]_vars => [Moves => Frozen]_vars
  <2> SUFFICES ASSUME DisputeInv, Next, Moves PROVE Frozen
    OBVIOUS
  <2>0. View \in Case
    BY ViewFields
  <2>1. CASE UNCHANGED case
    BY <2>1
  <2>2. CASE View.state \in {"frozen", "evidence", "decided", "final"}
    BY <2>2, ViewFields
  <2>3. ASSUME NEW s \in Side, Open(s) PROVE FALSE
    <3>1. case' = [NoCase EXCEPT !.state = "soft_lock_pending", !.claims = {s}]
      BY <2>3 DEF Open, Store
    <3>2. case'.state = "soft_lock_pending" /\ case'.evidence = {}
      BY <3>1, NoCaseType DEF Case, NoCase
    <3>3. case.evidence = {}
      BY <2>3 DEF Open, DisputeInv, CaseOK, Confirmed
    <3> QED
      BY <3>2, <3>3
  <2>4. ASSUME case'.state = View.state, case'.evidence = View.evidence PROVE Frozen
    <3>1. case'.evidence = case.evidence
      BY <2>4, ViewFields
    <3> QED
      BY <2>2, <2>4, <3>1
  <2>5. ASSUME NEW s \in Side, AddClaim(s) PROVE Frozen
    <3>1. case' = [View EXCEPT !.claims = View.claims \cup {s}]
      BY <2>5 DEF AddClaim, Store
    <3> QED
      BY <2>0, <2>4, <3>1 DEF Case
  <2>6. ASSUME NEW t \in Tx, SubmitFreeze(t) PROVE Frozen
    <3>1. case' = [View EXCEPT !.tx = t]
      BY <2>6 DEF SubmitFreeze, Store
    <3> QED
      BY <2>0, <2>4, <3>1 DEF Case
  <2>7. CASE ReconcileFreeze
    <3>1. case' = [View EXCEPT !.state = "frozen", !.event = canonical, !.since = now]
      BY <2>7 DEF ReconcileFreeze, Store
    <3>2. case'.state = "frozen" /\ case'.evidence = View.evidence
      BY <2>0, <3>1 DEF Case
    <3> QED
      BY <3>2, ViewFields
  <2>8. ASSUME NEW stage \in Stage, NEW a \in Arbiter, Assign(stage, a) PROVE Frozen
    <3>1. case' = [View EXCEPT !.assigned[stage] = a]
      BY <2>8 DEF Assign, Store
    <3>2. case'.state = View.state /\ case'.evidence = View.evidence
      BY <2>0, <3>1 DEF Case
    <3> QED
      BY <2>4, <3>2
  <2>9. ASSUME NEW a \in Arbiter, NEW root, NEW bps, Decide(a, root, bps) PROVE FALSE
    <3>1. case' = [Decided(View, "initial", a, root, bps) EXCEPT !.state = "decided"]
      BY <2>9 DEF Decide, Store
    <3>2. case'.state = "decided" /\ case'.evidence = View.evidence
      BY <2>0, <3>1 DEF Case, Decided
    <3> QED
      BY <3>2, ViewFields
  <2>10. CASE GrantAccess
    BY <2>4, <2>10 DEF GrantAccess, Store
  <2>11. ASSUME \/ \E s \in Side, i \in Category : AppendEvidence(s, i)
                \/ \E root \in roots, bps \in Bps : Settle(root, bps)
                \/ \E a \in Arbiter, root \in roots, bps \in Bps : Review(a, root, bps)
                \/ Finalize
         PROVE  Frozen
    BY <2>2, <2>11 DEF AppendEvidence, Settle, Review, Finalize
  <2>12. ASSUME \/ \E a \in Arbiter : DeclareConflict(a) \/ AuthorizeReviewFee(a)
                \/ Tick \/ FreezeReorganised \/ \E e \in Event : FreezeMined(e)
         PROVE  Frozen
    BY <2>1, <2>12 DEF DeclareConflict, AuthorizeReviewFee, Tick, FreezeReorganised, FreezeMined
  <2> QED
    BY <2>3, <2>5, <2>6, <2>7, <2>8, <2>9, <2>10, <2>11, <2>12
       DEF Next, PartyCommand, RootedCommand, AdminCommand, AssignAsAdmin, Stage
<1> QED
  BY <1>1, DisputeAlways, PTL DEF Spec, NothingUnfrozen

-----------------------------------------------------------------------------
(* Overviews, and the commands that lead to them. *)

USE FundsTypes, OverviewTypes, WorkflowTypes

\* Rows of fund_allocations, overview_slots, overview_batches and matching_run_operations.
AllocRow == [status : {"none", "authorized", "captured", "released"},
             reason : {"none", "verdict", "obsolete"}, cost : 0..CostCap,
             journal : {"none", "posted", "reversed"}]
SlotRow == [status : {"none", "planned", "dispatched", "valid", "invalid", "obsolete"},
            billing : {"none", "authorized", "captured", "released"},
            replacement : BOOLEAN, content : Content \cup {NoContent}]
BatchRow == [status : {"none", "running", "completed", "obsolete"},
             used : BOOLEAN, exhausted : BOOLEAN, done : BOOLEAN]
OpRow == [state : {"none", "begun", "frozen", "completed"},
          input : Input \cup {NoInput}, revision : Revision \cup {0}, swept : BOOLEAN]

TypeInv ==
    /\ pool \in Nat
    /\ funding \in [1..MaxFundings -> {"none", "posted", "reversed"}]
    /\ alloc \in [Cell -> AllocRow] /\ slot \in [Cell -> SlotRow] /\ batch \in [Revision -> BatchRow]
    /\ work \in [Cell -> {"none", "pending", "running"} \cup Ended]
    /\ late \subseteq Revision /\ seen \subseteq Cell /\ releasing \subseteq Cell
    /\ task \in {"escrowed", "matching", "overview_generating", "awaiting_selection"}
    /\ op \in [Operation -> OpRow] /\ snapshot \in [Revision -> Input \cup {NoInput}]
    /\ latest \in Revision \cup {0} /\ started \subseteq Revision /\ faults \in 0..MaxFaults

\* The invariant names the rows that the type invariant of the module spells out.
LEMMA TypeInvIs == WorkflowTypeOK <=> TypeInv
BY DEF WorkflowTypeOK, OverviewTypeOK, FundsTypeOK, TypeInv, AllocRow, SlotRow, BatchRow, OpRow

\* A cell is a revision and an agent.
LEMMA CellParts ==
    ASSUME NEW c \in Cell
    PROVE  Rev(c) \in Revision /\ c[2] \in Agent /\ c = <<Rev(c), c[2]>>
BY DEF Rev

\* The selections of a snapshot, as a set and one by one.
LEMMA SelectedFacts ==
    /\ Selected \in Seq(Agent) /\ Len(Selected) = Limit /\ Limit \in Nat \ {0}
    /\ \A i \in 1..Limit : Selected[i] = Qualified[i] /\ Selected[i] \in Agent
    /\ Range(Selected) = {Selected[i] : i \in 1..Limit} /\ Range(Selected) \subseteq Agent
<1>1. Limit \in Nat \ {0} /\ Limit <= Len(Qualified)
  OBVIOUS
<1>2. Len(Selected) = Limit /\ Selected \in Seq(Agent)
  BY <1>1 DEF Selected
<1>3. \A i \in 1..Limit : Selected[i] = Qualified[i] /\ Selected[i] \in Agent
  BY <1>1 DEF Selected
<1>4. DOMAIN Selected = 1..Limit
  BY <1>2
<1>5. Range(Selected) = {Selected[i] : i \in 1..Limit}
  BY <1>4 DEF Range
<1> QED
  BY <1>1, <1>2, <1>3, <1>5

-----------------------------------------------------------------------------
(* Updates of rows keep their types. *)

\* Rows of fund_allocations with one field changed.
LEMMA AllocStatus ==
    ASSUME NEW a \in AllocRow, NEW s \in {"none", "authorized", "captured", "released"}
    PROVE  [a EXCEPT !.status = s] \in AllocRow
BY Zenon DEF AllocRow

\* The reason of a release.
LEMMA AllocReason ==
    ASSUME NEW a \in AllocRow, NEW s \in {"none", "verdict", "obsolete"}
    PROVE  [a EXCEPT !.reason = s] \in AllocRow
BY Zenon DEF AllocRow

\* The cost of a capture.
LEMMA AllocCost ==
    ASSUME NEW a \in AllocRow, NEW k \in 0..CostCap
    PROVE  [a EXCEPT !.cost = k] \in AllocRow
BY Zenon DEF AllocRow

\* The journal of a capture.
LEMMA AllocJournal ==
    ASSUME NEW a \in AllocRow, NEW j \in {"none", "posted", "reversed"}
    PROVE  [a EXCEPT !.journal = j] \in AllocRow
BY Zenon DEF AllocRow

\* Rows of overview_slots with one field changed.
LEMMA SlotStatus ==
    ASSUME NEW s \in SlotRow,
           NEW t \in {"none", "planned", "dispatched", "valid", "invalid", "obsolete"}
    PROVE  [s EXCEPT !.status = t] \in SlotRow
BY Zenon DEF SlotRow

\* The content of a verdict.
LEMMA SlotContent ==
    ASSUME NEW s \in SlotRow, NEW k \in Content \cup {NoContent}
    PROVE  [s EXCEPT !.content = k] \in SlotRow
BY Zenon DEF SlotRow

\* The bill of a slot.
LEMMA SlotBilling ==
    ASSUME NEW s \in SlotRow, NEW t \in {"none", "authorized", "captured", "released"}
    PROVE  [s EXCEPT !.billing = t] \in SlotRow
BY Zenon DEF SlotRow

\* The slots that are created.
LEMMA PlannedTyped == Planned \in SlotRow /\ [Planned EXCEPT !.replacement = TRUE] \in SlotRow
BY Zenon DEF SlotRow, Planned, NoSlot

\* Rows of overview_batches with one field changed.
LEMMA BatchFields ==
    ASSUME NEW b \in BatchRow
    PROVE  /\ [b EXCEPT !.used = TRUE] \in BatchRow /\ [b EXCEPT !.exhausted = TRUE] \in BatchRow
           /\ [b EXCEPT !.done = TRUE] \in BatchRow
BY Zenon DEF BatchRow

\* The status of a batch.
LEMMA BatchStatus ==
    ASSUME NEW b \in BatchRow, NEW t \in {"none", "running", "completed", "obsolete"}
    PROVE  [b EXCEPT !.status = t] \in BatchRow
BY Zenon DEF BatchRow

\* A batch that is finished, if it was running.
LEMMA FinishedTyped ==
    ASSUME NEW b \in BatchRow
    PROVE  Finished(b) \in BatchRow
<1> DEFINE c == [b EXCEPT !.status = "completed"]
<1>1. c \in BatchRow
  BY BatchStatus, Zenon
<1>2. [c EXCEPT !.done = TRUE] \in BatchRow
  <2> HIDE DEF c
  <2> QED
    BY <1>1, BatchFields, Zenon
<1>3. [b EXCEPT !.status = "completed", !.done = TRUE] \in BatchRow
  BY <1>2, Zenon
<1> QED
  BY <1>3, Zenon DEF Finished

\* A table with one row changed.
LEMMA UpdateTyped ==
    ASSUME NEW S, NEW T, NEW f \in [S -> T], NEW x \in S, NEW y \in T
    PROVE  [f EXCEPT ![x] = y] \in [S -> T]
OBVIOUS

-----------------------------------------------------------------------------
(* The inductive invariant. *)

\* Cells with a reservation, and deposits that were taken back.
Promised == {c \in Cell : alloc[c].status = "authorized"}
Reversed == {n \in 1..MaxFundings : funding[n] = "reversed"}

\* Only finitely many agents are promised money, which makes Cardinality mean something.
PoolInv == IsFiniteSet(Promised) /\ ReservesCovered

\* The row of an allocation, its slot, the slot's batch and its execution fit together.
RowsFit(a, s, b, w) ==
    /\ a.status # "none" => w # "none"
    /\ s.status # "none" => a.status # "none" /\ b.status # "none" /\ s.billing # "none"
    /\ s.status = "none" => s.billing = "none" /\ ~s.replacement
    /\ s.status = "valid" => s.content \in Content
    /\ s.status = "obsolete" => b.status = "obsolete"
    /\ a.reason # "none" => a.status = "released"
    /\ a.status = "captured" => s.status = "valid" /\ a.cost = UsedCost[s.content]
    /\ s.billing \in {"captured", "released"} => a.status = s.billing
    /\ s.replacement => b.used

Bills == \A c \in Cell : RowsFit(alloc[c], slot[c], batch[Rev(c)], work[c])

\* Two slots of a batch: their deliverables, their providers, and which is a replacement.
PairFits(c, d) ==
    /\ slot[c].status = "valid" /\ slot[d].status = "valid" => slot[c].content # slot[d].content
    /\ slot[c].status # "none" /\ slot[d].status # "none" => Provider[c[2]] # Provider[d[2]]
    /\ ~(slot[c].replacement /\ slot[d].replacement)

Apart == \A c, d \in Cell : c # d /\ Rev(c) = Rev(d) => PairFits(c, d)

\* What is reserved and has no slot yet will get one: it is of a selection, or of the
\* replacement that is due.
Planning ==
    \A c \in Cell : alloc[c].status # "none" /\ slot[c].status = "none" =>
        /\ batch[Rev(c)].status = "none" => c[2] \in Range(Selected)
        /\ batch[Rev(c)].status \in {"running", "completed"} =>
              ReplacementDue(Rev(c)) /\ Unused(Rev(c)) # {} /\ c[2] = NextCandidate(Rev(c))

\* Every slot has its verdict and its bill, and a replacement was tried where one was due.
DoneAt(r) ==
    /\ \A c \in Slots(r) : slot[c].status \in {"valid", "invalid"} /\ slot[c].billing # "authorized"
    /\ (\E c \in Slots(r) : slot[c].status = "invalid") => batch[r].used \/ batch[r].exhausted

Done == \A r \in Revision : batch[r].status = "completed" => DoneAt(r)

OverviewInv == Bills /\ Apart /\ Planning /\ Done

\* What an operation's row x says of the snapshots sealed so far.
DraftFits(sealed, x) ==
    /\ x.state \in {"none", "begun"} => x.input = NoInput /\ x.revision = 0
    /\ x.state \in {"frozen", "completed"} => x.input # NoInput
    /\ x.revision # 0 => sealed[x.revision] = x.input
    /\ x.swept => x.revision # 0
    /\ x.state = "completed" => x.swept

\* Revisions are sealed in order, one for an input that some operation froze.
SealedInOrder ==
    /\ \A r \in Revision : snapshot[r] # NoInput <=> r <= latest
    /\ \A q, r \in Revision : snapshot[r] # NoInput /\ snapshot[q] = snapshot[r] => q = r
    /\ \A r \in Revision : snapshot[r] # NoInput => \E o \in Operation : op[o].input = snapshot[r]

\* A batch is of a started revision.
OperationInv ==
    /\ SealedInOrder
    /\ \A o \in Operation : DraftFits(snapshot, op[o])
    /\ \A r \in started : r <= latest
    /\ \A r \in Revision : batch[r].status # "none" => r \in started
    /\ task = "awaiting_selection" => \E r \in Revision : batch[r].done

Inv == TypeInv /\ PoolInv /\ OverviewInv /\ OperationInv


\* RecordDispatched keeps the types.
LEMMA RecordDispatchedTyped ==
    ASSUME TypeInv, NEW c \in Cell, RecordDispatched(c), UNCHANGED workflowVars
    PROVE  TypeInv'
<1>1. slot \in [Cell -> SlotRow] /\ slot[c] \in SlotRow
  BY DEF TypeInv
<1>2. [slot[c] EXCEPT !.status = "dispatched"] \in SlotRow
  BY <1>1, SlotStatus, Zenon
<1>3. slot' = [slot EXCEPT ![c] = [slot[c] EXCEPT !.status = "dispatched"]]
  BY Zenon DEF RecordDispatched
<1>4. slot' \in [Cell -> SlotRow]
  BY <1>1, <1>2, <1>3, UpdateTyped, Zenon
<1> QED
  BY <1>4 DEF RecordDispatched, TypeInv, workflowVars

\* RecordValidation keeps the types.
LEMMA RecordValidationTyped ==
    ASSUME TypeInv, NEW c \in Cell, NEW verdict \in Verdicts(c), RecordValidation(c, verdict),
           UNCHANGED workflowVars
    PROVE  TypeInv'
<1> DEFINE t == IF verdict = NoContent \/ Duplicate(c, verdict) THEN "invalid" ELSE "valid"
           s == [slot[c] EXCEPT !.status = t]
<1>1. slot \in [Cell -> SlotRow] /\ slot[c] \in SlotRow
  BY DEF TypeInv
<1>2. verdict \in Content \cup {NoContent}
  BY DEF Verdicts
<1>3. t \in {"none", "planned", "dispatched", "valid", "invalid", "obsolete"}
  OBVIOUS
<1>4. slot' = [slot EXCEPT ![c] = [s EXCEPT !.content = verdict]]
  BY Zenon DEF RecordValidation
<1> HIDE DEF t
<1>5. s \in SlotRow
  BY <1>1, <1>3, SlotStatus, Zenon
<1> HIDE DEF s
<1>6. [s EXCEPT !.content = verdict] \in SlotRow
  BY <1>2, <1>5, SlotContent, Zenon
<1>7. slot' \in [Cell -> SlotRow]
  BY <1>1, <1>4, <1>6, UpdateTyped, Zenon
<1> QED
  BY <1>7 DEF RecordValidation, TypeInv, workflowVars

\* RecordBilling keeps the types of what it writes.
LEMMA RecordBillingTyped ==
    ASSUME TypeInv, NEW c \in Cell, NEW billing \in {"captured", "released"}, RecordBilling(c, billing)
    PROVE  slot' \in [Cell -> SlotRow] /\ batch' \in [Revision -> BatchRow]
<1>1. /\ slot \in [Cell -> SlotRow] /\ slot[c] \in SlotRow
      /\ batch \in [Revision -> BatchRow] /\ Rev(c) \in Revision /\ batch[Rev(c)] \in BatchRow
  BY CellParts DEF TypeInv
<1>2. [slot[c] EXCEPT !.billing = billing] \in SlotRow
  BY <1>1, SlotBilling, Zenon
<1>3. slot' = [slot EXCEPT ![c] = [slot[c] EXCEPT !.billing = billing]]
  BY Zenon DEF RecordBilling
<1>4. slot' \in [Cell -> SlotRow]
  BY <1>1, <1>2, <1>3, UpdateTyped, Zenon
<1>5. batch' = batch \/ batch' = [batch EXCEPT ![Rev(c)] = Finished(batch[Rev(c)])]
  BY Zenon DEF RecordBilling
<1>6. Finished(batch[Rev(c)]) \in BatchRow
  BY <1>1, FinishedTyped, Zenon
<1>7. [batch EXCEPT ![Rev(c)] = Finished(batch[Rev(c)])] \in [Revision -> BatchRow]
  BY <1>1, <1>6, UpdateTyped, Zenon
<1> QED
  BY <1>1, <1>4, <1>5, <1>7, Zenon

\* CaptureOverview keeps the types of what it writes.
LEMMA CaptureTyped ==
    ASSUME TypeInv, NEW c \in Cell, NEW cost \in 0..CostCap, CaptureOverview(c, cost)
    PROVE  alloc' \in [Cell -> AllocRow] /\ pool' \in Nat
<1> DEFINE a == [alloc[c] EXCEPT !.status = "captured"]
           b == [a EXCEPT !.cost = cost]
           j == IF Price + cost = 0 THEN "none" ELSE "posted"
<1>1. alloc \in [Cell -> AllocRow] /\ alloc[c] \in AllocRow /\ pool \in Nat
  BY DEF TypeInv
<1>2. j \in {"none", "posted", "reversed"}
  OBVIOUS
<1>3. alloc' = [alloc EXCEPT ![c] = [b EXCEPT !.journal = j]]
  BY Zenon DEF CaptureOverview
<1> HIDE DEF j
<1>4. a \in AllocRow
  BY <1>1, AllocStatus, Zenon
<1> HIDE DEF a
<1>5. b \in AllocRow
  BY <1>4, AllocCost, Zenon
<1> HIDE DEF b
<1>6. [b EXCEPT !.journal = j] \in AllocRow
  BY <1>2, <1>5, AllocJournal, Zenon
<1>7. alloc' \in [Cell -> AllocRow]
  BY <1>1, <1>3, <1>6, UpdateTyped, Zenon
<1>8. pool' \in Nat
  BY <1>1 DEF CaptureOverview
<1> QED
  BY <1>7, <1>8

\* ReleaseOverview keeps the types of what it writes.
LEMMA ReleaseTyped ==
    ASSUME TypeInv, NEW c \in Cell, NEW reason \in {"verdict", "obsolete"}, ReleaseOverview(c, reason)
    PROVE  alloc' \in [Cell -> AllocRow] /\ pool' \in Nat
<1> DEFINE a == [alloc[c] EXCEPT !.status = "released"]
<1>1. alloc \in [Cell -> AllocRow] /\ alloc[c] \in AllocRow /\ pool \in Nat
  BY DEF TypeInv
<1>2. alloc' = [alloc EXCEPT ![c] = [a EXCEPT !.reason = reason]]
  BY Zenon DEF ReleaseOverview
<1>3. a \in AllocRow
  BY <1>1, AllocStatus, Zenon
<1> HIDE DEF a
<1>4. [a EXCEPT !.reason = reason] \in AllocRow
  BY <1>3, AllocReason, Zenon
<1>5. alloc' \in [Cell -> AllocRow]
  BY <1>1, <1>2, <1>4, UpdateTyped, Zenon
<1> QED
  BY <1>1, <1>5 DEF ReleaseOverview

\* PlanSlot keeps the types.
LEMMA PlanSlotTyped ==
    ASSUME TypeInv, NEW c \in Cell, PlanSlot(c), UNCHANGED workflowVars
    PROVE  TypeInv'
<1>1. alloc \in [Cell -> AllocRow] /\ alloc[c] \in AllocRow
  BY DEF TypeInv
<1>2. [alloc[c] EXCEPT !.status = "authorized"] \in AllocRow
  BY <1>1, AllocStatus, Zenon
<1>3. alloc' = [alloc EXCEPT ![c] = [alloc[c] EXCEPT !.status = "authorized"]]
  BY Zenon DEF PlanSlot, AuthorizeOverview
<1>4. alloc' \in [Cell -> AllocRow]
  BY <1>1, <1>2, <1>3, UpdateTyped, Zenon
<1> QED
  BY <1>4 DEF PlanSlot, AuthorizeOverview, TypeInv, workflowVars

\* GetOrCreate keeps the types.
LEMMA GetOrCreateTyped ==
    ASSUME TypeInv, NEW r \in Revision, GetOrCreate(r), UNCHANGED workflowVars
    PROVE  TypeInv'
<1>1. slot \in [Cell -> SlotRow] /\ batch \in [Revision -> BatchRow] /\ batch[r] \in BatchRow
  BY DEF TypeInv
<1>2. slot' = [c \in Cell |-> IF Rev(c) = r /\ c[2] \in Range(Selected) THEN Planned ELSE slot[c]]
  BY DEF GetOrCreate
<1>3. slot' \in [Cell -> SlotRow]
  BY <1>1, <1>2, PlannedTyped
<1>4. [batch[r] EXCEPT !.status = "running"] \in BatchRow
  BY <1>1, BatchStatus, Zenon
<1>5. batch' = [batch EXCEPT ![r] = [batch[r] EXCEPT !.status = "running"]]
  BY Zenon DEF GetOrCreate
<1>6. batch' \in [Revision -> BatchRow]
  BY <1>1, <1>4, <1>5, UpdateTyped, Zenon
<1> QED
  BY <1>3, <1>6 DEF GetOrCreate, TypeInv, workflowVars

\* A set of natural numbers has a least one.
LEMMA Least ==
    ASSUME NEW S, S \subseteq Nat, S # {}
    PROVE  \E x \in S : \A y \in S : x <= y
<1> DEFINE R == OpToRel(<, Nat)
<1>1. IsWellFoundedOn(R, Nat)
  BY NatLessThanWellFounded
<1>2. \A x, y \in Nat : y < x => <<y, x>> \in R
  BY DEF OpToRel
<1> HIDE DEF R
<1>3. PICK x \in S : \A y \in S : ~(<<y, x>> \in R)
  BY <1>1, WFMin
<1>4. ASSUME NEW y \in S PROVE x <= y
  <2>1. ~(y < x)
    BY <1>2, <1>3, Zenon
  <2> QED
    BY <2>1
<1> QED
  BY <1>4

\* The next candidate is an agent of a provider that has no slot in the batch.
LEMMA CandidateIsAgent ==
    ASSUME NEW r, Unused(r) # {}
    PROVE  /\ NextCandidate(r) \in Agent
           /\ \A c \in Slots(r) : Provider[c[2]] # Provider[NextCandidate(r)]
<1> DEFINE i == CHOOSE i \in Unused(r) : \A j \in Unused(r) : i <= j
<1>1. Unused(r) \subseteq 1..Len(Qualified) /\ Len(Qualified) \in Nat
  BY DEF Unused
<1>2. \E k \in Unused(r) : \A j \in Unused(r) : k <= j
  <2> DEFINE S == Unused(r)
  <2>1. S \subseteq Nat /\ S # {}
    BY <1>1
  <2> HIDE DEF S
  <2>2. \E k \in S : \A j \in S : k <= j
    BY <2>1, Least
  <2> QED
    BY <2>2 DEF S
<1>3. i \in Unused(r)
  BY <1>2, Zenon
<1>4. NextCandidate(r) = Qualified[i]
  BY DEF NextCandidate
<1> HIDE DEF i
<1> QED
  BY <1>1, <1>3, <1>4 DEF Unused

\* AddReplacement keeps the types.
LEMMA AddReplacementTyped ==
    ASSUME TypeInv, NEW r \in Revision, AddReplacement(r), UNCHANGED workflowVars
    PROVE  TypeInv'
<1> DEFINE c == <<r, NextCandidate(r)>>
<1>1. slot \in [Cell -> SlotRow] /\ batch \in [Revision -> BatchRow] /\ batch[r] \in BatchRow
  BY DEF TypeInv
<1>2. c \in Cell
  BY CandidateIsAgent DEF AddReplacement
<1>3. slot' = [slot EXCEPT ![c] = [Planned EXCEPT !.replacement = TRUE]]
  BY DEF AddReplacement
<1> HIDE DEF c
<1>4. slot' \in [Cell -> SlotRow]
  BY <1>1, <1>2, <1>3, PlannedTyped, UpdateTyped, Zenon
<1>5. [batch[r] EXCEPT !.used = TRUE] \in BatchRow
  BY <1>1, BatchFields, Zenon
<1>6. batch' = [batch EXCEPT ![r] = [batch[r] EXCEPT !.used = TRUE]]
  BY Zenon DEF AddReplacement
<1>7. batch' \in [Revision -> BatchRow]
  BY <1>1, <1>5, <1>6, UpdateTyped, Zenon
<1> QED
  BY <1>4, <1>7 DEF AddReplacement, TypeInv, workflowVars

\* ExhaustReplacement keeps the types.
LEMMA ExhaustReplacementTyped ==
    ASSUME TypeInv, NEW r \in Revision, ExhaustReplacement(r), UNCHANGED workflowVars
    PROVE  TypeInv'
<1> DEFINE b == [batch[r] EXCEPT !.exhausted = TRUE]
<1>1. batch \in [Revision -> BatchRow] /\ batch[r] \in BatchRow
  BY DEF TypeInv
<1>2. batch' = [batch EXCEPT ![r] = b] \/ batch' = [batch EXCEPT ![r] = Finished(b)]
  BY Zenon DEF ExhaustReplacement
<1>3. b \in BatchRow
  BY <1>1, BatchFields, Zenon
<1> HIDE DEF b
<1>4. Finished(b) \in BatchRow
  BY <1>3, FinishedTyped, Zenon
<1>5. /\ [batch EXCEPT ![r] = b] \in [Revision -> BatchRow]
      /\ [batch EXCEPT ![r] = Finished(b)] \in [Revision -> BatchRow]
  BY <1>1, <1>3, <1>4, UpdateTyped, Zenon
<1>6. batch' \in [Revision -> BatchRow]
  BY <1>2, <1>5, Zenon
<1> QED
  BY <1>6 DEF ExhaustReplacement, TypeInv, workflowVars

\* ReverseCapture keeps the types.
LEMMA ReverseCaptureTyped ==
    ASSUME TypeInv, NEW c \in Cell, ReverseCapture(c), UNCHANGED slotVars, UNCHANGED workflowVars
    PROVE  TypeInv'
<1>1. alloc \in [Cell -> AllocRow] /\ alloc[c] \in AllocRow /\ pool \in Nat /\ alloc[c].cost \in Nat
  BY DEF TypeInv, AllocRow
<1>2. [alloc[c] EXCEPT !.journal = "reversed"] \in AllocRow
  BY <1>1, AllocJournal, Zenon
<1>3. alloc' = [alloc EXCEPT ![c] = [alloc[c] EXCEPT !.journal = "reversed"]]
  BY Zenon DEF ReverseCapture
<1>4. alloc' \in [Cell -> AllocRow]
  BY <1>1, <1>2, <1>3, UpdateTyped, Zenon
<1>5. pool' \in Nat
  BY <1>1 DEF ReverseCapture
<1> QED
  BY <1>4, <1>5 DEF ReverseCapture, TypeInv, slotVars, workflowVars

\* MarkObsoleteBefore keeps the types.
LEMMA MarkObsoleteBeforeTyped ==
    ASSUME TypeInv, NEW r \in Revision, MarkObsoleteBefore(r), UNCHANGED workflowVars
    PROVE  TypeInv'
<1>1. slot \in [Cell -> SlotRow] /\ batch \in [Revision -> BatchRow]
  BY DEF TypeInv
<1>2. \A q \in Revision : [batch[q] EXCEPT !.status = "obsolete"] \in BatchRow
  BY <1>1, BatchStatus, Zenon
<1>3. \A c \in Cell : [slot[c] EXCEPT !.status = "obsolete"] \in SlotRow
  BY <1>1, SlotStatus, Zenon
<1> DEFINE old == {q \in Revision : q < r /\ batch[q].status \in {"running", "completed"}}
<1>4. batch' = [q \in Revision |-> IF q \in old THEN [batch[q] EXCEPT !.status = "obsolete"] ELSE batch[q]]
  BY DEF MarkObsoleteBefore
<1>5. slot' = [c \in Cell |-> IF Rev(c) \in old /\ slot[c].status \in {"planned", "dispatched"}
                              THEN [slot[c] EXCEPT !.status = "obsolete"] ELSE slot[c]]
  BY DEF MarkObsoleteBefore
<1>6. releasing' \subseteq Cell
  BY DEF MarkObsoleteBefore, TypeInv
<1>7. batch' \in [Revision -> BatchRow]
  BY <1>1, <1>2, <1>4, Zenon
<1>8. slot' \in [Cell -> SlotRow]
  BY <1>1, <1>3, <1>5, Zenon
<1> QED
  BY <1>6, <1>7, <1>8 DEF MarkObsoleteBefore, TypeInv, workflowVars

\* A deliverable costs no more than the quote allows.
LEMMA UsedCostTyped ==
    ASSUME NEW k \in Content
    PROVE  UsedCost[k] \in 0..CostCap
OBVIOUS

\* Every step of a slot keeps the types: what is captured is the cost of a valid slot's
\* content.
LEMMA SlotStepTyped ==
    ASSUME TypeInv, Bills, NEW c \in Cell, SlotNext(c), UNCHANGED workflowVars
    PROVE  TypeInv'
<1>0. RowsFit(alloc[c], slot[c], batch[Rev(c)], work[c])
  BY DEF Bills
<1>1. CASE Dispatch(c)
  BY <1>1, SMTT(20) DEF TypeInv, workflowVars, Dispatch
<1>2. CASE RecordDispatched(c)
  BY <1>2, RecordDispatchedTyped
<1>3. CASE \E end \in Ended : WorkEnds(c, end)
  BY <1>3, SMTT(20) DEF TypeInv, workflowVars, WorkEnds
<1>4. CASE \E cancelled \in BOOLEAN : FindLate(c, cancelled)
  BY <1>4, SMTT(20) DEF TypeInv, workflowVars, FindLate, Ended
<1>5. CASE \E verdict \in Verdicts(c) : RecordValidation(c, verdict)
  BY <1>5, RecordValidationTyped
<1>6. CASE SettleMoney(c)
  <2>1. CASE slot[c].status = "valid" /\ CaptureOverview(c, UsedCost[slot[c].content])
    <3>1. UsedCost[slot[c].content] \in 0..CostCap
      BY <1>0, <2>1, UsedCostTyped DEF RowsFit
    <3>2. alloc' \in [Cell -> AllocRow] /\ pool' \in Nat
      BY <2>1, <3>1, CaptureTyped
    <3> QED
      BY <1>6, <2>1, <3>2 DEF SettleMoney, CaptureOverview, slotVars, workflowVars, TypeInv
  <2>2. CASE ReleaseOverview(c, "verdict")
    <3>1. alloc' \in [Cell -> AllocRow] /\ pool' \in Nat
      BY <2>2, ReleaseTyped
    <3> QED
      BY <1>6, <2>2, <3>1 DEF SettleMoney, ReleaseOverview, slotVars, workflowVars, TypeInv
  <2> QED
    BY <1>6, <2>1, <2>2 DEF SettleMoney
<1>7. CASE SettleRecord(c)
  <2>1. RecordBilling(c, "captured") \/ RecordBilling(c, "released")
    BY <1>7 DEF SettleRecord
  <2>2. slot' \in [Cell -> SlotRow] /\ batch' \in [Revision -> BatchRow]
    BY <2>1, RecordBillingTyped
  <2> QED
    BY <1>7, <2>2 DEF SettleRecord, workflowVars, TypeInv
<1>8. CASE SweepCancel(c)
  BY <1>8, SMTT(20) DEF TypeInv, workflowVars, SweepCancel, Ended
<1>9. CASE SweepRelease(c)
  <2>1. alloc' \in [Cell -> AllocRow] /\ pool' \in Nat
    BY <1>9, ReleaseTyped DEF SweepRelease
  <2> QED
    BY <1>9, <2>1 DEF SweepRelease, ReleaseOverview, slotVars, workflowVars, TypeInv
<1>10. CASE SweepRecord(c)
  <2>1. RecordBilling(c, "released") \/ UNCHANGED <<batch, slot>>
    BY <1>10 DEF SweepRecord
  <2>2. slot' \in [Cell -> SlotRow] /\ batch' \in [Revision -> BatchRow]
    BY <2>1, RecordBillingTyped DEF TypeInv
  <2> QED
    BY <1>10, <2>2 DEF SweepRecord, workflowVars, TypeInv
<1> QED
  BY <1>1, <1>2, <1>3, <1>4, <1>5, <1>6, <1>7, <1>8, <1>9, <1>10 DEF SlotNext

\* Every step of a batch keeps the types.
LEMMA BatchStepTyped ==
    ASSUME TypeInv, NEW r \in Revision, BatchNext(r), UNCHANGED workflowVars
    PROVE  TypeInv'
<1>1. CASE \E i \in 1..Limit : PlanSelection(r, i)
  <2>1. PICK i \in 1..Limit : PlanSelection(r, i)
    BY <1>1
  <2>2. <<r, Selected[i]>> \in Cell
    BY SelectedFacts
  <2> QED
    BY <2>1, <2>2, PlanSlotTyped DEF PlanSelection
<1>2. CASE GetOrCreate(r)
  BY <1>2, GetOrCreateTyped
<1>3. CASE DeadlinePasses(r)
  BY <1>3 DEF DeadlinePasses, TypeInv, workflowVars
<1>4. CASE PlanReplacement(r)
  <2>1. <<r, NextCandidate(r)>> \in Cell
    BY <1>4, CandidateIsAgent DEF PlanReplacement
  <2> QED
    BY <1>4, <2>1, PlanSlotTyped DEF PlanReplacement
<1>5. CASE AddReplacement(r)
  BY <1>5, AddReplacementTyped
<1>6. CASE ExhaustReplacement(r)
  BY <1>6, ExhaustReplacementTyped
<1> QED
  BY <1>1, <1>2, <1>3, <1>4, <1>5, <1>6 DEF BatchNext

\* Deposits and reversals keep the types.
LEMMA MaintenanceTyped ==
    ASSUME TypeInv, FundsMaintenance, UNCHANGED slotVars, UNCHANGED workflowVars
    PROVE  TypeInv'
<1>1. CASE \E n \in 1..MaxFundings : RecordFunding(n)
  BY <1>1, SMTT(20) DEF RecordFunding, TypeInv, slotVars, workflowVars
<1>2. CASE \E n \in 1..MaxFundings : ReverseFunding(n)
  BY <1>2, SMTT(20) DEF ReverseFunding, TypeInv, slotVars, workflowVars
<1>3. CASE \E c \in Cell : ReverseCapture(c)
  BY <1>3, ReverseCaptureTyped
<1> QED
  BY <1>1, <1>2, <1>3 DEF FundsMaintenance

\* Rows of matching_run_operations with one field changed.
LEMMA OpState ==
    ASSUME NEW x \in OpRow, NEW s \in {"none", "begun", "frozen", "completed"}
    PROVE  [x EXCEPT !.state = s] \in OpRow
BY Zenon DEF OpRow

\* The revision of an operation.
LEMMA OpRevision ==
    ASSUME NEW x \in OpRow, NEW r \in Revision \cup {0}
    PROVE  [x EXCEPT !.revision = r] \in OpRow
BY Zenon DEF OpRow

\* The draft of an operation.
LEMMA OpDraft ==
    ASSUME NEW x \in OpRow, NEW i \in Input
    PROVE  [x EXCEPT !.state = "frozen", !.input = i] \in OpRow
BY Zenon DEF OpRow

\* A row whose call died.
LEMMA OpForgotten ==
    ASSUME NEW x \in OpRow
    PROVE  Forgotten(x) \in OpRow
<1>1. [x EXCEPT !.revision = 0, !.swept = FALSE] \in OpRow
  BY DEF OpRow
<1> QED
  BY <1>1 DEF Forgotten

\* The end of an operation's sweep.
LEMMA OpSwept ==
    ASSUME NEW x \in OpRow
    PROVE  [x EXCEPT !.swept = TRUE] \in OpRow
BY Zenon DEF OpRow

\* Every step of an operation keeps the types.
LEMMA OperationStepTyped ==
    ASSUME TypeInv, NEW o \in Operation, OperationNext(o)
    PROVE  TypeInv'
<1>0. op \in [Operation -> OpRow] /\ op[o] \in OpRow
  BY DEF TypeInv
<1>1. CASE Begin(o)
  <2>1. [op[o] EXCEPT !.state = "begun"] \in OpRow
    BY <1>0, OpState, Zenon
  <2>2. op' = [op EXCEPT ![o] = [op[o] EXCEPT !.state = "begun"]]
    BY <1>1, Zenon DEF Begin
  <2>3. op' \in [Operation -> OpRow]
    BY <1>0, <2>1, <2>2, UpdateTyped, Zenon
  <2> QED
    BY <1>1, <2>3 DEF Begin, TypeInv, overviewVars
<1>2. CASE FreezeDraft(o)
  <2>0. PICK i \in Input : op' = [op EXCEPT ![o] = [@ EXCEPT !.state = "frozen", !.input = i]]
    BY <1>2, Zenon DEF FreezeDraft
  <2>1. PICK y \in OpRow : y = [op[o] EXCEPT !.state = "frozen", !.input = i]
    BY <1>0, OpDraft, Zenon
  <2>2. op' = [op EXCEPT ![o] = y]
    BY <2>0, <2>1, Zenon
  <2>3. op' \in [Operation -> OpRow]
    BY <1>0, <2>2, UpdateTyped
  <2> QED
    BY <1>2, <2>3 DEF FreezeDraft, TypeInv, overviewVars
<1>3. CASE CreateRevision(o)
  <2>1. PICK r \in Revision : op' = [op EXCEPT ![o].revision = r]
    BY <1>3 DEF CreateRevision, KnownDraft
  <2>2. [op[o] EXCEPT !.revision = r] \in OpRow
    BY <1>0, OpRevision, Zenon
  <2>3. op' = [op EXCEPT ![o] = [op[o] EXCEPT !.revision = r]]
    BY <2>1, Zenon
  <2>4. op' \in [Operation -> OpRow]
    BY <1>0, <2>2, <2>3, UpdateTyped, Zenon
  <2>5. latest' \in Revision \cup {0} /\ snapshot' \in [Revision -> Input \cup {NoInput}]
    <3>1. op[o].input \in Input \cup {NoInput}
      BY <1>0 DEF OpRow
    <3> QED
      BY <1>3, <3>1 DEF CreateRevision, TypeInv
  <2> QED
    BY <1>3, <2>4, <2>5 DEF CreateRevision, TypeInv, overviewVars
<1>4. CASE Supersede(o)
  <2>1. op[o].revision \in Revision
    BY <1>0, <1>4 DEF Supersede, OpRow
  <2> QED
    BY <1>4, <2>1, MarkObsoleteBeforeTyped DEF Supersede
<1>5. CASE Swept(o) \/ SweepFails(o)
  <2>1. [op[o] EXCEPT !.swept = TRUE] \in OpRow
    BY <1>0, OpSwept, Zenon
  <2>2. op' = [op EXCEPT ![o] = [op[o] EXCEPT !.swept = TRUE]]
    BY <1>5, Zenon DEF Swept, SweepFails
  <2>3. op' \in [Operation -> OpRow]
    BY <1>0, <2>1, <2>2, UpdateTyped, Zenon
  <2>4. UNCHANGED <<overviewVars, task, snapshot, latest, started>> /\ faults' \in 0..MaxFaults
    BY <1>5 DEF Swept, SweepFails, TypeInv
  <2> QED
    BY <2>3, <2>4 DEF TypeInv, overviewVars
<1>6. CASE CompleteOperation(o)
  <2>1. [op[o] EXCEPT !.state = "completed"] \in OpRow
    BY <1>0, OpState, Zenon
  <2>2. op' = [op EXCEPT ![o] = [op[o] EXCEPT !.state = "completed"]]
    BY <1>6, Zenon DEF CompleteOperation
  <2>3. op' \in [Operation -> OpRow]
    BY <1>0, <2>1, <2>2, UpdateTyped, Zenon
  <2> QED
    BY <1>6, <2>3 DEF CompleteOperation, TransitionTask, TypeInv, overviewVars
<1> QED
  BY <1>1, <1>2, <1>3, <1>4, <1>5, <1>6 DEF OperationNext

\* Every step keeps the types.
LEMMA StepTyped ==
    ASSUME TypeInv, Bills, [WorkflowNext]_pipelineVars
    PROVE  TypeInv'
<1>1. CASE OverviewNext
  <2>1. started \subseteq Revision
    BY DEF TypeInv
  <2> QED
    BY <1>1, <2>1, BatchStepTyped, SlotStepTyped, MaintenanceTyped DEF OverviewNext
<1>2. CASE \E o \in Operation : OperationNext(o)
  BY <1>2, OperationStepTyped
<1>3. CASE StartOverview
  BY <1>3 DEF StartOverview, TransitionTask, TypeInv, overviewVars
<1>4. CASE \E r \in Revision : StartOvertaken(r)
  <2> PICK r \in Revision : StartOvertaken(r)
    BY <1>4
  <2>1. latest \in Revision
    <3>1. r \in Nat \ {0} /\ latest > r /\ latest \in Revision \cup {0}
      BY DEF StartOvertaken, TypeInv
    <3> QED
      BY <3>1
  <2> QED
    BY <2>1, MarkObsoleteBeforeTyped DEF StartOvertaken
<1>5. CASE \E r \in Revision : OverviewReady(r)
  BY <1>5 DEF OverviewReady, TransitionTask, TypeInv, overviewVars
<1>6. CASE ProcessDies
  <2>1. \A o \in Operation : Forgotten(op[o]) \in OpRow
    BY OpForgotten DEF TypeInv
  <2>2. op' \in [Operation -> OpRow]
    BY <1>6, <2>1 DEF ProcessDies
  <2> QED
    BY <1>6, <2>2 DEF ProcessDies, Crash, TypeInv
<1>7. CASE UNCHANGED pipelineVars
  BY <1>7 DEF pipelineVars, TypeInv
<1> QED
  BY <1>1, <1>2, <1>3, <1>4, <1>5, <1>6, <1>7 DEF WorkflowNext

\* Dispatch keeps the rows of every cell fitting; so do the actions after it.
LEMMA DispatchFits ==
    ASSUME TypeInv, NEW d \in Cell, RowsFit(alloc[d], slot[d], batch[Rev(d)], work[d]),
           NEW c \in Cell, Dispatch(c)
    PROVE  RowsFit(alloc'[d], slot'[d], batch'[Rev(d)], work'[d])
BY CellParts, SMTT(20) DEF TypeInv, RowsFit, AllocRow, SlotRow, BatchRow, Dispatch, Ended

\* A dispatched slot is in a batch that is not obsolete.
LEMMA RecordDispatchedFits ==
    ASSUME TypeInv, NEW d \in Cell, RowsFit(alloc[d], slot[d], batch[Rev(d)], work[d]),
           NEW c \in Cell, RecordDispatched(c)
    PROVE  RowsFit(alloc'[d], slot'[d], batch'[Rev(d)], work'[d])
BY CellParts, SMTT(20) DEF TypeInv, RowsFit, AllocRow, SlotRow, BatchRow, RecordDispatched

\* Work that ends was begun.
LEMMA WorkEndsFits ==
    ASSUME TypeInv, NEW d \in Cell, RowsFit(alloc[d], slot[d], batch[Rev(d)], work[d]),
           NEW c \in Cell, NEW end \in Ended, WorkEnds(c, end)
    PROVE  RowsFit(alloc'[d], slot'[d], batch'[Rev(d)], work'[d])
BY CellParts, SMTT(20) DEF TypeInv, RowsFit, AllocRow, SlotRow, BatchRow, WorkEnds, Ended

\* Late work is cancelled or left.
LEMMA FindLateFits ==
    ASSUME TypeInv, NEW d \in Cell, RowsFit(alloc[d], slot[d], batch[Rev(d)], work[d]),
           NEW c \in Cell, NEW cancelled \in BOOLEAN, FindLate(c, cancelled)
    PROVE  RowsFit(alloc'[d], slot'[d], batch'[Rev(d)], work'[d])
BY CellParts, SMTT(20) DEF TypeInv, RowsFit, AllocRow, SlotRow, BatchRow, FindLate, Ended

\* A slot is found valid for a deliverable, never for a reason against it.
LEMMA RecordValidationFits ==
    ASSUME TypeInv, NEW d \in Cell, RowsFit(alloc[d], slot[d], batch[Rev(d)], work[d]),
           NEW c \in Cell, NEW verdict \in Verdicts(c), RecordValidation(c, verdict)
    PROVE  RowsFit(alloc'[d], slot'[d], batch'[Rev(d)], work'[d])
BY CellParts, SMTT(20) DEF TypeInv, RowsFit, AllocRow, SlotRow, BatchRow, RecordValidation, Verdicts, OpenToVerdict

\* The bill of a payment is written down after the payment.
LEMMA RecordCapturedFits ==
    ASSUME TypeInv, NEW d \in Cell, RowsFit(alloc[d], slot[d], batch[Rev(d)], work[d]),
           NEW c \in Cell, RecordBilling(c, "captured"), alloc[c].status = "captured", UNCHANGED <<alloc, work>>
    PROVE  RowsFit(alloc'[d], slot'[d], batch'[Rev(d)], work'[d])
BY CellParts, SMTT(20) DEF TypeInv, RowsFit, AllocRow, SlotRow, BatchRow, RecordBilling, Finished, Rev

\* The bill of a release is written down after the release.
LEMMA RecordReleasedFits ==
    ASSUME TypeInv, NEW d \in Cell, RowsFit(alloc[d], slot[d], batch[Rev(d)], work[d]),
           NEW c \in Cell, RecordBilling(c, "released"), alloc[c].status = "released", UNCHANGED <<alloc, work>>
    PROVE  RowsFit(alloc'[d], slot'[d], batch'[Rev(d)], work'[d])
BY CellParts, SMTT(20) DEF TypeInv, RowsFit, AllocRow, SlotRow, BatchRow, RecordBilling, Finished, Rev

\* Only a valid slot is paid, with the cost of its content.
LEMMA CaptureFits ==
    ASSUME TypeInv, NEW d \in Cell, RowsFit(alloc[d], slot[d], batch[Rev(d)], work[d]),
           NEW c \in Cell, slot[c].status = "valid", CaptureOverview(c, UsedCost[slot[c].content]), UNCHANGED <<batch, slot, work>>
    PROVE  RowsFit(alloc'[d], slot'[d], batch'[Rev(d)], work'[d])
<1>1. CASE c = d
  BY <1>1, CellParts, SMTT(30) DEF TypeInv, RowsFit, AllocRow, SlotRow, BatchRow, CaptureOverview
<1>2. CASE c # d
  BY <1>2, CellParts, SMTT(30) DEF TypeInv, CaptureOverview
<1> QED
  BY <1>1, <1>2

\* What is released was not paid.
LEMMA ReleaseFits ==
    ASSUME TypeInv, NEW d \in Cell, RowsFit(alloc[d], slot[d], batch[Rev(d)], work[d]),
           NEW c \in Cell, NEW reason \in {"verdict", "obsolete"}, ReleaseOverview(c, reason), UNCHANGED <<batch, slot, work>>
    PROVE  RowsFit(alloc'[d], slot'[d], batch'[Rev(d)], work'[d])
BY CellParts, SMTT(20) DEF TypeInv, RowsFit, AllocRow, SlotRow, BatchRow, ReleaseOverview

\* Cancelling work leaves it begun.
LEMMA SweepCancelFits ==
    ASSUME TypeInv, NEW d \in Cell, RowsFit(alloc[d], slot[d], batch[Rev(d)], work[d]),
           NEW c \in Cell, SweepCancel(c)
    PROVE  RowsFit(alloc'[d], slot'[d], batch'[Rev(d)], work'[d])
BY CellParts, SMTT(20) DEF TypeInv, RowsFit, AllocRow, SlotRow, BatchRow, SweepCancel, Ended

\* What is reserved has its execution.
LEMMA PlanSlotFits ==
    ASSUME TypeInv, NEW d \in Cell, RowsFit(alloc[d], slot[d], batch[Rev(d)], work[d]),
           NEW c \in Cell, PlanSlot(c)
    PROVE  RowsFit(alloc'[d], slot'[d], batch'[Rev(d)], work'[d])
BY CellParts, SMTT(20) DEF TypeInv, RowsFit, AllocRow, SlotRow, BatchRow, PlanSlot, AuthorizeOverview

\* The slots of a new batch have their reservations.
LEMMA GetOrCreateFits ==
    ASSUME TypeInv, NEW d \in Cell, RowsFit(alloc[d], slot[d], batch[Rev(d)], work[d]),
           NEW r \in Revision, GetOrCreate(r)
    PROVE  RowsFit(alloc'[d], slot'[d], batch'[Rev(d)], work'[d])
BY CellParts, SMTT(20) DEF TypeInv, RowsFit, AllocRow, SlotRow, BatchRow, GetOrCreate, Planned, NoSlot, Reauthorized, Rev

\* The next candidate has no slot in the batch.
LEMMA CandidateIsNew ==
    ASSUME NEW r \in Revision, Unused(r) # {}
    PROVE  <<r, NextCandidate(r)>> \in Cell /\ slot[<<r, NextCandidate(r)>>].status = "none"
<1> DEFINE a == NextCandidate(r)
<1>1. a \in Agent /\ \A c \in Slots(r) : Provider[c[2]] # Provider[a]
  BY CandidateIsAgent
<1> HIDE DEF a
<1>2. <<r, a>> \in Cell /\ Rev(<<r, a>>) = r /\ <<r, a>>[2] = a
  BY <1>1 DEF Rev
<1>3. <<r, a>> \notin Slots(r)
  BY <1>1, <1>2
<1>4. slot[<<r, a>>].status = "none"
  BY <1>2, <1>3 DEF Slots
<1> QED
  BY <1>2, <1>4 DEF a

\* A replacement is added to a batch that exists, and uses it up.
LEMMA AddReplacementFits ==
    ASSUME TypeInv, Bills, NEW d \in Cell,
           NEW r \in Revision, AddReplacement(r)
    PROVE  RowsFit(alloc'[d], slot'[d], batch'[Rev(d)], work'[d])
<1> DEFINE c == <<r, NextCandidate(r)>>
<1>1. c \in Cell /\ slot[c].status = "none"
  BY CandidateIsNew DEF AddReplacement
<1>2. Rev(c) = r
  BY DEF Rev
<1>3. /\ slot' = [slot EXCEPT ![c] = [Planned EXCEPT !.replacement = TRUE]]
      /\ batch' = [batch EXCEPT ![r].used = TRUE] /\ UNCHANGED <<alloc, work>>
      /\ alloc[c].status = "authorized" /\ batch[r].status # "obsolete"
  BY DEF AddReplacement, Reauthorized
<1>4. Rev(d) \in Revision
  BY CellParts
<1>5. batch[r].status # "none"
  <2>1. PICK e \in Slots(r) : slot[e].status = "invalid"
    BY DEF AddReplacement, ReplacementDue
  <2>2. e \in Cell /\ Rev(e) = r /\ RowsFit(alloc[e], slot[e], batch[Rev(e)], work[e])
    BY DEF Slots, Bills
  <2> QED
    BY <2>1, <2>2 DEF RowsFit
<1>6. RowsFit(alloc[d], slot[d], batch[Rev(d)], work[d])
  BY DEF Bills
<1> HIDE DEF c
<1> QED
  BY <1>1, <1>2, <1>3, <1>4, <1>5, <1>6, SMTT(20) DEF TypeInv, RowsFit, AllocRow, SlotRow, BatchRow, Planned, NoSlot

\* A batch without another candidate changes no slot.
LEMMA ExhaustReplacementFits ==
    ASSUME TypeInv, NEW d \in Cell, RowsFit(alloc[d], slot[d], batch[Rev(d)], work[d]),
           NEW r \in Revision, ExhaustReplacement(r)
    PROVE  RowsFit(alloc'[d], slot'[d], batch'[Rev(d)], work'[d])
BY CellParts, SMTT(20) DEF TypeInv, RowsFit, AllocRow, SlotRow, BatchRow, ExhaustReplacement, Finished

\* A reversal leaves the allocation captured.
LEMMA ReverseCaptureFits ==
    ASSUME TypeInv, NEW d \in Cell, RowsFit(alloc[d], slot[d], batch[Rev(d)], work[d]),
           NEW c \in Cell, ReverseCapture(c), UNCHANGED slotVars
    PROVE  RowsFit(alloc'[d], slot'[d], batch'[Rev(d)], work'[d])
BY CellParts, SMTT(20) DEF TypeInv, RowsFit, AllocRow, SlotRow, BatchRow, ReverseCapture, slotVars

\* What is superseded is obsolete with its batch; what was found valid stays so.
LEMMA MarkObsoleteBeforeFits ==
    ASSUME TypeInv, NEW d \in Cell, RowsFit(alloc[d], slot[d], batch[Rev(d)], work[d]),
           NEW r \in Revision, MarkObsoleteBefore(r)
    PROVE  RowsFit(alloc'[d], slot'[d], batch'[Rev(d)], work'[d])
BY CellParts, SMTT(20) DEF TypeInv, RowsFit, AllocRow, SlotRow, BatchRow, MarkObsoleteBefore

\* What the death of a process does to the operations.
CallsForgotten ==
    UNCHANGED <<task, snapshot, latest, started>> /\ op' = [o \in Operation |-> Forgotten(op[o])]

\* The steps of WorkflowNext, by what they do to the overviews.
LEMMA StepKinds ==
    ASSUME TypeInv, [WorkflowNext]_pipelineVars
    PROVE  \/ \E c \in Cell : SlotNext(c) /\ UNCHANGED workflowVars
           \/ \E r \in started : r \in Revision /\ BatchNext(r) /\ UNCHANGED workflowVars
           \/ FundsMaintenance /\ UNCHANGED slotVars /\ UNCHANGED workflowVars
           \/ \E r \in Revision : MarkObsoleteBefore(r) /\ UNCHANGED workflowVars
           \/ /\ UNCHANGED <<pool, funding, alloc, slot, batch, work>>
              /\ \/ \E o \in Operation : OperationNext(o) /\ ~Supersede(o)
                 \/ StartOverview
                 \/ \E r \in Revision : OverviewReady(r)
                 \/ UNCHANGED workflowVars
                 \/ CallsForgotten
<1>1. CASE OverviewNext
  BY <1>1 DEF OverviewNext, TypeInv
<1>2. CASE \E o \in Operation : Supersede(o)
  <2> PICK o \in Operation : Supersede(o)
    BY <1>2
  <2>1. op[o].revision \in Revision
    BY DEF TypeInv, Supersede, OpRow
  <2> QED
    BY <2>1 DEF Supersede
<1>3. CASE \E o \in Operation : OperationNext(o) /\ ~Supersede(o)
  <2> PICK o \in Operation : OperationNext(o) /\ ~Supersede(o)
    BY <1>3
  <2>1. UNCHANGED overviewVars
    BY DEF OperationNext, Begin, FreezeDraft, CreateRevision, Swept, SweepFails, CompleteOperation
  <2> QED
    BY <1>3, <2>1 DEF overviewVars
<1>4. CASE StartOverview
  BY <1>4 DEF StartOverview, overviewVars
<1>5. CASE \E r \in Revision : StartOvertaken(r)
  <2> PICK r \in Revision : StartOvertaken(r)
    BY <1>5
  <2>1. latest \in Revision
    <3>1. r \in Nat \ {0} /\ latest > r /\ latest \in Revision \cup {0}
      BY DEF StartOvertaken, TypeInv
    <3> QED
      BY <3>1
  <2> QED
    BY <2>1 DEF StartOvertaken
<1>6. CASE \E r \in Revision : OverviewReady(r)
  BY <1>6 DEF OverviewReady, overviewVars
<1>7. CASE ProcessDies
  BY <1>7 DEF ProcessDies, Crash, CallsForgotten
<1>8. CASE UNCHANGED pipelineVars
  BY <1>8 DEF pipelineVars, workflowVars
<1> QED
  BY <1>1, <1>2, <1>3, <1>4, <1>5, <1>6, <1>7, <1>8 DEF WorkflowNext

\* Every step keeps the rows of every cell fitting.
LEMMA StepFits ==
    ASSUME TypeInv, Bills, [WorkflowNext]_pipelineVars
    PROVE  Bills'
<1> SUFFICES ASSUME NEW d \in Cell PROVE RowsFit(alloc'[d], slot'[d], batch'[Rev(d)], work'[d])
  BY DEF Bills, Rev
<1>0. RowsFit(alloc[d], slot[d], batch[Rev(d)], work[d])
  BY DEF Bills
<1>1. ASSUME NEW c \in Cell, SlotNext(c)
      PROVE  RowsFit(alloc'[d], slot'[d], batch'[Rev(d)], work'[d])
  <2>0. RowsFit(alloc[c], slot[c], batch[Rev(c)], work[c])
    BY DEF Bills
  <2>1. CASE SettleMoney(c)
    <3>1. UNCHANGED <<batch, slot, work>>
      BY <2>1 DEF SettleMoney, slotVars
    <3>2. \/ slot[c].status = "valid" /\ CaptureOverview(c, UsedCost[slot[c].content])
          \/ ReleaseOverview(c, "verdict")
      BY <2>1 DEF SettleMoney
    <3> QED
      BY <1>0, <3>1, <3>2, CaptureFits, ReleaseFits
  <2>2. CASE SettleRecord(c)
    <3>1. UNCHANGED <<alloc, work>>
      BY <2>2 DEF SettleRecord
    <3>2. CASE alloc[c].status = "captured" /\ RecordBilling(c, "captured")
      BY <1>0, <3>1, <3>2, RecordCapturedFits
    <3>3. CASE alloc[c].reason = "verdict" /\ RecordBilling(c, "released")
      <4>1. alloc[c].status = "released"
        BY <2>0, <3>3 DEF RowsFit
      <4> QED
        BY <1>0, <3>1, <3>3, <4>1, RecordReleasedFits
    <3> QED
      BY <2>2, <3>2, <3>3 DEF SettleRecord
  <2>3. CASE SweepRelease(c)
    <3>1. UNCHANGED <<batch, slot, work>> /\ ReleaseOverview(c, "obsolete")
      BY <2>3 DEF SweepRelease, slotVars
    <3> QED
      BY <1>0, <3>1, ReleaseFits
  <2>4. CASE SweepRecord(c)
    <3>1. UNCHANGED <<alloc, work>>
      BY <2>4 DEF SweepRecord
    <3>2. CASE alloc[c].reason = "obsolete" /\ RecordBilling(c, "released")
      <4>1. alloc[c].status = "released"
        BY <2>0, <3>2 DEF RowsFit
      <4> QED
        BY <1>0, <3>1, <3>2, <4>1, RecordReleasedFits
    <3>3. CASE UNCHANGED <<batch, slot>>
      BY <1>0, <3>1, <3>3
    <3> QED
      BY <2>4, <3>2, <3>3 DEF SweepRecord
  <2> QED
    BY <1>0, <1>1, <2>1, <2>2, <2>3, <2>4, DispatchFits, RecordDispatchedFits, WorkEndsFits,
       FindLateFits, RecordValidationFits, SweepCancelFits DEF SlotNext
<1>2. ASSUME NEW r \in Revision, BatchNext(r)
      PROVE  RowsFit(alloc'[d], slot'[d], batch'[Rev(d)], work'[d])
  <2>1. CASE \E i \in 1..Limit : PlanSelection(r, i)
    <3>1. PICK i \in 1..Limit : PlanSelection(r, i)
      BY <2>1
    <3>2. <<r, Selected[i]>> \in Cell
      BY SelectedFacts
    <3> QED
      BY <1>0, <3>1, <3>2, PlanSlotFits DEF PlanSelection
  <2>2. CASE PlanReplacement(r)
    <3>1. <<r, NextCandidate(r)>> \in Cell
      BY <2>2, CandidateIsNew DEF PlanReplacement
    <3> QED
      BY <1>0, <2>2, <3>1, PlanSlotFits DEF PlanReplacement
  <2>3. CASE DeadlinePasses(r)
    BY <1>0, <2>3 DEF DeadlinePasses
  <2> QED
    BY <1>0, <1>2, <2>1, <2>2, <2>3, GetOrCreateFits, AddReplacementFits, ExhaustReplacementFits
       DEF BatchNext
<1>3. ASSUME FundsMaintenance, UNCHANGED slotVars
      PROVE  RowsFit(alloc'[d], slot'[d], batch'[Rev(d)], work'[d])
  <2>1. CASE UNCHANGED alloc
    BY <1>0, <1>3, <2>1 DEF slotVars
  <2>2. CASE \E c \in Cell : ReverseCapture(c)
    BY <1>0, <1>3, <2>2, ReverseCaptureFits
  <2> QED
    BY <1>3, <2>1, <2>2 DEF FundsMaintenance, RecordFunding, ReverseFunding
<1>4. ASSUME NEW r, r \in Revision, MarkObsoleteBefore(r)
      PROVE  RowsFit(alloc'[d], slot'[d], batch'[Rev(d)], work'[d])
  BY <1>0, <1>4, MarkObsoleteBeforeFits
<1>5. CASE UNCHANGED <<alloc, slot, batch, work>>
  BY <1>0, <1>5
<1> QED
  BY <1>1, <1>2, <1>3, <1>4, <1>5, StepKinds

-----------------------------------------------------------------------------
(* What most steps leave as it was. *)

\* A slot stays, a verdict is final, and so is a bill.
SlotLives(s, t) ==
    /\ s.status = "none" <=> t.status = "none"
    /\ s.replacement <=> t.replacement
    /\ s.status \in {"valid", "invalid"} => t.status = s.status
    /\ s.billing # "authorized" => t.billing = s.billing

\* No deliverable is accepted in this step.
NoneAccepted(s, t) == t.status = "valid" => s.status = "valid" /\ t.content = s.content

BatchLives(b, e) ==
    /\ b.status = "none" <=> e.status = "none"
    /\ e.status \in {"running", "completed"} => b.status \in {"running", "completed"}
    /\ b.used <=> e.used
    /\ b.exhausted => e.exhausted
    /\ b.done => e.done

SlotsLive == \A c \in Cell : SlotLives(slot[c], slot'[c])
BatchesLive == \A r \in Revision : BatchLives(batch[r], batch'[r])
AllocsKept == \A c \in Cell : alloc[c].status = "none" <=> alloc'[c].status = "none"
NoneFinished == \A r \in Revision : batch'[r].status = "completed" => batch[r].status = "completed"
NoneExhausted == \A r \in Revision : batch[r].exhausted <=> batch'[r].exhausted

\* The next candidate depends on the slots of the batch alone.
LEMMA CandidateKept ==
    ASSUME NEW r \in Revision, Slots(r)' = Slots(r)
    PROVE  Unused(r)' = Unused(r) /\ NextCandidate(r)' = NextCandidate(r)
<1>1. Unused(r)' = Unused(r)
  BY DEF Unused
<1>2. NextCandidate(r)' = NextCandidate(r)
  BY <1>1 DEF NextCandidate
<1> QED
  BY <1>1, <1>2

\* Slots that live on are the slots of their batch.
LEMMA SlotsKept ==
    ASSUME SlotsLive, NEW r \in Revision
    PROVE  Slots(r)' = Slots(r) /\ Unused(r)' = Unused(r) /\ NextCandidate(r)' = NextCandidate(r)
<1>1. Slots(r)' = Slots(r)
  BY DEF SlotsLive, SlotLives, Slots
<1> QED
  BY <1>1, CandidateKept

\* Slots stay apart while they live on and nothing new is accepted.
LEMMA ApartKept ==
    ASSUME Apart, SlotsLive, \A c \in Cell : NoneAccepted(slot[c], slot'[c])
    PROVE  Apart'
<1> SUFFICES ASSUME NEW c \in Cell, NEW d \in Cell, c # d, Rev(c) = Rev(d) PROVE PairFits(c, d)'
  BY DEF Apart, Rev
<1>1. PairFits(c, d)
  BY DEF Apart
<1>2. SlotLives(slot[c], slot'[c]) /\ SlotLives(slot[d], slot'[d])
  BY DEF SlotsLive
<1>3. NoneAccepted(slot[c], slot'[c]) /\ NoneAccepted(slot[d], slot'[d])
  OBVIOUS
<1> QED
  BY <1>1, <1>2, <1>3 DEF PairFits, SlotLives, NoneAccepted

\* A due replacement stays due while slots and batches live on.
LEMMA PlanningKept ==
    ASSUME TypeInv, Planning, SlotsLive, BatchesLive, AllocsKept, NoneExhausted
    PROVE  Planning'
<1> SUFFICES ASSUME NEW c \in Cell, alloc'[c].status # "none", slot'[c].status = "none"
             PROVE  /\ batch'[Rev(c)].status = "none" => c[2] \in Range(Selected)
                    /\ batch'[Rev(c)].status \in {"running", "completed"} =>
                          ReplacementDue(Rev(c))' /\ Unused(Rev(c))' # {} /\ c[2] = NextCandidate(Rev(c))'
  BY DEF Planning, Rev
<1> DEFINE r == Rev(c)
<1>1. r \in Revision
  BY CellParts
<1>2. alloc[c].status # "none" /\ slot[c].status = "none"
  BY DEF AllocsKept, SlotsLive, SlotLives
<1>3. BatchLives(batch[r], batch'[r])
  BY <1>1 DEF BatchesLive
<1>4. CASE batch'[r].status \in {"running", "completed"}
  <2>1. ReplacementDue(r) /\ Unused(r) # {} /\ c[2] = NextCandidate(r)
    BY <1>2, <1>3, <1>4 DEF Planning, BatchLives
  <2>2. PICK e \in Slots(r) : slot[e].status = "invalid" /\ slot[e].billing # "authorized"
    BY <2>1 DEF ReplacementDue
  <2>3. e \in Cell /\ SlotLives(slot[e], slot'[e])
    BY <2>2 DEF Slots, SlotsLive
  <2>4. slot'[e].status = "invalid" /\ slot'[e].billing # "authorized"
    BY <2>2, <2>3 DEF SlotLives
  <2>5. ~batch'[r].used /\ ~batch'[r].exhausted
    BY <1>1, <1>3, <2>1 DEF ReplacementDue, BatchLives, NoneExhausted
  <2>6. Slots(r)' = Slots(r) /\ Unused(r)' = Unused(r) /\ NextCandidate(r)' = NextCandidate(r)
    BY <1>1, SlotsKept
  <2>7. e \in Slots(r)'
    BY <2>6
  <2>8. ReplacementDue(r)'
    BY <2>4, <2>5, <2>7, Zenon DEF ReplacementDue
  <2> HIDE DEF r
  <2> QED
    BY <1>4, <2>1, <2>6, <2>8 DEF r
<1>5. CASE batch'[r].status = "none"
  BY <1>2, <1>3, <1>5 DEF Planning, BatchLives
<1> QED
  BY <1>4, <1>5

\* A batch that is settled stays settled.
LEMMA DoneAtKept ==
    ASSUME SlotsLive, BatchesLive, NEW r \in Revision, DoneAt(r)
    PROVE  DoneAt(r)'
<1>1. Slots(r)' = Slots(r)
  BY SlotsKept
<1>2. ASSUME NEW c \in Slots(r)
      PROVE  /\ slot'[c].status \in {"valid", "invalid"} /\ slot'[c].billing # "authorized"
             /\ slot'[c].status = slot[c].status
  <2>1. SlotLives(slot[c], slot'[c])
    BY DEF Slots, SlotsLive
  <2>2. slot[c].status \in {"valid", "invalid"} /\ slot[c].billing # "authorized"
    BY DEF DoneAt
  <2> QED
    BY <2>1, <2>2 DEF SlotLives
<1>3. BatchLives(batch[r], batch'[r])
  BY DEF BatchesLive
<1>4. ASSUME NEW c \in Slots(r), slot'[c].status = "invalid"
      PROVE  batch'[r].used \/ batch'[r].exhausted
  <2>1. slot[c].status = "invalid"
    BY <1>2, <1>4
  <2>2. batch[r].used \/ batch[r].exhausted
    BY <2>1 DEF DoneAt
  <2> QED
    BY <1>3, <2>2 DEF BatchLives
<1> QED
  BY <1>1, <1>2, <1>4 DEF DoneAt

\* Completed batches stay settled while none is finished.
LEMMA DoneKept ==
    ASSUME Done, SlotsLive, BatchesLive, NoneFinished
    PROVE  Done'
<1> SUFFICES ASSUME NEW r \in Revision, batch'[r].status = "completed" PROVE DoneAt(r)'
  BY DEF Done
<1>1. DoneAt(r)
  BY DEF Done, NoneFinished
<1> QED
  BY <1>1, DoneAtKept

\* What concerns more than one row.
Rest == Apart /\ Planning /\ Done

\* Steps that touch neither slots nor batches, and plan nothing.
LEMMA QuietStep ==
    ASSUME TypeInv, Rest, UNCHANGED <<slot, batch>>, AllocsKept
    PROVE  Rest'
<1>1. SlotsLive /\ BatchesLive /\ NoneFinished /\ NoneExhausted
  BY DEF SlotsLive, SlotLives, BatchesLive, BatchLives, NoneFinished, NoneExhausted
<1>2. \A c \in Cell : NoneAccepted(slot[c], slot'[c])
  BY DEF NoneAccepted
<1> QED
  BY <1>1, <1>2, ApartKept, PlanningKept, DoneKept DEF Rest

\* Nothing is planned.
LEMMA SameAllocs ==
    ASSUME UNCHANGED alloc
    PROVE  AllocsKept
BY DEF AllocsKept

\* A dispatch that is recorded.
LEMMA RecordDispatchedRest ==
    ASSUME TypeInv, Rest, NEW c \in Cell, RecordDispatched(c)
    PROVE  Rest'
<1>1. SlotsLive /\ \A d \in Cell : NoneAccepted(slot[d], slot'[d])
  <2> SUFFICES ASSUME NEW d \in Cell PROVE SlotLives(slot[d], slot'[d]) /\ NoneAccepted(slot[d], slot'[d])
    BY DEF SlotsLive
  <2> QED
    BY SMTT(20) DEF TypeInv, SlotRow, RecordDispatched, SlotLives, NoneAccepted
<1>2. BatchesLive /\ NoneFinished /\ NoneExhausted /\ AllocsKept
  BY SameAllocs DEF RecordDispatched, BatchesLive, BatchLives, NoneFinished, NoneExhausted
<1> QED
  BY <1>1, <1>2, ApartKept, PlanningKept, DoneKept DEF Rest

\* A verdict: a deliverable some other slot of the batch brought before is refused.
LEMMA RecordValidationRest ==
    ASSUME TypeInv, Rest, NEW c \in Cell, NEW verdict \in Verdicts(c), RecordValidation(c, verdict)
    PROVE  Rest'
<1>0. /\ slot[c].status = "dispatched"
      /\ slot'[c].status = (IF verdict = NoContent \/ Duplicate(c, verdict) THEN "invalid" ELSE "valid")
      /\ slot'[c].content = verdict /\ (slot'[c].replacement <=> slot[c].replacement)
      /\ slot'[c].billing = slot[c].billing
      /\ \A d \in Cell : d # c => slot'[d] = slot[d]
  BY SMTT(20) DEF TypeInv, SlotRow, RecordValidation, OpenToVerdict
<1>1. SlotsLive
  BY <1>0 DEF SlotsLive, SlotLives
<1>2. BatchesLive /\ NoneFinished /\ NoneExhausted /\ AllocsKept
  BY SameAllocs DEF RecordValidation, BatchesLive, BatchLives, NoneFinished, NoneExhausted
<1>3. ASSUME NEW d \in Cell, d # c, Rev(d) = Rev(c), slot'[c].status = "valid", slot[d].status = "valid"
      PROVE  slot[d].content # verdict
  <2>1. ~Duplicate(c, verdict)
    BY <1>0, <1>3
  <2>2. d \in Slots(Rev(c)) \ {c}
    BY <1>3 DEF Slots
  <2> QED
    BY <1>3, <2>1, <2>2 DEF Duplicate
<1>4. Apart'
  <2> SUFFICES ASSUME NEW d \in Cell, NEW e \in Cell, d # e, Rev(d) = Rev(e) PROVE PairFits(d, e)'
    BY DEF Apart, Rev
  <2>1. PairFits(d, e)
    BY DEF Apart, Rest
  <2>2. SlotLives(slot[d], slot'[d]) /\ SlotLives(slot[e], slot'[e])
    BY <1>1 DEF SlotsLive
  <2>3. CASE d = c
    BY <1>0, <1>3, <2>1, <2>2, <2>3 DEF PairFits, SlotLives
  <2>4. CASE e = c
    BY <1>0, <1>3, <2>1, <2>2, <2>4 DEF PairFits, SlotLives
  <2>5. CASE d # c /\ e # c
    BY <1>0, <2>1, <2>5 DEF PairFits
  <2> QED
    BY <2>3, <2>4, <2>5
<1> QED
  BY <1>1, <1>2, <1>4, PlanningKept, DoneKept DEF Rest

\* A bill, with the batch it may finish: a running batch has no obsolete slot, so every slot
\* of a finished one has its verdict.
LEMMA RecordBillingRest ==
    ASSUME TypeInv, OverviewInv, NEW c \in Cell, NEW billing \in {"captured", "released"},
           RecordBilling(c, billing), UNCHANGED alloc
    PROVE  Rest' /\ BatchesLive
<1>0. /\ slot[c].billing = "authorized" /\ slot'[c].billing = billing
      /\ slot'[c].status = slot[c].status
      /\ slot'[c].content = slot[c].content /\ (slot'[c].replacement <=> slot[c].replacement)
      /\ \A d \in Cell : d # c => slot'[d] = slot[d]
  BY SMTT(20) DEF TypeInv, SlotRow, RecordBilling
<1> DEFINE r == Rev(c)
<1>1. SlotsLive
  BY <1>0 DEF SlotsLive, SlotLives
<1>2. \A d \in Cell : NoneAccepted(slot[d], slot'[d])
  BY <1>0 DEF NoneAccepted
<1>3. r \in Revision /\ batch \in [Revision -> BatchRow]
  BY CellParts DEF TypeInv
<1>4. \/ batch' = batch
      \/ Complete(r, slot') /\ batch' = [batch EXCEPT ![r] = Finished(batch[r])]
  BY Zenon DEF RecordBilling
<1>5. /\ BatchLives(batch[r], Finished(batch[r]))
      /\ batch[r].exhausted <=> Finished(batch[r]).exhausted
  BY <1>3, SMTT(20) DEF BatchRow, BatchLives, Finished
<1> HIDE DEF r
<1>6. ASSUME NEW q \in Revision
      PROVE  BatchLives(batch[q], batch'[q]) /\ (batch[q].exhausted <=> batch'[q].exhausted)
  <2>1. batch'[q] = batch[q] \/ (q = r /\ batch'[q] = Finished(batch[r]))
    BY <1>3, <1>4
  <2>2. CASE batch'[q] = batch[q]
    BY <2>2 DEF BatchLives
  <2>3. CASE q = r /\ batch'[q] = Finished(batch[r])
    BY <1>5, <2>3
  <2> QED
    BY <2>1, <2>2, <2>3
<1>7. BatchesLive /\ NoneExhausted
  BY <1>6 DEF BatchesLive, NoneExhausted
<1>8. Done'
  <2> SUFFICES ASSUME NEW q \in Revision, batch'[q].status = "completed" PROVE DoneAt(q)'
    BY DEF Done
  <2>1. CASE batch[q].status = "completed"
    <3>1. DoneAt(q)
      BY <2>1 DEF Done, OverviewInv
    <3> QED
      BY <1>1, <1>7, <3>1, DoneAtKept
  <2>2. CASE batch[q].status # "completed"
    <3>1. q = r /\ Complete(r, slot')
      BY <1>3, <1>4, <2>2
    <3>2. Slots(r)' = Slots(r)
      BY <1>1, <1>3, SlotsKept
    <3>3. \A d \in Slots(r) : slot'[d].status \notin {"planned", "dispatched"} /\ slot'[d].billing # "authorized"
      BY <3>1 DEF Complete
    <3>4. (\E d \in Slots(r) : slot'[d].status = "invalid") => batch[r].used \/ batch[r].exhausted
      BY <3>1 DEF Complete
    <3>5. ASSUME NEW d \in Slots(r) PROVE slot'[d].status \in {"valid", "invalid"}
      <4>1. d \in Cell /\ Rev(d) = r /\ slot[d].status # "none"
        BY DEF Slots
      <4>2. slot'[d].status = slot[d].status /\ slot[d] \in SlotRow
        BY <1>0, <4>1 DEF TypeInv
      <4>3. batch[r].status # "obsolete"
        BY <1>3, <2>2, <3>1, <1>6 DEF BatchLives
      <4>4. RowsFit(alloc[d], slot[d], batch[r], work[d])
        BY <4>1 DEF OverviewInv, Bills
      <4>5. slot[d].status # "obsolete"
        BY <4>3, <4>4 DEF RowsFit
      <4> QED
        BY <3>3, <4>1, <4>2, <4>5 DEF SlotRow
    <3>6. BatchLives(batch[r], batch'[r])
      BY <1>3, <1>6
    <3> QED
      BY <3>1, <3>2, <3>3, <3>4, <3>5, <3>6 DEF DoneAt, BatchLives
  <2> QED
    BY <2>1, <2>2
<1> QED
  BY <1>1, <1>2, <1>7, <1>8, SameAllocs, ApartKept, PlanningKept DEF Rest, OverviewInv

\* A superseded batch is no longer completed and accepts nothing.
LEMMA MarkObsoleteBeforeRest ==
    ASSUME TypeInv, Rest, NEW r \in Revision, MarkObsoleteBefore(r)
    PROVE  Rest' /\ BatchesLive
<1> DEFINE old == {q \in Revision : q < r /\ batch[q].status \in {"running", "completed"}}
<1>1. batch' = [q \in Revision |-> IF q \in old THEN [batch[q] EXCEPT !.status = "obsolete"] ELSE batch[q]]
  BY DEF MarkObsoleteBefore
<1>2. slot' = [c \in Cell |-> IF Rev(c) \in old /\ slot[c].status \in {"planned", "dispatched"}
                              THEN [slot[c] EXCEPT !.status = "obsolete"] ELSE slot[c]]
  BY DEF MarkObsoleteBefore
<1>3. ASSUME NEW d \in Cell
      PROVE  SlotLives(slot[d], slot'[d]) /\ NoneAccepted(slot[d], slot'[d])
  BY <1>2, SMTT(20) DEF TypeInv, SlotRow, SlotLives, NoneAccepted
<1>4. ASSUME NEW q \in Revision
      PROVE  /\ BatchLives(batch[q], batch'[q]) /\ (batch[q].exhausted <=> batch'[q].exhausted)
             /\ batch'[q].status = "completed" => batch[q].status = "completed"
  BY <1>1, SMTT(20) DEF TypeInv, BatchRow, BatchLives
<1>5. SlotsLive /\ BatchesLive /\ NoneFinished /\ NoneExhausted
  BY <1>3, <1>4 DEF SlotsLive, BatchesLive, NoneFinished, NoneExhausted
<1>6. AllocsKept
  BY SameAllocs DEF MarkObsoleteBefore
<1> QED
  BY <1>3, <1>5, <1>6, ApartKept, PlanningKept, DoneKept DEF Rest

\* A batch may be finished for want of candidates; then nothing was reserved for one.
LEMMA ExhaustReplacementRest ==
    ASSUME TypeInv, OverviewInv, NEW r \in Revision, ExhaustReplacement(r)
    PROVE  Rest' /\ BatchesLive
<1> DEFINE b == [batch[r] EXCEPT !.exhausted = TRUE]
           settled == \A c \in Slots(r) : slot[c].status \notin {"planned", "dispatched"}
                                          /\ slot[c].billing # "authorized"
<1>0. batch \in [Revision -> BatchRow] /\ UNCHANGED <<slot, alloc>> /\ Unused(r) = {}
  BY DEF TypeInv, ExhaustReplacement
<1>1. \/ batch' = [batch EXCEPT ![r] = b]
      \/ settled /\ batch' = [batch EXCEPT ![r] = Finished(b)]
  BY Zenon DEF ExhaustReplacement
<1>2. /\ BatchLives(batch[r], b) /\ b.exhausted /\ b.status = batch[r].status
      /\ BatchLives(batch[r], Finished(b)) /\ Finished(b).exhausted
      /\ Finished(b).status = "completed" => batch[r].status \in {"running", "completed"}
  BY <1>0, SMTT(20) DEF BatchRow, BatchLives, Finished
<1> HIDE DEF b
<1>3. SlotsLive /\ AllocsKept /\ \A c \in Cell : NoneAccepted(slot[c], slot'[c])
  BY <1>0, SameAllocs DEF SlotsLive, SlotLives, NoneAccepted
<1>4. /\ \A q \in Revision : q # r => batch'[q] = batch[q]
      /\ batch'[r] = b \/ (settled /\ batch'[r] = Finished(b))
  BY <1>0, <1>1, Zenon
<1> HIDE DEF settled
<1>5. BatchesLive
  <2> SUFFICES ASSUME NEW q \in Revision PROVE BatchLives(batch[q], batch'[q])
    BY DEF BatchesLive
  <2>1. CASE q = r
    BY <1>2, <1>4, <2>1
  <2>2. CASE q # r
    BY <1>4, <2>2 DEF BatchLives
  <2> QED
    BY <2>1, <2>2
<1>6. batch'[r].exhausted
  BY <1>2, <1>4
<1>7. Apart'
  BY <1>3, ApartKept DEF OverviewInv
<1>8. Planning'
  <2> SUFFICES ASSUME NEW c \in Cell, alloc'[c].status # "none", slot'[c].status = "none"
               PROVE  /\ batch'[Rev(c)].status = "none" => c[2] \in Range(Selected)
                      /\ batch'[Rev(c)].status \in {"running", "completed"} =>
                            ReplacementDue(Rev(c))' /\ Unused(Rev(c))' # {} /\ c[2] = NextCandidate(Rev(c))'
    BY DEF Planning, Rev
  <2>1. Rev(c) \in Revision /\ BatchLives(batch[Rev(c)], batch'[Rev(c)])
    BY <1>5, CellParts DEF BatchesLive
  <2>2. alloc[c].status # "none" /\ slot[c].status = "none"
    BY <1>0
  <2>3. CASE Rev(c) = r
    <3>1. batch[r].status \notin {"running", "completed"}
      BY <1>0, <2>2, <2>3 DEF OverviewInv, Planning
    <3> QED
      BY <2>1, <2>2, <2>3, <3>1 DEF OverviewInv, Planning, BatchLives
  <2>4. CASE Rev(c) # r
    <3>1. batch'[Rev(c)] = batch[Rev(c)]
      BY <1>4, <2>1, <2>4
    <3>2. Slots(Rev(c))' = Slots(Rev(c)) /\ Unused(Rev(c))' = Unused(Rev(c))
          /\ NextCandidate(Rev(c))' = NextCandidate(Rev(c))
      BY <1>3, <2>1, SlotsKept
    <3>3. ReplacementDue(Rev(c)) => ReplacementDue(Rev(c))'
      BY <1>0, <3>1, <3>2 DEF ReplacementDue
    <3> QED
      BY <2>2, <3>1, <3>2, <3>3 DEF OverviewInv, Planning
  <2> QED
    BY <2>3, <2>4
<1>9. Done'
  <2> SUFFICES ASSUME NEW q \in Revision, batch'[q].status = "completed" PROVE DoneAt(q)'
    BY DEF Done
  <2>1. CASE batch[q].status = "completed"
    <3>1. DoneAt(q)
      BY <2>1 DEF Done, OverviewInv
    <3> QED
      BY <1>3, <1>5, <3>1, DoneAtKept
  <2>2. CASE batch[q].status # "completed"
    <3>1. q = r /\ settled /\ batch[r].status = "running"
      BY <1>2, <1>4, <2>2
    <3>2. Slots(r)' = Slots(r)
      BY <1>3, SlotsKept
    <3>3. ASSUME NEW d \in Slots(r) PROVE slot'[d].status \in {"valid", "invalid"}
      <4>1. d \in Cell /\ Rev(d) = r /\ slot[d].status # "none"
        BY DEF Slots
      <4>2. slot'[d].status = slot[d].status /\ slot[d] \in SlotRow
        BY <1>0, <4>1 DEF TypeInv
      <4>3. RowsFit(alloc[d], slot[d], batch[r], work[d])
        BY <4>1 DEF OverviewInv, Bills
      <4>4. slot[d].status # "obsolete"
        BY <3>1, <4>3 DEF RowsFit
      <4> QED
        BY <3>1, <4>1, <4>2, <4>4 DEF SlotRow, settled
    <3> QED
      BY <1>0, <1>6, <3>1, <3>2, <3>3 DEF DoneAt, settled
  <2> QED
    BY <2>1, <2>2
<1> QED
  BY <1>5, <1>7, <1>8, <1>9 DEF Rest

\* A reservation is made for a selection of a batch that does not exist yet or for the
\* replacement that is due.
LEMMA PlanSlotRest ==
    ASSUME TypeInv, OverviewInv, NEW c \in Cell, PlanSlot(c),
           \/ batch[Rev(c)].status = "none" /\ c[2] \in Range(Selected)
           \/ ReplacementDue(Rev(c)) /\ Unused(Rev(c)) # {} /\ c[2] = NextCandidate(Rev(c))
    PROVE  Rest' /\ BatchesLive
<1>0. UNCHANGED <<slot, batch>> /\ \A d \in Cell : d # c => alloc'[d] = alloc[d]
  BY SMTT(20) DEF PlanSlot, AuthorizeOverview, TypeInv
<1>1. SlotsLive /\ BatchesLive /\ NoneFinished /\ NoneExhausted
  BY <1>0 DEF SlotsLive, SlotLives, BatchesLive, BatchLives, NoneFinished, NoneExhausted
<1>2. Apart' /\ Done'
  BY <1>0, <1>1, ApartKept, DoneKept DEF OverviewInv, NoneAccepted
<1>3. Planning'
  <2> SUFFICES ASSUME NEW d \in Cell, alloc'[d].status # "none", slot'[d].status = "none"
               PROVE  /\ batch'[Rev(d)].status = "none" => d[2] \in Range(Selected)
                      /\ batch'[Rev(d)].status \in {"running", "completed"} =>
                            ReplacementDue(Rev(d))' /\ Unused(Rev(d))' # {} /\ d[2] = NextCandidate(Rev(d))'
    BY DEF Planning, Rev
  <2>1. Rev(d) \in Revision
    BY CellParts
  <2>2. Slots(Rev(d))' = Slots(Rev(d)) /\ Unused(Rev(d))' = Unused(Rev(d))
        /\ NextCandidate(Rev(d))' = NextCandidate(Rev(d))
    BY <1>1, <2>1, SlotsKept
  <2>3. ReplacementDue(Rev(d)) => ReplacementDue(Rev(d))'
    BY <1>0, <2>2 DEF ReplacementDue
  <2>4. /\ batch[Rev(d)].status = "none" => d[2] \in Range(Selected)
        /\ batch[Rev(d)].status \in {"running", "completed"} =>
              ReplacementDue(Rev(d)) /\ Unused(Rev(d)) # {} /\ d[2] = NextCandidate(Rev(d))
    <3>1. CASE d = c
      <4>1. ASSUME ReplacementDue(Rev(c)) PROVE batch[Rev(c)].status # "none"
        <5>1. PICK e \in Slots(Rev(c)) : TRUE
          BY <4>1 DEF ReplacementDue
        <5>2. e \in Cell /\ Rev(e) = Rev(c) /\ slot[e].status # "none"
          BY <5>1 DEF Slots
        <5>3. RowsFit(alloc[e], slot[e], batch[Rev(e)], work[e])
          BY <5>2 DEF OverviewInv, Bills
        <5> QED
          BY <5>2, <5>3 DEF RowsFit
      <4> QED
        BY <3>1, <4>1
    <3>2. CASE d # c
      BY <1>0, <3>2 DEF OverviewInv, Planning
    <3> QED
      BY <3>1, <3>2
  <2> QED
    BY <1>0, <2>2, <2>3, <2>4
<1> QED
  BY <1>1, <1>2, <1>3 DEF Rest

\* A new batch: its slots are of providers of their own, and every reservation made for it
\* has its slot.
LEMMA GetOrCreateRest ==
    ASSUME TypeInv, OverviewInv, NEW r \in Revision, GetOrCreate(r)
    PROVE  Rest'
<1>0. /\ batch[r].status = "none" /\ batch'[r].status = "running"
      /\ \A q \in Revision : q # r => batch'[q] = batch[q]
      /\ UNCHANGED alloc
  BY SMTT(20) DEF GetOrCreate, TypeInv, BatchRow
<1>1. ASSUME NEW c \in Cell
      PROVE  slot'[c] = IF Rev(c) = r /\ c[2] \in Range(Selected) THEN Planned ELSE slot[c]
  BY DEF GetOrCreate
<1>2. ASSUME NEW c \in Cell, Rev(c) = r
      PROVE  slot[c].status = "none" /\ ~slot[c].replacement
  <2>1. RowsFit(alloc[c], slot[c], batch[r], work[c])
    BY <1>2 DEF OverviewInv, Bills
  <2> QED
    BY <1>0, <2>1 DEF RowsFit
<1>3. Planned.status = "planned" /\ ~Planned.replacement /\ Planned.billing = "authorized"
  BY DEF Planned, NoSlot
<1>4. Apart'
  <2> SUFFICES ASSUME NEW c \in Cell, NEW d \in Cell, c # d, Rev(c) = Rev(d) PROVE PairFits(c, d)'
    BY DEF Apart, Rev
  <2>1. CASE Rev(c) # r
    <3>1. slot'[c] = slot[c] /\ slot'[d] = slot[d]
      BY <1>1, <2>1
    <3>2. PairFits(c, d)
      BY DEF OverviewInv, Apart
    <3> QED
      BY <3>1, <3>2 DEF PairFits
  <2>2. CASE Rev(c) = r
    <3>1. slot'[c].status \in {"none", "planned"} /\ ~slot'[c].replacement /\ ~slot'[d].replacement
      BY <1>1, <1>2, <1>3, <2>2
    <3>2. ASSUME slot'[c].status # "none", slot'[d].status # "none"
          PROVE  Provider[c[2]] # Provider[d[2]]
      <4>1. c[2] \in Range(Selected) /\ d[2] \in Range(Selected)
        BY <1>1, <1>2, <2>2, <3>2
      <4>2. PICK i \in 1..Limit, j \in 1..Limit : c[2] = Qualified[i] /\ d[2] = Qualified[j]
        BY <4>1, SelectedFacts
      <4>3. c[2] # d[2]
        <5>1. c = <<Rev(c), c[2]>> /\ d = <<Rev(d), d[2]>>
          BY CellParts
        <5> QED
          BY <5>1
      <4> QED
        BY <4>2, <4>3
    <3> QED
      BY <3>1, <3>2 DEF PairFits
  <2> QED
    BY <2>1, <2>2
<1>5. ASSUME NEW q \in Revision, q # r
      PROVE  Slots(q)' = Slots(q) /\ \A c \in Slots(q) : slot'[c] = slot[c]
  BY <1>1, <1>5 DEF Slots
<1>6. Planning'
  <2> SUFFICES ASSUME NEW c \in Cell, alloc'[c].status # "none", slot'[c].status = "none"
               PROVE  /\ batch'[Rev(c)].status = "none" => c[2] \in Range(Selected)
                      /\ batch'[Rev(c)].status \in {"running", "completed"} =>
                            ReplacementDue(Rev(c))' /\ Unused(Rev(c))' # {} /\ c[2] = NextCandidate(Rev(c))'
    BY DEF Planning, Rev
  <2>1. CASE Rev(c) = r
    <3>1. c[2] \notin Range(Selected)
      BY <1>1, <1>3, <2>1
    <3>2. alloc[c].status # "none" /\ slot[c].status = "none"
      BY <1>0, <1>2, <2>1
    <3> QED
      BY <1>0, <2>1, <3>1, <3>2 DEF OverviewInv, Planning
  <2>2. CASE Rev(c) # r
    <3>0. Rev(c) \in Revision
      BY CellParts
    <3>1. slot'[c] = slot[c] /\ batch'[Rev(c)] = batch[Rev(c)] /\ alloc'[c] = alloc[c]
      BY <1>0, <1>1, <2>2, <3>0
    <3>2. Slots(Rev(c))' = Slots(Rev(c)) /\ \A e \in Slots(Rev(c)) : slot'[e] = slot[e]
      BY <1>5, <2>2, <3>0
    <3>3. Unused(Rev(c))' = Unused(Rev(c)) /\ NextCandidate(Rev(c))' = NextCandidate(Rev(c))
      BY <3>2, <3>0, CandidateKept
    <3>4. ReplacementDue(Rev(c)) => ReplacementDue(Rev(c))'
      BY <3>1, <3>2 DEF ReplacementDue
    <3> QED
      BY <3>1, <3>3, <3>4 DEF OverviewInv, Planning
  <2> QED
    BY <2>1, <2>2
<1>7. Done'
  <2> SUFFICES ASSUME NEW q \in Revision, batch'[q].status = "completed" PROVE DoneAt(q)'
    BY DEF Done
  <2>1. q # r /\ batch'[q] = batch[q]
    BY <1>0
  <2>2. DoneAt(q)
    BY <2>1 DEF OverviewInv, Done
  <2>3. Slots(q)' = Slots(q) /\ \A c \in Slots(q) : slot'[c] = slot[c]
    BY <1>5, <2>1
  <2> QED
    BY <2>1, <2>2, <2>3 DEF DoneAt
<1> QED
  BY <1>4, <1>6, <1>7 DEF Rest

\* A replacement is the first of its batch, and the reservation made for it is the one that
\* waited.
LEMMA AddReplacementRest ==
    ASSUME TypeInv, OverviewInv, NEW r \in Revision, AddReplacement(r)
    PROVE  Rest'
<1> DEFINE c == <<r, NextCandidate(r)>>
           new == [Planned EXCEPT !.replacement = TRUE]
<1>0. /\ ReplacementDue(r) /\ Unused(r) # {} /\ batch[r].status # "obsolete"
      /\ slot' = [slot EXCEPT ![c] = new] /\ batch' = [batch EXCEPT ![r].used = TRUE]
      /\ UNCHANGED alloc
  BY DEF AddReplacement
<1>1. c \in Cell /\ slot[c].status = "none" /\ Rev(c) = r
  BY <1>0, CandidateIsNew DEF Rev
<1>2. \A e \in Slots(r) : Provider[e[2]] # Provider[c[2]]
  BY <1>0, CandidateIsAgent
<1>3. \A d \in Cell : Rev(d) = r /\ d[2] = NextCandidate(r) => d = c
  <2> SUFFICES ASSUME NEW d \in Cell, Rev(d) = r, d[2] = NextCandidate(r) PROVE d = c
    OBVIOUS
  <2>1. d = <<Rev(d), d[2]>>
    BY CellParts
  <2> QED
    BY <2>1
<1> HIDE DEF c
<1>4. new.status = "planned" /\ new.billing = "authorized"
  BY DEF Planned, NoSlot
<1> HIDE DEF new
<1>5. slot'[c] = new /\ \A d \in Cell : d # c => slot'[d] = slot[d]
  BY <1>0, <1>1 DEF TypeInv
<1>6. /\ \A q \in Revision : q # r => batch'[q] = batch[q]
      /\ batch'[r].status = batch[r].status /\ batch'[r].exhausted = batch[r].exhausted
  BY <1>0, SMTT(20) DEF TypeInv, BatchRow
<1>7. ASSUME NEW d \in Cell, Rev(d) = r PROVE ~slot[d].replacement
  <2>1. RowsFit(alloc[d], slot[d], batch[r], work[d])
    BY <1>7 DEF OverviewInv, Bills
  <2> QED
    BY <1>0, <2>1 DEF RowsFit, ReplacementDue
<1>8. batch[r].status # "none"
  <2>1. PICK e \in Slots(r) : slot[e].status = "invalid"
    BY <1>0 DEF ReplacementDue
  <2>2. e \in Cell /\ Rev(e) = r /\ RowsFit(alloc[e], slot[e], batch[Rev(e)], work[e])
    BY DEF Slots, OverviewInv, Bills
  <2> QED
    BY <2>1, <2>2 DEF RowsFit
<1>9. Apart'
  <2> SUFFICES ASSUME NEW d \in Cell, NEW e \in Cell, d # e, Rev(d) = Rev(e) PROVE PairFits(d, e)'
    BY DEF Apart, Rev
  <2>1. PairFits(d, e)
    BY DEF OverviewInv, Apart
  <2>2. CASE d = c
    <3>1. slot'[e] = slot[e] /\ ~slot'[e].replacement /\ slot'[d].status = "planned"
      BY <1>1, <1>4, <1>5, <1>7, <2>2
    <3>2. slot[e].status # "none" => Provider[e[2]] # Provider[d[2]]
      BY <1>1, <1>2, <2>2 DEF Slots
    <3> QED
      BY <3>1, <3>2 DEF PairFits
  <2>3. CASE e = c
    <3>1. slot'[d] = slot[d] /\ ~slot'[d].replacement /\ slot'[e].status = "planned"
      BY <1>1, <1>4, <1>5, <1>7, <2>3
    <3>2. slot[d].status # "none" => Provider[d[2]] # Provider[e[2]]
      BY <1>1, <1>2, <2>3 DEF Slots
    <3> QED
      BY <3>1, <3>2 DEF PairFits
  <2>4. CASE d # c /\ e # c
    BY <1>5, <2>1, <2>4 DEF PairFits
  <2> QED
    BY <2>2, <2>3, <2>4
<1>10. ASSUME NEW q \in Revision, q # r
       PROVE  Slots(q)' = Slots(q) /\ \A d \in Slots(q) : slot'[d] = slot[d]
  <2>1. \A d \in Cell : Rev(d) = q => slot'[d] = slot[d]
    BY <1>1, <1>5, <1>10
  <2> QED
    BY <2>1 DEF Slots
<1>11. Planning'
  <2> SUFFICES ASSUME NEW d \in Cell, alloc'[d].status # "none", slot'[d].status = "none"
               PROVE  /\ batch'[Rev(d)].status = "none" => d[2] \in Range(Selected)
                      /\ batch'[Rev(d)].status \in {"running", "completed"} =>
                            ReplacementDue(Rev(d))' /\ Unused(Rev(d))' # {} /\ d[2] = NextCandidate(Rev(d))'
    BY DEF Planning, Rev
  <2>0. Rev(d) \in Revision /\ batch \in [Revision -> BatchRow]
    BY CellParts DEF TypeInv
  <2>1. d # c /\ slot[d].status = "none" /\ alloc[d].status # "none"
    BY <1>0, <1>4, <1>5
  <2>2. CASE Rev(d) = r
    <3>1. batch[r].status \in {"running", "completed"}
      BY <1>0, <1>8, <2>0 DEF BatchRow
    <3>2. d[2] = NextCandidate(r)
      BY <2>1, <2>2, <3>1 DEF OverviewInv, Planning
    <3> QED
      BY <1>3, <2>1, <2>2, <3>2
  <2>3. CASE Rev(d) # r
    <3>1. batch'[Rev(d)] = batch[Rev(d)]
      BY <1>6, <2>0, <2>3
    <3>2. Slots(Rev(d))' = Slots(Rev(d)) /\ \A e \in Slots(Rev(d)) : slot'[e] = slot[e]
      BY <1>10, <2>0, <2>3
    <3>3. Unused(Rev(d))' = Unused(Rev(d)) /\ NextCandidate(Rev(d))' = NextCandidate(Rev(d))
      BY <3>2, <2>0, CandidateKept
    <3>4. ReplacementDue(Rev(d)) => ReplacementDue(Rev(d))'
      BY <3>1, <3>2 DEF ReplacementDue
    <3> QED
      BY <2>1, <3>1, <3>3, <3>4 DEF OverviewInv, Planning
  <2> QED
    BY <2>2, <2>3
<1>12. Done'
  <2> SUFFICES ASSUME NEW q \in Revision, batch'[q].status = "completed" PROVE DoneAt(q)'
    BY DEF Done
  <2>1. DoneAt(q)
    <3>1. batch[q].status = "completed"
      BY <1>6
    <3> QED
      BY <3>1 DEF OverviewInv, Done
  <2>2. q # r
    <3>1. ASSUME q = r PROVE FALSE
      <4>1. ~batch[r].used /\ ~batch[r].exhausted /\ \E e \in Slots(r) : slot[e].status = "invalid"
        BY <1>0 DEF ReplacementDue
      <4> QED
        BY <2>1, <3>1, <4>1 DEF DoneAt
    <3> QED
      BY <3>1
  <2>3. Slots(q)' = Slots(q) /\ \A d \in Slots(q) : slot'[d] = slot[d]
    BY <1>10, <2>2
  <2>4. batch'[q] = batch[q]
    BY <1>6, <2>2
  <2> QED
    BY <2>1, <2>3, <2>4 DEF DoneAt
<1> QED
  BY <1>9, <1>11, <1>12 DEF Rest

\* A batch only exists of a revision that was started, and what was done stays done.
BatchesGoOn ==
    \A q \in Revision : /\ batch'[q].status # "none" => batch[q].status # "none" \/ q \in started
                        /\ batch[q].done => batch'[q].done

\* Batches that live on go on.
LEMMA LivesGoOn ==
    ASSUME BatchesLive
    PROVE  BatchesGoOn
BY DEF BatchesLive, BatchLives, BatchesGoOn

\* So do batches that are left alone.
LEMMA QuietGoOn ==
    ASSUME UNCHANGED batch
    PROVE  BatchesGoOn
BY DEF BatchesGoOn

\* Every step of a slot.
LEMMA SlotStepRest ==
    ASSUME TypeInv, OverviewInv, NEW c \in Cell, SlotNext(c)
    PROVE  Rest' /\ BatchesGoOn
<1>0. Rest
  BY DEF OverviewInv, Rest
<1>1. CASE UNCHANGED <<slot, batch, alloc>>
  BY <1>0, <1>1, SameAllocs, QuietStep, QuietGoOn
<1>2. CASE RecordDispatched(c)
  BY <1>0, <1>2, RecordDispatchedRest, QuietGoOn DEF RecordDispatched
<1>3. CASE \E verdict \in Verdicts(c) : RecordValidation(c, verdict)
  BY <1>0, <1>3, RecordValidationRest, QuietGoOn DEF RecordValidation
<1>4. CASE SettleMoney(c) \/ SweepRelease(c)
  <2>1. UNCHANGED <<slot, batch>>
    BY <1>4 DEF SettleMoney, SweepRelease, slotVars
  <2>2. ASSUME NEW d \in Cell PROVE alloc[d].status = "none" <=> alloc'[d].status = "none"
    <3>0. alloc \in [Cell -> AllocRow]
      BY Zenon DEF TypeInv
    <3>1. CASE CaptureOverview(c, UsedCost[slot[c].content])
      BY <3>0, <3>1 DEF CaptureOverview, AllocRow
    <3>2. CASE \E reason \in {"verdict", "obsolete"} : ReleaseOverview(c, reason)
      BY <3>0, <3>2 DEF ReleaseOverview, AllocRow
    <3> QED
      BY <1>4, <3>1, <3>2 DEF SettleMoney, SweepRelease
  <2>3. AllocsKept
    BY <2>2 DEF AllocsKept
  <2> QED
    BY <1>0, <2>1, <2>3, QuietStep, QuietGoOn
<1>5. CASE UNCHANGED alloc /\ \E billing \in {"captured", "released"} : RecordBilling(c, billing)
  BY <1>5, RecordBillingRest, LivesGoOn
<1> QED
  BY <1>1, <1>2, <1>3, <1>4, <1>5
     DEF SlotNext, Dispatch, WorkEnds, FindLate, SettleRecord, SweepCancel, SweepRecord

\* Every step of a batch.
LEMMA BatchStepRest ==
    ASSUME TypeInv, OverviewInv, NEW r \in Revision, r \in started, BatchNext(r)
    PROVE  Rest' /\ BatchesGoOn
<1>0. Rest
  BY DEF OverviewInv, Rest
<1>1. CASE \E i \in 1..Limit : PlanSelection(r, i)
  <2>1. PICK i \in 1..Limit : PlanSelection(r, i)
    BY <1>1
  <2> DEFINE c == <<r, Selected[i]>>
  <2>2. c \in Cell /\ Rev(c) = r /\ c[2] \in Range(Selected)
    BY SelectedFacts DEF Rev
  <2>3. batch[r].status = "none" /\ PlanSlot(c)
    BY <2>1 DEF PlanSelection
  <2> HIDE DEF c
  <2> QED
    BY <2>2, <2>3, PlanSlotRest, LivesGoOn
<1>2. CASE PlanReplacement(r)
  <2> DEFINE c == <<r, NextCandidate(r)>>
  <2>1. c \in Cell /\ Rev(c) = r /\ c[2] = NextCandidate(r)
    BY <1>2, CandidateIsNew DEF PlanReplacement, Rev
  <2>2. ReplacementDue(r) /\ Unused(r) # {} /\ PlanSlot(c)
    BY <1>2 DEF PlanReplacement
  <2> HIDE DEF c
  <2> QED
    BY <2>1, <2>2, PlanSlotRest, LivesGoOn
<1>3. CASE GetOrCreate(r)
  <2>1. \A q \in Revision : q # r => batch'[q] = batch[q]
    BY <1>3 DEF GetOrCreate, TypeInv
  <2>2. batch[r].done => batch'[r].done
    BY <1>3, SMTT(20) DEF GetOrCreate, TypeInv, BatchRow
  <2> QED
    BY <1>3, <2>1, <2>2, GetOrCreateRest DEF BatchesGoOn
<1>4. CASE AddReplacement(r)
  <2>1. \A q \in Revision : q # r => batch'[q] = batch[q]
    BY <1>4 DEF AddReplacement, TypeInv
  <2>2. batch[r].done => batch'[r].done
    BY <1>4, SMTT(20) DEF AddReplacement, TypeInv, BatchRow
  <2> QED
    BY <1>4, <2>1, <2>2, AddReplacementRest DEF BatchesGoOn
<1>5. CASE ExhaustReplacement(r)
  BY <1>5, ExhaustReplacementRest, LivesGoOn
<1>6. CASE DeadlinePasses(r)
  BY <1>0, <1>6, SameAllocs, QuietStep, QuietGoOn DEF DeadlinePasses
<1> QED
  BY <1>1, <1>2, <1>3, <1>4, <1>5, <1>6 DEF BatchNext

\* Deposits and reversals.
LEMMA MaintenanceRest ==
    ASSUME TypeInv, Rest, FundsMaintenance, UNCHANGED slotVars
    PROVE  Rest' /\ BatchesGoOn
<1>1. UNCHANGED <<slot, batch>>
  BY DEF slotVars
<1>2. ASSUME NEW d \in Cell PROVE alloc[d].status = "none" <=> alloc'[d].status = "none"
  <2>0. alloc \in [Cell -> AllocRow]
    BY Zenon DEF TypeInv
  <2>1. CASE \E c \in Cell : ReverseCapture(c)
    BY <2>0, <2>1 DEF ReverseCapture, AllocRow
  <2>2. CASE UNCHANGED alloc
    BY <2>2
  <2> QED
    BY <2>1, <2>2 DEF FundsMaintenance, RecordFunding, ReverseFunding
<1>3. AllocsKept
  BY <1>2 DEF AllocsKept
<1> QED
  BY <1>1, <1>3, QuietStep, QuietGoOn

\* Every step keeps slots apart, plans accounted for and completed batches settled.
LEMMA StepRest ==
    ASSUME TypeInv, OverviewInv, [WorkflowNext]_pipelineVars
    PROVE  Rest' /\ BatchesGoOn
<1>0. Rest
  BY DEF OverviewInv, Rest
<1>1. CASE UNCHANGED <<alloc, slot, batch>>
  BY <1>0, <1>1, SameAllocs, QuietStep, QuietGoOn
<1> QED
  BY <1>0, <1>1, StepKinds, SlotStepRest, BatchStepRest, MaintenanceRest, MarkObsoleteBeforeRest, LivesGoOn

-----------------------------------------------------------------------------
(* The pool. *)

\* A row that is promised money is added to, or taken from, those that were.
LEMMA MorePromised ==
    ASSUME NEW S, IsFiniteSet(S), NEW c, c \notin S
    PROVE  /\ IsFiniteSet(S \cup {c}) /\ Cardinality(S) \in Nat
           /\ Reserve * Cardinality(S \cup {c}) = Reserve * Cardinality(S) + Reserve
<1>1. Cardinality(S) \in Nat /\ IsFiniteSet(S \cup {c}) /\ Cardinality(S \cup {c}) = Cardinality(S) + 1
  BY FS_CardinalityType, FS_AddElement
<1>2. Reserve \in Nat
  BY DEF Reserve
<1>3. \A n \in Nat, k \in Nat : k * (n + 1) = k * n + k
  OBVIOUS
<1> HIDE DEF Reserve
<1> QED
  BY <1>1, <1>2, <1>3

\* The other way round.
LEMMA LessPromised ==
    ASSUME NEW S, IsFiniteSet(S), NEW c \in S
    PROVE  /\ IsFiniteSet(S \ {c}) /\ Cardinality(S) \in Nat
           /\ Reserve * Cardinality(S) = Reserve * Cardinality(S \ {c}) + Reserve
<1>1. IsFiniteSet(S \ {c})
  BY FS_RemoveElement
<1>2. S = (S \ {c}) \cup {c}
  OBVIOUS
<1> QED
  BY <1>1, <1>2, MorePromised, FS_CardinalityType

\* What the sums of the pool's invariant are.
LEMMA PoolTyped ==
    ASSUME TypeInv, PoolInv
    PROVE  /\ pool \in Nat /\ Reserve \in Nat /\ Reserved \in Nat
           /\ Reserved = Reserve * Cardinality(Promised)
           /\ IsFiniteSet(Reversed) /\ Cardinality(Reversed) \in Nat
           /\ Deposit * Cardinality(Reversed) \in Nat
           /\ pool + Deposit * Cardinality(Reversed) >= Reserved
<1>1. Reserve \in Nat /\ pool \in Nat
  BY DEF Reserve, TypeInv
<1>2. IsFiniteSet(1..MaxFundings)
  <2>1. 1 \in Int /\ MaxFundings \in Int
    OBVIOUS
  <2> QED
    BY <2>1, FS_Interval
<1>3. IsFiniteSet(Reversed)
  BY <1>2, FS_Subset DEF Reversed
<1>4. Cardinality(Reversed) \in Nat /\ Cardinality(Promised) \in Nat
  BY <1>3, FS_CardinalityType DEF PoolInv
<1>5. \A m, n \in Nat : m * n \in Nat
  OBVIOUS
<1>6. Deposit * Cardinality(Reversed) \in Nat /\ Reserve * Cardinality(Promised) \in Nat
  BY <1>1, <1>4, <1>5
<1>7. Reserved = Reserve * Cardinality(Promised)
  BY DEF Reserved, Promised
<1>8. pool + Deposit * Cardinality(Reversed) >= Reserved
  BY DEF PoolInv, ReservesCovered, Reversed
<1> QED
  BY <1>1, <1>3, <1>4, <1>6, <1>7, <1>8

\* The pool changes by the money of as many rows as leave or join the promised ones.
LEMMA PoolHolds ==
    ASSUME TypeInv, PoolInv, NEW P, NEW F, Promised' = P, Reversed' = F,
           IsFiniteSet(P), pool' + Deposit * Cardinality(F) >= Reserve * Cardinality(P)
    PROVE  PoolInv'
<1>1. Reserved' = Reserve * Cardinality(P)
  BY DEF Reserved, Promised, Reserve
<1>2. ReservesCovered'
  BY <1>1 DEF ReservesCovered, Reversed
<1> QED
  BY <1>2 DEF PoolInv

\* Steps that move no money of a reservation.
LEMMA SamePromised ==
    ASSUME TypeInv, PoolInv, UNCHANGED <<pool, funding>>,
           \A c \in Cell : alloc'[c].status = "authorized" <=> alloc[c].status = "authorized"
    PROVE  PoolInv'
<1>1. Promised' = Promised /\ Reversed' = Reversed
  BY DEF Promised, Reversed
<1> QED
  BY <1>1, PoolHolds, PoolTyped DEF PoolInv

\* A reservation is made only of what is not promised yet.
LEMMA AuthorizePool ==
    ASSUME TypeInv, PoolInv, NEW c \in Cell, AuthorizeOverview(c)
    PROVE  PoolInv'
<1>1. Promised' = Promised \cup {c} /\ c \notin Promised /\ Reversed' = Reversed
  BY SMTT(20) DEF Promised, Reversed, AuthorizeOverview, TypeInv, AllocRow
<1>2. /\ IsFiniteSet(Promised \cup {c})
      /\ Reserve * Cardinality(Promised \cup {c}) = Reserved + Reserve
  BY <1>1, MorePromised, PoolTyped DEF PoolInv
<1>3. Reserve <= pool - Reserved /\ pool' = pool
  BY DEF AuthorizeOverview, Enough
<1>4. pool' + Deposit * Cardinality(Reversed) >= Reserve * Cardinality(Promised \cup {c})
  BY <1>2, <1>3, PoolTyped
<1> QED
  BY <1>1, <1>2, <1>4, PoolHolds

\* A payment, which is at most what was reserved, or a release.
LEMMA TakePromised ==
    ASSUME TypeInv, PoolInv, NEW c \in Cell, NEW total \in 0..Reserve,
           alloc[c].status = "authorized", alloc'[c].status # "authorized",
           \A d \in Cell : d # c => alloc'[d] = alloc[d],
           pool' = pool - total, UNCHANGED funding
    PROVE  PoolInv'
<1>1. Promised' = Promised \ {c} /\ c \in Promised /\ Reversed' = Reversed
  BY DEF Promised, Reversed
<1>2. /\ IsFiniteSet(Promised \ {c})
      /\ Reserved = Reserve * Cardinality(Promised \ {c}) + Reserve
      /\ Reserve * Cardinality(Promised \ {c}) \in Nat
  <2>1. /\ IsFiniteSet(Promised \ {c})
        /\ Reserved = Reserve * Cardinality(Promised \ {c}) + Reserve
    BY <1>1, LessPromised, PoolTyped DEF PoolInv
  <2>2. Cardinality(Promised \ {c}) \in Nat /\ Reserve \in Nat
    BY <2>1, FS_CardinalityType, PoolTyped
  <2>3. \A m, n \in Nat : m * n \in Nat
    OBVIOUS
  <2> QED
    BY <2>1, <2>2, <2>3
<1>3. pool' + Deposit * Cardinality(Reversed) >= Reserve * Cardinality(Promised \ {c})
  <2> DEFINE x == Reserve * Cardinality(Promised \ {c})
             y == Deposit * Cardinality(Reversed)
  <2>1. x \in Nat /\ y \in Nat /\ pool \in Nat /\ Reserve \in Nat /\ pool + y >= x + Reserve
    BY <1>2, PoolTyped
  <2> HIDE DEF x, y
  <2> QED
    BY <2>1 DEF x, y
<1> QED
  BY <1>1, <1>2, <1>3, PoolHolds

\* A capture takes at most the reservation.
LEMMA CapturePool ==
    ASSUME TypeInv, PoolInv, NEW c \in Cell, NEW cost \in 0..CostCap, CaptureOverview(c, cost)
    PROVE  PoolInv'
<1>1. /\ alloc[c].status = "authorized" /\ alloc'[c].status # "authorized"
      /\ \A d \in Cell : d # c => alloc'[d] = alloc[d]
  BY SMTT(20) DEF CaptureOverview, TypeInv, AllocRow
<1>2. Price + cost \in 0..Reserve /\ pool' = pool - (Price + cost) /\ UNCHANGED funding
  BY DEF Reserve, CaptureOverview
<1> QED
  BY <1>1, <1>2, TakePromised

\* A release takes nothing.
LEMMA ReleasePool ==
    ASSUME TypeInv, PoolInv, NEW c \in Cell, NEW reason, ReleaseOverview(c, reason)
    PROVE  PoolInv'
<1>1. /\ alloc[c].status = "authorized" /\ alloc'[c].status # "authorized"
      /\ \A d \in Cell : d # c => alloc'[d] = alloc[d]
  BY SMTT(20) DEF ReleaseOverview, TypeInv, AllocRow
<1>2. 0 \in 0..Reserve /\ pool' = pool - 0 /\ UNCHANGED funding
  BY PoolTyped DEF ReleaseOverview
<1> QED
  BY <1>1, <1>2, TakePromised

\* A deposit adds to the pool; one taken back is counted.
LEMMA FundingPool ==
    ASSUME TypeInv, PoolInv, NEW n \in 1..MaxFundings, RecordFunding(n) \/ ReverseFunding(n)
    PROVE  PoolInv'
<1>0. Promised' = Promised
  BY DEF Promised, RecordFunding, ReverseFunding
<1>1. CASE RecordFunding(n)
  <2>1. Reversed' = Reversed
    BY <1>1 DEF Reversed, RecordFunding, TypeInv
  <2>2. pool' = pool + Deposit
    BY <1>1 DEF RecordFunding
  <2>3. pool' + Deposit * Cardinality(Reversed) >= Reserve * Cardinality(Promised)
    <3> DEFINE x == Reserve * Cardinality(Promised)
               y == Deposit * Cardinality(Reversed)
    <3>1. x \in Nat /\ y \in Nat /\ pool \in Nat /\ pool + y >= x
      BY PoolTyped
    <3> HIDE DEF x, y
    <3> QED
      BY <2>2, <3>1 DEF x, y
  <2> QED
    BY <1>0, <2>1, <2>3, PoolHolds DEF PoolInv
<1>2. CASE ReverseFunding(n)
  <2>1. Reversed' = Reversed \cup {n} /\ n \notin Reversed
    BY <1>2 DEF Reversed, ReverseFunding, TypeInv
  <2>2. pool' = pool - Deposit
    BY <1>2 DEF ReverseFunding
  <2>3. Deposit * Cardinality(Reversed \cup {n}) = Deposit * Cardinality(Reversed) + Deposit
    <3>1. Cardinality(Reversed) \in Nat /\ Cardinality(Reversed \cup {n}) = Cardinality(Reversed) + 1
      BY <2>1, PoolTyped, FS_AddElement
    <3>2. \A m \in Nat, k \in Nat : k * (m + 1) = k * m + k
      OBVIOUS
    <3> QED
      BY <3>1, <3>2
  <2>4. pool' + Deposit * Cardinality(Reversed \cup {n}) >= Reserve * Cardinality(Promised)
    <3> DEFINE x == Reserve * Cardinality(Promised)
               y == Deposit * Cardinality(Reversed)
               z == Deposit * Cardinality(Reversed \cup {n})
    <3>1. x \in Nat /\ y \in Nat /\ pool \in Nat /\ pool + y >= x
      BY PoolTyped
    <3>2. z = y + Deposit
      BY <2>3
    <3> HIDE DEF x, y, z
    <3> QED
      BY <2>2, <3>1, <3>2 DEF x, y, z
  <2> QED
    BY <1>0, <2>1, <2>4, PoolHolds DEF PoolInv
<1> QED
  BY <1>1, <1>2

\* A reversed capture adds to the pool.
LEMMA ReverseCapturePool ==
    ASSUME TypeInv, PoolInv, NEW c \in Cell, ReverseCapture(c)
    PROVE  PoolInv'
<1>1. Promised' = Promised /\ Reversed' = Reversed
  BY SMTT(20) DEF Promised, Reversed, ReverseCapture, TypeInv, AllocRow
<1>2. alloc[c].cost \in Nat /\ pool' = pool + Price + alloc[c].cost
  BY DEF ReverseCapture, TypeInv, AllocRow
<1>3. pool' + Deposit * Cardinality(Reversed) >= Reserve * Cardinality(Promised)
  <2> DEFINE x == Reserve * Cardinality(Promised)
             y == Deposit * Cardinality(Reversed)
             k == alloc[c].cost
  <2>1. x \in Nat /\ y \in Nat /\ pool \in Nat /\ pool + y >= x
    BY PoolTyped
  <2>2. k \in Nat /\ pool' = pool + Price + k
    BY <1>2
  <2> HIDE DEF x, y, k
  <2> QED
    BY <2>1, <2>2 DEF x, y
<1> QED
  BY <1>1, <1>3, PoolHolds DEF PoolInv

\* Every step keeps the promises covered.
LEMMA StepPool ==
    ASSUME TypeInv, Bills, PoolInv, [WorkflowNext]_pipelineVars
    PROVE  PoolInv'
<1>1. CASE UNCHANGED <<pool, funding, alloc>>
  BY <1>1, SamePromised
<1>2. ASSUME NEW c \in Cell, SlotNext(c)
      PROVE  PoolInv'
  <2>1. CASE SettleMoney(c)
    <3>1. CASE slot[c].status = "valid" /\ CaptureOverview(c, UsedCost[slot[c].content])
      <4>1. RowsFit(alloc[c], slot[c], batch[Rev(c)], work[c])
        BY DEF Bills
      <4>2. UsedCost[slot[c].content] \in 0..CostCap
        BY <3>1, <4>1, UsedCostTyped DEF RowsFit
      <4> QED
        BY <3>1, <4>2, CapturePool
    <3>2. CASE ReleaseOverview(c, "verdict")
      BY <3>2, ReleasePool
    <3> QED
      BY <2>1, <3>1, <3>2 DEF SettleMoney
  <2>2. CASE SweepRelease(c)
    BY <2>2, ReleasePool DEF SweepRelease
  <2>3. CASE UNCHANGED <<pool, funding, alloc>>
    BY <1>1, <2>3
  <2> QED
    BY <1>2, <2>1, <2>2, <2>3 DEF SlotNext, Dispatch, RecordDispatched, WorkEnds, FindLate,
       RecordValidation, SettleRecord, SweepCancel, SweepRecord
<1>3. ASSUME NEW r \in Revision, BatchNext(r)
      PROVE  PoolInv'
  <2>1. CASE \E i \in 1..Limit : PlanSelection(r, i)
    <3>1. PICK i \in 1..Limit : PlanSelection(r, i)
      BY <2>1
    <3>2. <<r, Selected[i]>> \in Cell
      BY SelectedFacts
    <3> QED
      BY <3>1, <3>2, AuthorizePool DEF PlanSelection, PlanSlot
  <2>2. CASE PlanReplacement(r)
    <3>1. <<r, NextCandidate(r)>> \in Cell
      BY <2>2, CandidateIsNew DEF PlanReplacement
    <3> QED
      BY <2>2, <3>1, AuthorizePool DEF PlanReplacement, PlanSlot
  <2>3. CASE UNCHANGED <<pool, funding, alloc>>
    BY <1>1, <2>3
  <2> QED
    BY <1>3, <2>1, <2>2, <2>3 DEF BatchNext, GetOrCreate, DeadlinePasses, AddReplacement, ExhaustReplacement
<1>4. CASE FundsMaintenance
  BY <1>4, FundingPool, ReverseCapturePool DEF FundsMaintenance
<1>5. ASSUME NEW r, MarkObsoleteBefore(r) PROVE UNCHANGED <<pool, funding, alloc>>
  BY <1>5 DEF MarkObsoleteBefore
<1> QED
  BY <1>1, <1>2, <1>3, <1>4, <1>5, StepKinds

-----------------------------------------------------------------------------
(* The operations. *)

\* Steps of the overviews leave the operations as they are.
LEMMA OperationKept ==
    ASSUME TypeInv, OperationInv, BatchesGoOn, UNCHANGED <<task, op, snapshot, latest, started>>
    PROVE  OperationInv'
<1>1. \A r \in Revision : batch'[r].status # "none" => r \in started
  BY DEF OperationInv, BatchesGoOn
<1>2. task = "awaiting_selection" => \E r \in Revision : batch'[r].done
  BY DEF OperationInv, BatchesGoOn
<1>3. SealedInOrder'
  BY DEF OperationInv, SealedInOrder
<1>4. \A o \in Operation : DraftFits(snapshot', op'[o])
  BY DEF OperationInv
<1>5. \A r \in started' : r <= latest'
  BY DEF OperationInv
<1> QED
  BY <1>1, <1>2, <1>3, <1>4, <1>5 DEF OperationInv

\* Calls that die forget revisions and sweeps, and no draft.
LEMMA ForgottenKept ==
    ASSUME TypeInv, OperationInv, BatchesGoOn, CallsForgotten
    PROVE  OperationInv'
<1>0. UNCHANGED <<task, snapshot, latest, started>>
  BY DEF CallsForgotten
<1>1. \A r \in Revision : batch'[r].status # "none" => r \in started
  BY DEF OperationInv, BatchesGoOn
<1>2. task = "awaiting_selection" => \E r \in Revision : batch'[r].done
  BY DEF OperationInv, BatchesGoOn
<1>3. ASSUME NEW o \in Operation
      PROVE  DraftFits(snapshot, op'[o]) /\ op'[o].input = op[o].input
  <2>1. op[o] \in OpRow /\ DraftFits(snapshot, op[o])
    BY DEF TypeInv, OperationInv
  <2>2. op'[o] = Forgotten(op[o])
    BY DEF CallsForgotten
  <2>3. CASE op[o].state = "frozen"
    BY <2>1, <2>2, <2>3 DEF Forgotten, DraftFits, OpRow
  <2>4. CASE op[o].state # "frozen"
    BY <2>1, <2>2, <2>4 DEF Forgotten
  <2> QED
    BY <2>3, <2>4
<1>4. SealedInOrder'
  BY <1>0, <1>3 DEF OperationInv, SealedInOrder
<1>5. \A r \in started' : r <= latest'
  BY <1>0 DEF OperationInv
<1> QED
  BY <1>0, <1>1, <1>2, <1>3, <1>4, <1>5 DEF OperationInv

\* An operation that goes on without a new revision.
LEMMA StateKept ==
    ASSUME TypeInv, OperationInv, NEW o \in Operation,
           UNCHANGED <<batch, snapshot, latest, started>>,
           \A p \in Operation : p # o => op'[p] = op[p],
           DraftFits(snapshot, op'[o]),
           op[o].input # NoInput => op'[o].input = op[o].input,
           task' = "awaiting_selection" => task = "awaiting_selection"
    PROVE  OperationInv'
<1>1. \A p \in Operation : DraftFits(snapshot', op'[p])
  BY DEF OperationInv
<1>2. \A p \in Operation : op[p].input # NoInput => op'[p].input = op[p].input
  OBVIOUS
<1>3. SealedInOrder'
  BY <1>2 DEF OperationInv, SealedInOrder
<1>4. \A r \in Revision : batch'[r].status # "none" => r \in started'
  BY DEF OperationInv
<1>5. task' = "awaiting_selection" => \E r \in Revision : batch'[r].done
  BY DEF OperationInv
<1>6. \A r \in started' : r <= latest'
  BY DEF OperationInv
<1> QED
  BY <1>1, <1>3, <1>4, <1>5, <1>6 DEF OperationInv

\* A new revision is above all that were given out, and nobody's input had one.
LEMMA NewRevisionKept ==
    ASSUME TypeInv, OperationInv, NEW o \in Operation, CreateRevision(o), KnownDraft(o) = {}
    PROVE  OperationInv'
<1>0. /\ latest \in Nat /\ started \subseteq Nat /\ Revision \subseteq Nat \ {0}
      /\ op[o] \in OpRow /\ DraftFits(snapshot, op[o])
  <2>1. Revision \subseteq Nat \ {0}
    BY OverviewTypes
  <2>2. latest \in Revision \cup {0} /\ started \subseteq Revision /\ op \in [Operation -> OpRow]
    BY Zenon DEF TypeInv
  <2>3. DraftFits(snapshot, op[o])
    BY Zenon DEF OperationInv
  <2> QED
    BY <2>1, <2>2, <2>3
<1>1. /\ latest' = latest + 1 /\ latest + 1 \in Revision /\ UNCHANGED <<batch, task, started>>
      /\ op' = [op EXCEPT ![o].revision = latest + 1]
      /\ snapshot' = [snapshot EXCEPT ![latest + 1] = op[o].input]
      /\ op[o].state = "frozen"
  BY DEF CreateRevision, overviewVars
<1>2. /\ op'[o] = [op[o] EXCEPT !.revision = latest + 1]
      /\ \A p \in Operation : p # o => op'[p] = op[p]
      /\ \A p \in Operation : op'[p].input = op[p].input
  BY <1>0, <1>1 DEF TypeInv, OpRow
<1>3. /\ op[o].input # NoInput
      /\ \A r \in Revision : snapshot[r] # op[o].input
  BY <1>0, <1>1 DEF DraftFits, KnownDraft
<1>4. /\ snapshot'[latest + 1] = op[o].input
      /\ \A r \in Revision : r # latest + 1 => snapshot'[r] = snapshot[r]
      /\ snapshot[latest + 1] = NoInput
  <2>1. ~(latest + 1 <= latest)
    BY <1>0
  <2> QED
    BY <1>1, <2>1 DEF TypeInv, OperationInv, SealedInOrder
<1>5. SealedInOrder'
  <2>1. ASSUME NEW r \in Revision PROVE snapshot'[r] # NoInput <=> r <= latest'
    <3>1. CASE r = latest + 1
      BY <1>0, <1>1, <1>3, <1>4, <3>1
    <3>2. CASE r # latest + 1
      <4>1. snapshot[r] # NoInput <=> r <= latest
        BY DEF OperationInv, SealedInOrder
      <4>2. r \in Nat /\ (r <= latest + 1 <=> r <= latest)
        BY <1>0, <3>2
      <4> QED
        BY <1>1, <1>4, <3>2, <4>1, <4>2
    <3> QED
      BY <3>1, <3>2
  <2>2. ASSUME NEW q \in Revision, NEW r \in Revision, snapshot'[r] # NoInput, snapshot'[q] = snapshot'[r]
        PROVE  q = r
    <3>1. CASE q # latest + 1 /\ r # latest + 1
      BY <1>4, <2>2, <3>1 DEF OperationInv, SealedInOrder
    <3>2. CASE q = latest + 1 /\ r # latest + 1
      BY <1>3, <1>4, <2>2, <3>2
    <3>3. CASE q # latest + 1 /\ r = latest + 1
      BY <1>3, <1>4, <2>2, <3>3
    <3> QED
      BY <3>1, <3>2, <3>3
  <2>3. ASSUME NEW r \in Revision, snapshot'[r] # NoInput
        PROVE  \E p \in Operation : op'[p].input = snapshot'[r]
    <3>1. CASE r = latest + 1
      BY <1>2, <1>4, <3>1
    <3>2. CASE r # latest + 1
      BY <1>2, <1>4, <2>3, <3>2 DEF OperationInv, SealedInOrder
    <3> QED
      BY <3>1, <3>2
  <2> QED
    BY <2>1, <2>2, <2>3 DEF SealedInOrder
<1>6. ASSUME NEW p \in Operation PROVE DraftFits(snapshot', op'[p])
  <2>1. op[p] \in OpRow /\ DraftFits(snapshot, op[p])
    BY DEF TypeInv, OperationInv
  <2>2. CASE p = o
    BY <1>0, <1>1, <1>2, <1>3, <1>4, <2>2 DEF DraftFits, OpRow
  <2>3. CASE p # o
    <3>1. op'[p] = op[p]
      BY <1>2, <2>3
    <3>2. op[p].revision # 0 => snapshot'[op[p].revision] = op[p].input
      <4>1. SUFFICES ASSUME op[p].revision # 0 PROVE snapshot'[op[p].revision] = op[p].input
        OBVIOUS
      <4>2. op[p].revision \in Revision /\ snapshot[op[p].revision] = op[p].input
        BY <2>1, <4>1 DEF OpRow, DraftFits
      <4>3. op[p].input # NoInput
        <5>1. op[p].state \in {"frozen", "completed"}
          BY <2>1, <4>1 DEF OpRow, DraftFits
        <5> QED
          BY <2>1, <4>1, <5>1 DEF DraftFits
      <4> QED
        BY <1>4, <4>2, <4>3
    <3> QED
      BY <2>1, <3>1, <3>2 DEF DraftFits
  <2> QED
    BY <2>2, <2>3
<1>7. \A r \in started' : r <= latest'
  BY <1>0, <1>1 DEF OperationInv
<1>8. \A r \in Revision : batch'[r].status # "none" => r \in started'
  BY <1>1 DEF OperationInv
<1>9. task' = "awaiting_selection" => \E r \in Revision : batch'[r].done
  BY <1>1 DEF OperationInv
<1> QED
  BY <1>5, <1>6, <1>7, <1>8, <1>9 DEF OperationInv

\* Every step of an operation but its sweep.
LEMMA OperationNextKept ==
    ASSUME TypeInv, OperationInv, NEW o \in Operation, OperationNext(o), ~Supersede(o)
    PROVE  OperationInv'
<1>0. op \in [Operation -> OpRow] /\ op[o] \in OpRow /\ DraftFits(snapshot, op[o])
  BY DEF TypeInv, OperationInv
<1>2. CASE Begin(o)
  <2>1. /\ op' = [op EXCEPT ![o].state = "begun"] /\ op[o].state = "none"
        /\ UNCHANGED <<batch, snapshot, latest, started, task>>
    BY <1>2 DEF Begin, overviewVars
  <2>2. /\ \A p \in Operation : p # o => op'[p] = op[p]
        /\ op'[o] = [op[o] EXCEPT !.state = "begun"]
    BY <1>0, <2>1
  <2>3. DraftFits(snapshot, op'[o]) /\ op'[o].input = op[o].input
    BY <1>0, <2>1, <2>2 DEF OpRow, DraftFits
  <2> QED
    BY <2>1, <2>2, <2>3, StateKept
<1>3. CASE FreezeDraft(o)
  <2>1. PICK i \in Input : op' = [op EXCEPT ![o] = [@ EXCEPT !.state = "frozen", !.input = i]]
    BY <1>3, Zenon DEF FreezeDraft
  <2>2. op[o].state = "begun" /\ UNCHANGED <<batch, snapshot, latest, started, task>>
    BY <1>3 DEF FreezeDraft, overviewVars
  <2>3. /\ \A p \in Operation : p # o => op'[p] = op[p]
        /\ op'[o] = [op[o] EXCEPT !.state = "frozen", !.input = i]
    BY <1>0, <2>1
  <2>4. DraftFits(snapshot, op'[o]) /\ op[o].input = NoInput
    BY <1>0, <2>2, <2>3 DEF OpRow, DraftFits
  <2> QED
    BY <2>2, <2>3, <2>4, StateKept
<1>4. CASE CreateRevision(o) /\ KnownDraft(o) # {}
  <2>1. PICK r \in Revision : snapshot[r] = op[o].input /\ op' = [op EXCEPT ![o].revision = r]
    BY <1>4 DEF CreateRevision, KnownDraft
  <2>2. op[o].state = "frozen" /\ UNCHANGED <<batch, snapshot, latest, started, task>>
    BY <1>4 DEF CreateRevision, overviewVars
  <2>3. /\ \A p \in Operation : p # o => op'[p] = op[p]
        /\ op'[o] = [op[o] EXCEPT !.revision = r]
    BY <1>0, <2>1
  <2>4. DraftFits(snapshot, op'[o]) /\ op'[o].input = op[o].input
    BY <1>0, <2>1, <2>2, <2>3 DEF OpRow, DraftFits
  <2> QED
    BY <2>2, <2>3, <2>4, StateKept
<1>5. CASE CreateRevision(o) /\ KnownDraft(o) = {}
  BY <1>5, NewRevisionKept
<1>6. CASE Swept(o) \/ SweepFails(o)
  <2>1. /\ op' = [op EXCEPT ![o].swept = TRUE] /\ op[o].revision # 0 /\ op[o].state = "frozen"
        /\ UNCHANGED <<batch, snapshot, latest, started, task>>
    BY <1>6 DEF Swept, SweepFails, overviewVars
  <2>2. /\ \A p \in Operation : p # o => op'[p] = op[p]
        /\ op'[o] = [op[o] EXCEPT !.swept = TRUE]
    BY <1>0, <2>1
  <2>3. DraftFits(snapshot, op'[o]) /\ op'[o].input = op[o].input
    BY <1>0, <2>1, <2>2 DEF OpRow, DraftFits
  <2> QED
    BY <2>1, <2>2, <2>3, StateKept
<1>7. CASE CompleteOperation(o)
  <2>1. /\ op' = [op EXCEPT ![o].state = "completed"] /\ op[o].swept /\ op[o].state = "frozen"
        /\ UNCHANGED <<batch, snapshot, latest, started>> /\ task' = "matching"
    BY <1>7 DEF CompleteOperation, TransitionTask, overviewVars
  <2>2. /\ \A p \in Operation : p # o => op'[p] = op[p]
        /\ op'[o] = [op[o] EXCEPT !.state = "completed"]
    BY <1>0, <2>1
  <2>3. DraftFits(snapshot, op'[o]) /\ op'[o].input = op[o].input
    BY <1>0, <2>1, <2>2 DEF OpRow, DraftFits
  <2> QED
    BY <2>1, <2>2, <2>3, StateKept
<1> QED
  BY <1>2, <1>3, <1>4, <1>5, <1>6, <1>7 DEF OperationNext

\* The revision started is the latest.
LEMMA StartOverviewKept ==
    ASSUME TypeInv, OperationInv, StartOverview
    PROVE  OperationInv'
<1>1. /\ started' = started \cup {latest} /\ latest \in Nat /\ started \subseteq Nat
      /\ UNCHANGED <<batch, op, snapshot, latest>> /\ task' = "overview_generating"
  BY DEF StartOverview, TransitionTask, overviewVars, TypeInv
<1>2. SealedInOrder'
  BY <1>1 DEF OperationInv, SealedInOrder
<1>3. \A r \in started' : r <= latest'
  BY <1>1 DEF OperationInv
<1> QED
  BY <1>1, <1>2, <1>3 DEF OperationInv

\* The task waits for a selection from a batch that was completed.
LEMMA OverviewReadyKept ==
    ASSUME TypeInv, OperationInv, NEW r \in Revision, OverviewReady(r)
    PROVE  OperationInv'
<1>1. /\ UNCHANGED <<batch, op, snapshot, latest, started>> /\ batch[r].done
  BY DEF OverviewReady, overviewVars
<1>2. SealedInOrder'
  BY <1>1 DEF OperationInv, SealedInOrder
<1> QED
  BY <1>1, <1>2 DEF OperationInv

\* Every step keeps the revisions in order.
LEMMA StepOperation ==
    ASSUME TypeInv, OperationInv, OverviewInv, [WorkflowNext]_pipelineVars
    PROVE  OperationInv'
<1>1. BatchesGoOn
  BY StepRest
<1>2. CASE UNCHANGED workflowVars
  BY <1>1, <1>2, OperationKept DEF workflowVars
<1>3. CASE CallsForgotten
  BY <1>1, <1>3, ForgottenKept
<1> QED
  BY <1>2, <1>3, StepKinds, OperationNextKept, StartOverviewKept, OverviewReadyKept

-----------------------------------------------------------------------------
(* The theorems. *)

\* The empty tables satisfy the invariant.
LEMMA InitInv ==
    ASSUME WorkflowInit
    PROVE  Inv
<1> USE DEF WorkflowInit, OverviewInit, FundsInit
<1>1. TypeInv
  <2>1. NoAllocation \in AllocRow /\ NoSlot \in SlotRow /\ NoBatch \in BatchRow /\ NoOperation \in OpRow
    BY SMTT(20) DEF NoAllocation, NoSlot, NoBatch, NoOperation, AllocRow, SlotRow, BatchRow, OpRow
  <2> QED
    BY <2>1 DEF TypeInv
<1>2. PoolInv
  <2>1. Promised = {} /\ Reversed = {}
    BY DEF Promised, Reversed, NoAllocation
  <2>2. Cardinality(Promised) = 0 /\ Cardinality(Reversed) = 0 /\ IsFiniteSet(Promised)
    BY <2>1, FS_EmptySet
  <2>3. Reserve \in Nat
    BY DEF Reserve
  <2>4. Reserve * 0 = 0 /\ Deposit * 0 = 0
    BY <2>3
  <2>5. Reserved = 0 /\ Deposit * Cardinality(Reversed) = 0
    BY <2>2, <2>4 DEF Reserved, Promised
  <2>6. pool + Deposit * Cardinality(Reversed) >= Reserved
    BY <2>5
  <2> QED
    BY <2>2, <2>6 DEF PoolInv, ReservesCovered, Reversed
<1>3. OverviewInv
  <2>0. /\ \A c \in Cell : /\ alloc[c].status = "none" /\ alloc[c].reason = "none" /\ slot[c].status = "none"
                           /\ slot[c].billing = "none" /\ ~slot[c].replacement
        /\ \A r \in Revision : batch[r].status = "none"
    BY DEF NoAllocation, NoSlot, NoBatch
  <2>1. Bills
    BY <2>0 DEF Bills, RowsFit
  <2>2. Apart /\ Planning
    BY <2>0 DEF Apart, PairFits, Planning
  <2>3. Done
    BY <2>0 DEF Done
  <2> QED
    BY <2>1, <2>2, <2>3 DEF OverviewInv
<1>4. OperationInv
  <2>1. \A o \in Operation : DraftFits(snapshot, op[o])
    BY DEF NoOperation, DraftFits
  <2>2. \A r \in Revision : snapshot[r] = NoInput /\ ~(r <= latest)
    OBVIOUS
  <2>3. SealedInOrder
    BY <2>2 DEF SealedInOrder
  <2>4. \A r \in Revision : batch[r].status = "none"
    BY DEF NoBatch
  <2> QED
    BY <2>1, <2>3, <2>4 DEF OperationInv
<1> QED
  BY <1>1, <1>2, <1>3, <1>4 DEF Inv

\* Every step keeps the invariant.
LEMMA StepInv ==
    ASSUME Inv, [WorkflowNext]_pipelineVars
    PROVE  Inv'
<1>1. TypeInv'
  BY StepTyped DEF Inv, OverviewInv
<1>2. PoolInv'
  BY StepPool DEF Inv, OverviewInv
<1>3. OverviewInv'
  <2>1. Bills'
    BY StepFits DEF Inv, OverviewInv
  <2>2. Rest'
    BY StepRest DEF Inv
  <2> QED
    BY <2>1, <2>2 DEF OverviewInv, Rest
<1>4. OperationInv'
  BY StepOperation DEF Inv
<1> QED
  BY <1>1, <1>2, <1>3, <1>4 DEF Inv

\* The invariant holds always.
LEMMA AlwaysInv == WorkflowSpec => []Inv
<1>1. WorkflowInit => Inv
  BY InitInv
<1>2. Inv /\ [WorkflowNext]_pipelineVars => Inv'
  BY StepInv
<1> QED
  BY <1>1, <1>2, PTL DEF WorkflowSpec

\* Every reachable state is of the types of the tables, for any number of revisions, agents
\* and operations.
THEOREM PipelineTypeOK == WorkflowSpec => []WorkflowTypeOK
<1>1. Inv => WorkflowTypeOK
  BY TypeInvIs DEF Inv
<1> QED
  BY <1>1, AlwaysInv, PTL

\* The pool covers what is promised to agents, less the deposits that were taken back
\* (AuthorizeOverview, CaptureOverview, ReleaseOverview, ReverseJournal), for any number of
\* agents.
THEOREM PromisesCovered == WorkflowSpec => []ReservesCovered
<1>1. Inv => ReservesCovered
  BY DEF Inv, PoolInv
<1> QED
  BY <1>1, AlwaysInv, PTL

\* A set all of whose members are one has at most one.
LEMMA AtMostOne ==
    ASSUME NEW S, \A x, y \in S : x = y
    PROVE  IsFiniteSet(S) /\ Cardinality(S) <= 1
<1>1. CASE S = {}
  BY <1>1, FS_EmptySet
<1>2. CASE S # {}
  <2>1. PICK x \in S : TRUE
    BY <1>2
  <2>2. S = {x}
    BY <2>1
  <2>3. IsFiniteSet(S) /\ Cardinality(S) = 1
    BY <2>2, FS_Singleton, Zenon
  <2> QED
    BY <2>3
<1> QED
  BY <1>1, <1>2

\* The invariant says of every cell, and of every completed batch, what the properties say.
LEMMA InvSettles ==
    ASSUME Inv
    PROVE  OverviewSettles
<1>0. TypeInv /\ OverviewInv
  BY DEF Inv
<1>1. BillingFollowsVerdict
  <2> SUFFICES ASSUME NEW c \in Cell
               PROVE  /\ alloc[c].status = "captured" =>
                            slot[c].status = "valid" /\ alloc[c].cost = UsedCost[slot[c].content]
                      /\ slot[c].billing \in {"captured", "released"} => alloc[c].status = slot[c].billing
                      /\ slot[c].status # "none" => alloc[c].status # "none" /\ work[c] # "none"
                      /\ \A d \in Cell : /\ c # d /\ Rev(c) = Rev(d)
                                         /\ alloc[c].status = "captured" /\ alloc[d].status = "captured"
                                         => slot[c].content # slot[d].content
    BY DEF BillingFollowsVerdict
  <2>1. RowsFit(alloc[c], slot[c], batch[Rev(c)], work[c])
    BY <1>0 DEF OverviewInv, Bills
  <2>2. ASSUME NEW d \in Cell, c # d, Rev(c) = Rev(d),
               alloc[c].status = "captured", alloc[d].status = "captured"
        PROVE  slot[c].content # slot[d].content
    <3>1. RowsFit(alloc[d], slot[d], batch[Rev(d)], work[d]) /\ PairFits(c, d)
      BY <1>0, <2>2 DEF OverviewInv, Bills, Apart
    <3> QED
      BY <2>1, <2>2, <3>1 DEF RowsFit, PairFits
  <2> QED
    BY <2>1, <2>2 DEF RowsFit
<1>2. CompletedIsSettled
  <2> SUFFICES ASSUME NEW r \in Revision, batch[r].status = "completed"
               PROVE  /\ \A c \in Slots(r) : slot[c].status \in {"valid", "invalid"} /\ slot[c].billing # "authorized"
                      /\ \A c \in Cell : Rev(c) = r => alloc[c].status # "authorized"
                      /\ Cardinality({c \in Slots(r) : slot[c].replacement}) <= 1
                      /\ \A c, d \in Slots(r) : c # d => Provider[c[2]] # Provider[d[2]]
    BY DEF CompletedIsSettled
  <2>1. DoneAt(r)
    BY <1>0 DEF OverviewInv, Done
  <2>2. ASSUME NEW c \in Cell, Rev(c) = r
        PROVE  alloc[c].status # "authorized"
    <3>1. RowsFit(alloc[c], slot[c], batch[r], work[c])
      BY <1>0, <2>2 DEF OverviewInv, Bills
    <3>2. CASE slot[c].status = "none"
      <4>1. ~ReplacementDue(r)
        BY <2>1 DEF DoneAt, ReplacementDue
      <4> QED
        BY <1>0, <2>2, <3>2, <4>1 DEF OverviewInv, Planning
    <3>3. CASE slot[c].status # "none"
      <4>1. c \in Slots(r)
        BY <2>2, <3>3 DEF Slots
      <4>2. slot[c].billing # "authorized" /\ slot[c].billing # "none" /\ slot[c] \in SlotRow
        BY <1>0, <2>1, <3>1, <3>3, <4>1 DEF DoneAt, RowsFit, TypeInv
      <4>3. slot[c].billing \in {"captured", "released"}
        BY <4>2 DEF SlotRow
      <4> QED
        BY <3>1, <4>3 DEF RowsFit
    <3> QED
      BY <3>2, <3>3
  <2>3. ASSUME NEW c \in Slots(r), NEW d \in Slots(r), c # d
        PROVE  Provider[c[2]] # Provider[d[2]] /\ ~(slot[c].replacement /\ slot[d].replacement)
    <3>1. /\ c \in Cell /\ d \in Cell /\ Rev(c) = Rev(d)
          /\ slot[c].status # "none" /\ slot[d].status # "none"
      BY DEF Slots
    <3>2. PairFits(c, d)
      BY <1>0, <2>3, <3>1 DEF OverviewInv, Apart
    <3> QED
      BY <3>1, <3>2 DEF PairFits
  <2>4. Cardinality({c \in Slots(r) : slot[c].replacement}) <= 1
    <3> DEFINE S == {c \in Slots(r) : slot[c].replacement}
    <3>1. \A c, d \in S : c = d
      BY <2>3
    <3> HIDE DEF S
    <3>2. Cardinality(S) <= 1
      BY <3>1, AtMostOne
    <3> QED
      BY <3>2 DEF S
  <2> QED
    BY <2>1, <2>2, <2>3, <2>4 DEF DoneAt
<1> QED
  BY <1>1, <1>2 DEF OverviewSettles

\* Money follows the verdict and a completed batch is settled to the last slot, for any
\* number of callers that stop anywhere (overview/service.go).
THEOREM OverviewAlwaysSettles == WorkflowSpec => []OverviewSettles
BY InvSettles, AlwaysInv, PTL

\* For any number of operations, inputs and crashes: one input has one revision, so that a
\* repeated operation gets the one it had and operations that saw the same share it
\* (workflow and matching stores).
THEOREM RevisionsAreOne == WorkflowSpec => []OneRevisionPerInput
<1>1. Inv => OneRevisionPerInput
  <2> SUFFICES ASSUME Inv PROVE OneRevisionPerInput
    OBVIOUS
  <2>1. SealedInOrder /\ \A o \in Operation : DraftFits(snapshot, op[o])
    BY DEF Inv, OperationInv
  <2>2. \A o \in Operation : /\ op[o].revision # 0 => snapshot[op[o].revision] = op[o].input
                             /\ op[o].state = "completed" => op[o].revision # 0
    BY <2>1 DEF DraftFits
  <2>3. \A r \in Revision : batch[r].status # "none" =>
            snapshot[r] # NoInput /\ \E o \in Operation : op[o].input = snapshot[r]
    BY <2>1 DEF Inv, OperationInv, SealedInOrder
  <2>4. task = "awaiting_selection" => \E r \in Revision : batch[r].done
    BY DEF Inv, OperationInv
  <2> QED
    BY <2>1, <2>2, <2>3, <2>4 DEF OneRevisionPerInput, SealedInOrder
<1> QED
  BY <1>1, AlwaysInv, PTL
=============================================================================
