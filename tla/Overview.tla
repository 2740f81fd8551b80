------------------------------ MODULE Overview ------------------------------
(***************************************************************************)
(* services/engine/internal/overview: the batch of overviews of a matching *)
(* revision.  Money is reserved and the execution created before the batch *)
(* exists; verdict, payment and its record are transactions of their own,  *)
(* made by any number of callers, each of which may stop anywhere.  What a *)
(* caller read earlier matters in two places: a verdict about a deadline   *)
(* (seen) and the slots a superseding revision still has to release        *)
(* (releasing, lost when the process dies).  All other reads are of values *)
(* that do not change any more.                                            *)
(***************************************************************************)
EXTENDS Funds, Sequences, SequencesExt

CONSTANTS
    Revision,   \* match revisions, 1..n
    Agent,
    Provider,   \* the provider of an agent
    Qualified,  \* agents of a snapshot, best first
    Limit,      \* slots of a batch
    Content,    \* deliverables that pass ValidateArtifact
    UsedCost,   \* what producing one costs
    NoContent

\* A snapshot shows an agent of a provider once (ProviderCap is 1).
ASSUME OverviewTypes ==
    /\ Revision \subseteq Nat \ {0} /\ Cell = Revision \X Agent
    /\ Qualified \in Seq(Agent) /\ Limit \in 1..Len(Qualified)
    /\ \A i, j \in 1..Limit : Provider[Qualified[i]] = Provider[Qualified[j]] => i = j
    /\ UsedCost \in [Content -> 0..CostCap]
    /\ NoContent \notin Content /\ Content \cap {"none", "pending", "running", "failed"} = {}

VARIABLES
    batch,      \* overview_batches by revision
    slot,       \* overview_slots
    work,       \* the execution of a slot
    late,       \* revisions whose deadline has passed
    seen,       \* slots a caller found unfinished after the deadline
    releasing   \* slots an ObsoleteBefore in progress has yet to release

slotVars == <<batch, slot, work, late, seen, releasing>>
overviewVars == <<pool, funding, alloc, batch, slot, work, late, seen, releasing>>

Rev(c) == c[1]
Ended == {"failed"} \cup Content    \* failed, cancelled, stopped for cost, or flawed; or delivered

NoBatch == [status |-> "none", used |-> FALSE, exhausted |-> FALSE, done |-> FALSE]
NoSlot == [status |-> "none", billing |-> "none", replacement |-> FALSE, content |-> NoContent]
Planned == [NoSlot EXCEPT !.status = "planned", !.billing = "authorized"]

OverviewTypeOK ==
    /\ FundsTypeOK
    /\ batch \in [Revision -> [status : {"none", "running", "completed", "obsolete"},
                               used : BOOLEAN, exhausted : BOOLEAN, done : BOOLEAN]]
    /\ slot \in [Cell -> [status : {"none", "planned", "dispatched", "valid", "invalid", "obsolete"},
                          billing : {"none", "authorized", "captured", "released"},
                          replacement : BOOLEAN, content : Content \cup {NoContent}]]
    /\ work \in [Cell -> {"none", "pending", "running"} \cup Ended]
    /\ late \subseteq Revision /\ seen \subseteq Cell /\ releasing \subseteq Cell

OverviewInit ==
    /\ FundsInit
    /\ batch = [r \in Revision |-> NoBatch]
    /\ slot = [c \in Cell |-> NoSlot]
    /\ work = [c \in Cell |-> "none"]
    /\ late = {} /\ seen = {} /\ releasing = {}

Slots(r) == {c \in Cell : Rev(c) = r /\ slot[c].status # "none"}
Selected == SubSeq(Qualified, 1, Limit)

-----------------------------------------------------------------------------
(* Start *)

\* planSlot: reserve, then create the execution, which nobody looks at before the slot
\* exists.  A reservation found again serves only while its deadline lies ahead.
PlanSlot(c) ==
    /\ Rev(c) \notin late
    /\ AuthorizeOverview(c)
    /\ work' = [work EXCEPT ![c] = "pending"]
    /\ UNCHANGED <<batch, slot, late, seen, releasing>>

\* The selections are planned in their order, each by whoever gets there.
PlanSelection(r, i) ==
    /\ batch[r].status = "none"
    /\ \A j \in 1..(i - 1) : alloc[<<r, Selected[j]>>].status # "none"
    /\ PlanSlot(<<r, Selected[i]>>)

GetOrCreate(r) ==
    /\ batch[r].status = "none" /\ r \notin late
    /\ \A a \in Range(Selected) : Reauthorized(<<r, a>>)
    /\ batch' = [batch EXCEPT ![r].status = "running"]
    /\ slot' = [c \in Cell |-> IF Rev(c) = r /\ c[2] \in Range(Selected) THEN Planned ELSE slot[c]]
    /\ UNCHANGED <<pool, funding, alloc, work, late, seen, releasing>>

\* dispatchOutstanding: first the agent is called, then the slot says so.
Dispatch(c) ==
    /\ slot[c].status = "planned" /\ work[c] = "pending"
    /\ work' = [work EXCEPT ![c] = "running"]
    /\ UNCHANGED <<pool, funding, alloc, batch, slot, late, seen, releasing>>

\* By a caller whose call of the agent succeeded, however long ago.
RecordDispatched(c) ==
    /\ batch[Rev(c)].status # "obsolete" /\ slot[c].status = "planned" /\ work[c] \notin {"none", "pending"}
    /\ slot' = [slot EXCEPT ![c].status = "dispatched"]
    /\ UNCHANGED <<pool, funding, alloc, batch, work, late, seen, releasing>>

\* The agent: a deliverable that passes is one made in time.
WorkEnds(c, end) ==
    /\ work[c] = "running" /\ (end \in Content => Rev(c) \notin late)
    /\ work' = [work EXCEPT ![c] = end]
    /\ UNCHANGED <<pool, funding, alloc, batch, slot, late, seen, releasing>>

DeadlinePasses(r) ==
    /\ r \notin late /\ \E c \in Cell : Rev(c) = r /\ alloc[c].status # "none"
    /\ late' = late \cup {r}
    /\ UNCHANGED <<pool, funding, alloc, batch, slot, work, seen, releasing>>

-----------------------------------------------------------------------------
(* FinalizeSlot *)

\* After the deadline unfinished work is cancelled, which may fail, and judged.
FindLate(c, cancelled) ==
    /\ batch[Rev(c)].status # "obsolete" /\ slot[c].status = "dispatched"
    /\ Rev(c) \in late /\ work[c] = "running" /\ c \notin seen
    /\ seen' = seen \cup {c}
    /\ work' = IF cancelled THEN [work EXCEPT ![c] = "failed"] ELSE work
    /\ UNCHANGED <<pool, funding, alloc, batch, slot, late, releasing>>

\* The verdicts a caller can hold on a slot; NoContent is any reason against it.
Verdicts(c) ==
    (IF work[c] \in Content THEN {work[c]} ELSE {})
    \cup (IF work[c] = "failed" \/ c \in seen THEN {NoContent} ELSE {})

Duplicate(c, content) ==
    \E d \in Slots(Rev(c)) \ {c} : slot[d].status = "valid" /\ slot[d].content = content

OpenToVerdict(c) == batch[Rev(c)].status # "obsolete" /\ slot[c].status = "dispatched"

RecordValidation(c, verdict) ==
    /\ OpenToVerdict(c)
    /\ slot' = [slot EXCEPT ![c].status = IF verdict = NoContent \/ Duplicate(c, verdict)
                                          THEN "invalid" ELSE "valid",
                            ![c].content = verdict]
    /\ seen' = seen \ {c}
    /\ UNCHANGED <<pool, funding, alloc, batch, work, late, releasing>>

\* Fault: a slot is done with when it has a verdict.
CompleteOnVerdict(r, new) ==
    /\ \A c \in Slots(r) : new[c].status \notin {"planned", "dispatched"}
    /\ (\E c \in Slots(r) : new[c].status = "invalid") => batch[r].used \/ batch[r].exhausted

\* finishBatch: everything judged and settled, and a replacement tried where one was due.
Complete(r, new) ==
    /\ \A c \in Slots(r) : new[c].status \notin {"planned", "dispatched"} /\ new[c].billing # "authorized"
    /\ (\E c \in Slots(r) : new[c].status = "invalid") => batch[r].used \/ batch[r].exhausted

Finished(b) == IF b.status = "running" THEN [b EXCEPT !.status = "completed", !.done = TRUE] ELSE b

\* RecordBilling, with the batch it may finish.
RecordBilling(c, billing) ==
    /\ slot[c].billing = "authorized"
    /\ IF billing = "captured" THEN slot[c].status = "valid"
       ELSE \/ slot[c].status \in {"invalid", "obsolete"}
            \/ batch[Rev(c)].status = "obsolete" /\ slot[c].status = "valid"
    /\ slot' = [slot EXCEPT ![c].billing = billing]
    /\ batch' = IF Complete(Rev(c), slot') THEN [batch EXCEPT ![Rev(c)] = Finished(@)] ELSE batch

\* settleAndReplace, up to the replacement: pay or release, then write it down.
SettleMoney(c) ==
    /\ \/ slot[c].status = "valid" /\ CaptureOverview(c, UsedCost[slot[c].content])
       \/ slot[c].status = "invalid" /\ ReleaseOverview(c, "verdict")
    /\ UNCHANGED slotVars

SettleRecord(c) ==
    /\ \/ slot[c].status = "valid" /\ alloc[c].status = "captured" /\ RecordBilling(c, "captured")
       \/ slot[c].status = "invalid" /\ alloc[c].reason = "verdict" /\ RecordBilling(c, "released")
    /\ UNCHANGED <<pool, funding, alloc, work, late, seen, releasing>>

\* The best qualified agent that is neither in the batch nor from a provider that is.
Unused(r) == {i \in DOMAIN Qualified : \A c \in Slots(r) : Provider[c[2]] # Provider[Qualified[i]]}
NextCandidate(r) == Qualified[CHOOSE i \in Unused(r) : \A j \in Unused(r) : i <= j]

ReplacementDue(r) ==
    /\ ~batch[r].used /\ ~batch[r].exhausted
    /\ \E c \in Slots(r) : slot[c].status = "invalid" /\ slot[c].billing # "authorized"

PlanReplacement(r) ==
    ReplacementDue(r) /\ Unused(r) # {} /\ PlanSlot(<<r, NextCandidate(r)>>)

AddReplacement(r) ==
    /\ ReplacementDue(r) /\ Unused(r) # {} /\ batch[r].status # "obsolete"
    /\ Reauthorized(<<r, NextCandidate(r)>>)
    /\ slot' = [slot EXCEPT ![<<r, NextCandidate(r)>>] = [Planned EXCEPT !.replacement = TRUE]]
    /\ batch' = [batch EXCEPT ![r].used = TRUE]
    /\ UNCHANGED <<pool, funding, alloc, work, late, seen, releasing>>

ExhaustReplacement(r) ==
    /\ ReplacementDue(r) /\ Unused(r) = {}
    /\ batch' = LET b == [batch[r] EXCEPT !.exhausted = TRUE]
                IN [batch EXCEPT ![r] =
                       IF \A c \in Slots(r) : slot[c].status \notin {"planned", "dispatched"}
                                              /\ slot[c].billing # "authorized"
                       THEN Finished(b) ELSE b]
    /\ UNCHANGED <<pool, funding, alloc, slot, work, late, seen, releasing>>

-----------------------------------------------------------------------------
(* ObsoleteBefore *)

\* One transaction; the caller goes on with the slots whose money is still reserved.
MarkObsoleteBefore(r) ==
    LET old == {q \in Revision : q < r /\ batch[q].status \in {"running", "completed"}}
    IN /\ old # {}
       /\ batch' = [q \in Revision |-> IF q \in old THEN [batch[q] EXCEPT !.status = "obsolete"] ELSE batch[q]]
       /\ slot' = [c \in Cell |-> IF Rev(c) \in old /\ slot[c].status \in {"planned", "dispatched"}
                                  THEN [slot[c] EXCEPT !.status = "obsolete"] ELSE slot[c]]
       /\ releasing' = releasing \cup {c \in Cell : Rev(c) \in old /\ slot[c].billing = "authorized"}
       /\ UNCHANGED <<pool, funding, alloc, work, late, seen>>

\* Cancel of a superseded slot's work; a refusal is ignored.
SweepCancel(c) ==
    /\ c \in releasing /\ slot[c].status = "obsolete" /\ work[c] \in {"pending", "running"}
    /\ work' = [work EXCEPT ![c] = "failed"]
    /\ UNCHANGED <<pool, funding, alloc, batch, slot, late, seen, releasing>>

SweepRelease(c) == c \in releasing /\ ReleaseOverview(c, "obsolete") /\ UNCHANGED slotVars

\* A release made for another reason, or a payment, is an error: the slot is left as it is.
SweepRecord(c) ==
    /\ c \in releasing /\ alloc[c].status # "authorized"
    /\ releasing' = releasing \ {c}
    /\ IF alloc[c].reason = "obsolete" /\ slot[c].billing = "authorized"
       THEN RecordBilling(c, "released") ELSE UNCHANGED <<batch, slot>>
    /\ UNCHANGED <<pool, funding, alloc, work, late, seen>>

\* The process dies; what its callers had read is gone.
Crash ==
    /\ seen \cup releasing # {}
    /\ seen' = {} /\ releasing' = {}
    /\ UNCHANGED <<pool, funding, alloc, batch, slot, work, late>>

SlotNext(c) ==
    \/ Dispatch(c) \/ RecordDispatched(c)
    \/ \E end \in Ended : WorkEnds(c, end)
    \/ \E cancelled \in BOOLEAN : FindLate(c, cancelled)
    \/ \E verdict \in Verdicts(c) : RecordValidation(c, verdict)
    \/ SettleMoney(c) \/ SettleRecord(c)
    \/ SweepCancel(c) \/ SweepRelease(c) \/ SweepRecord(c)

BatchNext(r) ==
    \/ \E i \in 1..Limit : PlanSelection(r, i)
    \/ GetOrCreate(r) \/ DeadlinePasses(r)
    \/ PlanReplacement(r) \/ AddReplacement(r) \/ ExhaustReplacement(r)

-----------------------------------------------------------------------------
(* Properties *)

\* An agent is paid for a slot exactly when its deliverable was found valid, never for a
\* deliverable another slot of the batch had brought already, and what the slot says of its
\* bill is what happened to the money (SettleMoney, SettleRecord and the sweep by
\* different callers, with crashes between).
BillingFollowsVerdict ==
    \A c \in Cell :
        /\ alloc[c].status = "captured" =>
              slot[c].status = "valid" /\ alloc[c].cost = UsedCost[slot[c].content]
        /\ slot[c].billing \in {"captured", "released"} => alloc[c].status = slot[c].billing
        /\ slot[c].status # "none" => alloc[c].status # "none" /\ work[c] # "none"
        /\ \A d \in Cell : /\ c # d /\ Rev(c) = Rev(d)
                           /\ alloc[c].status = "captured" /\ alloc[d].status = "captured"
                           => slot[c].content # slot[d].content

\* A completed batch owes nobody anything: every slot has its verdict and its bill, no
\* reservation of its revision is left, at most one slot is a replacement and no provider
\* has two.
CompletedIsSettled ==
    \A r \in Revision : batch[r].status = "completed" =>
        /\ \A c \in Slots(r) : slot[c].status \in {"valid", "invalid"} /\ slot[c].billing # "authorized"
        /\ \A c \in Cell : Rev(c) = r => alloc[c].status # "authorized"
        /\ Cardinality({c \in Slots(r) : slot[c].replacement}) <= 1
        /\ \A c, d \in Slots(r) : c # d => Provider[c[2]] # Provider[d[2]]

\* The money of a slot follows its verdict, and a completed batch is settled to the last slot.
OverviewSettles == BillingFollowsVerdict /\ CompletedIsSettled
=============================================================================
