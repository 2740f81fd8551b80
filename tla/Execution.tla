------------------------------ MODULE Execution ------------------------------
(***************************************************************************)
(* services/engine/internal/execution with the capacity leases of          *)
(* services/engine/internal/agent: one agent's logical executions, their   *)
(* network attempts, the leases that fence them, and the two ways a result *)
(* comes back (signed callback, status poll).                              *)
(*                                                                         *)
(* Every action is one database transaction; loadExecution locks the row,  *)
(* so transactions on one execution are serial.  Dispatch, Poll, Cancel    *)
(* and HandleCallback are sequences of such transactions with network      *)
(* calls between them.  Any number of callers run them at once, each may   *)
(* stall or die between two transactions, and redelivery starts them       *)
(* again.  A caller carries only facts about rows that never change back   *)
(* (an attempt number, its lease, its fence), so "some caller stands here" *)
(* is a condition on the rows, and each action's guard begins with it.     *)
(***************************************************************************)
EXTENDS Integers, FiniteSets

CONSTANTS
    Exec,            \* logical execution ids, all of one agent
    Content,         \* content hashes an agent may report
    NoContent,
    CostCap,         \* Spec.CostCap
    LeaseTTL,        \* Config.LeaseTTL
    Deadline,        \* Spec.Deadline
    MaxConcurrency,  \* largest max_concurrency an owner sets
    FlakyStore,      \* may ActivateAttempt fail for reasons outside the model?
    MaxAttempts,     \* bound: attempts per execution
    MaxPolls,        \* bound: polls holding a terminal answer at one time
    MaxTime          \* bound: last instant of the database clock

ASSUME ConstantTypes ==
    /\ IsFiniteSet(Exec) /\ NoContent \notin Content
    /\ CostCap \in Nat /\ LeaseTTL \in Nat \ {0} /\ Deadline \in Nat
    /\ MaxConcurrency \in Nat \ {0} /\ FlakyStore \in BOOLEAN
    /\ MaxAttempts \in Nat /\ MaxPolls \in Nat /\ MaxTime \in Nat

VARIABLES
    status, current, used, result,  \* logical_executions
    attempt,                        \* execution_attempts
    lease,                          \* agent_capacity_leases
    nextToken, activeCapacity, maxConcurrency,   \* the agent's row
    sent,                           \* attempts whose create envelope went out
    observing,                      \* polls between RecordUsage and the reconciliation
    callback, poll,                 \* callback events and poll reconciliations
    now                             \* clock_timestamp()

executionVars == <<status, current, used, result>>
leaseVars == <<lease, nextToken, activeCapacity, maxConcurrency>>
reportVars == <<callback, poll>>
vars == <<executionVars, attempt, leaseVars, sent, observing, reportVars, now>>

Key == Exec \X (1..MaxAttempts)     \* attempt ids, which are reservation ids too

ExecutionStatus == {"absent", "pending", "running", "cancel_requested", "cancelled",
                    "succeeded", "failed", "cost_stopped"}
AttemptStatus == {"absent", "prepared", "active", "completed", "failed", "expired", "cancelled"}
Final == {"cancelled", "succeeded", "cost_stopped"}
Terminal == Final \cup {"failed"}

NoAttempt == [status |-> "absent", fence |-> 0, expires |-> 0]
NoLease == [token |-> 0, expires |-> 0, released |-> FALSE]
NoReport == [outcome |-> "none", status |-> "none"]

Init ==
    /\ status = [e \in Exec |-> "absent"]
    /\ current = [e \in Exec |-> 0]
    /\ used = [e \in Exec |-> 0]
    /\ result = [e \in Exec |-> NoContent]
    /\ attempt = [k \in Key |-> NoAttempt]
    /\ lease = [k \in Key |-> NoLease]
    /\ nextToken = 0 /\ activeCapacity = 0 /\ maxConcurrency = MaxConcurrency
    /\ sent = {} /\ observing = {}
    /\ callback = [k \in Key |-> NoReport] /\ poll = [k \in Key |-> NoReport]
    /\ now = 0
-----------------------------------------------------------------------------
\* The trigger on logical_executions: an UPDATE it refuses fails its transaction.
StatusMayChangeAnyway(from, to) == from \notin Final
StatusMayChange(from, to) ==
    \/ from \notin Final /\ to = from
    \/ from \in {"pending", "failed"} /\ to \in {"pending", "running", "cancel_requested", "cancelled"}
    \/ from = "running" /\ to \in {"pending", "running", "failed", "succeeded",
                                   "cancel_requested", "cost_stopped"}
    \/ from = "cancel_requested" /\ to = "cancelled"

\* The trigger on execution_attempts.
AttemptMayChange(from, to) ==
    \/ from = "prepared" /\ to \in {"active", "cancelled"}
    \/ from = "active" /\ to \in {"completed", "failed", "expired", "cancelled"}

\* One transaction's writes to an execution and one of its attempts.
SetStatus(e, s) == StatusMayChange(status[e], s) /\ status' = [status EXCEPT ![e] = s]
SetAttempt(k, s) ==
    /\ AttemptMayChange(attempt[k].status, s)
    /\ attempt' = [attempt EXCEPT ![k].status = s]
-----------------------------------------------------------------------------
\* GetOrCreate; the same specification again changes nothing.
Create(e) ==
    /\ status[e] = "absent" /\ now < Deadline
    /\ status' = [status EXCEPT ![e] = "pending"]
    /\ UNCHANGED <<current, used, result, attempt, leaseVars, sent, observing, reportVars, now>>

\* PrepareAttempt hands a live attempt to the caller again.
Replays(e) ==
    LET a == attempt[<<e, current[e]>>] IN
    /\ current[e] > 0
    /\ a.status = "prepared" \/ (a.status = "active" /\ a.expires > now)

\* PrepareAttempt when no attempt is live: the next one, and the old one expires.
PrepareAttempt(e) ==
    LET n == current[e] + 1 IN
    /\ status[e] \notin Final \cup {"absent", "cancel_requested"}
    /\ ~Replays(e)
    /\ n <= MaxAttempts
    /\ attempt' = [k \in Key |->
            IF k = <<e, n>> THEN [attempt[k] EXCEPT !.status = "prepared"]
            ELSE IF k = <<e, current[e]>> /\ attempt[k].status = "active"
                 THEN [attempt[k] EXCEPT !.status = "expired"]
                 ELSE attempt[k]]
    /\ SetStatus(e, "pending")
    /\ current' = [current EXCEPT ![e] = n]
    /\ UNCHANGED <<used, result, leaseVars, sent, observing, reportVars, now>>

Unreleased == {k \in Key : lease[k].token > 0 /\ ~lease[k].released}
Live == {k \in Unreleased : lease[k].expires > now}

\* The lease table once reserving (or reconciling) has marked the expired leases.
Reconciled == [k \in Key |-> IF k \in Unreleased \ Live
                             THEN [lease[k] EXCEPT !.released = TRUE] ELSE lease[k]]

CapacityLeft == Cardinality(Live) < maxConcurrency
NewToken == nextToken + 1

\* ReserveCapacity for a Dispatch that holds attempt n.  A reservation that has a
\* lease gets that lease back, released or not, which changes nothing.  The expiry
\* was computed on the engine's clock up to a full TTL before the row lock.
ReserveCapacity(e, n, expires) ==
    LET k == <<e, n>> IN
    /\ n <= current[e]
    /\ lease[k].token = 0
    /\ now < expires /\ expires <= now + LeaseTTL
    /\ CapacityLeft
    /\ lease' = [Reconciled EXCEPT ![k] =
            [token |-> NewToken, expires |-> expires, released |-> FALSE]]
    /\ nextToken' = NewToken
    /\ activeCapacity' = Cardinality(Live) + 1
    /\ UNCHANGED <<executionVars, attempt, maxConcurrency, sent, observing, reportVars, now>>

LeaseUsable(e, n) ==
    LET k == <<e, n>> IN
    lease[k].token > 0 /\ current[e] = n /\ lease[k].expires > now

\* ActivateAttempt for a Dispatch that holds the lease of attempt n.
ActivateAttempt(e, n) ==
    LET k == <<e, n>> IN
    /\ LeaseUsable(e, n)
    /\ attempt[k].status = "prepared"
    /\ attempt' = [attempt EXCEPT ![k] =
            [status |-> "active", fence |-> lease[k].token, expires |-> lease[k].expires]]
    /\ SetStatus(e, "running")
    /\ UNCHANGED <<current, used, result, leaseVars, sent, observing, reportVars, now>>

\* Why ActivateAttempt returns an error; but for the last, these never cease to hold.
ActivateRefused(e, n) ==
    LET k == <<e, n>> IN
    /\ lease[k].token > 0
    /\ \/ ~LeaseUsable(e, n)
       \/ attempt[k].status \notin {"prepared", "active"}
       \/ attempt[k].status = "prepared" /\ ~StatusMayChange(status[e], "running")
       \/ FlakyStore

\* The service sends create for an attempt it saw active.  The call may come late
\* or fail ambiguously; the same envelope is then sent again.
SendCreate(e, n) ==
    LET k == <<e, n>> IN
    /\ attempt[k].fence > 0 /\ k \notin sent
    /\ sent' = sent \cup {k}
    /\ UNCHANGED <<executionVars, attempt, leaseVars, observing, reportVars, now>>

\* RecordDispatch found the attempt active (its counter is not modelled).
DispatchRecorded(k) == k \in sent /\ attempt[k].status = "active"

\* Dispatch got an explicit refusal, or an answer outside the protocol: FailAttempt.
FailAttempt(e, n) ==
    LET k == <<e, n>> IN
    /\ DispatchRecorded(k)
    /\ current[e] = n
    /\ SetAttempt(k, "failed")
    /\ SetStatus(e, "failed")
    /\ UNCHANGED <<current, used, result, leaseVars, sent, observing, reportVars, now>>

\* Each path that ends an attempt goes on to release its lease, as Dispatch does
\* when it could not activate one.
ReleaseDue(e, n) ==
    ActivateRefused(e, n) \/ attempt[<<e, n>>].status \in {"completed", "failed", "cancelled"}

LeaseKnown(k) == lease[k].token > 0
LeaseHeld(k) == lease[k].token > 0 /\ ~lease[k].released

ReleaseCapacity(e, n) ==
    LET k == <<e, n>> IN
    /\ ReleaseDue(e, n)
    /\ LeaseHeld(k)
    /\ lease' = [lease EXCEPT ![k].released = TRUE]
    /\ activeCapacity' = IF activeCapacity > 0 THEN activeCapacity - 1 ELSE 0
    /\ UNCHANGED <<executionVars, attempt, nextToken, maxConcurrency, sent, observing,
                   reportVars, now>>

\* The owner sets max_concurrency; never below what is in use.
UpdateCapacity(m) ==
    /\ m >= Cardinality(Live)
    /\ maxConcurrency' = m
    /\ lease' = Reconciled
    /\ activeCapacity' = Cardinality(Live)
    /\ UNCHANGED <<executionVars, attempt, nextToken, sent, observing, reportVars, now>>
-----------------------------------------------------------------------------
\* Cancel: RequestCancel commits before the agent is asked.
RequestCancel(e) ==
    /\ status[e] \notin {"absent", "succeeded", "cost_stopped", "cancelled", "cancel_requested"}
    /\ SetStatus(e, "cancel_requested")
    /\ UNCHANGED <<current, used, result, attempt, leaseVars, sent, observing, reportVars, now>>

\* BuildEnvelope refuses an attempt without a fence, so Cancel returns before it asks.
CanEnvelope(k) == attempt[k].fence >= 1

\* Cancel's second half: nothing was ever tried, or the agent accepted the cancel.
CompleteCancel(e) ==
    LET k == <<e, current[e]>> IN
    /\ status[e] = "cancel_requested"
    /\ IF current[e] = 0 THEN UNCHANGED attempt
       ELSE CanEnvelope(k) /\ SetAttempt(k, "cancelled")
    /\ SetStatus(e, "cancelled")
    /\ UNCHANGED <<current, used, result, leaseVars, sent, observing, reportVars, now>>
-----------------------------------------------------------------------------
\* The attempt is the execution's live one, so its fence is the valid one.
Holds(e, n) == current[e] = n /\ attempt[<<e, n>>].status = "active"

Charged(u) == IF u > CostCap THEN CostCap ELSE u

\* Poll: the agent answered the status call of attempt n with s and cost u, and
\* RecordUsage stores the cost.  Over the cap the attempt and the work end here;
\* a terminal answer goes on to the reconciliation.
PollStatus(e, n, s, u) ==
    LET k == <<e, n>> IN
    /\ CanEnvelope(k)
    /\ Holds(e, n)
    /\ u >= used[e]
    /\ used' = [used EXCEPT ![e] = Charged(u)]
    /\ IF u > CostCap
       THEN SetAttempt(k, "failed") /\ SetStatus(e, "cost_stopped") /\ UNCHANGED observing
       ELSE /\ observing' = IF s = "running" THEN observing
                            ELSE observing \cup {[e |-> e, n |-> n, status |-> s, used |-> u]}
            /\ Cardinality(observing') <= MaxPolls
            /\ UNCHANGED <<attempt, status>>
    /\ UNCHANGED <<current, result, leaseVars, sent, reportVars, now>>

\* How a report of the live attempt ends it (callback and poll alike).
ApplyTerminal(e, n, s, u, c) ==
    /\ u >= used[e]
    /\ used' = [used EXCEPT ![e] = Charged(u)]
    /\ IF u > CostCap THEN
            SetAttempt(<<e, n>>, "failed") /\ SetStatus(e, "cost_stopped") /\ UNCHANGED result
       ELSE IF s = "succeeded" THEN
            /\ SetAttempt(<<e, n>>, "completed") /\ SetStatus(e, "succeeded")
            /\ result' = [result EXCEPT ![e] = c]
       ELSE SetAttempt(<<e, n>>, "failed") /\ SetStatus(e, "failed") /\ UNCHANGED result
    /\ UNCHANGED current

AppliedAsAccepted(s, u) == [outcome |-> "accepted", status |-> s]
Applied(s, u) == [outcome |-> IF u > CostCap THEN "cost_stop" ELSE "accepted", status |-> s]

\* pollObservationMatches: the answer repeats what is already recorded.
Matches(o, c) ==
    LET e == o.e IN
    /\ used[e] = o.used
    /\ IF o.status = "succeeded" THEN status[e] = "succeeded" /\ result[e] = c
       ELSE status[e] = "failed"

PollFirst(k) == poll[k].outcome = "none"

\* ApplyTerminalObservation, after the deliverable was fetched with hash c.
Reconcile(o, c) ==
    LET e == o.e  k == <<o.e, o.n>> IN
    /\ o \in observing /\ observing' = observing \ {o}
    /\ PollFirst(k)
    /\ \/ /\ current[e] # o.n
          /\ poll' = [poll EXCEPT ![k] = [outcome |-> "stale_fence", status |-> o.status]]
          /\ UNCHANGED <<executionVars, attempt>>
       \/ /\ current[e] = o.n /\ (status[e] \in Terminal \/ attempt[k].status # "active")
          /\ Matches(o, c)
          /\ poll' = [poll EXCEPT ![k] = [outcome |-> "already_terminal", status |-> o.status]]
          /\ UNCHANGED <<executionVars, attempt>>
       \/ /\ Holds(e, o.n) /\ status[e] = "cancel_requested"
          /\ poll' = [poll EXCEPT ![k] = [outcome |-> "late", status |-> o.status]]
          /\ UNCHANGED <<executionVars, attempt>>
       \/ /\ Holds(e, o.n) /\ status[e] \notin Terminal \cup {"cancel_requested"}
          /\ ApplyTerminal(e, o.n, o.status, o.used, c)
          /\ poll' = [poll EXCEPT ![k] = Applied(o.status, o.used)]
    /\ UNCHANGED <<leaseVars, sent, callback, now>>

\* A poll that dies, cannot fetch the deliverable, repeats or contradicts a
\* recorded reconciliation: nothing is stored.
PollEnds(o) ==
    /\ o \in observing
    /\ observing' = observing \ {o}
    /\ UNCHANGED <<executionVars, attempt, leaseVars, sent, reportVars, now>>

CallbackFirst(k) == callback[k].outcome = "none"

\* HandleCallback: a signed report of an attempt the agent was sent, with the fence
\* it names.  The nonce belongs to the attempt, so a second event is a replay or a
\* conflict and stores nothing.
ApplyCallback(e, n, fence, s, u, c) ==
    LET k == <<e, n>>  a == attempt[<<e, n>>] IN
    /\ k \in sent
    /\ CallbackFirst(k)
    /\ \/ /\ a.fence # fence \/ current[e] # n \/ a.expires <= now
          /\ callback' = [callback EXCEPT ![k] = [outcome |-> "stale_fence", status |-> s]]
          /\ UNCHANGED <<executionVars, attempt>>
       \/ /\ a.fence = fence /\ current[e] = n /\ a.expires > now
          /\ status[e] \in {"cancel_requested", "cancelled", "cost_stopped"} \/ a.status # "active"
          /\ callback' = [callback EXCEPT ![k] = [outcome |-> "late", status |-> s]]
          /\ UNCHANGED <<executionVars, attempt>>
       \/ /\ a.fence = fence /\ Holds(e, n) /\ a.expires > now
          /\ status[e] \notin {"cancel_requested", "cancelled", "cost_stopped"}
          /\ ApplyTerminal(e, n, s, u, c)
          /\ callback' = [callback EXCEPT ![k] = Applied(s, u)]
    /\ UNCHANGED <<leaseVars, sent, observing, poll, now>>

Tick ==
    /\ now < MaxTime
    /\ now' = now + 1
    /\ UNCHANGED <<executionVars, attempt, leaseVars, sent, observing, reportVars>>
-----------------------------------------------------------------------------
\* Costs an agent reports: one beyond the cap stands for all of them.
Cost == 0..(CostCap + 1)

Dispatch ==
    \E e \in Exec :
        \/ Create(e) \/ PrepareAttempt(e)
        \/ \E n \in 1..MaxAttempts :
            \/ \E x \in 0..(MaxTime + LeaseTTL) : ReserveCapacity(e, n, x)
            \/ ActivateAttempt(e, n) \/ SendCreate(e, n)
            \/ FailAttempt(e, n) \/ ReleaseCapacity(e, n)
Cancel == \E e \in Exec : RequestCancel(e) \/ CompleteCancel(e)
Poll ==
    \/ \E e \in Exec, n \in 1..MaxAttempts, u \in Cost :
       \E s \in {"running", "succeeded", "failed", "cancelled"} : PollStatus(e, n, s, u)
    \/ \E o \in observing : PollEnds(o) \/ \E c \in Content : Reconcile(o, c)
HandleCallback ==
    \E e \in Exec, n \in 1..MaxAttempts, f \in 1..nextToken, u \in Cost, c \in Content :
    \E s \in {"succeeded", "failed"} : ApplyCallback(e, n, f, s, u, c)
Next ==
    Dispatch \/ Cancel \/ Poll \/ HandleCallback \/ Tick
    \/ \E m \in 1..MaxConcurrency : UpdateCapacity(m)

\* Nothing is assumed to happen: the message that made the worker dispatch is gone once
\* it did, the overview asks for a cancel once, and an agent may never answer.
Spec == Init /\ [][Next]_vars
-----------------------------------------------------------------------------
AttemptType == [status : AttemptStatus, fence : Nat, expires : Nat]
LeaseType == [token : Nat, expires : Nat, released : BOOLEAN]
ReportType ==
    [outcome : {"none", "accepted", "cost_stop", "late", "stale_fence", "already_terminal"},
     status : {"none", "succeeded", "failed", "cancelled"}]

(* Rows are well typed, and no more than the cap is ever charged (used_cost  *)
(* of logical_executions).                                                   *)
TypeOK ==
    /\ status \in [Exec -> ExecutionStatus]
    /\ current \in [Exec -> 0..MaxAttempts]
    /\ used \in [Exec -> 0..CostCap]
    /\ result \in [Exec -> Content \cup {NoContent}]
    /\ attempt \in [Key -> AttemptType]
    /\ lease \in [Key -> LeaseType]
    /\ nextToken \in Nat /\ activeCapacity \in Nat /\ maxConcurrency \in Nat
    /\ sent \subseteq Key
    /\ observing \subseteq [e : Exec, n : 1..MaxAttempts, used : 0..CostCap,
                            status : {"succeeded", "failed", "cancelled"}]
    /\ callback \in [Key -> ReportType] /\ poll \in [Key -> ReportType]
    /\ now \in Nat

\* The states of its current attempt an execution's status goes with.
AttemptOf(s) ==
    CASE s = "pending" -> {"prepared"}
      [] s = "running" -> {"active"}
      [] s = "succeeded" -> {"completed"}
      [] s \in {"failed", "cost_stopped"} -> {"failed"}
      [] s = "cancelled" -> {"cancelled"}
      [] s = "cancel_requested" -> {"prepared", "active", "failed"}
      [] OTHER -> {}

(* The two tables never disagree: attempts are numbered without a gap, only  *)
(* the current one can be prepared or active, and its state is the one the   *)
(* execution's status stands for (writes of PrepareAttempt, ActivateAttempt, *)
(* FailAttempt, RecordUsage, ApplyCallback, ApplyTerminalObservation and     *)
(* CompleteCancel).                                                          *)
AttemptsAgree ==
    \A e \in Exec :
        /\ \A n \in 1..MaxAttempts :
            /\ attempt[<<e, n>>].status = "absent" <=> n > current[e]
            /\ attempt[<<e, n>>].status \in {"prepared", "active"} => n = current[e]
        /\ current[e] = 0 =>
                status[e] \in {"absent", "pending", "cancel_requested", "cancelled"}
        /\ current[e] > 0 => attempt[<<e, current[e]>>].status \in AttemptOf(status[e])

(* A later attempt always has a larger fence, no two attempts of the agent   *)
(* share one, and an attempt's fence and expiry are those of its lease       *)
(* (agents.next_fencing_token against execution_attempts.fencing_token).     *)
FencesGrow ==
    /\ \A k \in Key : attempt[k].fence > 0 =>
            attempt[k].fence = lease[k].token /\ attempt[k].expires = lease[k].expires
    /\ \A k, m \in Key : k # m /\ lease[k].token > 0 => lease[k].token # lease[m].token
    /\ \A e \in Exec : \A m, n \in 1..MaxAttempts :
            m < n /\ attempt[<<e, n>>].fence > 0 =>
                0 < attempt[<<e, m>>].fence /\ attempt[<<e, m>>].fence < attempt[<<e, n>>].fence

\* The reports that ended an attempt of e.
Applications(e) ==
    {x \in ({e} \X (1..MaxAttempts)) \X {"callback", "poll"} :
        (IF x[2] = "poll" THEN poll ELSE callback)[x[1]].outcome \in {"accepted", "cost_stop"}}
Success(x) ==
    LET r == (IF x[2] = "poll" THEN poll ELSE callback)[x[1]] IN
    r.outcome = "accepted" /\ r.status = "succeeded"

(* However callbacks and polls of several attempts race, repeat and arrive   *)
(* late, each attempt is ended by at most one of them, and exactly one       *)
(* report delivered the result of work that succeeded.                       *)
OneResult ==
    \A e \in Exec :
        /\ \A x, y \in Applications(e) : x[1] = y[1] => x = y
        /\ Cardinality({x \in Applications(e) : Success(x)})
                = IF status[e] = "succeeded" THEN 1 ELSE 0
        /\ status[e] = "succeeded" <=> result[e] # NoContent

(* The agent's capacity counter is the number of unreleased leases and stays *)
(* within max_concurrency (the CHECK on agents.active_capacity never fails), *)
(* through expiry, late releases and changes of the limit.                   *)
CapacityExact ==
    /\ activeCapacity = Cardinality(Unreleased)
    /\ activeCapacity <= maxConcurrency

(* Executions, attempts, leases and the agent's counter are four tables that *)
(* separate transactions of several processes write: at every instant they   *)
(* agree, whichever of them died, came late or was refused.                  *)
TablesAgree == TypeOK /\ AttemptsAgree /\ FencesGrow /\ CapacityExact

\* A report that ended its attempt.
Counts(report) == report.outcome \in {"accepted", "cost_stop"}

\* Nothing of work that waits for its cancel changes ...
StillAsked(e) ==
    /\ status'[e] = "cancel_requested"
    /\ \A n \in 1..MaxAttempts : attempt'[<<e, n>>] = attempt[<<e, n>>]

\* ... but by the cancel, which ends the current attempt with it.
CancelDone(e) ==
    /\ status'[e] = "cancelled"
    /\ \A n \in 1..MaxAttempts :
        attempt'[<<e, n>>] = IF n = current[e] THEN [attempt[<<e, n>>] EXCEPT !.status = "cancelled"]
                             ELSE attempt[<<e, n>>]

(* Once a cancel is asked for, nothing overtakes it: a dispatch under way     *)
(* neither starts, activates nor fails an attempt, no callback or poll counts *)
(* as its result or stops it for cost, and no lease that runs out replaces    *)
(* it, however many of them were begun before RequestCancel committed.        *)
CancelPrevails ==
    [][\A e \in Exec : status[e] = "cancel_requested" =>
            /\ StillAsked(e) \/ CancelDone(e)
            /\ current'[e] = current[e] /\ result'[e] = result[e]
            /\ \A n \in 1..MaxAttempts :
                /\ Counts(callback'[<<e, n>>]) => Counts(callback[<<e, n>>])
                /\ Counts(poll'[<<e, n>>]) => Counts(poll[<<e, n>>])]_vars

PhaseOf(s) == IF s \in {"pending", "running", "failed"} THEN "open" ELSE s
Promise == INSTANCE LogicalExecution WITH
    phase <- [e \in Exec |-> PhaseOf(status[e])], attemptNo <- current

(* The attempts, leases and duplicate reports implement LogicalExecution:    *)
(* work is opened once, ends once, and only success brings a result.         *)
PromiseKept == Promise!PromiseSpec
=============================================================================
