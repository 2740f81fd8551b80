------------------------------ MODULE Workflow ------------------------------
(***************************************************************************)
(* services/engine/internal/workflow with the revisions of                 *)
(* services/engine/internal/matching: a publisher's commands to match, to  *)
(* make overviews and to judge them.  A matching operation is named by its *)
(* caller and may be repeated after a crash at any point; one call of it   *)
(* runs at a time (a session lock), different operations interleave.       *)
(***************************************************************************)
EXTENDS Overview

CONSTANTS
    Operation,  \* operation ids a publisher uses
    Input,      \* effective inputs: the instant of an evaluation and the rows it reads
    NoInput,
    MaxStarted, \* bound: revisions that are overviewed
    MaxFaults   \* bound: crashes and failed sweeps

ASSUME WorkflowTypes == NoInput \notin Input /\ MaxFaults \in Nat /\ MaxStarted \in Nat

VARIABLES
    task,       \* tasks.status
    op,         \* matching_run_operations: the frozen draft's input, and the revision
                \* that the call which runs it got back
    snapshot,   \* match_snapshots: the effective_input_hash of a revision
    latest,     \* highest match_revision
    started,    \* revisions for which StartOverview has passed its checks
    faults

pipelineVars == <<pool, funding, alloc, batch, slot, work, late, seen, releasing, task, op, snapshot, latest, started, faults>>
workflowVars == <<task, op, snapshot, latest, started, faults>>

NoOperation == [state |-> "none", input |-> NoInput, revision |-> 0, swept |-> FALSE]

WorkflowTypeOK ==
    /\ OverviewTypeOK
    /\ task \in {"escrowed", "matching", "overview_generating", "awaiting_selection"}
    /\ op \in [Operation -> [state : {"none", "begun", "frozen", "completed"},
                             input : Input \cup {NoInput},
                             revision : Revision \cup {0}, swept : BOOLEAN]]
    /\ snapshot \in [Revision -> Input \cup {NoInput}]
    /\ latest \in Revision \cup {0} /\ started \subseteq Revision /\ faults \in 0..MaxFaults

WorkflowInit ==
    /\ OverviewInit
    /\ task = "escrowed" /\ latest = 0 /\ started = {} /\ faults = 0
    /\ op = [o \in Operation |-> NoOperation]
    /\ snapshot = [r \in Revision |-> NoInput]

WorkflowMayRun == task \in {"escrowed", "matching", "overview_generating", "awaiting_selection"}

WorkflowTransitionAllowed(target) ==
    CASE target = "matching" -> task \in {"escrowed", "overview_generating", "awaiting_selection"}
      [] target = "overview_generating" -> task = "matching"
      [] target = "awaiting_selection" -> task = "overview_generating"

TransitionTask(target) ==
    (task = target \/ WorkflowTransitionAllowed(target)) /\ task' = target

-----------------------------------------------------------------------------
(* StartMatching *)

\* Completed, Task, PendingEvaluation and Begin: the instant of the evaluation is kept.
Begin(o) ==
    /\ op[o].state = "none" /\ WorkflowMayRun
    /\ op' = [op EXCEPT ![o].state = "begun"]
    /\ UNCHANGED <<overviewVars, task, snapshot, latest, started, faults>>

\* Candidates, Match and FreezeDraft: the first draft is the one that stays.  Its input
\* names instant and rows but not the operation: two operations may see the same.
FreezeDraft(o) ==
    /\ op[o].state = "begun"
    /\ \E i \in Input : op' = [op EXCEPT ![o] = [@ EXCEPT !.state = "frozen", !.input = i]]
    /\ UNCHANGED <<overviewVars, task, snapshot, latest, started, faults>>

\* Fault: every call gets a revision of its own.
KnownDraftNever(o) == {}

\* The sealed snapshots with this effective input.
KnownDraft(o) == {r \in Revision : snapshot[r] = op[o].input}

\* Repeats, and operations that saw the same, find the snapshot; exposure counters are
\* not modelled.
CreateRevision(o) ==
    /\ op[o].state = "frozen" /\ ~op[o].swept
    /\ \/ /\ \E r \in KnownDraft(o) : op' = [op EXCEPT ![o].revision = r]
          /\ UNCHANGED <<snapshot, latest>>
       \/ /\ KnownDraft(o) = {} /\ latest + 1 \in Revision
          /\ snapshot' = [snapshot EXCEPT ![latest + 1] = op[o].input]
          /\ latest' = latest + 1
          /\ op' = [op EXCEPT ![o].revision = latest + 1]
    /\ UNCHANGED <<overviewVars, task, started, faults>>

\* The operation's ObsoleteBefore: its transaction, and its end once every slot is seen to.
Supersede(o) ==
    /\ op[o].state = "frozen" /\ op[o].revision # 0 /\ ~op[o].swept
    /\ MarkObsoleteBefore(op[o].revision)
    /\ UNCHANGED workflowVars

Swept(o) ==
    /\ op[o].state = "frozen" /\ op[o].revision # 0 /\ ~op[o].swept
    /\ \A q \in Revision : q < op[o].revision => batch[q].status \in {"none", "obsolete"}
    /\ \A c \in releasing : Rev(c) >= op[o].revision
    /\ op' = [op EXCEPT ![o].swept = TRUE]
    /\ UNCHANGED <<overviewVars, task, snapshot, latest, started, faults>>

\* Its error is ignored.
SweepFails(o) ==
    /\ op[o].state = "frozen" /\ op[o].revision # 0 /\ ~op[o].swept /\ faults < MaxFaults
    /\ faults' = faults + 1
    /\ op' = [op EXCEPT ![o].swept = TRUE]
    /\ UNCHANGED <<overviewVars, task, snapshot, latest, started>>

\* TransitionTaskAndRecordMatchingOperation.
CompleteOperation(o) ==
    /\ op[o].state = "frozen" /\ op[o].swept
    /\ TransitionTask("matching")
    /\ op' = [op EXCEPT ![o].state = "completed"]
    /\ UNCHANGED <<overviewVars, snapshot, latest, started, faults>>

-----------------------------------------------------------------------------
(* StartOverview and FinalizeOverviewSlot *)

\* The pool covers every selection that has no allocation yet.
OverviewFundingReady(r) ==
    pool - Reserved >=
        Reserve * Cardinality({a \in Range(Selected) : alloc[<<r, a>>].status = "none"})

StartOverview ==
    /\ WorkflowMayRun /\ latest \in 1..MaxStarted /\ OverviewFundingReady(latest)
    /\ TransitionTask("overview_generating")
    /\ started' = started \cup {latest}
    /\ UNCHANGED <<overviewVars, op, snapshot, latest, faults>>

\* A start that finds a newer revision when it is done supersedes its own batch.
StartOvertaken(r) ==
    /\ r \in started /\ batch[r].status # "none" /\ latest > r
    /\ MarkObsoleteBefore(latest)
    /\ UNCHANGED workflowVars

\* The call of FinalizeOverviewSlot that got a completed batch back, however long ago.
OverviewReady(r) ==
    /\ batch[r].done /\ TransitionTask("awaiting_selection")
    /\ UNCHANGED <<overviewVars, op, snapshot, latest, started, faults>>

\* A call that dies has forgotten its revision; its repetition looks the draft up again.
Forgotten(row) ==
    IF row.state = "frozen" THEN [row EXCEPT !.revision = 0, !.swept = FALSE] ELSE row

ProcessDies ==
    /\ faults < MaxFaults /\ faults' = faults + 1
    /\ Crash
    /\ op' = [o \in Operation |-> Forgotten(op[o])]
    /\ UNCHANGED <<task, snapshot, latest, started>>

OverviewNext ==
    /\ \/ \E r \in started : BatchNext(r)
       \/ \E c \in Cell : SlotNext(c)
       \/ FundsMaintenance /\ UNCHANGED slotVars
    /\ UNCHANGED workflowVars

OperationNext(o) ==
    \/ Begin(o) \/ FreezeDraft(o) \/ CreateRevision(o)
    \/ Supersede(o) \/ Swept(o) \/ SweepFails(o) \/ CompleteOperation(o)

WorkflowNext ==
    \/ OverviewNext
    \/ \E o \in Operation : OperationNext(o)
    \/ StartOverview
    \/ \E r \in Revision : StartOvertaken(r) \/ OverviewReady(r)
    \/ ProcessDies

WorkflowSpec == WorkflowInit /\ [][WorkflowNext]_pipelineVars

-----------------------------------------------------------------------------
(* Properties *)

\* One input has one revision: an operation repeated after any crash gets the one it had,
\* operations that saw the same share it however late they come to it, and no other revision
\* is numbered in between.  An overview is only ever made of a revision that stands for some
\* operation's draft, and the task waits for a selection only after a batch was completed.
OneRevisionPerInput ==
    /\ \A r \in Revision : snapshot[r] # NoInput <=> r <= latest
    /\ \A q, r \in Revision : snapshot[r] # NoInput /\ snapshot[q] = snapshot[r] => q = r
    /\ \A o \in Operation :
        /\ op[o].revision # 0 => snapshot[op[o].revision] = op[o].input
        /\ op[o].state = "completed" => op[o].revision # 0
    /\ \A r \in Revision : batch[r].status # "none" =>
            snapshot[r] # NoInput /\ \E o \in Operation : op[o].input = snapshot[r]
    /\ task = "awaiting_selection" => \E r \in Revision : batch[r].done
=============================================================================
