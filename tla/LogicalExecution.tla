--------------------------- MODULE LogicalExecution ---------------------------
(***************************************************************************)
(* What services/engine/internal/execution promises of one piece of        *)
(* billable work, whatever happens to its network attempts: it is opened   *)
(* once, ends at most once, and a result appears only with success.  Every *)
(* attempt, lease, retry and duplicate report is invisible here.           *)
(***************************************************************************)
EXTENDS Naturals

CONSTANTS Exec, Content, NoContent
VARIABLES phase, result, attemptNo

promiseVars == <<phase, result, attemptNo>>

Ended == {"succeeded", "cancelled", "cost_stopped"}
PromiseInit ==
    /\ phase = [e \in Exec |-> "absent"]
    /\ result = [e \in Exec |-> NoContent]
    /\ attemptNo = [e \in Exec |-> 0]

Becomes(e, from, to) == phase[e] = from /\ phase' = [phase EXCEPT ![e] = to]

Open(e) == Becomes(e, "absent", "open") /\ UNCHANGED <<result, attemptNo>>
Succeed(e, c) ==
    /\ Becomes(e, "open", "succeeded")
    /\ result' = [result EXCEPT ![e] = c]
    /\ UNCHANGED attemptNo
StopForCost(e) == Becomes(e, "open", "cost_stopped") /\ UNCHANGED <<result, attemptNo>>
AskCancel(e) == Becomes(e, "open", "cancel_requested") /\ UNCHANGED <<result, attemptNo>>
Cancelled(e) == Becomes(e, "cancel_requested", "cancelled") /\ UNCHANGED <<result, attemptNo>>

\* A further network attempt: only open work is tried again.
TryAgain(e) ==
    /\ phase[e] = "open"
    /\ attemptNo' = [attemptNo EXCEPT ![e] = @ + 1]
    /\ UNCHANGED <<phase, result>>

PromiseNext ==
    \E e \in Exec :
        \/ Open(e) \/ StopForCost(e) \/ AskCancel(e) \/ Cancelled(e) \/ TryAgain(e)
        \/ \E c \in Content : Succeed(e, c)

PromiseSpec == PromiseInit /\ [][PromiseNext]_promiseVars
=============================================================================
