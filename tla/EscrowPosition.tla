--------------------------- MODULE EscrowPosition ---------------------------
(***************************************************************************)
(* What the escrow promises about one task's money, without saying how:    *)
(* a position is opened once with the task's budget, may pay part of it    *)
(* out while it is open, and is closed once by paying out all that is left *)
(* to somebody.  Nothing is paid from an empty or a closed position.       *)
(***************************************************************************)
EXTENDS Integers

CONSTANTS TaskId, BudgetOf

VARIABLES phase, held, paidOut

positionVars == <<phase, held, paidOut>>

PositionInit ==
    /\ phase = [t \in TaskId |-> "empty"]
    /\ held = [t \in TaskId |-> 0]
    /\ paidOut = [t \in TaskId |-> 0]

Open(t) ==
    /\ phase[t] = "empty"
    /\ phase' = [phase EXCEPT ![t] = "open"]
    /\ held' = [held EXCEPT ![t] = BudgetOf[t]]
    /\ UNCHANGED paidOut

\* Part of an open position goes back to its publisher.
Return(t, n) ==
    /\ phase[t] = "open" /\ n <= held[t]
    /\ held' = [held EXCEPT ![t] = held[t] - n]
    /\ paidOut' = [paidOut EXCEPT ![t] = paidOut[t] + n]
    /\ UNCHANGED phase

\* Everything left goes to publisher, agent and fee recipient together.
Close(t) ==
    /\ phase[t] = "open"
    /\ phase' = [phase EXCEPT ![t] = "closed"]
    /\ held' = [held EXCEPT ![t] = 0]
    /\ paidOut' = [paidOut EXCEPT ![t] = paidOut[t] + held[t]]

PositionNext ==
    \E t \in TaskId : Open(t) \/ Close(t) \/ \E n \in 0..held[t] : Return(t, n)

PositionSpec == PositionInit /\ [][PositionNext]_positionVars
=============================================================================
