------------------------------- MODULE Access -------------------------------
(***************************************************************************)
(* The engine's protected requests, for the one that rotates a credential:  *)
(* the handler reads the session of the token it got, and then calls the    *)
(* service with the user of that session, whatever becomes of it meanwhile. *)
(***************************************************************************)
EXTENDS Sessions, Credentials

CONSTANT Owner      \* the wallet of each agent's owner

ASSUME OwnerTypes == Owner \in [Agent -> Wallet]

vars == <<sessionVars, credentialVars, now>>

Init == now = 0 /\ SessionsInit /\ CredentialsInit

\* CanRotate and the owner of the row: the default roles contain agent_provider.
CanRotate(a) == ReadSession(Owner[a])

Rotate(a, k, e) ==
    /\ CanRotate(a)
    /\ \/ RotateOther(a, k, e)
       \/ \E p \in Process, t \in Token : ValidateProtocolBundle(p, a, k, t, e)

\* The version a caller names: the one it reads, or the one of a request it repeats.
Read(a) == {aggregate[a]} \cup {versions[a][i].on : i \in DOMAIN versions[a]}

Tick == now < MaxTime /\ now' = now + 1 /\ UNCHANGED <<sessionVars, credentialVars>>

Next ==
    \/ SessionsNext /\ UNCHANGED <<credentialVars, now>>
    \/ \E a \in Agent, k \in Key : \E e \in Read(a) : Rotate(a, k, e) /\ UNCHANGED <<sessionVars, now>>
    \/ ProcessNext /\ UNCHANGED <<sessionVars, now>>
    \/ Tick

Spec == Init /\ [][Next]_vars
=============================================================================
