---------------------------- MODULE Credentials ----------------------------
(***************************************************************************)
(* services/engine/internal/credential and RuntimeCredentialProvider of     *)
(* internal/execution: credentials of agents, stored encrypted as versions, *)
(* and the protocol bundles each engine process keeps in memory to talk to  *)
(* the agents.  A bundle is its bearer token; a credential of another type  *)
(* is Other and is never put in memory.  The rotation of a bundle holds the *)
(* mutex of its process: validate against the memory, store, update the     *)
(* memory.  Processes share the database and nothing else.  Sealing and     *)
(* opening an envelope give back what was sealed.                           *)
(***************************************************************************)
EXTENDS Integers, Sequences

CONSTANTS
    Agents,         \* agents 1..Agents, in the order of their ids
    Token, Other,
    Key,            \* idempotency keys of an agent's owner
    Process,
    Configured,     \* the tokens of ENGINE_AGENT_RUNTIME_CREDENTIALS_JSON
    None,
    MaxVersions, MaxEdits   \* bounds: rotations of an agent, its other changes

Agent == 1..Agents

\* NewRuntimeCredentialProvider refuses a token that is configured twice.
ASSUME CredentialTypes ==
    /\ Agents \in Nat /\ MaxVersions \in [Agent -> Nat] /\ MaxEdits \in [Agent -> Nat]
    /\ None \notin Token \cup {Other} /\ Other \notin Token
    /\ Configured \in [Agent -> Token \cup {None}]
    /\ \A a, b \in Agent : Configured[a] = Configured[b] /\ Configured[a] # None => a = b

VARIABLES
    versions,   \* agent_credential_versions: content, key, aggregate version it was based on
    aggregate,  \* aggregate_version of agents
    retired,
    memory,     \* byAgent of each process, or None when the process is down
    rotation    \* the rotation of a bundle that holds a process's mutex

credentialVars == <<versions, aggregate, retired, memory, rotation>>

Free == [at |-> "free"]
Down == <<>>

CredentialTypeOK ==
    /\ \A a \in Agent : Len(versions[a]) <= MaxVersions[a]
    /\ aggregate \in [Agent -> Nat] /\ retired \subseteq Agent
    /\ \A p \in Process : memory[p] = Down \/ memory[p] \in [Agent -> Token \cup {None}]

CredentialsInit ==
    /\ versions = [a \in Agent |-> <<>>] /\ aggregate = [a \in Agent |-> 1] /\ retired = {}
    /\ memory = [p \in Process |-> Configured]
    /\ rotation = [p \in Process |-> Free]

-----------------------------------------------------------------------------
(* RuntimeCredentialProvider.  A result of <<>> is an error. *)

TokenFree(m, a, t) == \A b \in Agent \ {a} : m[b] # t

\* Fault: the token was looked up when the request was validated, and is not again.
UpdateUnchecked(m, a, t) == [m EXCEPT ![a] = t]

UpdateProtocolBundle(m, a, t) == IF TokenFree(m, a, t) THEN [m EXCEPT ![a] = t] ELSE Down

Current(a) == IF versions[a] = <<>> THEN None ELSE versions[a][Len(versions[a])].content

\* RestoreProtocolBundles: agents whose current credential is a bundle, in the order of
\* their ids, on top of what is configured; the first error ends the process.
Restored(a) == IF Current(a) \in Token THEN Current(a) ELSE Configured[a]
RestoredBefore(n) == [a \in Agent |-> IF a < n THEN Restored(a) ELSE Configured[a]]

RestoreProtocolBundles ==
    IF \A n \in Agent : Current(n) \in Token => UpdateProtocolBundle(RestoredBefore(n), n, Current(n)) # Down
    THEN [a \in Agent |-> Restored(a)] ELSE Down

-----------------------------------------------------------------------------
(* Rotate *)

ValidateProtocolBundle(p, a, k, t, e) ==
    /\ memory[p] # Down /\ rotation[p] = Free
    /\ TokenFree(memory[p], a, t)
    /\ rotation' = [rotation EXCEPT ![p] = [at |-> "validated", agent |-> a, key |-> k, content |-> t, on |-> e]]
    /\ UNCHANGED <<versions, aggregate, retired, memory>>

Known(a, k) == \E i \in DOMAIN versions[a] : versions[a][i].key = k
Replay(a, v) == \E i \in DOMAIN versions[a] : versions[a][i] = v

Rotatable(a, e) == a \notin retired /\ aggregate[a] = e

\* Store.Rotate and execute: a known key is answered if the request is the same and refused
\* if not; the version and the agent's row change in one transaction.
Store(a, v) ==
    /\ ~Known(a, v.key) /\ Rotatable(a, v.on) /\ Len(versions[a]) < MaxVersions[a]
    /\ versions' = [versions EXCEPT ![a] = Append(@, v)]
    /\ aggregate' = [aggregate EXCEPT ![a] = @ + 1]
    /\ UNCHANGED retired

Request(r) == [content |-> r.content, key |-> r.key, on |-> r.on]

RotateStored(p) ==
    /\ rotation[p].at = "validated"
    /\ LET r == rotation[p] IN
        \/ Store(r.agent, Request(r))
        \/ Replay(r.agent, Request(r)) /\ UNCHANGED <<versions, aggregate, retired>>
    /\ rotation' = [rotation EXCEPT ![p].at = "stored"]
    /\ UNCHANGED memory

RotateRefused(p) ==
    /\ rotation[p].at = "validated"
    /\ LET r == rotation[p] IN
        /\ ~Replay(r.agent, Request(r))
        /\ Known(r.agent, r.key) \/ ~Rotatable(r.agent, r.on)
    /\ rotation' = [rotation EXCEPT ![p] = Free]
    /\ UNCHANGED <<versions, aggregate, retired, memory>>

\* Also after a replay, with the secret of the repeated request.
RotateObserved(p) ==
    /\ rotation[p].at = "stored"
    /\ LET m == UpdateProtocolBundle(memory[p], rotation[p].agent, rotation[p].content)
       IN  memory' = IF m = Down THEN memory ELSE [memory EXCEPT ![p] = m]
    /\ rotation' = [rotation EXCEPT ![p] = Free]
    /\ UNCHANGED <<versions, aggregate, retired>>

\* Any other type of credential neither takes the mutex nor reaches the memory.
RotateOther(a, k, e) ==
    /\ \E p \in Process : memory[p] # Down
    /\ Store(a, [content |-> Other, key |-> k, on |-> e])
    /\ UNCHANGED <<memory, rotation>>

-----------------------------------------------------------------------------
(* What happens around it *)

Crash(p) ==
    /\ memory[p] # Down
    /\ memory' = [memory EXCEPT ![p] = Down]
    /\ rotation' = [rotation EXCEPT ![p] = Free]
    /\ UNCHANGED <<versions, aggregate, retired>>

Start(p) ==
    /\ memory[p] = Down /\ RestoreProtocolBundles # Down
    /\ memory' = [memory EXCEPT ![p] = RestoreProtocolBundles]
    /\ UNCHANGED <<versions, aggregate, retired, rotation>>

\* The owner edits the agent or retires it.
Edit(a) ==
    /\ a \notin retired /\ aggregate[a] - Len(versions[a]) <= MaxEdits[a]
    /\ aggregate' = [aggregate EXCEPT ![a] = @ + 1]
    /\ retired' \in {retired, retired \cup {a}}
    /\ UNCHANGED <<versions, memory, rotation>>

ProcessNext ==
    \/ \E p \in Process : RotateStored(p) \/ RotateRefused(p) \/ RotateObserved(p) \/ Crash(p) \/ Start(p)
    \/ \E a \in Agent : Edit(a)

-----------------------------------------------------------------------------
(* With retries, crashes and processes that know nothing of each other: a bearer token    *)
(* stands for one agent in every process (AgentForAuthorization); rotations follow one    *)
(* another, each on the version its caller had read and none for a request that was       *)
(* answered before; and no process uses a token that was not stored for the agent first.  *)
CredentialsHold ==
    /\ CredentialTypeOK
    /\ \A p \in Process : memory[p] # Down =>
          \A a \in Agent : memory[p][a] # None =>
              /\ TokenFree(memory[p], a, memory[p][a])
              /\ memory[p][a] = Configured[a]
                 \/ \E i \in DOMAIN versions[a] : versions[a][i].content = memory[p][a]
    /\ \A a \in Agent : \A i, j \in DOMAIN versions[a] :
          i < j => versions[a][i].on < versions[a][j].on /\ versions[a][i].key # versions[a][j].key
=============================================================================
