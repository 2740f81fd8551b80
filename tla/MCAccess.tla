------------------------------ MODULE MCAccess ------------------------------
(* Two agents of one owner, one of them with a token of the configuration. *)
EXTENDS Access, TLC

CONSTANTS w, t1
MCConfigured == <<t1, None>>
MCVersions == <<2, 1>>
MCEdits == <<0, 1>>
MCOwner == [a \in Agent |-> w]
Symmetry == Permutations(Nonce) \cup Permutations(Login) \cup Permutations(Key) \cup Permutations(Process)

\* Logins and rotations touch different rows.  Of their orders the run takes those in which
\* credentials change after the first login and before any other; that session may be
\* revoked at any time.
FirstLogin ==
    /\ now = 0 /\ \A l \in Login : login[l] = Waiting
    /\ Cardinality(sessions) = 1 /\ Cardinality({n \in Nonce : nonces[n] # Unissued}) = 1
Untouched ==
    /\ aggregate = [a \in Agent |-> 1] /\ memory = [p \in Process |-> Configured]
    /\ \A p \in Process : rotation[p] = Free
Staged ==
    /\ credentialVars' # credentialVars => FirstLogin
    /\ ~Untouched => <<nonces, users, buckets, login, now>>' = <<nonces, users, buckets, login, now>>
=============================================================================
