------------------------------ MODULE Sessions ------------------------------
(***************************************************************************)
(* services/engine/internal/auth: a wallet asks for a challenge, signs it, *)
(* and the signed challenge is exchanged for a session.  Issuance is one    *)
(* transaction under the wallet's advisory lock; Verify checks message and  *)
(* signature first and consumes the challenge in a transaction of its own,  *)
(* so that any number of requests may be between the two.  Messages are     *)
(* signed by their wallet: others fail in Verify and change nothing.  The   *)
(* wallets of the model share one of the sixteen shards.                    *)
(***************************************************************************)
EXTENDS Clock, FiniteSets

CONSTANTS
    Wallet, Nonce,
    Login,                  \* requests to Verify that are under way at once
    ChallengeTTL, SessionTTL,
    Minute,                 \* length of a rate limit bucket
    WalletLimit, ShardLimit \* challenges in a bucket: of a wallet, of its shard

ASSUME SessionTypes ==
    /\ IsFiniteSet(Nonce) /\ "shard" \notin Wallet
    /\ {ChallengeTTL, SessionTTL, Minute, WalletLimit, ShardLimit} \subseteq Nat \ {0}

VARIABLES
    nonces,     \* wallet_nonces
    sessions,   \* sessions, by the challenge each was created for
    users,      \* wallets with a user and the default roles
    buckets,    \* auth_rate_limit_buckets, of a wallet or of the shard
    login       \* requests that passed Verify's own checks

sessionVars == <<nonces, sessions, users, buckets, login>>

Unissued == [wallet |-> "none", issued |-> 0, expires |-> 0, consumed |-> FALSE]
Waiting == [nonce |-> "none", expires |-> 0]
Subject == Wallet \cup {"shard"}

SessionTypeOK ==
    /\ nonces \in [Nonce -> [wallet : Wallet \cup {"none"}, issued : Nat, expires : Nat, consumed : BOOLEAN]]
    /\ \A s \in sessions : s.nonce \in Nonce /\ s.wallet \in Wallet /\ s.revoked \in BOOLEAN
    /\ users \subseteq Wallet
    /\ buckets \in [Subject -> [start : Nat, count : Nat]]
    /\ login \in [Login -> [nonce : Nonce \cup {"none"}, expires : Nat]]

SessionsInit ==
    /\ nonces = [n \in Nonce |-> Unissued] /\ sessions = {} /\ users = {}
    /\ buckets = [s \in Subject |-> [start |-> 0, count |-> 0]]
    /\ login = [l \in Login |-> Waiting]

-----------------------------------------------------------------------------
Open(n) == nonces[n].wallet # "none" /\ ~nonces[n].consumed /\ nonces[n].expires > now

Bucket(s) == LET start == now \div Minute
             IN  [start |-> start, count |-> IF buckets[s].start = start THEN buckets[s].count ELSE 0]

\* incrementRateBucket, of the shard and of the wallet: one that is full rolls both back.
HasRoom(w) == Bucket("shard").count < ShardLimit /\ Bucket(w).count < WalletLimit

Issue(w) == [wallet |-> w, issued |-> now, expires |-> now + ChallengeTTL, consumed |-> FALSE]

\* A wallet with an open challenge gets that one back.
SaveChallenge(w, n) ==
    /\ nonces[n] = Unissued
    /\ ~\E m \in Nonce : nonces[m].wallet = w /\ Open(m)
    /\ HasRoom(w)
    /\ buckets' = [s \in Subject |-> IF s \in {w, "shard"} THEN [Bucket(s) EXCEPT !.count = @ + 1] ELSE buckets[s]]
    /\ nonces' = [nonces EXCEPT ![n] = Issue(w)]
    /\ UNCHANGED <<sessions, users, login>>

Verify(l, n) ==
    /\ login[l] = Waiting /\ nonces[n] # Unissued
    /\ nonces[n].issued <= now /\ now < nonces[n].expires
    /\ login' = [login EXCEPT ![l] = [nonce |-> n, expires |-> now + SessionTTL]]
    /\ UNCHANGED <<nonces, sessions, users, buckets>>

\* Fault: whether the challenge was consumed is not asked again under the row's lock.
ConsumableAgain(n) == now < nonces[n].expires

Consumable(n) == ~nonces[n].consumed /\ now < nonces[n].expires

\* The first login of a wallet makes its user and gives it the default roles.
ConsumeChallenge(l) ==
    /\ login[l] # Waiting
    /\ LET n == login[l].nonce IN
        IF Consumable(n)
        THEN /\ nonces' = [nonces EXCEPT ![n].consumed = TRUE]
             /\ users' = users \cup {nonces[n].wallet}
             /\ sessions' = sessions \cup {[by |-> l, nonce |-> n, wallet |-> nonces[n].wallet,
                                            expires |-> login[l].expires, revoked |-> FALSE]}
        ELSE UNCHANGED <<nonces, users, sessions>>
    /\ login' = [login EXCEPT ![l] = Waiting]
    /\ UNCHANGED buckets

RevokeSession(s) ==
    /\ s \in sessions /\ ~s.revoked
    /\ sessions' = (sessions \ {s}) \cup {[s EXCEPT !.revoked = TRUE]}
    /\ UNCHANGED <<nonces, users, buckets, login>>

\* ReadSession: the session a token stands for, with the roles of its user.
ReadSession(w) == \E s \in sessions : s.wallet = w /\ ~s.revoked /\ s.expires > now

SessionsNext ==
    \/ \E w \in Wallet, n \in Nonce : SaveChallenge(w, n)
    \/ \E l \in Login : ConsumeChallenge(l) \/ \E n \in Nonce : Verify(l, n)
    \/ \E s \in sessions : RevokeSession(s)

-----------------------------------------------------------------------------
(* Requests to issue and to verify, expiry and the turn of a minute in any order: a    *)
(* challenge brings at most one session and the one its wallet asked for, a wallet has *)
(* one open challenge, and no minute sees more challenges than a wallet or a shard may *)
(* have (ConsumeChallenge, SaveChallenge, incrementRateBucket).                        *)
LoginsHold ==
    /\ SessionTypeOK
    /\ \A s, t \in sessions : s.nonce = t.nonce => s = t
    /\ \A n \in Nonce : nonces[n].consumed <=> \E s \in sessions : s.nonce = n /\ s.wallet = nonces[n].wallet
    /\ \A m, n \in Nonce : Open(m) /\ Open(n) /\ nonces[m].wallet = nonces[n].wallet => m = n
    /\ \A k \in 0..(MaxTime \div Minute) :
          LET issued == {n \in Nonce : nonces[n].wallet # "none" /\ nonces[n].issued \div Minute = k}
          IN  /\ Cardinality(issued) <= ShardLimit
              /\ \A w \in Wallet : Cardinality({n \in issued : nonces[n].wallet = w}) <= WalletLimit
=============================================================================
