---------------------------- MODULE AccessProofs ----------------------------
(***************************************************************************)
(* Sessions and credentials, proved for every set of wallets, agents,      *)
(* processes and requests and every limit.                                 *)
(***************************************************************************)
EXTENDS Access, FiniteSetTheorems, SequenceTheorems, TLAPS

NonceRow == [wallet : Wallet \cup {"none"}, issued : Nat, expires : Nat, consumed : BOOLEAN]
SessionRow == [by : Login, nonce : Nonce, wallet : Wallet, expires : Nat, revoked : BOOLEAN]
BucketRow == [start : Nat, count : Nat]
LoginRow == [nonce : Nonce \cup {"none"}, expires : Nat]

SessionRows ==
    /\ nonces \in [Nonce -> NonceRow] /\ sessions \in SUBSET SessionRow /\ users \in SUBSET Wallet
    /\ buckets \in [Subject -> BucketRow] /\ login \in [Login -> LoginRow] /\ now \in Nat

\* A request that passed Verify names a challenge that was issued.
LoginHolds(l) == login[l] # Waiting => login[l].nonce \in Nonce /\ nonces[login[l].nonce].wallet \in Wallet

\* A challenge that is not free belongs to a wallet.
NonceHolds(n) == nonces[n] # Unissued => nonces[n].wallet \in Wallet

\* A session stands for a consumed challenge of its wallet.
SessionHolds(s) == nonces[s.nonce].consumed /\ nonces[s.nonce].wallet = s.wallet

\* The challenges issued in a minute, and those of them a bucket counts.
IssuedIn(k) == {n \in Nonce : nonces[n].wallet # "none" /\ nonces[n].issued \div Minute = k}
CountedBy(s, k) == {n \in IssuedIn(k) : s = "shard" \/ nonces[n].wallet = s}

\* A bucket is of this minute or an earlier one, and counts every challenge that was issued
\* in it; none it should count came later.
BucketHolds(s) ==
    /\ buckets[s].start <= now \div Minute
    /\ Cardinality(CountedBy(s, buckets[s].start)) <= buckets[s].count
    /\ \A n \in Nonce : nonces[n].wallet # "none" /\ (s = "shard" \/ nonces[n].wallet = s)
                            => nonces[n].issued \div Minute <= buckets[s].start

LimitsHold ==
    \A k \in Int : /\ Cardinality(CountedBy("shard", k)) <= ShardLimit
                   /\ \A w \in Wallet : Cardinality(CountedBy(w, k)) <= WalletLimit

LoginsInv ==
    /\ SessionRows
    /\ \A n \in Nonce : NonceHolds(n)
    /\ \A l \in Login : LoginHolds(l)
    /\ \A s \in sessions : SessionHolds(s)
    /\ \A s, t \in sessions : s.nonce = t.nonce => s = t
    /\ \A n \in Nonce : nonces[n].consumed => \E s \in sessions : s.nonce = n /\ s.wallet = nonces[n].wallet
    /\ \A m, n \in Nonce : Open(m) /\ Open(n) /\ nonces[m].wallet = nonces[n].wallet => m = n
    /\ \A s \in Subject : BucketHolds(s)
    /\ LimitsHold

-----------------------------------------------------------------------------
(* Minutes and counts *)

\* What is assumed of the constants, one by one.
LEMMA SessionBounds ==
    /\ ChallengeTTL \in Nat \ {0} /\ SessionTTL \in Nat \ {0} /\ Minute \in Nat \ {0}
    /\ WalletLimit \in Nat /\ ShardLimit \in Nat /\ IsFiniteSet(Nonce)
BY SessionTypes

\* A later instant is not in an earlier minute.
LEMMA MinutesGo ==
    ASSUME NEW a \in Nat, NEW b \in Nat, a <= b
    PROVE  a \div Minute \in Nat /\ b \div Minute \in Nat /\ a \div Minute <= b \div Minute
<1> DEFINE M == Minute
           q == a \div M
           r == b \div M
<1>0. M \in Nat /\ M > 0
    BY SessionBounds
<1>1. q \in Int /\ M * q <= a /\ a < M * q + M
    BY <1>0
<1>2. r \in Int /\ M * r <= b /\ b < M * r + M
    BY <1>0
<1> HIDE DEF M, q, r
<1>3. ASSUME NEW x \in Int, NEW y \in Int, y + 1 <= x
      PROVE  M * y + M <= M * x
    BY <1>0, <1>3
<1>4. q <= r
    <2>1. SUFFICES ASSUME r + 1 <= q PROVE FALSE
        BY <1>1, <1>2
    <2>2. M * r + M <= M * q
        BY <1>1, <1>2, <1>3, <2>1
    <2>3. M * r \in Int /\ M * q \in Int
        BY <1>0, <1>1, <1>2
    <2> QED
        BY <1>0, <1>1, <1>2, <2>2, <2>3
<1>5. q >= 0
    <2>1. SUFFICES ASSUME q + 1 <= 0 PROVE FALSE
        BY <1>1
    <2>2. M * q + M <= M * 0
        BY <1>1, <1>3, <2>1
    <2>3. M * q \in Int /\ M * 0 = 0
        BY <1>0, <1>1
    <2> QED
        BY <1>0, <1>1, <2>2, <2>3
<1> QED
    BY <1>1, <1>2, <1>4, <1>5 DEF M, q, r

\* Sets of challenges can be counted, and a larger one counts for more.
LEMMA NonceCount ==
    ASSUME NEW S \in SUBSET Nonce, NEW T \in SUBSET Nonce, S \subseteq T
    PROVE  /\ IsFiniteSet(S) /\ Cardinality(S) \in Nat /\ Cardinality(T) \in Nat
           /\ Cardinality(S) <= Cardinality(T)
<1>1. IsFiniteSet(T)
    BY SessionBounds, FS_Subset
<1> QED
    BY <1>1, FS_Subset, FS_CardinalityType

\* One more challenge counts for at most one.
LEMMA OneMore ==
    ASSUME NEW S \in SUBSET Nonce, NEW T \in SUBSET Nonce, NEW n \in Nonce, S \subseteq T \cup {n}
    PROVE  Cardinality(S) \in Nat /\ Cardinality(T) \in Nat /\ Cardinality(S) <= Cardinality(T) + 1
<1>1. IsFiniteSet(T) /\ Cardinality(T) \in Nat /\ T \cup {n} \in SUBSET Nonce
    BY NonceCount
<1>2. Cardinality(S) <= Cardinality(T \cup {n}) /\ Cardinality(S) \in Nat
    BY <1>1, NonceCount
<1>3. Cardinality(T \cup {n}) = Cardinality(T) \/ Cardinality(T \cup {n}) = Cardinality(T) + 1
    BY <1>1, FS_AddElement
<1> QED
    BY <1>1, <1>2, <1>3

\* Before a challenge is issued, the bucket of this minute counts those issued in it.
LEMMA BucketCounts ==
    ASSUME LoginsInv, NEW s \in Subject
    PROVE  /\ Bucket(s) \in BucketRow /\ Bucket(s).start = now \div Minute
           /\ CountedBy(s, now \div Minute) \in SUBSET Nonce
           /\ Cardinality(CountedBy(s, now \div Minute)) <= Bucket(s).count
<1> DEFINE K == now \div Minute
<1>0. buckets[s] \in BucketRow /\ now \in Nat /\ BucketHolds(s) /\ nonces \in [Nonce -> NonceRow]
    BY DEF LoginsInv, SessionRows
<1>1. K \in Nat
    BY <1>0, MinutesGo
<1>2. Bucket(s) = [start |-> K, count |-> IF buckets[s].start = K THEN buckets[s].count ELSE 0]
    BY DEF Bucket
<1>3. Bucket(s) \in BucketRow /\ Bucket(s).start = K
    <2>1. (IF buckets[s].start = K THEN buckets[s].count ELSE 0) \in Nat
        BY <1>0 DEF BucketRow
    <2> QED
        BY <1>1, <1>2, <2>1 DEF BucketRow
<1>4. CountedBy(s, K) \in SUBSET Nonce
    BY DEF CountedBy, IssuedIn
<1>5. CASE buckets[s].start = K
    BY <1>0, <1>2, <1>3, <1>4, <1>5 DEF BucketHolds
<1>6. CASE buckets[s].start # K
    <2>1. buckets[s].start < K /\ buckets[s].start \in Nat
        BY <1>0, <1>1, <1>6 DEF BucketHolds, BucketRow
    <2>2. \A n \in CountedBy(s, K) : FALSE
        <3> SUFFICES ASSUME NEW n \in CountedBy(s, K) PROVE FALSE
            OBVIOUS
        <3>1. /\ n \in Nonce /\ nonces[n].wallet # "none" /\ nonces[n].issued \div Minute = K
              /\ s = "shard" \/ nonces[n].wallet = s
            BY DEF CountedBy, IssuedIn
        <3>2. nonces[n].issued \div Minute <= buckets[s].start
            BY <1>0, <3>1 DEF BucketHolds
        <3> HIDE DEF K
        <3> QED
            BY <1>1, <2>1, <3>1, <3>2
    <2>3. Cardinality(CountedBy(s, K)) = 0
        BY <2>2, FS_EmptySet
    <2> QED
        BY <1>2, <1>3, <1>4, <1>6, <2>3
<1> QED
    BY <1>3, <1>4, <1>5, <1>6

-----------------------------------------------------------------------------
(* Logins *)

\* A step that keeps what a challenge's issue recorded keeps the counts.
LEMMA CountsStay ==
    ASSUME LoginsInv, nonces' \in [Nonce -> NonceRow], buckets' = buckets, now' \in Nat, now <= now',
           \A n \in Nonce : nonces'[n].wallet = nonces[n].wallet /\ nonces'[n].issued = nonces[n].issued
    PROVE  (\A s \in Subject : BucketHolds(s)') /\ LimitsHold'
<1>0. now \in Nat
    BY DEF LoginsInv, SessionRows
<1>1. ASSUME NEW s, NEW k
      PROVE  CountedBy(s, k)' = CountedBy(s, k)
    BY DEF CountedBy, IssuedIn
<1>2. now \div Minute \in Nat /\ now' \div Minute \in Nat /\ now \div Minute <= now' \div Minute
    BY <1>0, MinutesGo
<1>3. ASSUME NEW s \in Subject
      PROVE  BucketHolds(s)'
    <2>1. BucketHolds(s) /\ buckets[s].start \in Nat
        BY DEF LoginsInv, SessionRows, BucketRow
    <2>2. buckets[s].start <= now' \div Minute
        <3> DEFINE a == now \div Minute
                   b == now' \div Minute
        <3>1. buckets[s].start <= a /\ a \in Nat /\ b \in Nat /\ a <= b
            BY <1>2, <2>1 DEF BucketHolds
        <3> HIDE DEF a, b
        <3>2. buckets[s].start <= b
            BY <2>1, <3>1
        <3> QED
            BY <3>2 DEF b
    <2>3. CountedBy(s, buckets[s].start)' = CountedBy(s, buckets[s].start)
        BY <1>1
    <2>4. Cardinality(CountedBy(s, buckets[s].start)') <= buckets'[s].count
        BY <2>1, <2>3 DEF BucketHolds
    <2>5. \A n \in Nonce : nonces'[n].wallet # "none" /\ (s = "shard" \/ nonces'[n].wallet = s)
                            => nonces'[n].issued \div Minute <= buckets'[s].start
        BY <2>1 DEF BucketHolds
    <2> QED
        BY <2>2, <2>4, <2>5 DEF BucketHolds
<1>4. LimitsHold'
    <2>1. ASSUME NEW k \in Int
          PROVE  /\ Cardinality(CountedBy("shard", k)') <= ShardLimit
                 /\ \A w \in Wallet : Cardinality(CountedBy(w, k)') <= WalletLimit
        BY <1>1 DEF LoginsInv, LimitsHold
    <2> QED
        BY <2>1 DEF LimitsHold
<1> QED
    BY <1>3, <1>4

\* Issuing a challenge: the wallet has no other that is open, and neither bucket is full.
LEMMA SaveChallengeStep ==
    ASSUME LoginsInv, NEW w \in Wallet, NEW n \in Nonce, SaveChallenge(w, n), now' = now
    PROVE  LoginsInv'
<1> DEFINE K == now \div Minute
           Of(s) == s \in {w, "shard"}
<1>0. /\ nonces \in [Nonce -> NonceRow] /\ sessions \in SUBSET SessionRow /\ users \in SUBSET Wallet
      /\ buckets \in [Subject -> BucketRow] /\ login \in [Login -> LoginRow] /\ now \in Nat
    BY DEF LoginsInv, SessionRows
<1>1. /\ nonces[n] = Unissued /\ HasRoom(w) /\ UNCHANGED <<sessions, users, login>>
      /\ ~\E m \in Nonce : nonces[m].wallet = w /\ Open(m)
      /\ buckets' = [s \in Subject |-> IF s \in {w, "shard"} THEN [Bucket(s) EXCEPT !.count = @ + 1] ELSE buckets[s]]
      /\ nonces' = [nonces EXCEPT ![n] = Issue(w)]
    BY DEF SaveChallenge
<1>2. Issue(w) \in NonceRow /\ Issue(w).wallet = w /\ Issue(w).issued = now /\ ~Issue(w).consumed
    BY <1>0, SessionBounds DEF Issue, NonceRow
<1>3. /\ nonces' \in [Nonce -> NonceRow] /\ nonces'[n] = Issue(w)
      /\ \A m \in Nonce \ {n} : nonces'[m] = nonces[m]
    BY <1>0, <1>1, <1>2
<1>4. nonces[n].wallet = "none" /\ ~nonces[n].consumed
    BY <1>1 DEF Unissued
<1>5. K \in Nat
    BY <1>0, MinutesGo
<1>6. ASSUME NEW s \in Subject, Of(s)
      PROVE  /\ buckets'[s] \in BucketRow /\ buckets'[s].start = K
             /\ buckets'[s].count = Bucket(s).count + 1 /\ Bucket(s).count \in Nat
    <2>1. Bucket(s) \in BucketRow /\ Bucket(s).start = K
        BY BucketCounts
    <2>2. buckets'[s] = [Bucket(s) EXCEPT !.count = @ + 1]
        BY <1>1, <1>6
    <2> HIDE DEF K
    <2> QED
        BY <2>1, <2>2 DEF BucketRow
<1>7. ASSUME NEW s \in Subject, ~Of(s)
      PROVE  buckets'[s] = buckets[s]
    BY <1>1, <1>7
<1>8. buckets' \in [Subject -> BucketRow]
    <2>1. \A s \in Subject : buckets'[s] \in BucketRow
        BY <1>0, <1>6, <1>7
    <2> QED
        BY <1>1, <2>1
<1>9. SessionRows'
    BY <1>0, <1>1, <1>3, <1>8 DEF SessionRows
<1>10. ASSUME NEW s \in Subject, NEW k \in Int
       PROVE  /\ CountedBy(s, k)' \in SUBSET Nonce /\ CountedBy(s, k) \in SUBSET Nonce
              /\ CountedBy(s, k)' \subseteq CountedBy(s, k) \cup {n}
              /\ k # K \/ ~Of(s) => CountedBy(s, k)' \subseteq CountedBy(s, k)
    <2>1. CountedBy(s, k)' \in SUBSET Nonce /\ CountedBy(s, k) \in SUBSET Nonce
        BY DEF CountedBy, IssuedIn
    <2>2. ASSUME NEW m \in CountedBy(s, k)', m # n
          PROVE  m \in CountedBy(s, k)
        BY <1>3, <2>2 DEF CountedBy, IssuedIn
    <2>3. n \in CountedBy(s, k)' => k = K /\ Of(s)
        BY <1>2, <1>3 DEF CountedBy, IssuedIn
    <2> QED
        BY <2>1, <2>2, <2>3
<1>11. ASSUME NEW s \in Subject, Of(s)
       PROVE  Cardinality(CountedBy(s, K)') <= Bucket(s).count + 1
    <2>1. Cardinality(CountedBy(s, K)) <= Bucket(s).count /\ Bucket(s).count \in Nat
        BY <1>6, <1>11, BucketCounts
    <2>2. CountedBy(s, K)' \in SUBSET Nonce /\ CountedBy(s, K) \in SUBSET Nonce
          /\ CountedBy(s, K)' \subseteq CountedBy(s, K) \cup {n}
        BY <1>5, <1>10
    <2>3. Cardinality(CountedBy(s, K)') \in Nat /\ Cardinality(CountedBy(s, K)) \in Nat
          /\ Cardinality(CountedBy(s, K)') <= Cardinality(CountedBy(s, K)) + 1
        BY <2>2, OneMore
    <2> QED
        BY <2>1, <2>3
<1>12. ASSUME NEW s \in Subject
       PROVE  BucketHolds(s)'
    <2>0. BucketHolds(s) /\ buckets[s].start \in Nat
        BY DEF LoginsInv, SessionRows, BucketRow
    <2>1. CASE Of(s)
        <3>1. buckets'[s].start = K /\ buckets'[s].count = Bucket(s).count + 1
            BY <1>6, <2>1
        <3>2. CountedBy(s, buckets[s].start)' = CountedBy(s, K)'
            BY <3>1
        <3>3. \A m \in Nonce : nonces'[m].wallet # "none" /\ (s = "shard" \/ nonces'[m].wallet = s)
                            => nonces'[m].issued \div Minute <= K
            <4>1. \A m \in Nonce : nonces[m].issued \in Nat
                BY <1>0 DEF NonceRow
            <4>2. \A m \in Nonce \ {n} : nonces[m].wallet # "none" /\ (s = "shard" \/ nonces[m].wallet = s)
                            => nonces[m].issued \div Minute <= K
                <5> TAKE m \in Nonce \ {n}
                <5> HAVE nonces[m].wallet # "none" /\ (s = "shard" \/ nonces[m].wallet = s)
                <5> DEFINE i == nonces[m].issued \div Minute
                <5>1. i <= buckets[s].start /\ buckets[s].start <= K
                    BY <2>0 DEF BucketHolds
                <5>2. i \in Nat
                    BY <4>1, MinutesGo
                <5> HIDE DEF i, K
                <5>3. i <= K
                    BY <1>5, <2>0, <5>1, <5>2
                <5> QED
                    BY <5>3 DEF i
            <4>3. nonces'[n].issued \div Minute <= K
                <5>1. nonces'[n].issued \div Minute = K
                    BY <1>2, <1>3
                <5> HIDE DEF K
                <5> QED
                    BY <1>5, <5>1
            <4> QED
                BY <1>3, <4>2, <4>3
        <3>4. Cardinality(CountedBy(s, K)') <= buckets'[s].count
            BY <1>11, <2>1, <3>1
        <3>5. K <= now' \div Minute
            <4>1. now' \div Minute = K
                OBVIOUS
            <4> HIDE DEF K
            <4> QED
                BY <1>5, <4>1
        <3> HIDE DEF K
        <3> QED
            BY <3>1, <3>2, <3>3, <3>4, <3>5 DEF BucketHolds
    <2>2. CASE ~Of(s)
        <3>1. buckets'[s] = buckets[s]
            BY <1>7, <2>2
        <3>2. CountedBy(s, buckets[s].start)' \subseteq CountedBy(s, buckets[s].start)
            BY <1>10, <2>0, <2>2, <3>1
        <3>3. Cardinality(CountedBy(s, buckets[s].start)') <= Cardinality(CountedBy(s, buckets[s].start))
              /\ Cardinality(CountedBy(s, buckets[s].start)') \in Nat
              /\ Cardinality(CountedBy(s, buckets[s].start)) \in Nat
            <4>1. CountedBy(s, buckets[s].start) \in SUBSET Nonce /\ CountedBy(s, buckets[s].start)' \in SUBSET Nonce
                BY <1>10, <2>0, <3>1
            <4> QED
                BY <3>2, <4>1, NonceCount
        <3>4. Cardinality(CountedBy(s, buckets[s].start)') <= buckets'[s].count
            <4>1. buckets[s].count \in Nat
                BY <1>0 DEF BucketRow
            <4> QED
                BY <2>0, <3>1, <3>3, <4>1 DEF BucketHolds
        <3>5. \A m \in Nonce : nonces'[m].wallet # "none" /\ (s = "shard" \/ nonces'[m].wallet = s)
                            => nonces'[m].issued \div Minute <= buckets'[s].start
            <4>1. ~(s = "shard" \/ nonces'[n].wallet = s)
                BY <1>2, <1>3, <2>2
            <4> QED
                BY <1>3, <2>0, <3>1, <4>1 DEF BucketHolds
        <3> QED
            BY <2>0, <3>1, <3>4, <3>5 DEF BucketHolds
    <2> QED
        BY <2>1, <2>2
<1>13. LimitsHold'
    <2>0. "shard" \in Subject /\ w \in Subject /\ \A v \in Wallet : v \in Subject
        BY DEF Subject
    <2>1. ASSUME NEW s \in Subject, NEW k \in Int, NEW limit \in Nat,
                 Cardinality(CountedBy(s, k)) <= limit, Of(s) => Bucket(s).count < limit
          PROVE  Cardinality(CountedBy(s, k)') <= limit
        <3>1. CASE k = K /\ Of(s)
            <4>1. Cardinality(CountedBy(s, k)') <= Bucket(s).count + 1 /\ Bucket(s).count \in Nat
                BY <1>6, <1>11, <3>1
            <4>2. Cardinality(CountedBy(s, k)') \in Nat
                BY <1>10, NonceCount
            <4> QED
                BY <2>1, <3>1, <4>1, <4>2
        <3>2. CASE ~(k = K /\ Of(s))
            <4>1. Cardinality(CountedBy(s, k)') <= Cardinality(CountedBy(s, k))
                  /\ Cardinality(CountedBy(s, k)') \in Nat /\ Cardinality(CountedBy(s, k)) \in Nat
                BY <1>10, <3>2, NonceCount
            <4> QED
                BY <2>1, <4>1
        <3> QED
            BY <3>1, <3>2
    <2>2. ASSUME NEW k \in Int
          PROVE  /\ Cardinality(CountedBy("shard", k)') <= ShardLimit
                 /\ \A v \in Wallet : Cardinality(CountedBy(v, k)') <= WalletLimit
        <3>0. ShardLimit \in Nat /\ WalletLimit \in Nat /\ Bucket("shard").count < ShardLimit /\ Bucket(w).count < WalletLimit
            BY <1>1, SessionBounds DEF HasRoom
        <3>1. Cardinality(CountedBy("shard", k)') <= ShardLimit
            BY <2>0, <2>1, <3>0 DEF LoginsInv, LimitsHold
        <3>2. ASSUME NEW v \in Wallet
              PROVE  Cardinality(CountedBy(v, k)') <= WalletLimit
            <4>1. Cardinality(CountedBy(v, k)) <= WalletLimit /\ v \in Subject
                BY <2>0 DEF LoginsInv, LimitsHold
            <4>2. Of(v) => v = w
                BY SessionTypes
            <4> QED
                BY <2>1, <3>0, <4>1, <4>2
        <3> QED
            BY <3>1, <3>2
    <2> QED
        BY <2>2 DEF LimitsHold
<1>14. ASSUME NEW m \in Nonce
       PROVE  NonceHolds(m)'
    BY <1>2, <1>3 DEF LoginsInv, NonceHolds, Unissued
<1>15. ASSUME NEW l \in Login
       PROVE  LoginHolds(l)'
    <2>1. LoginHolds(l)
        BY DEF LoginsInv
    <2> QED
        BY <1>1, <1>2, <1>3, <2>1 DEF LoginHolds, Waiting
<1>16. ASSUME NEW s \in sessions
       PROVE  s.nonce \in Nonce /\ s.nonce # n /\ SessionHolds(s)'
    <2>1. SessionHolds(s) /\ s.nonce \in Nonce
        BY <1>0 DEF LoginsInv, SessionRow
    <2>2. s.nonce # n
        BY <1>4, <2>1 DEF SessionHolds
    <2> QED
        BY <1>3, <2>1, <2>2 DEF SessionHolds
<1>17. ASSUME NEW m \in Nonce, nonces'[m].consumed
       PROVE  \E s \in sessions : s.nonce = m /\ s.wallet = nonces'[m].wallet
    <2>1. m # n
        BY <1>2, <1>3, <1>17
    <2> QED
        BY <1>3, <1>17, <2>1 DEF LoginsInv
<1>18. ASSUME NEW m \in Nonce, NEW k \in Nonce, Open(m)', Open(k)', nonces'[m].wallet = nonces'[k].wallet
       PROVE  m = k
    <2>1. \A x \in Nonce \ {n} : Open(x)' => Open(x) /\ nonces'[x].wallet = nonces[x].wallet
        BY <1>3 DEF Open
    <2>2. nonces'[n].wallet = w
        BY <1>2, <1>3
    <2> QED
        BY <1>1, <1>18, <2>1, <2>2 DEF LoginsInv
<1> QED
    BY <1>1, <1>9, <1>12, <1>13, <1>14, <1>15, <1>16, <1>17, <1>18 DEF LoginsInv

\* A request that passes Verify names a challenge that was issued.
LEMMA VerifyStep ==
    ASSUME LoginsInv, NEW l \in Login, NEW n \in Nonce, Verify(l, n), now' = now
    PROVE  LoginsInv'
<1>0. SessionRows /\ UNCHANGED <<nonces, sessions, users, buckets>> /\ nonces[n] # Unissued
      /\ login' = [login EXCEPT ![l] = [nonce |-> n, expires |-> now + SessionTTL]]
    BY DEF LoginsInv, Verify
<1>1. login' \in [Login -> LoginRow] /\ login'[l].nonce = n /\ \A k \in Login \ {l} : login'[k] = login[k]
    BY <1>0, SessionBounds DEF SessionRows, LoginRow
<1>2. SessionRows'
    BY <1>0, <1>1 DEF SessionRows
<1>3. ASSUME NEW k \in Login
      PROVE  LoginHolds(k)'
    <2>1. nonces[n].wallet \in Wallet
        BY <1>0 DEF LoginsInv, NonceHolds
    <2>2. LoginHolds(k)
        BY DEF LoginsInv
    <2>3. CASE k = l
        BY <1>0, <1>1, <2>1, <2>3 DEF LoginHolds
    <2>4. CASE k # l
        BY <1>0, <1>1, <2>2, <2>4 DEF LoginHolds, Waiting
    <2> QED
        BY <2>3, <2>4
<1>4. (\A s \in Subject : BucketHolds(s)') /\ LimitsHold'
    BY <1>0, CountsStay DEF SessionRows
<1>5. \A m \in Nonce : NonceHolds(m)' /\ (Open(m)' <=> Open(m))
    BY <1>0 DEF LoginsInv, NonceHolds, Open, Unissued
<1>6. \A s \in sessions' : SessionHolds(s)'
    BY <1>0 DEF LoginsInv, SessionHolds
<1> QED
    BY <1>0, <1>2, <1>3, <1>4, <1>5, <1>6 DEF LoginsInv

\* A challenge is consumed once, and its session is its wallet's.
LEMMA ConsumeChallengeStep ==
    ASSUME LoginsInv, NEW l \in Login, ConsumeChallenge(l), now' = now
    PROVE  LoginsInv'
<1> DEFINE n == login[l].nonce
           w == nonces[n].wallet
           new == [by |-> l, nonce |-> n, wallet |-> w, expires |-> login[l].expires, revoked |-> FALSE]
<1>0. SessionRows /\ login[l] # Waiting /\ login' = [login EXCEPT ![l] = Waiting] /\ buckets' = buckets
    BY DEF LoginsInv, ConsumeChallenge
<1>1. n \in Nonce /\ w \in Wallet
    BY <1>0 DEF LoginsInv, LoginHolds
<1>2. Waiting \in LoginRow
    BY DEF Waiting, LoginRow
<1>3. login' \in [Login -> LoginRow] /\ login'[l] = Waiting /\ \A k \in Login \ {l} : login'[k] = login[k]
    BY <1>0, <1>2 DEF SessionRows
<1>4. CASE ~Consumable(n)
    <2>1. UNCHANGED <<nonces, users, sessions>>
        BY <1>4 DEF ConsumeChallenge
    <2>2. SessionRows'
        BY <1>0, <1>3, <2>1 DEF SessionRows
    <2>3. ASSUME NEW k \in Login
          PROVE  LoginHolds(k)'
        <3>1. LoginHolds(k)
            BY DEF LoginsInv
        <3>2. CASE k = l
            BY <1>3, <3>2 DEF LoginHolds, Waiting
        <3>3. CASE k # l
            BY <1>3, <2>1, <3>1, <3>3 DEF LoginHolds, Waiting
        <3> QED
            BY <3>2, <3>3
    <2>4. (\A s \in Subject : BucketHolds(s)') /\ LimitsHold'
        BY <1>0, <2>1, CountsStay DEF SessionRows
    <2>5. \A m \in Nonce : NonceHolds(m)' /\ (Open(m)' <=> Open(m))
        BY <2>1 DEF LoginsInv, NonceHolds, Open, Unissued
    <2>6. \A s \in sessions' : SessionHolds(s)'
        BY <2>1 DEF LoginsInv, SessionHolds
    <2> QED
        BY <2>1, <2>2, <2>3, <2>4, <2>5, <2>6 DEF LoginsInv
<1>5. CASE Consumable(n)
    <2>1. /\ nonces' = [nonces EXCEPT ![n].consumed = TRUE] /\ users' = users \cup {w}
          /\ sessions' = sessions \cup {new}
        BY <1>5 DEF ConsumeChallenge
    <2>2. nonces \in [Nonce -> NonceRow] /\ nonces[n] \in NonceRow
        BY <1>0, <1>1 DEF SessionRows
    <2>3. nonces' = [nonces EXCEPT ![n] = [nonces[n] EXCEPT !.consumed = TRUE]]
        BY <2>1, <2>2
    <2>4. /\ nonces' \in [Nonce -> NonceRow] /\ nonces'[n].consumed
          /\ nonces'[n].wallet = w /\ nonces'[n].issued = nonces[n].issued /\ nonces'[n].expires = nonces[n].expires
          /\ \A m \in Nonce \ {n} : nonces'[m] = nonces[m]
        BY <1>1, <2>2, <2>3 DEF NonceRow
    <2>5. new \in SessionRow /\ new.nonce = n /\ new.wallet = w
        <3>1. login[l].expires \in Nat
            BY <1>0 DEF SessionRows, LoginRow
        <3> QED
            BY <1>1, <3>1 DEF SessionRow
    <2>6. SessionRows'
        BY <1>0, <1>1, <1>3, <2>1, <2>4, <2>5 DEF SessionRows
    <2>7. ASSUME NEW k \in Login
          PROVE  LoginHolds(k)'
        <3>1. LoginHolds(k)
            BY DEF LoginsInv
        <3>2. CASE k = l
            BY <1>3, <3>2 DEF LoginHolds, Waiting
        <3>3. CASE k # l
            <4>1. login'[k] = login[k]
                BY <1>3, <3>3
            <4>2. \A m \in Nonce : nonces'[m].wallet = nonces[m].wallet
                BY <2>4
            <4> QED
                BY <3>1, <4>1, <4>2 DEF LoginHolds, Waiting
        <3> QED
            BY <3>2, <3>3
    <2>8. (\A s \in Subject : BucketHolds(s)') /\ LimitsHold'
        <3>1. \A m \in Nonce : nonces'[m].wallet = nonces[m].wallet /\ nonces'[m].issued = nonces[m].issued
            BY <2>4
        <3>2. now' \in Nat /\ now <= now'
            BY <1>0 DEF SessionRows
        <3> QED
            BY <1>0, <2>4, <3>1, <3>2, CountsStay
    <2>9. ASSUME NEW m \in Nonce
          PROVE  NonceHolds(m)' /\ (Open(m)' => Open(m) /\ nonces'[m].wallet = nonces[m].wallet)
        <3>1. NonceHolds(m)
            BY DEF LoginsInv
        <3>2. CASE m = n
            BY <1>1, <2>4, <3>2 DEF NonceHolds, Open
        <3>3. CASE m # n
            BY <2>4, <3>1, <3>3 DEF NonceHolds, Open, Unissued
        <3> QED
            BY <3>2, <3>3
    <2>10. ASSUME NEW s \in sessions
           PROVE  s.nonce \in Nonce /\ s.nonce # n /\ SessionHolds(s)'
        <3>1. SessionHolds(s) /\ s.nonce \in Nonce
            BY <1>0 DEF LoginsInv, SessionRows, SessionRow
        <3>2. s.nonce # n
            BY <1>5, <3>1 DEF SessionHolds, Consumable
        <3>3. nonces'[s.nonce] = nonces[s.nonce]
            BY <2>4, <3>1, <3>2
        <3> QED
            BY <3>1, <3>2, <3>3 DEF SessionHolds
    <2>11. nonces'[new.nonce].consumed /\ nonces'[new.nonce].wallet = new.wallet
        BY <2>4, <2>5
    <2> HIDE DEF n, w, new
    <2>12. \A s \in sessions' : SessionHolds(s)'
        <3> SUFFICES ASSUME NEW s \in sessions' PROVE SessionHolds(s)'
            OBVIOUS
        <3>1. s \in sessions \/ s = new
            BY <2>1
        <3>2. CASE s = new
            BY <2>11, <3>2 DEF SessionHolds
        <3> QED
            BY <2>10, <3>1, <3>2
    <2>13. \A s, t \in sessions' : s.nonce = t.nonce => s = t
        <3> SUFFICES ASSUME NEW s \in sessions', NEW t \in sessions', s.nonce = t.nonce PROVE s = t
            OBVIOUS
        <3>1. (s \in sessions \/ s = new) /\ (t \in sessions \/ t = new)
            BY <2>1
        <3>2. CASE s \in sessions /\ t \in sessions
            BY <3>2 DEF LoginsInv
        <3>3. \A u \in sessions : u.nonce # new.nonce
            BY <2>5, <2>10
        <3> QED
            BY <3>1, <3>2, <3>3
    <2>14. \A m \in Nonce : nonces'[m].consumed => \E s \in sessions' : s.nonce = m /\ s.wallet = nonces'[m].wallet
        <3>1. \A m \in Nonce \ {n} : nonces[m].consumed => \E s \in sessions : s.nonce = m /\ s.wallet = nonces[m].wallet
            BY DEF LoginsInv
        <3> QED
            BY <2>1, <2>4, <2>5, <3>1
    <2>15. \A m, k \in Nonce : Open(m)' /\ Open(k)' /\ nonces'[m].wallet = nonces'[k].wallet => m = k
        BY <2>9 DEF LoginsInv
    <2> QED
        BY <2>6, <2>7, <2>8, <2>9, <2>12, <2>13, <2>14, <2>15 DEF LoginsInv
<1> QED
    BY <1>4, <1>5

\* Revoking changes nothing a session stands for.
LEMMA RevokeSessionStep ==
    ASSUME LoginsInv, NEW s \in sessions, RevokeSession(s), now' = now
    PROVE  LoginsInv'
<1> DEFINE r == [s EXCEPT !.revoked = TRUE]
<1>0. /\ SessionRows /\ sessions' = (sessions \ {s}) \cup {r} /\ UNCHANGED <<nonces, users, buckets, login>>
    BY DEF LoginsInv, RevokeSession
<1>1. s \in SessionRow
    BY <1>0 DEF SessionRows
<1>2. r \in SessionRow /\ r.nonce = s.nonce /\ r.wallet = s.wallet
    BY <1>1 DEF SessionRow
<1> HIDE DEF r
<1>3. SessionRows'
    BY <1>0, <1>2 DEF SessionRows
<1>4. \A l \in Login : LoginHolds(l)'
    BY <1>0 DEF LoginsInv, LoginHolds, Waiting
<1>5. (\A x \in Subject : BucketHolds(x)') /\ LimitsHold'
    BY <1>0, CountsStay DEF SessionRows
<1>6. \A m \in Nonce : NonceHolds(m)' /\ (Open(m)' <=> Open(m))
    BY <1>0 DEF LoginsInv, NonceHolds, Open, Unissued
<1>7. \A t \in sessions' : SessionHolds(t)'
    <2>1. \A t \in sessions : SessionHolds(t)
        BY DEF LoginsInv
    <2> QED
        BY <1>0, <1>2, <2>1 DEF SessionHolds
<1>8. \A t, u \in sessions' : t.nonce = u.nonce => t = u
    <2>1. \A t, u \in sessions : t.nonce = u.nonce => t = u
        BY DEF LoginsInv
    <2> QED
        BY <1>0, <1>2, <2>1
<1>9. \A m \in Nonce : nonces'[m].consumed => \E t \in sessions' : t.nonce = m /\ t.wallet = nonces'[m].wallet
    <2> TAKE m \in Nonce
    <2> HAVE nonces'[m].consumed
    <2>1. PICK t \in sessions : t.nonce = m /\ t.wallet = nonces[m].wallet
        BY <1>0 DEF LoginsInv
    <2> QED
        BY <1>0, <1>2, <2>1
<1> QED
    BY <1>0, <1>3, <1>4, <1>5, <1>6, <1>7, <1>8, <1>9 DEF LoginsInv

\* Time only closes challenges and opens new minutes.
LEMMA LoginsAge ==
    ASSUME LoginsInv, UNCHANGED sessionVars, now' \in Nat, now <= now'
    PROVE  LoginsInv'
<1>0. SessionRows /\ UNCHANGED <<nonces, sessions, users, buckets, login>>
    BY DEF LoginsInv, sessionVars
<1>1. SessionRows'
    BY <1>0 DEF SessionRows
<1>2. \A l \in Login : LoginHolds(l)'
    BY <1>0 DEF LoginsInv, LoginHolds, Waiting
<1>3. (\A x \in Subject : BucketHolds(x)') /\ LimitsHold'
    BY <1>0, CountsStay DEF SessionRows
<1>4. ASSUME NEW m \in Nonce
      PROVE  NonceHolds(m)' /\ (Open(m)' => Open(m))
    <2>1. nonces[m].expires \in Nat /\ now \in Nat
        BY <1>0 DEF SessionRows, NonceRow
    <2>2. NonceHolds(m)'
        BY <1>0 DEF LoginsInv, NonceHolds, Unissued
    <2> QED
        BY <1>0, <2>1, <2>2 DEF Open
<1>5. \A s \in sessions' : SessionHolds(s)'
    BY <1>0 DEF LoginsInv, SessionHolds
<1> QED
    BY <1>0, <1>1, <1>2, <1>3, <1>4, <1>5 DEF LoginsInv

\* Nothing was issued, counted or begun.
LEMMA LoginsStart == Init => LoginsInv
<1> SUFFICES ASSUME Init PROVE LoginsInv
    OBVIOUS
<1>0. /\ nonces = [n \in Nonce |-> Unissued] /\ sessions = {} /\ users = {} /\ now = 0
      /\ buckets = [s \in Subject |-> [start |-> 0, count |-> 0]]
      /\ login = [l \in Login |-> Waiting]
    BY DEF Init, SessionsInit
<1>1. Unissued \in NonceRow /\ Waiting \in LoginRow /\ [start |-> 0, count |-> 0] \in BucketRow
    BY DEF Unissued, NonceRow, Waiting, LoginRow, BucketRow
<1>2. SessionRows
    BY <1>0, <1>1 DEF SessionRows
<1>3. \A n \in Nonce : nonces[n] = Unissued /\ nonces[n].wallet = "none" /\ ~nonces[n].consumed
    BY <1>0 DEF Unissued
<1>4. \A s, k : CountedBy(s, k) = {}
    BY <1>3 DEF CountedBy, IssuedIn
<1>5. \A s, k : Cardinality(CountedBy(s, k)) = 0
    BY <1>4, FS_EmptySet
<1>6. \A s \in Subject : BucketHolds(s)
    <2>1. now \div Minute \in Nat
        BY <1>0, MinutesGo
    <2>2. \A s \in Subject : buckets[s].start = 0 /\ buckets[s].count = 0
        BY <1>0
    <2>3. 0 <= now \div Minute
        BY <2>1
    <2> QED
        BY <1>3, <1>5, <2>2, <2>3 DEF BucketHolds
<1>7. LimitsHold
    BY <1>5, SessionBounds DEF LimitsHold
<1>8. \A l \in Login : LoginHolds(l)
    BY <1>0 DEF LoginHolds
<1> QED
    BY <1>0, <1>2, <1>3, <1>6, <1>7, <1>8 DEF LoginsInv, NonceHolds, Open

\* Every step of the engine keeps logins in order.
LEMMA LoginsStep == LoginsInv /\ [Next]_vars => LoginsInv'
<1> SUFFICES ASSUME LoginsInv, [Next]_vars PROVE LoginsInv'
    OBVIOUS
<1>0. now \in Nat
    BY DEF LoginsInv, SessionRows
<1>1. CASE SessionsNext /\ UNCHANGED <<credentialVars, now>>
    BY <1>1, SaveChallengeStep, VerifyStep, ConsumeChallengeStep, RevokeSessionStep DEF SessionsNext
<1>2. CASE UNCHANGED sessionVars /\ now' = now
    BY <1>0, <1>2, LoginsAge
<1>3. CASE Tick
    <2>1. UNCHANGED sessionVars /\ now' = now + 1
        BY <1>3 DEF Tick
    <2> QED
        BY <1>0, <2>1, LoginsAge
<1> QED
    BY <1>1, <1>2, <1>3 DEF Next, vars

\* The inductive invariant of logins holds of every behaviour.
LEMMA LoginsAlways == Spec => []LoginsInv
BY LoginsStart, LoginsStep, PTL DEF Spec

\* A challenge brings at most one session and the one its wallet asked for, a wallet has one
\* open challenge, and no minute sees more challenges than a wallet or a shard may have.
THEOREM LoginsAlwaysHold == Spec => []LoginsHold
<1>1. ASSUME LoginsInv PROVE LoginsHold
    <2>1. SessionRows
        BY <1>1 DEF LoginsInv
    <2>2. SessionTypeOK
        BY <2>1 DEF SessionRows, SessionTypeOK, NonceRow, SessionRow, BucketRow, LoginRow
    <2>3. \A n \in Nonce : nonces[n].consumed <=> \E s \in sessions : s.nonce = n /\ s.wallet = nonces[n].wallet
        <3> TAKE n \in Nonce
        <3>1. nonces[n].consumed \in BOOLEAN
            BY <2>1 DEF SessionRows, NonceRow
        <3>2. nonces[n].consumed => \E s \in sessions : s.nonce = n /\ s.wallet = nonces[n].wallet
            BY <1>1 DEF LoginsInv
        <3>3. ASSUME NEW s \in sessions, s.nonce = n PROVE nonces[n].consumed
            BY <1>1, <3>3 DEF LoginsInv, SessionHolds
        <3> QED
            BY <3>1, <3>2, <3>3
    <2>4. ASSUME NEW k \in 0..(MaxTime \div Minute)
          PROVE  /\ Cardinality(IssuedIn(k)) <= ShardLimit
                 /\ \A w \in Wallet : Cardinality({n \in IssuedIn(k) : nonces[n].wallet = w}) <= WalletLimit
        <3>1. k \in Int
            OBVIOUS
        <3>2. CountedBy("shard", k) = IssuedIn(k)
            BY DEF CountedBy
        <3>3. \A w \in Wallet : CountedBy(w, k) = {n \in IssuedIn(k) : nonces[n].wallet = w}
            BY SessionTypes DEF CountedBy
        <3> QED
            BY <1>1, <3>1, <3>2, <3>3 DEF LoginsInv, LimitsHold
    <2> QED
        BY <1>1, <2>2, <2>3, <2>4 DEF LoginsInv, LoginsHold, IssuedIn
<1> QED
    BY <1>1, LoginsAlways, PTL

-----------------------------------------------------------------------------
(* Credentials *)

VersionRow == [content : Token \cup {Other}, key : Key, on : Nat]
MemoryRow == [Agent -> Token \cup {None}]
RotationRow == [at : {"validated", "stored"}, agent : Agent, key : Key, content : Token, on : Nat]

CredentialRows ==
    /\ versions \in [Agent -> Seq(VersionRow)] /\ aggregate \in [Agent -> Nat] /\ retired \in SUBSET Agent
    /\ memory \in [Process -> {Down} \cup MemoryRow]
    /\ rotation \in [Process -> {Free} \cup RotationRow]

Stored(a, t) == \E i \in DOMAIN versions[a] : versions[a][i].content = t

\* Only a process that is up rotates; what it is about to put in its memory was stored.
RotationHolds(p) ==
    rotation[p] # Free =>
        /\ memory[p] # Down
        /\ rotation[p].at = "stored" => Stored(rotation[p].agent, rotation[p].content)

\* A memory in which a token stands for one agent, and was configured or stored for it.
Distinct(m) == \A a, b \in Agent : a # b /\ m[a] # None => m[b] # m[a]
Justified(m) == \A a \in Agent : m[a] # None => m[a] = Configured[a] \/ Stored(a, m[a])
MemoryHolds(p) == memory[p] # Down => Distinct(memory[p]) /\ Justified(memory[p])

\* Versions follow one another, on versions of the agent that have passed.
VersionsHold(a) ==
    /\ Len(versions[a]) <= MaxVersions[a]
    /\ \A i \in DOMAIN versions[a] : versions[a][i].on < aggregate[a]
    /\ \A i, j \in DOMAIN versions[a] :
          i < j => versions[a][i].on < versions[a][j].on /\ versions[a][i].key # versions[a][j].key

CredentialsInv ==
    /\ CredentialRows
    /\ \A p \in Process : RotationHolds(p)
    /\ \A p \in Process : MemoryHolds(p)
    /\ \A a \in Agent : VersionsHold(a)

\* What was stored stays stored.
VersionsGrow == \A a \in Agent : \A t : Stored(a, t) => Stored(a, t)'

\* A memory stays justified, and a rotation in order, when versions are only added.
LEMMA ProcessesStay ==
    ASSUME CredentialsInv, VersionsGrow, UNCHANGED <<memory, rotation>>
    PROVE  (\A p \in Process : RotationHolds(p)') /\ (\A p \in Process : MemoryHolds(p)')
<1>1. ASSUME NEW p \in Process
      PROVE  RotationHolds(p)'
    <2>1. RotationHolds(p) /\ (rotation[p] # Free => rotation[p] \in RotationRow)
        BY DEF CredentialsInv, CredentialRows
    <2>2. rotation[p] # Free => rotation[p].agent \in Agent
        BY <2>1 DEF RotationRow
    <2> QED
        BY <2>1, <2>2 DEF RotationHolds, VersionsGrow, Free, Down
<1>2. ASSUME NEW p \in Process
      PROVE  MemoryHolds(p)'
    <2>1. MemoryHolds(p)
        BY DEF CredentialsInv
    <2> QED
        BY <2>1 DEF MemoryHolds, Distinct, Justified, VersionsGrow, Down
<1> QED
    BY <1>1, <1>2

\* Nothing stored, nothing lost.
LEMMA VersionsStay ==
    ASSUME CredentialsInv, versions' = versions, aggregate' \in [Agent -> Nat],
           \A a \in Agent : aggregate[a] <= aggregate'[a]
    PROVE  VersionsGrow /\ \A a \in Agent : VersionsHold(a)'
<1>1. VersionsGrow
    BY DEF VersionsGrow, Stored
<1>2. ASSUME NEW a \in Agent
      PROVE  VersionsHold(a)'
    <2>1. VersionsHold(a) /\ versions[a] \in Seq(VersionRow) /\ aggregate[a] \in Nat /\ aggregate'[a] \in Nat
        BY DEF CredentialsInv, CredentialRows
    <2>2. \A i \in DOMAIN versions[a] : versions[a][i].on \in Nat
        <3>1. \A i \in DOMAIN versions[a] : versions[a][i] \in VersionRow
            BY <2>1
        <3> QED
            BY <3>1 DEF VersionRow
    <2>3. \A i \in DOMAIN versions[a] : versions[a][i].on < aggregate'[a]
        BY <2>1, <2>2 DEF VersionsHold
    <2> QED
        BY <2>1, <2>3 DEF VersionsHold
<1> QED
    BY <1>1, <1>2

\* Store appends a version that is based on the newest state of its agent.
LEMMA StoreStep ==
    ASSUME CredentialsInv, NEW a \in Agent, NEW v \in VersionRow,
           ~Known(a, v.key), Rotatable(a, v.on), Len(versions[a]) < MaxVersions[a],
           versions' = [versions EXCEPT ![a] = Append(versions[a], v)],
           aggregate' = [aggregate EXCEPT ![a] = aggregate[a] + 1],
           retired' = retired
    PROVE  /\ versions' \in [Agent -> Seq(VersionRow)] /\ aggregate' \in [Agent -> Nat] /\ retired' = retired
           /\ VersionsGrow /\ Stored(a, v.content)'
           /\ \A b \in Agent : VersionsHold(b)'
<1>0. versions \in [Agent -> Seq(VersionRow)] /\ aggregate \in [Agent -> Nat] /\ MaxVersions[a] \in Nat
    BY CredentialTypes DEF CredentialsInv, CredentialRows
<1>1. /\ versions' = [versions EXCEPT ![a] = Append(@, v)]
      /\ aggregate' = [aggregate EXCEPT ![a] = @ + 1]
      /\ ~Known(a, v.key) /\ aggregate[a] = v.on /\ Len(versions[a]) < MaxVersions[a]
    BY DEF Rotatable
<1> DEFINE s == versions[a]
           n == Len(s) + 1
<1>2. s \in Seq(VersionRow) /\ Len(s) \in Nat /\ DOMAIN s = 1..Len(s)
    BY <1>0
<1>3. Append(s, v) \in Seq(VersionRow) /\ Len(Append(s, v)) = n /\ DOMAIN Append(s, v) = 1..n
      /\ Append(s, v)[n] = v /\ \A i \in 1..Len(s) : Append(s, v)[i] = s[i]
    BY <1>2, AppendProperties
<1>4. versions' \in [Agent -> Seq(VersionRow)] /\ aggregate' \in [Agent -> Nat]
      /\ versions'[a] = Append(s, v) /\ aggregate'[a] = aggregate[a] + 1
      /\ \A b \in Agent \ {a} : versions'[b] = versions[b] /\ aggregate'[b] = aggregate[b]
    BY <1>0, <1>1, <1>3
<1>5. VersionsGrow
    <2> SUFFICES ASSUME NEW b \in Agent, NEW t, Stored(b, t) PROVE Stored(b, t)'
        BY DEF VersionsGrow
    <2>1. CASE b = a
        <3>1. PICK i \in DOMAIN s : s[i].content = t
            BY <2>1 DEF Stored
        <3>2. i \in DOMAIN versions'[a] /\ versions'[a][i] = s[i]
            BY <1>2, <1>3, <1>4
        <3> QED
            BY <2>1, <3>1, <3>2 DEF Stored
    <2>2. CASE b # a
        BY <1>4, <2>2 DEF Stored
    <2> QED
        BY <2>1, <2>2
<1>6. Stored(a, v.content)'
    <2>1. n \in DOMAIN versions'[a] /\ versions'[a][n] = v
        BY <1>2, <1>3, <1>4
    <2> QED
        BY <2>1 DEF Stored
<1>7. VersionsHold(a)'
    <2>0. VersionsHold(a) /\ v.on \in Nat /\ aggregate[a] \in Nat
        BY <1>0 DEF CredentialsInv, VersionRow
    <2>1. Len(versions'[a]) <= MaxVersions[a]
        BY <1>0, <1>1, <1>2, <1>3, <1>4
    <2>2. \A i \in 1..Len(s) : s[i].on \in Nat /\ s[i].on < v.on /\ s[i].key # v.key
        <3>1. \A i \in 1..Len(s) : s[i] \in VersionRow
            BY <1>2
        <3>2. \A i \in 1..Len(s) : s[i].on \in Nat
            BY <3>1 DEF VersionRow
        <3> QED
            BY <1>1, <1>2, <2>0, <3>2 DEF VersionsHold, Known
    <2>3. \A i \in 1..n : versions'[a][i].on < aggregate'[a]
        <3> TAKE i \in 1..n
        <3>1. CASE i = n
            BY <1>1, <1>3, <1>4, <2>0, <3>1
        <3>2. CASE i # n
            <4>1. i \in 1..Len(s) /\ versions'[a][i] = s[i]
                BY <1>2, <1>3, <1>4, <3>2
            <4> QED
                BY <1>1, <1>4, <2>0, <2>2, <4>1
        <3> QED
            BY <3>1, <3>2
    <2>4. ASSUME NEW i \in 1..n, NEW j \in 1..n, i < j
          PROVE  versions'[a][i].on < versions'[a][j].on /\ versions'[a][i].key # versions'[a][j].key
        <3>1. i \in 1..Len(s) /\ versions'[a][i] = s[i]
            BY <1>2, <1>3, <1>4, <2>4
        <3>2. CASE j = n
            BY <1>3, <1>4, <2>2, <3>1, <3>2
        <3>3. CASE j # n
            <4>1. j \in 1..Len(s) /\ versions'[a][j] = s[j]
                BY <1>2, <1>3, <1>4, <3>3
            <4> QED
                BY <1>2, <2>0, <2>4, <3>1, <4>1 DEF VersionsHold
        <3> QED
            BY <3>2, <3>3
    <2>5. DOMAIN versions'[a] = 1..n
        BY <1>3, <1>4
    <2> HIDE DEF n, s
    <2> QED
        BY <2>1, <2>3, <2>4, <2>5 DEF VersionsHold
<1>8. ASSUME NEW b \in Agent, b # a
      PROVE  VersionsHold(b)'
    <2>1. VersionsHold(b)
        BY DEF CredentialsInv
    <2> QED
        BY <1>4, <1>8, <2>1 DEF VersionsHold
<1> QED
    BY <1>0, <1>4, <1>5, <1>6, <1>7, <1>8

\* Setting an agent's token where it is free keeps tokens apart.
LEMMA UpdateKeepsApart ==
    ASSUME NEW m \in MemoryRow, NEW a \in Agent, NEW t \in Token, TokenFree(m, a, t), Distinct(m)
    PROVE  [m EXCEPT ![a] = t] \in MemoryRow /\ Distinct([m EXCEPT ![a] = t])
<1> DEFINE u == [m EXCEPT ![a] = t]
<1>1. u \in MemoryRow /\ u[a] = t /\ \A b \in Agent \ {a} : u[b] = m[b]
    BY DEF MemoryRow
<1>2. \A b \in Agent \ {a} : m[b] # t
    BY DEF TokenFree
<1> HIDE DEF u
<1>3. Distinct(u)
    <2> SUFFICES ASSUME NEW b \in Agent, NEW c \in Agent, b # c, u[b] # None PROVE u[c] # u[b]
        BY DEF Distinct
    <2>1. CASE b = a
        BY <1>1, <1>2, <2>1
    <2>2. CASE c = a
        BY <1>1, <1>2, <2>2
    <2>3. CASE b # a /\ c # a
        BY <1>1, <2>3 DEF Distinct
    <2> QED
        BY <2>1, <2>2, <2>3
<1> QED
    BY <1>1, <1>3 DEF u

\* What a process restores when it starts: the configuration, and over it, agent by agent,
\* what was stored; no two of them for the same token.
LEMMA RestoreStep ==
    ASSUME CredentialsInv, RestoreProtocolBundles # Down
    PROVE  /\ RestoreProtocolBundles \in MemoryRow /\ Distinct(RestoreProtocolBundles)
           /\ Justified(RestoreProtocolBundles)
<1> DEFINE m == [a \in Agent |-> Restored(a)]
<1>0. RestoreProtocolBundles = m
    BY DEF RestoreProtocolBundles
<1>1. \A n \in Agent : Current(n) \in Token => TokenFree(RestoredBefore(n), n, Current(n))
    BY DEF RestoreProtocolBundles, UpdateProtocolBundle
<1>2. ASSUME NEW a \in Agent
      PROVE  m[a] \in Token \cup {None} /\ m[a] = Restored(a)
    BY CredentialTypes DEF Restored
<1>3. m \in MemoryRow
    BY <1>2 DEF MemoryRow
<1>4. ASSUME NEW a \in Agent, m[a] # None
      PROVE  m[a] = Configured[a] \/ Stored(a, m[a])
    <2>1. CASE Current(a) \in Token
        <3>0. versions[a] \in Seq(VersionRow)
            BY DEF CredentialsInv, CredentialRows
        <3>1. versions[a] # <<>>
            BY <2>1, CredentialTypes DEF Current
        <3>2. Len(versions[a]) \in DOMAIN versions[a]
            BY <3>0, <3>1
        <3>3. m[a] = versions[a][Len(versions[a])].content
            BY <2>1, <3>1 DEF Restored, Current
        <3> QED
            BY <3>2, <3>3 DEF Stored
    <2>2. CASE Current(a) \notin Token
        BY <2>2 DEF Restored
    <2> QED
        BY <2>1, <2>2
<1>5. ASSUME NEW a \in Agent, NEW b \in Agent, a # b, Current(a) \in Token
      PROVE  (Current(b) \in Token /\ a < b) \/ Restored(b) # Restored(a)
    <2>1. TokenFree(RestoredBefore(a), a, Current(a)) /\ Restored(a) = Current(a)
        BY <1>1, <1>5 DEF Restored
    <2>2. RestoredBefore(a)[b] # Restored(a)
        BY <1>5, <2>1 DEF TokenFree
    <2>3. a \in Int /\ b \in Int
        BY DEF Agent
    <2>4. CASE b < a
        BY <2>2, <2>4 DEF RestoredBefore
    <2>5. CASE a < b /\ Current(b) \notin Token
        BY <2>2, <2>3, <2>5 DEF RestoredBefore, Restored
    <2> QED
        BY <1>5, <2>3, <2>4, <2>5
<1>6. ASSUME NEW a \in Agent, NEW b \in Agent, a # b, Restored(a) # None
      PROVE  Restored(b) # Restored(a)
    <2>0. a \in Int /\ b \in Int
        BY DEF Agent
    <2>1. CASE Current(a) \notin Token /\ Current(b) \notin Token
        BY <1>6, <2>1, CredentialTypes DEF Restored
    <2>2. CASE Current(a) \in Token /\ Current(b) \in Token
        BY <1>5, <1>6, <2>0, <2>2
    <2>3. CASE Current(a) \in Token /\ Current(b) \notin Token
        BY <1>5, <1>6, <2>3
    <2>4. CASE Current(a) \notin Token /\ Current(b) \in Token
        BY <1>5, <1>6, <2>4
    <2> QED
        BY <2>1, <2>2, <2>3, <2>4
<1> QED
    BY <1>0, <1>2, <1>3, <1>4, <1>6 DEF Distinct, Justified

\* One process gets a new memory and is done with its rotation.
LEMMA MemoryMoves ==
    ASSUME CredentialsInv, NEW p \in Process, NEW m \in {Down} \cup MemoryRow,
           m # Down => Distinct(m) /\ Justified(m),
           memory' = [memory EXCEPT ![p] = m],
           rotation' = [rotation EXCEPT ![p] = Free],
           UNCHANGED <<versions, aggregate, retired>>
    PROVE  CredentialsInv'
<1>0. CredentialRows
    BY DEF CredentialsInv
<1>1. /\ memory' \in [Process -> {Down} \cup MemoryRow] /\ memory'[p] = m
      /\ \A q \in Process \ {p} : memory'[q] = memory[q]
    BY <1>0 DEF CredentialRows
<1>2. /\ rotation' \in [Process -> {Free} \cup RotationRow] /\ rotation'[p] = Free
      /\ \A q \in Process \ {p} : rotation'[q] = rotation[q]
    BY <1>0 DEF CredentialRows
<1>3. CredentialRows'
    BY <1>0, <1>1, <1>2 DEF CredentialRows
<1>4. ASSUME NEW a, NEW t
      PROVE  Stored(a, t)' <=> Stored(a, t)
    BY DEF Stored
<1>5. ASSUME NEW q \in Process
      PROVE  RotationHolds(q)' /\ MemoryHolds(q)'
    <2>0. RotationHolds(q) /\ MemoryHolds(q)
        BY DEF CredentialsInv
    <2>1. CASE q = p
        BY <1>1, <1>2, <1>4, <2>1 DEF RotationHolds, MemoryHolds, Free, Down, Distinct, Justified
    <2>2. CASE q # p
        <3>1. memory'[q] = memory[q] /\ rotation'[q] = rotation[q]
            BY <1>1, <1>2, <2>2
        <3> QED
            BY <1>4, <2>0, <3>1 DEF RotationHolds, MemoryHolds, Free, Down, Distinct, Justified
    <2> QED
        BY <2>1, <2>2
<1>6. \A a \in Agent : VersionsHold(a)'
    BY DEF CredentialsInv, VersionsHold
<1> QED
    BY <1>3, <1>5, <1>6 DEF CredentialsInv

\* A rotation takes the mutex of a process that is up, stores, and is then put in memory.
LEMMA ValidateStep ==
    ASSUME CredentialsInv, NEW p \in Process, NEW a \in Agent, NEW k \in Key, NEW t \in Token,
           NEW e \in Nat, ValidateProtocolBundle(p, a, k, t, e)
    PROVE  CredentialsInv'
<1> DEFINE r == [at |-> "validated", agent |-> a, key |-> k, content |-> t, on |-> e]
<1>0. /\ CredentialRows /\ memory[p] # Down /\ UNCHANGED <<versions, aggregate, retired, memory>>
      /\ rotation' = [rotation EXCEPT ![p] = r]
    BY DEF CredentialsInv, ValidateProtocolBundle
<1>1. r \in RotationRow /\ r.at = "validated"
    BY DEF RotationRow
<1> HIDE DEF r
<1>2. /\ rotation' \in [Process -> {Free} \cup RotationRow] /\ rotation'[p] = r
      /\ \A q \in Process \ {p} : rotation'[q] = rotation[q]
    BY <1>0, <1>1 DEF CredentialRows
<1>3. CredentialRows'
    BY <1>0, <1>2 DEF CredentialRows
<1>4. ASSUME NEW q \in Process
      PROVE  RotationHolds(q)' /\ MemoryHolds(q)'
    <2>0. RotationHolds(q) /\ MemoryHolds(q)
        BY DEF CredentialsInv
    <2>1. MemoryHolds(q)'
        BY <1>0, <2>0 DEF MemoryHolds, Distinct, Justified, Stored, Down
    <2>2. CASE q = p
        BY <1>0, <1>1, <1>2, <2>1, <2>2 DEF RotationHolds, Down
    <2>3. CASE q # p
        <3>1. rotation'[q] = rotation[q]
            BY <1>2, <2>3
        <3> QED
            BY <1>0, <2>0, <2>1, <3>1 DEF RotationHolds, Stored, Down, Free
    <2> QED
        BY <2>2, <2>3
<1>5. \A b \in Agent : VersionsHold(b)'
    BY <1>0 DEF CredentialsInv, VersionsHold
<1> QED
    BY <1>3, <1>4, <1>5 DEF CredentialsInv

\* Stored, now or by the request this one repeats, the token is in the agent's versions.
LEMMA RotateStoredStep ==
    ASSUME CredentialsInv, NEW p \in Process, RotateStored(p)
    PROVE  CredentialsInv'
<1> DEFINE r == rotation[p]
           u == [r EXCEPT !.at = "stored"]
<1>0. CredentialRows /\ r.at = "validated" /\ memory' = memory /\ rotation' = [rotation EXCEPT ![p].at = "stored"]
    BY DEF CredentialsInv, RotateStored
<1>1. r \in RotationRow
    BY <1>0 DEF CredentialRows, Free
<1>2. r # Free /\ memory[p] # Down
    BY <1>0 DEF Free, CredentialsInv, RotationHolds
<1>3. u \in RotationRow /\ u.at = "stored" /\ u.agent = r.agent /\ u.content = r.content
    BY <1>1 DEF RotationRow
<1>4. rotation' = [rotation EXCEPT ![p] = u]
    BY <1>0 DEF CredentialRows
<1>5. PICK a \in Agent, v \in VersionRow : a = r.agent /\ v = Request(r) /\ v.content = r.content
    <2>1. r.agent \in Agent /\ r.content \in Token /\ r.key \in Key /\ r.on \in Nat
        BY <1>1 DEF RotationRow
    <2>2. Request(r) \in VersionRow /\ Request(r).content = r.content
        BY <2>1 DEF Request, VersionRow
    <2> QED
        BY <2>1, <2>2
<1>6. /\ versions' \in [Agent -> Seq(VersionRow)] /\ aggregate' \in [Agent -> Nat] /\ retired' = retired
      /\ VersionsGrow /\ Stored(a, v.content)'
      /\ \A b \in Agent : VersionsHold(b)'
    <2>1. Store(r.agent, Request(r)) \/ (Replay(a, v) /\ UNCHANGED <<versions, aggregate, retired>>)
        BY <1>5 DEF RotateStored
    <2>2. CASE Store(r.agent, Request(r))
        <3>1. versions' = [versions EXCEPT ![r.agent] = Append(versions[r.agent], Request(r))]
            BY <2>2 DEF Store
        <3>2. versions' = [versions EXCEPT ![a] = Append(versions[a], v)]
            BY <1>5, <3>1
        <3>3. aggregate' = [aggregate EXCEPT ![a] = aggregate[a] + 1] /\ retired' = retired
            BY <1>5, <2>2 DEF Store
        <3>4. ~Known(a, v.key) /\ Rotatable(a, v.on) /\ Len(versions[a]) < MaxVersions[a]
            BY <1>5, <2>2 DEF Store
        <3> QED
            BY <3>2, <3>3, <3>4, StoreStep
    <2>3. CASE Replay(a, v) /\ UNCHANGED <<versions, aggregate, retired>>
        <3>1. Stored(a, v.content)'
            BY <2>3 DEF Replay, Stored
        <3>2. aggregate' \in [Agent -> Nat] /\ \A b \in Agent : aggregate[b] <= aggregate'[b]
            BY <1>0, <2>3 DEF CredentialRows
        <3>3. VersionsGrow /\ \A b \in Agent : VersionsHold(b)'
            BY <2>3, <3>2, VersionsStay
        <3> QED
            BY <1>0, <2>3, <3>1, <3>2, <3>3 DEF CredentialRows
    <2> QED
        BY <2>1, <2>2, <2>3
<1>7. /\ rotation' \in [Process -> {Free} \cup RotationRow] /\ rotation'[p] = u
      /\ \A q \in Process \ {p} : rotation'[q] = rotation[q]
    BY <1>0, <1>3, <1>4 DEF CredentialRows
<1>8. CredentialRows'
    BY <1>0, <1>6, <1>7 DEF CredentialRows
<1>9. ASSUME NEW q \in Process
      PROVE  RotationHolds(q)' /\ MemoryHolds(q)'
    <2>0. RotationHolds(q) /\ MemoryHolds(q) /\ (rotation[q] # Free => rotation[q] \in RotationRow)
        BY <1>0 DEF CredentialsInv, CredentialRows
    <2>1. MemoryHolds(q)'
        BY <1>0, <1>6, <2>0 DEF MemoryHolds, Distinct, Justified, VersionsGrow, Down
    <2>2. CASE q = p
        <3>1. rotation'[q].agent = a /\ rotation'[q].content = v.content /\ memory'[q] # Down
            BY <1>0, <1>2, <1>3, <1>5, <1>7, <2>2
        <3> QED
            BY <1>6, <2>1, <3>1 DEF RotationHolds, Stored, Down
    <2>3. CASE q # p
        <3>1. rotation'[q] = rotation[q]
            BY <1>7, <2>3
        <3>2. rotation[q] # Free => rotation[q].agent \in Agent
            BY <2>0 DEF RotationRow
        <3>3. \A b \in Agent : \A t : Stored(b, t) => \E i \in DOMAIN versions'[b] : versions'[b][i].content = t
            BY <1>6 DEF VersionsGrow, Stored
        <3>4. rotation[q] # Free /\ rotation[q].at = "stored" =>
                  \E i \in DOMAIN versions'[rotation[q].agent] :
                      versions'[rotation[q].agent][i].content = rotation[q].content
            BY <2>0, <3>2, <3>3 DEF RotationHolds
        <3> QED
            BY <1>0, <2>0, <2>1, <3>1, <3>4 DEF RotationHolds, Stored, Down, Free
    <2> QED
        BY <2>2, <2>3
<1> QED
    BY <1>6, <1>8, <1>9 DEF CredentialsInv

\* The memory takes a token that is stored for the agent and is no other agent's.
LEMMA RotateObservedStep ==
    ASSUME CredentialsInv, NEW p \in Process, RotateObserved(p)
    PROVE  CredentialsInv'
<1> DEFINE r == rotation[p]
           m == UpdateProtocolBundle(memory[p], r.agent, r.content)
           u == [memory[p] EXCEPT ![r.agent] = r.content]
<1>0. /\ CredentialRows /\ r.at = "stored" /\ rotation' = [rotation EXCEPT ![p] = Free]
      /\ UNCHANGED <<versions, aggregate, retired>>
      /\ memory' = IF m = Down THEN memory ELSE [memory EXCEPT ![p] = m]
    BY DEF CredentialsInv, RotateObserved
<1>1. r \in RotationRow
    BY <1>0 DEF CredentialRows, Free
<1>2. r.agent \in Agent /\ r.content \in Token
    BY <1>1 DEF RotationRow
<1>3. memory[p] # Down /\ Stored(r.agent, r.content)
    BY <1>0 DEF Free, CredentialsInv, RotationHolds
<1>4. memory[p] \in MemoryRow /\ Distinct(memory[p]) /\ Justified(memory[p])
    BY <1>0, <1>3 DEF CredentialRows, CredentialsInv, MemoryHolds
<1>5. CASE m = Down
    <2>1. memory' = [memory EXCEPT ![p] = memory[p]]
        BY <1>0, <1>5 DEF CredentialRows
    <2> QED
        BY <1>0, <1>4, <2>1, MemoryMoves
<1>6. CASE m # Down
    <2>1. TokenFree(memory[p], r.agent, r.content) /\ m = u
        BY <1>6 DEF UpdateProtocolBundle
    <2>2. u \in MemoryRow /\ Distinct(u)
        BY <1>2, <1>4, <2>1, UpdateKeepsApart
    <2>3. u[r.agent] = r.content /\ \A b \in Agent \ {r.agent} : u[b] = memory[p][b]
        BY <1>2, <1>4 DEF MemoryRow
    <2>4. memory' = [memory EXCEPT ![p] = u]
        BY <1>0, <1>6, <2>1
    <2> HIDE DEF u
    <2>5. Justified(u)
        BY <1>2, <1>3, <1>4, <2>3 DEF Justified
    <2> QED
        BY <1>0, <2>2, <2>4, <2>5, MemoryMoves
<1> QED
    BY <1>5, <1>6

\* A rotation that is refused leaves the memory as it was.
LEMMA RotateRefusedStep ==
    ASSUME CredentialsInv, NEW p \in Process, RotateRefused(p)
    PROVE  CredentialsInv'
<1>0. CredentialRows /\ UNCHANGED <<versions, aggregate, retired>> /\ memory' = memory
      /\ rotation' = [rotation EXCEPT ![p] = Free]
    BY DEF CredentialsInv, RotateRefused
<1>1. memory[p] \in {Down} \cup MemoryRow /\ memory' = [memory EXCEPT ![p] = memory[p]]
    BY <1>0 DEF CredentialRows
<1>2. memory[p] # Down => Distinct(memory[p]) /\ Justified(memory[p])
    BY DEF CredentialsInv, MemoryHolds
<1> QED
    BY <1>0, <1>1, <1>2, MemoryMoves

\* Another type of credential is only stored.
LEMMA RotateOtherStep ==
    ASSUME CredentialsInv, NEW a \in Agent, NEW k \in Key, NEW e \in Nat, RotateOther(a, k, e)
    PROVE  CredentialsInv'
<1> DEFINE v == [content |-> Other, key |-> k, on |-> e]
<1>0. CredentialRows /\ Store(a, v) /\ UNCHANGED <<memory, rotation>>
    BY DEF CredentialsInv, RotateOther
<1>1. v \in VersionRow
    BY DEF VersionRow
<1> HIDE DEF v
<1>2. /\ versions' \in [Agent -> Seq(VersionRow)] /\ aggregate' \in [Agent -> Nat] /\ retired' = retired
      /\ VersionsGrow /\ \A b \in Agent : VersionsHold(b)'
    BY <1>0, <1>1, StoreStep DEF Store
<1>3. CredentialRows'
    BY <1>0, <1>2 DEF CredentialRows
<1> QED
    BY <1>0, <1>2, <1>3, ProcessesStay DEF CredentialsInv

\* A process that ends forgets, one that starts restores.
LEMMA CrashStartStep ==
    ASSUME CredentialsInv, NEW p \in Process, Crash(p) \/ Start(p)
    PROVE  CredentialsInv'
<1>0. CredentialRows /\ UNCHANGED <<versions, aggregate, retired>>
    BY DEF CredentialsInv, Crash, Start
<1>1. CASE Crash(p)
    BY <1>0, <1>1, MemoryMoves DEF Crash
<1>2. CASE Start(p)
    <2>1. rotation[p] = Free
        BY <1>2 DEF Start, CredentialsInv, RotationHolds
    <2>2. rotation' = [rotation EXCEPT ![p] = Free]
        BY <1>0, <1>2, <2>1 DEF Start, CredentialRows
    <2>3. PICK m : m = RestoreProtocolBundles
        OBVIOUS
    <2>4. memory' = [memory EXCEPT ![p] = m] /\ m # Down
        BY <1>2, <2>3 DEF Start
    <2>5. m \in MemoryRow /\ Distinct(m) /\ Justified(m)
        BY <2>3, <2>4, RestoreStep
    <2> QED
        BY <1>0, <2>2, <2>4, <2>5, MemoryMoves
<1> QED
    BY <1>1, <1>2

\* An edit moves the agent on.
LEMMA EditStep ==
    ASSUME CredentialsInv, NEW a \in Agent, Edit(a)
    PROVE  CredentialsInv'
<1>0. /\ CredentialRows /\ UNCHANGED <<versions, memory, rotation>>
      /\ aggregate' = [aggregate EXCEPT ![a] = @ + 1] /\ retired' \in SUBSET Agent
    BY DEF CredentialsInv, CredentialRows, Edit
<1>1. aggregate' \in [Agent -> Nat] /\ \A b \in Agent : aggregate[b] <= aggregate'[b]
    BY <1>0 DEF CredentialRows
<1>2. VersionsGrow /\ \A b \in Agent : VersionsHold(b)'
    BY <1>0, <1>1, VersionsStay
<1>3. CredentialRows'
    BY <1>0, <1>1 DEF CredentialRows
<1> QED
    BY <1>0, <1>2, <1>3, ProcessesStay DEF CredentialsInv

\* Nothing changes for credentials.
LEMMA CredentialsStay ==
    ASSUME CredentialsInv, UNCHANGED credentialVars
    PROVE  CredentialsInv'
<1>0. CredentialRows /\ UNCHANGED <<versions, aggregate, retired, memory, rotation>>
    BY DEF CredentialsInv, credentialVars
<1>1. aggregate' \in [Agent -> Nat] /\ \A b \in Agent : aggregate[b] <= aggregate'[b]
    BY <1>0 DEF CredentialRows
<1>2. VersionsGrow /\ \A b \in Agent : VersionsHold(b)'
    BY <1>0, <1>1, VersionsStay
<1>3. CredentialRows'
    BY <1>0 DEF CredentialRows
<1> QED
    BY <1>0, <1>2, <1>3, ProcessesStay DEF CredentialsInv

\* Every step of the engine keeps credentials in order.
LEMMA CredentialsStep == CredentialsInv /\ [Next]_vars => CredentialsInv'
<1> SUFFICES ASSUME CredentialsInv, [Next]_vars PROVE CredentialsInv'
    OBVIOUS
<1>1. ASSUME NEW a \in Agent, NEW k \in Key, NEW e \in Read(a), Rotate(a, k, e)
      PROVE  CredentialsInv'
    <2>0. versions[a] \in Seq(VersionRow) /\ aggregate[a] \in Nat
        BY DEF CredentialsInv, CredentialRows
    <2>1. \A i \in DOMAIN versions[a] : versions[a][i] \in VersionRow
        BY <2>0
    <2>2. e \in Nat
        BY <2>0, <2>1 DEF Read, VersionRow
    <2> QED
        BY <1>1, <2>2, RotateOtherStep, ValidateStep DEF Rotate
<1>2. CASE ProcessNext
    BY <1>2, RotateStoredStep, RotateRefusedStep, RotateObservedStep, CrashStartStep, EditStep DEF ProcessNext
<1>3. CASE UNCHANGED credentialVars
    BY <1>3, CredentialsStay
<1> QED
    BY <1>1, <1>2, <1>3 DEF Next, vars, Tick

\* What is configured gives no token to two agents.
LEMMA CredentialsStart == Init => CredentialsInv
<1> SUFFICES ASSUME Init PROVE CredentialsInv
    OBVIOUS
<1>0. /\ versions = [a \in Agent |-> <<>>] /\ aggregate = [a \in Agent |-> 1] /\ retired = {}
      /\ memory = [p \in Process |-> Configured] /\ rotation = [p \in Process |-> Free]
    BY DEF Init, CredentialsInit
<1>1. Configured \in MemoryRow
    BY CredentialTypes DEF MemoryRow
<1>2. CredentialRows
    <2>1. <<>> \in Seq(VersionRow)
        OBVIOUS
    <2> QED
        BY <1>0, <1>1, <2>1 DEF CredentialRows
<1>3. \A p \in Process : RotationHolds(p)
    BY <1>0 DEF RotationHolds
<1>4. Distinct(Configured) /\ Justified(Configured)
    BY CredentialTypes DEF Distinct, Justified
<1>5. \A p \in Process : MemoryHolds(p)
    BY <1>0, <1>4 DEF MemoryHolds
<1>6. ASSUME NEW a \in Agent
      PROVE  VersionsHold(a)
    <2>1. versions[a] = <<>> /\ Len(<<>>) = 0 /\ DOMAIN <<>> = {} /\ MaxVersions[a] \in Nat
        BY <1>0, CredentialTypes
    <2> QED
        BY <2>1 DEF VersionsHold
<1> QED
    BY <1>2, <1>3, <1>5, <1>6 DEF CredentialsInv

\* The inductive invariant of credentials holds of every behaviour.
LEMMA CredentialsAlways == Spec => []CredentialsInv
BY CredentialsStart, CredentialsStep, PTL DEF Spec

\* In every process a bearer token stands for one agent and was configured or stored for it
\* first; rotations follow one another, each on the version its caller had read and none for
\* a request answered before: with retries, crashes and processes that share nothing but the
\* database.
THEOREM CredentialsAlwaysHold == Spec => []CredentialsHold
<1>1. ASSUME CredentialsInv PROVE CredentialsHold
    <2>0. CredentialRows
        BY <1>1 DEF CredentialsInv
    <2>1. CredentialTypeOK
        BY <1>1, <2>0 DEF CredentialsInv, CredentialRows, VersionsHold, CredentialTypeOK, MemoryRow
    <2>2. ASSUME NEW p \in Process, memory[p] # Down, NEW a \in Agent, memory[p][a] # None
          PROVE  /\ TokenFree(memory[p], a, memory[p][a])
                 /\ memory[p][a] = Configured[a]
                    \/ \E i \in DOMAIN versions[a] : versions[a][i].content = memory[p][a]
        BY <1>1, <2>2 DEF CredentialsInv, MemoryHolds, Distinct, Justified, Stored, TokenFree
    <2>3. \A a \in Agent : \A i, j \in DOMAIN versions[a] :
              i < j => versions[a][i].on < versions[a][j].on /\ versions[a][i].key # versions[a][j].key
        BY <1>1 DEF CredentialsInv, VersionsHold
    <2> QED
        BY <2>1, <2>2, <2>3 DEF CredentialsHold
<1> QED
    BY <1>1, CredentialsAlways, PTL
=============================================================================
