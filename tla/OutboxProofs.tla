----------------------------- MODULE OutboxProofs -----------------------------
(***************************************************************************)
(* For every number of messages, workers, consumers and faults, and every  *)
(* batch size: no message is lost between the outbox and the ledger, and   *)
(* only the latest claimant settles one.                                   *)
(***************************************************************************)
EXTENDS Outbox, FiniteSetTheorems, SequenceTheorems, TLAPS

USE ConstantTypes

\* The bounds are numbers.
LEMMA Bounds == MaxCopies \in Nat /\ MaxReceive \in Nat /\ MaxFaults \in Nat
OBVIOUS

Claimed == [m : Message, attempts : Nat]
Held == [at : {"lookup", "handle", "record", "delete", "failed"}, m : Message]

\* Where a consumer stands says what has happened to its message.
Positions ==
    /\ holding \in [Consumer -> {Idle} \cup Held]
    /\ \A c \in Consumer : holding[c] # Idle =>
        /\ holding[c].m \in sent
        /\ holding[c].at = "record" => holding[c].m \in applied
        /\ holding[c].at = "delete" => holding[c].m \in ledger

\* NoMessageLost is not inductive: FIFO deduplication may absorb a send, so a row can be
\* published without a new copy.  What the broker has accepted once stays accounted for.
Accounted(m) == m \in ledger \cup dlq \/ copies[m] > 0
SentAccounted ==
    /\ \A m \in sent : Accounted(m)
    /\ \A m \in Message : copies[m] > 0 \/ row[m].state = "published" => m \in sent
    /\ \A w \in Worker :
        /\ answer[w] # "none" => batch[w] # <<>>
        /\ answer[w] = "ok" => Head(batch[w]).m \in sent

OutboxInv == TypeOK /\ Positions /\ SentAccounted /\ LedgerIsEvidence /\ LockIsLatestClaim

\* Before the first message nothing is sent, held or recorded.
LEMMA OutboxInit == Init => OutboxInv
<1> SUFFICES ASSUME Init PROVE OutboxInv
  OBVIOUS
<1>1. NoRow \in RowType
  BY DEF NoRow, RowType, Settled
<1>2. \A m \in Message : row[m] = NoRow
  BY DEF Init
<1>3. TypeOK
  <2>1. \A m \in Message : row[m].leased = FALSE /\ row[m].lockedBy = Nobody
    BY <1>2 DEF NoRow
  <2>2. \A m \in Message : row[m].leased \/ row[m].state # "pending" =>
            (row[m].lockedBy # Nobody) = row[m].leased
    BY <2>1
  <2>3. row \in [Message -> RowType]
    BY <1>1 DEF Init
  <2> QED
    BY <2>2, <2>3 DEF Init, TypeOK, Answers
<1> QED
  BY <1>2, <1>3 DEF Init, OutboxInv, Positions, SentAccounted, LedgerIsEvidence, LockIsLatestClaim,
     Idle, NoRow
-----------------------------------------------------------------------------
\* A live lease names its worker and a settled row is unlocked, for one row.
LockPair(r) == r.leased \/ r.state # "pending" => (r.lockedBy # Nobody) = r.leased

\* The lock pair of a row that is leased to a worker, or unlocked.
LEMMA LockPaired ==
    ASSUME NEW r \in RowType,
           \/ r.leased /\ r.lockedBy \in Worker
           \/ ~r.leased /\ r.lockedBy = Nobody
           \/ ~r.leased /\ r.state = "pending"
    PROVE  LockPair(r)
<1>1. r.leased \in BOOLEAN
  BY DEF RowType
<1> QED
  BY <1>1 DEF LockPair

\* TypeOK pairs the lock of every row.
LEMMA RowsPaired == TypeOK => \A m \in Message : row[m] \in RowType /\ LockPair(row[m])
BY DEF TypeOK, LockPair

\* The first message of a batch is a claimed message.
LEMMA HeadClaimed ==
    ASSUME TypeOK, NEW w \in Worker, batch[w] # <<>>
    PROVE  /\ Head(batch[w]) \in Claimed /\ Head(batch[w]) = batch[w][1] /\ 1 \in DOMAIN batch[w]
           /\ Tail(batch[w]) \in Seq(Claimed)
           /\ \A i \in DOMAIN Tail(batch[w]) :
                 i + 1 \in DOMAIN batch[w] /\ Tail(batch[w])[i] = batch[w][i + 1]
<1>1. batch[w] \in Seq(Claimed)
  BY DEF TypeOK, Claimed
<1>2. Head(batch[w]) \in Claimed /\ Head(batch[w]) = batch[w][1] /\ 1 \in DOMAIN batch[w]
  BY <1>1, HeadTailProperties, LenProperties, ElementOfSeq
<1>3. /\ Tail(batch[w]) \in Seq(Claimed)
      /\ \A i \in DOMAIN Tail(batch[w]) :
            i + 1 \in DOMAIN batch[w] /\ Tail(batch[w])[i] = batch[w][i + 1]
  BY <1>1, HeadTailProperties, LenProperties
<1> QED
  BY <1>2, <1>3

\* What Claim gives its worker: the claimed rows with the attempts it has counted.
LEMMA ClaimedBatch ==
    ASSUME TypeOK, NEW w \in Worker, NEW rows \in SUBSET Message, Claim(w, rows)
    PROVE  /\ batch' \in [Worker -> Seq(Claimed)]
           /\ \A v \in Worker : v # w => batch'[v] = batch[v]
           /\ \A i \in DOMAIN batch'[w] :
                 batch'[w][i].m \in rows /\ batch'[w][i].attempts = row[batch'[w][i].m].attempts + 1
<1>1. Cardinality(rows) \in Nat
  BY FS_Subset, FS_CardinalityType
<1>2. PICK order \in SetToSeqs(rows) :
        batch' = [batch EXCEPT ![w] = batch[w] \o
            [i \in DOMAIN order |-> [m |-> order[i], attempts |-> row[order[i]].attempts + 1]]]
  BY DEF Claim
<1> DEFINE new == [i \in DOMAIN order |-> [m |-> order[i], attempts |-> row[order[i]].attempts + 1]]
<1>3. order \in [1..Cardinality(rows) -> rows]
  BY DEF SetToSeqs
<1>4. \A n \in Message : row[n].attempts \in Nat
  BY DEF TypeOK, RowType
<1>5. new \in Seq(Claimed)
  <2>1. new \in [1..Cardinality(rows) -> Claimed]
    BY <1>3, <1>4 DEF Claimed
  <2> QED
    BY <1>1, <2>1
<1>6. batch[w] \o new = new
  <2>1. batch[w] = <<>>
    BY DEF Claim, Free
  <2> QED
    BY <1>5, <2>1, ConcatEmptySeq
<1>7. batch'[w] = new /\ \A v \in Worker : v # w => batch'[v] = batch[v]
  BY <1>2, <1>6 DEF TypeOK
<1>8. batch' \in [Worker -> Seq(Claimed)]
  BY <1>2, <1>5, <1>6 DEF TypeOK, Claimed
<1> QED
  BY <1>3, <1>7, <1>8

\* The rows Claim leaves.
LEMMA ClaimedRows ==
    ASSUME TypeOK, NEW w \in Worker, NEW rows \in SUBSET Message, Claim(w, rows)
    PROVE  /\ row' \in [Message -> RowType]
           /\ \A m \in rows : /\ row[m].state = "pending" /\ row'[m].state = "pending"
                              /\ row'[m].lockedBy = w /\ row'[m].leased
                              /\ row'[m].attempts = row[m].attempts + 1
           /\ \A m \in Message : m \notin rows => row'[m] = row[m]
<1>1. \A m \in Message : row[m] \in RowType
  BY DEF TypeOK
<1>2. \A m \in rows : row'[m] = [row[m] EXCEPT !.lockedBy = w, !.leased = TRUE, !.attempts = row[m].attempts + 1]
  BY DEF Claim
<1>3. ASSUME NEW m \in rows
      PROVE  /\ row'[m] \in RowType /\ row'[m].state = row[m].state /\ row'[m].lockedBy = w
             /\ row'[m].leased /\ row'[m].attempts = row[m].attempts + 1
  <2>1. row[m] \in RowType /\ row[m].attempts + 1 \in Nat
    BY <1>1 DEF RowType
  <2>2. row'[m] \in RowType
    BY <1>2, <2>1 DEF RowType
  <2>3. /\ row'[m].state = row[m].state /\ row'[m].lockedBy = w
        /\ row'[m].leased /\ row'[m].attempts = row[m].attempts + 1
    BY <1>2, <2>1 DEF RowType
  <2> QED
    BY <2>2, <2>3
<1>4. \A m \in Message : m \notin rows => row'[m] = row[m]
  BY DEF Claim
<1>5. \A m \in Message : row'[m] \in RowType
  BY <1>1, <1>3, <1>4
<1>6. \A m \in rows : row[m].state = "pending"
  BY DEF Claim, Claimable
<1>7. row' = [m \in Message |-> row'[m]]
  BY DEF Claim
<1>8. row' \in [Message -> RowType]
  BY <1>5, <1>7
<1> QED
  BY <1>3, <1>4, <1>6, <1>8

\* A message enters the outbox unlocked.
LEMMA EnqueuedRow ==
    ASSUME TypeOK, NEW m \in Message, Enqueue(m)
    PROVE  /\ row' \in [Message -> RowType]
           /\ row'[m].state = "pending" /\ row'[m].lockedBy = row[m].lockedBy
           /\ row'[m].leased = row[m].leased /\ row'[m].attempts = row[m].attempts
           /\ \A n \in Message : n # m => row'[n] = row[n]
<1> DEFINE r == [row[m] EXCEPT !.state = "pending", !.due = TRUE]
<1>1. row[m] \in RowType /\ row \in [Message -> RowType]
  BY DEF TypeOK
<1>2. row' = [row EXCEPT ![m] = r]
  BY <1>1 DEF Enqueue, RowType
<1>3. r \in RowType
  BY <1>1 DEF RowType
<1>4. /\ r.state = "pending" /\ r.lockedBy = row[m].lockedBy /\ r.leased = row[m].leased
      /\ r.attempts = row[m].attempts
  BY <1>1 DEF RowType
<1> QED
  BY <1>1, <1>2, <1>3, <1>4

\* Time clears a lease or a back-off and nothing else.
LEMMA TimedRow ==
    ASSUME TypeOK, NEW m \in Message, TimeNext(m)
    PROVE  /\ row' \in [Message -> RowType]
           /\ row[m].state = "pending" /\ row'[m].state = "pending"
           /\ row'[m].lockedBy = row[m].lockedBy /\ row'[m].attempts = row[m].attempts
           /\ row'[m].leased => row'[m].leased = row[m].leased
           /\ \A n \in Message : n # m => row'[n] = row[n]
<1>1. row[m] \in RowType /\ row \in [Message -> RowType]
  BY DEF TypeOK
<1>2. CASE LeaseExpires(m)
  <2> DEFINE r == [row[m] EXCEPT !.leased = FALSE]
  <2>1. row' = [row EXCEPT ![m] = r] /\ row[m].state = "pending"
    BY <1>2, <1>1 DEF LeaseExpires, RowType
  <2>2. /\ r \in RowType /\ r.state = row[m].state /\ r.lockedBy = row[m].lockedBy /\ ~r.leased
        /\ r.attempts = row[m].attempts
    BY <1>1 DEF RowType
  <2> QED
    BY <1>1, <2>1, <2>2
<1>3. CASE BackoffElapses(m)
  <2> DEFINE r == [row[m] EXCEPT !.due = TRUE]
  <2>1. row' = [row EXCEPT ![m] = r] /\ row[m].state = "pending"
    BY <1>3, <1>1 DEF BackoffElapses, RowType
  <2>2. /\ r \in RowType /\ r.state = row[m].state /\ r.lockedBy = row[m].lockedBy
        /\ r.attempts = row[m].attempts
    BY <1>1 DEF RowType
  <2>3. r.leased = row[m].leased
    BY <1>1 DEF RowType
  <2> QED
    BY <1>1, <2>1, <2>2, <2>3
<1> QED
  BY <1>2, <1>3 DEF TimeNext

\* The row a worker settles, as Complete and Retry leave it.
LEMMA SettledRow ==
    ASSUME TypeOK, NEW w \in Worker, batch[w] # <<>>, NEW m \in Message, m = Head(batch[w]).m, Settle(w)
    PROVE  /\ row[m].state = "pending" /\ row[m].lockedBy = w
           /\ row' \in [Message -> RowType]
           /\ row'[m].state \in {"pending"} \cup Settled
           /\ row'[m].state = "published" => answer[w] = "ok"
           /\ row'[m].lockedBy = Nobody /\ ~row'[m].leased
           /\ \A n \in Message : n # m => row'[n] = row[n]
<1>1. row[m].state = "pending" /\ row[m].lockedBy = w
  BY DEF Settle, Owns
<1>2. row[m] \in RowType /\ row \in [Message -> RowType]
  BY DEF TypeOK
<1>3. CASE answer[w] = "ok"
  <2> DEFINE r == [row[m] EXCEPT !.state = "published", !.due = TRUE, !.lockedBy = Nobody, !.leased = FALSE]
  <2>1. row' = [row EXCEPT ![m] = r]
    BY <1>2, <1>3 DEF Settle, Unlocked, RowType
  <2>2. r \in RowType
    BY <1>2 DEF RowType, Settled
  <2>3. r.state = "published" /\ r.lockedBy = Nobody /\ ~r.leased
    BY <1>2 DEF RowType
  <2> QED
    BY <1>1, <1>2, <1>3, <2>1, <2>2, <2>3 DEF Settled
<1>4. CASE answer[w] # "ok" /\ Dead(w)
  <2> DEFINE r == [row[m] EXCEPT !.state = "dead", !.due = TRUE, !.lockedBy = Nobody, !.leased = FALSE]
  <2>1. row' = [row EXCEPT ![m] = r]
    BY <1>2, <1>4 DEF Settle, Unlocked, RowType
  <2>2. r \in RowType
    BY <1>2 DEF RowType, Settled
  <2>3. r.state = "dead" /\ r.lockedBy = Nobody /\ ~r.leased
    BY <1>2 DEF RowType
  <2> QED
    BY <1>1, <1>2, <1>4, <2>1, <2>2, <2>3 DEF Settled
<1>5. CASE answer[w] # "ok" /\ ~Dead(w)
  <2> DEFINE r == [row[m] EXCEPT !.state = "pending", !.due = FALSE, !.lockedBy = Nobody, !.leased = FALSE]
  <2>1. row' = [row EXCEPT ![m] = r]
    BY <1>2, <1>5 DEF Settle, Unlocked, RowType
  <2>2. r \in RowType
    BY <1>2 DEF RowType, Settled
  <2>3. r.state = "pending" /\ r.lockedBy = Nobody /\ ~r.leased
    BY <1>2 DEF RowType
  <2> QED
    BY <1>1, <1>2, <1>5, <2>1, <2>2, <2>3 DEF Settled
<1> QED
  BY <1>3, <1>4, <1>5

\* Every step keeps the tables and queues well typed and the locks paired.
LEMMA OutboxTypes ==
    ASSUME OutboxInv, [Next]_vars
    PROVE  TypeOK'
<1> USE DEF Claimed
<1>0. TypeOK
  BY DEF OutboxInv
<1>1. ASSUME NEW w \in Worker, NEW rows \in SUBSET Message, Claim(w, rows) PROVE TypeOK'
  <2>1. \A m \in Message : LockPair(row'[m])
    <3> TAKE m \in Message
    <3>1. CASE m \in rows
      BY <1>0, <1>1, <3>1, ClaimedRows, LockPaired
    <3>2. CASE m \notin rows
      BY <1>0, <1>1, <3>2, ClaimedRows, RowsPaired
    <3> QED
      BY <3>1, <3>2
  <2> QED
    BY <1>0, <1>1, <2>1, ClaimedRows, ClaimedBatch DEF TypeOK, LockPair, Claim, queueVars, consumerVars
<1>2. ASSUME NEW w \in Worker, NEW a \in Answers, Publish(w, a) PROVE TypeOK'
  <2>1. Head(batch[w]).m \in Message
    BY <1>0, <1>2, HeadClaimed DEF Publish
  <2>2. copies' \in [Message -> 0..MaxCopies]
    <3> DEFINE m == Head(batch[w]).m
    <3>1. copies[m] \in 0..MaxCopies /\ copies \in [Message -> 0..MaxCopies]
      BY <1>0, <2>1 DEF TypeOK
    <3>2. \/ copies[m] < MaxCopies /\ copies' = [copies EXCEPT ![m] = copies[m] + 1]
          \/ UNCHANGED copies
      BY <1>2 DEF Publish
    <3> HIDE DEF m
    <3> QED
      BY <2>1, <3>1, <3>2, Bounds
  <2>3. sent' \subseteq Message
    BY <1>0, <1>2, <2>1 DEF Publish, TypeOK
  <2>4. answer' \in [Worker -> Answers \cup {"none"}]
    BY <1>0, <1>2 DEF Publish, TypeOK
  <2> QED
    BY <1>0, <1>2, <2>2, <2>3, <2>4 DEF Publish, TypeOK, consumerVars
<1>3. ASSUME NEW w \in Worker, Settle(w) PROVE TypeOK'
  <2>1. batch[w] # <<>>
    BY <1>3 DEF Settle, OutboxInv, SentAccounted
  <2>2. Head(batch[w]).m \in Message /\ Tail(batch[w]) \in Seq(Claimed)
    BY <1>0, <2>1, HeadClaimed
  <2>3. row' \in [Message -> RowType] /\ \A m \in Message : LockPair(row'[m])
    <3>1. row' \in [Message -> RowType]
      BY <1>0, <1>3, <2>1, <2>2, SettledRow
    <3>2. ASSUME NEW m \in Message PROVE LockPair(row'[m])
      <4>1. CASE m = Head(batch[w]).m
        BY <1>0, <1>3, <2>1, <4>1, SettledRow, LockPaired
      <4>2. CASE m # Head(batch[w]).m
        BY <1>0, <1>3, <2>1, <2>2, <4>2, SettledRow, RowsPaired
      <4> QED
        BY <4>1, <4>2
    <3> QED
      BY <3>1, <3>2
  <2>4. batch' \in [Worker -> Seq(Claimed)] /\ answer' \in [Worker -> Answers \cup {"none"}]
    BY <1>0, <1>3, <2>2 DEF Settle, TypeOK
  <2>5. UNCHANGED <<copies, receives, sent, applied, ledger, dlq, faults>>
    BY <1>3 DEF Settle, queueVars, consumerVars
  <2>6. \A m \in Message : row'[m].leased \/ row'[m].state # "pending"
                            => (row'[m].lockedBy # Nobody) = row'[m].leased
    BY <2>3 DEF LockPair
  <2> QED
    <3>1. /\ copies \in [Message -> 0..MaxCopies] /\ receives \in [Message -> 0..MaxReceive]
          /\ sent \cup applied \cup ledger \cup dlq \subseteq Message /\ faults \in 0..MaxFaults
      BY <1>0 DEF TypeOK
    <3>2. /\ copies' \in [Message -> 0..MaxCopies] /\ receives' \in [Message -> 0..MaxReceive]
          /\ sent' \cup applied' \cup ledger' \cup dlq' \subseteq Message /\ faults' \in 0..MaxFaults
      BY <2>5, <3>1
    <3> QED
      BY <2>3, <2>4, <2>6, <3>2 DEF TypeOK, Claimed
<1>4. ASSUME NEW w \in Worker, LeaseLost(w) \/ WorkerDies(w) PROVE TypeOK'
  <2>1. Stopped(w) /\ faults' \in 0..MaxFaults
    <3>1. faults \in 0..MaxFaults
      BY <1>0 DEF TypeOK
    <3>2. Stopped(w) /\ (faults' = faults \/ (faults < MaxFaults /\ faults' = faults + 1))
      BY <1>4 DEF LeaseLost, WorkerDies, Fault
    <3> QED
      BY <3>1, <3>2, Bounds
  <2>2. <<>> \in Seq(Claimed)
    OBVIOUS
  <2> QED
    BY <1>0, <2>1, <2>2 DEF Stopped, TypeOK, queueVars, consumerVars
<1>5. ASSUME NEW m \in Message, Enqueue(m) PROVE TypeOK'
  <2>1. \A n \in Message : LockPair(row'[n])
    <3> TAKE n \in Message
    <3>1. CASE n = m
      <4>1. LockPair(row[m]) /\ row[m].state # "pending"
        BY <1>0, <1>5, RowsPaired DEF Enqueue
      <4>2. row'[m].lockedBy = row[m].lockedBy /\ row'[m].leased = row[m].leased
        BY <1>0, <1>5, EnqueuedRow
      <4> QED
        BY <3>1, <4>1, <4>2 DEF LockPair
    <3>2. CASE n # m
      BY <1>0, <1>5, <3>2, EnqueuedRow, RowsPaired
    <3> QED
      BY <3>1, <3>2
  <2> QED
    BY <1>0, <1>5, <2>1, EnqueuedRow DEF TypeOK, LockPair, Enqueue, workerVars, queueVars, consumerVars
<1>6. ASSUME NEW m \in Message, TimeNext(m) PROVE TypeOK'
  <2>1. \A n \in Message : LockPair(row'[n])
    <3> TAKE n \in Message
    <3>1. CASE n # m
      BY <1>0, <1>6, <3>1, TimedRow, RowsPaired
    <3>2. CASE n = m /\ row'[m].leased
      BY <1>0, <1>6, <3>2, TimedRow, RowsPaired DEF LockPair
    <3>3. CASE n = m /\ ~row'[m].leased
      BY <1>0, <1>6, <3>3, TimedRow, LockPaired DEF RowType
    <3> QED
      BY <3>1, <3>2, <3>3
  <2>2. faults' \in 0..MaxFaults
    BY <1>0, <1>6 DEF TypeOK, TimeNext, LeaseExpires, BackoffElapses, Fault
  <2>3. UNCHANGED <<workerVars, queueVars, consumerVars>>
    BY <1>6 DEF TimeNext, LeaseExpires, BackoffElapses
  <2> QED
    BY <1>0, <1>6, <2>1, <2>2, <2>3, TimedRow DEF TypeOK, LockPair, workerVars, queueVars, consumerVars
<1>7. ASSUME NEW m \in Message, Redrive(m) PROVE TypeOK'
  BY <1>0, <1>7 DEF TypeOK, Redrive, workerVars, consumerVars
<1>8. ASSUME NEW c \in Consumer, NEW m \in Message, Receive(c, m) PROVE TypeOK'
  BY <1>0, <1>8 DEF TypeOK, Receive, workerVars
<1>9. ASSUME NEW c \in Consumer, Lookup(c) \/ RetryLater(c) \/ ConsumerDies(c) PROVE TypeOK'
  <2>1. UNCHANGED <<row, workerVars, queueVars, ledger, applied>>
    BY <1>9 DEF Lookup, RetryLater, ConsumerDies
  <2>2. faults' \in 0..MaxFaults
    BY <1>0, <1>9 DEF TypeOK, Lookup, RetryLater, ConsumerDies, Fault
  <2> QED
    BY <1>0, <2>1, <2>2 DEF TypeOK, workerVars, queueVars
<1>10. ASSUME NEW c \in Consumer, holding[c].at # "idle" PROVE holding[c].m \in Message
  BY <1>10 DEF OutboxInv, Positions, Idle, Held
<1>11. ASSUME NEW c \in Consumer, Record(c) \/ \E ok \in BOOLEAN : Handle(c, ok) PROVE TypeOK'
  <2>1. holding[c].m \in Message
    BY <1>10, <1>11 DEF Record, Handle
  <2> QED
    BY <1>0, <1>11, <2>1 DEF TypeOK, Record, Handle, workerVars, queueVars
<1>12. ASSUME NEW c \in Consumer, Delete(c) PROVE TypeOK'
  <2>1. copies' \in [Message -> 0..MaxCopies]
    <3>1. holding[c].m \in Message
      BY <1>10, <1>12 DEF Delete
    <3>2. copies \in [Message -> 0..MaxCopies]
      BY <1>0 DEF TypeOK
    <3>3. PICK m \in Message : m = holding[c].m
      BY <3>1
    <3>4. copies' = copies \/ (copies[m] > 0 /\ copies' = [copies EXCEPT ![m] = @ - 1])
      BY <1>12, <3>3 DEF Delete
    <3> QED
      BY <3>2, <3>3, <3>4, Bounds
  <2> QED
    BY <1>0, <1>12, <2>1 DEF TypeOK, Delete, workerVars
<1>13. CASE UNCHANGED vars
  BY <1>0, <1>13 DEF TypeOK, vars, workerVars, queueVars, consumerVars
<1> QED
  BY <1>1, <1>2, <1>3, <1>4, <1>5, <1>6, <1>7, <1>8, <1>9, <1>11, <1>12, <1>13
     DEF Next, WorkerNext, ConsumerNext, TimeNext
-----------------------------------------------------------------------------
\* A worker's batch holds messages of the outbox.
LEMMA BatchMessages ==
    ASSUME TypeOK, NEW w \in Worker, NEW i \in DOMAIN batch[w]
    PROVE  batch[w][i].m \in Message
<1>1. batch[w] \in Seq(Claimed)
  BY DEF TypeOK, Claimed
<1>2. i \in 1..Len(batch[w])
  BY <1>1, LenProperties
<1>3. batch[w][i] \in Claimed
  BY <1>1, <1>2, ElementOfSeq
<1> QED
  BY <1>3 DEF Claimed

\* Steps that change neither a batch nor a lock keep the latest claims.
LEMMA ClaimsUnchanged ==
    ASSUME TypeOK, LockIsLatestClaim, UNCHANGED batch,
           \A m \in Message : row'[m].lockedBy = row[m].lockedBy /\ row'[m].attempts = row[m].attempts
    PROVE  LockIsLatestClaim'
<1>1. \A w \in Worker : \A i \in DOMAIN batch[w] : batch[w][i].m \in Message
  BY BatchMessages
<1> QED
  BY <1>1 DEF LockIsLatestClaim

\* Claim, Settle and every other step keep the lock's name that of the latest claimant.
LEMMA ClaimsStep ==
    ASSUME OutboxInv, [Next]_vars
    PROVE  LockIsLatestClaim'
<1>0. TypeOK /\ LockIsLatestClaim
  BY DEF OutboxInv
<1>1. ASSUME NEW v \in Worker, NEW i \in DOMAIN batch[v] PROVE batch[v][i].m \in Message
  BY <1>0, BatchMessages
<1>2. ASSUME NEW w \in Worker, NEW rows \in SUBSET Message, Claim(w, rows) PROVE LockIsLatestClaim'
  <2> SUFFICES ASSUME NEW v \in Worker, NEW i \in DOMAIN batch'[v], row'[batch'[v][i].m].lockedBy = v
               PROVE  batch'[v][i].attempts = row'[batch'[v][i].m].attempts
    BY DEF LockIsLatestClaim
  <2> DEFINE m == batch'[v][i].m
  <2>1. CASE v = w
    BY <1>0, <1>2, <2>1, ClaimedRows, ClaimedBatch
  <2>2. CASE v # w
    <3>1. batch'[v] = batch[v] /\ m \in Message
      BY <1>0, <1>1, <1>2, <2>2, ClaimedBatch
    <3>2. m \notin rows
      BY <1>0, <1>2, <2>2, ClaimedRows
    <3>3. row'[m] = row[m]
      BY <1>0, <1>2, <3>1, <3>2, ClaimedRows
    <3> QED
      BY <1>0, <3>1, <3>3 DEF LockIsLatestClaim
  <2> QED
    BY <2>1, <2>2
<1>3. ASSUME NEW w \in Worker, Settle(w) PROVE LockIsLatestClaim'
  <2>1. batch[w] # <<>>
    BY <1>3 DEF Settle, OutboxInv, SentAccounted
  <2>2. Head(batch[w]).m \in Message
    BY <1>0, <2>1, HeadClaimed DEF Claimed
  <2>3. /\ row'[Head(batch[w]).m].lockedBy = Nobody
        /\ \A n \in Message : n # Head(batch[w]).m => row'[n] = row[n]
    BY <1>0, <1>3, <2>1, <2>2, SettledRow
  <2>4. batch'[w] = Tail(batch[w]) /\ \A v \in Worker : v # w => batch'[v] = batch[v]
    BY <1>0, <1>3 DEF Settle, TypeOK
  <2>5. ASSUME NEW v \in Worker, NEW i \in DOMAIN batch'[v]
        PROVE  \E j \in DOMAIN batch[v] : batch'[v][i] = batch[v][j]
    <3>1. CASE v = w
      <4>1. i + 1 \in DOMAIN batch[w] /\ Tail(batch[w])[i] = batch[w][i + 1]
        BY <1>0, <2>1, <2>4, <3>1, HeadClaimed
      <4> QED
        BY <2>4, <3>1, <4>1
    <3>2. CASE v # w
      BY <2>4, <3>2
    <3> QED
      BY <3>1, <3>2
  <2> SUFFICES ASSUME NEW v \in Worker, NEW i \in DOMAIN batch'[v], row'[batch'[v][i].m].lockedBy = v
               PROVE  batch'[v][i].attempts = row'[batch'[v][i].m].attempts
    BY DEF LockIsLatestClaim
  <2>6. PICK j \in DOMAIN batch[v] : batch'[v][i] = batch[v][j]
    BY <2>5
  <2>7. batch[v][j].m \in Message /\ batch[v][j].m # Head(batch[w]).m
    BY <1>1, <2>3, <2>6
  <2> QED
    BY <1>0, <2>3, <2>6, <2>7 DEF LockIsLatestClaim
<1>4. ASSUME NEW w \in Worker, Stopped(w) PROVE LockIsLatestClaim'
  <2>1. /\ batch'[w] = <<>> /\ UNCHANGED row
        /\ \A v \in Worker : v # w => batch'[v] = batch[v]
    BY <1>0, <1>4 DEF Stopped, TypeOK
  <2>2. DOMAIN <<>> = {}
    OBVIOUS
  <2> QED
    BY <1>0, <2>1, <2>2 DEF LockIsLatestClaim
<1>5. ASSUME NEW m \in Message, Enqueue(m) PROVE LockIsLatestClaim'
  <2>1. UNCHANGED batch
    BY <1>5 DEF Enqueue, workerVars
  <2> QED
    BY <1>0, <1>5, <2>1, EnqueuedRow, ClaimsUnchanged
<1>6. ASSUME NEW m \in Message, TimeNext(m) PROVE LockIsLatestClaim'
  <2>1. UNCHANGED batch
    BY <1>6 DEF TimeNext, LeaseExpires, BackoffElapses, workerVars
  <2> QED
    BY <1>0, <1>6, <2>1, TimedRow, ClaimsUnchanged
<1>7. ASSUME UNCHANGED <<row, batch>> PROVE LockIsLatestClaim'
  BY <1>0, <1>7, ClaimsUnchanged
<1>8. ASSUME NEW w \in Worker, NEW a \in Answers, Publish(w, a) PROVE UNCHANGED <<row, batch>>
  BY <1>8 DEF Publish
<1>9. ASSUME NEW c \in Consumer, ConsumerNext(c) \/ ConsumerDies(c) PROVE UNCHANGED <<row, batch>>
  BY <1>9 DEF ConsumerNext, Receive, Lookup, Handle, Record, Delete, RetryLater, ConsumerDies, workerVars
<1>10. ASSUME NEW m \in Message, Redrive(m) PROVE UNCHANGED <<row, batch>>
  BY <1>10 DEF Redrive, workerVars
<1>11. CASE UNCHANGED vars
  BY <1>7, <1>11 DEF vars, workerVars
<1> QED
  BY <1>2, <1>3, <1>4, <1>5, <1>6, <1>7, <1>8, <1>9, <1>10, <1>11
     DEF Next, WorkerNext, LeaseLost, WorkerDies
-----------------------------------------------------------------------------
\* Steps that change no answer, batch, row state, queue or ledger.
LEMMA AccountUnchanged ==
    ASSUME SentAccounted, UNCHANGED <<workerVars, queueVars, ledger>>,
           \A m \in Message : row'[m].state = "published" => row[m].state = "published"
    PROVE  SentAccounted'
BY DEF SentAccounted, Accounted, workerVars, queueVars

\* What the broker accepted stays accounted for, in every step.
LEMMA AccountStep ==
    ASSUME OutboxInv, [Next]_vars
    PROVE  SentAccounted'
<1>0. TypeOK /\ SentAccounted /\ Positions /\ LedgerIsEvidence
  BY DEF OutboxInv
<1>1. ASSUME NEW w \in Worker, NEW rows \in SUBSET Message, Claim(w, rows) PROVE SentAccounted'
  <2>1. UNCHANGED <<answer, queueVars, ledger>>
    BY <1>1 DEF Claim, consumerVars
  <2>2. \A m \in Message : row'[m].state = "published" => row[m].state = "published"
    BY <1>0, <1>1, ClaimedRows
  <2>3. \A v \in Worker : answer[v] # "none" => batch'[v] = batch[v]
    <3>1. answer[w] = "none"
      BY <1>0, <1>1 DEF Claim, Free, SentAccounted
    <3> QED
      BY <1>0, <1>1, <3>1, ClaimedBatch
  <2> QED
    BY <1>0, <2>1, <2>2, <2>3 DEF SentAccounted, Accounted, queueVars
<1>2. ASSUME NEW w \in Worker, NEW a \in Answers, Publish(w, a) PROVE SentAccounted'
  <2> DEFINE m == Head(batch[w]).m
  <2>1. m \in Message /\ batch[w] # <<>>
    BY <1>0, <1>2, HeadClaimed DEF Publish, Claimed
  <2>2. UNCHANGED <<row, batch, dlq, ledger>>
    BY <1>2 DEF Publish, consumerVars
  <2>3. answer'[w] = a /\ \A v \in Worker : v # w => answer'[v] = answer[v]
    BY <1>0, <1>2 DEF Publish, TypeOK
  <2>4. CASE a # "permanent" /\ sent' = sent \cup {m} /\ copies[m] < MaxCopies
             /\ copies' = [copies EXCEPT ![m] = copies[m] + 1]
    <3>1. copies[m] + 1 > 0 /\ copies'[m] = copies[m] + 1
          /\ \A n \in Message : n # m => copies'[n] = copies[n]
      BY <1>0, <2>1, <2>4 DEF TypeOK
    <3>2. \A n \in sent' : Accounted(n)'
      BY <1>0, <2>1, <2>2, <2>4, <3>1 DEF SentAccounted, Accounted, TypeOK
    <3> QED
      BY <1>0, <2>1, <2>2, <2>3, <2>4, <3>1, <3>2 DEF SentAccounted
  <2>5. CASE a # "permanent" /\ sent' = sent \cup {m} /\ m \in sent /\ UNCHANGED copies
    BY <1>0, <2>1, <2>2, <2>3, <2>5 DEF SentAccounted, Accounted
  <2>6. CASE a \in {"retry", "permanent"} /\ UNCHANGED <<copies, sent>>
    BY <1>0, <2>1, <2>2, <2>3, <2>6 DEF SentAccounted, Accounted
  <2> QED
    BY <1>2, <2>4, <2>5, <2>6 DEF Publish
<1>3. ASSUME NEW w \in Worker, Settle(w) PROVE SentAccounted'
  <2>1. batch[w] # <<>>
    BY <1>0, <1>3 DEF Settle, SentAccounted
  <2>2. Head(batch[w]).m \in Message
    BY <1>0, <2>1, HeadClaimed DEF Claimed
  <2>3. /\ row'[Head(batch[w]).m].state = "published" => Head(batch[w]).m \in sent
        /\ \A n \in Message : n # Head(batch[w]).m => row'[n] = row[n]
    BY <1>0, <1>3, <2>1, <2>2, SettledRow DEF SentAccounted
  <2>4. /\ answer'[w] = "none"
        /\ \A v \in Worker : v # w => batch'[v] = batch[v] /\ answer'[v] = answer[v]
    BY <1>0, <1>3 DEF Settle, TypeOK
  <2>5. UNCHANGED <<queueVars, ledger>>
    BY <1>3 DEF Settle, consumerVars
  <2> QED
    BY <1>0, <2>2, <2>3, <2>4, <2>5 DEF SentAccounted, Accounted, queueVars
<1>4. ASSUME NEW w \in Worker, Stopped(w) PROVE SentAccounted'
  <2>1. /\ answer'[w] = "none"
        /\ \A v \in Worker : v # w => batch'[v] = batch[v] /\ answer'[v] = answer[v]
    BY <1>0, <1>4 DEF Stopped, TypeOK
  <2>2. UNCHANGED <<row, queueVars, ledger>>
    BY <1>4 DEF Stopped, consumerVars
  <2> QED
    BY <1>0, <2>1, <2>2 DEF SentAccounted, Accounted, queueVars
<1>5. ASSUME NEW m \in Message, Enqueue(m) \/ TimeNext(m) PROVE SentAccounted'
  <2>1. UNCHANGED <<workerVars, queueVars, ledger>>
    BY <1>5 DEF Enqueue, TimeNext, LeaseExpires, BackoffElapses, consumerVars
  <2> QED
    BY <1>0, <1>5, <2>1, EnqueuedRow, TimedRow, AccountUnchanged
<1>6. ASSUME NEW m \in Message, Redrive(m) PROVE SentAccounted'
  <2>1. copies'[m] = 0 /\ \A n \in Message : n # m => copies'[n] = copies[n]
    BY <1>0, <1>6 DEF Redrive, TypeOK
  <2>2. dlq' = dlq \cup {m} /\ UNCHANGED <<row, batch, answer, sent, ledger>>
    BY <1>6 DEF Redrive, workerVars, consumerVars
  <2>3. SentAccounted /\ sent \subseteq Message
    BY <1>0 DEF TypeOK
  <2>4. \A n \in Message : copies'[n] > 0 => copies[n] > 0
    BY <2>1
  <2>5. ASSUME NEW n \in sent' PROVE Accounted(n)'
    <3>1. n \in Message /\ Accounted(n)
      BY <2>2, <2>3 DEF SentAccounted
    <3> QED
      BY <2>1, <2>2, <3>1 DEF Accounted
  <2> QED
    BY <2>2, <2>3, <2>4, <2>5 DEF SentAccounted
<1>7. ASSUME NEW c \in Consumer, NEW m \in Message, Receive(c, m) PROVE SentAccounted'
  BY <1>0, <1>7 DEF Receive, SentAccounted, Accounted, workerVars
<1>8. ASSUME NEW c \in Consumer,
             Lookup(c) \/ RetryLater(c) \/ ConsumerDies(c) \/ \E ok \in BOOLEAN : Handle(c, ok)
      PROVE  SentAccounted'
  <2>1. UNCHANGED <<row, workerVars, queueVars, ledger>>
    BY <1>8 DEF Lookup, RetryLater, ConsumerDies, Handle
  <2> QED
    BY <1>0, <2>1, AccountUnchanged
<1>9. ASSUME NEW c \in Consumer, Record(c) PROVE SentAccounted'
  <2>1. UNCHANGED <<row, workerVars, queueVars>> /\ ledger \subseteq ledger'
    BY <1>9 DEF Record
  <2> QED
    BY <1>0, <2>1 DEF SentAccounted, Accounted, workerVars, queueVars
<1>10. ASSUME NEW c \in Consumer, Delete(c) PROVE SentAccounted'
  <2> DEFINE m == holding[c].m
  <2>1. m \in ledger /\ m \in Message
    BY <1>0, <1>10 DEF Delete, Positions, Idle, Held
  <2>2. UNCHANGED <<row, workerVars, dlq, sent, ledger>>
    BY <1>10 DEF Delete
  <2>3. \A n \in Message : n # m => copies'[n] = copies[n]
    BY <1>0, <1>10 DEF Delete, TypeOK
  <2>4. copies'[m] > 0 => copies[m] > 0
    BY <1>0, <1>10, <2>1 DEF Delete, TypeOK
  <2> QED
    BY <1>0, <2>1, <2>2, <2>3, <2>4 DEF SentAccounted, Accounted, TypeOK, workerVars
<1>11. CASE UNCHANGED vars
  BY <1>0, <1>11 DEF vars, SentAccounted, Accounted, workerVars, queueVars, consumerVars
<1> QED
  BY <1>1, <1>2, <1>3, <1>4, <1>5, <1>6, <1>7, <1>8, <1>9, <1>10, <1>11
     DEF Next, WorkerNext, ConsumerNext, LeaseLost, WorkerDies
-----------------------------------------------------------------------------
\* A consumer's step leaves the positions of the others.
LEMMA PositionsKept ==
    ASSUME Positions, NEW c \in Consumer, NEW h \in {Idle} \cup Held,
           holding' = [holding EXCEPT ![c] = h],
           h # Idle => /\ h.m \in sent'
                       /\ h.at = "record" => h.m \in applied'
                       /\ h.at = "delete" => h.m \in ledger',
           sent \subseteq sent', applied \subseteq applied', ledger \subseteq ledger'
    PROVE  Positions'
<1>1. holding' \in [Consumer -> {Idle} \cup Held]
  BY DEF Positions
<1>2. holding'[c] = h /\ \A d \in Consumer : d # c => holding'[d] = holding[d]
  BY DEF Positions
<1> QED
  BY <1>1, <1>2 DEF Positions, Idle

\* Where StepTo takes a consumer that holds a message.
LEMMA StepToHeld ==
    ASSUME Positions, NEW c \in Consumer, holding[c] # Idle,
           NEW pc \in {"lookup", "handle", "record", "delete", "failed"}, StepTo(c, pc)
    PROVE  \E h \in Held : holding' = [holding EXCEPT ![c] = h] /\ h.at = pc /\ h.m = holding[c].m
<1>1. holding[c] \in Held /\ holding \in [Consumer -> {Idle} \cup Held]
  BY DEF Positions
<1>2. [holding[c] EXCEPT !.at = pc] \in Held
  BY <1>1 DEF Held
<1>3. [holding[c] EXCEPT !.at = pc].at = pc /\ [holding[c] EXCEPT !.at = pc].m = holding[c].m
  BY <1>1 DEF Held
<1>4. holding' = [holding EXCEPT ![c] = [holding[c] EXCEPT !.at = pc]]
  BY DEF StepTo
<1> QED
  BY <1>2, <1>3, <1>4

\* Every step keeps consumers where their messages allow, and the ledger evidence.
LEMMA ConsumersStep ==
    ASSUME OutboxInv, [Next]_vars
    PROVE  Positions' /\ LedgerIsEvidence'
<1>0. TypeOK /\ SentAccounted /\ Positions /\ LedgerIsEvidence
  BY DEF OutboxInv
<1>1. ASSUME sent \subseteq sent', UNCHANGED consumerVars PROVE Positions' /\ LedgerIsEvidence'
  BY <1>0, <1>1 DEF Positions, LedgerIsEvidence, consumerVars, Idle
<1>2. ASSUME NEW w \in Worker, WorkerNext(w) \/ WorkerDies(w)
      PROVE  sent \subseteq sent' /\ UNCHANGED consumerVars
  BY <1>2 DEF WorkerNext, Claim, Publish, Settle, LeaseLost, WorkerDies, Stopped, queueVars
<1>3. ASSUME NEW m \in Message, Enqueue(m) \/ TimeNext(m) \/ Redrive(m)
      PROVE  sent \subseteq sent' /\ UNCHANGED consumerVars
  BY <1>3 DEF Enqueue, TimeNext, LeaseExpires, BackoffElapses, Redrive, queueVars
<1>4. ASSUME NEW c \in Consumer, NEW m \in Message, Receive(c, m) PROVE Positions' /\ LedgerIsEvidence'
  <2>1. [at |-> "lookup", m |-> m] \in Held /\ m \in sent
    BY <1>0, <1>4 DEF Held, Receive, SentAccounted
  <2>2. UNCHANGED <<sent, ledger, applied>>
    BY <1>4 DEF Receive
  <2>3. Positions'
    BY <1>0, <1>4, <2>1, <2>2, PositionsKept DEF Receive
  <2> QED
    BY <1>0, <2>2, <2>3 DEF LedgerIsEvidence
<1>5. ASSUME NEW c \in Consumer, Lookup(c) PROVE Positions' /\ LedgerIsEvidence'
  <2>1. holding[c] # Idle /\ UNCHANGED <<sent, ledger, applied>>
    BY <1>5 DEF Lookup, Idle, queueVars
  <2>2. PICK pc \in {"delete", "handle"} :
          StepTo(c, pc) /\ (pc = "delete" => holding[c].m \in ledger)
    BY <1>5 DEF Lookup
  <2>3. PICK h \in Held : holding' = [holding EXCEPT ![c] = h] /\ h.at = pc /\ h.m = holding[c].m
    BY <1>0, <2>1, <2>2, StepToHeld
  <2>4. h.m \in sent
    BY <1>0, <2>1, <2>3 DEF Positions
  <2>5. Positions'
    BY <1>0, <2>1, <2>2, <2>3, <2>4, PositionsKept
  <2> QED
    BY <1>0, <2>1, <2>5 DEF LedgerIsEvidence
<1>6. ASSUME NEW c \in Consumer, NEW ok \in BOOLEAN, Handle(c, ok) PROVE Positions' /\ LedgerIsEvidence'
  <2>1. holding[c] # Idle /\ UNCHANGED <<sent, ledger>> /\ applied \subseteq applied'
    BY <1>6 DEF Handle, Idle, queueVars
  <2>2. PICK pc \in {"record", "failed"} :
          StepTo(c, pc) /\ (pc = "record" => holding[c].m \in applied')
    BY <1>6 DEF Handle, AfterHandle
  <2>3. PICK h \in Held : holding' = [holding EXCEPT ![c] = h] /\ h.at = pc /\ h.m = holding[c].m
    BY <1>0, <2>1, <2>2, StepToHeld
  <2>4. h.m \in sent
    BY <1>0, <2>1, <2>3 DEF Positions
  <2>5. Positions'
    BY <1>0, <2>1, <2>2, <2>3, <2>4, PositionsKept
  <2> QED
    BY <1>0, <2>1, <2>5 DEF LedgerIsEvidence
<1>7. ASSUME NEW c \in Consumer, Record(c) PROVE Positions' /\ LedgerIsEvidence'
  <2>1. /\ holding[c] # Idle /\ UNCHANGED <<sent, applied>> /\ StepTo(c, "delete")
        /\ ledger' = ledger \cup {holding[c].m}
    BY <1>7 DEF Record, Idle, queueVars
  <2>2. PICK h \in Held : holding' = [holding EXCEPT ![c] = h] /\ h.at = "delete" /\ h.m = holding[c].m
    BY <1>0, <2>1, StepToHeld
  <2>3. holding[c].m \in sent /\ holding[c].m \in applied
    BY <1>0, <1>7, <2>1 DEF Positions, Record
  <2>4. Positions'
    BY <1>0, <2>1, <2>2, <2>3, PositionsKept
  <2> QED
    BY <1>0, <2>1, <2>3, <2>4 DEF LedgerIsEvidence
<1>8. ASSUME NEW c \in Consumer, Delete(c) \/ RetryLater(c) \/ ConsumerDies(c)
      PROVE  Positions' /\ LedgerIsEvidence'
  <2>1. holding' = [holding EXCEPT ![c] = Idle] /\ UNCHANGED <<sent, ledger, applied>>
    BY <1>8 DEF Delete, RetryLater, ConsumerDies, queueVars
  <2>2. Positions'
    BY <1>0, <2>1, PositionsKept
  <2> QED
    BY <1>0, <2>1, <2>2 DEF LedgerIsEvidence
<1>9. CASE UNCHANGED vars
  BY <1>1, <1>9 DEF vars, queueVars
<1> QED
  BY <1>1, <1>2, <1>3, <1>4, <1>5, <1>6, <1>7, <1>8, <1>9 DEF Next, ConsumerNext

\* The inductive invariant of the whole path, for every number of messages, workers,
\* consumers and faults.
LEMMA OutboxAlways == Spec => []OutboxInv
<1>1. OutboxInv /\ [Next]_vars => OutboxInv'
  BY OutboxTypes, ClaimsStep, AccountStep, ConsumersStep DEF OutboxInv
<1> QED
  BY <1>1, OutboxInit, PTL DEF Spec

\* Whatever dies, stalls or is sent twice: a published message is in the queue, its dead
\* letters or the ledger, the ledger records only what took effect, and the name on a lock
\* is that of the latest claimant (outbox store.go, awspublisher, sqsconsumer).
THEOREM NothingIsLost == Spec => []MessagesAccounted
<1>1. OutboxInv => MessagesAccounted
  BY DEF OutboxInv, MessagesAccounted, SentAccounted, Accounted, NoMessageLost
<1> QED
  BY <1>1, OutboxAlways, PTL
-----------------------------------------------------------------------------
\* The worker that settles a row holds it with the attempts the row counts.
LEMMA HolderSettles ==
    ASSUME OutboxInv, [Next]_vars, NEW m \in Message
    PROVE  /\ row[m].state \in Settled => row'[m] = row[m]
           /\ row[m].state = "pending" /\ row'[m].state \in Settled =>
                \E w \in Worker :
                    batch[w] # <<>> /\ Head(batch[w]) = [m |-> m, attempts |-> row[m].attempts]
<1>0. TypeOK /\ SentAccounted /\ LockIsLatestClaim
  BY DEF OutboxInv
<1> USE DEF Settled
<1>1. CASE UNCHANGED row
  BY <1>1
<1>2. ASSUME NEW w \in Worker, NEW rows \in SUBSET Message, Claim(w, rows)
      PROVE  /\ row[m].state \in Settled => row'[m] = row[m]
             /\ ~(row[m].state = "pending" /\ row'[m].state \in Settled)
  BY <1>0, <1>2, ClaimedRows
<1>3. ASSUME NEW n \in Message, Enqueue(n) \/ TimeNext(n)
      PROVE  /\ row[m].state \in Settled => row'[m] = row[m]
             /\ ~(row[m].state = "pending" /\ row'[m].state \in Settled)
  BY <1>0, <1>3, EnqueuedRow, TimedRow DEF Enqueue
<1>4. ASSUME NEW w \in Worker, Settle(w)
      PROVE  /\ row[m].state \in Settled => row'[m] = row[m]
             /\ row[m].state = "pending" /\ row'[m].state \in Settled =>
                    batch[w] # <<>> /\ Head(batch[w]) = [m |-> m, attempts |-> row[m].attempts]
  <2>1. batch[w] # <<>>
    BY <1>0, <1>4 DEF Settle, SentAccounted
  <2>2. /\ Head(batch[w]) \in Claimed /\ Head(batch[w]).m \in Message
        /\ Head(batch[w]) = batch[w][1] /\ 1 \in DOMAIN batch[w]
    BY <1>0, <2>1, HeadClaimed DEF Claimed
  <2>3. /\ row[Head(batch[w]).m].state = "pending" /\ row[Head(batch[w]).m].lockedBy = w
        /\ \A n \in Message : n # Head(batch[w]).m => row'[n] = row[n]
    BY <1>0, <1>4, <2>1, <2>2, SettledRow
  <2>4. CASE m # Head(batch[w]).m
    BY <2>3, <2>4
  <2>5. CASE m = Head(batch[w]).m
    <3>1. Head(batch[w]).attempts = row[m].attempts
      BY <1>0, <2>2, <2>3, <2>5 DEF LockIsLatestClaim
    <3>2. Head(batch[w]) = [m |-> m, attempts |-> row[m].attempts]
      BY <2>2, <2>5, <3>1 DEF Claimed
    <3> QED
      BY <2>1, <2>3, <2>5, <3>2
  <2> QED
    BY <2>4, <2>5
<1>5. ASSUME NEW w \in Worker, LeaseLost(w) \/ WorkerDies(w) \/ \E a \in Answers : Publish(w, a)
      PROVE  UNCHANGED row
  BY <1>5 DEF LeaseLost, WorkerDies, Stopped, Publish
<1>6. ASSUME NEW c \in Consumer, ConsumerNext(c) \/ ConsumerDies(c) PROVE UNCHANGED row
  BY <1>6 DEF ConsumerNext, Receive, Lookup, Handle, Record, Delete, RetryLater, ConsumerDies
<1>7. ASSUME NEW n \in Message, Redrive(n) PROVE UNCHANGED row
  BY <1>7 DEF Redrive
<1>8. CASE UNCHANGED vars
  BY <1>1, <1>8 DEF vars
<1> QED
  BY <1>1, <1>2, <1>3, <1>4, <1>5, <1>6, <1>7, <1>8 DEF Next, WorkerNext

\* Although the lock carries no token, a message leaves the pending state only through the
\* worker that claimed it last, and never comes back (Complete and Retry of store.go).
THEOREM OnlyHolderSettles == Spec => SettledByHolder
<1>1. OutboxInv /\ [Next]_vars =>
        [\A m \in Message :
            /\ row[m].state \in Settled => row'[m] = row[m]
            /\ row[m].state = "pending" /\ row'[m].state \in Settled =>
                \E w \in Worker :
                    batch[w] # <<>> /\ Head(batch[w]) = [m |-> m, attempts |-> row[m].attempts]]_vars
  BY HolderSettles
<1> QED
  BY <1>1, OutboxAlways, PTL DEF Spec, SettledByHolder
=============================================================================
