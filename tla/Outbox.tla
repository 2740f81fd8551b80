-------------------------------- MODULE Outbox --------------------------------
(***************************************************************************)
(* The path of a command out of PostgreSQL: services/engine/internal/      *)
(* outbox (leased rows, batch workers, retries, dead letters), its         *)
(* awspublisher handler, the SQS queue, and internal/sqsconsumer with its  *)
(* idempotency ledger.                                                     *)
(*                                                                         *)
(* Leases and back-offs are flags that time clears, so no clock is kept.   *)
(* A fault is a process that dies or a worker slower than its lease.       *)
(***************************************************************************)
EXTENDS Naturals, Sequences, FiniteSets, SequencesExt

CONSTANTS
    Message,       \* rows of outbox_messages
    Worker,        \* Config.WorkerID values; a restarted worker keeps its id
    Consumer,      \* processes of one consumer_name
    Nobody,
    BatchSize, MaxAttempts,   \* Config
    MaxReceive,    \* the queue's maxReceiveCount
    MaxCopies,     \* bound: copies of a message in the queue
    MaxFaults      \* bound: faults in a behaviour

ASSUME ConstantTypes ==
    /\ IsFiniteSet(Message) /\ Nobody \notin Worker
    /\ {BatchSize, MaxAttempts, MaxReceive, MaxCopies} \subseteq Nat \ {0} /\ MaxFaults \in Nat

VARIABLES
    row,        \* outbox_messages: state, lockedBy, leased (locked_until ahead), due, attempts
    batch,      \* what each worker still has to handle of its last Claim
    answer,     \* what the handler said of the first message of the batch
    copies,     \* messages in the queue
    receives,   \* ApproximateReceiveCount
    dlq,        \* messages the queue redrove
    holding,    \* each consumer's message and where RunOnce stands with it
    ledger,     \* processed_messages of the consumer_name
    sent,       \* messages the broker accepted at least once
    applied,    \* messages whose business effect happened
    faults

workerVars == <<batch, answer>>
queueVars == <<copies, receives, dlq, sent>>
consumerVars == <<holding, ledger, applied>>
vars == <<row, workerVars, queueVars, consumerVars, faults>>

NoRow == [state |-> "absent", lockedBy |-> Nobody, leased |-> FALSE, due |-> FALSE, attempts |-> 0]
Settled == {"published", "dead"}
Idle == [at |-> "idle"]

Init ==
    /\ row = [m \in Message |-> NoRow]
    /\ batch = [w \in Worker |-> <<>>] /\ answer = [w \in Worker |-> "none"]
    /\ copies = [m \in Message |-> 0] /\ receives = [m \in Message |-> 0] /\ dlq = {}
    /\ holding = [c \in Consumer |-> Idle] /\ ledger = {}
    /\ sent = {} /\ applied = {} /\ faults = 0

Fault == faults < MaxFaults /\ faults' = faults + 1
-----------------------------------------------------------------------------
\* The domain transaction that inserts the row with its own writes.
Enqueue(m) ==
    /\ row[m].state = "absent"
    /\ row' = [row EXCEPT ![m].state = "pending", ![m].due = TRUE]
    /\ UNCHANGED <<workerVars, queueVars, consumerVars, faults>>

ClaimableUnlocked(m) == row[m].state = "pending" /\ row[m].due /\ row[m].lockedBy = Nobody
Claimable(m) == row[m].state = "pending" /\ row[m].due /\ ~row[m].leased

\* Run is one loop: a worker claims again when it is through with its batch.
Free(w) == batch[w] = <<>>

\* Claim: one statement leases up to BatchSize rows and counts the attempt.  Rows
\* another statement has locked at that moment are skipped, so any choice can result.
Claim(w, rows) ==
    /\ Free(w)
    /\ rows # {} /\ Cardinality(rows) <= BatchSize /\ \A m \in rows : Claimable(m)
    /\ row' = [m \in Message |-> IF m \in rows
            THEN [row[m] EXCEPT !.lockedBy = w, !.leased = TRUE, !.attempts = @ + 1]
            ELSE row[m]]
    /\ \E order \in SetToSeqs(rows) :
        batch' = [batch EXCEPT ![w] = @ \o
            [i \in DOMAIN order |-> [m |-> order[i], attempts |-> row[order[i]].attempts + 1]]]
    /\ UNCHANGED <<answer, queueVars, consumerVars, faults>>

\* The SQS handler's SendMessage.  "retry" includes a call that timed out after the
\* broker took the message; FIFO deduplication may absorb a repeated send.
Publish(w, a) ==
    LET m == Head(batch[w]).m IN
    /\ batch[w] # <<>> /\ answer[w] = "none"
    /\ answer' = [answer EXCEPT ![w] = a]
    /\ \/ /\ a \in {"ok", "retry"}
          /\ sent' = sent \cup {m}
          /\ \/ copies[m] < MaxCopies /\ copies' = [copies EXCEPT ![m] = @ + 1]
             \/ m \in sent /\ UNCHANGED copies
       \/ a \in {"retry", "permanent"} /\ UNCHANGED <<copies, sent>>
    /\ UNCHANGED <<row, batch, receives, dlq, consumerVars, faults>>

OwnsAny(w, m) == row[m].state = "pending"
Owns(w, m) == row[m].state = "pending" /\ row[m].lockedBy = w

\* handle's verdict on a failed message, from the attempts it was claimed with.
Dead(w) == answer[w] = "permanent" \/ Head(batch[w]).attempts >= MaxAttempts

Unlocked(m, state, due) ==
    [row EXCEPT ![m].state = state, ![m].due = due, ![m].lockedBy = Nobody, ![m].leased = FALSE]

\* Complete, or Retry with a back-off, or Retry into the dead letters.
Settle(w) ==
    LET m == Head(batch[w]).m IN
    /\ answer[w] # "none" /\ Owns(w, m)
    /\ row' = IF answer[w] = "ok" THEN Unlocked(m, "published", TRUE)
              ELSE IF Dead(w) THEN Unlocked(m, "dead", TRUE)
              ELSE Unlocked(m, "pending", FALSE)
    /\ batch' = [batch EXCEPT ![w] = Tail(@)]
    /\ answer' = [answer EXCEPT ![w] = "none"]
    /\ UNCHANGED <<queueVars, consumerVars, faults>>

Stopped(w) ==
    /\ batch' = [batch EXCEPT ![w] = <<>>]
    /\ answer' = [answer EXCEPT ![w] = "none"]
    /\ UNCHANGED <<row, queueVars, consumerVars>>

\* ErrLeaseLost ends RunOnce and Run: the rest of the batch is abandoned.
LeaseLost(w) ==
    /\ answer[w] # "none" /\ ~Owns(w, Head(batch[w]).m)
    /\ Stopped(w) /\ UNCHANGED faults

WorkerDies(w) == batch[w] # <<>> /\ Stopped(w) /\ Fault

Busy(w, m) == \E i \in DOMAIN batch[w] : batch[w][i].m = m

\* locked_until passes: without harm when the holder is gone, a fault when it is slow.
LeaseExpires(m) ==
    /\ row[m].state = "pending" /\ row[m].leased
    /\ row' = [row EXCEPT ![m].leased = FALSE]
    /\ IF Busy(row[m].lockedBy, m) THEN Fault ELSE UNCHANGED faults
    /\ UNCHANGED <<workerVars, queueVars, consumerVars>>

BackoffElapses(m) ==
    /\ row[m].state = "pending" /\ ~row[m].due
    /\ row' = [row EXCEPT ![m].due = TRUE]
    /\ UNCHANGED <<workerVars, queueVars, consumerVars, faults>>
-----------------------------------------------------------------------------
\* The queue hands a copy out; it stays in the queue until it is deleted, and its
\* visibility may lapse at any time, so two consumers can hold it.
Receive(c, m) ==
    /\ holding[c] = Idle
    /\ copies[m] > 0 /\ receives[m] < MaxReceive
    /\ receives' = [receives EXCEPT ![m] = @ + 1]
    /\ holding' = [holding EXCEPT ![c] = [at |-> "lookup", m |-> m]]
    /\ UNCHANGED <<row, workerVars, copies, dlq, sent, ledger, applied, faults>>

\* The redrive policy moves a message that was received too often.
Redrive(m) ==
    /\ copies[m] > 0 /\ receives[m] = MaxReceive
    /\ copies' = [copies EXCEPT ![m] = 0]
    /\ dlq' = dlq \cup {m}
    /\ UNCHANGED <<row, workerVars, receives, sent, consumerVars, faults>>

StepTo(c, pc) == holding' = [holding EXCEPT ![c].at = pc]

Lookup(c) ==
    /\ holding[c].at = "lookup"
    /\ StepTo(c, IF holding[c].m \in ledger THEN "delete" ELSE "handle")
    /\ UNCHANGED <<row, workerVars, queueVars, ledger, applied, faults>>

AfterHandleRecord(ok) == "record"
AfterHandle(ok) == IF ok THEN "record" ELSE "failed"

\* handler.Handle: it may fail after its effect as well as before.
Handle(c, ok) ==
    /\ holding[c].at = "handle"
    /\ StepTo(c, AfterHandle(ok))
    /\ \/ applied' = applied \cup {holding[c].m}
       \/ ~ok /\ UNCHANGED applied
    /\ UNCHANGED <<row, workerVars, queueVars, ledger, faults>>

\* Ledger.Complete: insert, or find the same row already there.
Record(c) ==
    /\ holding[c].at = "record"
    /\ ledger' = ledger \cup {holding[c].m}
    /\ StepTo(c, "delete")
    /\ UNCHANGED <<row, workerVars, queueVars, applied, faults>>

\* DeleteMessage; with a receipt that is no longer current it removes nothing.
Delete(c) ==
    LET m == holding[c].m IN
    /\ holding[c].at = "delete"
    /\ holding' = [holding EXCEPT ![c] = Idle]
    /\ \/ copies[m] > 0 /\ copies' = [copies EXCEPT ![m] = @ - 1]
       \/ copies[m] = 0 /\ UNCHANGED copies
    /\ UNCHANGED <<row, workerVars, receives, dlq, sent, ledger, applied, faults>>

\* A failed message is left to its visibility timeout (retry).
RetryLater(c) ==
    /\ holding[c].at = "failed"
    /\ holding' = [holding EXCEPT ![c] = Idle]
    /\ UNCHANGED <<row, workerVars, queueVars, ledger, applied, faults>>

\* A crash, a lost heartbeat or a failed call: RunOnce returns and the process ends.
ConsumerDies(c) ==
    /\ holding[c] # Idle /\ Fault
    /\ holding' = [holding EXCEPT ![c] = Idle]
    /\ UNCHANGED <<row, workerVars, queueVars, ledger, applied>>
-----------------------------------------------------------------------------
Answers == {"ok", "retry", "permanent"}
WorkerNext(w) ==
    \/ \E rows \in SUBSET Message : Claim(w, rows)
    \/ \E a \in Answers : Publish(w, a)
    \/ Settle(w) \/ LeaseLost(w)
ConsumerNext(c) ==
    \/ \E m \in Message : Receive(c, m)
    \/ Lookup(c) \/ Record(c) \/ Delete(c) \/ RetryLater(c)
    \/ \E ok \in BOOLEAN : Handle(c, ok)
TimeNext(m) == LeaseExpires(m) \/ BackoffElapses(m)

Next ==
    \/ \E w \in Worker : WorkerNext(w) \/ WorkerDies(w)
    \/ \E c \in Consumer : ConsumerNext(c) \/ ConsumerDies(c)
    \/ \E m \in Message : Enqueue(m) \/ TimeNext(m) \/ Redrive(m)

\* Workers and consumers poll for ever, leases and back-offs run out.
Spec ==
    /\ Init /\ [][Next]_vars
    /\ \A w \in Worker : WF_vars(WorkerNext(w))
    /\ \A c \in Consumer : WF_vars(ConsumerNext(c))
    /\ \A m \in Message : WF_vars(TimeNext(m)) /\ WF_vars(Redrive(m))
-----------------------------------------------------------------------------
RowType ==
    [state : {"absent", "pending"} \cup Settled, lockedBy : Worker \cup {Nobody},
     leased : BOOLEAN, due : BOOLEAN, attempts : Nat]

(* Rows and positions are well typed, a live lease names its worker          *)
(* (outbox_messages_lock_pair) and a settled row is unlocked.                *)
TypeOK ==
    /\ row \in [Message -> RowType]
    /\ \A m \in Message : row[m].leased \/ row[m].state # "pending" =>
            (row[m].lockedBy # Nobody) = row[m].leased
    /\ batch \in [Worker -> Seq([m : Message, attempts : Nat])]
    /\ answer \in [Worker -> Answers \cup {"none"}]
    /\ copies \in [Message -> 0..MaxCopies] /\ receives \in [Message -> 0..MaxReceive]
    /\ sent \cup applied \cup ledger \cup dlq \subseteq Message
    /\ faults \in 0..MaxFaults

(* A message is never lost: until its effect is on record it is pending, a   *)
(* dead letter of the outbox or of the queue, or still in the queue.         *)
NoMessageLost ==
    \A m \in Message : row[m].state = "published" =>
        m \in ledger \cup dlq \/ copies[m] > 0

(* The ledger never claims more than happened: a recorded message was        *)
(* published and its business effect took place.                             *)
LedgerIsEvidence == ledger \subseteq applied \cap sent

(* The worker whose name is on a row is the one that claimed it last, though *)
(* the lock carries no token: what it knows of the attempts is current.      *)
LockIsLatestClaim ==
    \A w \in Worker : \A i \in DOMAIN batch[w] :
        LET x == batch[w][i] IN
        row[x.m].lockedBy = w => x.attempts = row[x.m].attempts

(* Row, queue, batch and ledger of a message account for it: it is not lost, *)
(* not recorded before it took effect, and locked by its latest claimant.    *)
MessagesAccounted == TypeOK /\ NoMessageLost /\ LedgerIsEvidence /\ LockIsLatestClaim

(* A message leaves the pending state only through the worker that claimed   *)
(* it last, and then for good (Complete and Retry compare locked_by).        *)
SettledByHolder ==
    [][\A m \in Message :
        /\ row[m].state \in Settled => row'[m] = row[m]
        /\ row[m].state = "pending" /\ row'[m].state \in Settled =>
            \E w \in Worker :
                batch[w] # <<>> /\ Head(batch[w]) = [m |-> m, attempts |-> row[m].attempts]]_vars

(* Once faults cease every enqueued message is published or becomes a dead   *)
(* letter, whatever the handler answers, and every published one ends in the *)
(* ledger or in the queue's dead letters.                                    *)
EventuallySettled ==
    \A m \in Message :
        /\ row[m].state = "pending" ~> row[m].state \in Settled
        /\ row[m].state = "published" ~> m \in ledger \cup dlq
=============================================================================
