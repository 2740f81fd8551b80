--------------------------- MODULE SelectionProofs ---------------------------
(***************************************************************************)
(* Selection, proved for every set of leases, addresses and requests and   *)
(* every bound.  A request remembers what it read several transactions     *)
(* ago, so the inductive invariant says what a remembered value still      *)
(* implies: the lease of a request is taken, an answer that the chain had  *)
(* selected stays the chain's answer, a reservation that may yet be paid   *)
(* belongs to an agent whose addresses are frozen.  After it matching,     *)
(* whose snapshots offer what is selected: for every set of agents, rows,  *)
(* limits and answers of the vector search and the model, a frozen draft   *)
(* can be sealed and a sealed panel is full.                               *)
(***************************************************************************)
EXTENDS Selection, Matching, FiniteSetTheorems, SequenceTheorems, NaturalsInduction, TLAPS

LeaseRow == [taken : BOOLEAN, expires : Nat, released : BOOLEAN]
RoundRow == [no : 0..MaxRounds, price : 0..MaxPrices]
ReservationRow == [status : Open \cup {"none", "confirmed", "failed", "expired", "orphaned"},
                   address : Address \cup {"none"}, deadline : Nat,
                   round : 0..MaxRounds, tx : 0..MaxSends]
SentRow == [tx : 0..MaxSends, state : {"none", "pending", "failed", "selected"}]
FundingRow == [status : {"none", "prepared", "submitted", "failed", "orphaned", "confirmed"},
               registered : BOOLEAN, recorded : BOOLEAN]

\* What a request remembers between two of its transactions.
Reserving == [step : {"eligible", "leased"}, r : Lease, address : Address, round : RoundRow,
              deadline : Nat, expires : Nat]
Answered == [step : {"pending", "failed", "selected", "released"}, r : Lease, tx : 0..MaxSends]
Releasing == [step : {"confirmed", "expired", "compensate"}, r : Lease]

CallTypeOK == call \in [Proc -> {Idle} \cup Reserving \cup Answered \cup Releasing]

\* The row of the agent and its leases; an agent that is active was activated.
RegistryInv ==
    /\ now \in 1..MaxTime
    /\ RegistryTypeOK
    /\ CapacityHeld
    /\ agent.status = "active" => agent.activated

\* The task and its funding.  A task whose work may start has a confirmed deposit, which is
\* still there; an intent that failed with a registered transaction has no other one under way.
TaskInv ==
    /\ TaskTypeOK
    /\ task.status \in {"escrowed", "awaiting_selection", "assigned", "funding_refund_pending"}
           => funding.status = "confirmed" /\ deposit = "mined"
    /\ task.status = "draft" => funding.status = "none"
    /\ funding.status \in {"none", "prepared"} => ~funding.recorded /\ ~funding.registered
    /\ funding.status = "failed" /\ funding.registered => deposit = "failed"

\* The chain answers that this transaction selects, or a request was overtaken that held the
\* answer.
Answers(r, tx) == sent[r] = [tx |-> tx, state |-> "selected"] \/ <<r, tx>> \in overtaken

\* The reservation or the lease a request works on is still there, and the answer it carries
\* was one.
CallHolds(c) ==
    /\ c.step # "idle" /\ c.step # "eligible" => lease[c.r].taken
    /\ c.step = "selected" => Answers(c.r, c.tx)

\* Reservations: their leases were taken, at most one is open or confirmed, and that one
\* pays an agent that can no longer change its address.
ReservationHolds(r) ==
    /\ res[r].status # "none" => lease[r].taken
    /\ sent[r].state # "none" => res[r].status # "none"
    /\ res[r].status \in Open \cup {"confirmed"} =>
          /\ agent.activated /\ res[r].address = agent.address
          /\ \A q \in Lease : res[q].status \in Open \cup {"confirmed"} => q = r

SelectedHolds(r) ==
    /\ sent[r].state = "selected" => deposit = "mined"
    /\ res[r].status = "confirmed" => Answers(r, res[r].tx)

RequestsInv ==
    /\ SelectionTypeOK
    /\ CallTypeOK
    /\ \A p \in Proc : CallHolds(call[p])
    /\ \A r \in Lease : ReservationHolds(r)
    /\ \A r \in Lease : SelectedHolds(r)
    /\ task.status = "assigned" => ~task.deleting /\ \E r \in Lease : res[r].status = "confirmed"

SelectionInv == RegistryInv /\ TaskInv /\ RequestsInv

-----------------------------------------------------------------------------
(* The agent's row and its leases *)

Outstanding == {l \in Lease : lease[l].taken /\ ~lease[l].released}
LiveSet == {l \in Lease : Live(l)}

\* What never comes back: a lease that was taken stays so, an agent that was activated keeps
\* its address.
RegistryGrows ==
    /\ \A l \in Lease : lease[l].taken => lease'[l].taken
    /\ agent.activated => agent'.activated /\ agent'.address = agent.address

\* A set of leases has a number of elements, and none exactly when it is empty.
LEMMA LeaseCount ==
    ASSUME NEW S \in SUBSET Lease
    PROVE  /\ IsFiniteSet(S) /\ Cardinality(S) \in Nat
           /\ Cardinality(S) = 0 <=> S = {}
<1>1. IsFiniteSet(Lease)
    BY RegistryTypes
<1>2. IsFiniteSet(S)
    BY <1>1, FS_Subset
<1> QED
    BY <1>2, FS_CardinalityType, FS_EmptySet

\* Of the leases that are outstanding some may have expired: the live ones are among them.
LEMMA LiveIsOutstanding ==
    ASSUME RegistryTypeOK, now \in Nat
    PROVE  /\ LiveSet \in SUBSET Lease /\ Outstanding \in SUBSET Lease
           /\ LiveSet \subseteq Outstanding
           /\ Active = Cardinality(LiveSet) /\ Active \in Nat
           /\ Active = 0 <=> LiveSet = {}
<1>1. LiveSet \in SUBSET Lease /\ Outstanding \in SUBSET Lease /\ LiveSet \subseteq Outstanding
    BY DEF LiveSet, Outstanding, Live
<1>2. Active = Cardinality(LiveSet)
    BY DEF Active, LiveSet
<1> QED
    BY <1>1, <1>2, LeaseCount

\* Reconciling leaves exactly the live leases outstanding.
LEMMA ReconciledKeepsLive ==
    ASSUME RegistryTypeOK, now \in Nat
    PROVE  /\ Reconciled \in [Lease -> LeaseRow]
           /\ \A l \in Lease : Reconciled[l].taken = lease[l].taken
           /\ \A l \in Lease : Reconciled[l].taken /\ ~Reconciled[l].released <=> Live(l)
<1>0. lease \in [Lease -> LeaseRow]
    BY DEF RegistryTypeOK, LeaseRow
<1>1. ASSUME NEW l \in Lease
      PROVE  /\ Reconciled[l] \in LeaseRow
             /\ Reconciled[l].taken = lease[l].taken
             /\ Reconciled[l].taken /\ ~Reconciled[l].released <=> Live(l)
    <2>1. lease[l] \in LeaseRow
        BY <1>0
    <2>2. Reconciled[l] = IF lease[l].taken /\ lease[l].expires <= now
                          THEN [lease[l] EXCEPT !.released = TRUE] ELSE lease[l]
        BY DEF Reconciled
    <2>3. CASE lease[l].taken /\ lease[l].expires <= now
        <3>1. Reconciled[l] = [lease[l] EXCEPT !.released = TRUE]
            BY <2>2, <2>3
        <3>2. Reconciled[l] \in LeaseRow /\ Reconciled[l].taken = lease[l].taken /\ Reconciled[l].released
            BY <2>1, <3>1 DEF LeaseRow
        <3>3. ~Live(l)
            BY <2>1, <2>3 DEF Live, LeaseRow
        <3> QED
            BY <3>2, <3>3
    <2>4. CASE ~(lease[l].taken /\ lease[l].expires <= now)
        BY <2>1, <2>2, <2>4 DEF LeaseRow, Live
    <2> QED
        BY <2>3, <2>4
<1>2. Reconciled = [l \in Lease |-> Reconciled[l]]
    BY DEF Reconciled
<1> QED
    BY <1>1, <1>2

\* With nothing done to the leases, what is outstanding stays so.
LEMMA LeasesStay ==
    ASSUME RegistryInv, agent' \in AgentRow, lease' = lease, now' \in 1..MaxTime, now <= now',
           agent'.counter = agent.counter, agent'.limit = agent.limit,
           agent'.status = "retired" => agent.status = "retired",
           agent'.status = "active" => agent'.activated,
           agent.activated => agent'.activated /\ agent'.address = agent.address
    PROVE  RegistryInv' /\ RegistryGrows
<1> USE ClockTypes
<1>0. now \in Nat /\ now' \in Nat /\ now' \in Int /\ RegistryTypeOK /\ CapacityHeld
    BY DEF RegistryInv
<1>1. RegistryTypeOK'
    BY <1>0 DEF RegistryTypeOK
<1>2. Outstanding' = Outstanding
    BY DEF Outstanding
<1>3. LiveSet' \subseteq LiveSet
    BY <1>0 DEF LiveSet, Live, RegistryTypeOK
<1>4. agent.status = "retired" => LiveSet = {}
    BY <1>0, LiveIsOutstanding DEF CapacityHeld
<1>5. agent'.status = "retired" => LiveSet' = {}
    BY <1>3, <1>4
<1>6. LiveSet' \in SUBSET Lease /\ Active' = Cardinality(LiveSet')
    BY DEF LiveSet, Active
<1>7. agent'.status = "retired" => Active' = 0
    BY <1>5, <1>6, FS_EmptySet
<1>8. CapacityHeld'
    BY <1>0, <1>2, <1>7 DEF CapacityHeld, Outstanding
<1> QED
    BY <1>1, <1>8 DEF RegistryInv, RegistryGrows

\* Reconciling and counting again makes the row's counter right.
LEMMA LeasesReconciled ==
    ASSUME RegistryInv, agent' \in AgentRow, lease' = Reconciled, now' = now,
           agent'.counter = Active, Active <= agent'.limit,
           agent'.status = "retired" => Active = 0,
           agent'.status = "active" => agent'.activated,
           agent.activated => agent'.activated /\ agent'.address = agent.address
    PROVE  RegistryInv' /\ RegistryGrows
<1> USE ClockTypes
<1>0. now \in Nat /\ now' \in 1..MaxTime /\ RegistryTypeOK /\ CapacityHeld
    BY DEF RegistryInv
<1>1. RegistryTypeOK'
    BY <1>0, ReconciledKeepsLive DEF RegistryTypeOK, LeaseRow
<1>2. Outstanding' = LiveSet
    BY <1>0, ReconciledKeepsLive DEF Outstanding, LiveSet
<1>3. LiveSet' \subseteq LiveSet
    BY <1>0, <1>2 DEF LiveSet, Live, Outstanding
<1>4. LiveSet' \in SUBSET Lease /\ Active' = Cardinality(LiveSet')
    BY DEF LiveSet, Active
<1>5. agent'.status = "retired" => Active' = 0
    BY <1>0, <1>3, <1>4, LiveIsOutstanding, FS_EmptySet
<1>6. agent'.counter = Cardinality(Outstanding')
    BY <1>0, <1>2, LiveIsOutstanding
<1>7. CapacityHeld'
    BY <1>0, <1>5, <1>6 DEF CapacityHeld, Outstanding
<1>8. \A l \in Lease : lease[l].taken => lease'[l].taken
    BY <1>0, ReconciledKeepsLive
<1> QED
    BY <1>0, <1>1, <1>7, <1>8 DEF RegistryInv, RegistryGrows

\* Every command of the provider keeps the row and its leases.
LEMMA ProviderStep ==
    ASSUME RegistryInv, RegistryNext
    PROVE  RegistryInv' /\ RegistryGrows
<1> USE ClockTypes, RegistryTypes
<1>0. /\ now \in Nat /\ now \in 1..MaxTime /\ RegistryTypeOK /\ CapacityHeld /\ agent \in AgentRow
      /\ Active \in Nat
    BY LiveIsOutstanding DEF RegistryInv, RegistryTypeOK
<1>1. ASSUME NEW a \in Address, NEW n \in 1..MaxLimit, NEW moved \in BOOLEAN, UpdateProfile(a, n, moved)
      PROVE  RegistryInv' /\ RegistryGrows
    <2>1. agent' \in AgentRow /\ agent'.counter = Active /\ agent'.limit = n /\ agent'.status = agent.status
          /\ agent'.activated = agent.activated /\ agent'.address = a
        <3> DEFINE u == IF moved THEN 0 ELSE agent.until
        <3>1. u \in 0..(MaxTime + HealthTtl)
            BY <1>0 DEF AgentRow
        <3>2. agent' = [agent EXCEPT !.address = a, !.limit = n, !.counter = Active, !.until = u]
            BY <1>0, <1>1 DEF UpdateProfile, AgentRow
        <3> QED
            BY <1>0, <3>1, <3>2 DEF AgentRow
    <2>2. agent.activated => a = agent.address
        BY <1>1 DEF UpdateProfile, AddressesEditable
    <2>3. n >= Active /\ lease' = Reconciled /\ now' = now /\ agent.status # "retired"
        BY <1>1 DEF UpdateProfile
    <2> QED
        BY <1>0, <2>1, <2>2, <2>3, LeasesReconciled DEF RegistryInv
<1>2. ASSUME NEW to \in {"draft", "paused", "active", "retired"}, Transition(to)
      PROVE  RegistryInv' /\ RegistryGrows
    <2>1. /\ agent' \in AgentRow /\ agent'.status = to /\ agent'.limit = agent.limit
          /\ agent'.address = agent.address /\ now' = now
          /\ agent'.activated <=> agent.activated \/ to = "active"
        BY <1>0, <1>2 DEF Transition, AgentRow
    <2>2. CASE to = "retired"
        <3>1. lease' = Reconciled /\ Active = 0 /\ agent'.counter = 0
            BY <1>0, <1>2, <2>2 DEF Transition, MayRetire, AgentRow
        <3>2. Active <= agent'.limit
            BY <2>1, <3>1 DEF AgentRow
        <3> QED
            BY <2>1, <2>2, <3>1, <3>2, LeasesReconciled
    <2>3. CASE to # "retired"
        <3>1. lease' = lease /\ agent'.counter = agent.counter
            BY <1>0, <1>2, <2>3 DEF Transition, AgentRow
        <3> QED
            BY <1>0, <2>1, <2>3, <3>1, LeasesStay
    <2> QED
        BY <2>2, <2>3
<1>3. ASSUME NEW h \in BOOLEAN, CheckHealth(h) \/ \E t \in 1..MaxTime : UpdateHealth(h, t)
      PROVE  RegistryInv' /\ RegistryGrows
    <2>1. PICK u \in 0..(MaxTime + HealthTtl) : agent' = [agent EXCEPT !.until = u]
        <3>1. CASE CheckHealth(h)
            BY <1>0, <3>1 DEF CheckHealth
        <3>2. ASSUME NEW t \in 1..MaxTime, UpdateHealth(h, t)
              PROVE  \E u \in 0..(MaxTime + HealthTtl) : agent' = [agent EXCEPT !.until = u]
            BY <1>0, <3>2 DEF UpdateHealth
        <3> QED
            BY <1>3, <3>1, <3>2
    <2>2. lease' = lease /\ now' = now
        BY <1>3 DEF CheckHealth, UpdateHealth
    <2>3. agent' \in AgentRow /\ agent'.status = agent.status /\ agent'.limit = agent.limit
          /\ agent'.address = agent.address /\ agent'.activated = agent.activated /\ agent'.counter = agent.counter
        BY <1>0, <2>1 DEF AgentRow
    <2> QED
        BY <1>0, <2>2, <2>3, LeasesStay DEF RegistryInv
<1>4. ASSUME NEW n \in 1..MaxLimit, UpdateCapacity(n)
      PROVE  RegistryInv' /\ RegistryGrows
    <2>1. agent' \in AgentRow /\ agent'.counter = Active /\ agent'.limit = n /\ agent'.status = agent.status
          /\ agent'.activated = agent.activated /\ agent'.address = agent.address
        BY <1>0, <1>4 DEF UpdateCapacity, AgentRow
    <2>2. n >= Active /\ lease' = Reconciled /\ now' = now /\ agent.status # "retired"
        BY <1>4 DEF UpdateCapacity
    <2> QED
        BY <1>0, <2>1, <2>2, LeasesReconciled DEF RegistryInv
<1>5. ASSUME PublishPrice
      PROVE  RegistryInv' /\ RegistryGrows
    <2>1. agent' \in AgentRow /\ agent'.status = agent.status /\ agent'.limit = agent.limit
          /\ agent'.address = agent.address /\ agent'.activated = agent.activated /\ agent'.counter = agent.counter
        BY <1>0, <1>5 DEF PublishPrice, AgentRow
    <2>2. lease' = lease /\ now' = now
        BY <1>5 DEF PublishPrice
    <2> QED
        BY <1>0, <2>1, <2>2, LeasesStay DEF RegistryInv
<1> QED
    BY <1>1, <1>2, <1>3, <1>4, <1>5 DEF RegistryNext

\* A lease of an id that is new is live and counted.
LEMMA ReserveCapacityStep ==
    ASSUME RegistryInv, NEW l \in Lease, NEW e \in Nat, ReserveCapacity(l, e)
    PROVE  /\ RegistryInv' /\ RegistryGrows /\ lease'[l].taken /\ lease'[l].expires = e
           /\ lease'[l] \in LeaseRow
<1> USE ClockTypes, RegistryTypes
<1>0. /\ now \in Nat /\ now' = now /\ now \in 1..MaxTime /\ RegistryTypeOK /\ CapacityHeld
      /\ agent \in AgentRow /\ Active \in Nat
    BY LiveIsOutstanding DEF RegistryInv, RegistryTypeOK, ReserveCapacity
<1>1. /\ lease' = [Reconciled EXCEPT ![l] = [taken |-> TRUE, expires |-> e, released |-> FALSE]]
      /\ agent' = [agent EXCEPT !.counter = Active + 1]
      /\ ~lease[l].taken /\ agent.status = "active" /\ Active < agent.limit
    BY DEF ReserveCapacity
<1>2. agent' \in AgentRow /\ agent'.status = agent.status /\ agent'.limit = agent.limit
      /\ agent'.address = agent.address /\ agent'.activated = agent.activated /\ agent'.counter = Active + 1
    BY <1>0, <1>1 DEF AgentRow
<1>3. Reconciled \in [Lease -> LeaseRow]
    BY <1>0, ReconciledKeepsLive
<1>4. lease' \in [Lease -> LeaseRow] /\ lease'[l] = [taken |-> TRUE, expires |-> e, released |-> FALSE]
      /\ \A k \in Lease \ {l} : lease'[k] = Reconciled[k]
    BY <1>1, <1>3 DEF LeaseRow
<1>5. RegistryTypeOK'
    BY <1>2, <1>4 DEF RegistryTypeOK, LeaseRow
<1>6. \A k \in Lease : lease[k].taken => lease'[k].taken
    BY <1>0, <1>4, ReconciledKeepsLive
<1>7. Outstanding' = LiveSet \cup {l}
    <2>1. lease'[l].taken /\ ~lease'[l].released
        BY <1>4
    <2>2. \A k \in Lease \ {l} : lease'[k].taken /\ ~lease'[k].released <=> Live(k)
        BY <1>0, <1>4, ReconciledKeepsLive
    <2> QED
        BY <2>1, <2>2 DEF Outstanding, LiveSet
<1>8. l \notin LiveSet
    BY <1>1 DEF LiveSet, Live
<1>9. Cardinality(Outstanding') = Active + 1
    BY <1>0, <1>7, <1>8, LiveIsOutstanding, LeaseCount, FS_AddElement
<1>10. CapacityHeld'
    <2>1. agent'.counter = Cardinality(Outstanding') /\ agent'.counter <= agent'.limit
        BY <1>0, <1>1, <1>2, <1>9 DEF AgentRow
    <2> QED
        BY <1>1, <1>2, <2>1 DEF CapacityHeld, Outstanding
<1> QED
    BY <1>0, <1>1, <1>2, <1>4, <1>5, <1>6, <1>10 DEF RegistryInv, RegistryGrows

\* Releasing a lease that was taken, once or again, takes it out of what is counted.
LEMMA ReleaseCapacityStep ==
    ASSUME RegistryInv, NEW l \in Lease, lease[l].taken, ReleaseCapacity(l)
    PROVE  RegistryInv' /\ RegistryGrows
<1> USE ClockTypes, RegistryTypes
<1>0. /\ now \in Nat /\ now' = now /\ now \in 1..MaxTime /\ RegistryTypeOK /\ CapacityHeld
      /\ agent \in AgentRow /\ lease \in [Lease -> LeaseRow]
    BY DEF RegistryInv, RegistryTypeOK, ReleaseCapacity, LeaseRow
<1>1. lease' = [lease EXCEPT ![l] = [lease[l] EXCEPT !.released = TRUE]]
    BY <1>0 DEF ReleaseCapacity, Released, LeaseRow
<1>2. lease' \in [Lease -> LeaseRow] /\ lease'[l].taken /\ lease'[l].released
      /\ \A k \in Lease \ {l} : lease'[k] = lease[k]
    BY <1>0, <1>1 DEF LeaseRow
<1>3. \A k \in Lease : lease[k].taken => lease'[k].taken
    BY <1>2
<1>4. Outstanding' = Outstanding \ {l}
    BY <1>2 DEF Outstanding
<1>5. LiveSet' \subseteq LiveSet /\ LiveSet' \in SUBSET Lease /\ Active' = Cardinality(LiveSet')
    BY <1>0, <1>2 DEF LiveSet, Live, Active
<1>6. agent.counter = Cardinality(Outstanding) /\ Outstanding \in SUBSET Lease /\ agent.counter \in Nat
    BY <1>0 DEF CapacityHeld, Outstanding, AgentRow
<1>7. /\ agent' \in AgentRow /\ agent'.status = agent.status /\ agent'.limit = agent.limit
      /\ agent'.address = agent.address /\ agent'.activated = agent.activated
      /\ agent'.counter = Cardinality(Outstanding') /\ agent'.counter <= agent.counter
    <2>1. CASE lease[l].released
        <3>1. l \notin Outstanding /\ agent' = agent
            BY <2>1 DEF Outstanding, ReleaseCapacity
        <3>2. Outstanding' = Outstanding
            BY <1>4, <3>1
        <3> QED
            BY <1>0, <1>6, <3>1, <3>2
    <2>2. CASE ~lease[l].released
        <3>1. l \in Outstanding
            BY <2>2 DEF Outstanding
        <3>2. Cardinality(Outstanding') = Cardinality(Outstanding) - 1
            BY <1>4, <1>6, <3>1, LeaseCount, FS_RemoveElement
        <3>3. agent.counter # 0
            BY <1>6, <3>1, LeaseCount
        <3>4. agent' = [agent EXCEPT !.counter = @ - 1]
            BY <2>2, <3>3 DEF ReleaseCapacity
        <3> QED
            BY <1>0, <1>6, <3>2, <3>3, <3>4 DEF AgentRow
    <2> QED
        BY <2>1, <2>2
<1>8. agent'.status = "retired" => Active' = 0
    BY <1>0, <1>5, <1>7, LiveIsOutstanding, FS_EmptySet DEF CapacityHeld
<1>9. RegistryTypeOK'
    BY <1>2, <1>7 DEF RegistryTypeOK, LeaseRow
<1>10. agent'.counter <= agent'.limit
    BY <1>0, <1>6, <1>7 DEF CapacityHeld, AgentRow
<1>11. CapacityHeld'
    BY <1>7, <1>8, <1>10 DEF CapacityHeld, Outstanding
<1> QED
    BY <1>0, <1>3, <1>7, <1>9, <1>11 DEF RegistryInv, RegistryGrows

\* What the provider is offered is what the store accepts.
LEMMA OffersAreKept ==
    ASSUME RegistryInv
    PROVE  OffersKept
<1>1. agent \in AgentRow
    BY DEF RegistryInv, RegistryTypeOK
<1>2. agent.status \in {"draft", "paused", "active", "retired"}
    BY <1>1 DEF AgentRow
<1>3. CASE agent.status = "draft"
    BY <1>3 DEF OffersKept, Offered, Accepted, ValidTransition, MayActivate, MayRetire, AddressesEditable
<1>4. CASE agent.status = "paused"
    BY <1>4 DEF OffersKept, Offered, Accepted, ValidTransition, MayActivate, MayRetire, AddressesEditable
<1>5. CASE agent.status = "active"
    BY <1>5 DEF OffersKept, Offered, Accepted, ValidTransition, MayActivate, MayRetire, AddressesEditable
<1>6. CASE agent.status = "retired"
    BY <1>6 DEF OffersKept, Offered, Accepted, ValidTransition, MayActivate, MayRetire, AddressesEditable
<1> QED
    BY <1>2, <1>3, <1>4, <1>5, <1>6

-----------------------------------------------------------------------------
(* The task and its funding *)

\* What a step of the task leaves alone: an assigned task, and the rule about its deposit.
AssignedStays == task'.status = "assigned" => task' = task
RecordedSurvives ==
    task'.deleted /\ ~task.deleted /\ funding.recorded /\ funding.registered /\ deposit \in {"sent", "mined"}
        => deposit' = "refunded"

\* A step that leaves the funding alone and changes nothing of a task but these fields.
LEMMA TaskMoves ==
    ASSUME TaskInv, UNCHANGED <<funding, deposit>>, NEW t \in TaskRow, task' = t,
           t.status \in {"escrowed", "awaiting_selection", "assigned", "funding_refund_pending"}
               => funding.status = "confirmed" /\ deposit = "mined",
           t.status = "draft" => task.status = "draft"
    PROVE  TaskInv'
<1>1. TaskTypeOK'
    BY DEF TaskInv, TaskTypeOK
<1> QED
    BY <1>1 DEF TaskInv

\* Every step of the task, its wallet and its projector keeps the rows in order.
LEMMA TaskStep ==
    ASSUME TaskInv, TaskNext
    PROVE  /\ TaskInv' /\ AssignedStays /\ RecordedSurvives
           /\ deposit = "mined" => deposit' = "mined"
<1>0. task \in TaskRow /\ funding \in FundingRow /\ TaskTypeOK
    BY DEF TaskInv, TaskTypeOK, FundingRow
<1>1. ASSUME NEW d \in Deadlines, UpdateDraft(d)
      PROVE  TaskInv' /\ AssignedStays /\ RecordedSurvives /\ deposit' = deposit
    <2>1. /\ task' \in TaskRow /\ task'.status = "draft" /\ task'.deleted = task.deleted
          /\ task.status = "draft" /\ UNCHANGED <<funding, deposit>>
        BY <1>0, <1>1 DEF UpdateDraft, TaskRow
    <2>2. TaskInv'
        BY <2>1, TaskMoves
    <2> QED
        BY <2>1, <2>2 DEF AssignedStays, RecordedSurvives
<1>2. ASSUME Publish
      PROVE  TaskInv' /\ AssignedStays /\ RecordedSurvives /\ deposit' = deposit
    <2>1. /\ task' \in TaskRow /\ task'.status = "pending_escrow" /\ task'.deleted = task.deleted
          /\ UNCHANGED <<funding, deposit>>
        BY <1>0, <1>2 DEF Publish, TaskRow, Status
    <2>2. TaskInv'
        BY <2>1, TaskMoves
    <2> QED
        BY <2>1, <2>2 DEF AssignedStays, RecordedSurvives
<1>3. ASSUME RequestDelete
      PROVE  TaskInv' /\ AssignedStays /\ RecordedSurvives /\ deposit' = deposit
    <2>0. UNCHANGED <<funding, deposit>> /\ task.status \in Deletable
        BY <1>3 DEF RequestDelete
    <2>1. CASE Funded
        <3>1. task' \in TaskRow /\ task'.status = task.status /\ task'.deleted = task.deleted
            BY <1>0, <1>3, <2>1 DEF RequestDelete, TaskRow
        <3>2. TaskInv'
            BY <2>0, <3>1, TaskMoves DEF TaskInv
        <3> QED
            BY <2>0, <3>1, <3>2 DEF AssignedStays, RecordedSurvives, Deletable
    <2>2. CASE ~Funded
        <3>1. task' \in TaskRow /\ task'.status = "cancelled"
            BY <1>0, <1>3, <2>2 DEF RequestDelete, TaskRow, Status
        <3>2. TaskInv'
            BY <2>0, <3>1, TaskMoves
        <3>3. task.status \in {"draft", "pending_escrow"} /\ funding.status # "confirmed"
              /\ ~(funding.status = "orphaned" /\ funding.recorded)
            BY <2>0, <2>2 DEF Funded, Deletable
        <3>4. ~(funding.status = "submitted" /\ task.status = "pending_escrow")
            BY <1>3 DEF RequestDelete
        <3>5. ~(funding.recorded /\ funding.registered /\ deposit \in {"sent", "mined"})
            BY <1>0, <3>3, <3>4 DEF TaskInv, FundingRow
        <3> QED
            BY <2>0, <3>1, <3>2, <3>5 DEF AssignedStays, RecordedSurvives
    <2> QED
        BY <2>1, <2>2
<1>4. ASSUME PrepareFunding
      PROVE  TaskInv' /\ AssignedStays /\ RecordedSurvives /\ deposit' = deposit
    <2>1. /\ funding' \in FundingRow /\ funding'.status = "prepared" /\ UNCHANGED <<task, deposit>>
          /\ funding'.registered = funding.registered /\ funding'.recorded = funding.recorded
          /\ funding.status = "none" /\ task.status = "pending_escrow"
        BY <1>0, <1>4 DEF PrepareFunding, FundingRow
    <2>2. TaskTypeOK'
        BY <1>0, <2>1 DEF TaskTypeOK, FundingRow
    <2> QED
        BY <1>0, <2>1, <2>2 DEF TaskInv, AssignedStays, RecordedSurvives
<1>5. ASSUME Broadcast
      PROVE  TaskInv' /\ AssignedStays /\ RecordedSurvives /\ deposit # "mined"
    <2>1. /\ funding' \in FundingRow /\ funding'.status = funding.status /\ ~funding'.registered
          /\ funding'.recorded = funding.recorded
          /\ deposit' = "sent" /\ task' = task /\ deposit \in {"none", "failed"}
        BY <1>0, <1>5 DEF Broadcast, FundingRow
    <2>2. TaskTypeOK'
        BY <1>0, <2>1 DEF TaskTypeOK, FundingRow
    <2> QED
        BY <1>0, <2>1, <2>2 DEF TaskInv, AssignedStays, RecordedSurvives
<1>6. ASSUME SubmitFunding
      PROVE  TaskInv' /\ AssignedStays /\ RecordedSurvives /\ deposit' = deposit
    <2>1. /\ funding' \in FundingRow /\ funding'.status = "submitted" /\ UNCHANGED <<task, deposit>>
          /\ funding.status \in {"prepared", "orphaned", "failed", "submitted"}
        BY <1>0, <1>6 DEF SubmitFunding, FundingRow
    <2>2. TaskTypeOK'
        BY <1>0, <2>1 DEF TaskTypeOK, FundingRow
    <2> QED
        BY <1>0, <2>1, <2>2 DEF TaskInv, AssignedStays, RecordedSurvives
<1>7. ASSUME Mine
      PROVE  TaskInv' /\ AssignedStays /\ RecordedSurvives /\ deposit # "mined"
    <2>1. UNCHANGED <<task, funding>> /\ deposit = "sent" /\ deposit' \in {"failed", "mined"}
        BY <1>7 DEF Mine
    <2>2. TaskTypeOK'
        BY <1>0, <2>1 DEF TaskTypeOK
    <2> QED
        BY <1>0, <2>1, <2>2 DEF TaskInv, AssignedStays, RecordedSurvives
<1>8. ASSUME ProjectDeposit
      PROVE  TaskInv' /\ AssignedStays /\ RecordedSurvives /\ deposit' = deposit
    <2>1. /\ funding' \in FundingRow /\ funding'.status = "confirmed" /\ deposit' = deposit /\ deposit = "mined"
        BY <1>0, <1>8 DEF ProjectDeposit, FundingRow
    <2>2. PICK x \in {"chain_reorg_pending", "escrowed", "funding_refund_pending"} :
              task' = [task EXCEPT !.status = x]
        BY <1>0, <1>8 DEF ProjectDeposit, TaskRow
    <2>3. task' \in TaskRow /\ task'.status = x /\ task'.deleted = task.deleted
        BY <1>0, <2>2 DEF TaskRow, Status
    <2>4. TaskTypeOK'
        BY <1>0, <2>1, <2>3 DEF TaskTypeOK, FundingRow
    <2> QED
        BY <2>1, <2>3, <2>4 DEF TaskInv, AssignedStays, RecordedSurvives
<1>9. ASSUME ProjectFailure
      PROVE  TaskInv' /\ AssignedStays /\ RecordedSurvives /\ deposit' = deposit
    <2>1. /\ funding' \in FundingRow /\ funding'.status = "failed" /\ UNCHANGED <<task, deposit>>
          /\ deposit = "failed" /\ funding.status # "confirmed" /\ funding.registered
        BY <1>0, <1>9 DEF ProjectFailure, FundingRow
    <2>2. TaskTypeOK'
        BY <1>0, <2>1 DEF TaskTypeOK, FundingRow
    <2> QED
        BY <1>0, <2>1, <2>2 DEF TaskInv, AssignedStays, RecordedSurvives
<1> QED
    BY <1>1, <1>2, <1>3, <1>4, <1>5, <1>6, <1>7, <1>8, <1>9 DEF TaskNext

\* So does the chain, taking a block back or paying the deposit back.
LEMMA TakenBackStep ==
    ASSUME TaskInv, Orphaned \/ ProjectRefund
    PROVE  TaskInv' /\ AssignedStays /\ RecordedSurvives
<1>0. task \in TaskRow /\ funding \in FundingRow /\ TaskTypeOK
    BY DEF TaskInv, TaskTypeOK, FundingRow
<1>1. CASE Orphaned
    <2>1. /\ funding' \in FundingRow /\ funding'.status = "orphaned" /\ deposit' = "sent"
          /\ deposit \in {"mined", "failed"}
          /\ deposit = "failed" => funding.status = "failed"
          /\ funding.status # "none"
        BY <1>0, <1>1 DEF Orphaned, FundingRow
    <2>2. PICK x \in {task.status, "pending_escrow", "chain_reorg_pending"} :
              /\ task' = [task EXCEPT !.status = x]
              /\ x = task.status => deposit = "failed" \/ x \in {"pending_escrow", "chain_reorg_pending"}
        BY <1>0, <1>1 DEF Orphaned, TaskRow
    <2>3. task' \in TaskRow /\ task'.status = x /\ task'.deleted = task.deleted
        BY <1>0, <2>2 DEF TaskRow, Status
    <2>4. TaskTypeOK'
        BY <1>0, <2>1, <2>3 DEF TaskTypeOK, FundingRow
    <2>5. x \notin {"draft", "escrowed", "awaiting_selection", "assigned", "funding_refund_pending"}
        BY <2>1, <2>2 DEF TaskInv
    <2> QED
        BY <2>1, <2>3, <2>4, <2>5 DEF TaskInv, AssignedStays, RecordedSurvives
<1>2. CASE ProjectRefund
    <2>1. task' \in TaskRow /\ task'.status = "refunded" /\ deposit' = "refunded" /\ funding' = funding
        BY <1>0, <1>2 DEF ProjectRefund, TaskRow, Status
    <2>2. TaskTypeOK'
        BY <1>0, <2>1 DEF TaskTypeOK
    <2>3. funding.status = "confirmed"
        BY <1>2 DEF ProjectRefund
    <2> QED
        BY <2>1, <2>2, <2>3 DEF TaskInv, AssignedStays, RecordedSurvives
<1> QED
    BY <1>1, <1>2

-----------------------------------------------------------------------------
(* Requests *)

CallRow == {Idle} \cup Reserving \cup Answered \cup Releasing

\* A request that moves on remembers only what holds.
LEMMA CallMoves ==
    ASSUME RequestsInv, NEW p \in Proc, NEW c \in CallRow, Goes(p, c), UNCHANGED <<sent, overtaken>>,
           \A l \in Lease : lease[l].taken => lease'[l].taken,
           c.step # "idle" /\ c.step # "eligible" => lease'[c.r].taken,
           c.step = "selected" => Answers(c.r, c.tx)
    PROVE  CallTypeOK' /\ \A q \in Proc : CallHolds(call[q])'
<1>0. call \in [Proc -> CallRow] /\ call' = [call EXCEPT ![p] = c]
    BY DEF RequestsInv, CallTypeOK, CallRow, Goes
<1>1. call' \in [Proc -> CallRow]
    BY <1>0
<1>2. ASSUME NEW q \in Proc
      PROVE  CallHolds(call[q])'
    <2>1. CASE q = p
        <3>1. call'[q] = c
            BY <1>0, <2>1
        <3> QED
            BY <3>1 DEF CallHolds, Answers
    <2>2. CASE q # p
        <3>1. call'[q] = call[q] /\ call[q] \in CallRow /\ CallHolds(call[q])
            BY <1>0, <2>2 DEF RequestsInv
        <3>2. call[q].step # "idle" => call[q].r \in Lease
            BY <3>1 DEF CallRow, Idle, Reserving, Answered, Releasing
        <3> QED
            BY <3>1, <3>2 DEF CallHolds, Answers
    <2> QED
        BY <2>1, <2>2
<1> QED
    BY <1>1, <1>2 DEF CallTypeOK, CallRow

\* One reservation gets a new row.
LEMMA ReservationMoves ==
    ASSUME RequestsInv, NEW r \in Lease, NEW row \in ReservationRow, res' = [res EXCEPT ![r] = row],
           UNCHANGED <<round, sent, overtaken, registryVars, deposit>>,
           row.status # "none", lease[r].taken,
           row.status \in Open \cup {"confirmed"} =>
               /\ agent.activated /\ row.address = agent.address
               /\ \A q \in Lease : res[q].status \in Open \cup {"confirmed"} => q = r,
           row.status = "confirmed" => Answers(r, row.tx)
    PROVE  SelectionTypeOK' /\ \A q \in Lease : ReservationHolds(q)' /\ SelectedHolds(q)'
<1>0. res \in [Lease -> ReservationRow] /\ SelectionTypeOK /\ UNCHANGED <<agent, lease>>
    BY DEF RequestsInv, SelectionTypeOK, Reservation, ReservationRow, registryVars
<1>1. res' \in [Lease -> ReservationRow] /\ res'[r] = row /\ \A q \in Lease \ {r} : res'[q] = res[q]
    BY <1>0
<1>2. SelectionTypeOK'
    BY <1>0, <1>1 DEF SelectionTypeOK, Reservation, ReservationRow
<1>3. ASSUME NEW q \in Lease
      PROVE  ReservationHolds(q)' /\ SelectedHolds(q)'
    <2>0. ReservationHolds(q) /\ SelectedHolds(q)
        BY DEF RequestsInv
    <2>1. CASE q = r
        <3>1. res'[q] = row
            BY <1>1, <2>1
        <3>2. row.status \in Open \cup {"confirmed"} =>
                  \A k \in Lease : res'[k].status \in Open \cup {"confirmed"} => k = q
            BY <1>1, <2>1
        <3> QED
            BY <1>0, <2>0, <2>1, <3>1, <3>2 DEF ReservationHolds, SelectedHolds, Answers
    <2>2. CASE q # r
        <3>1. res'[q] = res[q]
            BY <1>1, <2>2
        <3>2. res[q].status \in Open \cup {"confirmed"} =>
                  \A k \in Lease : res'[k].status \in Open \cup {"confirmed"} => k = q
            BY <1>1, <2>0, <2>2 DEF ReservationHolds
        <3> QED
            BY <1>0, <2>0, <3>1, <3>2 DEF ReservationHolds, SelectedHolds, Answers
    <2> QED
        BY <2>1, <2>2
<1> QED
    BY <1>2, <1>3

\* Steps around the requests leave the requests' invariant alone.
LEMMA RequestsStay ==
    ASSUME RequestsInv, UNCHANGED selectionVars, RegistryGrows, AssignedStays,
           Selected => deposit' = "mined"
    PROVE  RequestsInv'
<1>0. UNCHANGED <<round, res, sent, call, overtaken>>
    BY DEF selectionVars
<1>1. SelectionTypeOK' /\ CallTypeOK'
    BY <1>0 DEF RequestsInv, SelectionTypeOK, CallTypeOK
<1>2. ASSUME NEW p \in Proc
      PROVE  CallHolds(call[p])'
    <2>1. CallHolds(call[p]) /\ call[p] \in CallRow
        BY DEF RequestsInv, CallTypeOK, CallRow
    <2>2. call[p].step # "idle" => call[p].r \in Lease
        BY <2>1 DEF CallRow, Idle, Reserving, Answered, Releasing
    <2> QED
        BY <1>0, <2>1, <2>2 DEF CallHolds, RegistryGrows, Answers
<1>3. ASSUME NEW r \in Lease
      PROVE  ReservationHolds(r)' /\ SelectedHolds(r)'
    <2>1. ReservationHolds(r) /\ SelectedHolds(r)
        BY DEF RequestsInv
    <2>2. ReservationHolds(r)'
        BY <1>0, <2>1 DEF ReservationHolds, RegistryGrows
    <2>3. sent[r].state = "selected" => Selected
        BY DEF Selected, Reservation
    <2>4. SelectedHolds(r)'
        BY <1>0, <2>1, <2>3 DEF SelectedHolds, Answers
    <2> QED
        BY <2>2, <2>4
<1>4. task'.status = "assigned" => ~task'.deleting /\ \E r \in Lease : res'[r].status = "confirmed"
    BY <1>0 DEF RequestsInv, AssignedStays
<1> QED
    BY <1>1, <1>2, <1>3, <1>4 DEF RequestsInv

\* A request moves on and only it changes.
LEMMA OnlyCallMoves ==
    ASSUME RequestsInv, NEW p \in Proc, NEW c \in CallRow, Goes(p, c),
           UNCHANGED <<round, res, sent, overtaken, task, deposit>>, RegistryGrows,
           c.step # "idle" /\ c.step # "eligible" => lease'[c.r].taken,
           c.step = "selected" => Answers(c.r, c.tx)
    PROVE  RequestsInv'
<1>1. CallTypeOK' /\ \A q \in Proc : CallHolds(call[q])'
    BY CallMoves DEF RegistryGrows
<1>2. SelectionTypeOK'
    BY DEF RequestsInv, SelectionTypeOK
<1>3. ASSUME NEW r \in Lease
      PROVE  ReservationHolds(r)' /\ SelectedHolds(r)'
    <2>1. ReservationHolds(r) /\ SelectedHolds(r)
        BY DEF RequestsInv
    <2> QED
        BY <2>1 DEF ReservationHolds, SelectedHolds, RegistryGrows, Answers
<1>4. task'.status = "assigned" => ~task'.deleting /\ \E r \in Lease : res'[r].status = "confirmed"
    BY DEF RequestsInv
<1> QED
    BY <1>1, <1>2, <1>3, <1>4 DEF RequestsInv

\* A request ends a reservation, or moves it on, and moves on itself.
LEMMA CallAndReservationMove ==
    ASSUME RequestsInv, NEW p \in Proc, NEW c \in CallRow, Goes(p, c),
           NEW r \in Lease, NEW row \in ReservationRow, res' = [res EXCEPT ![r] = row],
           UNCHANGED <<round, sent, overtaken, registryVars, deposit>>,
           row.status # "none", lease[r].taken,
           row.status \in Open \cup {"confirmed"} =>
               /\ agent.activated /\ row.address = agent.address
               /\ \A q \in Lease : res[q].status \in Open \cup {"confirmed"} => q = r,
           row.status = "confirmed" => Answers(r, row.tx),
           c.step # "idle" => c.step # "selected" /\ lease[c.r].taken,
           task'.status = "assigned" => ~task'.deleting /\ \E q \in Lease : res'[q].status = "confirmed"
    PROVE  RequestsInv'
<1>0. UNCHANGED <<agent, lease>>
    BY DEF registryVars
<1>1. CallTypeOK' /\ \A q \in Proc : CallHolds(call[q])'
    BY <1>0, CallMoves
<1>2. SelectionTypeOK' /\ \A q \in Lease : ReservationHolds(q)' /\ SelectedHolds(q)'
    BY ReservationMoves
<1> QED
    BY <1>1, <1>2 DEF RequestsInv

\* The rows of the agent and of the task stay as they are.
LEMMA RegistryStays ==
    ASSUME RegistryInv, UNCHANGED <<registryVars, now>>
    PROVE  RegistryInv' /\ RegistryGrows
<1>0. UNCHANGED <<agent, lease, now>>
    BY DEF registryVars
<1>1. RegistryTypeOK' /\ CapacityHeld'
    BY <1>0 DEF RegistryInv, RegistryTypeOK, CapacityHeld, Active, Live
<1> QED
    BY <1>0, <1>1 DEF RegistryInv, RegistryGrows

\* Neither row of the task changes.
LEMMA TaskStays ==
    ASSUME TaskInv, UNCHANGED taskVars
    PROVE  TaskInv' /\ RecordedSurvives
<1>0. UNCHANGED <<task, funding, deposit>>
    BY DEF taskVars
<1> QED
    BY <1>0 DEF TaskInv, TaskTypeOK, RecordedSurvives

Steady == RegistryInv' /\ RegistryGrows /\ TaskInv' /\ RecordedSurvives

\* A step of a request alone leaves the agent, the task and its deposit as they are.
LEMMA Steadies ==
    ASSUME SelectionInv, UNCHANGED <<registryVars, taskVars, now>>
    PROVE  Steady /\ UNCHANGED <<task, funding, deposit>>
<1>1. UNCHANGED <<registryVars, now>> /\ UNCHANGED taskVars
    OBVIOUS
<1> QED
    BY <1>1, RegistryStays, TaskStays DEF SelectionInv, Steady, taskVars

\* Reserve, LeaseRefused, Dies: reads, and a request that ends.
LEMMA ReserveStep ==
    ASSUME SelectionInv, NEW p \in Proc, NEW r \in Lease, Reserve(p, r)
    PROVE  SelectionInv' /\ RecordedSurvives
<1> DEFINE d == Earlier(now + ReservationTtl, task.deadline)
           c == [step |-> "eligible", r |-> r, address |-> agent.address, round |-> round,
                 deadline |-> d, expires |-> 0]
<1>0. UNCHANGED <<registryVars, taskVars, now>> /\ UNCHANGED <<round, res, sent, overtaken>>
    BY DEF Reserve
<1>1. Steady /\ UNCHANGED <<task, funding, deposit>>
    BY <1>0, Steadies
<1>2. Goes(p, c)
    BY DEF Reserve
<1>3. d \in Nat
    <2>1. task.deadline \in Nat /\ now \in Nat /\ ReservationTtl \in Nat
        <3>1. now \in 1..MaxTime /\ task \in TaskRow
            BY DEF SelectionInv, RegistryInv, TaskInv, TaskTypeOK
        <3>2. task.deadline \in Deadlines
            BY <3>1 DEF TaskRow
        <3>3. task.deadline \in Nat
            BY <3>2, DeadlinesAreTimes
        <3>4. now \in Nat
            BY <3>1, ClockTypes
        <3> QED
            BY <3>3, <3>4, SelectionTypes
    <2> QED
        BY <2>1 DEF Earlier
<1>4. agent.address \in Address /\ round \in RoundRow
    BY DEF SelectionInv, RegistryInv, RegistryTypeOK, AgentRow, RequestsInv, SelectionTypeOK, RoundRow
<1>5. c \in CallRow /\ c.step = "eligible"
    BY <1>3, <1>4 DEF CallRow, Reserving
<1> HIDE DEF c
<1>6. RequestsInv'
    BY <1>0, <1>1, <1>2, <1>5, OnlyCallMoves DEF SelectionInv, Steady
<1> QED
    BY <1>1, <1>6 DEF SelectionInv, Steady

\* A request that is refused a lease, or whose process dies, forgets all it read.
LEMMA EndsStep ==
    ASSUME SelectionInv, NEW p \in Proc, LeaseRefused(p) \/ Dies(p)
    PROVE  SelectionInv' /\ RecordedSurvives
<1>0. UNCHANGED <<registryVars, taskVars, now>> /\ UNCHANGED <<round, res, sent, overtaken>> /\ Goes(p, Idle)
    BY DEF LeaseRefused, Dies
<1>1. Steady /\ UNCHANGED <<task, funding, deposit>>
    BY <1>0, Steadies
<1>2. Idle \in CallRow /\ Idle.step = "idle"
    BY DEF CallRow, Idle
<1>3. RequestsInv'
    BY <1>0, <1>1, <1>2, OnlyCallMoves DEF SelectionInv, Steady
<1> QED
    BY <1>1, <1>3 DEF SelectionInv, Steady

\* The lease a request gets is taken, now or before.
LEMMA TakeLeaseStep ==
    ASSUME SelectionInv, NEW p \in Proc, TakeLease(p)
    PROVE  SelectionInv' /\ RecordedSurvives
<1> DEFINE c == call[p]
           d == [c EXCEPT !.step = "leased", !.expires = lease'[c.r].expires]
<1>0. /\ RegistryInv /\ TaskInv /\ RequestsInv
      /\ UNCHANGED <<taskVars, round, res, sent, overtaken, now>> /\ UNCHANGED taskVars /\ UNCHANGED <<task, funding, deposit>>
      /\ Goes(p, d) /\ c.step = "eligible"
    BY DEF SelectionInv, TakeLease, taskVars
<1>1. c \in Reserving
    BY <1>0 DEF RequestsInv, CallTypeOK, Idle, Reserving, Answered, Releasing
<1>2. c.r \in Lease /\ c.deadline \in Nat
    BY <1>1 DEF Reserving
<1>3. lease \in [Lease -> LeaseRow] /\ now \in Nat
    BY <1>0, ClockTypes DEF RegistryInv, RegistryTypeOK, LeaseRow
<1>4. RegistryInv' /\ RegistryGrows /\ lease'[c.r].taken /\ lease'[c.r].expires \in Nat
    <2>1. CASE lease[c.r].taken
        <3>1. UNCHANGED registryVars /\ now' = now
            BY <2>1 DEF TakeLease
        <3>2. lease' = lease
            BY <3>1 DEF registryVars
        <3> QED
            BY <1>0, <1>2, <1>3, <2>1, <3>1, <3>2, RegistryStays DEF LeaseRow
    <2>2. CASE ~lease[c.r].taken
        <3>1. ReserveCapacity(c.r, now + (c.deadline - now))
            BY <2>2 DEF TakeLease
        <3>2. now + (c.deadline - now) = c.deadline
            BY <1>2, <1>3
        <3>3. ReserveCapacity(c.r, c.deadline)
            BY <3>1, <3>2
        <3> QED
            BY <1>0, <1>2, <3>3, ReserveCapacityStep
    <2> QED
        BY <2>1, <2>2
<1>5. d \in Reserving /\ d.step = "leased" /\ d.r = c.r
    BY <1>1, <1>4 DEF Reserving
<1>6. d \in CallRow
    BY <1>5 DEF CallRow
<1>7. lease'[d.r].taken
    BY <1>4, <1>5
<1> HIDE DEF c, d
<1>8. RequestsInv'
    BY <1>0, <1>4, <1>5, <1>6, <1>7, OnlyCallMoves
<1> QED
    BY <1>0, <1>4, <1>8, TaskStays DEF SelectionInv

\* Prepare makes a reservation only where no other is open, of an agent that is active.
LEMMA PrepareStep ==
    ASSUME SelectionInv, NEW p \in Proc, Prepare(p)
    PROVE  SelectionInv' /\ RecordedSurvives
<1> DEFINE c == call[p]
           row == [status |-> "reserved", address |-> c.address, deadline |-> c.deadline,
                   round |-> c.round.no, tx |-> 0]
           e == [step |-> "compensate", r |-> c.r]
<1>0. /\ RegistryInv /\ TaskInv /\ RequestsInv /\ c.step = "leased"
      /\ UNCHANGED <<registryVars, taskVars, now>> /\ UNCHANGED <<round, sent, overtaken>>
    BY DEF SelectionInv, Prepare
<1>1. Steady /\ UNCHANGED <<task, funding, deposit>>
    BY <1>0, Steadies
<1>2. c \in Reserving
    BY <1>0 DEF RequestsInv, CallTypeOK, Idle, Reserving, Answered, Releasing
<1>3. c.r \in Lease /\ lease[c.r].taken /\ lease'[c.r].taken
    BY <1>0, <1>1, <1>2 DEF Reserving, RequestsInv, CallHolds, Steady, RegistryGrows
<1>4. Idle \in CallRow /\ Idle.step = "idle" /\ e \in CallRow /\ e.step = "compensate" /\ e.r = c.r
    BY <1>3 DEF CallRow, Idle, Releasing
<1>5. \/ CanPrepare(c) /\ res' = [res EXCEPT ![c.r] = row] /\ Goes(p, Idle)
      \/ Goes(p, Idle) /\ UNCHANGED res
      \/ Goes(p, e) /\ UNCHANGED res
    BY DEF Prepare
<1>6. CASE CanPrepare(c) /\ res' = [res EXCEPT ![c.r] = row] /\ Goes(p, Idle)
    <2>1. /\ agent.status = "active" /\ c.address = agent.address
          /\ task.status = "awaiting_selection"
          /\ \A q \in Lease : res[q].status \notin Open \cup {"confirmed"}
        BY <1>6 DEF CanPrepare, Eligible, HealthyNow, Selectable, Unique, Reservation
    <2>2. agent.activated
        BY <1>0, <2>1 DEF RegistryInv
    <2>3. row \in ReservationRow /\ row.status = "reserved" /\ row.address = agent.address
        <3>1. c.address \in Address /\ c.deadline \in Nat /\ c.round.no \in 0..MaxRounds /\ 0 \in 0..MaxSends
            BY <1>2, SelectionTypes DEF Reserving, RoundRow
        <3> QED
            BY <2>1, <3>1 DEF ReservationRow, Open
    <2>4. task'.status # "assigned"
        BY <1>1, <2>1
    <2> HIDE DEF c, row, e
    <2>5. RequestsInv'
        BY <1>0, <1>1, <1>3, <1>4, <1>6, <2>1, <2>2, <2>3, <2>4, CallAndReservationMove
    <2> QED
        BY <1>1, <2>5 DEF SelectionInv, Steady
<1>7. CASE Goes(p, Idle) /\ UNCHANGED res
    <2>1. RequestsInv'
        BY <1>0, <1>1, <1>4, <1>7, OnlyCallMoves DEF Steady
    <2> QED
        BY <1>1, <2>1 DEF SelectionInv, Steady
<1>8. CASE Goes(p, e) /\ UNCHANGED res
    <2> HIDE DEF c, e
    <2>1. RequestsInv'
        BY <1>0, <1>1, <1>3, <1>4, <1>8, OnlyCallMoves DEF Steady
    <2> QED
        BY <1>1, <2>1 DEF SelectionInv, Steady
<1> QED
    BY <1>5, <1>6, <1>7, <1>8

\* Reconcile remembers the chain's answer.
LEMMA ReconcileStep ==
    ASSUME SelectionInv, NEW p \in Proc, NEW r \in Lease, Reconcile(p, r)
    PROVE  SelectionInv' /\ RecordedSurvives
<1> DEFINE c == [step |-> sent[r].state, r |-> r, tx |-> sent[r].tx]
<1>0. /\ UNCHANGED <<registryVars, taskVars, now>> /\ UNCHANGED <<round, res, sent, overtaken>>
      /\ Goes(p, c) /\ res[r].status # "none" /\ sent[r].state # "none" /\ RequestsInv
    BY DEF Reconcile, SelectionInv
<1>1. Steady /\ UNCHANGED <<task, funding, deposit>>
    BY <1>0, Steadies
<1>2. sent[r] \in SentRow
    BY <1>0 DEF RequestsInv, SelectionTypeOK, SentRow, Reservation
<1>3. c \in CallRow /\ c.r = r /\ c.step = sent[r].state /\ c.tx = sent[r].tx
    BY <1>0, <1>2 DEF CallRow, Answered, SentRow
<1>4. lease[r].taken /\ lease'[r].taken
    BY <1>0, <1>1 DEF RequestsInv, ReservationHolds, Steady, RegistryGrows
<1>5. c.step = "selected" => Answers(c.r, c.tx)
    BY <1>2, <1>3 DEF Answers, SentRow
<1> HIDE DEF c
<1>6. RequestsInv'
    BY <1>0, <1>1, <1>3, <1>4, <1>5, OnlyCallMoves DEF Steady
<1> QED
    BY <1>1, <1>6 DEF SelectionInv, Steady

\* What a request that has an answer of the chain, or releases a lease, works on.
LEMMA AnsweredCall ==
    ASSUME RequestsInv, NEW p \in Proc, call[p].step \in {"pending", "failed", "selected", "released"}
    PROVE  /\ call[p] \in Answered /\ call[p].r \in Lease /\ call[p].tx \in 0..MaxSends
           /\ lease[call[p].r].taken
<1>1. call[p] \in Answered
    BY DEF RequestsInv, CallTypeOK, Idle, Reserving, Answered, Releasing
<1> QED
    BY <1>1 DEF Answered, RequestsInv, CallHolds

\* A row of a reservation that differs in its status and its transaction.
Moved(r, status, tx) == [res[r] EXCEPT !.status = status, !.tx = tx]

\* Such a row is one of a reservation, with that status and transaction and the same address.
LEMMA RowMoves ==
    ASSUME RequestsInv, NEW r \in Lease, NEW tx \in 0..MaxSends,
           NEW status \in {"submitted", "confirmed", "failed", "expired"}
    PROVE  /\ Moved(r, status, tx) \in ReservationRow
           /\ Moved(r, status, tx).status = status /\ Moved(r, status, tx).tx = tx
           /\ Moved(r, status, tx).address = res[r].address
           /\ res[r] \in ReservationRow /\ res \in [Lease -> ReservationRow]
<1>1. res \in [Lease -> ReservationRow]
    BY DEF RequestsInv, SelectionTypeOK, Reservation, ReservationRow
<1>2. res[r] \in ReservationRow
    BY <1>1
<1>3. /\ Moved(r, status, tx) \in ReservationRow
      /\ Moved(r, status, tx).status = status /\ Moved(r, status, tx).tx = tx
      /\ Moved(r, status, tx).address = res[r].address
    BY <1>2 DEF ReservationRow, Open, Moved
<1> QED
    BY <1>1, <1>2, <1>3

\* RecordSubmitted moves an open reservation on; its agent stays the one it was made for.
LEMMA RecordSubmittedStep ==
    ASSUME SelectionInv, NEW p \in Proc, RecordSubmitted(p)
    PROVE  SelectionInv' /\ RecordedSurvives
<1> DEFINE c == call[p]
           row == Moved(c.r, "submitted", c.tx)
<1>0. /\ RequestsInv /\ c.step = "pending" /\ Goes(p, Idle)
      /\ UNCHANGED <<registryVars, taskVars, now>> /\ UNCHANGED <<round, sent, overtaken>>
    BY DEF SelectionInv, RecordSubmitted
<1>1. Steady /\ UNCHANGED <<task, funding, deposit>>
    BY <1>0, Steadies
<1>2. c.r \in Lease /\ c.tx \in 0..MaxSends /\ lease[c.r].taken
    BY <1>0, AnsweredCall
<1>3. Idle \in CallRow /\ Idle.step = "idle"
    BY DEF CallRow, Idle
<1>4. CASE Selectable /\ res[c.r].status = "reserved" /\ SameTx(c)
    <2>1. res' = [res EXCEPT ![c.r].status = "submitted", ![c.r].tx = c.tx]
        BY <1>4 DEF RecordSubmitted
    <2>2. row \in ReservationRow /\ row.status = "submitted" /\ row.address = res[c.r].address
          /\ res' = [res EXCEPT ![c.r] = row]
        <3>1. res[c.r] \in ReservationRow /\ res \in [Lease -> ReservationRow]
            BY <1>0, <1>2, RowMoves
        <3>2. res' = [res EXCEPT ![c.r] = row]
            BY <2>1, <3>1 DEF Moved
        <3> QED
            BY <1>0, <1>2, <3>2, RowMoves
    <2>3. /\ agent.activated /\ res[c.r].address = agent.address
          /\ \A q \in Lease : res[q].status \in Open \cup {"confirmed"} => q = c.r
        BY <1>0, <1>2, <1>4 DEF RequestsInv, ReservationHolds, Open
    <2>4. task'.status # "assigned"
        BY <1>1, <1>4 DEF Selectable
    <2> HIDE DEF c, row
    <2>5. RequestsInv'
        BY <1>0, <1>1, <1>2, <1>3, <2>2, <2>3, <2>4, CallAndReservationMove
    <2> QED
        BY <1>1, <2>5 DEF SelectionInv, Steady
<1>5. CASE ~(Selectable /\ res[c.r].status = "reserved" /\ SameTx(c))
    <2>1. UNCHANGED res
        BY <1>5 DEF RecordSubmitted
    <2>2. RequestsInv'
        BY <1>0, <1>1, <1>3, <2>1, OnlyCallMoves DEF Steady
    <2> QED
        BY <1>1, <2>2 DEF SelectionInv, Steady
<1> QED
    BY <1>4, <1>5

\* Confirm assigns a task that is still selectable to the reservation the chain selected.
LEMMA ConfirmStep ==
    ASSUME SelectionInv, NEW p \in Proc, Confirm(p)
    PROVE  SelectionInv' /\ RecordedSurvives
<1> DEFINE c == call[p]
           row == Moved(c.r, "confirmed", c.tx)
           e == [step |-> "confirmed", r |-> c.r]
<1>0. /\ RegistryInv /\ TaskInv /\ RequestsInv /\ c.step = "selected"
      /\ UNCHANGED <<registryVars, now>> /\ UNCHANGED <<round, sent, overtaken, funding, deposit>>
    BY DEF SelectionInv, Confirm
<1>1. RegistryInv' /\ RegistryGrows
    BY <1>0, RegistryStays
<1>2. c.r \in Lease /\ c.tx \in 0..MaxSends /\ lease[c.r].taken
    BY <1>0, AnsweredCall
<1>3. lease'[c.r].taken
    BY <1>1, <1>2 DEF RegistryGrows
<1>4. Answers(c.r, c.tx)
    BY <1>0 DEF RequestsInv, CallHolds
<1>5. Idle \in CallRow /\ Idle.step = "idle" /\ e \in CallRow /\ e.step = "confirmed" /\ e.r = c.r
    BY <1>2 DEF CallRow, Idle, Releasing
<1>6. CASE Confirmable(c)
    <2>1. /\ res' = [res EXCEPT ![c.r].status = "confirmed", ![c.r].tx = c.tx]
          /\ task' = [task EXCEPT !.status = "assigned"] /\ Goes(p, e)
        BY <1>6 DEF Confirm
    <2>2. row \in ReservationRow /\ row.status = "confirmed" /\ row.address = res[c.r].address /\ row.tx = c.tx
          /\ res' = [res EXCEPT ![c.r] = row]
        <3>1. res[c.r] \in ReservationRow /\ res \in [Lease -> ReservationRow]
            BY <1>0, <1>2, RowMoves
        <3>2. res' = [res EXCEPT ![c.r] = row]
            BY <2>1, <3>1 DEF Moved
        <3> QED
            BY <1>0, <1>2, <3>2, RowMoves
    <2>3. /\ agent.activated /\ res[c.r].address = agent.address
          /\ \A q \in Lease : res[q].status \in Open \cup {"confirmed"} => q = c.r
        BY <1>0, <1>2, <1>6 DEF RequestsInv, ReservationHolds, Confirmable
    <2>4. task.status = "awaiting_selection" /\ ~task.deleting /\ task \in TaskRow
        BY <1>0, <1>6 DEF Confirmable, Selectable, TaskInv, TaskTypeOK
    <2>5. task' \in TaskRow /\ task'.status = "assigned" /\ ~task'.deleting /\ task'.deleted = task.deleted
        BY <2>1, <2>4 DEF TaskRow, Status
    <2>6. TaskInv' /\ RecordedSurvives
        <3>1. funding.status = "confirmed" /\ deposit = "mined"
            BY <1>0, <2>4 DEF TaskInv
        <3>2. TaskInv'
            BY <1>0, <2>5, <3>1, TaskMoves
        <3> QED
            BY <2>5, <3>2 DEF RecordedSurvives
    <2>7. res'[c.r] = row
        BY <1>0, <1>2, <2>2 DEF RequestsInv, SelectionTypeOK, Reservation
    <2>8. \E q \in Lease : res'[q].status = "confirmed"
        BY <1>2, <2>2, <2>7
    <2> HIDE DEF c, row, e
    <2>9. RequestsInv'
        <3>1. PICK r \in Lease, x \in ReservationRow, d \in CallRow : r = c.r /\ x = row /\ d = e
            BY <1>2, <1>5, <2>2
        <3>2. /\ x.status = "confirmed" /\ lease[r].taken /\ res' = [res EXCEPT ![r] = x] /\ Goes(p, d)
              /\ agent.activated /\ x.address = agent.address
              /\ \A q \in Lease : res[q].status \in Open \cup {"confirmed"} => q = r
              /\ Answers(r, x.tx)
              /\ d.step = "confirmed" /\ lease[d.r].taken
            BY <1>2, <1>4, <1>5, <2>1, <2>2, <2>3, <3>1
        <3> QED
            BY <1>0, <2>5, <2>8, <3>2, CallAndReservationMove
    <2> QED
        BY <1>1, <2>6, <2>9 DEF SelectionInv
<1>7. CASE ~Confirmable(c)
    <2>1. UNCHANGED <<res, task>> /\ (Goes(p, e) \/ Goes(p, Idle))
        BY <1>7 DEF Confirm
    <2>2. TaskInv' /\ RecordedSurvives
        BY <1>0, <2>1, TaskStays DEF taskVars
    <2> HIDE DEF c, e
    <2>3. CASE Goes(p, e)
        BY <1>0, <1>1, <1>3, <1>5, <2>1, <2>2, <2>3, OnlyCallMoves DEF SelectionInv
    <2>4. CASE Goes(p, Idle)
        BY <1>0, <1>1, <1>5, <2>1, <2>2, <2>4, OnlyCallMoves DEF SelectionInv
    <2> QED
        BY <2>1, <2>3, <2>4
<1> QED
    BY <1>6, <1>7

\* The lease a request releases is one that was taken, so that the counter is right.
LEMMA ReleaseStep ==
    ASSUME SelectionInv, NEW p \in Proc, Release(p)
    PROVE  SelectionInv' /\ RecordedSurvives
<1> DEFINE c == call[p]
           e == [c EXCEPT !.step = "released"]
<1>0. /\ RegistryInv /\ TaskInv /\ RequestsInv
      /\ c.step \in {"confirmed", "expired", "failed", "compensate"} /\ ReleaseCapacity(c.r)
      /\ UNCHANGED taskVars /\ UNCHANGED <<round, res, sent, overtaken>> /\ UNCHANGED <<task, deposit>>
    BY DEF SelectionInv, Release, taskVars
<1>1. c \in Answered \/ c \in Releasing
    BY <1>0 DEF RequestsInv, CallTypeOK, Idle, Reserving, Answered, Releasing
<1>2. c.r \in Lease /\ lease[c.r].taken
    BY <1>0, <1>1 DEF Answered, Releasing, RequestsInv, CallHolds
<1>3. RegistryInv' /\ RegistryGrows
    BY <1>0, <1>2, ReleaseCapacityStep
<1>4. TaskInv' /\ RecordedSurvives
    BY <1>0, TaskStays
<1>5. CASE c.step = "failed"
    <2>1. Goes(p, e)
        BY <1>5 DEF Release
    <2>2. c \in Answered
        BY <1>1, <1>5 DEF Releasing
    <2>3. e \in Answered /\ e.step = "released" /\ e.r = c.r
        BY <2>2 DEF Answered
    <2>4. e \in CallRow /\ lease'[e.r].taken
        BY <1>2, <1>3, <2>3 DEF CallRow, RegistryGrows
    <2> HIDE DEF c, e
    <2>5. RequestsInv'
        BY <1>0, <1>3, <2>1, <2>3, <2>4, OnlyCallMoves
    <2> QED
        BY <1>3, <1>4, <2>5 DEF SelectionInv
<1>6. CASE c.step # "failed"
    <2>1. Goes(p, Idle)
        BY <1>6 DEF Release
    <2>2. Idle \in CallRow /\ Idle.step = "idle"
        BY DEF CallRow, Idle
    <2>3. RequestsInv'
        BY <1>0, <1>3, <2>1, <2>2, OnlyCallMoves
    <2> QED
        BY <1>3, <1>4, <2>3 DEF SelectionInv
<1> QED
    BY <1>5, <1>6

\* Fail ends a reservation that is open, never one that was confirmed meanwhile.
LEMMA FailStep ==
    ASSUME SelectionInv, NEW p \in Proc, Fail(p)
    PROVE  SelectionInv' /\ RecordedSurvives
<1> DEFINE c == call[p]
           row == Moved(c.r, "failed", c.tx)
<1>0. /\ RequestsInv /\ c.step = "released" /\ Goes(p, Idle)
      /\ UNCHANGED <<registryVars, taskVars, now>> /\ UNCHANGED <<round, sent, overtaken>>
    BY DEF SelectionInv, Fail
<1>1. Steady /\ UNCHANGED <<task, funding, deposit>>
    BY <1>0, Steadies
<1>2. c.r \in Lease /\ c.tx \in 0..MaxSends /\ lease[c.r].taken
    BY <1>0, AnsweredCall
<1>3. Idle \in CallRow /\ Idle.step = "idle"
    BY DEF CallRow, Idle
<1>4. CASE res[c.r].status \in Open /\ SameTx(c)
    <2>1. res' = [res EXCEPT ![c.r].status = "failed", ![c.r].tx = c.tx]
        BY <1>4 DEF Fail
    <2>2. row \in ReservationRow /\ row.status = "failed" /\ res' = [res EXCEPT ![c.r] = row]
        <3>1. res[c.r] \in ReservationRow /\ res \in [Lease -> ReservationRow]
            BY <1>0, <1>2, RowMoves
        <3>2. res' = [res EXCEPT ![c.r] = row]
            BY <2>1, <3>1 DEF Moved
        <3> QED
            BY <1>0, <1>2, <3>2, RowMoves
    <2>3. "failed" \notin Open \cup {"confirmed"}
        BY DEF Open
    <2>4. task'.status = "assigned" => ~task'.deleting /\ \E q \in Lease : res'[q].status = "confirmed"
        <3>1. \A q \in Lease : res[q].status = "confirmed" => res'[q] = res[q]
            BY <1>0, <1>4, <2>2 DEF RequestsInv, SelectionTypeOK, Reservation, Open
        <3> QED
            BY <1>0, <1>1, <3>1 DEF RequestsInv
    <2> HIDE DEF c, row
    <2>5. RequestsInv'
        BY <1>0, <1>1, <1>2, <1>3, <2>2, <2>3, <2>4, CallAndReservationMove
    <2> QED
        BY <1>1, <2>5 DEF SelectionInv, Steady
<1>5. CASE ~(res[c.r].status \in Open /\ SameTx(c))
    <2>1. UNCHANGED res
        BY <1>5 DEF Fail
    <2>2. RequestsInv'
        BY <1>0, <1>1, <1>3, <2>1, OnlyCallMoves DEF Steady
    <2> QED
        BY <1>1, <2>2 DEF SelectionInv, Steady
<1> QED
    BY <1>4, <1>5

\* Expire ends a reservation that is open and goes on to release its lease.
LEMMA ExpireStep ==
    ASSUME SelectionInv, NEW p \in Proc, NEW r \in Lease, Expire(p, r)
    PROVE  SelectionInv' /\ RecordedSurvives
<1> DEFINE row == Moved(r, "expired", res[r].tx)
           e == [step |-> "expired", r |-> r]
<1>0. /\ RequestsInv /\ Goes(p, e) /\ res[r].status \in Open
      /\ UNCHANGED <<registryVars, taskVars, now>> /\ UNCHANGED <<round, sent, overtaken>>
      /\ res' = [res EXCEPT ![r].status = "expired"]
    BY DEF SelectionInv, Expire
<1>1. Steady /\ UNCHANGED <<task, funding, deposit>>
    BY <1>0, Steadies
<1>2. lease[r].taken /\ res[r].tx \in 0..MaxSends
    BY <1>0 DEF RequestsInv, ReservationHolds, Open, SelectionTypeOK, Reservation
<1>3. e \in CallRow /\ e.step = "expired" /\ e.r = r
    BY DEF CallRow, Releasing
<1>4. row \in ReservationRow /\ row.status = "expired" /\ res' = [res EXCEPT ![r] = row]
    <2>1. res[r] \in ReservationRow /\ res \in [Lease -> ReservationRow]
        BY <1>0, <1>2, RowMoves
    <2>2. row = [res[r] EXCEPT !.status = "expired"]
        BY <2>1 DEF Moved, ReservationRow
    <2>3. res' = [res EXCEPT ![r] = row]
        <3>1. res' = [res EXCEPT ![r] = [res[r] EXCEPT !.status = "expired"]]
            BY <1>0, <2>1
        <3> HIDE DEF row
        <3> QED
            BY <2>2, <3>1
    <2>4. row \in ReservationRow /\ row.status = "expired"
        BY <1>0, <1>2, RowMoves
    <2> QED
        BY <2>3, <2>4
<1>5. "expired" \notin Open \cup {"confirmed"}
    BY DEF Open
<1>6. task'.status = "assigned" => ~task'.deleting /\ \E q \in Lease : res'[q].status = "confirmed"
    <2>1. \A q \in Lease : res[q].status = "confirmed" => res'[q] = res[q]
        BY <1>0, <1>4 DEF RequestsInv, SelectionTypeOK, Reservation, Open
    <2> QED
        BY <1>0, <1>1, <2>1 DEF RequestsInv
<1> HIDE DEF row, e
<1>7. RequestsInv'
    BY <1>0, <1>1, <1>2, <1>3, <1>4, <1>5, <1>6, CallAndReservationMove
<1> QED
    BY <1>1, <1>7 DEF SelectionInv, Steady

-----------------------------------------------------------------------------
(* The chain, matching and the clock *)

\* A transaction is sent for an open reservation, and the contract selects once, a task whose
\* deposit it holds.
LEMMA SentMoves ==
    ASSUME RequestsInv, NEW r \in Lease, NEW row \in SentRow, sent' = [sent EXCEPT ![r] = row],
           UNCHANGED <<round, res, call, overtaken, task, deposit>>, RegistryGrows,
           sent[r].state # "selected", res[r].status # "none",
           row.state = "selected" => deposit = "mined"
    PROVE  RequestsInv'
<1>0. sent \in [Lease -> SentRow] /\ SelectionTypeOK
    BY DEF RequestsInv, SelectionTypeOK, SentRow, Reservation
<1>1. sent' \in [Lease -> SentRow] /\ sent'[r] = row /\ \A q \in Lease \ {r} : sent'[q] = sent[q]
    BY <1>0
<1>2. SelectionTypeOK' /\ CallTypeOK'
    BY <1>0, <1>1 DEF RequestsInv, SelectionTypeOK, SentRow, Reservation, CallTypeOK
<1>3. ASSUME NEW p \in Proc
      PROVE  CallHolds(call[p])'
    <2>1. CallHolds(call[p]) /\ call[p] \in CallRow
        BY DEF RequestsInv, CallTypeOK, CallRow
    <2>2. call[p].step # "idle" => call[p].r \in Lease
        BY <2>1 DEF CallRow, Idle, Reserving, Answered, Releasing
    <2>3. call[p].step = "selected" => Answers(call[p].r, call[p].tx)'
        <3>1. call[p].step = "selected" => Answers(call[p].r, call[p].tx) /\ call[p].r \in Lease
            BY <2>1, <2>2 DEF CallHolds
        <3> QED
            BY <1>1, <3>1 DEF Answers
    <2> QED
        BY <1>1, <2>1, <2>2, <2>3 DEF CallHolds, RegistryGrows
<1>4. ASSUME NEW q \in Lease
      PROVE  ReservationHolds(q)' /\ SelectedHolds(q)'
    <2>1. ReservationHolds(q) /\ SelectedHolds(q)
        BY DEF RequestsInv
    <2>2. CASE q = r
        <3>1. res[r].status = "confirmed" => <<r, res[r].tx>> \in overtaken
            BY <2>1, <2>2 DEF SelectedHolds, Answers
        <3> QED
            BY <1>1, <2>1, <2>2, <3>1 DEF ReservationHolds, SelectedHolds, RegistryGrows, Answers
    <2>3. CASE q # r
        <3>1. sent'[q] = sent[q]
            BY <1>1, <2>3
        <3> QED
            BY <2>1, <3>1 DEF ReservationHolds, SelectedHolds, RegistryGrows, Answers
    <2> QED
        BY <2>2, <2>3
<1>5. task'.status = "assigned" => ~task'.deleting /\ \E q \in Lease : res'[q].status = "confirmed"
    BY DEF RequestsInv
<1> QED
    BY <1>2, <1>3, <1>4, <1>5 DEF RequestsInv

\* selectAgent is sent for an open reservation, in place of a transaction that has not selected.
LEMMA SendStep ==
    ASSUME SelectionInv, NEW r \in Lease, Send(r)
    PROVE  SelectionInv' /\ RecordedSurvives
<1> DEFINE row == [tx |-> sent[r].tx + 1, state |-> "pending"]
<1>0. /\ RequestsInv /\ UNCHANGED <<registryVars, taskVars, now>> /\ UNCHANGED <<round, res, call, overtaken>>
      /\ res[r].status \in Open /\ sent[r].state # "selected" /\ sent[r].tx < MaxSends
      /\ sent' = [sent EXCEPT ![r] = [tx |-> @.tx + 1, state |-> "pending"]]
    BY DEF SelectionInv, Send
<1>1. Steady /\ UNCHANGED <<task, funding, deposit>>
    BY <1>0, Steadies
<1>2. sent \in [Lease -> SentRow] /\ sent[r] \in SentRow
    BY <1>0 DEF RequestsInv, SelectionTypeOK, SentRow, Reservation
<1>3. row \in SentRow /\ row.state = "pending" /\ sent' = [sent EXCEPT ![r] = row]
    BY <1>0, <1>2, SelectionTypes DEF SentRow
<1>4. res[r].status # "none"
    BY <1>0 DEF Open
<1> HIDE DEF row
<1>5. RequestsInv'
    BY <1>0, <1>1, <1>3, <1>4, SentMoves DEF Steady
<1> QED
    BY <1>1, <1>5 DEF SelectionInv, Steady

\* The contract answers a pending transaction; it selects only with the deposit in its hands.
LEMMA ResolveStep ==
    ASSUME SelectionInv, NEW r \in Lease, Resolve(r)
    PROVE  SelectionInv' /\ RecordedSurvives
<1>0. /\ RequestsInv /\ UNCHANGED <<registryVars, taskVars, now>> /\ UNCHANGED <<round, res, call, overtaken>>
      /\ sent[r].state = "pending"
    BY DEF SelectionInv, Resolve
<1>1. Steady /\ UNCHANGED <<task, funding, deposit>>
    BY <1>0, Steadies
<1>2. PICK x \in {"failed", "selected"} :
          sent' = [sent EXCEPT ![r].state = x] /\ (x = "selected" => deposit = "mined")
    BY DEF Resolve
<1>3. sent \in [Lease -> SentRow] /\ sent[r] \in SentRow
    BY <1>0 DEF RequestsInv, SelectionTypeOK, SentRow, Reservation
<1> DEFINE row == [sent[r] EXCEPT !.state = x]
<1>4. row \in SentRow /\ row.state = x
    BY <1>3 DEF SentRow
<1>5. sent' = [sent EXCEPT ![r] = row]
    BY <1>2, <1>3
<1>6. res[r].status # "none"
    BY <1>0 DEF RequestsInv, ReservationHolds
<1> HIDE DEF row
<1>7. RequestsInv'
    BY <1>0, <1>1, <1>2, <1>4, <1>5, <1>6, SentMoves DEF Steady
<1> QED
    BY <1>1, <1>7 DEF SelectionInv, Steady

\* A round of matching finds an escrowed task, whose deposit is confirmed.
LEMMA OverviewedStep ==
    ASSUME SelectionInv, Overviewed
    PROVE  SelectionInv' /\ RecordedSurvives
<1>0. /\ RegistryInv /\ TaskInv /\ RequestsInv
      /\ UNCHANGED <<registryVars, now>> /\ UNCHANGED <<funding, deposit>> /\ UNCHANGED <<res, sent, call, overtaken>>
      /\ task.status \in {"escrowed", "awaiting_selection"} /\ round.no < MaxRounds
      /\ round' = [no |-> round.no + 1, price |-> agent.price]
      /\ task' = [task EXCEPT !.status = "awaiting_selection"]
    BY DEF SelectionInv, Overviewed
<1>1. RegistryInv' /\ RegistryGrows
    BY <1>0, RegistryStays
<1>2. task \in TaskRow /\ funding.status = "confirmed" /\ deposit = "mined"
    BY <1>0 DEF TaskInv, TaskTypeOK
<1>3. task' \in TaskRow /\ task'.status = "awaiting_selection" /\ task'.deleted = task.deleted
    BY <1>0, <1>2 DEF TaskRow, Status
<1>4. TaskInv' /\ RecordedSurvives
    <2>1. TaskInv'
        BY <1>0, <1>2, <1>3, TaskMoves
    <2> QED
        BY <1>3, <2>1 DEF RecordedSurvives
<1>5. round \in RoundRow /\ agent.price \in 0..MaxPrices
    BY <1>0 DEF RequestsInv, SelectionTypeOK, RoundRow, RegistryInv, RegistryTypeOK, AgentRow
<1>6. round' \in RoundRow
    BY <1>0, <1>5, SelectionTypes DEF RoundRow
<1>7. SelectionTypeOK' /\ CallTypeOK'
    BY <1>0, <1>6 DEF RequestsInv, SelectionTypeOK, CallTypeOK, RoundRow
<1>8. ASSUME NEW p \in Proc
      PROVE  CallHolds(call[p])'
    <2>1. CallHolds(call[p]) /\ UNCHANGED <<lease>>
        BY <1>0 DEF RequestsInv, registryVars
    <2> QED
        BY <1>0, <2>1 DEF CallHolds, Answers
<1>9. ASSUME NEW r \in Lease
      PROVE  ReservationHolds(r)' /\ SelectedHolds(r)'
    <2>1. ReservationHolds(r) /\ SelectedHolds(r) /\ UNCHANGED <<agent, lease>>
        BY <1>0 DEF RequestsInv, registryVars
    <2> QED
        BY <1>0, <2>1 DEF ReservationHolds, SelectedHolds, Answers
<1>10. RequestsInv'
    BY <1>3, <1>7, <1>8, <1>9 DEF RequestsInv
<1> QED
    BY <1>1, <1>4, <1>10 DEF SelectionInv

\* Blocks that leave the chain take selections with them.  A confirmed reservation whose
\* transaction was selected is orphaned; an answer on its way is overtaken.
LEMMA AnswersTakenBack ==
    ASSUME RequestsInv, NEW R \in SUBSET Lease, SelectionsBack(R)
    PROVE  /\ SelectionTypeOK' /\ UNCHANGED <<round, call>> /\ overtaken \subseteq overtaken'
           /\ \A r \in Lease : /\ res'[r].address = res[r].address /\ res'[r].tx = res[r].tx
                               /\ res'[r].status = (IF r \in R /\ AssignedBy(r) THEN "orphaned" ELSE res[r].status)
                               /\ r \in R => sent'[r].state = "pending"
                               /\ r \notin R => sent'[r] = sent[r]
           /\ \A p \in Proc : call[p].step = "selected" => Answers(call[p].r, call[p].tx)'
<1>0. res \in [Lease -> ReservationRow] /\ sent \in [Lease -> SentRow] /\ UNCHANGED <<round, call>>
    BY DEF RequestsInv, SelectionTypeOK, Reservation, ReservationRow, SentRow, SelectionsBack
<1>1. ASSUME NEW r \in Lease
      PROVE  /\ res'[r] \in ReservationRow /\ res'[r].address = res[r].address /\ res'[r].tx = res[r].tx
             /\ res'[r].status = (IF r \in R /\ AssignedBy(r) THEN "orphaned" ELSE res[r].status)
    <2>1. res[r] \in ReservationRow
        BY <1>0
    <2>2. res'[r] = IF r \in R /\ AssignedBy(r) THEN [res[r] EXCEPT !.status = "orphaned"] ELSE res[r]
        BY DEF SelectionsBack, Reservation
    <2> QED
        BY <2>1, <2>2 DEF ReservationRow
<1>2. ASSUME NEW r \in Lease
      PROVE  /\ sent'[r] \in SentRow
             /\ r \in R => sent'[r].state = "pending"
             /\ r \notin R => sent'[r] = sent[r]
    <2>1. sent[r] \in SentRow
        BY <1>0
    <2>2. sent'[r] = IF r \in R THEN [sent[r] EXCEPT !.state = "pending"] ELSE sent[r]
        BY DEF SelectionsBack, Reservation
    <2> QED
        BY <2>1, <2>2 DEF SentRow
<1>3. overtaken' \subseteq Lease \X (0..MaxSends) /\ overtaken \subseteq overtaken'
    <2>1. overtaken \subseteq Lease \X (0..MaxSends) /\ overtaken \subseteq overtaken'
        BY DEF SelectionsBack, RequestsInv, SelectionTypeOK, Reservation
    <2>2. ASSUME NEW e \in overtaken', e \notin overtaken PROVE e \in Lease \X (0..MaxSends)
        <3>1. PICK r \in R : e = <<r, sent[r].tx>>
            BY <2>2 DEF SelectionsBack
        <3>2. r \in Lease /\ sent[r].tx \in 0..MaxSends
            BY <1>0 DEF SentRow
        <3> QED
            BY <3>1, <3>2
    <2> QED
        BY <2>1, <2>2
<1>4. SelectionTypeOK'
    <2>1. res' \in [Lease -> ReservationRow]
        BY <1>1 DEF SelectionsBack, Reservation
    <2>2. sent' \in [Lease -> SentRow]
        BY <1>2 DEF SelectionsBack, Reservation
    <2> QED
        BY <1>0, <1>3, <2>1, <2>2 DEF RequestsInv, SelectionTypeOK, Reservation, ReservationRow, SentRow
<1>5. ASSUME NEW p \in Proc, call[p].step = "selected"
      PROVE  Answers(call[p].r, call[p].tx)'
    <2>1. /\ Answers(call[p].r, call[p].tx) /\ call'[p] = call[p]
          /\ call[p] \in Answered /\ call[p].r \in Lease
        BY <1>0, <1>5, AnsweredCall DEF RequestsInv, CallHolds
    <2>2. PICK r \in Lease : r = call[p].r
        BY <2>1
    <2>3. call[p] = [step |-> "selected", r |-> r, tx |-> call[p].tx]
        BY <1>5, <2>1, <2>2 DEF Answered
    <2>4. CASE <<r, call[p].tx>> \in overtaken
        BY <1>3, <2>1, <2>2, <2>4 DEF Answers
    <2>5. CASE sent[r] = [tx |-> call[p].tx, state |-> "selected"] /\ r \notin R
        BY <1>2, <2>1, <2>2, <2>5 DEF Answers
    <2>6. CASE sent[r] = [tx |-> call[p].tx, state |-> "selected"] /\ r \in R
        <3>1. call[p] = [step |-> "selected", r |-> r, tx |-> sent[r].tx] /\ sent[r].tx = call[p].tx
            BY <2>3, <2>6
        <3>2. <<r, sent[r].tx>> \in overtaken'
            BY <2>6, <3>1 DEF SelectionsBack
        <3> QED
            BY <2>1, <2>2, <3>1, <3>2 DEF Answers
    <2> QED
        BY <2>1, <2>2, <2>4, <2>5, <2>6 DEF Answers
<1> QED
    BY <1>0, <1>1, <1>2, <1>3, <1>4, <1>5

\* The projector follows a reorganisation: a task keeps its assignment only if neither the
\* deposit nor the selection that made it is taken back.
LEMMA RewindStep ==
    ASSUME SelectionInv, Rewind, UNCHANGED <<registryVars, now>>
    PROVE  SelectionInv' /\ RecordedSurvives
<1>0. RegistryInv /\ TaskInv /\ RequestsInv /\ task \in TaskRow /\ UNCHANGED <<agent, lease>>
    BY DEF SelectionInv, TaskInv, TaskTypeOK, registryVars
<1>1. RegistryInv' /\ RegistryGrows
    BY <1>0, RegistryStays
<1>2. PICK R \in SUBSET Lease :
          /\ SelectionsBack(R) /\ \A r \in R : sent[r].state \in {"failed", "selected"}
          /\ \/ /\ UNCHANGED <<funding, deposit>>
                /\ task' = IF \E r \in R : AssignedBy(r) THEN [task EXCEPT !.status = "chain_reorg_pending"] ELSE task
             \/ Orphaned /\ \A r \in Lease \ R : sent[r].state # "selected"
    BY DEF Rewind, Reservation
<1>3. /\ SelectionTypeOK' /\ UNCHANGED <<round, call>> /\ overtaken \subseteq overtaken'
      /\ \A r \in Lease : /\ res'[r].address = res[r].address /\ res'[r].tx = res[r].tx
                          /\ res'[r].status = (IF r \in R /\ AssignedBy(r) THEN "orphaned" ELSE res[r].status)
                          /\ r \in R => sent'[r].state = "pending"
                          /\ r \notin R => sent'[r] = sent[r]
      /\ \A p \in Proc : call[p].step = "selected" => Answers(call[p].r, call[p].tx)'
    BY <1>0, <1>2, AnswersTakenBack
<1>4. /\ TaskInv' /\ RecordedSurvives
      /\ task'.status = "assigned" => task' = task /\ \A r \in R : ~AssignedBy(r)
      /\ \A r \in Lease \ R : sent[r].state = "selected" => deposit' = "mined"
    <2>1. CASE Orphaned /\ \A r \in Lease \ R : sent[r].state # "selected"
        <3>1. TaskInv' /\ RecordedSurvives
            BY <1>0, <2>1, TakenBackStep
        <3>2. task'.status # "assigned"
            <4>1. deposit = "failed" => task.status # "assigned"
                BY <1>0 DEF TaskInv
            <4> QED
                BY <1>0, <2>1, <4>1 DEF Orphaned, TaskRow
        <3> QED
            BY <2>1, <3>1, <3>2
    <2>2. CASE /\ UNCHANGED <<funding, deposit>>
               /\ task' = IF \E r \in R : AssignedBy(r) THEN [task EXCEPT !.status = "chain_reorg_pending"] ELSE task
        <3>1. \A r \in Lease : sent[r].state = "selected" => deposit = "mined"
            BY <1>0 DEF RequestsInv, SelectedHolds
        <3>2. /\ task' \in TaskRow /\ task'.deleted = task.deleted
              /\ \/ task' = task /\ \A r \in R : ~AssignedBy(r)
                 \/ task'.status = "chain_reorg_pending"
            BY <1>0, <2>2 DEF TaskRow, Status
        <3>3. TaskInv'
            BY <1>0, <2>2, <3>2, TaskMoves DEF TaskInv
        <3> QED
            BY <2>2, <3>1, <3>2, <3>3 DEF RecordedSurvives
    <2> QED
        BY <1>2, <2>1, <2>2
<1>5. CallTypeOK' /\ \A p \in Proc : CallHolds(call[p])'
    <2>1. ASSUME NEW p \in Proc PROVE CallHolds(call[p])'
        <3>1. CallHolds(call[p]) /\ call'[p] = call[p]
            BY <1>0, <1>3 DEF RequestsInv
        <3> QED
            BY <1>0, <1>3, <3>1 DEF CallHolds
    <2> QED
        BY <1>0, <1>3, <2>1 DEF RequestsInv, CallTypeOK
<1>6. ASSUME NEW r \in Lease PROVE ReservationHolds(r)' /\ SelectedHolds(r)'
    <2>1. ReservationHolds(r) /\ SelectedHolds(r)
        BY <1>0 DEF RequestsInv
    <2>2. \A q \in Lease : res'[q].status \in Open \cup {"confirmed"} =>
              res[q].status \in Open \cup {"confirmed"} /\ res'[q].status = res[q].status
        BY <1>3 DEF Open
    <2>3. ReservationHolds(r)'
        <3>1. res'[r].status # "none" => res[r].status # "none"
            BY <1>3 DEF AssignedBy
        <3>2. sent'[r].state # "none" => res'[r].status # "none"
            <4>1. CASE r \in R
                <5>1. sent[r].state # "none"
                    BY <1>2, <4>1
                <5> QED
                    BY <1>3, <2>1, <5>1 DEF ReservationHolds
            <4>2. CASE r \notin R
                BY <1>3, <2>1, <4>2 DEF ReservationHolds
            <4> QED
                BY <4>1, <4>2
        <3> QED
            BY <1>0, <1>3, <2>1, <2>2, <3>1, <3>2 DEF ReservationHolds
    <2>4. SelectedHolds(r)'
        <3>1. sent'[r].state = "selected" => deposit' = "mined"
            BY <1>3, <1>4
        <3>2. ASSUME res'[r].status = "confirmed" PROVE Answers(r, res[r].tx)'
            <4>1. Answers(r, res[r].tx) /\ ~(r \in R /\ AssignedBy(r)) /\ res[r].status = "confirmed"
                BY <1>3, <2>1, <3>2 DEF SelectedHolds
            <4>2. r \in R => <<r, res[r].tx>> \in overtaken
                BY <4>1 DEF AssignedBy, Answers
            <4> QED
                BY <1>3, <4>1, <4>2 DEF Answers
        <3> QED
            BY <1>3, <3>1, <3>2 DEF SelectedHolds, Answers
    <2> QED
        BY <2>3, <2>4
<1>7. ASSUME task'.status = "assigned"
      PROVE  ~task'.deleting /\ \E r \in Lease : res'[r].status = "confirmed"
    <2>1. task' = task /\ \A r \in R : ~AssignedBy(r)
        BY <1>4, <1>7
    <2>2. \A r \in Lease : res'[r].status = res[r].status
        BY <1>3, <2>1
    <2> QED
        BY <1>0, <1>7, <2>1, <2>2 DEF RequestsInv
<1>8. RequestsInv'
    BY <1>3, <1>5, <1>6, <1>7 DEF RequestsInv
<1> QED
    BY <1>1, <1>4, <1>8 DEF SelectionInv

\* Every step keeps the invariant, and a deposit that was recorded.
LEMMA SelectionStep ==
    ASSUME SelectionInv, [Next]_vars
    PROVE  SelectionInv' /\ RecordedSurvives
<1>0. RegistryInv /\ TaskInv /\ RequestsInv
    BY DEF SelectionInv
<1>1. CASE RegistryNext /\ UNCHANGED <<taskVars, selectionVars>>
    <2>1. RegistryInv' /\ RegistryGrows
        BY <1>0, <1>1, ProviderStep
    <2>2. UNCHANGED taskVars /\ UNCHANGED selectionVars /\ UNCHANGED <<task, deposit>>
        BY <1>1 DEF taskVars
    <2>3. TaskInv' /\ RecordedSurvives
        BY <1>0, <2>2, TaskStays
    <2>4. Selected => deposit' = "mined"
        BY <1>0, <2>2 DEF Selected, RequestsInv, SelectedHolds, Reservation
    <2>5. RequestsInv'
        BY <1>0, <2>1, <2>2, <2>4, RequestsStay DEF AssignedStays
    <2> QED
        BY <2>1, <2>3, <2>5 DEF SelectionInv
<1>2. CASE TaskNext /\ UNCHANGED <<registryVars, selectionVars, now>>
    <2>1. RegistryInv' /\ RegistryGrows
        BY <1>0, <1>2, RegistryStays
    <2>2. TaskInv' /\ AssignedStays /\ RecordedSurvives
        BY <1>0, <1>2, TaskStep
    <2>3. Selected => deposit = "mined"
        BY <1>0 DEF Selected, RequestsInv, SelectedHolds, Reservation
    <2>4. Selected => deposit' = "mined"
        BY <1>0, <1>2, <2>3, TaskStep
    <2>5. RequestsInv'
        BY <1>0, <1>2, <2>1, <2>2, <2>4, RequestsStay
    <2> QED
        BY <2>1, <2>2, <2>5 DEF SelectionInv
<1>8. CASE ChainRefunds /\ UNCHANGED <<registryVars, now>>
    <2>1. RegistryInv' /\ RegistryGrows
        BY <1>0, <1>8, RegistryStays
    <2>2. UNCHANGED selectionVars /\ ~Selected /\ ProjectRefund
        BY <1>8 DEF ChainRefunds
    <2>3. TaskInv' /\ AssignedStays /\ RecordedSurvives
        BY <1>0, <2>2, TakenBackStep
    <2>4. RequestsInv'
        BY <1>0, <2>1, <2>2, <2>3, RequestsStay
    <2> QED
        BY <2>1, <2>3, <2>4 DEF SelectionInv
<1>9. CASE Rewind /\ UNCHANGED <<registryVars, now>>
    BY <1>9, RewindStep
<1>3. ASSUME NEW p \in Proc, RequestNext(p)
      PROVE  SelectionInv' /\ RecordedSurvives
    <2>1. CASE \E r \in Reservation : Reserve(p, r) \/ Reconcile(p, r) \/ Expire(p, r)
        BY <2>1, ReserveStep, ReconcileStep, ExpireStep DEF Reservation
    <2>2. CASE TakeLease(p)
        BY <2>2, TakeLeaseStep
    <2>3. CASE LeaseRefused(p) \/ Dies(p)
        BY <2>3, EndsStep
    <2>4. CASE Prepare(p)
        BY <2>4, PrepareStep
    <2>5. CASE RecordSubmitted(p)
        BY <2>5, RecordSubmittedStep
    <2>6. CASE Confirm(p)
        BY <2>6, ConfirmStep
    <2>7. CASE Release(p)
        BY <2>7, ReleaseStep
    <2>8. CASE Fail(p)
        BY <2>8, FailStep
    <2> QED
        BY <1>3, <2>1, <2>2, <2>3, <2>4, <2>5, <2>6, <2>7, <2>8 DEF RequestNext
<1>4. ASSUME NEW r \in Lease, Send(r) \/ Resolve(r)
      PROVE  SelectionInv' /\ RecordedSurvives
    BY <1>4, SendStep, ResolveStep
<1>5. CASE Overviewed
    BY <1>5, OverviewedStep
<1>6. CASE Tick
    <2>1. UNCHANGED registryVars /\ UNCHANGED taskVars /\ UNCHANGED selectionVars
          /\ now < MaxTime /\ now' = now + 1
        BY <1>6 DEF Tick
    <2>2. UNCHANGED <<agent, lease, task, deposit>>
        BY <2>1 DEF registryVars, taskVars
    <2>3. RegistryInv' /\ RegistryGrows
        <3>1. now' \in 1..MaxTime /\ now <= now' /\ agent \in AgentRow
            BY <1>0, <2>1, ClockTypes DEF RegistryInv, RegistryTypeOK
        <3> QED
            BY <1>0, <2>2, <3>1, LeasesStay DEF RegistryInv
    <2>4. TaskInv' /\ RecordedSurvives
        BY <1>0, <2>1, TaskStays
    <2>5. Selected => deposit' = "mined"
        BY <1>0, <2>2 DEF Selected, RequestsInv, SelectedHolds, Reservation
    <2>6. RequestsInv'
        BY <1>0, <2>1, <2>2, <2>3, <2>5, RequestsStay DEF AssignedStays
    <2> QED
        BY <2>3, <2>4, <2>6 DEF SelectionInv
<1>7. CASE UNCHANGED vars
    <2>1. UNCHANGED <<registryVars, now>> /\ UNCHANGED taskVars /\ UNCHANGED selectionVars
          /\ UNCHANGED <<task, deposit>>
        BY <1>7 DEF vars, taskVars
    <2>2. RegistryInv' /\ RegistryGrows
        BY <1>0, <2>1, RegistryStays
    <2>3. TaskInv' /\ RecordedSurvives
        BY <1>0, <2>1, TaskStays
    <2>4. Selected => deposit' = "mined"
        BY <1>0, <2>1 DEF Selected, RequestsInv, SelectedHolds, Reservation
    <2>5. RequestsInv'
        BY <1>0, <2>1, <2>2, <2>4, RequestsStay DEF AssignedStays
    <2> QED
        BY <2>2, <2>3, <2>5 DEF SelectionInv
<1> QED
    BY <1>1, <1>2, <1>3, <1>4, <1>5, <1>6, <1>7, <1>8, <1>9 DEF Next, Reservation

\* A new agent, a draft and no request under way satisfy the invariant.
LEMMA SelectionStarts == Init => SelectionInv
<1> SUFFICES ASSUME Init PROVE SelectionInv
    OBVIOUS
<1> USE ClockTypes, RegistryTypes
<1>0. now = 1 /\ RegistryInit /\ TaskInit
    BY DEF Init
<1>1. RegistryTypeOK /\ agent.status = "draft" /\ agent.counter = 0 /\ agent.limit = 1
    <2>1. agent \in AgentRow /\ agent.status = "draft" /\ agent.counter = 0 /\ agent.limit = 1
        <3>1. agent \in [status : {"draft"}, until : {0}, limit : {1}, counter : {0},
                         activated : {FALSE}, price : {0}, address : Address]
            BY <1>0 DEF RegistryInit
        <3>2. 0 \in 0..(MaxTime + HealthTtl) /\ 1 \in 1..MaxLimit /\ 0 \in 0..MaxPrices /\ 0 \in Nat
            OBVIOUS
        <3> QED
            BY <3>1, <3>2 DEF AgentRow
    <2>2. lease \in [Lease -> LeaseRow]
        BY <1>0 DEF RegistryInit, LeaseRow
    <2> QED
        BY <2>1, <2>2 DEF RegistryTypeOK, LeaseRow
<1>2. RegistryInv
    <2>1. Outstanding = {}
        BY <1>0 DEF RegistryInit, Outstanding
    <2>2. Cardinality(Outstanding) = 0
        BY <2>1, FS_EmptySet
    <2> QED
        BY <1>0, <1>1, <2>2 DEF RegistryInv, CapacityHeld, Outstanding
<1>3. TaskInv
    <2>1. task \in TaskRow /\ task.status = "draft"
        <3>1. task \in [status : {"draft"}, deadline : {d \in Deadlines : d > now}, deleting : {FALSE}, deleted : {FALSE}]
            BY <1>0 DEF TaskInit
        <3> QED
            BY <3>1 DEF TaskRow, Status
    <2> QED
        BY <1>0, <2>1 DEF TaskInit, TaskInv, TaskTypeOK
<1>4. RequestsInv
    <2>1. res = [r \in Lease |-> NoReservation] /\ sent = [r \in Lease |-> [tx |-> 0, state |-> "none"]]
          /\ call = [p \in Proc |-> Idle] /\ round = [no |-> 0, price |-> 0] /\ overtaken = {}
        BY DEF Init, Reservation
    <2>2. NoReservation \in ReservationRow /\ NoReservation.status = "none"
        BY SelectionTypes DEF NoReservation, ReservationRow
    <2>3. sent \in [Lease -> SentRow] /\ round \in RoundRow
        BY <2>1, SelectionTypes DEF SentRow, RoundRow
    <2>4. SelectionTypeOK /\ CallTypeOK
        BY <2>1, <2>2, <2>3
           DEF SelectionTypeOK, CallTypeOK, Reservation, ReservationRow, SentRow, RoundRow
    <2>5. \A p \in Proc : CallHolds(call[p])
        BY <2>1 DEF CallHolds, Idle
    <2>6. \A r \in Lease : ReservationHolds(r) /\ SelectedHolds(r)
        BY <2>1, <2>2 DEF ReservationHolds, SelectedHolds, Open
    <2>7. task.status # "assigned"
        BY <1>0 DEF TaskInit
    <2> QED
        BY <2>4, <2>5, <2>6, <2>7 DEF RequestsInv
<1> QED
    BY <1>2, <1>3, <1>4 DEF SelectionInv

\* The inductive invariant holds of every behaviour.
LEMMA SelectionHolds == Spec => []SelectionInv
<1>1. SelectionInv /\ [Next]_vars => SelectionInv'
    BY SelectionStep
<1> QED
    BY <1>1, SelectionStarts, PTL DEF Spec

-----------------------------------------------------------------------------

\* The agent's row, its leases and what AvailableActions offers agree after any history of
\* commands, reservations, expiries and late or repeated releases.
THEOREM RegistryAlwaysHolds == Spec => []RegistryHolds
<1>1. SelectionInv => RegistryHolds
    BY OffersAreKept DEF SelectionInv, RegistryInv, RegistryHolds
<1> QED
    BY <1>1, SelectionHolds, PTL

\* The address a signed proof pays is the agent's for as long as the proof can be used.
THEOREM PayoutStaysAgents == Spec => []PayoutIsAgents
<1>1. SelectionInv => PayoutIsAgents
    BY DEF SelectionInv, RequestsInv, ReservationHolds, PayoutIsAgents, Reservation
<1> QED
    BY <1>1, SelectionHolds, PTL

\* An assigned task has its deposit and one confirmed reservation, whose transaction is the
\* one selected unless it was taken back with the answer on its way to Confirm.
THEOREM AssignmentAlwaysBacked == Spec => []AssignmentBacked
<1>1. ASSUME SelectionInv PROVE AssignmentBacked
    <2>0. TaskTypeOK /\ SelectionTypeOK /\ RequestsInv /\ TaskInv
        BY <1>1 DEF SelectionInv, TaskInv, RequestsInv
    <2>1. ASSUME task.status = "assigned"
          PROVE  /\ ~task.deleting /\ deposit = "mined" /\ funding.status = "confirmed"
                 /\ \E r \in Reservation :
                        /\ res[r].status = "confirmed"
                        /\ sent[r] = [tx |-> res[r].tx, state |-> "selected"] \/ <<r, res[r].tx>> \in overtaken
                        /\ \A q \in Reservation \ {r} : res[q].status \notin Open \cup {"confirmed"}
        <3>1. funding.status = "confirmed" /\ deposit = "mined" /\ ~task.deleting
            BY <2>0, <2>1 DEF TaskInv, RequestsInv
        <3>2. PICK r \in Lease : res[r].status = "confirmed"
            BY <2>0, <2>1 DEF RequestsInv
        <3>3. ReservationHolds(r) /\ SelectedHolds(r)
            BY <2>0 DEF RequestsInv
        <3>4. sent[r] = [tx |-> res[r].tx, state |-> "selected"] \/ <<r, res[r].tx>> \in overtaken
            BY <3>2, <3>3 DEF SelectedHolds, Answers
        <3>5. \A q \in Lease \ {r} : res[q].status \notin Open \cup {"confirmed"}
            BY <3>2, <3>3 DEF ReservationHolds
        <3> QED
            BY <3>1, <3>2, <3>4, <3>5 DEF Reservation
    <2> QED
        BY <2>0, <2>1 DEF AssignmentBacked
<1> QED
    BY <1>1, SelectionHolds, PTL

\* RequestDelete never makes a task disappear whose recorded deposit a registered transaction
\* can still bring back; only its refund does.
THEOREM RecordedDepositsSurvive == Spec => RecordedDepositSurvives
<1>1. SelectionInv /\ [Next]_vars =>
          [task'.deleted /\ ~task.deleted /\ funding.recorded /\ funding.registered
               /\ deposit \in {"sent", "mined"} => deposit' = "refunded"]_taskVars
    BY SelectionStep DEF RecordedSurvives
<1> QED
    BY <1>1, SelectionHolds, PTL DEF Spec, RecordedDepositSurvives

-----------------------------------------------------------------------------
(* Matching: lists that are sorted and cut *)

\* A set of natural numbers has a least one.
LEMMA Least ==
    ASSUME NEW S, S \subseteq Nat, S # {}
    PROVE  \E x \in S : \A y \in S : x <= y
<1> DEFINE R == OpToRel(<, Nat)
<1>1. IsWellFoundedOn(R, Nat)
  BY NatLessThanWellFounded
<1>2. \A x, y \in Nat : y < x => <<y, x>> \in R
  BY DEF OpToRel
<1> HIDE DEF R
<1>3. PICK x \in S : \A y \in S : ~(<<y, x>> \in R)
  BY <1>1, WFMin
<1>4. ASSUME NEW y \in S PROVE x <= y
  <2>1. ~(y < x)
    BY <1>2, <1>3, Zenon
  <2> QED
    BY <2>1
<1> QED
  BY <1>4

\* R is a strict total order of S.
Orders(R, S) ==
    /\ \A a \in S : <<a, a>> \notin R
    /\ \A a, b, c \in S : <<a, b>> \in R /\ <<b, c>> \in R => <<a, c>> \in R
    /\ \A a, b \in S : a # b => <<a, b>> \in R \/ <<b, a>> \in R

\* The members of S before a, and the first k of S.
Before(R, S, a) == {b \in S : <<b, a>> \in R}
Cut(R, S, k) == {a \in S : Cardinality(Before(R, S, a)) < k}

\* Of two members of a list, the earlier one has fewer before it.
LEMMA EarlierHasFewer ==
    ASSUME NEW S, NEW R, IsFiniteSet(S), Orders(R, S), NEW a \in S, NEW b \in S, <<a, b>> \in R
    PROVE  Cardinality(Before(R, S, a)) < Cardinality(Before(R, S, b))
<1> DEFINE A == Before(R, S, a)
           B == Before(R, S, b)
<1>1. IsFiniteSet(B)
  BY FS_Subset DEF Before
<1>2. A \subseteq B /\ a \in B /\ a \notin A
  BY DEF Before, Orders
<1>3. A \in SUBSET B
  BY <1>2
<1>4. IsFiniteSet(A) /\ Cardinality(A) <= Cardinality(B) /\ (Cardinality(B) = Cardinality(A) => B = A)
  BY <1>1, <1>3, FS_Subset
<1>5. Cardinality(A) \in Nat /\ Cardinality(B) \in Nat
  BY <1>1, <1>4, FS_CardinalityType
<1> HIDE DEF A, B
<1>6. Cardinality(A) # Cardinality(B)
  BY <1>2, <1>4
<1>7. Cardinality(A) < Cardinality(B)
  BY <1>4, <1>5, <1>6
<1> QED
  BY <1>7 DEF A, B

\* A list that is cut after k members has at most k.
LEMMA CutIsBounded ==
    ASSUME NEW S, NEW R, IsFiniteSet(S), Orders(R, S), NEW k \in Nat
    PROVE  IsFiniteSet(Cut(R, S, k)) /\ Cardinality(Cut(R, S, k)) <= k
<1> DEFINE T == Cut(R, S, k)
           f == [a \in T |-> Cardinality(Before(R, S, a))]
           I == 0..(k - 1)
<1>1. \A a \in T : Cardinality(Before(R, S, a)) \in I
  <2> SUFFICES ASSUME NEW a \in T PROVE Cardinality(Before(R, S, a)) \in I
    OBVIOUS
  <2>1. Before(R, S, a) \in SUBSET S
    BY DEF Before
  <2>2. IsFiniteSet(Before(R, S, a))
    BY <2>1, FS_Subset
  <2>3. Cardinality(Before(R, S, a)) \in Nat
    BY <2>2, FS_CardinalityType
  <2>4. Cardinality(Before(R, S, a)) < k
    BY DEF Cut
  <2> QED
    BY <2>3, <2>4
<1>2. ASSUME NEW a \in T, NEW b \in T, f[a] = f[b] PROVE a = b
  <2>1. a \in S /\ b \in S /\ T \subseteq S
    BY DEF Cut
  <2>2. Cardinality(Before(R, S, a)) = Cardinality(Before(R, S, b))
    BY <1>2
  <2>3. Cardinality(Before(R, S, a)) \in Int
    BY <1>1
  <2>4. ~(<<a, b>> \in R) /\ ~(<<b, a>> \in R)
    BY <2>1, <2>2, <2>3, EarlierHasFewer
  <2> QED
    BY <2>1, <2>4 DEF Orders
<1>3. f \in Injection(T, I)
  <2>1. f \in [T -> I]
    BY <1>1
  <2> HIDE DEF f
  <2>2. IsInjective(f)
    BY <2>1, <1>2 DEF IsInjective
  <2> QED
    BY <2>1, <2>2 DEF Injection
<1>4. IsFiniteSet(I) /\ Cardinality(I) = k
  <2>1. 0 \in Int /\ k - 1 \in Int
    OBVIOUS
  <2>2. IsFiniteSet(I) /\ Cardinality(I) = IF 0 > k - 1 THEN 0 ELSE (k - 1) - 0 + 1
    BY <2>1, FS_Interval
  <2> QED
    BY <2>2
<1> HIDE DEF f, I, T
<1>5. IsFiniteSet(T) /\ Cardinality(T) <= Cardinality(I)
  BY <1>3, <1>4, FS_Injection
<1> QED
  BY <1>4, <1>5 DEF T

-----------------------------------------------------------------------------
(* Scores *)
\* The limits and the task's bounds are natural numbers.
LEMMA Limits ==
    /\ Budget \in Nat /\ Deadline \in Nat /\ HealthFreshness \in Nat /\ MaxRecallPerChannel \in Nat
    /\ MaxScoredCandidates \in Nat /\ MaxQualifiedPool \in Nat /\ SelectionLimit \in Nat
    /\ ProviderCap \in Nat /\ ExplorationExposureLimit \in Nat /\ ExplorationSampleLimit \in Nat
    /\ MaxModelDelta \in Nat /\ MaximumScoreGap \in Nat /\ QualificationFloor \in Nat
    /\ MaxModelDelta <= MaximumScoreGap /\ QualificationFloor + MaxModelDelta <= 100
BY MatchingTypes, MatchingLimits

\* A clamped number is within its bounds.
LEMMA ClampTyped ==
    ASSUME NEW v \in Int, NEW low \in Int, NEW high \in Int, low <= high
    PROVE  Clamp(v, low, high) \in low..high
BY DEF Clamp

\* The score of a ratio is an integer, whatever it divides by.
LEMMA RatioTyped ==
    ASSUME NEW n \in Int, NEW k \in Int
    PROVE  RatioScore(n, k) \in Int
<1>1. CASE k <= 0 \/ n <= 0
  BY <1>1 DEF RatioScore
<1>2. CASE ~(k <= 0 \/ n <= 0)
  <2> DEFINE m == Clamp(n, 0, k) * 5 + k \div 2
  <2>1. Clamp(n, 0, k) \in Int
    BY <1>2, ClampTyped
  <2>2. m \in Int /\ k > 0
    BY <2>1, <1>2
  <2> HIDE DEF m
  <2>3. m \div k \in Int
    BY <2>2
  <2>4. RatioScore(n, k) = m \div k
    BY <1>2 DEF RatioScore, m
  <2> QED
    BY <2>3, <2>4
<1> QED
  BY <1>1, <1>2

\* The score of a channel's relevance is an integer.
LEMMA RelevanceTyped ==
    ASSUME NEW S, NEW hits \in [S -> Int], NEW a, NEW m \in Int
    PROVE  WeightedRelevance(hits, a, m) \in Int
<1>1. CASE a \in S
  <2> DEFINE p == hits[a] * m
  <2>1. p \in Int
    BY <1>1
  <2> HIDE DEF p
  <2>2. p \div 10000 \in Int
    BY <2>1
  <2> QED
    BY <1>1, <2>2 DEF WeightedRelevance, p
<1>2. CASE a \notin S
  BY <1>2 DEF WeightedRelevance
<1> QED
  BY <1>1, <1>2

\* The score of a price is an integer, with a budget of zero too.
LEMMA HeadroomTyped ==
    ASSUME NEW price \in Nat
    PROVE  PriceHeadroomScore(price) \in Int
<1>1. CASE price <= Budget /\ Budget # 0
  <2> DEFINE p == (Budget - price) * 5
  <2>1. p \in Int /\ Budget > 0 /\ Budget \in Int
    BY <1>1, Limits
  <2> HIDE DEF p
  <2>2. p \div Budget \in Int
    BY <2>1
  <2> QED
    BY <1>1, <2>2 DEF PriceHeadroomScore, p
<1>2. CASE ~(price <= Budget /\ Budget # 0)
  BY <1>2, Limits DEF PriceHeadroomScore
<1> QED
  BY <1>1, <1>2

\* The score of a duration is an integer.
LEMMA TimeTyped ==
    ASSUME NEW t \in Int, NEW available \in Int
    PROVE  TimeHeadroomScore(t, available) \in Int
<1>1. RatioScore(available - t, available) \in Int
  BY RatioTyped
<1> QED
  BY <1>1 DEF TimeHeadroomScore

\* The score of a reputation is an integer.
LEMMA ReputationTyped ==
    ASSUME NEW r \in [1..5 -> Nat]
    PROVE  ReputationScore(r) \in Int
<1>1. r[1] \in Int /\ r[2] \in Int /\ r[3] \in Int /\ r[4] \in Int /\ r[5] \in Int
  OBVIOUS
<1> QED
  <2>1. \A v \in Int : (v * 5) \div 100 \in Int
    OBVIOUS
  <2> DEFINE q(v) == (v * 5) \div 100
  <2>2. q(r[1]) \in Int /\ q(r[2]) \in Int /\ q(r[3]) \in Int /\ q(r[4]) \in Int /\ q(r[5]) \in Int
    BY <1>1, <2>1
  <2>3. ReputationScore(r) = q(r[1]) + q(r[2]) + q(r[3]) + q(r[4]) + q(r[5])
    BY DEF ReputationScore
  <2> HIDE DEF q
  <2> QED
    BY <2>2, <2>3

\* What a channel returns: the relevance of some agents.
Hits(hits) == \E S \in SUBSET Agent : hits \in [S -> Int]
AgentsTyped == agents \in [Agent -> Candidate]

\* Every channel gives relevances of some of the eligible agents.
LEMMA RecallTyped ==
    ASSUME AgentsTyped, NEW S \in SUBSET Agent, NEW dense \in [Agent -> Int], NEW c \in Channel
    PROVE  Hits(Recall(S, dense)[c])
<1>1. Hits(NormalizeHits(S, dense))
  <2> DEFINE U == {b \in S : dense[b] \in 0..10000}
  <2>1. U \in SUBSET Agent
    OBVIOUS
  <2>2. NormalizeHits(S, dense) = [a \in U |-> dense[a]]
    BY DEF NormalizeHits
  <2> HIDE DEF U
  <2>3. [a \in U |-> dense[a]] \in [U -> Int]
    <3>1. \A a \in U : dense[a] \in Int
      BY <2>1
    <3> QED
      BY <3>1
  <2> QED
    BY <2>1, <2>2, <2>3 DEF Hits
<1>2. Hits(LexicalRecall(S))
  <2> DEFINE U == {b \in S : agents[b].lexical > 0}
  <2>1. U \in SUBSET Agent
    OBVIOUS
  <2>2. \A a \in U : agents[a].lexical \in Int
    BY <2>1 DEF AgentsTyped, Candidate
  <2>3. LexicalRecall(S) = [a \in U |-> agents[a].lexical]
    BY DEF LexicalRecall
  <2> HIDE DEF U
  <2>4. [a \in U |-> agents[a].lexical] \in [U -> Int]
    BY <2>2
  <2> QED
    BY <2>1, <2>3, <2>4 DEF Hits
<1>3. Hits(ExactRecall(S))
  <2>1. ExactRecall(S) \in [S -> Int]
    BY DEF ExactRecall
  <2> QED
    BY <2>1 DEF Hits
<1>4. ASSUME NEW hits, Hits(hits) PROVE Hits(Limited(hits))
  <2>1. PICK T \in SUBSET Agent : hits \in [T -> Int]
    BY <1>4 DEF Hits
  <2>2. DOMAIN Limited(hits) \subseteq T /\ Limited(hits) = [a \in DOMAIN Limited(hits) |-> hits[a]]
    BY <2>1 DEF Limited, FirstOf
  <2> DEFINE U == DOMAIN Limited(hits)
  <2> HIDE DEF U
  <2>3. U \in SUBSET Agent /\ [a \in U |-> hits[a]] \in [U -> Int]
    BY <2>1, <2>2 DEF U
  <2>4. Limited(hits) \in [U -> Int]
    BY <2>2, <2>3 DEF U
  <2> QED
    BY <2>3, <2>4 DEF Hits
<1>5. Recall(S, dense)[c] \in {Limited(NormalizeHits(S, dense)), Limited(LexicalRecall(S)), Limited(ExactRecall(S))}
  BY DEF Recall, Channel
<1> QED
  BY <1>1, <1>2, <1>3, <1>4, <1>5

\* The rule score of an agent is an integer.
LEMMA RuleScoreTyped ==
    ASSUME AgentsTyped, NEW S \in SUBSET Agent, NEW dense \in [Agent -> Int], NEW at \in Int, NEW a \in Agent
    PROVE  RuleScore(a, Recall(S, dense), at) \in Int
<1> DEFINE e == Recall(S, dense)
<1>1. ASSUME NEW c \in Channel, NEW m \in Int PROVE WeightedRelevance(e[c], a, m) \in Int
  <2>1. PICK T \in SUBSET Agent : e[c] \in [T -> Int]
    BY RecallTyped DEF Hits
  <2> HIDE DEF e
  <2> QED
    BY <2>1, RelevanceTyped
<1> HIDE DEF e
<1>2. /\ WeightedRelevance(e["dense"], a, 25) \in Int
      /\ WeightedRelevance(e["lexical"], a, 15) \in Int
      /\ WeightedRelevance(e["exact"], a, 20) \in Int
  <2>1. "dense" \in Channel /\ "lexical" \in Channel /\ "exact" \in Channel
    BY DEF Channel
  <2>2. 25 \in Int /\ 15 \in Int /\ 20 \in Int
    OBVIOUS
  <2> QED
    BY <1>1, <2>1, <2>2
<1>3. /\ agents[a].reputation \in [1..5 -> Nat] /\ agents[a].price \in Nat /\ agents[a].duration \in Int
      /\ agents[a].max \in Nat /\ agents[a].active \in Nat
  BY DEF AgentsTyped, Candidate
<1>4. /\ ReputationScore(agents[a].reputation) \in Int
      /\ PriceHeadroomScore(agents[a].price) \in Int
  BY <1>3, ReputationTyped, HeadroomTyped
<1>5. TimeHeadroomScore(agents[a].duration, Deadline - at) \in Int
  <2>1. Deadline - at \in Int
    BY Limits
  <2> QED
    BY <1>3, <2>1, TimeTyped
<1>6. RatioScore(agents[a].max - agents[a].active, agents[a].max) \in Int
  <2>1. agents[a].max - agents[a].active \in Int /\ agents[a].max \in Int
    BY <1>3
  <2> QED
    BY <2>1, RatioTyped
<1>7. RuleScore(a, e, at) \in Int
  BY <1>2, <1>4, <1>5, <1>6 DEF RuleScore
<1> QED
  BY <1>7 DEF e

\* The model moves a score by at most MaxModelDelta.
LEMMA ModelDeltaBounded ==
    ASSUME NEW rule \in Int, NEW delta \in Int
    PROVE  /\ ApplyModelDelta(rule, delta) \in Int
           /\ rule < QualificationFloor => ApplyModelDelta(rule, delta) - MaximumScoreGap <= QualificationFloor
BY Limits DEF ApplyModelDelta, Clamp

-----------------------------------------------------------------------------
(* Drafts *)
\* Agents are ordered as numbers are.
LEMMA AgentsAreNumbers == \A a \in Agent : a \in Int
<1>1. Cardinality(Agent) \in Nat
  BY MatchingTypes, FS_CardinalityType
<1> QED
  BY <1>1, MatchingTypes

\* The order of hits as a set of pairs.
HitOrder(hits, S) == {p \in S \X S : HitBefore(hits, p[1], p[2])}

\* Hits are sorted by a total order: by relevance, then by agent.
LEMMA HitsAreOrdered ==
    ASSUME NEW S \in SUBSET Agent, NEW hits \in [S -> Int]
    PROVE  /\ Orders(HitOrder(hits, S), S)
           /\ \A a, b \in S : <<a, b>> \in HitOrder(hits, S) <=> HitBefore(hits, a, b)
<1>1. \A a, b \in S : <<a, b>> \in HitOrder(hits, S) <=> HitBefore(hits, a, b)
  <2> SUFFICES ASSUME NEW a \in S, NEW b \in S PROVE <<a, b>> \in HitOrder(hits, S) <=> HitBefore(hits, a, b)
    OBVIOUS
  <2>1. <<a, b>> \in S \X S /\ <<a, b>>[1] = a /\ <<a, b>>[2] = b
    OBVIOUS
  <2> QED
    BY <2>1 DEF HitOrder
<1>2. \A a \in S : a \in Int /\ hits[a] \in Int
  BY AgentsAreNumbers
<1>3. \A a \in S : ~HitBefore(hits, a, a)
  BY <1>2 DEF HitBefore
<1>4. \A a, b, c \in S : HitBefore(hits, a, b) /\ HitBefore(hits, b, c) => HitBefore(hits, a, c)
  <2> SUFFICES ASSUME NEW a \in S, NEW b \in S, NEW c \in S, HitBefore(hits, a, b), HitBefore(hits, b, c)
               PROVE  HitBefore(hits, a, c)
    OBVIOUS
  <2>1. a \in Int /\ b \in Int /\ c \in Int /\ hits[a] \in Int /\ hits[b] \in Int /\ hits[c] \in Int
    BY <1>2
  <2> QED
    BY <2>1 DEF HitBefore
<1>5. \A a, b \in S : a # b => HitBefore(hits, a, b) \/ HitBefore(hits, b, a)
  <2> SUFFICES ASSUME NEW a \in S, NEW b \in S, a # b PROVE HitBefore(hits, a, b) \/ HitBefore(hits, b, a)
    OBVIOUS
  <2>1. a \in Int /\ b \in Int /\ hits[a] \in Int /\ hits[b] \in Int
    BY <1>2
  <2> QED
    BY <2>1 DEF HitBefore
<1> QED
  BY <1>1, <1>3, <1>4, <1>5 DEF Orders

\* There are finitely many agents.
LEMMA AgentsFinite ==
    ASSUME NEW S \in SUBSET Agent
    PROVE  IsFiniteSet(S) /\ Cardinality(S) \in Nat
BY MatchingTypes, FS_Subset, FS_CardinalityType

\* The share of a channel in the fused score is an integer.
LEMMA ReciprocalTyped ==
    ASSUME NEW hits, Hits(hits), NEW a
    PROVE  ReciprocalRank(hits, a) \in Int
<1>1. PICK S \in SUBSET Agent : hits \in [S -> Int]
  BY DEF Hits
<1> DEFINE U == {b \in DOMAIN hits : HitBefore(hits, b, a)}
           n == 61 + Cardinality(U)
<1>2. U \in SUBSET Agent
  BY <1>1
<1>3. Cardinality(U) \in Nat
  BY <1>2, AgentsFinite
<1>4. n \in Nat /\ n > 0
  BY <1>3
<1>5. ReciprocalRank(hits, a) = IF a \in DOMAIN hits THEN 1000000 \div n ELSE 0
  BY DEF ReciprocalRank
<1> HIDE DEF n
<1>6. 1000000 \div n \in Int
  BY <1>4
<1> QED
  BY <1>5, <1>6

\* Fusion keeps at most MaxScoredCandidates agents, of those that a channel found.
LEMMA FusedBounded ==
    ASSUME NEW e, \A c \in Channel : Hits(e[c])
    PROVE  /\ FusedAgentIDs(e) \subseteq Agent
           /\ Cardinality(FusedAgentIDs(e)) <= MaxScoredCandidates
           /\ \A a \in FusedAgentIDs(e) : \E c \in Channel : a \in DOMAIN e[c]
<1> DEFINE S == UNION {DOMAIN e[c] : c \in Channel}
           score == [a \in S |-> ReciprocalRankScore(e, a)]
<1>1. S \in SUBSET Agent
  BY DEF Hits
<1>2. ASSUME NEW a PROVE ReciprocalRankScore(e, a) \in Int
  <2>1. Hits(e["dense"]) /\ Hits(e["lexical"]) /\ Hits(e["exact"])
    BY DEF Channel
  <2>2. /\ ReciprocalRank(e["dense"], a) \in Int /\ ReciprocalRank(e["lexical"], a) \in Int
        /\ ReciprocalRank(e["exact"], a) \in Int
    BY <2>1, ReciprocalTyped
  <2> QED
    BY <2>2 DEF ReciprocalRankScore
<1>3. score \in [S -> Int]
  BY <1>2
<1>4. FusedAgentIDs(e) = {a \in S : Cardinality({b \in S : HitBefore(score, b, a)}) < MaxScoredCandidates}
  BY DEF FusedAgentIDs, FirstOf
<1> HIDE DEF score, S
<1> DEFINE R == HitOrder(score, S)
<1>5. Orders(R, S) /\ \A a, b \in S : <<a, b>> \in R <=> HitBefore(score, a, b)
  BY <1>1, <1>3, HitsAreOrdered
<1> HIDE DEF R
<1>6. \A a \in S : {b \in S : HitBefore(score, b, a)} = Before(R, S, a)
  BY <1>5 DEF Before
<1>7. FusedAgentIDs(e) = Cut(R, S, MaxScoredCandidates)
  BY <1>4, <1>6 DEF Cut
<1>8. IsFiniteSet(S) /\ MaxScoredCandidates \in Nat
  BY <1>1, AgentsFinite, Limits
<1>9. Cardinality(Cut(R, S, MaxScoredCandidates)) <= MaxScoredCandidates
  BY <1>5, <1>8, CutIsBounded
<1> QED
  BY <1>1, <1>4, <1>7, <1>9 DEF S

\* A scored list, whatever else the record holds.
Listed(d) == d.scored \in SUBSET Agent /\ d.rule \in [d.scored -> Int] /\ d.rank \in [d.scored -> Int]

\* The order of a scored list as a set of pairs.
ListOrder(d) == {p \in d.scored \X d.scored : ScoredBefore(d, p[1], p[2])}

\* Scored candidates are sorted by a total order: by rank, rule score and agent.
LEMMA ListIsOrdered ==
    ASSUME NEW d, Listed(d)
    PROVE  /\ Orders(ListOrder(d), d.scored)
           /\ \A a, b \in d.scored : <<a, b>> \in ListOrder(d) <=> ScoredBefore(d, a, b)
<1>1. \A a, b \in d.scored : <<a, b>> \in ListOrder(d) <=> ScoredBefore(d, a, b)
  BY DEF ListOrder
<1>2. \A a \in d.scored : a \in Int /\ d.rank[a] \in Int /\ d.rule[a] \in Int
  BY AgentsAreNumbers DEF Listed
<1>3. \A a \in d.scored : ~ScoredBefore(d, a, a)
  BY <1>2 DEF ScoredBefore
<1>4. \A a, b, c \in d.scored : ScoredBefore(d, a, b) /\ ScoredBefore(d, b, c) => ScoredBefore(d, a, c)
  <2> SUFFICES ASSUME NEW a \in d.scored, NEW b \in d.scored, NEW c \in d.scored, ScoredBefore(d, a, b), ScoredBefore(d, b, c)
               PROVE  ScoredBefore(d, a, c)
    OBVIOUS
  <2>1. /\ a \in Int /\ b \in Int /\ c \in Int
        /\ d.rank[a] \in Int /\ d.rank[b] \in Int /\ d.rank[c] \in Int
        /\ d.rule[a] \in Int /\ d.rule[b] \in Int /\ d.rule[c] \in Int
    BY <1>2
  <2> QED
    BY <2>1 DEF ScoredBefore
<1>5. \A a, b \in d.scored : a # b => ScoredBefore(d, a, b) \/ ScoredBefore(d, b, a)
  <2> SUFFICES ASSUME NEW a \in d.scored, NEW b \in d.scored, a # b PROVE ScoredBefore(d, a, b) \/ ScoredBefore(d, b, a)
    OBVIOUS
  <2>1. /\ a \in Int /\ b \in Int /\ d.rank[a] \in Int /\ d.rank[b] \in Int
        /\ d.rule[a] \in Int /\ d.rule[b] \in Int
    BY <1>2
  <2> QED
    BY <2>1 DEF ScoredBefore
<1> QED
  BY <1>1, <1>3, <1>4, <1>5 DEF Orders

\* The pool is at most MaxQualifiedPool of those within the gap.
LEMMA QualifyBounded ==
    ASSUME NEW d, Listed(d)
    PROVE  /\ Qualify(d) \subseteq WithinGap(d) /\ WithinGap(d) \subseteq d.scored
           /\ Cardinality(Qualify(d)) <= MaxQualifiedPool
<1> DEFINE S == WithinGap(d)
           R == ListOrder(d)
<1>1. S \subseteq d.scored /\ S \in SUBSET Agent
  BY DEF WithinGap, Listed
<1>2. Orders(R, d.scored) /\ \A a, b \in d.scored : <<a, b>> \in R <=> ScoredBefore(d, a, b)
  BY ListIsOrdered
<1>3. Qualify(d) = {a \in S : Cardinality({b \in S : ScoredBefore(d, b, a)}) < MaxQualifiedPool}
  BY DEF Qualify, FirstOf
<1> HIDE DEF R, S
<1>4. Orders(R, S)
  BY <1>1, <1>2 DEF Orders
<1>5. \A a \in S : {b \in S : ScoredBefore(d, b, a)} = Before(R, S, a)
  BY <1>1, <1>2 DEF Before
<1>6. Qualify(d) = Cut(R, S, MaxQualifiedPool)
  BY <1>3, <1>5 DEF Cut
<1>7. IsFiniteSet(S) /\ MaxQualifiedPool \in Nat
  BY <1>1, AgentsFinite, Limits
<1>8. Cardinality(Cut(R, S, MaxQualifiedPool)) <= MaxQualifiedPool
  BY <1>4, <1>7, CutIsBounded
<1> QED
  BY <1>1, <1>3, <1>6, <1>8 DEF S

\* What a frozen draft is: its pool is the qualified of its list, none of whom was excluded,
\* and a candidate below the floor of rule scores was not lifted above the gap.
DraftFits(d) ==
    /\ Listed(d) /\ Cardinality(d.scored) <= MaxScoredCandidates
    /\ d.scored \cap d.excluded = {}
    /\ d.qualified = Qualify(d)
    /\ \A a \in d.scored : d.rule[a] < QualificationFloor => d.rank[a] - MaximumScoreGap <= QualificationFloor

\* A draft that fits passes every validation before it is sealed.
LEMMA FittingIsSealable ==
    ASSUME NEW d, DraftFits(d)
    PROVE  ValidateSnapshotDraft(d) /\ ValidateShuffleInput(d)
<1>1. Qualify(d) \subseteq WithinGap(d) /\ WithinGap(d) \subseteq d.scored
      /\ Cardinality(Qualify(d)) <= MaxQualifiedPool
  BY QualifyBounded DEF DraftFits
<1>2. \A a \in d.qualified : a \in WithinGap(d) /\ a \in d.scored
  BY <1>1 DEF DraftFits
<1>3. ValidateSnapshotDraft(d)
  BY <1>1, <1>2 DEF ValidateSnapshotDraft, DraftFits
<1>4. ASSUME NEW a \in d.qualified PROVE Meets(d, a) /\ \A b \in d.qualified : d.rank[a] >= d.rank[b] - MaximumScoreGap
  <2>1. Meets(d, a) /\ \A b \in d.scored : d.rank[a] >= d.rank[b] - MaximumScoreGap
    BY <1>2 DEF WithinGap
  <2> QED
    BY <1>2, <2>1
<1>5. Cardinality(d.qualified) <= MaxQualifiedPool
  BY <1>1 DEF DraftFits
<1> QED
  BY <1>3, <1>4, <1>5 DEF ValidateShuffleInput

\* Whoever is within the gap of all that qualify, is qualified.
Fair(d) ==
    \A a \in d.scored :
        (/\ Meets(d, a)
         /\ \A b \in d.scored : Meets(d, b) => d.rank[a] >= d.rank[b] - MaximumScoreGap)
            => a \in WithinGap(d)

\* Who fails the floor cannot keep out who meets it.
LEMMA FittingIsFair ==
    ASSUME NEW d, DraftFits(d)
    PROVE  Fair(d)
<1> SUFFICES ASSUME NEW a \in d.scored, Meets(d, a),
                    \A b \in d.scored : Meets(d, b) => d.rank[a] >= d.rank[b] - MaximumScoreGap,
                    NEW b \in d.scored, ~Meets(d, b)
             PROVE  d.rank[a] >= d.rank[b] - MaximumScoreGap
  BY DEF Fair, WithinGap
<1>1. /\ d.rank[a] \in Int /\ d.rank[b] \in Int /\ d.rule[a] \in Int /\ d.rule[b] \in Int
      /\ QualificationFloor \in Nat /\ MaximumScoreGap \in Nat
  BY Limits DEF DraftFits, Listed
<1>2. d.rank[a] >= QualificationFloor
  BY DEF Meets
<1>3. d.rule[b] < QualificationFloor \/ d.rank[b] < QualificationFloor
  BY <1>1 DEF Meets
<1>4. d.rule[b] < QualificationFloor => d.rank[b] - MaximumScoreGap <= QualificationFloor
  BY DEF DraftFits
<1> QED
  BY <1>1, <1>2, <1>3, <1>4

\* A match gives a draft that fits, identified by the rows it was made from.
LEMMA MatchFits ==
    ASSUME AgentsTyped, NEW at \in Int, NEW dense \in [Agent -> Int], NEW delta \in [Agent -> Int]
    PROVE  DraftFits(Match(at, dense, delta)) /\ Match(at, dense, delta).key = EffectiveInput(at)
<1> DEFINE eligible == HardFilter(at)
           e == Recall(eligible, dense)
           scored == FusedAgentIDs(e)
           rule == [a \in scored |-> RuleScore(a, e, at)]
           rank == [a \in scored |-> ApplyModelDelta(rule[a], delta[a])]
           d == [scored |-> scored, rule |-> rule, rank |-> rank]
           D == Match(at, dense, delta)
<1>1. /\ D.key = EffectiveInput(at) /\ D.scored = scored /\ D.rule = rule /\ D.rank = rank
      /\ D.qualified = Qualify(d) /\ D.excluded = Agent \ eligible
  BY DEF Match
<1>2. eligible \in SUBSET Agent
  BY DEF HardFilter
<1>3. \A c \in Channel : Hits(e[c])
  BY <1>2, RecallTyped
<1>4. /\ scored \subseteq Agent /\ Cardinality(scored) <= MaxScoredCandidates
      /\ \A a \in scored : \E c \in Channel : a \in DOMAIN e[c]
  <2> HIDE DEF e
  <2> QED
    BY <1>3, FusedBounded
<1>5. \A c \in Channel : DOMAIN e[c] \subseteq eligible
  <2>1. \A hits : DOMAIN Limited(hits) \subseteq DOMAIN hits
    BY DEF Limited, FirstOf
  <2>2. /\ DOMAIN NormalizeHits(eligible, dense) \subseteq eligible
        /\ DOMAIN LexicalRecall(eligible) \subseteq eligible
        /\ DOMAIN ExactRecall(eligible) \subseteq eligible
    BY DEF NormalizeHits, LexicalRecall, ExactRecall
  <2>3. \A c \in Channel : e[c] \in {Limited(NormalizeHits(eligible, dense)),
                 Limited(LexicalRecall(eligible)), Limited(ExactRecall(eligible))}
    BY DEF Recall, Channel
  <2> HIDE DEF e, eligible
  <2> QED
    BY <2>1, <2>2, <2>3
<1>6. scored \cap (Agent \ eligible) = {}
  BY <1>4, <1>5
<1>7. \A a \in scored : RuleScore(a, e, at) \in Int
  BY <1>2, <1>4, RuleScoreTyped
<1>8. \A a \in scored : rule[a] \in Int /\ delta[a] \in Int
  BY <1>4, <1>7
<1>9. \A a \in scored : /\ ApplyModelDelta(rule[a], delta[a]) \in Int
                        /\ rule[a] < QualificationFloor =>
                              ApplyModelDelta(rule[a], delta[a]) - MaximumScoreGap <= QualificationFloor
  <2> HIDE DEF eligible, e, rule, scored
  <2> SUFFICES ASSUME NEW a \in scored
               PROVE  /\ ApplyModelDelta(rule[a], delta[a]) \in Int
                      /\ rule[a] < QualificationFloor =>
                            ApplyModelDelta(rule[a], delta[a]) - MaximumScoreGap <= QualificationFloor
    OBVIOUS
  <2> DEFINE v == rule[a]
             w == delta[a]
  <2>1. v \in Int /\ w \in Int
    BY <1>8
  <2> HIDE DEF v, w
  <2>2. /\ ApplyModelDelta(v, w) \in Int
        /\ v < QualificationFloor => ApplyModelDelta(v, w) - MaximumScoreGap <= QualificationFloor
    BY <2>1, ModelDeltaBounded
  <2> QED
    BY <2>2 DEF v, w
<1>10. rule \in [scored -> Int]
  BY <1>7
<1>11. rank \in [scored -> Int] /\ \A a \in scored : rank[a] = ApplyModelDelta(rule[a], delta[a])
  <2> HIDE DEF rule, scored
  <2> QED
    BY <1>9
<1> HIDE DEF D, rule, rank, scored, eligible
<1>12. Qualify(d) = Qualify(D)
  <2>1. d.scored = D.scored /\ d.rule = D.rule /\ d.rank = D.rank
    BY <1>1
  <2> HIDE DEF d
  <2>2. WithinGap(d) = WithinGap(D)
    BY <2>1 DEF WithinGap, Meets
  <2>3. \A a, b : ScoredBefore(d, a, b) <=> ScoredBefore(D, a, b)
    BY <2>1 DEF ScoredBefore
  <2> QED
    BY <2>2, <2>3 DEF Qualify, FirstOf
<1>13. Listed(D)
  BY <1>1, <1>4, <1>10, <1>11 DEF Listed
<1>14. \A a \in D.scored : D.rule[a] < QualificationFloor => D.rank[a] - MaximumScoreGap <= QualificationFloor
  BY <1>1, <1>9, <1>11
<1>15. DraftFits(D)
  BY <1>1, <1>4, <1>6, <1>12, <1>13, <1>14 DEF DraftFits
<1> QED
  BY <1>1, <1>15 DEF D

-----------------------------------------------------------------------------
(* Draws *)

\* f starts with first, and each value is a step from the one before.
Follows(f, N, first, step) ==
    f[0] = first /\ \A n \in 1..N : f[n] = step[<<n, f[n - 1]>>]

\* What is defined from its predecessor is defined up to any number.
LEMMA RecursionExists ==
    ASSUME NEW X, NEW first \in X, NEW N \in Nat, NEW step \in [(1..N) \X X -> X]
    PROVE  \E f \in [0..N -> X] : Follows(f, N, first, step)
<1> DEFINE P(m) == \E f \in [0..m -> X] : Follows(f, m, first, step)
           Bad == {m \in 0..N : ~P(m)}
<1>1. ASSUME Bad # {} PROVE FALSE
  <2>1. Bad \subseteq Nat
    OBVIOUS
  <2>2. PICK m \in Bad : \A y \in Bad : m <= y
    <3> HIDE DEF Bad
    <3> QED
      BY <1>1, <2>1, Least
  <2>3. m \in 0..N /\ ~P(m)
    OBVIOUS
  <2>4. m # 0
    <3> DEFINE f == [n \in 0..0 |-> first]
    <3>1. f \in [0..0 -> X] /\ f[0] = first
      OBVIOUS
    <3>2. Follows(f, 0, first, step)
      BY <3>1 DEF Follows
    <3>3. P(0)
      BY <3>1, <3>2
    <3> QED
      BY <2>3, <3>3
  <2>5. m - 1 \in 0..N /\ m - 1 \notin Bad
    <3> HIDE DEF Bad
    <3> QED
      BY <2>2, <2>3, <2>4
  <2>6. P(m - 1)
    BY <2>5
  <2>7. PICK f \in [0..(m - 1) -> X] : Follows(f, m - 1, first, step)
    BY <2>6
  <2> DEFINE g == [n \in 0..m |-> IF n = m THEN step[<<m, f[m - 1]>>] ELSE f[n]]
  <2>8. step[<<m, f[m - 1]>>] \in X
    BY <2>3, <2>4
  <2>9. g \in [0..m -> X]
    BY <2>3, <2>4, <2>8
  <2>10. g[0] = first
    BY <2>3, <2>4, <2>7 DEF Follows
  <2>11. ASSUME NEW n \in 1..m PROVE g[n] = step[<<n, g[n - 1]>>]
    <3>1. CASE n = m
      <4>1. m \in 0..m /\ m - 1 \in 0..m /\ m - 1 # m
        BY <2>3, <2>4
      <4>2. g[m] = step[<<m, f[m - 1]>>] /\ g[m - 1] = f[m - 1]
        BY <4>1
      <4> HIDE DEF g
      <4> QED
        BY <3>1, <4>2
    <3>2. CASE n # m
      BY <2>3, <2>4, <2>7, <3>2 DEF Follows
    <3> QED
      BY <3>1, <3>2
  <2>12. Follows(g, m, first, step)
    BY <2>10, <2>11 DEF Follows
  <2> QED
    BY <2>3, <2>9, <2>12
<1>2. P(N)
  BY <1>1
<1> QED
  BY <1>2

\* The places of the list of agents, and the weight at each.
Places == Cardinality(Agent)
Share(d, S, n) == IF n \in S THEN SelectionWeight(d.rank[n]) ELSE 0

\* f sums the weights of the members of S up to every place.
Sums(f, d, S) ==
    /\ f \in [0..Places -> Int] /\ f[0] = 0
    /\ \A n \in 1..Places : f[n] = f[n - 1] + Share(d, S, n)

\* Agents whose ranks the draft has.
Ranked(d, S) == S \in SUBSET Agent /\ \A a \in S : d.rank[a] \in Int

\* The weight of a number, zero for one that is no member, is an integer.
LEMMA ShareTyped ==
    ASSUME NEW d, NEW S, Ranked(d, S), NEW n
    PROVE  Share(d, S, n) \in Int
BY Limits DEF Share, Ranked, SelectionWeight

\* The weight of a set is the last of the sums of its members' weights.
LEMMA WeightSums ==
    ASSUME NEW d, NEW S, Ranked(d, S)
    PROVE  \E f : Sums(f, d, S) /\ Weight(d, S) = f[Places]
<1> DEFINE step == [p \in (1..Places) \X Int |-> p[2] + Share(d, S, p[1])]
           Is(f) == f = [n \in 0..Places |-> IF n = 0 THEN 0 ELSE f[n - 1] + Share(d, S, n)]
           w == CHOOSE f : Is(f)
<1>1. Places \in Nat
  BY MatchingTypes, FS_CardinalityType DEF Places
<1>2. \A n : Share(d, S, n) \in Int
  BY ShareTyped
<1>3. step \in [(1..Places) \X Int -> Int]
  BY <1>2
<1>4. \A n \in 1..Places, v \in Int : step[<<n, v>>] = v + Share(d, S, n)
  OBVIOUS
<1> HIDE DEF step
<1>5. PICK h \in [0..Places -> Int] : Follows(h, Places, 0, step)
  <2>1. 0 \in Int
    OBVIOUS
  <2> QED
    BY <1>1, <1>3, <2>1, RecursionExists
<1>6. Sums(h, d, S)
  <2>1. ASSUME NEW n \in 1..Places PROVE h[n] = h[n - 1] + Share(d, S, n)
    <3>1. h[n - 1] \in Int
      BY <1>1
    <3> QED
      BY <1>4, <1>5, <3>1 DEF Follows
  <2> QED
    BY <1>5, <2>1 DEF Sums, Follows
<1>7. Is(h)
  <2>1. \A n \in 0..Places : h[n] = IF n = 0 THEN 0 ELSE h[n - 1] + Share(d, S, n)
    BY <1>1, <1>6 DEF Sums
  <2> QED
    BY <2>1
<1>8. Is(w)
  <2> HIDE DEF Is
  <2> QED
    BY <1>7, Zenon
<1>9. w[0] = 0 /\ \A n \in 1..Places : w[n] = w[n - 1] + Share(d, S, n)
  <2> HIDE DEF w
  <2> QED
    BY <1>1, <1>8
<1>10. Weight(d, S) = w[Places]
  BY DEF Weight, Share, Places
<1>11. DOMAIN w = 0..Places /\ w = [n \in 0..Places |-> w[n]]
  <2> HIDE DEF w
  <2> QED
    BY <1>8
<1>12. \A n \in 0..Places : w[n] \in Int
  <2> HIDE DEF w, Is
  <2> DEFINE Bad == {n \in 0..Places : w[n] \notin Int}
  <2>1. ASSUME Bad # {} PROVE FALSE
    <3>1. Bad \subseteq Nat
      BY <1>1
    <3> HIDE DEF Bad
    <3>2. PICK m \in Bad : \A y \in Bad : m <= y
      BY <2>1, <3>1, Least
    <3> USE DEF Bad
    <3>3. m \in 0..Places /\ m # 0 /\ w[m] \notin Int
      BY <1>9
    <3>4. m - 1 \in 0..Places /\ m - 1 \notin Bad
      <4> HIDE DEF Bad
      <4> QED
        BY <1>1, <3>2, <3>3
    <3>5. w[m - 1] \in Int
      BY <3>4
    <3> QED
      BY <1>2, <1>9, <3>3, <3>5
  <2> QED
    BY <2>1
<1>13. Sums(w, d, S)
  <2> HIDE DEF w, Is
  <2> QED
    BY <1>9, <1>11, <1>12 DEF Sums
<1> QED
  BY <1>10, <1>13

\* The weight of the members up to k is the sum up to k.
LEMMA PrefixSum ==
    ASSUME NEW d, NEW S, Ranked(d, S), NEW f, Sums(f, d, S), NEW k \in 0..Places
    PROVE  Weight(d, {b \in S : b <= k}) = f[k]
<1> DEFINE T == {b \in S : b <= k}
           least(n) == IF n <= k THEN n ELSE k
<1>1. Ranked(d, T)
  BY DEF Ranked
<1>2. \A n \in 1..Places : Share(d, T, n) = IF n <= k THEN Share(d, S, n) ELSE 0
  BY DEF Share
<1> HIDE DEF T
<1>3. PICK h : Sums(h, d, T) /\ Weight(d, T) = h[Places]
  BY <1>1, WeightSums
<1>4. Places \in Nat
  BY MatchingTypes, FS_CardinalityType DEF Places
<1> DEFINE Bad == {n \in 0..Places : h[n] # f[least(n)]}
<1>5. ASSUME Bad # {} PROVE FALSE
  <2>1. Bad \subseteq Nat
    BY <1>4
  <2>2. PICK m \in Bad : \A y \in Bad : m <= y
    <3> HIDE DEF Bad
    <3> QED
      BY <1>5, <2>1, Least
  <2>3. m \in 0..Places /\ h[m] # f[least(m)]
    OBVIOUS
  <2>4. m # 0
    BY <1>3, <2>3 DEF Sums
  <2>5. m - 1 \in 0..Places /\ m - 1 \notin Bad
    <3> HIDE DEF Bad
    <3> QED
      BY <1>4, <2>2, <2>3, <2>4
  <2>6. h[m - 1] = f[least(m - 1)]
    BY <2>5
  <2>7. h[m] = h[m - 1] + Share(d, T, m) /\ h[m - 1] \in Int
    BY <1>3, <1>4, <2>3, <2>4 DEF Sums
  <2>8. m <= k => f[m] = f[m - 1] + Share(d, S, m)
    BY <1>4, <2>3, <2>4 DEF Sums
  <2>9. CASE m <= k
    <3>1. least(m) = m /\ least(m - 1) = m - 1
      BY <2>3, <2>9
    <3>2. Share(d, T, m) = Share(d, S, m)
      BY <1>2, <2>3, <2>4, <2>9
    <3> QED
      BY <2>3, <2>6, <2>7, <2>8, <2>9, <3>1, <3>2
  <2>10. CASE ~(m <= k)
    <3>1. least(m) = k /\ least(m - 1) = k
      BY <2>3, <2>10
    <3>2. Share(d, T, m) = 0
      BY <1>2, <2>3, <2>4, <2>10
    <3> QED
      BY <2>3, <2>6, <2>7, <3>1, <3>2
  <2> QED
    BY <2>9, <2>10
<1>6. Places \in 0..Places /\ Places \notin Bad
  BY <1>4, <1>5
<1>7. h[Places] = f[least(Places)] /\ least(Places) = k
  BY <1>4, <1>6
<1> QED
  BY <1>3, <1>7 DEF T

\* A draw below the total weight falls on a member.
LEMMA DrawIsMember ==
    ASSUME NEW d, NEW S, Ranked(d, S), NEW draw \in 0..(Weight(d, S) - 1)
    PROVE  WeightedDraw(d, S, draw) \in S /\ Weight(d, S) \in Int
<1>1. PICK f : Sums(f, d, S) /\ Weight(d, S) = f[Places]
  BY WeightSums
<1>2. Places \in Nat /\ Agent = 1..Places
  BY MatchingTypes, FS_CardinalityType DEF Places
<1>3. Weight(d, S) \in Int /\ draw \in Nat /\ draw < f[Places]
  BY <1>1, <1>2 DEF Sums
<1> DEFINE Over == {n \in 0..Places : draw < f[n]}
<1>4. Over \subseteq Nat /\ Places \in Over
  BY <1>2, <1>3
<1>5. PICK a \in Over : \A y \in Over : a <= y
  <2> HIDE DEF Over
  <2> QED
    BY <1>4, Least
<1>6. a \in 0..Places /\ draw < f[a]
  OBVIOUS
<1>7. a # 0
  BY <1>1, <1>3, <1>6 DEF Sums
<1>8. a - 1 \in 0..Places /\ a - 1 \notin Over
  <2> HIDE DEF Over
  <2> QED
    BY <1>2, <1>5, <1>6, <1>7
<1>9. f[a - 1] \in Int /\ f[a] \in Int /\ f[a] = f[a - 1] + Share(d, S, a)
  BY <1>1, <1>2, <1>6, <1>7 DEF Sums
<1>10. f[a - 1] <= draw
  BY <1>3, <1>8, <1>9
<1>11. a \in S
  BY <1>3, <1>6, <1>9, <1>10 DEF Share
<1>12. Weight(d, {b \in S : b <= a}) = f[a] /\ Weight(d, {b \in S : b <= a - 1}) = f[a - 1]
  BY <1>1, <1>6, <1>8, PrefixSum
<1>13. {b \in S : b <= a - 1} = {b \in S : b < a}
  <2>1. \A b \in S : b \in Int
    BY AgentsAreNumbers DEF Ranked
  <2>2. a \in Int
    BY <1>2, <1>6
  <2>3. \A b \in S : b <= a - 1 <=> b < a
    BY <2>1, <2>2
  <2> QED
    BY <2>3
<1>14. draw < Weight(d, {b \in S : b <= a}) /\ draw >= Weight(d, {b \in S : b < a})
  BY <1>3, <1>6, <1>9, <1>10, <1>12, <1>13
<1> QED
  BY <1>3, <1>11, <1>14 DEF WeightedDraw

-----------------------------------------------------------------------------
(* FairShuffle *)
\* A selection of the panel, and those chosen that share the provider of an agent.
Drawing(d) == [agent : d.qualified, weight : Int, total : Int, exploration : BOOLEAN]

SameProvider(sel, a) == {b \in Chosen(sel) : agents[b].provider = agents[a].provider}

\* A selection under way: none twice, and no provider above its share.
Held(d, sel) ==
    /\ sel \in Seq(Drawing(d))
    /\ \A i, j \in 1..Len(sel) : sel[i].agent = sel[j].agent => i = j
    /\ \A a \in Chosen(sel) : Cardinality(SameProvider(sel, a)) <= ProviderCap

\* The pool is of scored agents, who have weights.
LEMMA PoolTyped ==
    ASSUME NEW d, DraftFits(d)
    PROVE  /\ d.qualified \in SUBSET Agent /\ d.qualified \subseteq d.scored
           /\ \A S \in SUBSET d.qualified : Ranked(d, S)
           /\ \A a \in d.qualified : SelectionWeight(d.rank[a]) \in Int
<1>1. d.qualified \subseteq d.scored
  BY QualifyBounded DEF DraftFits
<1>2. \A a \in d.qualified : d.rank[a] \in Int /\ a \in Agent
  BY <1>1 DEF DraftFits, Listed
<1> QED
  BY <1>1, <1>2, Limits DEF Ranked, SelectionWeight

\* Only members of the pool are chosen.
LEMMA ChosenTyped ==
    ASSUME NEW d, NEW sel \in Seq(Drawing(d))
    PROVE  /\ Chosen(sel) \subseteq d.qualified
           /\ Chosen(sel) = {sel[i].agent : i \in 1..Len(sel)}
<1>1. DOMAIN sel = 1..Len(sel) /\ \A i \in 1..Len(sel) : sel[i] \in Drawing(d)
  OBVIOUS
<1>2. \A i \in 1..Len(sel) : sel[i].agent \in d.qualified
  BY <1>1 DEF Drawing
<1> QED
  BY <1>1, <1>2 DEF Chosen

\* What a draw adds: an agent that was eligible.
LEMMA DrawnIs ==
    ASSUME NEW d, DraftFits(d), NEW sel \in Seq(Drawing(d)), NEW triggered \in BOOLEAN,
           NEW s \in Drawn(d, sel, triggered)
    PROVE  \/ s = sel /\ ProviderEligible(d, sel) = {}
           \/ \E r \in Drawing(d) : s = Append(sel, r) /\ r.agent \in ProviderEligible(d, sel)
<1> DEFINE available == ProviderEligible(d, sel)
           explores == Len(sel) = 2 /\ triggered /\ available \cap d.exploring # {}
           chosenFrom == IF explores THEN available \cap d.exploring ELSE available
           picked == {WeightedDraw(d, chosenFrom, draw) : draw \in 0..(Weight(d, chosenFrom) - 1)}
           R(a) == [agent |-> a, weight |-> SelectionWeight(d.rank[a]),
                    total |-> Weight(d, chosenFrom), exploration |-> explores]
<1>1. Drawn(d, sel, triggered) = IF available = {} THEN {sel} ELSE {Append(sel, R(a)) : a \in picked}
  BY DEF Drawn
<1>2. explores \in BOOLEAN
  OBVIOUS
<1>3. chosenFrom \subseteq available /\ available \subseteq d.qualified
  BY DEF ProviderEligible
<1> HIDE DEF available, explores
<1>4. CASE available = {}
  BY <1>1, <1>4 DEF available
<1>5. CASE available # {}
  <2>1. PICK a \in picked : s = Append(sel, R(a))
    <3> HIDE DEF picked, R
    <3> QED
      BY <1>1, <1>5
  <2>2. PICK draw \in 0..(Weight(d, chosenFrom) - 1) : a = WeightedDraw(d, chosenFrom, draw)
    OBVIOUS
  <2> HIDE DEF chosenFrom
  <2>3. Ranked(d, chosenFrom)
    BY <1>3, PoolTyped
  <2>4. a \in chosenFrom /\ Weight(d, chosenFrom) \in Int
    BY <2>2, <2>3, DrawIsMember
  <2>5. a \in d.qualified /\ a \in available
    BY <1>3, <2>4
  <2>6. SelectionWeight(d.rank[a]) \in Int
    BY <2>5, PoolTyped
  <2>7. R(a) \in Drawing(d) /\ R(a).agent = a
    BY <1>2, <2>4, <2>5, <2>6 DEF Drawing
  <2> HIDE DEF R
  <2> QED
    BY <2>1, <2>5, <2>7 DEF available
<1> QED
  BY <1>4, <1>5

\* A draw keeps a selection in order.
LEMMA DrawnHeld ==
    ASSUME NEW d, DraftFits(d), NEW sel, Held(d, sel), NEW triggered \in BOOLEAN,
           NEW s \in Drawn(d, sel, triggered)
    PROVE  /\ Held(d, s)
           /\ \/ s = sel /\ ProviderEligible(d, sel) = {}
              \/ Len(s) = Len(sel) + 1 /\ ProviderEligible(d, sel) # {}
<1>1. sel \in Seq(Drawing(d))
  BY DEF Held
<1>2. CASE s = sel /\ ProviderEligible(d, sel) = {}
  BY <1>2
<1>3. ASSUME NEW r \in Drawing(d), s = Append(sel, r), r.agent \in ProviderEligible(d, sel)
      PROVE  Held(d, s) /\ Len(s) = Len(sel) + 1
  <2> DEFINE n == Len(sel)
             x == r.agent
  <2>1. s \in Seq(Drawing(d)) /\ Len(s) = n + 1 /\ n \in Nat
    BY <1>1, <1>3
  <2>2. s[n + 1] = r /\ \A i \in 1..n : s[i] = sel[i]
    BY <1>1, <1>3
  <2>3. /\ x \in d.qualified /\ x \notin Chosen(sel)
        /\ Cardinality(SameProvider(sel, x)) < ProviderCap
    BY <1>3 DEF ProviderEligible, SameProvider
  <2>4. Chosen(sel) = {sel[i].agent : i \in 1..n} /\ Chosen(s) = {s[i].agent : i \in 1..(n + 1)}
    BY <1>1, <2>1, ChosenTyped
  <2>5. \A i \in 1..n : sel[i].agent \in Chosen(sel)
    BY <2>4
  <2>6. \A i \in 1..(n + 1) : i \in 1..n \/ i = n + 1
    BY <2>1
  <2>7. Chosen(s) = Chosen(sel) \cup {x}
    <3>1. n + 1 \in 1..(n + 1) /\ \A i \in 1..n : i \in 1..(n + 1)
      BY <2>1
    <3> HIDE DEF n
    <3> QED
      BY <2>2, <2>4, <2>6, <3>1
  <2>8. ASSUME NEW i \in 1..Len(s), NEW j \in 1..Len(s), s[i].agent = s[j].agent PROVE i = j
    <3>1. CASE i \in 1..n /\ j \in 1..n
      BY <2>2, <2>8, <3>1 DEF Held
    <3>2. CASE i \in 1..n /\ j = n + 1
      <4>1. s[i].agent \in Chosen(sel) /\ s[j].agent = x
        BY <2>2, <2>5, <3>2
      <4> QED
        BY <2>3, <2>8, <4>1
    <3>3. CASE i = n + 1 /\ j \in 1..n
      <4>1. s[j].agent \in Chosen(sel) /\ s[i].agent = x
        BY <2>2, <2>5, <3>3
      <4> QED
        BY <2>3, <2>8, <4>1
    <3> QED
      BY <2>1, <2>6, <3>1, <3>2, <3>3
  <2>9. ASSUME NEW a \in Chosen(s) PROVE Cardinality(SameProvider(s, a)) <= ProviderCap
    <3>1. IsFiniteSet(SameProvider(sel, a)) /\ IsFiniteSet(SameProvider(sel, x))
      <4>1. Chosen(sel) \in SUBSET Agent
        BY <1>1, ChosenTyped, PoolTyped
      <4> QED
        BY <4>1, AgentsFinite DEF SameProvider
    <3>2. CASE agents[a].provider = agents[x].provider
      <4>1. SameProvider(s, a) = SameProvider(sel, x) \cup {x}
        BY <2>7, <3>2 DEF SameProvider
      <4>2. x \notin SameProvider(sel, x)
        BY <2>3 DEF SameProvider
      <4>3. Cardinality(SameProvider(s, a)) = Cardinality(SameProvider(sel, x)) + 1
        BY <3>1, <4>1, <4>2, FS_AddElement
      <4>4. Cardinality(SameProvider(sel, x)) \in Nat
        BY <3>1, FS_CardinalityType
      <4> QED
        BY <2>3, <4>3, <4>4, Limits
    <3>3. CASE agents[a].provider # agents[x].provider
      <4>1. SameProvider(s, a) = SameProvider(sel, a) /\ a \in Chosen(sel)
        BY <2>7, <3>3 DEF SameProvider
      <4> QED
        BY <4>1 DEF Held
    <3> QED
      BY <3>2, <3>3
  <2> QED
    BY <2>1, <2>8, <2>9 DEF Held
<1>4. ASSUME NEW r \in Drawing(d), s = Append(sel, r), r.agent \in ProviderEligible(d, sel)
      PROVE  ProviderEligible(d, sel) # {}
  BY <1>4
<1> QED
  BY <1>1, <1>2, <1>3, <1>4, DrawnIs

\* After n draws the selection has n members, or nobody is left to draw.
Filled(d, sel, n) ==
    Held(d, sel) /\ Len(sel) <= n /\ (Len(sel) = n \/ ProviderEligible(d, sel) = {})

\* Every selection that FairShuffle ends with is filled.
LEMMA ShuffleFills ==
    ASSUME NEW d, DraftFits(d), NEW triggered \in BOOLEAN, NEW sel \in FairShuffle(d, triggered)
    PROVE  Filled(d, sel, SelectionLimit)
<1> DEFINE X == SUBSET Seq(Drawing(d))
           G(x) == UNION {Drawn(d, t, triggered) : t \in x}
           step == [p \in (1..SelectionLimit) \X X |-> G(p[2])]
           Is(f) == f = [n \in 0..SelectionLimit |-> IF n = 0 THEN {<<>>} ELSE G(f[n - 1])]
           w == CHOOSE f : Is(f)
<1>1. SelectionLimit \in Nat
  BY Limits
<1>2. \A t \in Seq(Drawing(d)) : Drawn(d, t, triggered) \subseteq Seq(Drawing(d))
  <2> SUFFICES ASSUME NEW t \in Seq(Drawing(d)), NEW s \in Drawn(d, t, triggered) PROVE s \in Seq(Drawing(d))
    OBVIOUS
  <2>1. s = t \/ \E r \in Drawing(d) : s = Append(t, r)
    BY DrawnIs
  <2> QED
    BY <2>1
<1>3. \A x \in X : G(x) \in X
  BY <1>2
<1>4. FairShuffle(d, triggered) = w[SelectionLimit]
  BY DEF FairShuffle
<1> HIDE DEF X
<1>5. {<<>>} \in X
  BY DEF X
<1>6. \A x : G(x) = UNION {Drawn(d, t, triggered) : t \in x}
  OBVIOUS
<1> HIDE DEF G
<1>7. step \in [(1..SelectionLimit) \X X -> X] /\ \A n \in 1..SelectionLimit, x \in X : step[<<n, x>>] = G(x)
  BY <1>3
<1> HIDE DEF step
<1>8. PICK h \in [0..SelectionLimit -> X] : Follows(h, SelectionLimit, {<<>>}, step)
  BY <1>1, <1>5, <1>7, RecursionExists
<1>9. \A n \in 1..SelectionLimit : h[n] = G(h[n - 1])
  <2> SUFFICES ASSUME NEW n \in 1..SelectionLimit PROVE h[n] = G(h[n - 1])
    OBVIOUS
  <2>1. h[n - 1] \in X
    BY <1>1
  <2> QED
    BY <1>7, <1>8, <2>1 DEF Follows
<1>10. Is(h)
  <2>1. \A n \in 0..SelectionLimit : h[n] = IF n = 0 THEN {<<>>} ELSE G(h[n - 1])
    BY <1>1, <1>8, <1>9 DEF Follows
  <2> QED
    BY <2>1
<1>11. Is(w)
  <2> HIDE DEF Is
  <2> QED
    BY <1>10, Zenon
<1> HIDE DEF w
<1>12. w[0] = {<<>>} /\ \A n \in 1..SelectionLimit : w[n] = G(w[n - 1])
  <2>1. \A n \in 0..SelectionLimit : w[n] = IF n = 0 THEN {<<>>} ELSE G(w[n - 1])
    BY <1>11
  <2> HIDE DEF Is
  <2> QED
    BY <1>1, <2>1
<1> HIDE DEF Is
<1> DEFINE Bad == {n \in 0..SelectionLimit : \E t \in w[n] : ~Filled(d, t, n)}
<1>13. ASSUME Bad # {} PROVE FALSE
  <2>1. Bad \subseteq Nat
    BY <1>1
  <2>2. PICK m \in Bad : \A y \in Bad : m <= y
    <3> HIDE DEF Bad
    <3> QED
      BY <1>13, <2>1, Least
  <2>3. m \in 0..SelectionLimit /\ \E t \in w[m] : ~Filled(d, t, m)
    OBVIOUS
  <2>4. m # 0
    <3>1. <<>> \in Seq(Drawing(d)) /\ Len(<<>>) = 0
      OBVIOUS
    <3>2. Chosen(<<>>) = {}
      BY DEF Chosen
    <3>3. Filled(d, <<>>, 0)
      BY <3>1, <3>2 DEF Filled, Held
    <3> QED
      BY <1>12, <2>3, <3>3
  <2>5. m - 1 \in 0..SelectionLimit /\ m - 1 \notin Bad
    <3> HIDE DEF Bad
    <3> QED
      BY <1>1, <2>2, <2>3, <2>4
  <2>6. \A t \in w[m - 1] : Filled(d, t, m - 1)
    BY <2>5
  <2>7. PICK s \in w[m] : ~Filled(d, s, m)
    BY <2>3
  <2>8. PICK t \in w[m - 1] : s \in Drawn(d, t, triggered)
    <3>1. s \in G(w[m - 1])
      BY <1>12, <2>3, <2>4, <2>7
    <3> QED
      BY <1>6, <3>1
  <2>9. Filled(d, t, m - 1) /\ Held(d, t)
    BY <2>6, <2>8 DEF Filled
  <2>10. /\ Held(d, s)
         /\ \/ s = t /\ ProviderEligible(d, t) = {}
            \/ Len(s) = Len(t) + 1 /\ ProviderEligible(d, t) # {}
    BY <2>8, <2>9, DrawnHeld
  <2>11. Len(t) \in Nat /\ m \in Int
    BY <1>1, <2>3, <2>9 DEF Held
  <2>12. Filled(d, s, m)
    BY <2>9, <2>10, <2>11 DEF Filled
  <2> QED
    BY <2>7, <2>12
<1>14. SelectionLimit \in 0..SelectionLimit /\ SelectionLimit \notin Bad
  BY <1>1, <1>13
<1> QED
  BY <1>4, <1>14

-----------------------------------------------------------------------------
(* Panels *)
\* The order of agents as a set of pairs.
Less == {p \in Agent \X Agent : p[1] < p[2]}

\* Agents are ordered by their numbers.
LEMMA LessOrders == ASSUME NEW S \in SUBSET Agent PROVE Orders(Less, S)
<1>1. \A a, b \in S : <<a, b>> \in Less <=> a < b
  BY DEF Less
<1>2. \A a \in S : a \in Int
  BY AgentsAreNumbers
<1> QED
  BY <1>1, <1>2 DEF Orders

\* Every place of a list is somebody's.
LEMMA PlaceIsTaken ==
    ASSUME NEW S, NEW R, IsFiniteSet(S), Orders(R, S), NEW k \in 0..(Cardinality(S) - 1)
    PROVE  \E a \in S : Cardinality(Before(R, S, a)) = k
<1> DEFINE n == Cardinality(S)
           f == [a \in S |-> Cardinality(Before(R, S, a))]
           I == 0..(n - 1)
<1>1. n \in Nat
  BY FS_CardinalityType
<1>2. \A a \in S : Cardinality(Before(R, S, a)) \in I
  <2> SUFFICES ASSUME NEW a \in S PROVE Cardinality(Before(R, S, a)) \in I
    OBVIOUS
  <2> DEFINE B == Before(R, S, a)
  <2>1. B \in SUBSET S /\ a \notin B
    BY DEF Before, Orders
  <2>2. IsFiniteSet(B) /\ Cardinality(B) <= Cardinality(S) /\ (Cardinality(S) = Cardinality(B) => S = B)
    BY <2>1, FS_Subset
  <2>3. Cardinality(B) \in Nat
    BY <2>2, FS_CardinalityType
  <2> HIDE DEF B
  <2>4. Cardinality(B) # Cardinality(S)
    BY <2>1, <2>2
  <2>5. Cardinality(B) \in I
    BY <1>1, <2>2, <2>3, <2>4
  <2> QED
    BY <2>5 DEF B
<1>3. ASSUME NEW a \in S, NEW b \in S, f[a] = f[b] PROVE a = b
  <2>1. Cardinality(Before(R, S, a)) = Cardinality(Before(R, S, b)) /\ Cardinality(Before(R, S, a)) \in Int
    BY <1>2, <1>3
  <2>2. ~(<<a, b>> \in R) /\ ~(<<b, a>> \in R)
    BY <2>1, EarlierHasFewer
  <2> QED
    BY <2>2 DEF Orders
<1>4. f \in Injection(S, I)
  <2>1. f \in [S -> I]
    BY <1>2
  <2> HIDE DEF f
  <2>2. IsInjective(f)
    BY <2>1, <1>3 DEF IsInjective
  <2> QED
    BY <2>1, <2>2 DEF Injection
<1>5. IsFiniteSet(I) /\ Cardinality(I) = n
  <2>1. 0 \in Int /\ n - 1 \in Int
    BY <1>1
  <2> HIDE DEF n
  <2>2. IsFiniteSet(0..(n - 1)) /\ Cardinality(0..(n - 1)) = IF 0 > n - 1 THEN 0 ELSE (n - 1) - 0 + 1
    BY <2>1, FS_Interval
  <2> QED
    BY <1>1, <2>2
<1>6. f \in Surjection(S, I)
  <2> HIDE DEF f, I
  <2> QED
    BY <1>4, <1>5, FS_Injection DEF n
<1>7. \A v \in I : \E a \in S : f[a] = v
  <2> HIDE DEF f, I
  <2> QED
    BY <1>6 DEF Surjection
<1> QED
  BY <1>7

\* The members of C that v gives the value p, and the places of the values in Q, cap of each.
With(C, v, p) == {a \in C : v[a] = p}
Part(Q, v, p) == LET n == Cardinality(With(Q, v, p)) IN IF n < ProviderCap THEN n ELSE ProviderCap
Slots(Q, v) == {t \in {v[a] : a \in Q} \X (1..ProviderCap) : t[2] <= Part(Q, v, t[1])}
Position(C, v, a) == Cardinality(Before(Less, With(C, v, v[a]), a)) + 1

\* The agents of one provider are finitely many, in order.
LEMMA WithFinite ==
    ASSUME NEW C \in SUBSET Agent, NEW v, NEW p
    PROVE  /\ With(C, v, p) \in SUBSET Agent /\ IsFiniteSet(With(C, v, p))
           /\ Cardinality(With(C, v, p)) \in Nat /\ Orders(Less, With(C, v, p))
<1>1. With(C, v, p) \in SUBSET Agent
  BY DEF With
<1> QED
  BY <1>1, AgentsFinite, LessOrders

\* A part of the pool has no more agents of a provider than the pool.
LEMMA PartBounds ==
    ASSUME NEW C \in SUBSET Agent, NEW Q \in SUBSET Agent, C \subseteq Q, NEW v, NEW p
    PROVE  /\ Cardinality(With(C, v, p)) <= Cardinality(With(Q, v, p))
           /\ Part(Q, v, p) \in Nat /\ Part(Q, v, p) <= ProviderCap
           /\ Part(Q, v, p) <= Cardinality(With(Q, v, p))
           /\ Cardinality(With(C, v, p)) <= ProviderCap => Cardinality(With(C, v, p)) <= Part(Q, v, p)
<1>1. With(C, v, p) \in SUBSET With(Q, v, p)
  BY DEF With
<1>2. Cardinality(With(C, v, p)) \in Nat /\ Cardinality(With(Q, v, p)) \in Nat /\ IsFiniteSet(With(Q, v, p))
  BY WithFinite
<1>3. Cardinality(With(C, v, p)) <= Cardinality(With(Q, v, p))
  BY <1>1, <1>2, FS_Subset
<1> QED
  BY <1>2, <1>3, Limits DEF Part

\* There are finitely many places.
LEMMA SlotsFinite ==
    ASSUME NEW Q \in SUBSET Agent, NEW v
    PROVE  IsFiniteSet(Slots(Q, v)) /\ Cardinality(Slots(Q, v)) \in Nat
<1> DEFINE V == {v[a] : a \in Q}
           f == [a \in Q |-> v[a]]
<1>1. IsFiniteSet(Q)
  BY AgentsFinite
<1>2. f \in Surjection(Q, V)
  BY DEF Surjection
<1>3. IsFiniteSet(V)
  <2> HIDE DEF f, V
  <2> QED
    BY <1>1, <1>2, FS_Surjection
<1>4. IsFiniteSet(1..ProviderCap)
  <2>1. 1 \in Int /\ ProviderCap \in Int
    BY Limits
  <2> QED
    BY <2>1, FS_Interval
<1>5. IsFiniteSet(V \X (1..ProviderCap))
  BY <1>3, <1>4, FS_Product
<1>6. Slots(Q, v) \in SUBSET (V \X (1..ProviderCap))
  BY DEF Slots
<1>7. IsFiniteSet(Slots(Q, v))
  BY <1>5, <1>6, FS_Subset
<1> QED
  BY <1>7, FS_CardinalityType

\* A panel that no provider exceeds its share of has at most the places of the pool, and has
\* them all if everybody else is of a provider that has its share.
LEMMA PanelCounts ==
    ASSUME NEW Q \in SUBSET Agent, NEW C \in SUBSET Agent, C \subseteq Q, NEW v,
           \A a \in C : Cardinality(With(C, v, v[a])) <= ProviderCap
    PROVE  /\ Cardinality(C) <= Cardinality(Slots(Q, v))
           /\ (\A a \in Q \ C : ~(Cardinality(With(C, v, v[a])) < ProviderCap))
                 => Cardinality(C) = Cardinality(Slots(Q, v))
<1> DEFINE f == [a \in C |-> <<v[a], Position(C, v, a)>>]
           T == Slots(Q, v)
<1>1. IsFiniteSet(T) /\ Cardinality(T) \in Nat
  BY SlotsFinite
<1>2. ASSUME NEW a \in C
      PROVE  /\ Position(C, v, a) \in 1..ProviderCap
             /\ Position(C, v, a) <= Part(Q, v, v[a])
  <2> DEFINE W == With(C, v, v[a])
             B == Before(Less, W, a)
  <2>1. W \in SUBSET Agent /\ IsFiniteSet(W) /\ Cardinality(W) \in Nat /\ Orders(Less, W) /\ a \in W
    BY WithFinite DEF With
  <2> HIDE DEF W
  <2>2. B \in SUBSET W /\ a \notin B
    BY <2>1 DEF Before, Orders
  <2>3. IsFiniteSet(B) /\ Cardinality(B) <= Cardinality(W) /\ (Cardinality(W) = Cardinality(B) => W = B)
    BY <2>1, <2>2, FS_Subset
  <2>4. Cardinality(B) \in Nat
    BY <2>3, FS_CardinalityType
  <2>5. Position(C, v, a) = Cardinality(B) + 1
    BY DEF Position, W
  <2> HIDE DEF B
  <2>6. Cardinality(B) # Cardinality(W)
    BY <2>1, <2>2, <2>3
  <2>7. Cardinality(W) <= ProviderCap /\ Cardinality(W) <= Part(Q, v, v[a])
    BY PartBounds DEF W
  <2>8. Part(Q, v, v[a]) \in Nat /\ ProviderCap \in Nat
    BY PartBounds, Limits
  <2> QED
    BY <2>1, <2>3, <2>4, <2>5, <2>6, <2>7, <2>8
<1>3. \A a \in C : <<v[a], Position(C, v, a)>> \in T
  BY <1>2 DEF Slots
<1>4. ASSUME NEW a \in C, NEW b \in C, f[a] = f[b] PROVE a = b
  <2> DEFINE W == With(C, v, v[a])
  <2>1. v[a] = v[b] /\ Position(C, v, a) = Position(C, v, b)
    BY <1>4
  <2>2. W \in SUBSET Agent /\ IsFiniteSet(W) /\ Orders(Less, W) /\ a \in W /\ b \in W
    BY <2>1, WithFinite DEF With
  <2>3. /\ Position(C, v, a) = Cardinality(Before(Less, W, a)) + 1
        /\ Position(C, v, b) = Cardinality(Before(Less, W, b)) + 1
    BY <2>1 DEF Position
  <2> HIDE DEF W
  <2>4. Cardinality(Before(Less, W, a)) \in Nat /\ Cardinality(Before(Less, W, b)) \in Nat
    <3>1. Before(Less, W, a) \in SUBSET Agent /\ Before(Less, W, b) \in SUBSET Agent
      BY <2>2 DEF Before
    <3> QED
      BY <3>1, AgentsFinite
  <2>5. Cardinality(Before(Less, W, a)) = Cardinality(Before(Less, W, b))
    <3> DEFINE x == Cardinality(Before(Less, W, a))
               y == Cardinality(Before(Less, W, b))
    <3>1. x \in Nat /\ y \in Nat /\ x + 1 = y + 1
      BY <2>1, <2>3, <2>4
    <3> HIDE DEF x, y
    <3>2. x = y
      BY <3>1
    <3> QED
      BY <3>2 DEF x, y
  <2>6. ~(<<a, b>> \in Less) /\ ~(<<b, a>> \in Less)
    BY <2>2, <2>4, <2>5, EarlierHasFewer
  <2> QED
    BY <2>2, <2>6 DEF Orders
<1>5. f \in [C -> T]
  BY <1>3
<1>6. f \in Injection(C, T)
  <2> HIDE DEF f, T
  <2>1. IsInjective(f)
    BY <1>4, <1>5 DEF IsInjective
  <2> QED
    BY <1>5, <2>1 DEF Injection
<1>7. Cardinality(C) <= Cardinality(T) /\ (Cardinality(C) = Cardinality(T) <=> f \in Surjection(C, T))
  <2> HIDE DEF f, T
  <2> QED
    BY <1>1, <1>6, FS_Injection
<1>8. ASSUME \A a \in Q \ C : ~(Cardinality(With(C, v, v[a])) < ProviderCap)
      PROVE  Cardinality(C) = Cardinality(T)
  <2>1. ASSUME NEW t \in T PROVE \E a \in C : f[a] = t
    <3> DEFINE p == t[1]
               W == With(C, v, p)
               M == With(Q, v, p)
    <3>1. /\ t = <<p, t[2]>> /\ t[2] \in 1..ProviderCap /\ t[2] <= Part(Q, v, p)
          /\ \E a \in Q : v[a] = p
      BY DEF Slots
    <3>2. /\ W \in SUBSET Agent /\ IsFiniteSet(W) /\ Cardinality(W) \in Nat /\ Orders(Less, W)
          /\ Cardinality(M) \in Nat
      BY WithFinite
    <3>3. Part(Q, v, p) \in Nat /\ Part(Q, v, p) <= Cardinality(M) /\ Part(Q, v, p) <= ProviderCap
      BY PartBounds
    <3>4. t[2] <= Cardinality(W)
      <4>1. CASE Cardinality(W) < ProviderCap
        <5>1. \A a \in Q : v[a] = p => a \in C
          BY <1>8, <4>1
        <5>2. W = M
          BY <5>1 DEF With
        <5> HIDE DEF W, M, p
        <5> QED
          BY <3>1, <3>2, <3>3, <5>2
      <4>2. CASE ~(Cardinality(W) < ProviderCap)
        <5> HIDE DEF W, M, p
        <5> QED
          BY <3>1, <3>2, <3>3, <4>2, Limits
      <4> QED
        BY <4>1, <4>2
    <3>5. t[2] - 1 \in 0..(Cardinality(W) - 1)
      <4> HIDE DEF W, M, p
      <4> QED
        BY <3>1, <3>2, <3>4, Limits
    <3>6. PICK a \in W : Cardinality(Before(Less, W, a)) = t[2] - 1
      <4> HIDE DEF W
      <4> QED
        BY <3>2, <3>5, PlaceIsTaken
    <3>7. a \in C /\ v[a] = p
      BY DEF With
    <3>8. Position(C, v, a) = (t[2] - 1) + 1
      BY <3>6, <3>7 DEF Position
    <3>9. Position(C, v, a) = t[2]
      <4> HIDE DEF W, M, p
      <4> QED
        BY <3>1, <3>8, Limits
    <3> QED
      BY <3>1, <3>7, <3>9
  <2>2. f \in Surjection(C, T)
    <3> HIDE DEF f, T
    <3> QED
      BY <1>5, <2>1 DEF Surjection
  <2> QED
    BY <1>7, <2>2
<1> QED
  BY <1>7, <1>8

-----------------------------------------------------------------------------
(* The snapshots of a task *)
\* A list, of whatever.
IsSequence(s) == \E S : s \in Seq(S)

\* A draft remembers the providers that agents have.
Remembers(d) == \A a \in Agent : d.key[2][a].provider = agents[a].provider

\* A panel is full, of the pool of the draft and the providers of the key.
Panel(s, d) ==
    LET provider(a) == s.key[2][a].provider
        share(p) == LET n == Cardinality({a \in d.qualified : provider(a) = p})
                    IN  IF n < ProviderCap THEN n ELSE ProviderCap
        places == {t \in {provider(a) : a \in d.qualified} \X (1..ProviderCap) : t[2] <= share(t[1])}
    IN  /\ Cardinality(Chosen(s.sel)) = Len(s.sel)
        /\ Len(s.sel) = IF Cardinality(places) < SelectionLimit THEN Cardinality(places) ELSE SelectionLimit
        /\ \A a \in Chosen(s.sel) :
              Cardinality({b \in Chosen(s.sel) : provider(b) = provider(a)}) <= ProviderCap

\* The drafts fit the agents, and the snapshots fit the drafts.
DraftHolds(d) == DraftFits(d) /\ Remembers(d)
DraftsFit == \A o \in Op : draft[o] # <<>> => DraftHolds(draft[o][1])
PanelFits(s) == s.by \in Op /\ draft[s.by] # <<>> /\ Panel(s, draft[s.by][1])
PanelsFit == \A i \in DOMAIN snapshots : PanelFits(snapshots[i])

\* The inductive invariant of matching.
MatchingInv ==
    /\ AgentsTyped /\ now \in Int
    /\ evaluated \in [Op -> Int] /\ DOMAIN draft = Op
    /\ exposure \in [Agent -> Int] /\ IsSequence(snapshots)
    /\ DraftsFit /\ PanelsFit /\ ExposureExact

\* What the other steps leave: the provider of an agent, and how often it was shown before.
RowsKept == /\ AgentsTyped'
            /\ \A a \in Agent : agents'[a].provider = agents[a].provider /\ agents'[a].exposed = agents[a].exposed

\* Work elsewhere changes neither providers nor earlier exposure.
LEMMA LoadKeepsRows == ASSUME AgentsTyped, NEW a \in Agent, LoadChanges(a) PROVE RowsKept
<1>1. PICK n \in 0..agents[a].max : agents' = [agents EXCEPT ![a].active = n]
  BY DEF LoadChanges
<1>2. agents[a] \in Candidate /\ n \in Nat
  BY DEF AgentsTyped, Candidate
<1>3. [agents[a] EXCEPT !.active = n] \in Candidate
  BY <1>2 DEF Candidate
<1>4. /\ [agents[a] EXCEPT !.active = n].provider = agents[a].provider
      /\ [agents[a] EXCEPT !.active = n].exposed = agents[a].exposed
  BY <1>2 DEF Candidate
<1>5. agents' = [agents EXCEPT ![a] = [agents[a] EXCEPT !.active = n]]
  BY <1>1
<1> DEFINE row == [agents[a] EXCEPT !.active = n]
<1> HIDE DEF row
<1> QED
  BY <1>3, <1>4, <1>5 DEF RowsKept, AgentsTyped, row

\* A judgement changes neither providers nor earlier exposure.
LEMMA AuthorityKeepsRows == ASSUME AgentsTyped, NEW a \in Agent, UpdateMatchingAuthority(a) PROVE RowsKept
<1>1. PICK j \in Judgement : agents' = [agents EXCEPT ![a].fits = j.fits, ![a].reputation = j.reputation]
  BY DEF UpdateMatchingAuthority
<1>2. j.fits \in BOOLEAN /\ j.reputation \in [1..5 -> Nat] /\ agents[a] \in Candidate
  BY MatchingTypes DEF AgentsTyped
<1> DEFINE row == [agents[a] EXCEPT !.fits = j.fits, !.reputation = j.reputation]
<1>3. row \in Candidate /\ row.provider = agents[a].provider /\ row.exposed = agents[a].exposed
  BY <1>2 DEF Candidate
<1>4. agents' = [agents EXCEPT ![a] = row]
  BY <1>1 DEF AgentsTyped
<1> HIDE DEF row
<1> QED
  BY <1>3, <1>4 DEF RowsKept, AgentsTyped

\* While nothing is sealed the exposure stays exact.
LEMMA RowsKeptHold ==
    ASSUME MatchingInv, RowsKept, exposure' = exposure, snapshots' = snapshots
    PROVE  ExposureExact'
BY DEF MatchingInv, RowsKept, ExposureExact

\* The invariant holds before anything was matched.
LEMMA MatchingInitInv == MatchingInit => MatchingInv
<1> SUFFICES ASSUME MatchingInit PROVE MatchingInv
  OBVIOUS
<1>1. AgentsTyped
  <2>1. agents \in [Agent -> UNION {Profile(a) : a \in Agent}] /\ \A a \in Agent : agents[a] \in Profile(a)
    BY DEF MatchingInit
  <2> QED
    BY <2>1, ProfileTypes DEF AgentsTyped
<1>2. now = 0 /\ evaluated = [o \in Op |-> None] /\ draft = [o \in Op |-> <<>>] /\ snapshots = <<>>
      /\ exposure = [a \in Agent |-> agents[a].exposed]
  BY DEF MatchingInit
<1>3. \A a \in Agent : agents[a].exposed \in Nat
  BY <1>1 DEF AgentsTyped, Candidate
<1>4. exposure \in [Agent -> Int] /\ \A a \in Agent : exposure[a] = agents[a].exposed
  BY <1>2, <1>3
<1>5. evaluated \in [Op -> Int] /\ DOMAIN draft = Op /\ \A o \in Op : draft[o] = <<>>
  BY <1>2 DEF None
<1>6. DOMAIN snapshots = {} /\ IsSequence(snapshots)
  <2>1. snapshots \in Seq({})
    BY <1>2
  <2> QED
    BY <1>2, <2>1 DEF IsSequence
<1>7. ExposureExact
  <2>1. \A a \in Agent : {i \in DOMAIN snapshots : a \in Chosen(snapshots[i].sel)} = {}
    BY <1>6
  <2> QED
    BY <1>3, <1>4, <1>6, <2>1, FS_EmptySet DEF ExposureExact
<1> QED
  BY <1>1, <1>2, <1>4, <1>5, <1>6, <1>7 DEF MatchingInv, DraftsFit, PanelsFit

\* A draft is written once.
DraftsKept == \A o \in Op : draft[o] # <<>> => draft'[o] = draft[o]

\* A full panel stays one, because its draft stays.
LEMMA PanelKept ==
    ASSUME DraftsKept, NEW s, PanelFits(s)
    PROVE  PanelFits(s)'
<1>1. s.by \in Op /\ draft[s.by] # <<>> /\ draft'[s.by] = draft[s.by] /\ Panel(s, draft[s.by][1])
  BY DEF DraftsKept, PanelFits
<1>2. Panel(s, draft'[s.by][1])
  BY <1>1
<1> QED
  BY <1>1, <1>2 DEF PanelFits

\* All panels stay full while no revision is created.
LEMMA PanelsKept ==
    ASSUME MatchingInv, DraftsKept, snapshots' = snapshots
    PROVE  PanelsFit'
<1> SUFFICES ASSUME NEW i \in DOMAIN snapshots
             PROVE  PanelFits(snapshots[i])'
  BY DEF PanelsFit
<1>1. PICK s : s = snapshots[i]
  OBVIOUS
<1>2. PanelFits(s)'
  BY <1>1, PanelKept DEF MatchingInv, PanelsFit
<1>3. s = snapshots'[i]
  BY <1>1
<1> QED
  BY <1>2, <1>3 DEF PanelFits

\* A draft that fits, fits in every later state.
LEMMA DraftsKeptFit ==
    ASSUME RowsKept, \A o \in Op : draft'[o] # <<>> => DraftHolds(draft'[o][1])
    PROVE  DraftsFit'
<1> SUFFICES ASSUME NEW o \in Op, draft'[o] # <<>>
             PROVE  DraftHolds(draft[o][1])'
  BY DEF DraftsFit
<1>1. PICK d : d = draft'[o][1]
  OBVIOUS
<1>2. DraftFits(d) /\ Remembers(d)
  BY <1>1 DEF DraftHolds
<1>3. \A a \in Agent : d.key[2][a].provider = agents'[a].provider
  BY <1>2 DEF Remembers, RowsKept
<1>4. DraftFits(draft[o][1])'
  BY <1>1, <1>2
<1>5. Remembers(draft[o][1])'
  BY <1>1, <1>3 DEF Remembers
<1> QED
  BY <1>4, <1>5 DEF DraftHolds

\* What a step does that seals nothing.
LEMMA UnsealedKept ==
    ASSUME MatchingInv, RowsKept, UNCHANGED <<draft, snapshots, exposure>>, now' \in Int, evaluated' \in [Op -> Int]
    PROVE  MatchingInv'
<1>1. DraftsFit'
  <2>1. \A o \in Op : draft'[o] # <<>> => DraftHolds(draft'[o][1])
    BY DEF MatchingInv, DraftsFit
  <2> QED
    BY <2>1, DraftsKeptFit
<1>2. PanelsFit'
  BY PanelsKept DEF DraftsKept
<1>3. ExposureExact'
  BY RowsKeptHold
<1> QED
  BY <1>1, <1>2, <1>3 DEF MatchingInv, RowsKept, IsSequence

\* FreezeDraft keeps the invariant: what it freezes fits.
LEMMA FreezeKeeps ==
    ASSUME MatchingInv, NEW o \in Op, FreezeDraft(o)
    PROVE  MatchingInv'
<1>1. PICK dense \in Dense, delta \in Delta :
          draft' = [draft EXCEPT ![o] = <<Match(evaluated[o], dense, delta)>>]
  BY DEF FreezeDraft
<1>2. dense \in [Agent -> Int] /\ delta \in [Agent -> Int]
  BY MatchingTypes
<1>3. evaluated[o] \in Int /\ AgentsTyped /\ DOMAIN draft = Op /\ draft[o] = <<>>
  BY DEF MatchingInv, FreezeDraft
<1> DEFINE d == Match(evaluated[o], dense, delta)
<1>4. DraftFits(d) /\ d.key = EffectiveInput(evaluated[o])
  BY <1>2, <1>3, MatchFits
<1>5. d.key[2] = agents
  BY <1>4 DEF EffectiveInput
<1>6. Remembers(d)
  BY <1>5 DEF Remembers
<1>7. PICK x : x = d
  OBVIOUS
<1> HIDE DEF d
<1>8. DOMAIN draft' = Op /\ draft'[o] = <<x>> /\ \A p \in Op : p # o => draft'[p] = draft[p]
  BY <1>1, <1>3, <1>7 DEF d
<1>9. UNCHANGED <<agents, exposure, now, evaluated, snapshots>>
  BY DEF FreezeDraft
<1>10. \A p \in Op : draft'[p] # <<>> => DraftHolds(draft'[p][1])
  <2> SUFFICES ASSUME NEW p \in Op, draft'[p] # <<>> PROVE DraftHolds(draft'[p][1])
    OBVIOUS
  <2>1. CASE p = o
    <3>1. draft'[p][1] = x
      BY <1>8, <2>1
    <3>2. DraftHolds(x)
      BY <1>4, <1>6, <1>7 DEF DraftHolds
    <3> QED
      BY <3>1, <3>2
  <2>2. CASE p # o
    BY <1>8, <2>2 DEF MatchingInv, DraftsFit
  <2> QED
    BY <2>1, <2>2
<1>11. DraftsFit'
  <2>1. RowsKept
    BY <1>9 DEF MatchingInv, RowsKept, AgentsTyped
  <2> QED
    BY <1>10, <2>1, DraftsKeptFit
<1>12. DraftsKept
  BY <1>3, <1>8 DEF DraftsKept
<1>13. PanelsFit'
  BY <1>9, <1>12, PanelsKept
<1>14. ExposureExact'
  BY <1>9 DEF MatchingInv, ExposureExact
<1> QED
  BY <1>8, <1>9, <1>11, <1>13, <1>14 DEF MatchingInv, AgentsTyped, IsSequence

\* A selection that is filled makes a full panel.
LEMMA FilledIsPanel ==
    ASSUME NEW d, DraftFits(d), Remembers(d), NEW sel, Filled(d, sel, SelectionLimit),
           NEW s, s.key = d.key, s.sel = sel
    PROVE  Panel(s, d)
<1> DEFINE Q == d.qualified
           C == Chosen(sel)
           v == [a \in Agent |-> d.key[2][a].provider]
<1>1. Q \in SUBSET Agent /\ sel \in Seq(Drawing(d)) /\ C \subseteq Q /\ C = {sel[i].agent : i \in 1..Len(sel)}
  BY PoolTyped, ChosenTyped DEF Filled, Held
<1>2. \A a \in Agent : v[a] = agents[a].provider /\ v[a] = s.key[2][a].provider
  BY DEF Remembers
<1> HIDE DEF v
<1>3. \A a \in Agent : With(C, v, v[a]) = SameProvider(sel, a)
  <2> SUFFICES ASSUME NEW a \in Agent PROVE With(C, v, v[a]) = SameProvider(sel, a)
    OBVIOUS
  <2> QED
    BY <1>1, <1>2 DEF With, SameProvider
<1>4. \A a \in C : Cardinality(With(C, v, v[a])) <= ProviderCap
  BY <1>1, <1>3 DEF Filled, Held
<1>5. Cardinality(C) = Len(sel)
  <2> DEFINE f == [i \in 1..Len(sel) |-> sel[i].agent]
             I == 1..Len(sel)
  <2>1. Len(sel) \in Nat
    BY <1>1
  <2>2. \A i \in I : sel[i].agent \in C
    BY <1>1
  <2>3. f \in [I -> C]
    BY <2>2
  <2>4. \A i, j \in I : f[i] = f[j] => i = j
    BY DEF Filled, Held
  <2>5. \A a \in C : \E i \in I : f[i] = a
    BY <1>1
  <2>6. IsFiniteSet(I) /\ Cardinality(I) = Len(sel)
    <3>1. 1 \in Int /\ Len(sel) \in Int
      BY <2>1
    <3>2. IsFiniteSet(I) /\ Cardinality(I) = IF 1 > Len(sel) THEN 0 ELSE Len(sel) - 1 + 1
      BY <3>1, FS_Interval
    <3> QED
      BY <2>1, <3>2
  <2> HIDE DEF f, I
  <2>7. f \in Bijection(I, C)
    BY <2>3, <2>4, <2>5 DEF Bijection, Injection, Surjection, IsInjective
  <2>8. ExistsBijection(I, C)
    BY <2>7 DEF ExistsBijection
  <2> QED
    BY <2>6, <2>8, FS_Bijection
<1>6. \/ Len(sel) = SelectionLimit
      \/ \A a \in Q \ C : ~(Cardinality(With(C, v, v[a])) < ProviderCap)
  BY <1>1, <1>3 DEF Filled, ProviderEligible, SameProvider
<1>7. /\ Cardinality(C) <= Cardinality(Slots(Q, v))
      /\ (\A a \in Q \ C : ~(Cardinality(With(C, v, v[a])) < ProviderCap))
            => Cardinality(C) = Cardinality(Slots(Q, v))
  <2> HIDE DEF C, Q
  <2>1. C \in SUBSET Agent /\ Q \in SUBSET Agent /\ C \subseteq Q
    BY <1>1
  <2> QED
    BY <1>4, <2>1, PanelCounts
<1>8. Cardinality(Slots(Q, v)) \in Nat /\ Len(sel) \in Nat /\ Len(sel) <= SelectionLimit /\ SelectionLimit \in Nat
  BY <1>1, SlotsFinite, Limits DEF Filled
<1>9. Len(sel) = IF Cardinality(Slots(Q, v)) < SelectionLimit THEN Cardinality(Slots(Q, v)) ELSE SelectionLimit
  <2> DEFINE k == Cardinality(Slots(Q, v))
             c == Cardinality(C)
  <2>1. k \in Nat /\ c <= k /\ c = Len(sel) /\ (Len(sel) = SelectionLimit \/ c = k)
    BY <1>5, <1>6, <1>7, <1>8
  <2> HIDE DEF k, c
  <2>2. Len(sel) = IF k < SelectionLimit THEN k ELSE SelectionLimit
    BY <1>8, <2>1
  <2> QED
    BY <2>2 DEF k
<1> DEFINE provider(a) == s.key[2][a].provider
           share(p) == LET n == Cardinality({a \in Q : provider(a) = p})
                       IN  IF n < ProviderCap THEN n ELSE ProviderCap
           places == {t \in {provider(a) : a \in Q} \X (1..ProviderCap) : t[2] <= share(t[1])}
<1>10. \A p : {a \in Q : provider(a) = p} = With(Q, v, p)
  BY <1>1, <1>2 DEF With
<1>11. {provider(a) : a \in Q} = {v[a] : a \in Q}
  BY <1>1, <1>2
<1>12. \A p : share(p) = Part(Q, v, p)
  BY <1>10 DEF Part
<1>13. places = Slots(Q, v)
  <2> HIDE DEF provider, share
  <2> QED
    BY <1>11, <1>12 DEF Slots
<1>14. \A a \in C : {b \in C : provider(b) = provider(a)} = With(C, v, v[a])
  BY <1>1, <1>2 DEF With
<1>15. \A a \in C : Cardinality({b \in C : provider(b) = provider(a)}) <= ProviderCap
  BY <1>4, <1>14
<1>16. Len(sel) = IF Cardinality(places) < SelectionLimit THEN Cardinality(places) ELSE SelectionLimit
  <2> HIDE DEF places
  <2> QED
    BY <1>9, <1>13
<1> QED
  BY <1>5, <1>15, <1>16 DEF Panel

\* A revision with a new identity counts each agent it shows once.
LEMMA RevisionCounts ==
    ASSUME MatchingInv, NEW d, NEW sel, NEW o, ~KnownDraft(d), agents' = agents,
           snapshots' = Append(snapshots, [key |-> d.key, by |-> o, sel |-> sel]),
           exposure' = [a \in Agent |-> exposure[a] + IF a \in Chosen(sel) THEN 1 ELSE 0]
    PROVE  ExposureExact' /\ exposure' \in [Agent -> Int]
<1> DEFINE s == [key |-> d.key, by |-> o, sel |-> sel]
           n == Len(snapshots)
<1>1. /\ n \in Nat /\ DOMAIN snapshots = 1..n /\ DOMAIN snapshots' = 1..(n + 1)
      /\ snapshots'[n + 1] = s /\ \A i \in 1..n : snapshots'[i] = snapshots[i]
  BY DEF MatchingInv, IsSequence
<1>2. \A i \in 1..(n + 1) : i \in 1..n \/ i = n + 1
  BY <1>1
<1>3. s.key = d.key /\ s.sel = sel
  OBVIOUS
<1> HIDE DEF s, n
<1>4. \A i \in 1..n : snapshots[i].key # d.key
  BY <1>1 DEF KnownDraft
<1>5. \A i, j \in 1..n : snapshots[i].key = snapshots[j].key => i = j
  BY <1>1 DEF MatchingInv, ExposureExact
<1>6. \A i, j \in DOMAIN snapshots' : snapshots'[i].key = snapshots'[j].key => i = j
  BY <1>1, <1>2, <1>3, <1>4, <1>5
<1>7. ASSUME NEW a \in Agent
      PROVE  /\ exposure'[a] \in Int
             /\ exposure'[a] = agents'[a].exposed
                   + Cardinality({i \in DOMAIN snapshots' : a \in Chosen(snapshots'[i].sel)})
  <2> DEFINE S == {i \in DOMAIN snapshots : a \in Chosen(snapshots[i].sel)}
             T == {i \in DOMAIN snapshots' : a \in Chosen(snapshots'[i].sel)}
  <2>1. exposure[a] \in Int /\ exposure[a] = agents[a].exposed + Cardinality(S) /\ agents[a].exposed \in Int
    <3>1. agents[a] \in Candidate /\ exposure[a] \in Int
      BY DEF MatchingInv, AgentsTyped
    <3>2. agents[a].exposed \in Nat
      BY <3>1 DEF Candidate
    <3>3. exposure[a] = agents[a].exposed + Cardinality(S)
      BY DEF MatchingInv, ExposureExact
    <3> QED
      BY <3>1, <3>2, <3>3
  <2>2. IsFiniteSet(S) /\ Cardinality(S) \in Nat /\ n + 1 \notin S
    <3>1. 1 \in Int /\ n \in Int /\ n + 1 \notin 1..n
      BY <1>1
    <3>2. IsFiniteSet(1..n)
      BY <3>1, FS_Interval
    <3>3. S \in SUBSET (1..n)
      BY <1>1
    <3>4. IsFiniteSet(S)
      BY <3>2, <3>3, FS_Subset
    <3> QED
      BY <3>1, <3>3, <3>4, FS_CardinalityType
  <2>3. \A i \in 1..n : i \in T <=> i \in S
    BY <1>1
  <2>4. n + 1 \in T <=> a \in Chosen(sel)
    BY <1>1, <1>3
  <2>5. T = IF a \in Chosen(sel) THEN S \cup {n + 1} ELSE S
    <3>1. T \subseteq 1..(n + 1) /\ S \subseteq 1..n
      BY <1>1
    <3> HIDE DEF S, T
    <3>2. CASE a \in Chosen(sel)
      <4>1. \A i : i \in T <=> i \in S \/ i = n + 1
        BY <1>2, <2>3, <2>4, <3>1, <3>2
      <4> QED
        BY <3>2, <4>1
    <3>3. CASE a \notin Chosen(sel)
      <4>1. \A i : i \in T <=> i \in S
        BY <1>2, <2>2, <2>3, <2>4, <3>1, <3>3
      <4> QED
        BY <3>3, <4>1
    <3> QED
      BY <3>2, <3>3
  <2>6. exposure'[a] = exposure[a] + IF a \in Chosen(sel) THEN 1 ELSE 0
    OBVIOUS
  <2> HIDE DEF S, T
  <2>7. Cardinality(S \cup {n + 1}) = Cardinality(S) + 1
    BY <2>2, FS_AddElement
  <2>8. Cardinality(T) = Cardinality(S) + IF a \in Chosen(sel) THEN 1 ELSE 0
    BY <2>2, <2>5, <2>7
  <2>9. exposure'[a] = agents[a].exposed + Cardinality(T) /\ exposure'[a] \in Int
    <3> DEFINE e == exposure[a]
               x == agents[a].exposed
               m == Cardinality(S)
               k == IF a \in Chosen(sel) THEN 1 ELSE 0
    <3>1. e \in Int /\ x \in Int /\ m \in Int /\ k \in Int /\ e = x + m
      BY <2>1, <2>2
    <3>2. exposure'[a] = e + k /\ Cardinality(T) = m + k
      BY <2>6, <2>8
    <3> HIDE DEF e, x, m, k
    <3>3. exposure'[a] = x + Cardinality(T) /\ exposure'[a] \in Int
      BY <3>1, <3>2
    <3> QED
      BY <3>3 DEF x
  <2> QED
    BY <2>9 DEF T
<1>8. exposure' \in [Agent -> Int]
  BY <1>7
<1> QED
  BY <1>6, <1>7, <1>8 DEF ExposureExact

\* CreateRevision keeps the invariant: the panel it stores is full.
LEMMA RevisionKeeps ==
    ASSUME MatchingInv, NEW o \in Op, CreateRevision(o)
    PROVE  MatchingInv'
<1>1. PICK d : d = draft[o][1]
  OBVIOUS
<1>2. draft[o] # <<>> /\ ~KnownDraft(d) /\ UNCHANGED <<agents, now, evaluated, draft>>
  BY <1>1 DEF CreateRevision
<1>3. PICK triggered \in BOOLEAN : \E sel \in FairShuffle(d, triggered) :
          /\ snapshots' = Append(snapshots, [key |-> d.key, by |-> o, sel |-> sel])
          /\ exposure' = [a \in Agent |-> exposure[a] + IF a \in Chosen(sel) THEN 1 ELSE 0]
  BY <1>1, Zenon DEF CreateRevision
<1>4. PICK sel \in FairShuffle(d, triggered) :
          /\ snapshots' = Append(snapshots, [key |-> d.key, by |-> o, sel |-> sel])
          /\ exposure' = [a \in Agent |-> exposure[a] + IF a \in Chosen(sel) THEN 1 ELSE 0]
  BY <1>3
<1>5. DraftFits(d) /\ Remembers(d)
  BY <1>1, <1>2 DEF MatchingInv, DraftsFit, DraftHolds
<1>6. Filled(d, sel, SelectionLimit)
  BY <1>5, ShuffleFills
<1> DEFINE s == [key |-> d.key, by |-> o, sel |-> sel]
<1>7. s.key = d.key /\ s.sel = sel /\ s.by = o
  OBVIOUS
<1>8. snapshots' = Append(snapshots, s)
  BY <1>4
<1>9. PICK x : x = s
  OBVIOUS
<1> HIDE DEF s
<1>10. Panel(x, d)
  BY <1>5, <1>6, <1>7, <1>9, FilledIsPanel
<1>11. PanelFits(x)
  BY <1>1, <1>2, <1>7, <1>9, <1>10 DEF PanelFits
<1>12. DraftsKept
  BY <1>2 DEF DraftsKept
<1>13. /\ Len(snapshots) \in Nat /\ DOMAIN snapshots = 1..Len(snapshots)
       /\ DOMAIN snapshots' = 1..(Len(snapshots) + 1)
       /\ snapshots'[Len(snapshots) + 1] = x /\ \A i \in 1..Len(snapshots) : snapshots'[i] = snapshots[i]
       /\ IsSequence(snapshots')
  <2>1. PICK S : snapshots \in Seq(S)
    BY DEF MatchingInv, IsSequence
  <2>2. snapshots \in Seq(S \cup {x})
    BY <2>1
  <2>3. snapshots' = Append(snapshots, x)
    BY <1>8, <1>9
  <2>4. snapshots' \in Seq(S \cup {x})
    BY <2>2, <2>3
  <2> QED
    BY <2>2, <2>3, <2>4 DEF IsSequence
<1>14. PanelsFit'
  <2> SUFFICES ASSUME NEW i \in DOMAIN snapshots' PROVE PanelFits(snapshots[i])'
    BY DEF PanelsFit
  <2>1. PICK t : t = snapshots'[i]
    OBVIOUS
  <2>2. PanelFits(t)
    <3>1. CASE i = Len(snapshots) + 1
      BY <1>11, <1>13, <2>1, <3>1
    <3>2. CASE i # Len(snapshots) + 1
      <4>1. i \in DOMAIN snapshots /\ t = snapshots[i]
        BY <1>13, <2>1, <3>2
      <4> QED
        BY <4>1 DEF MatchingInv, PanelsFit
    <3> QED
      BY <3>1, <3>2
  <2>3. PanelFits(t)'
    BY <1>12, <2>2, PanelKept
  <2> QED
    BY <2>1, <2>3 DEF PanelFits
<1>15. ExposureExact' /\ exposure' \in [Agent -> Int]
  BY <1>2, <1>4, RevisionCounts
<1>16. DraftsFit'
  <2>1. \A p \in Op : draft'[p] # <<>> => DraftHolds(draft'[p][1])
    BY <1>2 DEF MatchingInv, DraftsFit
  <2>2. RowsKept
    BY <1>2 DEF MatchingInv, RowsKept, AgentsTyped
  <2> QED
    BY <2>1, <2>2, DraftsKeptFit
<1> QED
  BY <1>2, <1>13, <1>14, <1>15, <1>16 DEF MatchingInv, AgentsTyped

\* Every step keeps the invariant.
LEMMA MatchingStep == MatchingInv /\ [MatchingNext]_matchingVars => MatchingInv'
<1> SUFFICES ASSUME MatchingInv, [MatchingNext]_matchingVars PROVE MatchingInv'
  OBVIOUS
<1>0. /\ AgentsTyped /\ now \in Int /\ evaluated \in [Op -> Int]
      /\ AgentsTyped /\ (agents' = agents => RowsKept)
  BY DEF MatchingInv, RowsKept, AgentsTyped
<1>1. ASSUME NEW o \in Op, Begin(o) PROVE MatchingInv'
  <2>1. evaluated' \in [Op -> Int]
    BY <1>0, <1>1 DEF Begin
  <2> QED
    BY <1>0, <1>1, <2>1, UnsealedKept DEF Begin
<1>2. ASSUME NEW o \in Op, FreezeDraft(o) PROVE MatchingInv'
  BY <1>2, FreezeKeeps
<1>3. ASSUME NEW o \in Op, CreateRevision(o) PROVE MatchingInv'
  BY <1>3, RevisionKeeps
<1>4. ASSUME NEW a \in Changing, LoadChanges(a) PROVE MatchingInv'
  <2>1. RowsKept
    BY <1>0, <1>4, LoadKeepsRows, MatchingTypes
  <2> QED
    BY <1>0, <1>4, <2>1, UnsealedKept DEF LoadChanges
<1>5. ASSUME NEW a \in Changing, UpdateMatchingAuthority(a) PROVE MatchingInv'
  <2>1. RowsKept
    BY <1>0, <1>5, AuthorityKeepsRows, MatchingTypes
  <2> QED
    BY <1>0, <1>5, <2>1, UnsealedKept DEF UpdateMatchingAuthority
<1>6. CASE TimePasses
  BY <1>0, <1>6, UnsealedKept DEF TimePasses
<1>7. CASE UNCHANGED matchingVars
  BY <1>0, <1>7, UnsealedKept DEF matchingVars
<1> QED
  BY <1>1, <1>2, <1>3, <1>4, <1>5, <1>6, <1>7 DEF MatchingNext

\* The invariant of matching always holds.
LEMMA MatchingInvAlways == MatchingSpec => []MatchingInv
<1> QED
  BY MatchingInitInv, MatchingStep, PTL DEF MatchingSpec

\* Every draft that was frozen fits.
LEMMA EveryDraftFits == ASSUME MatchingInv, NEW d \in Drafts PROVE DraftFits(d)
BY DEF MatchingInv, DraftsFit, DraftHolds, Drafts

\* Whoever fails the floor, with whatever score, keeps nobody out who meets it.
THEOREM QualificationIsFair == MatchingSpec => []QualifiedIsFair
<1>1. MatchingInv => QualifiedIsFair
  BY EveryDraftFits, FittingIsFair DEF QualifiedIsFair, Fair
<1> QED
  BY <1>1, MatchingInvAlways, PTL

\* A frozen draft can be sealed; a snapshot is a full panel, and is counted once.
THEOREM SnapshotsAlwaysHold == MatchingSpec => []SnapshotsHold
<1>1. MatchingInv => DraftsAreSealable
  BY EveryDraftFits, FittingIsSealable DEF DraftsAreSealable
<1>2. MatchingInv => PanelIsFull
  BY DEF MatchingInv, PanelsFit, PanelFits, Panel, PanelIsFull
<1>3. MatchingInv => ExposureExact
  BY DEF MatchingInv
<1> QED
  BY <1>1, <1>2, <1>3, MatchingInvAlways, PTL DEF SnapshotsHold
=============================================================================
