------------------------------ MODULE Registry ------------------------------
(***************************************************************************)
(* services/engine/internal/agent: one registered agent and the leases on  *)
(* its capacity.  Every command is one transaction on the locked row; one  *)
(* that names another version than the row's, or repeats an idempotency    *)
(* key, changes nothing.  Of the profile the payout address is kept;       *)
(* price, endpoint and the rest matter by their changes.                   *)
(***************************************************************************)
EXTENDS Clock, FiniteSets

CONSTANTS
    Lease,          \* reservation ids of capacity leases
    Address,        \* controller and payout addresses
    HealthTtl,      \* HealthFreshnessTTL
    MaxPrices, MaxLimit     \* bounds

ASSUME RegistryTypes ==
    IsFiniteSet(Lease) /\ HealthTtl \in Nat \ {0} /\ MaxPrices \in Nat /\ MaxLimit \in Nat \ {0}

VARIABLES
    agent,      \* the row of agents
    lease       \* agent_capacity_leases

registryVars == <<agent, lease>>

AgentRow == [
    status : {"draft", "paused", "active", "retired"},
    until : 0..(MaxTime + HealthTtl),       \* health_valid_until of a healthy agent, else 0
    limit : 1..MaxLimit, counter : Nat,     \* max_concurrency, active_capacity
    activated : BOOLEAN, price : 0..MaxPrices, address : Address]

RegistryTypeOK ==
    /\ agent \in AgentRow
    /\ lease \in [Lease -> [taken : BOOLEAN, expires : Nat, released : BOOLEAN]]

\* Create.
RegistryInit ==
    /\ agent \in [status : {"draft"}, until : {0}, limit : {1}, counter : {0},
                  activated : {FALSE}, price : {0}, address : Address]
    /\ lease = [l \in Lease |-> [taken |-> FALSE, expires |-> 0, released |-> FALSE]]

Live(l) == lease[l].taken /\ ~lease[l].released /\ lease[l].expires > now
Active == Cardinality({l \in Lease : Live(l)})

\* reconcileActiveCapacity: what has expired is marked so.
Reconciled ==
    [l \in Lease |-> IF lease[l].taken /\ lease[l].expires <= now
                     THEN [lease[l] EXCEPT !.released = TRUE] ELSE lease[l]]

\* Fault: addresses may change whenever the agent is not active.
AddressesEditableUnlessActive == agent.status \in {"draft", "paused"}

AddressesEditable == ~agent.activated /\ agent.status \in {"draft", "paused"}

\* A new endpoint has no health.
UpdateProfile(address, limit, moved) ==
    /\ agent.status # "retired"
    /\ address # agent.address => AddressesEditable
    /\ limit >= Active
    /\ lease' = Reconciled
    /\ agent' = [agent EXCEPT !.address = address, !.limit = limit, !.counter = Active,
                              !.until = IF moved THEN 0 ELSE @]
    /\ UNCHANGED now

ValidTransition(from, to) ==
    CASE from = "draft" -> to \in {"paused", "active", "retired"}
      [] from = "paused" -> to \in {"draft", "active", "retired"}
      [] from = "active" -> to \in {"paused", "retired"}
      [] from = "retired" -> FALSE

\* Fault: the leases of an agent that retires are not looked at.
MayRetireAlways == TRUE

MayRetire == Active = 0
MayActivate == agent.price # 0 /\ now < agent.until

Transition(to) ==
    /\ ValidTransition(agent.status, to)
    /\ to = "retired" => MayRetire
    /\ to = "active" => MayActivate
    /\ lease' = IF to = "retired" THEN Reconciled ELSE lease
    /\ agent' = [agent EXCEPT !.status = to, !.activated = @ \/ to = "active",
                              !.counter = IF to = "retired" THEN 0 ELSE @]
    /\ UNCHANGED now

\* UpdateHealth: what a provider reports about an instant that is not too long ago.
UpdateHealth(healthy, checked) ==
    /\ agent.status # "retired" /\ checked <= now /\ now <= checked + HealthTtl
    /\ agent' = [agent EXCEPT !.until = IF healthy THEN checked + HealthTtl ELSE 0]
    /\ UNCHANGED <<lease, now>>

\* CheckHealth: the engine's own probe, under the row's lock.
CheckHealth(healthy) ==
    /\ agent.status # "retired"
    /\ agent' = [agent EXCEPT !.until = IF healthy THEN now + HealthTtl ELSE 0]
    /\ UNCHANGED <<lease, now>>

UpdateCapacity(limit) ==
    /\ agent.status # "retired" /\ limit >= Active
    /\ lease' = Reconciled
    /\ agent' = [agent EXCEPT !.limit = limit, !.counter = Active]
    /\ UNCHANGED now

PublishPrice ==
    /\ agent.status # "retired" /\ agent.price < MaxPrices
    /\ agent' = [agent EXCEPT !.price = @ + 1]
    /\ UNCHANGED <<lease, now>>

\* ReserveCapacity, of an id that is new; an id that is known gets its lease back as it is.
ReserveCapacity(l, expires) ==
    /\ ~lease[l].taken /\ agent.status = "active" /\ now < agent.until
    /\ expires > now /\ Active < agent.limit
    /\ lease' = [Reconciled EXCEPT ![l] = [taken |-> TRUE, expires |-> expires, released |-> FALSE]]
    /\ agent' = [agent EXCEPT !.counter = Active + 1]
    /\ UNCHANGED now

\* ReleaseCapacity; again, it changes nothing.
Released(l) == [lease EXCEPT ![l].released = TRUE]
ReleaseCapacity(l) ==
    /\ lease' = Released(l)
    /\ agent' = IF lease[l].released \/ agent.counter = 0 THEN agent ELSE [agent EXCEPT !.counter = @ - 1]
    /\ UNCHANGED now

RegistryNext ==
    \/ \E a \in Address, n \in 1..MaxLimit, moved \in BOOLEAN : UpdateProfile(a, n, moved)
    \/ \E to \in {"draft", "paused", "active", "retired"} : Transition(to)
    \/ \E h \in BOOLEAN : CheckHealth(h) \/ \E t \in 1..MaxTime : UpdateHealth(h, t)
    \/ \E n \in 1..MaxLimit : UpdateCapacity(n)
    \/ PublishPrice

-----------------------------------------------------------------------------
(* What AvailableActions offers the provider *)

Offered ==
    LET editable == agent.status \in {"draft", "paused"}
    IN (IF agent.status # "retired" THEN {"update_profile"} ELSE {})
       \cup (IF ~agent.activated /\ editable THEN {"update_addresses"} ELSE {})
       \cup (IF editable /\ agent.price # 0 /\ now < agent.until THEN {"activate"} ELSE {})
       \cup (IF agent.status \in {"draft", "active"} THEN {"pause"} ELSE {})
       \cup (IF agent.status = "paused" THEN {"return_to_draft"} ELSE {})
       \cup (IF agent.status # "retired" /\ Active = 0 THEN {"retire"} ELSE {})

Accepted ==
    {o \in {"update_profile"} : agent.status # "retired"}
    \cup {o \in {"update_addresses"} : agent.status # "retired" /\ AddressesEditable}
    \cup {o \in {"activate"} : ValidTransition(agent.status, "active") /\ MayActivate}
    \cup {o \in {"pause"} : ValidTransition(agent.status, "paused")}
    \cup {o \in {"return_to_draft"} : ValidTransition(agent.status, "draft")}
    \cup {o \in {"retire"} : ValidTransition(agent.status, "retired") /\ MayRetire}

\* What the view offers is what the store would do at that instant, with leases that expired
\* and were not reconciled, health that ran out, and any history of the row.
OffersKept == Offered = Accepted

\* A retired agent has no capacity out on loan, and its counter is the number of leases that
\* were not given back (reservations, expiry, late releases and limits in any order).
CapacityHeld ==
    /\ agent.status = "retired" => Active = 0
    /\ agent.counter = Cardinality({l \in Lease : lease[l].taken /\ ~lease[l].released})
    /\ agent.counter <= agent.limit

\* The row, its leases and what the provider is offered agree after any history.
RegistryHolds == RegistryTypeOK /\ OffersKept /\ CapacityHeld
=============================================================================
