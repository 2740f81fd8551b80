--------------------------- MODULE ExecutionProofs ---------------------------
(***************************************************************************)
(* For every number of executions, attempts, callers and instants: the     *)
(* tables of an agent's executions agree, work that succeeds was delivered *)
(* by exactly one report, and LogicalExecution is implemented.             *)
(***************************************************************************)
EXTENDS Execution, FiniteSetTheorems, TLAPS

USE ConstantTypes

\* A key is an execution and an attempt number.
LEMMA KeyParts ==
    /\ \A e \in Exec, n \in 1..MaxAttempts : <<e, n>> \in Key
    /\ \A k \in Key : k[1] \in Exec /\ k[2] \in 1..MaxAttempts /\ k = <<k[1], k[2]>>
BY DEF Key

\* The initial rows are well typed.
LEMMA TypeInit == Init => TypeOK
<1> SUFFICES ASSUME Init PROVE TypeOK
  OBVIOUS
<1>1. NoAttempt \in AttemptType /\ NoLease \in LeaseType /\ NoReport \in ReportType
  BY DEF NoAttempt, NoLease, NoReport, AttemptType, LeaseType, ReportType, AttemptStatus
<1> QED
  BY <1>1 DEF Init, TypeOK, ExecutionStatus

\* Marking expired leases keeps the table's type (ReserveCapacity, UpdateCapacity).
LEMMA ReconciledType == TypeOK => Reconciled \in [Key -> LeaseType]
BY DEF TypeOK, Reconciled, LeaseType

\* There are finitely many leases.
LEMMA FiniteLeases ==
    /\ IsFiniteSet(Key)
    /\ IsFiniteSet(Unreleased) /\ IsFiniteSet(Live)
    /\ Cardinality(Unreleased) \in Nat /\ Cardinality(Live) \in Nat
<1>1. IsFiniteSet(1..MaxAttempts)
  BY FS_Interval
<1>2. IsFiniteSet(Key)
  BY <1>1, FS_Product DEF Key
<1>3. Unreleased \subseteq Key /\ Live \subseteq Key
  BY DEF Unreleased, Live
<1> QED
  BY <1>2, <1>3, FS_Subset, FS_CardinalityType

\* An attempt that changes its status keeps its fence and its expiry.
LEMMA SetAttemptEffect ==
    ASSUME TypeOK, NEW k \in Key, NEW s \in AttemptStatus, SetAttempt(k, s)
    PROVE  /\ attempt' \in [Key -> AttemptType]
           /\ attempt'[k].status = s
           /\ attempt'[k].fence = attempt[k].fence /\ attempt'[k].expires = attempt[k].expires
           /\ \A m \in Key : m # k => attempt'[m] = attempt[m]
BY DEF TypeOK, SetAttempt, AttemptType

\* A report that ends an attempt writes well-typed rows (ApplyTerminal).
LEMMA TerminalTypes ==
    ASSUME TypeOK, NEW e \in Exec, NEW n \in 1..MaxAttempts, NEW s, NEW u \in Cost, NEW c \in Content,
           ApplyTerminal(e, n, s, u, c)
    PROVE  /\ used' \in [Exec -> 0..CostCap] /\ status' \in [Exec -> ExecutionStatus]
           /\ attempt' \in [Key -> AttemptType] /\ result' \in [Exec -> Content \cup {NoContent}]
           /\ current' = current
<1>1. <<e, n>> \in Key
  BY KeyParts
<1>2. Charged(u) \in 0..CostCap
  BY DEF Charged, Cost
<1>3. attempt' \in [Key -> AttemptType]
  <2>1. \E t \in {"completed", "failed"} : SetAttempt(<<e, n>>, t)
    BY DEF ApplyTerminal
  <2> QED
    BY <1>1, <2>1, SetAttemptEffect DEF AttemptStatus
<1>4. status' \in [Exec -> ExecutionStatus]
  BY DEF TypeOK, ApplyTerminal, SetStatus, ExecutionStatus
<1>5. result' \in [Exec -> Content \cup {NoContent}]
  BY DEF TypeOK, ApplyTerminal
<1> QED
  BY <1>2, <1>3, <1>4, <1>5 DEF TypeOK, ApplyTerminal

\* Every transaction writes well-typed rows.
LEMMA TypeStep == TypeOK /\ [Next]_vars => TypeOK'
<1> SUFFICES ASSUME TypeOK, [Next]_vars PROVE TypeOK'
  OBVIOUS
<1> USE KeyParts
<1>1. ASSUME NEW e \in Exec, Create(e) PROVE TypeOK'
  BY <1>1 DEF TypeOK, Create, leaseVars, reportVars, ExecutionStatus
<1>2. ASSUME NEW e \in Exec, PrepareAttempt(e) PROVE TypeOK'
  <2>1. attempt' \in [Key -> AttemptType]
    <3>1. \A k \in Key : \A s \in AttemptStatus : [attempt[k] EXCEPT !.status = s] \in AttemptType
      BY DEF TypeOK, AttemptType
    <3>2. "prepared" \in AttemptStatus /\ "expired" \in AttemptStatus
      BY DEF AttemptStatus
    <3>3. \A k \in Key : attempt[k] \in AttemptType
      BY DEF TypeOK
    <3> QED
      BY <1>2, <3>1, <3>2, <3>3 DEF PrepareAttempt
  <2> QED
    BY <1>2, <2>1 DEF TypeOK, PrepareAttempt, SetStatus, leaseVars, reportVars, ExecutionStatus
<1>3. ASSUME NEW e \in Exec, NEW n \in 1..MaxAttempts, NEW x \in 0..(MaxTime + LeaseTTL),
             ReserveCapacity(e, n, x)
      PROVE  TypeOK'
  <2>1. lease' \in [Key -> LeaseType] /\ nextToken' \in Nat
    BY <1>3, ReconciledType DEF TypeOK, ReserveCapacity, LeaseType, NewToken
  <2> QED
    BY <1>3, <2>1, FiniteLeases DEF TypeOK, ReserveCapacity, executionVars, reportVars
<1>4. ASSUME NEW e \in Exec, NEW n \in 1..MaxAttempts, ActivateAttempt(e, n) PROVE TypeOK'
  <2>1. attempt' \in [Key -> AttemptType]
    BY <1>4 DEF TypeOK, ActivateAttempt, AttemptType, AttemptStatus, LeaseType
  <2> QED
    BY <1>4, <2>1 DEF TypeOK, ActivateAttempt, SetStatus, leaseVars, reportVars, ExecutionStatus
<1>5. ASSUME NEW e \in Exec, NEW n \in 1..MaxAttempts, SendCreate(e, n) PROVE TypeOK'
  BY <1>5 DEF TypeOK, SendCreate, executionVars, leaseVars, reportVars
<1>6. ASSUME NEW e \in Exec, NEW n \in 1..MaxAttempts, FailAttempt(e, n) PROVE TypeOK'
  <2>1. attempt' \in [Key -> AttemptType]
    BY <1>6 DEF TypeOK, FailAttempt, SetAttempt, AttemptType, AttemptStatus
  <2> QED
    BY <1>6, <2>1 DEF TypeOK, FailAttempt, SetStatus, leaseVars, reportVars, ExecutionStatus
<1>7. ASSUME NEW e \in Exec, NEW n \in 1..MaxAttempts, ReleaseCapacity(e, n) PROVE TypeOK'
  <2>1. lease' \in [Key -> LeaseType]
    BY <1>7 DEF TypeOK, ReleaseCapacity, LeaseType
  <2> QED
    BY <1>7, <2>1 DEF TypeOK, ReleaseCapacity, executionVars, reportVars
<1>8. ASSUME NEW m \in 1..MaxConcurrency, UpdateCapacity(m) PROVE TypeOK'
  BY <1>8, ReconciledType, FiniteLeases DEF TypeOK, UpdateCapacity, executionVars, reportVars
<1>9. ASSUME NEW e \in Exec, RequestCancel(e) PROVE TypeOK'
  BY <1>9 DEF TypeOK, RequestCancel, SetStatus, leaseVars, reportVars, ExecutionStatus
<1>10. ASSUME NEW e \in Exec, CompleteCancel(e) PROVE TypeOK'
  <2>1. attempt' \in [Key -> AttemptType]
    <3>1. CASE current[e] = 0
      BY <1>10, <3>1 DEF TypeOK, CompleteCancel
    <3>2. CASE current[e] # 0
      <4>1. <<e, current[e]>> \in Key
        BY <3>2 DEF TypeOK
      <4> QED
        BY <1>10, <3>2, <4>1, SetAttemptEffect DEF CompleteCancel, AttemptStatus
    <3> QED
      BY <3>1, <3>2
  <2> QED
    BY <1>10, <2>1 DEF TypeOK, CompleteCancel, SetStatus, leaseVars, reportVars, ExecutionStatus
<1>11. ASSUME NEW e \in Exec, NEW n \in 1..MaxAttempts, NEW u \in Cost,
              NEW s \in {"running", "succeeded", "failed", "cancelled"}, PollStatus(e, n, s, u)
       PROVE  TypeOK'
  <2>1. attempt' \in [Key -> AttemptType]
    BY <1>11, SetAttemptEffect DEF TypeOK, PollStatus, AttemptStatus
  <2>2. used' \in [Exec -> 0..CostCap]
    BY <1>11 DEF TypeOK, PollStatus, Charged, Cost
  <2>3. status' \in [Exec -> ExecutionStatus]
    BY <1>11 DEF TypeOK, PollStatus, SetStatus, ExecutionStatus
  <2>4. observing' \subseteq [e : Exec, n : 1..MaxAttempts, used : 0..CostCap,
                              status : {"succeeded", "failed", "cancelled"}]
    BY <1>11 DEF TypeOK, PollStatus, Cost
  <2> QED
    BY <1>11, <2>1, <2>2, <2>3, <2>4 DEF TypeOK, PollStatus, leaseVars, reportVars
<1>12. ASSUME NEW o \in observing, PollEnds(o) PROVE TypeOK'
  BY <1>12 DEF TypeOK, PollEnds, executionVars, leaseVars, reportVars
<1>13. ASSUME NEW o \in observing, NEW c \in Content, Reconcile(o, c) PROVE TypeOK'
  <2>1. /\ o.e \in Exec /\ o.n \in 1..MaxAttempts /\ o.used \in Cost
        /\ o.status \in {"succeeded", "failed", "cancelled"}
    BY DEF TypeOK, Cost
  <2>2. poll' \in [Key -> ReportType]
    <3>1. PICK r \in ReportType : poll' = [poll EXCEPT ![<<o.e, o.n>>] = r]
      BY <1>13, <2>1 DEF Reconcile, Applied, ReportType
    <3> QED
      BY <3>1 DEF TypeOK
  <2>3. /\ used' \in [Exec -> 0..CostCap] /\ status' \in [Exec -> ExecutionStatus]
        /\ attempt' \in [Key -> AttemptType] /\ result' \in [Exec -> Content \cup {NoContent}]
        /\ current' = current
    BY <1>13, <2>1, TerminalTypes DEF TypeOK, Reconcile, executionVars
  <2> QED
    BY <1>13, <2>2, <2>3 DEF TypeOK, Reconcile, leaseVars
<1>14. ASSUME NEW e \in Exec, NEW n \in 1..MaxAttempts, NEW f \in 1..nextToken, NEW u \in Cost,
              NEW c \in Content, NEW s \in {"succeeded", "failed"}, ApplyCallback(e, n, f, s, u, c)
       PROVE  TypeOK'
  <2>1. callback' \in [Key -> ReportType]
    <3>1. PICK r \in ReportType : callback' = [callback EXCEPT ![<<e, n>>] = r]
      BY <1>14 DEF ApplyCallback, Applied, ReportType
    <3> QED
      BY <3>1 DEF TypeOK
  <2>2. /\ used' \in [Exec -> 0..CostCap] /\ status' \in [Exec -> ExecutionStatus]
        /\ attempt' \in [Key -> AttemptType] /\ result' \in [Exec -> Content \cup {NoContent}]
        /\ current' = current
    BY <1>14, TerminalTypes DEF TypeOK, ApplyCallback, executionVars
  <2> QED
    BY <1>14, <2>1, <2>2 DEF TypeOK, ApplyCallback, leaseVars
<1>15. CASE Tick
  BY <1>15 DEF TypeOK, Tick, executionVars, leaseVars, reportVars
<1>16. CASE UNCHANGED vars
  BY <1>16 DEF TypeOK, vars, executionVars, leaseVars, reportVars
<1> QED
  BY <1>1, <1>2, <1>3, <1>4, <1>5, <1>6, <1>7, <1>8, <1>9, <1>10, <1>11, <1>12, <1>13, <1>14,
     <1>15, <1>16 DEF Next, Dispatch, Cancel, Poll, HandleCallback

-----------------------------------------------------------------------------
\* FencesGrow is not inductive: an attempt's fence comes from a lease reserved earlier.
\* Leases are numbered as they are reserved, only for attempts that exist, and an attempt
\* has a fence once it has been activated.
LeasesInOrder ==
    /\ \A k \in Key : lease[k].token <= nextToken
    /\ \A e \in Exec : \A n \in 1..MaxAttempts : lease[<<e, n>>].token > 0 => n <= current[e]
    /\ \A e \in Exec : \A m, n \in 1..MaxAttempts :
            m < n /\ lease[<<e, n>>].token > 0 =>
                0 < lease[<<e, m>>].token /\ lease[<<e, m>>].token < lease[<<e, n>>].token
    /\ \A k \in Key : attempt[k].fence > 0 <=> attempt[k].status \notin {"absent", "prepared"}

TablesInv == TypeOK /\ AttemptsAgree /\ FencesGrow /\ LeasesInOrder /\ CapacityExact

Ends(r) == r.outcome \in {"accepted", "cost_stop"}
Succeeds(r) == r.outcome = "accepted" /\ r.status = "succeeded"

\* What OneResult counts, attempt by attempt: a report that was applied ended its attempt,
\* and an attempt is completed exactly when one of its reports succeeded.
ReportsInv ==
    /\ \A k \in Key :
        /\ Ends(callback[k]) \/ Ends(poll[k]) => attempt[k].status \in {"completed", "failed"}
        /\ ~(Ends(callback[k]) /\ Ends(poll[k]))
        /\ attempt[k].status = "completed" <=> Succeeds(callback[k]) \/ Succeeds(poll[k])
    /\ \A e \in Exec :
        /\ \A n \in 1..MaxAttempts : attempt[<<e, n>>].status = "completed" =>
                status[e] = "succeeded" /\ n = current[e]
        /\ status[e] = "succeeded" <=> result[e] # NoContent

\* The row a status update leaves (the trigger on logical_executions lets it through).
LEMMA SetStatusEffect ==
    ASSUME TypeOK, NEW e \in Exec, NEW s \in ExecutionStatus, SetStatus(e, s)
    PROVE  /\ status' \in [Exec -> ExecutionStatus] /\ status'[e] = s
           /\ \A d \in Exec : d # e => status'[d] = status[d]
BY DEF TypeOK, SetStatus

\* Transactions that end the current attempt and move the execution to the status that
\* goes with it keep the two tables in agreement.
LEMMA AgreeAfterEnd ==
    ASSUME TypeOK, AttemptsAgree, NEW e \in Exec, NEW n \in 1..MaxAttempts, current[e] = n,
           NEW t \in {"completed", "failed", "cancelled"}, SetAttempt(<<e, n>>, t),
           NEW s \in ExecutionStatus, SetStatus(e, s), t \in AttemptOf(s), UNCHANGED current
    PROVE  AttemptsAgree'
<1>1. <<e, n>> \in Key
  BY KeyParts
<1>2. /\ attempt'[<<e, n>>].status = t
      /\ \A m \in Key : m # <<e, n>> => attempt'[m] = attempt[m]
  BY <1>1, SetAttemptEffect DEF AttemptStatus
<1>3. attempt[<<e, n>>].status \in {"prepared", "active"}
  BY DEF SetAttempt, AttemptMayChange
<1>4. status'[e] = s /\ \A d \in Exec : d # e => status'[d] = status[d]
  BY SetStatusEffect
<1> SUFFICES ASSUME NEW d \in Exec
             PROVE  /\ \A m \in 1..MaxAttempts :
                         /\ attempt'[<<d, m>>].status = "absent" <=> m > current[d]
                         /\ attempt'[<<d, m>>].status \in {"prepared", "active"} => m = current[d]
                    /\ current[d] = 0 =>
                         status'[d] \in {"absent", "pending", "cancel_requested", "cancelled"}
                    /\ current[d] > 0 =>
                         attempt'[<<d, current[d]>>].status \in AttemptOf(status'[d])
  BY DEF AttemptsAgree
<1>5. CASE d = e
  BY <1>1, <1>2, <1>3, <1>4, <1>5, KeyParts DEF AttemptsAgree
<1>6. CASE d # e
  <2>1. \A m \in 1..MaxAttempts : attempt'[<<d, m>>] = attempt[<<d, m>>]
    BY <1>2, <1>6, KeyParts
  <2>2. current[d] > 0 => current[d] \in 1..MaxAttempts
    BY DEF TypeOK
  <2> QED
    BY <1>4, <1>6, <2>1, <2>2 DEF AttemptsAgree
<1> QED
  BY <1>5, <1>6

\* Reports end the live attempt of work that runs (ApplyCallback, ApplyTerminalObservation).
LEMMA AgreeAfterTerminal ==
    ASSUME TypeOK, AttemptsAgree, NEW e \in Exec, NEW n \in 1..MaxAttempts, current[e] = n,
           NEW s, NEW u, NEW c, ApplyTerminal(e, n, s, u, c)
    PROVE  AttemptsAgree'
<1>1. PICK t \in {"completed", "failed"}, x \in {"succeeded", "failed", "cost_stopped"} :
        SetAttempt(<<e, n>>, t) /\ SetStatus(e, x) /\ t \in AttemptOf(x)
  BY DEF ApplyTerminal, AttemptOf
<1>2. UNCHANGED current
  BY DEF ApplyTerminal
<1> QED
  BY <1>1, <1>2, AgreeAfterEnd DEF ExecutionStatus

\* Transactions that touch neither table.
LEMMA AgreeUnchanged ==
    AttemptsAgree /\ UNCHANGED <<status, current, attempt>> => AttemptsAgree'
BY DEF AttemptsAgree

\* A new attempt: the old one has ended or expires with it (PrepareAttempt).
LEMMA AgreePrepare ==
    ASSUME TypeOK, AttemptsAgree, NEW e \in Exec, PrepareAttempt(e)
    PROVE  AttemptsAgree'
<1> DEFINE n == current[e] + 1
<1>1. n \in 1..MaxAttempts /\ <<e, n>> \in Key
  BY KeyParts DEF TypeOK, PrepareAttempt
<1>2. /\ attempt'[<<e, n>>].status = "prepared"
      /\ \A d \in Exec, m \in 1..MaxAttempts :
            <<d, m>> # <<e, n>> /\ <<d, m>> # <<e, current[e]>> =>
                attempt'[<<d, m>>] = attempt[<<d, m>>]
  BY <1>1, KeyParts DEF PrepareAttempt, TypeOK, AttemptType
<1>3. current[e] > 0 => attempt'[<<e, current[e]>>].status \notin {"absent", "prepared", "active"}
  <2> SUFFICES ASSUME current[e] > 0 PROVE attempt'[<<e, current[e]>>].status \notin {"absent", "prepared", "active"}
    OBVIOUS
  <2>1. <<e, current[e]>> \in Key /\ <<e, current[e]>> # <<e, n>> /\ current[e] \in 1..MaxAttempts
    BY KeyParts DEF TypeOK
  <2>2. attempt[<<e, current[e]>>].status \in AttemptStatus \ {"absent", "prepared"}
    <3>1. attempt[<<e, current[e]>>].status \in AttemptStatus
      BY <2>1 DEF TypeOK, AttemptType
    <3>2. attempt[<<e, current[e]>>].status # "absent"
      BY <2>1 DEF AttemptsAgree
    <3>3. attempt[<<e, current[e]>>].status # "prepared"
      BY DEF PrepareAttempt, Replays
    <3> QED
      BY <3>1, <3>2, <3>3
  <2>3. CASE attempt[<<e, current[e]>>].status = "active"
    <3>1. attempt'[<<e, current[e]>>] = [attempt[<<e, current[e]>>] EXCEPT !.status = "expired"]
      BY <2>1, <2>3 DEF PrepareAttempt
    <3>2. attempt[<<e, current[e]>>] \in AttemptType
      BY <2>1 DEF TypeOK
    <3> QED
      BY <3>1, <3>2 DEF AttemptType
  <2>4. CASE attempt[<<e, current[e]>>].status # "active"
    <3>1. attempt'[<<e, current[e]>>] = attempt[<<e, current[e]>>]
      BY <2>1, <2>4 DEF PrepareAttempt
    <3> QED
      BY <2>2, <2>4, <3>1
  <2> QED
    BY <2>3, <2>4
<1>4. status'[e] = "pending" /\ \A d \in Exec : d # e => status'[d] = status[d]
  BY SetStatusEffect DEF PrepareAttempt, ExecutionStatus
<1>5. current'[e] = n /\ \A d \in Exec : d # e => current'[d] = current[d]
  BY DEF PrepareAttempt, TypeOK
<1> SUFFICES ASSUME NEW d \in Exec
             PROVE  /\ \A m \in 1..MaxAttempts :
                         /\ attempt'[<<d, m>>].status = "absent" <=> m > current'[d]
                         /\ attempt'[<<d, m>>].status \in {"prepared", "active"} => m = current'[d]
                    /\ current'[d] = 0 =>
                         status'[d] \in {"absent", "pending", "cancel_requested", "cancelled"}
                    /\ current'[d] > 0 =>
                         attempt'[<<d, current'[d]>>].status \in AttemptOf(status'[d])
  BY DEF AttemptsAgree
<1>6. CASE d = e
  <2>1. ASSUME NEW m \in 1..MaxAttempts
        PROVE  /\ attempt'[<<e, m>>].status = "absent" <=> m > n
               /\ attempt'[<<e, m>>].status \in {"prepared", "active"} => m = n
    <3>1. CASE m = n
      BY <1>1, <1>2, <3>1
    <3>2. CASE m = current[e]
      BY <1>1, <1>3, <3>2 DEF TypeOK
    <3>3. CASE m # n /\ m # current[e]
      <4>1. attempt'[<<e, m>>] = attempt[<<e, m>>]
        BY <1>2, <3>3
      <4>2. current[e] \in Nat /\ (m > n <=> m > current[e])
        BY <3>3 DEF TypeOK
      <4>3. /\ attempt[<<e, m>>].status = "absent" <=> m > current[e]
            /\ attempt[<<e, m>>].status \in {"prepared", "active"} => m = current[e]
        BY DEF AttemptsAgree
      <4> QED
        BY <3>3, <4>1, <4>2, <4>3
    <3> QED
      BY <3>1, <3>2, <3>3
  <2>2. n > 0 /\ AttemptOf("pending") = {"prepared"}
    BY <1>1 DEF AttemptOf
  <2> QED
    BY <1>1, <1>2, <1>4, <1>5, <1>6, <2>1, <2>2
<1>7. CASE d # e
  <2>1. \A m \in 1..MaxAttempts : attempt'[<<d, m>>] = attempt[<<d, m>>]
    BY <1>2, <1>7
  <2>2. current[d] > 0 => current[d] \in 1..MaxAttempts
    BY DEF TypeOK
  <2> QED
    BY <1>4, <1>5, <1>7, <2>1, <2>2 DEF AttemptsAgree
<1> QED
  BY <1>6, <1>7

\* Every transaction keeps the executions and their attempts in agreement.
LEMMA AgreeStep == TypeOK /\ AttemptsAgree /\ [Next]_vars => AttemptsAgree'
<1> SUFFICES ASSUME TypeOK, AttemptsAgree, [Next]_vars PROVE AttemptsAgree'
  OBVIOUS
<1>1. ASSUME NEW e \in Exec, Create(e) PROVE AttemptsAgree'
  <2>1. current[e] = 0
    <3>1. current[e] > 0 => FALSE
      BY <1>1 DEF Create, AttemptsAgree, AttemptOf
    <3> QED
      BY <3>1 DEF TypeOK
  <2> QED
    BY <1>1, <2>1 DEF Create, AttemptsAgree, TypeOK
<1>2. ASSUME NEW e \in Exec, PrepareAttempt(e) PROVE AttemptsAgree'
  BY <1>2, AgreePrepare
<1>3. ASSUME NEW e \in Exec, NEW n \in 1..MaxAttempts, ActivateAttempt(e, n) PROVE AttemptsAgree'
  <2>1. <<e, n>> \in Key /\ current[e] = n
    BY <1>3, KeyParts DEF ActivateAttempt, LeaseUsable
  <2>2. /\ attempt'[<<e, n>>].status = "active" /\ attempt[<<e, n>>].status = "prepared"
        /\ \A m \in Key : m # <<e, n>> => attempt'[m] = attempt[m]
    BY <1>3, <2>1 DEF ActivateAttempt, TypeOK
  <2>3. status'[e] = "running" /\ \A d \in Exec : d # e => status'[d] = status[d]
    BY <1>3, SetStatusEffect DEF ActivateAttempt, ExecutionStatus
  <2>4. AttemptOf("running") = {"active"}
    BY DEF AttemptOf
  <2>5. UNCHANGED current
    BY <1>3 DEF ActivateAttempt
  <2> SUFFICES ASSUME NEW d \in Exec
               PROVE  /\ \A m \in 1..MaxAttempts :
                           /\ attempt'[<<d, m>>].status = "absent" <=> m > current[d]
                           /\ attempt'[<<d, m>>].status \in {"prepared", "active"} => m = current[d]
                      /\ current[d] = 0 =>
                           status'[d] \in {"absent", "pending", "cancel_requested", "cancelled"}
                      /\ current[d] > 0 =>
                           attempt'[<<d, current[d]>>].status \in AttemptOf(status'[d])
    BY <2>5 DEF AttemptsAgree
  <2>6. CASE d = e
    BY <2>1, <2>2, <2>3, <2>4, <2>6, KeyParts DEF AttemptsAgree
  <2>7. CASE d # e
    <3>1. \A m \in 1..MaxAttempts : attempt'[<<d, m>>] = attempt[<<d, m>>]
      BY <2>2, <2>7, KeyParts
    <3>2. current[d] > 0 => current[d] \in 1..MaxAttempts
      BY DEF TypeOK
    <3> QED
      BY <2>3, <2>7, <3>1, <3>2 DEF AttemptsAgree
  <2> QED
    BY <2>6, <2>7
<1>4. ASSUME NEW e \in Exec, NEW n \in 1..MaxAttempts, FailAttempt(e, n) PROVE AttemptsAgree'
  BY <1>4, AgreeAfterEnd DEF FailAttempt, ExecutionStatus, AttemptOf
<1>5. ASSUME NEW e \in Exec, RequestCancel(e) PROVE AttemptsAgree'
  <2>1. status'[e] = "cancel_requested" /\ \A d \in Exec : d # e => status'[d] = status[d]
    BY <1>5, SetStatusEffect DEF RequestCancel, ExecutionStatus
  <2>2. status[e] \in {"pending", "running", "failed"}
    BY <1>5 DEF RequestCancel, TypeOK, ExecutionStatus
  <2>3. AttemptOf(status[e]) \subseteq AttemptOf("cancel_requested")
    BY <2>2 DEF AttemptOf
  <2>4. UNCHANGED <<current, attempt>>
    BY <1>5 DEF RequestCancel
  <2> QED
    BY <2>1, <2>3, <2>4 DEF AttemptsAgree
<1>6. ASSUME NEW e \in Exec, CompleteCancel(e) PROVE AttemptsAgree'
  <2>1. CASE current[e] = 0
    <3>1. status'[e] = "cancelled" /\ \A d \in Exec : d # e => status'[d] = status[d]
      BY <1>6, SetStatusEffect DEF CompleteCancel, ExecutionStatus
    <3>2. UNCHANGED <<current, attempt>>
      BY <1>6, <2>1 DEF CompleteCancel
    <3> QED
      BY <2>1, <3>1, <3>2 DEF AttemptsAgree
  <2>2. CASE current[e] # 0
    <3>1. current[e] \in 1..MaxAttempts
      BY <2>2 DEF TypeOK
    <3> QED
      BY <1>6, <2>2, <3>1, AgreeAfterEnd DEF CompleteCancel, ExecutionStatus, AttemptOf
  <2> QED
    BY <2>1, <2>2
<1>7. ASSUME NEW e \in Exec, NEW n \in 1..MaxAttempts, NEW s, NEW u, PollStatus(e, n, s, u)
      PROVE  AttemptsAgree'
  <2>1. CASE u > CostCap
    BY <1>7, <2>1, AgreeAfterEnd DEF PollStatus, Holds, ExecutionStatus, AttemptOf
  <2>2. CASE ~(u > CostCap)
    BY <1>7, <2>2, AgreeUnchanged DEF PollStatus
  <2> QED
    BY <2>1, <2>2
<1>8. ASSUME NEW o \in observing, NEW c \in Content, Reconcile(o, c) PROVE AttemptsAgree'
  <2>1. o.e \in Exec /\ o.n \in 1..MaxAttempts
    BY DEF TypeOK
  <2>2. CASE UNCHANGED <<executionVars, attempt>>
    BY <2>2, AgreeUnchanged DEF executionVars
  <2>3. CASE Holds(o.e, o.n) /\ ApplyTerminal(o.e, o.n, o.status, o.used, c)
    BY <2>1, <2>3, AgreeAfterTerminal DEF Holds
  <2> QED
    BY <1>8, <2>2, <2>3 DEF Reconcile
<1>9. ASSUME NEW e \in Exec, NEW n \in 1..MaxAttempts, NEW f, NEW s, NEW u, NEW c,
             ApplyCallback(e, n, f, s, u, c)
      PROVE  AttemptsAgree'
  <2>1. CASE UNCHANGED <<executionVars, attempt>>
    BY <2>1, AgreeUnchanged DEF executionVars
  <2>2. CASE Holds(e, n) /\ ApplyTerminal(e, n, s, u, c)
    BY <2>2, AgreeAfterTerminal DEF Holds
  <2> QED
    BY <1>9, <2>1, <2>2 DEF ApplyCallback
<1>10. ASSUME NEW e \in Exec, NEW n \in 1..MaxAttempts,
              \/ \E x \in 0..(MaxTime + LeaseTTL) : ReserveCapacity(e, n, x)
              \/ SendCreate(e, n) \/ ReleaseCapacity(e, n)
       PROVE  AttemptsAgree'
  BY <1>10, AgreeUnchanged DEF ReserveCapacity, SendCreate, ReleaseCapacity, executionVars
<1>11. CASE Tick \/ \E m \in 1..MaxConcurrency : UpdateCapacity(m)
  BY <1>11, AgreeUnchanged DEF Tick, UpdateCapacity, executionVars
<1>12. ASSUME NEW o \in observing, PollEnds(o) PROVE AttemptsAgree'
  BY <1>12, AgreeUnchanged DEF PollEnds, executionVars
<1>13. CASE UNCHANGED vars
  BY <1>13, AgreeUnchanged DEF vars, executionVars
<1> QED
  BY <1>1, <1>2, <1>3, <1>4, <1>5, <1>6, <1>7, <1>8, <1>9, <1>10, <1>11, <1>12, <1>13
     DEF Next, Dispatch, Cancel, Poll, HandleCallback
-----------------------------------------------------------------------------
FenceInv == FencesGrow /\ LeasesInOrder

\* A transaction that activates nothing and reserves nothing: fences and leases stand.
FencesStand ==
    /\ \A k \in Key :
        /\ attempt'[k].fence = attempt[k].fence /\ attempt'[k].expires = attempt[k].expires
        /\ attempt'[k].status \in {"absent", "prepared"} <=> attempt[k].status \in {"absent", "prepared"}
        /\ lease'[k].token = lease[k].token /\ lease'[k].expires = lease[k].expires
    /\ nextToken' = nextToken
    /\ \A e \in Exec : current'[e] >= current[e]

\* Such a transaction keeps the order of fences.
LEMMA FencesStandKept == TypeOK /\ TypeOK' /\ FenceInv /\ FencesStand => FenceInv'
<1> SUFFICES ASSUME TypeOK, TypeOK', FenceInv, FencesStand PROVE FenceInv'
  OBVIOUS
<1> USE KeyParts
<1>1. \A k \in Key : attempt'[k].fence > 0 =>
            attempt'[k].fence = lease'[k].token /\ attempt'[k].expires = lease'[k].expires
  BY DEF FenceInv, FencesGrow, FencesStand
<1>2. \A k, m \in Key : k # m /\ lease'[k].token > 0 => lease'[k].token # lease'[m].token
  BY DEF FenceInv, FencesGrow, FencesStand
<1>3. \A e \in Exec : \A m, n \in 1..MaxAttempts :
            m < n /\ attempt'[<<e, n>>].fence > 0 =>
                0 < attempt'[<<e, m>>].fence /\ attempt'[<<e, m>>].fence < attempt'[<<e, n>>].fence
  BY DEF FenceInv, FencesGrow, FencesStand
<1>4. \A e \in Exec : \A m, n \in 1..MaxAttempts :
            m < n /\ lease'[<<e, n>>].token > 0 =>
                0 < lease'[<<e, m>>].token /\ lease'[<<e, m>>].token < lease'[<<e, n>>].token
  BY DEF FenceInv, LeasesInOrder, FencesStand
<1>5. \A e \in Exec : \A n \in 1..MaxAttempts : lease'[<<e, n>>].token > 0 => n <= current'[e]
  <2> TAKE e \in Exec
  <2> TAKE n \in 1..MaxAttempts
  <2>1. current[e] \in Nat /\ current'[e] \in Nat /\ current'[e] >= current[e]
    BY DEF TypeOK, FencesStand
  <2> QED
    BY <2>1 DEF FenceInv, LeasesInOrder, FencesStand
<1>6. \A k \in Key : lease'[k].token <= nextToken'
  BY DEF FenceInv, LeasesInOrder, FencesStand
<1>7. \A k \in Key : attempt'[k].fence > 0 <=> attempt'[k].status \notin {"absent", "prepared"}
  BY DEF FenceInv, LeasesInOrder, FencesStand
<1> QED
  BY <1>1, <1>2, <1>3, <1>4, <1>5, <1>6, <1>7 DEF FenceInv, FencesGrow, LeasesInOrder

\* Ending an attempt that has a fence keeps it.
LEMMA StandAfterEnd ==
    ASSUME TypeOK, NEW k \in Key, NEW t \in {"completed", "failed", "cancelled"}, SetAttempt(k, t),
           attempt[k].status # "prepared", UNCHANGED <<lease, nextToken, current>>
    PROVE  FencesStand
<1>1. /\ attempt'[k].status = t
      /\ attempt'[k].fence = attempt[k].fence /\ attempt'[k].expires = attempt[k].expires
      /\ \A m \in Key : m # k => attempt'[m] = attempt[m]
  BY SetAttemptEffect DEF AttemptStatus
<1>2. attempt[k].status = "active"
  BY DEF SetAttempt, AttemptMayChange
<1> QED
  BY <1>1, <1>2 DEF FencesStand, TypeOK

\* Marking leases as released changes neither their tokens nor their expiry.
LEMMA ReconciledTokens ==
    TypeOK => \A k \in Key : Reconciled[k].token = lease[k].token /\ Reconciled[k].expires = lease[k].expires
BY DEF TypeOK, Reconciled, LeaseType

\* A lease is reserved only for the current attempt, whose predecessors all have one.
LEMMA FencesReserve ==
    ASSUME TypeOK, TypeOK', AttemptsAgree, FenceInv,
           NEW e \in Exec, NEW n \in 1..MaxAttempts, NEW x, ReserveCapacity(e, n, x)
    PROVE  FenceInv'
<1> USE KeyParts
<1>1. /\ lease'[<<e, n>>].token = nextToken + 1 /\ lease[<<e, n>>].token = 0
      /\ \A k \in Key : k # <<e, n>> =>
            lease'[k].token = lease[k].token /\ lease'[k].expires = lease[k].expires
  BY ReconciledTokens DEF ReserveCapacity, NewToken, Reconciled
<1>2. UNCHANGED <<attempt, current>> /\ nextToken' = nextToken + 1 /\ n <= current[e]
  BY DEF ReserveCapacity, executionVars, NewToken
<1>3. nextToken \in Nat /\ \A k \in Key : lease[k].token \in Nat /\ lease[k].token <= nextToken
  BY DEF TypeOK, LeaseType, FenceInv, LeasesInOrder
<1>4. attempt[<<e, n>>].fence = 0
  <2>1. attempt[<<e, n>>].fence \in Nat
    BY DEF TypeOK, AttemptType
  <2> QED
    BY <1>1, <2>1 DEF FenceInv, FencesGrow
<1>5. ASSUME NEW m \in 1..MaxAttempts, m < n PROVE lease[<<e, m>>].token > 0
  <2>1. current[e] \in Nat /\ m < current[e]
    BY <1>2, <1>5 DEF TypeOK
  <2>2. attempt[<<e, m>>].status \notin {"absent", "prepared"}
    <3>1. attempt[<<e, m>>].status = "absent" => m > current[e]
      BY DEF AttemptsAgree
    <3>2. attempt[<<e, m>>].status = "prepared" => m = current[e]
      BY DEF AttemptsAgree
    <3> QED
      BY <2>1, <3>1, <3>2
  <2>3. <<e, m>> \in Key
    OBVIOUS
  <2>4. attempt[<<e, m>>].fence > 0
    BY <2>2, <2>3 DEF FenceInv, LeasesInOrder
  <2> QED
    BY <2>3, <2>4 DEF FenceInv, FencesGrow
<1>6. \A m \in 1..MaxAttempts : lease[<<e, m>>].token > 0 => m < n
  <2> TAKE m \in 1..MaxAttempts
  <2>1. m > n /\ lease[<<e, m>>].token > 0 => lease[<<e, n>>].token > 0
    BY DEF FenceInv, LeasesInOrder
  <2> QED
    BY <1>1, <2>1
<1>7. FencesGrow'
  <2>1. \A k \in Key : attempt'[k].fence > 0 =>
            attempt'[k].fence = lease'[k].token /\ attempt'[k].expires = lease'[k].expires
    BY <1>1, <1>2, <1>4 DEF FenceInv, FencesGrow
  <2>2. \A k, m \in Key : k # m /\ lease'[k].token > 0 => lease'[k].token # lease'[m].token
    BY <1>1, <1>3 DEF FenceInv, FencesGrow
  <2>3. \A d \in Exec : \A m, i \in 1..MaxAttempts :
            m < i /\ attempt'[<<d, i>>].fence > 0 =>
                0 < attempt'[<<d, m>>].fence /\ attempt'[<<d, m>>].fence < attempt'[<<d, i>>].fence
    BY <1>2 DEF FenceInv, FencesGrow
  <2> QED
    BY <2>1, <2>2, <2>3 DEF FencesGrow
<1>8. LeasesInOrder'
  <2>1. \A k \in Key : lease'[k].token <= nextToken'
    BY <1>1, <1>2, <1>3
  <2>2. \A d \in Exec : \A m \in 1..MaxAttempts : lease'[<<d, m>>].token > 0 => m <= current'[d]
    BY <1>1, <1>2 DEF FenceInv, LeasesInOrder
  <2>3. ASSUME NEW d \in Exec, NEW m \in 1..MaxAttempts, NEW i \in 1..MaxAttempts,
               m < i, lease'[<<d, i>>].token > 0
        PROVE  0 < lease'[<<d, m>>].token /\ lease'[<<d, m>>].token < lease'[<<d, i>>].token
    <3>1. CASE <<d, i>> = <<e, n>>
      BY <1>1, <1>3, <1>5, <2>3, <3>1
    <3>2. CASE <<d, i>> # <<e, n>> /\ <<d, m>> = <<e, n>>
      BY <1>1, <1>6, <2>3, <3>2
    <3>3. CASE <<d, i>> # <<e, n>> /\ <<d, m>> # <<e, n>>
      BY <1>1, <2>3, <3>3 DEF FenceInv, LeasesInOrder
    <3> QED
      BY <3>1, <3>2, <3>3
  <2>4. \A k \in Key : attempt'[k].fence > 0 <=> attempt'[k].status \notin {"absent", "prepared"}
    BY <1>2 DEF FenceInv, LeasesInOrder
  <2> QED
    BY <2>1, <2>2, <2>3, <2>4 DEF LeasesInOrder
<1> QED
  BY <1>7, <1>8 DEF FenceInv

\* The activated attempt takes the token of its lease, the largest of its execution.
LEMMA FencesActivate ==
    ASSUME TypeOK, TypeOK', AttemptsAgree, FenceInv,
           NEW e \in Exec, NEW n \in 1..MaxAttempts, ActivateAttempt(e, n)
    PROVE  FenceInv'
<1> USE KeyParts
<1>1. current[e] = n /\ lease[<<e, n>>].token > 0 /\ attempt[<<e, n>>].status = "prepared"
  BY DEF ActivateAttempt, LeaseUsable
<1>2. UNCHANGED <<lease, nextToken, current>>
  BY DEF ActivateAttempt, leaseVars
<1>3. /\ attempt'[<<e, n>>].status = "active" /\ attempt'[<<e, n>>].fence = lease[<<e, n>>].token
      /\ attempt'[<<e, n>>].expires = lease[<<e, n>>].expires
      /\ \A k \in Key : k # <<e, n>> => attempt'[k] = attempt[k]
  BY DEF ActivateAttempt, TypeOK
<1>4. \A k \in Key : attempt[k].fence \in Nat
  BY DEF TypeOK, AttemptType
<1>5. ASSUME NEW m \in 1..MaxAttempts, m < n
      PROVE  /\ 0 < attempt[<<e, m>>].fence
             /\ attempt[<<e, m>>].fence < lease[<<e, n>>].token
  <2>1. attempt[<<e, m>>].status \notin {"absent", "prepared"}
    BY <1>1, <1>5 DEF AttemptsAgree
  <2>2. attempt[<<e, m>>].fence > 0
    BY <2>1 DEF FenceInv, LeasesInOrder
  <2> QED
    BY <1>1, <1>5, <2>2 DEF FenceInv, FencesGrow, LeasesInOrder
<1>6. ASSUME NEW m \in 1..MaxAttempts, m > n PROVE attempt[<<e, m>>].fence = 0
  <2>1. attempt[<<e, m>>].status = "absent"
    BY <1>1, <1>6 DEF AttemptsAgree
  <2> QED
    BY <1>4, <2>1 DEF FenceInv, LeasesInOrder
<1>7. FencesGrow'
  <2>1. \A k \in Key : attempt'[k].fence > 0 =>
            attempt'[k].fence = lease'[k].token /\ attempt'[k].expires = lease'[k].expires
    BY <1>2, <1>3 DEF FenceInv, FencesGrow
  <2>2. \A k, m \in Key : k # m /\ lease'[k].token > 0 => lease'[k].token # lease'[m].token
    BY <1>2 DEF FenceInv, FencesGrow
  <2>3. ASSUME NEW d \in Exec, NEW m \in 1..MaxAttempts, NEW i \in 1..MaxAttempts,
               m < i, attempt'[<<d, i>>].fence > 0
        PROVE  0 < attempt'[<<d, m>>].fence /\ attempt'[<<d, m>>].fence < attempt'[<<d, i>>].fence
    <3>1. CASE <<d, i>> = <<e, n>>
      BY <1>3, <1>5, <2>3, <3>1
    <3>2. CASE <<d, i>> # <<e, n>> /\ <<d, m>> = <<e, n>>
      BY <1>3, <1>6, <2>3, <3>2
    <3>3. CASE <<d, i>> # <<e, n>> /\ <<d, m>> # <<e, n>>
      BY <1>3, <2>3, <3>3 DEF FenceInv, FencesGrow
    <3> QED
      BY <3>1, <3>2, <3>3
  <2> QED
    BY <2>1, <2>2, <2>3 DEF FencesGrow
<1>8. LeasesInOrder'
  <2>1. \A k \in Key : attempt'[k].fence > 0 <=> attempt'[k].status \notin {"absent", "prepared"}
    BY <1>1, <1>3 DEF FenceInv, LeasesInOrder
  <2> QED
    BY <1>2, <2>1 DEF FenceInv, LeasesInOrder
<1> QED
  BY <1>7, <1>8 DEF FenceInv

\* Every transaction keeps leases and fences in order.
LEMMA FenceStep ==
    TypeOK /\ TypeOK' /\ AttemptsAgree /\ FenceInv /\ [Next]_vars => FenceInv'
<1> SUFFICES ASSUME TypeOK, TypeOK', AttemptsAgree, FenceInv, [Next]_vars PROVE FenceInv'
  OBVIOUS
<1>0. \A e \in Exec : current[e] \in Nat
  BY DEF TypeOK
<1>1. ASSUME UNCHANGED <<attempt, current, lease, nextToken>> PROVE FencesStand
  BY <1>0, <1>1 DEF FencesStand
<1>2. ASSUME NEW e \in Exec, PrepareAttempt(e) PROVE FencesStand
  <2>1. UNCHANGED <<lease, nextToken>>
    BY <1>2 DEF PrepareAttempt, leaseVars
  <2>2. \A d \in Exec : current'[d] >= current[d]
    BY <1>0, <1>2 DEF PrepareAttempt, TypeOK
  <2>3. ASSUME NEW k \in Key
        PROVE  /\ attempt'[k].fence = attempt[k].fence /\ attempt'[k].expires = attempt[k].expires
               /\ attempt'[k].status \in {"absent", "prepared"} <=> attempt[k].status \in {"absent", "prepared"}
    <3>0. attempt[k] \in AttemptType
      BY DEF TypeOK
    <3>1. CASE k = <<e, current[e] + 1>>
      <4>1. attempt'[k] = [attempt[k] EXCEPT !.status = "prepared"]
        BY <1>2, <3>1 DEF PrepareAttempt
      <4>2. current[e] + 1 \in 1..MaxAttempts
        BY <1>0, <1>2 DEF PrepareAttempt
      <4>3. attempt[k].status = "absent" <=> current[e] + 1 > current[e]
        BY <3>1, <4>2 DEF AttemptsAgree
      <4> QED
        BY <1>0, <3>0, <4>1, <4>3 DEF AttemptType
    <3>2. CASE k # <<e, current[e] + 1>> /\ k = <<e, current[e]>> /\ attempt[k].status = "active"
      <4>1. attempt'[k] = [attempt[k] EXCEPT !.status = "expired"]
        BY <1>2, <3>2 DEF PrepareAttempt
      <4> QED
        BY <3>0, <3>2, <4>1 DEF AttemptType
    <3>3. CASE k # <<e, current[e] + 1>> /\ ~(k = <<e, current[e]>> /\ attempt[k].status = "active")
      BY <1>2, <3>3 DEF PrepareAttempt
    <3> QED
      BY <3>1, <3>2, <3>3
  <2> QED
    BY <2>1, <2>2, <2>3 DEF FencesStand
<1>3. ASSUME NEW e \in Exec, NEW n \in 1..MaxAttempts, FailAttempt(e, n) PROVE FencesStand
  BY <1>3, KeyParts, StandAfterEnd DEF FailAttempt, DispatchRecorded, leaseVars
<1>4. ASSUME NEW e \in Exec, CompleteCancel(e) PROVE FencesStand
  <2>1. CASE current[e] = 0
    BY <1>1, <1>4, <2>1 DEF CompleteCancel, leaseVars
  <2>2. CASE current[e] # 0
    <3>1. <<e, current[e]>> \in Key
      BY <2>2, KeyParts DEF TypeOK
    <3>2. attempt[<<e, current[e]>>].status # "prepared"
      <4>1. attempt[<<e, current[e]>>].fence >= 1 /\ attempt[<<e, current[e]>>].fence \in Nat
        BY <1>4, <2>2, <3>1 DEF CompleteCancel, CanEnvelope, TypeOK, AttemptType
      <4> QED
        BY <3>1, <4>1 DEF FenceInv, LeasesInOrder
    <3> QED
      BY <1>4, <2>2, <3>1, <3>2, StandAfterEnd DEF CompleteCancel, leaseVars
  <2> QED
    BY <2>1, <2>2
<1>5. ASSUME NEW e \in Exec, NEW n \in 1..MaxAttempts, NEW s, NEW u, PollStatus(e, n, s, u)
      PROVE  FencesStand
  <2>1. CASE u > CostCap
    BY <1>5, <2>1, KeyParts, StandAfterEnd DEF PollStatus, Holds, leaseVars
  <2>2. CASE ~(u > CostCap)
    BY <1>1, <1>5, <2>2 DEF PollStatus, leaseVars
  <2> QED
    BY <2>1, <2>2
<1>6. ASSUME NEW e \in Exec, NEW n \in 1..MaxAttempts, NEW s, NEW u, NEW c, Holds(e, n),
             ApplyTerminal(e, n, s, u, c), UNCHANGED leaseVars
      PROVE  FencesStand
  <2>1. \E t \in {"completed", "failed"} : SetAttempt(<<e, n>>, t)
    BY <1>6 DEF ApplyTerminal
  <2> QED
    BY <1>6, <2>1, KeyParts, StandAfterEnd DEF ApplyTerminal, Holds, leaseVars
<1>7. ASSUME NEW o \in observing, NEW c \in Content, Reconcile(o, c) PROVE FencesStand
  <2>1. o.e \in Exec /\ o.n \in 1..MaxAttempts /\ UNCHANGED leaseVars
    BY <1>7 DEF TypeOK, Reconcile
  <2>2. CASE UNCHANGED <<executionVars, attempt>>
    BY <1>1, <2>1, <2>2 DEF executionVars, leaseVars
  <2>3. CASE Holds(o.e, o.n) /\ ApplyTerminal(o.e, o.n, o.status, o.used, c)
    BY <1>6, <2>1, <2>3
  <2> QED
    BY <1>7, <2>2, <2>3 DEF Reconcile
<1>8. ASSUME NEW e \in Exec, NEW n \in 1..MaxAttempts, NEW f, NEW s, NEW u, NEW c,
             ApplyCallback(e, n, f, s, u, c)
      PROVE  FencesStand
  <2>1. UNCHANGED leaseVars
    BY <1>8 DEF ApplyCallback
  <2>2. CASE UNCHANGED <<executionVars, attempt>>
    BY <1>1, <2>1, <2>2 DEF executionVars, leaseVars
  <2>3. CASE Holds(e, n) /\ ApplyTerminal(e, n, s, u, c)
    BY <1>6, <2>1, <2>3
  <2> QED
    BY <1>8, <2>2, <2>3 DEF ApplyCallback
<1>9. ASSUME NEW e \in Exec, NEW n \in 1..MaxAttempts, ReleaseCapacity(e, n) PROVE FencesStand
  <2>1. \A k \in Key : lease'[k].token = lease[k].token /\ lease'[k].expires = lease[k].expires
    BY <1>9, KeyParts DEF ReleaseCapacity, TypeOK, LeaseType
  <2> QED
    BY <1>0, <1>9, <2>1 DEF ReleaseCapacity, executionVars, FencesStand
<1>10. ASSUME NEW m \in 1..MaxConcurrency, UpdateCapacity(m) PROVE FencesStand
  BY <1>0, <1>10, ReconciledTokens DEF UpdateCapacity, executionVars, FencesStand
<1>11. ASSUME NEW e \in Exec, Create(e) \/ RequestCancel(e) PROVE FencesStand
  BY <1>1, <1>11 DEF Create, RequestCancel, leaseVars
<1>12. ASSUME NEW e \in Exec, NEW n \in 1..MaxAttempts, SendCreate(e, n) PROVE FencesStand
  BY <1>1, <1>12 DEF SendCreate, executionVars, leaseVars
<1>13. ASSUME NEW o \in observing, PollEnds(o) PROVE FencesStand
  BY <1>1, <1>13 DEF PollEnds, executionVars, leaseVars
<1>14. CASE Tick \/ UNCHANGED vars
  BY <1>1, <1>14, FencesStandKept DEF Tick, vars, executionVars, leaseVars
<1> QED
  BY <1>2, <1>3, <1>4, <1>5, <1>7, <1>8, <1>9, <1>10, <1>11, <1>12, <1>13, <1>14,
     FencesStandKept, FencesReserve, FencesActivate
     DEF Next, Dispatch, Cancel, Poll, HandleCallback
-----------------------------------------------------------------------------
\* The leases left unreleased once the expired ones are marked are the live ones.
LEMMA UnreleasedReconciled ==
    TypeOK => {k \in Key : Reconciled[k].token > 0 /\ ~Reconciled[k].released} = Live
<1> SUFFICES ASSUME TypeOK, NEW k \in Key
             PROVE  Reconciled[k].token > 0 /\ ~Reconciled[k].released <=> k \in Live
  BY DEF Live, Unreleased
<1>1. lease[k] \in LeaseType
  BY DEF TypeOK
<1>2. CASE k \in Unreleased \ Live
  BY <1>1, <1>2 DEF Reconciled, LeaseType
<1>3. CASE k \notin Unreleased \ Live
  <2>1. Reconciled[k] = lease[k]
    BY <1>3 DEF Reconciled
  <2> QED
    BY <1>3, <2>1 DEF Unreleased, Live
<1> QED
  BY <1>2, <1>3

\* Reserving, releasing and changing the limit keep the counter exact.
LEMMA CapacityStep == TypeOK /\ CapacityExact /\ [Next]_vars => CapacityExact'
<1> SUFFICES ASSUME TypeOK, CapacityExact, [Next]_vars PROVE CapacityExact'
  OBVIOUS
<1>1. ASSUME UNCHANGED leaseVars PROVE CapacityExact'
  BY <1>1 DEF leaseVars, CapacityExact, Unreleased
<1>2. ASSUME NEW e \in Exec, NEW n \in 1..MaxAttempts, NEW x, ReserveCapacity(e, n, x)
      PROVE  CapacityExact'
  <2> DEFINE k == <<e, n>>
  <2>1. k \in Key /\ k \notin Live
    BY <1>2, KeyParts DEF ReserveCapacity, Live, Unreleased
  <2>2. Unreleased' = Live \cup {k}
    <3>1. lease'[k].token = NewToken /\ lease'[k].released = FALSE /\ NewToken > 0
      BY <1>2, <2>1 DEF ReserveCapacity, Reconciled, NewToken, TypeOK
    <3>2. \A m \in Key : m # k => lease'[m] = Reconciled[m]
      BY <1>2 DEF ReserveCapacity, Reconciled
    <3> QED
      BY <2>1, <3>1, <3>2, UnreleasedReconciled DEF Unreleased
  <2>3. Cardinality(Unreleased') = Cardinality(Live) + 1
    BY <2>1, <2>2, FiniteLeases, FS_AddElement
  <2>4. activeCapacity' = Cardinality(Live) + 1 /\ Cardinality(Live) < maxConcurrency
        /\ UNCHANGED maxConcurrency
    BY <1>2 DEF ReserveCapacity, CapacityLeft
  <2> QED
    BY <2>3, <2>4, FiniteLeases DEF CapacityExact, TypeOK
<1>3. ASSUME NEW e \in Exec, NEW n \in 1..MaxAttempts, ReleaseCapacity(e, n) PROVE CapacityExact'
  <2> DEFINE k == <<e, n>>
  <2>1. k \in Unreleased
    BY <1>3, KeyParts DEF ReleaseCapacity, LeaseHeld, Unreleased
  <2>2. Unreleased' = Unreleased \ {k}
    <3>1. lease'[k].released = TRUE /\ \A m \in Key : m # k => lease'[m] = lease[m]
      BY <1>3, KeyParts DEF ReleaseCapacity, TypeOK, LeaseType
    <3> QED
      BY <3>1 DEF Unreleased
  <2>3. Cardinality(Unreleased') = Cardinality(Unreleased) - 1
    BY <2>1, <2>2, FiniteLeases, FS_RemoveElement
  <2>4. Cardinality(Unreleased') \in Nat
    BY <2>2, FiniteLeases, FS_RemoveElement, FS_CardinalityType
  <2>5. /\ activeCapacity' = IF activeCapacity > 0 THEN activeCapacity - 1 ELSE 0
        /\ UNCHANGED maxConcurrency
    BY <1>3 DEF ReleaseCapacity
  <2> QED
    BY <2>3, <2>4, <2>5, FiniteLeases DEF CapacityExact, TypeOK
<1>4. ASSUME NEW m \in 1..MaxConcurrency, UpdateCapacity(m) PROVE CapacityExact'
  <2>1. Unreleased' = Live
    BY <1>4, UnreleasedReconciled DEF UpdateCapacity, Unreleased
  <2> QED
    BY <1>4, <2>1, FiniteLeases DEF UpdateCapacity, CapacityExact
<1>5. ASSUME NEW e \in Exec, \/ Create(e) \/ PrepareAttempt(e) \/ RequestCancel(e) \/ CompleteCancel(e)
      PROVE  CapacityExact'
  BY <1>1, <1>5 DEF Create, PrepareAttempt, RequestCancel, CompleteCancel
<1>6. ASSUME NEW e \in Exec, NEW n \in 1..MaxAttempts,
             ActivateAttempt(e, n) \/ SendCreate(e, n) \/ FailAttempt(e, n)
      PROVE  CapacityExact'
  BY <1>1, <1>6 DEF ActivateAttempt, SendCreate, FailAttempt
<1>7. CASE Poll \/ HandleCallback
  <2>1. ASSUME NEW e, NEW n, NEW s, NEW u, PollStatus(e, n, s, u) PROVE UNCHANGED leaseVars
    BY <2>1 DEF PollStatus
  <2>2. ASSUME NEW o, PollEnds(o) \/ \E c \in Content : Reconcile(o, c) PROVE UNCHANGED leaseVars
    BY <2>2 DEF PollEnds, Reconcile
  <2>3. ASSUME NEW e, NEW n, NEW f, NEW s, NEW u, NEW c, ApplyCallback(e, n, f, s, u, c)
        PROVE  UNCHANGED leaseVars
    BY <2>3 DEF ApplyCallback
  <2> QED
    BY <1>1, <1>7, <2>1, <2>2, <2>3 DEF Poll, HandleCallback
<1>8. CASE Tick \/ UNCHANGED vars
  BY <1>1, <1>8 DEF Tick, vars
<1> QED
  BY <1>2, <1>3, <1>4, <1>5, <1>6, <1>7, <1>8 DEF Next, Dispatch, Cancel

\* The tables agree before the first execution.
LEMMA TablesInit == Init => TablesInv
<1> SUFFICES ASSUME Init PROVE TablesInv
  OBVIOUS
<1>1. \A k \in Key : attempt[k] = NoAttempt /\ lease[k] = NoLease
  BY DEF Init
<1>2. \A e \in Exec : current[e] = 0 /\ status[e] = "absent"
  BY DEF Init
<1>3. AttemptsAgree
  BY <1>1, <1>2, KeyParts DEF AttemptsAgree, NoAttempt
<1>4. FencesGrow /\ LeasesInOrder
  BY <1>1, KeyParts DEF FencesGrow, LeasesInOrder, NoAttempt, NoLease, Init
<1>5. CapacityExact
  <2>1. Unreleased = {}
    BY <1>1 DEF Unreleased, NoLease
  <2> QED
    BY <2>1, FS_EmptySet DEF CapacityExact, Init
<1> QED
  BY <1>3, <1>4, <1>5, TypeInit DEF TablesInv

\* The four tables keep agreeing.
LEMMA TablesStep == TablesInv /\ [Next]_vars => TablesInv'
BY TypeStep, AgreeStep, FenceStep, CapacityStep DEF TablesInv, FenceInv

\* The strengthened agreement of the tables always holds.
LEMMA TablesAlways == Spec => []TablesInv
BY TablesInit, TablesStep, PTL DEF Spec

\* For any number of executions, attempts, callers that stall or die, refusals and expired
\* leases: logical_executions, execution_attempts, agent_capacity_leases and the counter on
\* the agent's row agree after every transaction (store.go of execution and agent).
THEOREM TablesAlwaysAgree == Spec => []TablesAgree
<1>1. TablesInv => TablesAgree
  BY DEF TablesInv, TablesAgree
<1> QED
  BY <1>1, TablesAlways, PTL
-----------------------------------------------------------------------------
\* Transactions without a report: completed attempts stay completed and none becomes so.
LEMMA ReportsUnchanged ==
    ASSUME TypeOK, ReportsInv, UNCHANGED <<callback, poll, result>>,
           \A k \in Key : attempt[k].status \in {"completed", "failed"} \/ attempt'[k].status = "completed"
                => attempt'[k].status = attempt[k].status,
           \A e \in Exec : status[e] = "succeeded" \/ status'[e] = "succeeded"
                => status'[e] = status[e] /\ current'[e] = current[e]
    PROVE  ReportsInv'
<1>1. ASSUME NEW k \in Key
      PROVE  /\ Ends(callback'[k]) \/ Ends(poll'[k]) => attempt'[k].status \in {"completed", "failed"}
             /\ ~(Ends(callback'[k]) /\ Ends(poll'[k]))
             /\ attempt'[k].status = "completed" <=> Succeeds(callback'[k]) \/ Succeeds(poll'[k])
  BY DEF ReportsInv
<1>2. ASSUME NEW e \in Exec, NEW n \in 1..MaxAttempts, attempt'[<<e, n>>].status = "completed"
      PROVE  status'[e] = "succeeded" /\ n = current'[e]
  BY <1>2, KeyParts DEF ReportsInv
<1>3. ASSUME NEW e \in Exec PROVE status'[e] = "succeeded" <=> result'[e] # NoContent
  BY DEF ReportsInv
<1> QED
  BY <1>1, <1>2, <1>3 DEF ReportsInv, Ends, Succeeds

\* A report that is stored and changes nothing: late, stale or already known.
LEMMA ReportStored ==
    ASSUME TypeOK, ReportsInv, NEW k \in Key, NEW r \in ReportType, ~Ends(r),
           UNCHANGED <<executionVars, attempt>>,
           \/ callback[k].outcome = "none" /\ callback' = [callback EXCEPT ![k] = r] /\ UNCHANGED poll
           \/ poll[k].outcome = "none" /\ poll' = [poll EXCEPT ![k] = r] /\ UNCHANGED callback
    PROVE  ReportsInv'
<1>1. ASSUME NEW m \in Key
      PROVE  /\ Ends(callback'[m]) <=> Ends(callback[m])
             /\ Ends(poll'[m]) <=> Ends(poll[m])
             /\ Succeeds(callback'[m]) <=> Succeeds(callback[m])
             /\ Succeeds(poll'[m]) <=> Succeeds(poll[m])
  <2>1. CASE m = k
    BY <2>1 DEF Ends, Succeeds, TypeOK
  <2>2. CASE m # k
    BY <2>2 DEF TypeOK
  <2> QED
    BY <2>1, <2>2
<1>2. /\ \A m \in Key :
          /\ Ends(callback'[m]) \/ Ends(poll'[m]) => attempt'[m].status \in {"completed", "failed"}
          /\ ~(Ends(callback'[m]) /\ Ends(poll'[m]))
          /\ attempt'[m].status = "completed" <=> Succeeds(callback'[m]) \/ Succeeds(poll'[m])
  BY <1>1 DEF ReportsInv
<1> QED
  BY <1>2 DEF ReportsInv, executionVars, Ends, Succeeds

\* The report that ends the live attempt: the only one of its attempt, and the first of the
\* execution that brings a result.
LEMMA ReportApplied ==
    ASSUME TypeOK, AttemptsAgree, ReportsInv, NEW e \in Exec, NEW n \in 1..MaxAttempts, Holds(e, n),
           NEW s, NEW u \in Cost, NEW c \in Content, ApplyTerminal(e, n, s, u, c),
           \/ callback' = [callback EXCEPT ![<<e, n>>] = Applied(s, u)] /\ UNCHANGED poll
           \/ poll' = [poll EXCEPT ![<<e, n>>] = Applied(s, u)] /\ UNCHANGED callback
    PROVE  ReportsInv'
<1> DEFINE k == <<e, n>>
           won == u <= CostCap /\ s = "succeeded"
<1>1. k \in Key /\ attempt[k].status = "active" /\ current[e] = n /\ UNCHANGED current
  BY KeyParts DEF Holds, ApplyTerminal
<1>2. ~Ends(callback[k]) /\ ~Ends(poll[k]) /\ ~Succeeds(callback[k]) /\ ~Succeeds(poll[k])
  BY <1>1 DEF ReportsInv, Ends, Succeeds
<1>3. Ends(Applied(s, u)) /\ (Succeeds(Applied(s, u)) <=> won)
  BY DEF Applied, Ends, Succeeds, Cost
<1>4. /\ attempt'[k].status = IF won THEN "completed" ELSE "failed"
      /\ \A m \in Key : m # k => attempt'[m] = attempt[m]
  <2>1. SetAttempt(k, IF won THEN "completed" ELSE "failed")
    BY DEF ApplyTerminal, Cost
  <2> QED
    BY <1>1, <2>1, SetAttemptEffect DEF AttemptStatus
<1>5. /\ status'[e] = "succeeded" <=> won
      /\ \A d \in Exec : d # e => status'[d] = status[d]
  <2>1. PICK x \in {"succeeded", "failed", "cost_stopped"} :
            SetStatus(e, x) /\ (x = "succeeded" <=> won)
    BY DEF ApplyTerminal, Cost
  <2> QED
    BY <2>1, SetStatusEffect DEF ExecutionStatus
<1>6. status[e] # "succeeded"
  <2>1. n > 0 /\ attempt[k].status \in AttemptOf(status[e])
    BY <1>1 DEF AttemptsAgree
  <2> QED
    BY <1>1, <2>1 DEF AttemptOf
<1>7. /\ result'[e] # NoContent <=> won
      /\ \A d \in Exec : d # e => result'[d] = result[d]
  <2>1. result[e] = NoContent
    BY <1>6 DEF ReportsInv
  <2>2. IF won THEN result' = [result EXCEPT ![e] = c] ELSE UNCHANGED result
    BY DEF ApplyTerminal, Cost
  <2> QED
    BY <2>1, <2>2 DEF TypeOK
<1>8. ASSUME NEW m \in Key
      PROVE  /\ Ends(callback'[m]) \/ Ends(poll'[m]) => attempt'[m].status \in {"completed", "failed"}
             /\ ~(Ends(callback'[m]) /\ Ends(poll'[m]))
             /\ attempt'[m].status = "completed" <=> Succeeds(callback'[m]) \/ Succeeds(poll'[m])
  <2>1. CASE m = k
    <3>1. \/ callback'[k] = Applied(s, u) /\ poll'[k] = poll[k]
          \/ poll'[k] = Applied(s, u) /\ callback'[k] = callback[k]
      BY <1>1 DEF TypeOK
    <3> QED
      BY <1>2, <1>3, <1>4, <2>1, <3>1
  <2>2. CASE m # k
    <3>1. callback'[m] = callback[m] /\ poll'[m] = poll[m] /\ attempt'[m] = attempt[m]
      BY <1>4, <2>2 DEF TypeOK
    <3> QED
      BY <3>1 DEF ReportsInv
  <2> QED
    BY <2>1, <2>2
<1>9. ASSUME NEW d \in Exec, NEW m \in 1..MaxAttempts, attempt'[<<d, m>>].status = "completed"
      PROVE  status'[d] = "succeeded" /\ m = current'[d]
  <2>1. CASE <<d, m>> = k
    BY <1>1, <1>4, <1>5, <1>9, <2>1
  <2>2. CASE <<d, m>> # k
    <3>1. attempt[<<d, m>>].status = "completed"
      BY <1>4, <1>9, <2>2, KeyParts
    <3>2. status[d] = "succeeded" /\ m = current[d]
      BY <3>1 DEF ReportsInv
    <3> QED
      BY <1>1, <1>5, <1>6, <3>2
  <2> QED
    BY <2>1, <2>2
<1>10. ASSUME NEW d \in Exec PROVE status'[d] = "succeeded" <=> result'[d] # NoContent
  BY <1>5, <1>7 DEF ReportsInv
<1> QED
  BY <1>8, <1>9, <1>10 DEF ReportsInv, Ends, Succeeds

\* An attempt that ends without a report was not completed, and does not become so.
LEMMA ReportsAfterEnd ==
    ASSUME TypeOK, ReportsInv, NEW e \in Exec, NEW k \in Key,
           NEW t \in {"failed", "cancelled"}, SetAttempt(k, t),
           NEW s \in {"failed", "cost_stopped", "cancelled"}, SetStatus(e, s),
           UNCHANGED <<current, result, callback, poll>>
    PROVE  ReportsInv'
<1>1. attempt'[k].status = t /\ \A m \in Key : m # k => attempt'[m] = attempt[m]
  BY SetAttemptEffect DEF AttemptStatus
<1>2. attempt[k].status \in {"prepared", "active"}
  BY DEF SetAttempt, AttemptMayChange
<1>3. status'[e] = s /\ \A d \in Exec : d # e => status'[d] = status[d]
  BY SetStatusEffect DEF ExecutionStatus
<1>4. status[e] # "succeeded"
  BY DEF SetStatus, StatusMayChange, Final
<1> QED
  BY <1>1, <1>2, <1>3, <1>4, ReportsUnchanged

\* Every transaction keeps one successful report per completed attempt.
LEMMA ReportsStep == TypeOK /\ AttemptsAgree /\ ReportsInv /\ [Next]_vars => ReportsInv'
<1> SUFFICES ASSUME TypeOK, AttemptsAgree, ReportsInv, [Next]_vars PROVE ReportsInv'
  OBVIOUS
<1> DEFINE Untouched == UNCHANGED <<executionVars, attempt, reportVars>>
<1>1. ASSUME Untouched PROVE ReportsInv'
  BY <1>1 DEF ReportsInv, executionVars, reportVars, Ends, Succeeds
<1>2. ASSUME NEW e \in Exec, NEW s \in {"pending", "running", "cancel_requested", "cancelled"},
             (status[e] = "absent" /\ status' = [status EXCEPT ![e] = s]) \/ SetStatus(e, s),
             UNCHANGED <<attempt, current, result, callback, poll>>
      PROVE  ReportsInv'
  <2>1. status[e] # "succeeded"
    BY <1>2 DEF SetStatus, StatusMayChange, Final
  <2>2. status'[e] = s /\ \A d \in Exec : d # e => status'[d] = status[d]
    BY <1>2 DEF SetStatus, TypeOK
  <2> QED
    BY <1>2, <2>1, <2>2, ReportsUnchanged
<1>3. ASSUME NEW e \in Exec, Create(e) \/ RequestCancel(e) PROVE ReportsInv'
  BY <1>2, <1>3 DEF Create, RequestCancel, reportVars
<1>4. ASSUME NEW e \in Exec, PrepareAttempt(e) PROVE ReportsInv'
  <2>1. status'[e] = "pending" /\ \A d \in Exec : d # e => status'[d] = status[d]
    BY <1>4, SetStatusEffect DEF PrepareAttempt, ExecutionStatus
  <2>2. status[e] # "succeeded" /\ \A d \in Exec : d # e => current'[d] = current[d]
    BY <1>4 DEF PrepareAttempt, Final, TypeOK
  <2>3. ASSUME NEW k \in Key,
               attempt[k].status \in {"completed", "failed"} \/ attempt'[k].status = "completed"
        PROVE  attempt'[k].status = attempt[k].status
    <3>0. attempt[k] \in AttemptType
      BY DEF TypeOK
    <3>1. CASE k = <<e, current[e] + 1>>
      <4>1. current[e] \in Nat /\ current[e] + 1 \in 1..MaxAttempts
        BY <1>4 DEF PrepareAttempt, TypeOK
      <4>2. attempt[k].status = "absent" <=> current[e] + 1 > current[e]
        BY <3>1, <4>1 DEF AttemptsAgree
      <4>3. attempt'[k] = [attempt[k] EXCEPT !.status = "prepared"]
        BY <1>4, <3>1 DEF PrepareAttempt
      <4> QED
        BY <2>3, <3>0, <4>1, <4>2, <4>3 DEF AttemptType
    <3>2. CASE k # <<e, current[e] + 1>> /\ k = <<e, current[e]>> /\ attempt[k].status = "active"
      <4>1. attempt'[k] = [attempt[k] EXCEPT !.status = "expired"]
        BY <1>4, <3>2 DEF PrepareAttempt
      <4> QED
        BY <2>3, <3>0, <3>2, <4>1 DEF AttemptType
    <3>3. CASE k # <<e, current[e] + 1>> /\ ~(k = <<e, current[e]>> /\ attempt[k].status = "active")
      BY <1>4, <3>3 DEF PrepareAttempt
    <3> QED
      BY <3>1, <3>2, <3>3
  <2>4. UNCHANGED <<callback, poll, result>>
    BY <1>4 DEF PrepareAttempt, reportVars
  <2> QED
    BY <2>1, <2>2, <2>3, <2>4, ReportsUnchanged
<1>5. ASSUME NEW e \in Exec, NEW n \in 1..MaxAttempts, ActivateAttempt(e, n) PROVE ReportsInv'
  <2>1. /\ attempt'[<<e, n>>].status = "active" /\ attempt[<<e, n>>].status = "prepared"
        /\ \A m \in Key : m # <<e, n>> => attempt'[m] = attempt[m]
    BY <1>5, KeyParts DEF ActivateAttempt, TypeOK
  <2>2. status'[e] = "running" /\ \A d \in Exec : d # e => status'[d] = status[d]
    BY <1>5, SetStatusEffect DEF ActivateAttempt, ExecutionStatus
  <2>3. status[e] # "succeeded"
    BY <1>5 DEF ActivateAttempt, SetStatus, StatusMayChange, Final
  <2>4. UNCHANGED <<callback, poll, result, current>>
    BY <1>5 DEF ActivateAttempt, reportVars
  <2> QED
    BY <2>1, <2>2, <2>3, <2>4, ReportsUnchanged
<1>6. ASSUME NEW e \in Exec, NEW n \in 1..MaxAttempts, FailAttempt(e, n) PROVE ReportsInv'
  BY <1>6, KeyParts, ReportsAfterEnd DEF FailAttempt, reportVars
<1>7. ASSUME NEW e \in Exec, CompleteCancel(e) PROVE ReportsInv'
  <2>1. CASE current[e] = 0
    BY <1>2, <1>7, <2>1 DEF CompleteCancel, reportVars
  <2>2. CASE current[e] # 0
    <3>1. <<e, current[e]>> \in Key
      BY <2>2, KeyParts DEF TypeOK
    <3> QED
      BY <1>7, <2>2, <3>1, ReportsAfterEnd DEF CompleteCancel, reportVars
  <2> QED
    BY <2>1, <2>2
<1>8. ASSUME NEW e \in Exec, NEW n \in 1..MaxAttempts, NEW s, NEW u, PollStatus(e, n, s, u)
      PROVE  ReportsInv'
  <2>1. UNCHANGED <<current, result, callback, poll>>
    BY <1>8 DEF PollStatus, reportVars
  <2>2. CASE u > CostCap
    BY <1>8, <2>1, <2>2, KeyParts, ReportsAfterEnd DEF PollStatus
  <2>3. CASE ~(u > CostCap)
    <3>1. UNCHANGED <<attempt, status>>
      BY <1>8, <2>3 DEF PollStatus
    <3> QED
      BY <2>1, <3>1, ReportsUnchanged
  <2> QED
    BY <2>2, <2>3
<1>9. ASSUME NEW o \in observing, NEW c \in Content, Reconcile(o, c) PROVE ReportsInv'
  <2>1. /\ o.e \in Exec /\ o.n \in 1..MaxAttempts /\ o.used \in Cost
        /\ o.status \in {"succeeded", "failed", "cancelled"} /\ <<o.e, o.n>> \in Key
    BY KeyParts DEF TypeOK, Cost
  <2>2. UNCHANGED callback
    BY <1>9 DEF Reconcile
  <2>3. CASE UNCHANGED <<executionVars, attempt>>
             /\ \E x \in {"stale_fence", "already_terminal", "late"} :
                    poll' = [poll EXCEPT ![<<o.e, o.n>>] = [outcome |-> x, status |-> o.status]]
    <3>1. PICK x \in {"stale_fence", "already_terminal", "late"} :
              poll' = [poll EXCEPT ![<<o.e, o.n>>] = [outcome |-> x, status |-> o.status]]
      BY <2>3
    <3>2. [outcome |-> x, status |-> o.status] \in ReportType /\ ~Ends([outcome |-> x, status |-> o.status])
      BY <2>1 DEF ReportType, Ends
    <3>3. poll[<<o.e, o.n>>].outcome = "none"
      BY <1>9 DEF Reconcile, PollFirst
    <3> QED
      BY <2>1, <2>2, <2>3, <3>1, <3>2, <3>3, ReportStored
  <2>4. CASE /\ Holds(o.e, o.n) /\ ApplyTerminal(o.e, o.n, o.status, o.used, c)
             /\ poll' = [poll EXCEPT ![<<o.e, o.n>>] = Applied(o.status, o.used)]
    BY <2>1, <2>2, <2>4, ReportApplied
  <2> QED
    BY <1>9, <2>3, <2>4 DEF Reconcile
<1>10. ASSUME NEW e \in Exec, NEW n \in 1..MaxAttempts, NEW f, NEW s \in {"succeeded", "failed"},
              NEW u \in Cost, NEW c \in Content, ApplyCallback(e, n, f, s, u, c)
       PROVE  ReportsInv'
  <2>1. <<e, n>> \in Key /\ UNCHANGED poll /\ callback[<<e, n>>].outcome = "none"
    BY <1>10, KeyParts DEF ApplyCallback, CallbackFirst
  <2>2. CASE UNCHANGED <<executionVars, attempt>>
             /\ \E x \in {"stale_fence", "late"} :
                    callback' = [callback EXCEPT ![<<e, n>>] = [outcome |-> x, status |-> s]]
    <3>1. PICK x \in {"stale_fence", "late"} :
              callback' = [callback EXCEPT ![<<e, n>>] = [outcome |-> x, status |-> s]]
      BY <2>2
    <3>2. [outcome |-> x, status |-> s] \in ReportType /\ ~Ends([outcome |-> x, status |-> s])
      BY DEF ReportType, Ends
    <3> QED
      BY <2>1, <2>2, <3>1, <3>2, ReportStored
  <2>3. CASE /\ Holds(e, n) /\ ApplyTerminal(e, n, s, u, c)
             /\ callback' = [callback EXCEPT ![<<e, n>>] = Applied(s, u)]
    BY <2>1, <2>3, ReportApplied
  <2> QED
    BY <1>10, <2>2, <2>3 DEF ApplyCallback
<1>11. ASSUME NEW e \in Exec, NEW n \in 1..MaxAttempts,
              \/ \E x \in 0..(MaxTime + LeaseTTL) : ReserveCapacity(e, n, x)
              \/ SendCreate(e, n) \/ ReleaseCapacity(e, n)
       PROVE  ReportsInv'
  BY <1>1, <1>11 DEF ReserveCapacity, SendCreate, ReleaseCapacity
<1>12. ASSUME NEW o \in observing, PollEnds(o) PROVE ReportsInv'
  BY <1>1, <1>12 DEF PollEnds
<1>13. CASE Tick \/ UNCHANGED vars \/ \E m \in 1..MaxConcurrency : UpdateCapacity(m)
  BY <1>1, <1>13 DEF Tick, vars, UpdateCapacity
<1> QED
  BY <1>3, <1>4, <1>5, <1>6, <1>7, <1>8, <1>9, <1>10, <1>11, <1>12, <1>13
     DEF Next, Dispatch, Cancel, Poll, HandleCallback

\* No report has been stored at first.
LEMMA ReportsInit == Init => ReportsInv
<1> SUFFICES ASSUME Init PROVE ReportsInv
  OBVIOUS
<1>1. \A k \in Key : callback[k] = NoReport /\ poll[k] = NoReport /\ attempt[k] = NoAttempt
  BY DEF Init
<1>2. \A e \in Exec : status[e] = "absent" /\ result[e] = NoContent
  BY DEF Init
<1> QED
  BY <1>1, <1>2, KeyParts DEF ReportsInv, Ends, Succeeds, NoReport, NoAttempt

\* Report x of an attempt, as Applications enumerates them.
LEMMA ApplicationParts ==
    ASSUME NEW e \in Exec, NEW x \in Applications(e)
    PROVE  /\ x[1] \in Key /\ x[1][1] = e /\ x[1][2] \in 1..MaxAttempts /\ x[1] = <<e, x[1][2]>>
           /\ x = <<x[1], x[2]>> /\ x[2] \in {"callback", "poll"}
           /\ x[2] = "poll" => Ends(poll[x[1]]) /\ (Success(x) <=> Succeeds(poll[x[1]]))
           /\ x[2] = "callback" => Ends(callback[x[1]]) /\ (Success(x) <=> Succeeds(callback[x[1]]))
BY DEF Applications, Success, Ends, Succeeds, Key

\* What holds attempt by attempt makes OneResult.
LEMMA ReportsCount == TypeOK /\ AttemptsAgree /\ ReportsInv => OneResult
<1> SUFFICES ASSUME TypeOK, AttemptsAgree, ReportsInv, NEW e \in Exec
             PROVE  /\ \A x, y \in Applications(e) : x[1] = y[1] => x = y
                    /\ Cardinality({x \in Applications(e) : Success(x)})
                            = IF status[e] = "succeeded" THEN 1 ELSE 0
                    /\ status[e] = "succeeded" <=> result[e] # NoContent
  BY DEF OneResult
<1> DEFINE Won == {x \in Applications(e) : Success(x)}
<1>1. \A x, y \in Applications(e) : x[1] = y[1] => x = y
  <2> TAKE x, y \in Applications(e)
  <2> HAVE x[1] = y[1]
  <2>1. x[1] \in Key /\ ~(Ends(callback[x[1]]) /\ Ends(poll[x[1]]))
    BY ApplicationParts DEF ReportsInv
  <2>2. x[2] = y[2]
    BY <2>1, ApplicationParts
  <2> QED
    BY <2>2, ApplicationParts
<1>2. ASSUME NEW x \in Won PROVE status[e] = "succeeded" /\ x[1] = <<e, current[e]>>
  <2>1. x[1] \in Key /\ attempt[x[1]].status = "completed"
    BY ApplicationParts DEF ReportsInv
  <2>2. x[1] = <<e, x[1][2]>> /\ x[1][2] \in 1..MaxAttempts
    BY ApplicationParts
  <2> QED
    BY <2>1, <2>2 DEF ReportsInv
<1>3. CASE status[e] = "succeeded"
  <2>1. current[e] \in 1..MaxAttempts /\ attempt[<<e, current[e]>>].status = "completed"
    BY <1>3 DEF TypeOK, AttemptsAgree, AttemptOf
  <2>2. <<e, current[e]>> \in Key
    BY <2>1, KeyParts
  <2>3. PICK x : x \in Won
    <3>1. CASE Succeeds(poll[<<e, current[e]>>])
      <4>1. <<<<e, current[e]>>, "poll">> \in Won
        BY <2>1, <3>1 DEF Applications, Success, Succeeds
      <4> QED
        BY <4>1
    <3>2. CASE Succeeds(callback[<<e, current[e]>>])
      <4>1. <<<<e, current[e]>>, "callback">> \in Won
        BY <2>1, <3>2 DEF Applications, Success, Succeeds
      <4> QED
        BY <4>1
    <3> QED
      BY <2>1, <2>2, <3>1, <3>2 DEF ReportsInv
  <2>4. Won = {x}
    <3>1. ASSUME NEW y \in Won PROVE y = x
      BY <1>1, <1>2, <2>3
    <3> QED
      BY <2>3, <3>1
  <2>5. Cardinality(Won) = 1
    BY <2>4, FS_Singleton
  <2> QED
    BY <1>1, <1>3, <2>5 DEF ReportsInv
<1>4. CASE status[e] # "succeeded"
  <2>1. Won = {}
    BY <1>2, <1>4
  <2>2. Cardinality(Won) = 0
    BY <2>1, FS_EmptySet
  <2> QED
    BY <1>1, <1>4, <2>2 DEF ReportsInv
<1> QED
  BY <1>3, <1>4

\* However callbacks and polls of any number of attempts race, repeat and come late: each
\* attempt is ended by at most one report, and work that succeeded was delivered by exactly
\* one (ApplyCallback and ApplyTerminalObservation of execution's store.go).
THEOREM ExactlyOneResult == Spec => []OneResult
<1>1. Init => TablesInv /\ ReportsInv
  BY TablesInit, ReportsInit
<1>2. TablesInv /\ ReportsInv /\ [Next]_vars => (TablesInv /\ ReportsInv)'
  BY TablesStep, ReportsStep DEF TablesInv
<1>3. TablesInv /\ ReportsInv => OneResult
  BY ReportsCount DEF TablesInv
<1> QED
  BY <1>1, <1>2, <1>3, PTL DEF Spec
-----------------------------------------------------------------------------
\* The phases of other executions do not change with a status.
LEMMA PhaseStep ==
    ASSUME TypeOK, NEW e \in Exec, NEW s \in ExecutionStatus,
           status' = [status EXCEPT ![e] = s]
    PROVE  [d \in Exec |-> PhaseOf(status[d])]'
               = [[d \in Exec |-> PhaseOf(status[d])] EXCEPT ![e] = PhaseOf(s)]
BY DEF TypeOK

\* Every transaction is a step of LogicalExecution or invisible to it.
LEMMA PromiseStep ==
    TypeOK /\ AttemptsAgree /\ [Next]_vars => [Promise!PromiseNext]_(Promise!promiseVars)
<1> SUFFICES ASSUME TypeOK, AttemptsAgree, [Next]_vars
             PROVE  Promise!PromiseNext \/ UNCHANGED Promise!promiseVars
  OBVIOUS
<1> DEFINE Still == UNCHANGED <<status, result, current>>
<1>1. ASSUME Still PROVE UNCHANGED Promise!promiseVars
  BY <1>1 DEF Promise!promiseVars
<1>2. ASSUME NEW e \in Exec, Create(e) PROVE Promise!Open(e)
  <2>1. status[e] = "absent" /\ status' = [status EXCEPT ![e] = "pending"] /\ UNCHANGED <<result, current>>
    BY <1>2 DEF Create
  <2> QED
    BY <2>1, PhaseStep DEF Promise!Open, Promise!Becomes, PhaseOf, ExecutionStatus
<1>3. ASSUME NEW e \in Exec, NEW s \in {"pending", "running", "failed"},
             status[e] \in {"pending", "running", "failed"}, SetStatus(e, s)
      PROVE  UNCHANGED [d \in Exec |-> PhaseOf(status[d])]
  BY <1>3, PhaseStep DEF SetStatus, PhaseOf, ExecutionStatus, TypeOK
<1>4. ASSUME NEW e \in Exec, PrepareAttempt(e) PROVE Promise!TryAgain(e)
  <2>1. status[e] \in {"pending", "running", "failed"}
    BY <1>4 DEF PrepareAttempt, TypeOK, ExecutionStatus, Final
  <2>2. UNCHANGED [d \in Exec |-> PhaseOf(status[d])]
    BY <1>3, <1>4, <2>1 DEF PrepareAttempt
  <2>3. current' = [current EXCEPT ![e] = current[e] + 1] /\ UNCHANGED result
    BY <1>4 DEF PrepareAttempt
  <2> QED
    BY <2>1, <2>2, <2>3 DEF Promise!TryAgain, PhaseOf
<1>5. ASSUME NEW e \in Exec, NEW n \in 1..MaxAttempts, ActivateAttempt(e, n) \/ FailAttempt(e, n)
      PROVE  UNCHANGED Promise!promiseVars
  <2>1. \E s \in {"running", "failed"} : SetStatus(e, s)
    BY <1>5 DEF ActivateAttempt, FailAttempt
  <2>2. status[e] \in {"pending", "running", "failed"}
    BY <2>1 DEF SetStatus, StatusMayChange
  <2>3. UNCHANGED <<current, result>>
    BY <1>5 DEF ActivateAttempt, FailAttempt
  <2> QED
    BY <1>3, <2>1, <2>2, <2>3 DEF Promise!promiseVars
<1>6. ASSUME NEW e \in Exec, RequestCancel(e) PROVE Promise!AskCancel(e)
  <2>1. status[e] \in {"pending", "running", "failed"}
    BY <1>6 DEF RequestCancel, TypeOK, ExecutionStatus
  <2>2. status' = [status EXCEPT ![e] = "cancel_requested"] /\ UNCHANGED <<result, current>>
    BY <1>6 DEF RequestCancel, SetStatus
  <2> QED
    BY <2>1, <2>2, PhaseStep DEF Promise!AskCancel, Promise!Becomes, PhaseOf, ExecutionStatus
<1>7. ASSUME NEW e \in Exec, CompleteCancel(e) PROVE Promise!Cancelled(e)
  <2>1. /\ status[e] = "cancel_requested" /\ status' = [status EXCEPT ![e] = "cancelled"]
        /\ UNCHANGED <<result, current>>
    BY <1>7 DEF CompleteCancel, SetStatus
  <2> QED
    BY <2>1, PhaseStep DEF Promise!Cancelled, Promise!Becomes, PhaseOf, ExecutionStatus
<1>8. ASSUME NEW e \in Exec, SetStatus(e, "cost_stopped"), UNCHANGED <<result, current>>
      PROVE  Promise!StopForCost(e)
  <2>1. status[e] = "running" /\ status' = [status EXCEPT ![e] = "cost_stopped"]
    BY <1>8 DEF SetStatus, StatusMayChange, Final
  <2> QED
    BY <1>8, <2>1, PhaseStep DEF Promise!StopForCost, Promise!Becomes, PhaseOf, ExecutionStatus
<1>9. ASSUME NEW e \in Exec, NEW n \in 1..MaxAttempts, NEW s, NEW u, PollStatus(e, n, s, u)
      PROVE  Promise!StopForCost(e) \/ UNCHANGED Promise!promiseVars
  <2>1. UNCHANGED <<result, current>>
    BY <1>9 DEF PollStatus
  <2>2. CASE u > CostCap
    BY <1>8, <1>9, <2>1, <2>2 DEF PollStatus
  <2>3. CASE ~(u > CostCap)
    <3>1. UNCHANGED status
      BY <1>9, <2>3 DEF PollStatus
    <3> QED
      BY <1>1, <2>1, <3>1
  <2> QED
    BY <2>2, <2>3
<1>10. ASSUME NEW e \in Exec, NEW n, NEW s, NEW u, NEW c \in Content, ApplyTerminal(e, n, s, u, c)
       PROVE  Promise!StopForCost(e) \/ Promise!Succeed(e, c) \/ UNCHANGED Promise!promiseVars
  <2>1. UNCHANGED current
    BY <1>10 DEF ApplyTerminal
  <2>2. CASE u > CostCap
    BY <1>8, <1>10, <2>1, <2>2 DEF ApplyTerminal
  <2>3. CASE ~(u > CostCap) /\ s = "succeeded"
    <3>1. /\ SetStatus(e, "succeeded") /\ result' = [result EXCEPT ![e] = c]
      BY <1>10, <2>3 DEF ApplyTerminal
    <3>2. status[e] = "running" /\ status' = [status EXCEPT ![e] = "succeeded"]
      BY <3>1 DEF SetStatus, StatusMayChange, Final
    <3> QED
      BY <2>1, <3>1, <3>2, PhaseStep DEF Promise!Succeed, Promise!Becomes, PhaseOf, ExecutionStatus
  <2>4. CASE ~(u > CostCap) /\ s # "succeeded"
    <3>1. SetStatus(e, "failed") /\ UNCHANGED result
      BY <1>10, <2>4 DEF ApplyTerminal
    <3>2. status[e] \in {"pending", "running", "failed"}
      BY <3>1 DEF SetStatus, StatusMayChange
    <3> QED
      BY <1>3, <2>1, <3>1, <3>2 DEF Promise!promiseVars
  <2> QED
    BY <2>2, <2>3, <2>4
<1>11. ASSUME NEW o \in observing, NEW c \in Content, Reconcile(o, c)
       PROVE  \/ Promise!StopForCost(o.e) \/ Promise!Succeed(o.e, c)
              \/ UNCHANGED Promise!promiseVars
  <2>1. o.e \in Exec
    BY DEF TypeOK
  <2>2. CASE UNCHANGED <<executionVars, attempt>>
    BY <1>1, <2>2 DEF executionVars
  <2> QED
    BY <1>10, <1>11, <2>1, <2>2 DEF Reconcile
<1>12. ASSUME NEW e \in Exec, NEW n, NEW f, NEW s, NEW u, NEW c \in Content,
              ApplyCallback(e, n, f, s, u, c)
       PROVE  \/ Promise!StopForCost(e) \/ Promise!Succeed(e, c) \/ UNCHANGED Promise!promiseVars
  <2>1. CASE UNCHANGED <<executionVars, attempt>>
    BY <1>1, <2>1 DEF executionVars
  <2> QED
    BY <1>10, <1>12, <2>1 DEF ApplyCallback
<1>13. ASSUME NEW e \in Exec, NEW n \in 1..MaxAttempts,
              \/ \E x \in 0..(MaxTime + LeaseTTL) : ReserveCapacity(e, n, x)
              \/ SendCreate(e, n) \/ ReleaseCapacity(e, n)
       PROVE  Still
  BY <1>13 DEF ReserveCapacity, SendCreate, ReleaseCapacity, executionVars
<1>14. ASSUME NEW o \in observing, PollEnds(o) PROVE Still
  BY <1>14 DEF PollEnds, executionVars
<1>15. CASE Tick \/ UNCHANGED vars \/ \E m \in 1..MaxConcurrency : UpdateCapacity(m)
  <2>1. Still
    BY <1>15 DEF Tick, vars, UpdateCapacity, executionVars
  <2> QED
    BY <1>1, <2>1
<1>16. CASE Dispatch
  BY <1>1, <1>2, <1>4, <1>5, <1>13, <1>16 DEF Dispatch, Promise!PromiseNext
<1>17. CASE Cancel
  BY <1>6, <1>7, <1>17 DEF Cancel, Promise!PromiseNext
<1>18. CASE Poll
  <2>1. ASSUME NEW o \in observing PROVE o.e \in Exec
    BY DEF TypeOK
  <2> QED
    BY <1>1, <1>9, <1>11, <1>14, <1>18, <2>1 DEF Poll, Promise!PromiseNext
<1>19. CASE HandleCallback
  BY <1>12, <1>19 DEF HandleCallback, Promise!PromiseNext
<1> QED
  BY <1>15, <1>16, <1>17, <1>18, <1>19 DEF Next

\* For any number of attempts, leases and duplicate reports: work is opened once, ends at
\* most once, and only success brings a result (the promise of internal/execution).
THEOREM ExecutionRefinesPromise == Spec => PromiseKept
<1>1. Init => Promise!PromiseInit
  BY DEF Init, Promise!PromiseInit, PhaseOf
<1>2. TablesInv /\ [Next]_vars => [Promise!PromiseNext]_(Promise!promiseVars)
  BY PromiseStep DEF TablesInv
<1> QED
  BY <1>1, <1>2, TablesAlways, PTL DEF Spec, PromiseKept, Promise!PromiseSpec
-----------------------------------------------------------------------------
\* What one step may do to work whose cancel is asked for (the body of CancelPrevails).
Undisturbed(e) ==
    /\ StillAsked(e) \/ CancelDone(e)
    /\ current'[e] = current[e] /\ result'[e] = result[e]
    /\ \A n \in 1..MaxAttempts :
        /\ Counts(callback'[<<e, n>>]) => Counts(callback[<<e, n>>])
        /\ Counts(poll'[<<e, n>>]) => Counts(poll[<<e, n>>])

\* A transaction that writes no execution, attempt or report leaves the cancel alone.
LEMMA LeftAlone ==
    ASSUME NEW e \in Exec, status[e] = "cancel_requested",
           UNCHANGED <<status, current, result, attempt, callback, poll>>
    PROVE  Undisturbed(e)
BY DEF Undisturbed, StillAsked

\* The trigger refuses every status but cancelled to work whose cancel is asked for.
LEMMA TriggerRefuses ==
    ASSUME TypeOK, NEW e \in Exec, status[e] = "cancel_requested", NEW d \in Exec,
           NEW s \in ExecutionStatus \ {"cancelled", "cancel_requested"}, SetStatus(d, s)
    PROVE  d # e /\ status'[e] = status[e]
BY DEF SetStatus, StatusMayChange, TypeOK

\* So a transaction on an attempt that sets another status is one on other work.
LEMMA OthersWork ==
    ASSUME TypeOK, NEW e \in Exec, status[e] = "cancel_requested",
           NEW d \in Exec, NEW m \in 1..MaxAttempts,
           NEW s \in ExecutionStatus \ {"cancelled", "cancel_requested"}, SetStatus(d, s),
           NEW t, SetAttempt(<<d, m>>, t)
    PROVE  d # e /\ StillAsked(e)
<1>1. d # e /\ status'[e] = status[e]
  BY TriggerRefuses
<1>2. \A n \in 1..MaxAttempts : <<e, n>> \in Key /\ <<e, n>> # <<d, m>>
  BY <1>1, KeyParts
<1> QED
  BY <1>1, <1>2 DEF SetAttempt, StillAsked, TypeOK

\* A report that ends an attempt ends other work's (ApplyTerminal).
LEMMA OthersReport ==
    ASSUME TypeOK, NEW e \in Exec, status[e] = "cancel_requested",
           NEW d \in Exec, NEW m \in 1..MaxAttempts, NEW s, NEW u, NEW c,
           ApplyTerminal(d, m, s, u, c)
    PROVE  d # e /\ StillAsked(e) /\ current'[e] = current[e] /\ result'[e] = result[e]
<1>1. \E t \in {"cost_stopped", "succeeded", "failed"}, a \in {"failed", "completed"} :
        SetStatus(d, t) /\ SetAttempt(<<d, m>>, a)
  BY DEF ApplyTerminal
<1>2. d # e /\ StillAsked(e)
  BY <1>1, OthersWork DEF ExecutionStatus
<1> QED
  BY <1>2 DEF ApplyTerminal, TypeOK

\* No transaction disturbs a cancel that was asked for.
LEMMA CancelStep ==
    ASSUME TypeOK, NEW e \in Exec, status[e] = "cancel_requested", [Next]_vars
    PROVE  Undisturbed(e)
<1> DEFINE Rows == <<status, current, result, attempt, callback, poll>>
<1>1. ASSUME NEW d \in Exec, Create(d) PROVE Undisturbed(e)
  BY <1>1 DEF Create, TypeOK, Undisturbed, StillAsked, reportVars
<1>2. ASSUME NEW d \in Exec, PrepareAttempt(d) PROVE Undisturbed(e)
  <2>1. d # e
    BY <1>2 DEF PrepareAttempt
  <2>2. \A n \in 1..MaxAttempts : <<e, n>> \in Key /\ attempt'[<<e, n>>] = attempt[<<e, n>>]
    BY <1>2, <2>1, KeyParts DEF PrepareAttempt
  <2> QED
    BY <1>2, <2>1, <2>2 DEF PrepareAttempt, SetStatus, TypeOK, Undisturbed, StillAsked, reportVars
<1>3. ASSUME NEW d \in Exec, NEW m \in 1..MaxAttempts, ActivateAttempt(d, m) PROVE Undisturbed(e)
  <2>1. d # e /\ status'[e] = status[e]
    BY <1>3, TriggerRefuses DEF ActivateAttempt, ExecutionStatus
  <2>2. \A n \in 1..MaxAttempts : <<e, n>> \in Key /\ <<e, n>> # <<d, m>>
    BY <2>1, KeyParts
  <2> QED
    BY <1>3, <2>1, <2>2 DEF ActivateAttempt, TypeOK, Undisturbed, StillAsked, reportVars
<1>4. ASSUME NEW d \in Exec, NEW m \in 1..MaxAttempts, FailAttempt(d, m) PROVE Undisturbed(e)
  <2>1. StillAsked(e)
    BY <1>4, OthersWork DEF FailAttempt, ExecutionStatus
  <2> QED
    BY <1>4, <2>1 DEF FailAttempt, Undisturbed, reportVars
<1>5. ASSUME NEW d \in Exec, RequestCancel(d) PROVE Undisturbed(e)
  BY <1>5 DEF RequestCancel, SetStatus, TypeOK, Undisturbed, StillAsked, reportVars
<1>6. ASSUME NEW d \in Exec, CompleteCancel(d) PROVE Undisturbed(e)
  <2>1. \A n \in 1..MaxAttempts : <<e, n>> \in Key
    BY KeyParts
  <2>2. CASE d = e
    <3>1. status'[e] = "cancelled"
      BY <1>6, <2>2 DEF CompleteCancel, SetStatus, TypeOK
    <3>2. \A n \in 1..MaxAttempts :
            attempt'[<<e, n>>] = IF n = current[e] THEN [attempt[<<e, n>>] EXCEPT !.status = "cancelled"]
                                 ELSE attempt[<<e, n>>]
      BY <1>6, <2>1, <2>2 DEF CompleteCancel, SetAttempt, TypeOK
    <3> QED
      BY <1>6, <3>1, <3>2 DEF CompleteCancel, Undisturbed, CancelDone, reportVars
  <2>3. CASE d # e
    BY <1>6, <2>1, <2>3 DEF CompleteCancel, SetAttempt, SetStatus, TypeOK, Undisturbed, StillAsked, reportVars
  <2> QED
    BY <2>2, <2>3
<1>7. ASSUME NEW d \in Exec, NEW m \in 1..MaxAttempts, NEW s, NEW u, PollStatus(d, m, s, u)
      PROVE  Undisturbed(e)
  <2>1. StillAsked(e)
    <3>1. CASE u > CostCap
      BY <1>7, <3>1, OthersWork DEF PollStatus, ExecutionStatus
    <3>2. CASE ~(u > CostCap)
      BY <1>7, <3>2 DEF PollStatus, StillAsked
    <3> QED
      BY <3>1, <3>2
  <2> QED
    BY <1>7, <2>1 DEF PollStatus, Undisturbed, reportVars
<1>8. ASSUME NEW o \in observing, NEW c \in Content, Reconcile(o, c) PROVE Undisturbed(e)
  <2>1. o.e \in Exec /\ o.n \in 1..MaxAttempts
    BY DEF TypeOK
  <2>2. \A n \in 1..MaxAttempts : <<e, n>> \in Key
    BY KeyParts
  <2>3. CASE /\ UNCHANGED <<executionVars, attempt>>
             /\ \E a \in {"stale_fence", "already_terminal", "late"} :
                    poll' = [poll EXCEPT ![<<o.e, o.n>>] = [outcome |-> a, status |-> o.status]]
    BY <1>8, <2>2, <2>3 DEF Reconcile, Undisturbed, StillAsked, Counts, TypeOK, executionVars
  <2>4. CASE /\ ApplyTerminal(o.e, o.n, o.status, o.used, c)
             /\ poll' = [poll EXCEPT ![<<o.e, o.n>>] = Applied(o.status, o.used)]
    <3>1. /\ o.e # e /\ StillAsked(e)
          /\ current'[e] = current[e] /\ result'[e] = result[e]
      BY <2>1, <2>4, OthersReport
    <3>2. \A n \in 1..MaxAttempts : poll'[<<e, n>>] = poll[<<e, n>>]
      BY <2>2, <2>4, <3>1 DEF TypeOK
    <3> QED
      BY <1>8, <3>1, <3>2 DEF Reconcile, Undisturbed
  <2> QED
    BY <1>8, <2>3, <2>4 DEF Reconcile
<1>9. ASSUME NEW d \in Exec, NEW m \in 1..MaxAttempts, NEW f, NEW s, NEW u, NEW c,
             ApplyCallback(d, m, f, s, u, c)
      PROVE  Undisturbed(e)
  <2>1. \A n \in 1..MaxAttempts : <<e, n>> \in Key
    BY KeyParts
  <2>2. CASE /\ UNCHANGED <<executionVars, attempt>>
             /\ \E a \in {"stale_fence", "late"} :
                    callback' = [callback EXCEPT ![<<d, m>>] = [outcome |-> a, status |-> s]]
    BY <1>9, <2>1, <2>2 DEF ApplyCallback, Undisturbed, StillAsked, Counts, TypeOK, executionVars
  <2>3. CASE /\ ApplyTerminal(d, m, s, u, c)
             /\ callback' = [callback EXCEPT ![<<d, m>>] = Applied(s, u)]
    <3>1. /\ d # e /\ StillAsked(e)
          /\ current'[e] = current[e] /\ result'[e] = result[e]
      BY <2>3, OthersReport
    <3>2. \A n \in 1..MaxAttempts : callback'[<<e, n>>] = callback[<<e, n>>]
      BY <2>1, <2>3, <3>1 DEF TypeOK
    <3> QED
      BY <1>9, <3>1, <3>2 DEF ApplyCallback, Undisturbed
  <2> QED
    BY <1>9, <2>2, <2>3 DEF ApplyCallback
<1>10. ASSUME NEW d \in Exec, NEW m \in 1..MaxAttempts,
              \/ \E x \in 0..(MaxTime + LeaseTTL) : ReserveCapacity(d, m, x)
              \/ SendCreate(d, m) \/ ReleaseCapacity(d, m)
       PROVE  UNCHANGED Rows
  BY <1>10 DEF ReserveCapacity, SendCreate, ReleaseCapacity, executionVars, reportVars
<1>11. ASSUME NEW o \in observing, PollEnds(o) PROVE UNCHANGED Rows
  BY <1>11 DEF PollEnds, executionVars, reportVars
<1>12. CASE Tick \/ UNCHANGED vars \/ \E m \in 1..MaxConcurrency : UpdateCapacity(m)
  <2>1. UNCHANGED Rows
    BY <1>12 DEF Tick, vars, UpdateCapacity, executionVars, reportVars
  <2> QED
    BY <2>1, LeftAlone
<1>13. CASE Dispatch
  BY <1>1, <1>2, <1>3, <1>4, <1>10, <1>13, LeftAlone DEF Dispatch
<1>14. CASE Cancel
  BY <1>5, <1>6, <1>14 DEF Cancel
<1>15. CASE Poll
  BY <1>7, <1>8, <1>11, <1>15, LeftAlone DEF Poll
<1>16. CASE HandleCallback
  BY <1>9, <1>16 DEF HandleCallback
<1> QED
  BY <1>12, <1>13, <1>14, <1>15, <1>16 DEF Next

\* For any number of callers, attempts and reports under way when RequestCancel commits:
\* none of them starts, ends or bills the work any more; only CompleteCancel ends it.
THEOREM CancelAlwaysPrevails == Spec => CancelPrevails
<1>1. TablesInv /\ [Next]_vars =>
        [\A e \in Exec : status[e] = "cancel_requested" => Undisturbed(e)]_vars
  BY CancelStep DEF TablesInv
<1> QED
  BY <1>1, TablesAlways, PTL DEF Spec, CancelPrevails, Undisturbed
=============================================================================
