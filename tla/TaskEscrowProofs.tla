-------------------------- MODULE TaskEscrowProofs --------------------------
(***************************************************************************)
(* For every set of tasks, accounts, proofs and every budget: the escrow's *)
(* types, the conservation of each task's money, and the refinement of     *)
(* EscrowPosition.                                                         *)
(***************************************************************************)
EXTENDS TaskEscrow, FiniteSetTheorems, SequenceTheorems, TLAPS

\* What a call leaves to the asset is a sequence of moves.
LEMMA MoveIsSeq ==
    ASSUME NEW dir \in {"in", "out"}, NEW n \in Nat
    PROVE  Move(dir, n) \in Seq(MoveType)
<1>1. [dir |-> dir, amount |-> n] \in MoveType
  BY DEF MoveType
<1>2. \A m \in MoveType : <<m>> \in Seq(MoveType)
  OBVIOUS
<1>3. <<>> \in Seq(MoveType)
  OBVIOUS
<1> QED
  BY <1>1, <1>2, <1>3, Zenon DEF Move

\* Calls keeps the lock and the pending transfers well typed.
LEMMA CallsType ==
    ASSUME TypeOK, NEW moves \in Seq(MoveType), Calls(moves)
    PROVE  transfers' \in Seq(MoveType) /\ locked' \in {1, 2}
BY DEF TypeOK, Calls, MoveType

\* Every call keeps the types: claims are indexed by an assigned agent, and no
\* subtraction goes below zero.
LEMMA TypeStep ==
    ASSUME TypeOK, PositionsWellFormed, [Next]_vars
    PROVE  TypeOK'
<1> USE ConstantTypes
<1>1. CASE Transfer
  <2>1. Head(transfers) \in MoveType /\ Tail(transfers) \in Seq(MoveType)
    <3>1. transfers \in Seq(MoveType) /\ transfers # <<>> BY <1>1 DEF Transfer, TypeOK
    <3> QED BY <3>1, HeadTailProperties
  <2>2. balance' \in Int
    BY <1>1, <2>1 DEF Transfer, TypeOK, MoveType
  <2>3. transfers' \in Seq(MoveType) /\ locked' \in {1, 2}
    BY <1>1, <2>1 DEF Transfer, TypeOK
  <2> QED BY <1>1, <2>2, <2>3 DEF Transfer, TypeOK, taskVars, usedVars, ledgerVars, yieldVars, roleVars, callVars, flowVars
<1>2. CASE Tick
  BY <1>2 DEF Tick, TypeOK, taskVars, usedVars, ledgerVars, yieldVars, roleVars, callVars, flowVars
<1>3. ASSUME NEW caller \in Account, Pause(caller) PROVE TypeOK'
  BY <1>3 DEF Pause, TypeOK, taskVars, usedVars, ledgerVars, yieldVars, roleVars, callVars, flowVars
<1>4. ASSUME NEW caller \in Account, Unpause(caller) PROVE TypeOK'
  BY <1>4 DEF Unpause, TypeOK, taskVars, usedVars, ledgerVars, yieldVars, roleVars, callVars, flowVars
<1>5. ASSUME NEW caller \in Account, NEW a \in Signer, SetPlatformProofSigner(caller, a) PROVE TypeOK'
  BY <1>5 DEF SetPlatformProofSigner, TypeOK, taskVars, usedVars, ledgerVars, yieldVars, roleVars, callVars, flowVars
<1>6. ASSUME NEW caller \in Account, NEW a \in Resolver, SetDisputeResolver(caller, a) PROVE TypeOK'
  BY <1>6 DEF SetDisputeResolver, TypeOK, taskVars, usedVars, ledgerVars, yieldVars, roleVars, callVars, flowVars
<1>7. ASSUME NEW caller \in Account, NEW p \in SelectionProof, SelectAgent(caller, p) PROVE TypeOK'
  <2> DEFINE t == p.taskId
             payable == p.formalGrossPrice - p.overviewCredit
             excess == amount[t] - payable
  <2>1. p \in ProofType
    BY DEF ProofType
  <2>2. t \in TaskId /\ payable \in Nat /\ excess \in Nat
    <3>1. t \in TaskId /\ p.formalGrossPrice \in Nat /\ p.overviewCredit \in Nat
      BY <2>1 DEF ProofType
    <3>2. p.overviewCredit <= p.formalGrossPrice /\ amount[t] >= payable
      BY <1>7 DEF SelectAgent, ProofValid
    <3>3. amount[t] \in Nat BY <3>1 DEF TypeOK
    <3> QED BY <3>1, <3>2, <3>3
  <2>3. transfers' \in Seq(MoveType) /\ locked' \in {1, 2}
    <3>1. Out(excess) \in Seq(MoveType) BY <2>2, MoveIsSeq DEF Out
    <3> QED BY <1>7, <3>1, CallsType DEF SelectAgent
  <2>4. /\ p.assignmentId \in Id /\ p.allocationId \in Id /\ p.nonce \in Id
        /\ p.agentController \in Account /\ p.payout \in Account
    BY <1>7, <2>1 DEF SelectAgent, ProofValid, ProofType
  <2>5. assignment' \in [TaskId -> AssignmentType]
    BY <1>7, <2>2, <2>4 DEF SelectAgent, TypeOK, AssignmentType
  <2> HIDE DEF t, payable, excess
  <2>6. /\ status' \in [TaskId -> Status] /\ amount' \in [TaskId -> Nat]
        /\ agent' \in [TaskId -> Account \cup {Zero}] /\ workNonce' \in [TaskId -> Nat]
        /\ yieldOf' \in [TaskId -> Nat] /\ totalYield' \in Int /\ returned' \in [TaskId -> Nat]
    <3>1. /\ status' = [status EXCEPT ![t] = "Assigned"] /\ amount' = [amount EXCEPT ![t] = payable]
          /\ agent' = [agent EXCEPT ![t] = p.payout] /\ workNonce' = [workNonce EXCEPT ![t] = 1]
          /\ yieldOf' = [yieldOf EXCEPT ![t] = payable] /\ totalYield' = totalYield + payable
          /\ returned' = [returned EXCEPT ![t] = @ + excess]
      BY <1>7 DEF SelectAgent, t, payable, excess
    <3>2. status' \in [TaskId -> Status] /\ agent' \in [TaskId -> Account \cup {Zero}]
      BY <3>1, <2>2, <2>4 DEF TypeOK, Status
    <3>3. amount' \in [TaskId -> Nat] /\ yieldOf' \in [TaskId -> Nat] /\ workNonce' \in [TaskId -> Nat]
      BY <3>1, <2>2, <2>4 DEF TypeOK
    <3>4. returned[t] + excess \in Nat /\ totalYield' \in Int
      BY <3>1, <2>2, <2>4 DEF TypeOK
    <3>5. returned' \in [TaskId -> Nat]
      BY <3>1, <3>4 DEF TypeOK
    <3> QED BY <3>2, <3>3, <3>4, <3>5
  <2>7. usedNonces' \subseteq Id /\ usedAssignments' \subseteq Id /\ usedCredits' \subseteq Id
    BY <1>7, <2>4 DEF SelectAgent, TypeOK
  <2> QED BY <1>7, <2>3, <2>5, <2>6, <2>7 DEF SelectAgent, TypeOK, taskVars, usedVars, ledgerVars, yieldVars, roleVars, callVars, flowVars
<1>8. ASSUME NEW caller \in Account, NEW a \in Account, NEW n \in 1..totalClaimable,
             WithdrawEarnings(caller, a, n) PROVE TypeOK'
  <2>1. transfers' \in Seq(MoveType) /\ locked' \in {1, 2}
    <3>1. n \in Nat BY DEF TypeOK
    <3>2. Out(n) \in Seq(MoveType) BY <3>1, MoveIsSeq DEF Out
    <3> QED BY <1>8, <3>2, CallsType DEF WithdrawEarnings
  <2>2. claimable' \in [Account \X Account -> Nat]
    <3>1. <<caller, a>> \in Account \X Account OBVIOUS
    <3>2. claimable[<<caller, a>>] - n \in Nat BY <1>8, <3>1 DEF WithdrawEarnings, Available, TypeOK
    <3> QED BY <1>8, <3>1, <3>2 DEF WithdrawEarnings, TypeOK
  <2>3. totalClaimable' \in Int /\ withdrawn' \in Int
    BY <1>8 DEF WithdrawEarnings, TypeOK
  <2> QED BY <1>8, <2>1, <2>2, <2>3 DEF WithdrawEarnings, TypeOK, taskVars, usedVars, ledgerVars, yieldVars, roleVars, callVars, flowVars
<1>9. ASSUME NEW caller \in Account, NEW t \in TaskId, CreateTask(caller, t) PROVE TypeOK'
  <2>1. transfers' \in Seq(MoveType) /\ locked' \in {1, 2}
    <3>1. In(BudgetOf[t]) \in Seq(MoveType) BY MoveIsSeq DEF In
    <3> QED BY <1>9, <3>1, CallsType DEF CreateTask
  <2> QED BY <1>9, <2>1 DEF CreateTask, TypeOK, Status, taskVars, usedVars, ledgerVars, yieldVars, roleVars, callVars, flowVars
<1>10. ASSUME NEW caller \in Account, NEW t \in TaskId, NEW n \in 0..MaxNonce,
              AdvanceWorkNonce(caller, t, n) PROVE TypeOK'
  <2>1. workNonce' \in [TaskId -> Nat] BY <1>10 DEF AdvanceWorkNonce, TypeOK
  <2> QED BY <1>10, <2>1 DEF AdvanceWorkNonce, TypeOK, usedVars, ledgerVars, yieldVars, roleVars,
          callVars, flowVars
<1>11. ASSUME NEW t \in TaskId, NEW n \in Nat, status[t] \in {"Assigned", "Disputed"}, Accrue(t, n)
       PROVE  /\ claimable' \in [Account \X Account -> Nat] /\ totalClaimable' \in Int
              /\ accrued' \in [TaskId -> Nat]
  <2> DEFINE k == <<assignment[t].agentController, assignment[t].payout>>
  <2>1. k \in Account \X Account BY <1>11 DEF PositionsWellFormed
  <2> HIDE DEF k
  <2>2. claimable' = [claimable EXCEPT ![k] = @ + n] BY <1>11 DEF Accrue, k
  <2>3. claimable' \in [Account \X Account -> Nat] BY <1>11, <2>1, <2>2 DEF TypeOK
  <2>4. totalClaimable' \in Int /\ accrued' \in [TaskId -> Nat] BY <1>11 DEF Accrue, TypeOK
  <2> QED BY <2>3, <2>4
<1>12. ASSUME NEW t \in TaskId, EndYieldEligibility(t)
       PROVE  yieldOf' \in [TaskId -> Nat] /\ totalYield' \in Int
  BY <1>12 DEF EndYieldEligibility, TypeOK
<1>13. ASSUME NEW caller \in Account, NEW t \in TaskId, Accept(caller, t) PROVE TypeOK'
  <2>1. transfers' \in Seq(MoveType) /\ locked' \in {1, 2}
    <3>1. <<>> \in Seq(MoveType) OBVIOUS
    <3> QED BY <1>13, <3>1, CallsType DEF Accept
  <2>2. amount[t] \in Nat BY DEF TypeOK
  <2>3. /\ claimable' \in [Account \X Account -> Nat] /\ totalClaimable' \in Int
        /\ accrued' \in [TaskId -> Nat]
    BY <1>11, <1>13, <2>2 DEF Accept
  <2>4. yieldOf' \in [TaskId -> Nat] /\ totalYield' \in Int BY <1>12, <1>13 DEF Accept
  <2> QED BY <1>13, <2>1, <2>3, <2>4 DEF Accept, TypeOK, Status, taskVars, usedVars, ledgerVars, yieldVars, roleVars, callVars, flowVars
<1>14. ASSUME NEW caller \in Account, NEW t \in TaskId, Refund(caller, t) PROVE TypeOK'
  <2>1. transfers' \in Seq(MoveType) /\ locked' \in {1, 2}
    <3>1. amount[t] \in Nat BY DEF TypeOK
    <3>2. Out(amount[t]) \in Seq(MoveType) BY <3>1, MoveIsSeq DEF Out
    <3> QED BY <1>14, <3>2, CallsType DEF Refund
  <2>2. yieldOf' \in [TaskId -> Nat] /\ totalYield' \in Int BY <1>12, <1>14 DEF Refund
  <2>3. /\ status' \in [TaskId -> Status] /\ amount' \in [TaskId -> Nat]
        /\ returned' \in [TaskId -> Nat]
    BY <1>14 DEF Refund, TypeOK, Status
  <2> QED BY <1>14, <2>1, <2>2, <2>3 DEF Refund, TypeOK, taskVars, usedVars, ledgerVars, yieldVars, roleVars, callVars, flowVars
<1>15. ASSUME NEW caller \in Account, NEW t \in TaskId, NEW a \in Account, NEW cap \in 0..amount[t],
              FreezeDispute(caller, t, a, cap) PROVE TypeOK'
  <2>1. assignment[t].payout \in Account \cup {Zero} /\ amount[t] \in Nat /\ cap \in Nat
    BY DEF TypeOK, AssignmentType
  <2>2. freeze' \in [TaskId -> FreezeType]
    BY <1>15, <2>1 DEF FreezeDispute, TypeOK, FreezeType
  <2> QED BY <1>15, <2>2 DEF FreezeDispute, TypeOK, Status, taskVars, usedVars, ledgerVars, yieldVars, roleVars, callVars, flowVars
<1>16. ASSUME NEW caller \in Account, NEW t \in TaskId, NEW po \in Account, NEW ao \in Account,
              NEW pub \in 0..amount[t], NEW agt \in 0..amount[t], NEW fee \in 0..amount[t],
              FinalizeDisputeAllocation(caller, t, po, ao, pub, agt, fee) PROVE TypeOK'
  <2>1. pub \in Nat /\ agt \in Nat /\ fee \in Nat BY DEF TypeOK
  <2>2. transfers' \in Seq(MoveType) /\ locked' \in {1, 2}
    <3>1. Out(pub) \in Seq(MoveType) /\ Out(fee) \in Seq(MoveType) BY <2>1, MoveIsSeq DEF Out
    <3>2. Out(pub) \o Out(fee) \in Seq(MoveType) BY <3>1
    <3> QED BY <1>16, <3>2, CallsType DEF FinalizeDisputeAllocation
  <2>3. /\ claimable' \in [Account \X Account -> Nat] /\ totalClaimable' \in Int
        /\ accrued' \in [TaskId -> Nat]
    BY <1>11, <1>16, <2>1 DEF FinalizeDisputeAllocation, FinalizeDue
  <2>4. yieldOf' \in [TaskId -> Nat] /\ totalYield' \in Int
    BY <1>12, <1>16 DEF FinalizeDisputeAllocation
  <2>5. freeze' \in [TaskId -> FreezeType]
    <3>1. freeze[t] \in FreezeType BY DEF TypeOK
    <3>2. [freeze[t] EXCEPT !.finalized = TRUE] \in FreezeType BY <3>1 DEF FreezeType
    <3>3. freeze' = [freeze EXCEPT ![t] = [freeze[t] EXCEPT !.finalized = TRUE]]
      BY <1>16 DEF FinalizeDisputeAllocation, TypeOK
    <3> QED BY <3>2, <3>3 DEF TypeOK
  <2>6. /\ status' \in [TaskId -> Status] /\ amount' \in [TaskId -> Nat]
        /\ returned' \in [TaskId -> Nat] /\ fees' \in [TaskId -> Nat]
    <3>1. status' \in [TaskId -> Status] /\ amount' \in [TaskId -> Nat]
      BY <1>16 DEF FinalizeDisputeAllocation, TypeOK, Status
    <3>2. /\ returned' = [returned EXCEPT ![t] = @ + pub]
          /\ fees' = [fees EXCEPT ![t] = @ + fee]
      BY <1>16 DEF FinalizeDisputeAllocation
    <3>3. returned' \in [TaskId -> Nat] /\ fees' \in [TaskId -> Nat]
      <4>1. returned[t] + pub \in Nat /\ fees[t] + fee \in Nat
        BY <2>1 DEF TypeOK
      <4> QED
        BY <3>2, <4>1 DEF TypeOK
    <3> QED BY <3>1, <3>3
  <2> QED BY <1>16, <2>2, <2>3, <2>4, <2>5, <2>6
          DEF FinalizeDisputeAllocation, TypeOK, taskVars, usedVars, ledgerVars, yieldVars, roleVars, callVars, flowVars
<1>17. CASE UNCHANGED vars
  BY <1>17 DEF TypeOK, vars, taskVars, usedVars, ledgerVars, yieldVars, roleVars, callVars, flowVars
<1> QED
  BY <1>1, <1>2, <1>3, <1>4, <1>5, <1>6, <1>7, <1>8, <1>9, <1>10, <1>13, <1>14, <1>15, <1>16,
     <1>17 DEF Next

-----------------------------------------------------------------------------
\* The inductive invariant: types, the shape of a position, conservation and
\* the yield bookkeeping hold together or not at all.
EscrowInv == TypeOK /\ PositionsWellFormed /\ TaskConservation /\ YieldTracksPrincipal

\* What EscrowInv says of one task.
BookAt(t) ==
    /\ status[t] = "None" =>
         amount[t] = 0 /\ deposited[t] = 0 /\ returned[t] = 0 /\ accrued[t] = 0 /\ fees[t] = 0
    /\ status[t] # "None" => deposited[t] = BudgetOf[t]
    /\ status[t] \in {"Assigned", "Disputed"} =>
         assignment[t].agentController \in Account /\ assignment[t].payout \in Account
    /\ deposited[t] = amount[t] + returned[t] + accrued[t] + fees[t]
    /\ status[t] \in Settled => amount[t] = 0
    /\ yieldOf[t] = IF status[t] \in {"Assigned", "Disputed"} THEN amount[t] ELSE 0

\* The invariant is a type invariant and one book per task.
LEMMA BooksAreInv == EscrowInv <=> TypeOK /\ \A t \in TaskId : BookAt(t)
BY DEF EscrowInv, PositionsWellFormed, TaskConservation, YieldTracksPrincipal, BookAt, Settled

\* The part of the state one task's book is made of.
book(t) == <<status[t], amount[t], assignment[t], yieldOf[t], deposited[t], returned[t],
             accrued[t], fees[t]>>

\* A task whose book a call leaves alone keeps it in order.
LEMMA SameBook == \A t : BookAt(t) /\ UNCHANGED book(t) => BookAt(t)'
BY DEF BookAt, book

\* A call settles or changes only the book of the task it names.
LEMMA BookStep ==
    ASSUME EscrowInv, [Next]_vars, NEW u \in TaskId
    PROVE  BookAt(u)'
<1> USE ConstantTypes
<1>0. TypeOK /\ BookAt(u)
  BY BooksAreInv
<1>1. CASE Transfer
  BY <1>0, <1>1, SameBook DEF Transfer, book, taskVars, yieldVars, flowVars
<1>2. CASE Tick
  BY <1>0, <1>2, SameBook DEF Tick, book, taskVars, yieldVars, flowVars
<1>3. ASSUME NEW caller \in Account, Pause(caller) \/ Unpause(caller) PROVE BookAt(u)'
  BY <1>0, <1>3, SameBook DEF Pause, Unpause, book, taskVars, yieldVars, flowVars
<1>4. ASSUME NEW caller \in Account, NEW a,
             SetPlatformProofSigner(caller, a) \/ SetDisputeResolver(caller, a)
      PROVE BookAt(u)'
  BY <1>0, <1>4, SameBook DEF SetPlatformProofSigner, SetDisputeResolver, book, taskVars,
     yieldVars, flowVars
<1>5. ASSUME NEW caller \in Account, NEW p \in SelectionProof, SelectAgent(caller, p)
      PROVE BookAt(u)'
  <2> DEFINE payable == p.formalGrossPrice - p.overviewCredit
  <2>1. /\ p.taskId \in TaskId /\ p.formalGrossPrice \in Nat /\ p.overviewCredit \in Nat
        /\ p.agentController \in Account /\ p.payout \in Account
    BY <1>5 DEF SelectAgent, ProofValid, ProofType
  <2>2. CASE u # p.taskId
    <3>1. UNCHANGED book(u)
      BY <1>0, <1>5, <2>1, <2>2 DEF SelectAgent, TypeOK, book
    <3> QED BY <1>0, <3>1, SameBook
  <2>3. CASE u = p.taskId
    <3>1. /\ status[u] = "Funded" /\ status'[u] = "Assigned"
          /\ amount'[u] = payable /\ yieldOf'[u] = payable
          /\ returned'[u] = returned[u] + (amount[u] - payable)
          /\ deposited'[u] = deposited[u] /\ accrued'[u] = accrued[u] /\ fees'[u] = fees[u]
      BY <1>0, <1>5, <2>1, <2>3 DEF SelectAgent, TypeOK
    <3>2. assignment'[u].agentController \in Account /\ assignment'[u].payout \in Account
      BY <1>0, <1>5, <2>1, <2>3 DEF SelectAgent, TypeOK
    <3>3. /\ amount[u] \in Nat /\ returned[u] \in Nat /\ accrued[u] \in Nat /\ fees[u] \in Nat
          /\ payable \in Int
      BY <1>0, <2>1 DEF TypeOK
    <3> HIDE DEF payable
    <3> QED BY <1>0, <3>1, <3>2, <3>3 DEF BookAt, Settled
  <2> QED BY <2>2, <2>3
<1>6. ASSUME NEW caller \in Account, NEW a \in Account, NEW n, WithdrawEarnings(caller, a, n)
      PROVE BookAt(u)'
  BY <1>0, <1>6, SameBook DEF WithdrawEarnings, book, taskVars, yieldVars
<1>7. ASSUME NEW caller \in Account, NEW t \in TaskId, CreateTask(caller, t) PROVE BookAt(u)'
  <2>1. CASE u # t
    <3>1. UNCHANGED book(u)
      BY <1>0, <1>7, <2>1 DEF CreateTask, TypeOK, book, yieldVars
    <3> QED BY <1>0, <3>1, SameBook
  <2>2. CASE u = t
    <3>1. /\ status[u] = "None" /\ status'[u] = "Funded"
          /\ amount'[u] = BudgetOf[u] /\ deposited'[u] = BudgetOf[u] /\ yieldOf'[u] = yieldOf[u]
          /\ returned'[u] = returned[u] /\ accrued'[u] = accrued[u] /\ fees'[u] = fees[u]
      BY <1>0, <1>7, <2>2 DEF CreateTask, TaskExists, TypeOK, yieldVars
    <3> QED BY <1>0, <3>1 DEF BookAt, Settled
  <2> QED BY <2>1, <2>2
<1>8. ASSUME NEW caller \in Account, NEW t \in TaskId, NEW n, AdvanceWorkNonce(caller, t, n)
      PROVE BookAt(u)'
  BY <1>0, <1>8, SameBook DEF AdvanceWorkNonce, book, yieldVars, flowVars
<1>9. ASSUME NEW caller \in Account, NEW t \in TaskId, Accept(caller, t) PROVE BookAt(u)'
  <2>1. CASE u # t
    <3>1. UNCHANGED book(u)
      BY <1>0, <1>9, <2>1 DEF Accept, EndYieldEligibility, Accrue, TypeOK, book
    <3> QED BY <1>0, <3>1, SameBook
  <2>2. CASE u = t
    <3>1. /\ status[u] = "Assigned" /\ status'[u] = "Released"
          /\ amount'[u] = 0 /\ yieldOf'[u] = 0 /\ accrued'[u] = accrued[u] + amount[u]
          /\ deposited'[u] = deposited[u] /\ returned'[u] = returned[u] /\ fees'[u] = fees[u]
      BY <1>0, <1>9, <2>2 DEF Accept, EndYieldEligibility, Accrue, TypeOK
    <3>2. /\ amount[u] \in Nat /\ returned[u] \in Nat /\ accrued[u] \in Nat /\ fees[u] \in Nat
      BY <1>0 DEF TypeOK
    <3> QED BY <1>0, <3>1, <3>2 DEF BookAt, Settled
  <2> QED BY <2>1, <2>2
<1>10. ASSUME NEW caller \in Account, NEW t \in TaskId, Refund(caller, t) PROVE BookAt(u)'
  <2>1. CASE u # t
    <3>1. UNCHANGED book(u)
      BY <1>0, <1>10, <2>1 DEF Refund, EndYieldEligibility, TypeOK, book
    <3> QED BY <1>0, <3>1, SameBook
  <2>2. CASE u = t
    <3>1. /\ status[u] = "Funded" /\ status'[u] = "Refunded"
          /\ amount'[u] = 0 /\ yieldOf'[u] = 0 /\ returned'[u] = returned[u] + amount[u]
          /\ deposited'[u] = deposited[u] /\ accrued'[u] = accrued[u] /\ fees'[u] = fees[u]
      BY <1>0, <1>10, <2>2 DEF Refund, EndYieldEligibility, TypeOK
    <3>2. /\ amount[u] \in Nat /\ returned[u] \in Nat /\ accrued[u] \in Nat /\ fees[u] \in Nat
      BY <1>0 DEF TypeOK
    <3> QED BY <1>0, <3>1, <3>2 DEF BookAt, Settled
  <2> QED BY <2>1, <2>2
<1>11. ASSUME NEW caller \in Account, NEW t \in TaskId, NEW a, NEW cap,
              FreezeDispute(caller, t, a, cap) PROVE BookAt(u)'
  <2>1. /\ UNCHANGED <<amount[u], assignment[u], yieldOf[u], deposited[u], returned[u],
                       accrued[u], fees[u]>>
        /\ status'[u] = status[u] \/ (status[u] = "Assigned" /\ status'[u] = "Disputed")
    BY <1>0, <1>11 DEF FreezeDispute, TypeOK, yieldVars, flowVars
  <2> QED BY <1>0, <2>1 DEF BookAt, Settled
<1>12. ASSUME NEW caller \in Account, NEW t \in TaskId, NEW po \in Account, NEW ao \in Account,
              NEW pub \in 0..amount[t], NEW agt \in 0..amount[t], NEW fee \in 0..amount[t],
              FinalizeDisputeAllocation(caller, t, po, ao, pub, agt, fee)
       PROVE BookAt(u)'
  <2>1. CASE u # t
    <3>1. UNCHANGED book(u)
      BY <1>0, <1>12, <2>1 DEF FinalizeDisputeAllocation, EndYieldEligibility, Accrue, TypeOK, book
    <3> QED BY <1>0, <3>1, SameBook
  <2>2. CASE u = t
    <3>1. /\ status[u] = "Disputed" /\ status'[u] \in Settled
          /\ amount'[u] = 0 /\ yieldOf'[u] = 0
          /\ pub + agt + fee = amount[u]
      BY <1>0, <1>12, <2>2
      DEF FinalizeDisputeAllocation, FinalizeDue, SplitExact, EndYieldEligibility, TypeOK, Settled
    <3>2. /\ returned'[u] = returned[u] + pub /\ accrued'[u] = accrued[u] + agt
          /\ fees'[u] = fees[u] + fee /\ deposited'[u] = deposited[u]
      BY <1>0, <1>12, <2>2 DEF FinalizeDisputeAllocation, Accrue, TypeOK
    <3>3. /\ amount[u] \in Nat /\ returned[u] \in Nat /\ accrued[u] \in Nat /\ fees[u] \in Nat
          /\ pub \in Nat /\ agt \in Nat /\ fee \in Nat
      BY <1>0, <2>2 DEF TypeOK
    <3> QED BY <1>0, <3>1, <3>2, <3>3 DEF BookAt, Settled
  <2> QED BY <2>1, <2>2
<1>13. CASE UNCHANGED vars
  BY <1>0, <1>13, SameBook DEF vars, book, taskVars, yieldVars, flowVars
<1> QED
  BY <1>1, <1>2, <1>3, <1>4, <1>5, <1>6, <1>7, <1>8, <1>9, <1>10, <1>11, <1>12, <1>13 DEF Next

\* The contract as its constructor leaves it satisfies the invariant.
LEMMA InitInv == Init => EscrowInv
<1> USE ConstantTypes
<1> SUFFICES ASSUME Init PROVE EscrowInv
  OBVIOUS
<1>1. <<>> \in Seq(MoveType) OBVIOUS
<1>2. TypeOK
  <2>1. NoAssignment \in AssignmentType BY DEF NoAssignment, AssignmentType
  <2>2. NoFreeze \in FreezeType BY DEF NoFreeze, FreezeType
  <2>3. assignment \in [TaskId -> AssignmentType] /\ freeze \in [TaskId -> FreezeType]
    BY <2>1, <2>2 DEF Init
  <2>4. claimable \in [Account \X Account -> Nat] BY DEF Init
  <2>5. /\ status \in [TaskId -> Status] /\ amount \in [TaskId -> Nat]
        /\ agent \in [TaskId -> Account \cup {Zero}] /\ workNonce \in [TaskId -> Nat]
        /\ yieldOf \in [TaskId -> Nat]
    BY DEF Init, Status
  <2>6. /\ deposited \in [TaskId -> Nat] /\ returned \in [TaskId -> Nat]
        /\ accrued \in [TaskId -> Nat] /\ fees \in [TaskId -> Nat]
    BY DEF Init
  <2>7. /\ usedNonces \subseteq Id /\ usedAssignments \subseteq Id /\ usedCredits \subseteq Id
    BY DEF Init
  <2>8. /\ totalClaimable \in Int /\ totalYield \in Int /\ withdrawn \in Int /\ balance \in Int
        /\ locked \in {1, 2} /\ now \in Nat
    BY DEF Init
  <2>9. paused \in BOOLEAN /\ transfers \in Seq(MoveType)
    BY <1>1, Zenon DEF Init
  <2>10. disputeResolver \in Account /\ platformProofSigner \in Account
    BY DEF Init
  <2> QED BY <2>3, <2>4, <2>5, <2>6, <2>7, <2>8, <2>9, <2>10 DEF TypeOK
<1>3. \A t \in TaskId : BookAt(t)
  BY DEF Init, BookAt, Settled
<1> QED BY <1>2, <1>3, BooksAreInv

\* Every call, transfer and tick preserves the invariant.
LEMMA StepInv == EscrowInv /\ [Next]_vars => EscrowInv'
<1> SUFFICES ASSUME EscrowInv, [Next]_vars PROVE EscrowInv'
  OBVIOUS
<1>1. TypeOK' BY TypeStep DEF EscrowInv
<1>2. (\A t \in TaskId : BookAt(t))' BY BookStep
<1>3. (TypeOK /\ \A t \in TaskId : BookAt(t))' => EscrowInv'
  BY BooksAreInv, PTL
<1> QED BY <1>1, <1>2, <1>3

\* The strengthened invariant holds in every reachable state of the contract.
THEOREM EscrowInvHolds == Spec => []EscrowInv
<1>1. Init => EscrowInv BY InitInv
<1>2. EscrowInv /\ [Next]_vars => EscrowInv' BY StepInv
<1> QED BY <1>1, <1>2, PTL DEF Spec

\* Types: no claim, principal or flow ever becomes negative (checked arithmetic
\* in TaskEscrow.sol never has to revert on these).
THEOREM TypeCorrect == Spec => []TypeOK
<1>1. EscrowInv => TypeOK BY DEF EscrowInv
<1> QED BY <1>1, EscrowInvHolds, PTL

\* Every unit deposited for a task is held or left the escrow exactly once.
THEOREM Conservation == Spec => []TaskConservation
<1>1. EscrowInv => TaskConservation BY DEF EscrowInv
<1> QED BY <1>1, EscrowInvHolds, PTL

\* Yield eligibility is the principal of the assigned and disputed tasks.
THEOREM YieldExact == Spec => []YieldTracksPrincipal
<1>1. EscrowInv => YieldTracksPrincipal BY DEF EscrowInv
<1> QED BY <1>1, EscrowInvHolds, PTL

-----------------------------------------------------------------------------
\* The refinement mapping of TaskEscrow, spelled out for the provers.
phaseBar == [t \in TaskId |-> PhaseOf(status[t])]
paidBar == [t \in TaskId |-> returned[t] + accrued[t] + fees[t]]

\* A freshly deployed contract is a set of empty positions.
LEMMA PositionInitHolds == Init => Position!PositionInit
BY DEF Init, Position!PositionInit, PhaseOf

\* A call that leaves all positions alone is a stuttering step of EscrowPosition.
LEMMA PositionStutter ==
    ASSUME UNCHANGED <<status, amount, returned, accrued, fees>>
    PROVE  UNCHANGED Position!positionVars
BY DEF Position!positionVars

\* Settling task t for a split that adds up closes its position.
LEMMA PositionClose ==
    ASSUME TypeOK, NEW t \in TaskId, NEW s \in Settled,
           PhaseOf(status[t]) = "open",
           status' = [status EXCEPT ![t] = s], amount' = [amount EXCEPT ![t] = 0],
           NEW r \in Nat, NEW a \in Nat, NEW f \in Nat, r + a + f = amount[t],
           returned' = [returned EXCEPT ![t] = returned[t] + r],
           accrued' = [accrued EXCEPT ![t] = accrued[t] + a],
           fees' = [fees EXCEPT ![t] = fees[t] + f]
    PROVE  Position!PositionNext
<1>1. phaseBar' = [phaseBar EXCEPT ![t] = "closed"]
  BY DEF phaseBar, PhaseOf, TypeOK, Settled
<1>2. paidBar' = [paidBar EXCEPT ![t] = paidBar[t] + amount[t]]
  <2>1. \A u \in TaskId : u # t => returned'[u] + accrued'[u] + fees'[u] = paidBar[u]
    BY DEF paidBar, TypeOK
  <2>2. returned'[t] = returned[t] + r /\ accrued'[t] = accrued[t] + a /\ fees'[t] = fees[t] + f
    BY DEF TypeOK
  <2>3. returned[t] \in Nat /\ accrued[t] \in Nat /\ fees[t] \in Nat /\ amount[t] \in Nat
    BY DEF TypeOK
  <2>4. returned'[t] + accrued'[t] + fees'[t] = paidBar[t] + amount[t]
    <3>1. paidBar[t] = returned[t] + accrued[t] + fees[t] BY DEF paidBar
    <3>2. (returned[t] + r) + (accrued[t] + a) + (fees[t] + f)
             = (returned[t] + accrued[t] + fees[t]) + amount[t]
      BY <2>3
    <3> QED BY <2>2, <3>1, <3>2, Zenon
  <2> QED BY <2>1, <2>4 DEF paidBar
<1>3. phaseBar[t] = "open" BY DEF phaseBar
<1>4. Position!Close(t) BY <1>1, <1>2, <1>3 DEF Position!Close, phaseBar, paidBar
<1> QED BY <1>4 DEF Position!PositionNext

\* Every call is a step of EscrowPosition or leaves it alone.
LEMMA PositionStep ==
    ASSUME EscrowInv, [Next]_vars
    PROVE  [Position!PositionNext]_(Position!positionVars)
<1> USE ConstantTypes
<1>0. TypeOK BY DEF EscrowInv
<1>1. CASE Transfer \/ Tick \/ UNCHANGED vars
  BY <1>1, PositionStutter DEF Transfer, Tick, vars, taskVars, flowVars
<1>2. ASSUME NEW caller \in Account, NEW a, NEW n, NEW t,
             \/ Pause(caller) \/ Unpause(caller)
             \/ SetPlatformProofSigner(caller, a) \/ SetDisputeResolver(caller, a)
             \/ WithdrawEarnings(caller, a, n) \/ AdvanceWorkNonce(caller, t, n)
      PROVE  UNCHANGED Position!positionVars
  <2>1. UNCHANGED <<status, amount, returned, accrued, fees>>
    BY <1>2 DEF Pause, Unpause, SetPlatformProofSigner, SetDisputeResolver, WithdrawEarnings,
       AdvanceWorkNonce, taskVars, flowVars
  <2> QED BY <2>1, PositionStutter
<1>3. ASSUME NEW caller \in Account, NEW t \in TaskId, CreateTask(caller, t)
      PROVE  Position!PositionNext
  <2>1. phaseBar' = [phaseBar EXCEPT ![t] = "open"] /\ phaseBar[t] = "empty"
    BY <1>0, <1>3 DEF CreateTask, TaskExists, phaseBar, PhaseOf, Settled, TypeOK
  <2>2. amount' = [amount EXCEPT ![t] = BudgetOf[t]] /\ paidBar' = paidBar
    BY <1>3 DEF CreateTask, paidBar
  <2>3. Position!Open(t) BY <2>1, <2>2 DEF Position!Open, phaseBar, paidBar
  <2> QED BY <2>3 DEF Position!PositionNext
<1>4. ASSUME NEW caller \in Account, NEW p \in SelectionProof, SelectAgent(caller, p)
      PROVE  Position!PositionNext
  <2> DEFINE t == p.taskId
             payable == p.formalGrossPrice - p.overviewCredit
  <2>1. /\ t \in TaskId /\ p.formalGrossPrice \in Nat /\ p.overviewCredit \in Nat
        /\ p.overviewCredit <= p.formalGrossPrice /\ amount[t] >= payable
    BY <1>4 DEF SelectAgent, ProofValid, ProofType
  <2>0. amount[t] \in Nat /\ payable \in Nat BY <1>0, <2>1 DEF TypeOK
  <2>2. PICK n \in 0..amount[t] : n = amount[t] - payable BY <2>0, <2>1
  <2>3. /\ status[t] = "Funded" /\ status' = [status EXCEPT ![t] = "Assigned"]
        /\ amount' = [amount EXCEPT ![t] = payable]
        /\ returned' = [returned EXCEPT ![t] = returned[t] + n]
        /\ UNCHANGED <<accrued, fees>>
    BY <1>4, <2>2 DEF SelectAgent
  <2> HIDE DEF t, payable
  <2>4. phaseBar' = phaseBar /\ phaseBar[t] = "open"
    BY <1>0, <2>1, <2>3 DEF phaseBar, PhaseOf, Settled, TypeOK
  <2>5. paidBar' = [paidBar EXCEPT ![t] = paidBar[t] + n]
    <3>1. \A u \in TaskId : returned'[u] = IF u = t THEN returned[u] + n ELSE returned[u]
      BY <1>0, <2>1, <2>3 DEF TypeOK
    <3>2. \A u \in TaskId : returned[u] \in Nat /\ accrued[u] \in Nat /\ fees[u] \in Nat
      BY <1>0 DEF TypeOK
    <3>3. n \in Int BY <2>0
    <3>4. \A u \in TaskId : returned'[u] + accrued'[u] + fees'[u]
                = IF u = t THEN (returned[u] + accrued[u] + fees[u]) + n
                  ELSE returned[u] + accrued[u] + fees[u]
      BY <2>3, <3>1, <3>2, <3>3
    <3> QED BY <2>1, <3>4 DEF paidBar
  <2>6. amount' = [amount EXCEPT ![t] = amount[t] - n] 
    <3>1. payable = amount[t] - n BY <2>0, <2>2
    <3> QED BY <2>3, <3>1
  <2>7. Position!Return(t, n)
    BY <2>0, <2>4, <2>5, <2>6 DEF Position!Return, phaseBar, paidBar
  <2> QED BY <2>1, <2>7 DEF Position!PositionNext
<1>5. ASSUME NEW caller \in Account, NEW t \in TaskId, Accept(caller, t)
      PROVE  Position!PositionNext
  <2>1. /\ PhaseOf(status[t]) = "open" /\ status' = [status EXCEPT ![t] = "Released"]
        /\ amount' = [amount EXCEPT ![t] = 0]
        /\ accrued' = [accrued EXCEPT ![t] = accrued[t] + amount[t]]
        /\ UNCHANGED <<returned, fees>>
    BY <1>5 DEF Accept, Accrue, PhaseOf, Settled
  <2>2. /\ amount[t] \in Nat
        /\ returned' = [returned EXCEPT ![t] = returned[t] + 0]
        /\ fees' = [fees EXCEPT ![t] = fees[t] + 0]
    BY <1>0, <2>1 DEF TypeOK
  <2>3. "Released" \in Settled /\ 0 \in Nat /\ 0 + amount[t] + 0 = amount[t] BY <2>2 DEF Settled
  <2> QED BY <1>0, <2>1, <2>2, <2>3, PositionClose
<1>6. ASSUME NEW caller \in Account, NEW t \in TaskId, Refund(caller, t)
      PROVE  Position!PositionNext
  <2>1. /\ PhaseOf(status[t]) = "open" /\ status' = [status EXCEPT ![t] = "Refunded"]
        /\ amount' = [amount EXCEPT ![t] = 0]
        /\ returned' = [returned EXCEPT ![t] = returned[t] + amount[t]]
        /\ UNCHANGED <<accrued, fees>>
    BY <1>6 DEF Refund, PhaseOf, Settled
  <2>2. /\ amount[t] \in Nat
        /\ accrued' = [accrued EXCEPT ![t] = accrued[t] + 0]
        /\ fees' = [fees EXCEPT ![t] = fees[t] + 0]
    BY <1>0, <2>1 DEF TypeOK
  <2>3. "Refunded" \in Settled /\ 0 \in Nat /\ amount[t] + 0 + 0 = amount[t] BY <2>2 DEF Settled
  <2> QED BY <1>0, <2>1, <2>2, <2>3, PositionClose
<1>7. ASSUME NEW caller \in Account, NEW t \in TaskId, NEW a, NEW cap,
             FreezeDispute(caller, t, a, cap)
      PROVE  UNCHANGED Position!positionVars
  <2>1. /\ status[t] = "Assigned" /\ status' = [status EXCEPT ![t] = "Disputed"]
        /\ UNCHANGED <<amount, returned, accrued, fees>>
    BY <1>7 DEF FreezeDispute, flowVars
  <2>2. phaseBar' = phaseBar /\ paidBar' = paidBar
    BY <1>0, <2>1 DEF phaseBar, paidBar, PhaseOf, Settled, TypeOK
  <2> QED BY <2>1, <2>2 DEF Position!positionVars, phaseBar, paidBar
<1>8. ASSUME NEW caller \in Account, NEW t \in TaskId, NEW po \in Account, NEW ao \in Account,
             NEW pub \in 0..amount[t], NEW agt \in 0..amount[t], NEW fee \in 0..amount[t],
             FinalizeDisputeAllocation(caller, t, po, ao, pub, agt, fee)
      PROVE  Position!PositionNext
  <2> DEFINE s == IF agt = 0 THEN "Refunded" ELSE "Released"
  <2>1. /\ PhaseOf(status[t]) = "open" /\ status' = [status EXCEPT ![t] = s]
        /\ amount' = [amount EXCEPT ![t] = 0]
        /\ pub + agt + fee = amount[t]
    BY <1>8 DEF FinalizeDisputeAllocation, FinalizeDue, SplitExact, PhaseOf, Settled
  <2>2. /\ returned' = [returned EXCEPT ![t] = returned[t] + pub]
        /\ accrued' = [accrued EXCEPT ![t] = accrued[t] + agt]
        /\ fees' = [fees EXCEPT ![t] = fees[t] + fee]
    BY <1>8 DEF FinalizeDisputeAllocation, Accrue
  <2>3. pub \in Nat /\ agt \in Nat /\ fee \in Nat BY <1>0 DEF TypeOK
  <2>4. s \in Settled BY DEF Settled
  <2> HIDE DEF s
  <2> QED BY <1>0, <2>1, <2>2, <2>3, <2>4, PositionClose
<1>9. CASE \E caller \in Account :
               \/ \E t \in TaskId : CreateTask(caller, t) \/ Accept(caller, t) \/ Refund(caller, t)
               \/ \E p \in SelectionProof : SelectAgent(caller, p)
               \/ \E t \in TaskId, po \in Account, ao \in Account :
                  \E pub \in 0..amount[t], agt \in 0..amount[t], fee \in 0..amount[t] :
                      FinalizeDisputeAllocation(caller, t, po, ao, pub, agt, fee)
  BY <1>3, <1>4, <1>5, <1>6, <1>8, <1>9
<1>10. CASE \E caller \in Account :
               \/ Pause(caller) \/ Unpause(caller)
               \/ \E a \in Signer : SetPlatformProofSigner(caller, a)
               \/ \E a \in Resolver : SetDisputeResolver(caller, a)
               \/ \E a \in Account : \E n \in 1..totalClaimable : WithdrawEarnings(caller, a, n)
               \/ \E t \in TaskId : \/ \E n \in 0..MaxNonce : AdvanceWorkNonce(caller, t, n)
                                    \/ \E a \in Account : \E cap \in 0..amount[t] :
                                           FreezeDispute(caller, t, a, cap)
  BY <1>2, <1>7, <1>10
<1> QED
  BY <1>1, <1>9, <1>10 DEF Next

\* The contract implements EscrowPosition for every set of tasks and budgets.
THEOREM EscrowRefinesPosition == Spec => PositionsHold
<1>1. Init => Position!PositionInit BY PositionInitHolds
<1>2. EscrowInv /\ [Next]_vars => [Position!PositionNext]_(Position!positionVars)
  BY PositionStep
<1> QED BY <1>1, <1>2, EscrowInvHolds, PTL DEF Spec, PositionsHold, Position!PositionSpec

-----------------------------------------------------------------------------
\* While t is disputed its terms stand, or the resolver settles it within them.
TermsHoldAt(t) ==
    status[t] = "Disputed" =>
       \/ status'[t] = "Disputed" /\ amount'[t] = amount[t] /\ freeze'[t] = freeze[t]
       \/ /\ status'[t] \in Settled
          /\ now >= freeze[t].finalizeAfter
          /\ fees'[t] - fees[t] <= freeze[t].feeCap
          /\ (returned'[t] + accrued'[t] + fees'[t]) - (returned[t] + accrued[t] + fees[t])
                 = freeze[t].cap

\* One step of any caller keeps a disputed task to its frozen terms.
LEMMA TermsStep ==
    ASSUME EscrowInv, Next, NEW u \in TaskId, status[u] = "Disputed"
    PROVE  TermsHoldAt(u)
<1> USE ConstantTypes
<1>0. TypeOK BY DEF EscrowInv
<1>1. ASSUME NEW caller \in Account, NEW t \in TaskId, NEW po \in Account, NEW ao \in Account,
             NEW pub \in 0..amount[t], NEW agt \in 0..amount[t], NEW fee \in 0..amount[t],
             FinalizeDisputeAllocation(caller, t, po, ao, pub, agt, fee)
      PROVE  TermsHoldAt(u)
  <2>1. CASE u # t
    BY <1>0, <1>1, <2>1 DEF FinalizeDisputeAllocation, TypeOK, TermsHoldAt
  <2>2. CASE u = t
    <3>1. /\ status'[u] \in Settled /\ now >= freeze[u].finalizeAfter /\ fee <= freeze[u].feeCap
          /\ freeze[u].cap = amount[u] /\ pub + agt + fee = amount[u]
      BY <1>0, <1>1, <2>2
      DEF FinalizeDisputeAllocation, FinalizeDue, LeafMatches, SplitExact, TypeOK, Settled
    <3>2. /\ returned'[u] = returned[u] + pub /\ accrued'[u] = accrued[u] + agt
          /\ fees'[u] = fees[u] + fee
      BY <1>0, <1>1, <2>2 DEF FinalizeDisputeAllocation, Accrue, TypeOK
    <3>3. /\ returned[u] \in Nat /\ accrued[u] \in Nat /\ fees[u] \in Nat /\ amount[u] \in Nat
          /\ pub \in Nat /\ agt \in Nat /\ fee \in Nat
      BY <1>0, <2>2 DEF TypeOK
    <3>4. fees'[u] - fees[u] = fee BY <3>2, <3>3
    <3>5. (returned'[u] + accrued'[u] + fees'[u]) - (returned[u] + accrued[u] + fees[u])
             = pub + agt + fee
      BY <3>2, <3>3
    <3> QED BY <3>1, <3>4, <3>5, Zenon DEF TermsHoldAt
  <2> QED BY <2>1, <2>2
<1>2. ASSUME status'[u] = "Disputed", amount'[u] = amount[u], freeze'[u] = freeze[u]
      PROVE  TermsHoldAt(u)
  BY <1>2 DEF TermsHoldAt
<1>3. CASE Transfer \/ Tick
  BY <1>2, <1>3 DEF Transfer, Tick, taskVars
<1>4. ASSUME NEW caller \in Account, NEW a, NEW n, NEW t \in TaskId,
             \/ Pause(caller) \/ Unpause(caller)
             \/ SetPlatformProofSigner(caller, a) \/ SetDisputeResolver(caller, a)
             \/ WithdrawEarnings(caller, a, n) \/ AdvanceWorkNonce(caller, t, n)
      PROVE  TermsHoldAt(u)
  BY <1>2, <1>4 DEF Pause, Unpause, SetPlatformProofSigner, SetDisputeResolver,
     WithdrawEarnings, AdvanceWorkNonce, taskVars
<1>5. ASSUME NEW caller \in Account, NEW t \in TaskId, NEW a, NEW cap,
             \/ CreateTask(caller, t) \/ Accept(caller, t) \/ Refund(caller, t)
             \/ FreezeDispute(caller, t, a, cap)
      PROVE  TermsHoldAt(u)
  <2>1. u # t
    BY <1>5 DEF CreateTask, TaskExists, Accept, Refund, FreezeDispute
  <2> QED BY <1>0, <1>2, <1>5, <2>1 DEF CreateTask, Accept, Refund, FreezeDispute, TypeOK
<1>6. ASSUME NEW caller \in Account, NEW p \in SelectionProof, SelectAgent(caller, p)
      PROVE  TermsHoldAt(u)
  <2>1. u # p.taskId BY <1>6 DEF SelectAgent
  <2>2. p.taskId \in TaskId BY DEF ProofType
  <2> QED BY <1>0, <1>2, <1>6, <2>1, <2>2 DEF SelectAgent, TypeOK
<1>7. CASE \E caller \in Account :
               \/ \E p \in SelectionProof : SelectAgent(caller, p)
               \/ \E t \in TaskId, po \in Account, ao \in Account :
                  \E pub \in 0..amount[t], agt \in 0..amount[t], fee \in 0..amount[t] :
                      FinalizeDisputeAllocation(caller, t, po, ao, pub, agt, fee)
  BY <1>1, <1>6, <1>7
<1>8. CASE \E caller \in Account :
               \/ Pause(caller) \/ Unpause(caller)
               \/ \E a \in Signer : SetPlatformProofSigner(caller, a)
               \/ \E a \in Resolver : SetDisputeResolver(caller, a)
               \/ \E a \in Account : \E n \in 1..totalClaimable : WithdrawEarnings(caller, a, n)
               \/ \E t \in TaskId : \E n \in 0..MaxNonce : AdvanceWorkNonce(caller, t, n)
  BY <1>4, <1>8
<1>9. CASE \E caller \in Account : \E t \in TaskId :
               \/ CreateTask(caller, t) \/ Accept(caller, t) \/ Refund(caller, t)
               \/ \E a \in Account : \E cap \in 0..amount[t] : FreezeDispute(caller, t, a, cap)
  BY <1>5, <1>9
<1> QED BY <1>3, <1>7, <1>8, <1>9 DEF Next

\* Rotation of the resolver, a pause or any other call leaves an open dispute's
\* terms alone; only finalizeDisputeAllocation ends it, within those terms.
THEOREM DisputeTerms == Spec => DisputeTermsHold
<1>1. EscrowInv /\ [Next]_vars => [\A t \in TaskId : TermsHoldAt(t)]_vars
  <2> SUFFICES ASSUME EscrowInv, Next, NEW t \in TaskId PROVE TermsHoldAt(t)
    OBVIOUS
  <2>1. CASE status[t] = "Disputed" BY <2>1, TermsStep
  <2>2. CASE status[t] # "Disputed" BY <2>2 DEF TermsHoldAt
  <2> QED BY <2>1, <2>2
<1> QED BY <1>1, EscrowInvHolds, PTL DEF Spec, DisputeTermsHold, TermsHoldAt
-----------------------------------------------------------------------------
\* OneTimeIds needs the two sets it counts to be finite: they start empty and every
\* selection adds one nonce and one task.
IdsInv == OneTimeIds /\ IsFiniteSet(Selected) /\ IsFiniteSet(usedNonces)

\* What OneTimeIds reads.
LEMMA SameIds == IdsInv /\ UNCHANGED <<assignment, usedVars>> => IdsInv'
BY DEF IdsInv, OneTimeIds, Selected, usedVars

\* A selection consumes a fresh nonce, assignment and credit for a task without one.
LEMMA SelectionIds ==
    ASSUME TypeOK, IdsInv, NEW caller \in Account, NEW p \in SelectionProof, SelectAgent(caller, p)
    PROVE  IdsInv'
<1> USE ConstantTypes
<1>1. PICK t \in TaskId : t = p.taskId
  BY DEF ProofType
<1>2. PICK row : row = [id |-> p.assignmentId, agentController |-> p.agentController,
                        payout |-> p.payout, allocationId |-> p.allocationId]
  OBVIOUS
<1>3. /\ assignment' = [assignment EXCEPT ![t] = row]
      /\ usedNonces' = usedNonces \cup {p.nonce}
      /\ usedAssignments' = usedAssignments \cup {row.id}
      /\ usedCredits' = usedCredits \cup {row.allocationId}
  BY <1>1, <1>2 DEF SelectAgent
<1>4. /\ p.nonce \notin usedNonces /\ assignment[t].id = Zero
      /\ row.id \notin usedAssignments /\ row.allocationId \notin usedCredits /\ row.id # Zero
  BY <1>1, <1>2 DEF SelectAgent, ProofFresh, ProofValid
<1>5. /\ assignment'[t] = row
      /\ \A u \in TaskId : u # t => assignment'[u] = assignment[u]
  BY <1>3 DEF TypeOK
<1>6. t \notin Selected /\ Selected' = Selected \cup {t}
  BY <1>4, <1>5 DEF Selected
<1>7. \A u \in Selected : u # t /\ assignment'[u] = assignment[u]
  BY <1>5, <1>6 DEF Selected
<1>8. /\ usedAssignments = {assignment[u].id : u \in Selected}
      /\ usedCredits = {assignment[u].allocationId : u \in Selected}
      /\ \A x, y \in Selected : x # y =>
            assignment[x].id # assignment[y].id /\ assignment[x].allocationId # assignment[y].allocationId
      /\ Cardinality(usedNonces) = Cardinality(Selected)
  BY DEF IdsInv, OneTimeIds
<1>9. \A u \in Selected : assignment'[u].id # row.id /\ assignment'[u].allocationId # row.allocationId
  BY <1>4, <1>7, <1>8
<1>10. \A x, y \in Selected' : x # y =>
            /\ assignment'[x].id # assignment'[y].id
            /\ assignment'[x].allocationId # assignment'[y].allocationId
  BY <1>5, <1>6, <1>7, <1>8, <1>9
<1>11. /\ usedAssignments' = {assignment'[u].id : u \in Selected'}
       /\ usedCredits' = {assignment'[u].allocationId : u \in Selected'}
  BY <1>3, <1>5, <1>6, <1>7, <1>8
<1>12. /\ IsFiniteSet(Selected') /\ Cardinality(Selected') = Cardinality(Selected) + 1
       /\ IsFiniteSet(usedNonces') /\ Cardinality(usedNonces') = Cardinality(usedNonces) + 1
  BY <1>3, <1>4, <1>6, FS_AddElement DEF IdsInv
<1> QED
  BY <1>8, <1>10, <1>11, <1>12 DEF IdsInv, OneTimeIds

\* Only a selection touches the one-time ids.
LEMMA IdsStep == TypeOK /\ IdsInv /\ [Next]_vars => IdsInv'
<1> SUFFICES ASSUME TypeOK, IdsInv, [Next]_vars PROVE IdsInv'
  OBVIOUS
<1>1. CASE Transfer \/ Tick \/ UNCHANGED vars
  BY <1>1, SameIds DEF Transfer, Tick, vars, taskVars
<1>2. ASSUME NEW caller \in Account, NEW t \in TaskId, NEW n, AdvanceWorkNonce(caller, t, n)
      PROVE  IdsInv'
  BY <1>2, SameIds DEF AdvanceWorkNonce
<1>3. ASSUME NEW caller \in Account, NEW t \in TaskId, NEW a, NEW cap,
             \/ CreateTask(caller, t) \/ Accept(caller, t) \/ Refund(caller, t)
             \/ FreezeDispute(caller, t, a, cap)
      PROVE  IdsInv'
  BY <1>3, SameIds DEF CreateTask, Accept, Refund, FreezeDispute
<1>4. ASSUME NEW caller \in Account, NEW t \in TaskId, NEW po, NEW ao, NEW pub, NEW agt, NEW fee,
             FinalizeDisputeAllocation(caller, t, po, ao, pub, agt, fee)
      PROVE  IdsInv'
  BY <1>4, SameIds DEF FinalizeDisputeAllocation
<1>5. ASSUME NEW caller \in Account, NEW p \in SelectionProof, SelectAgent(caller, p)
      PROVE  IdsInv'
  BY <1>5, SelectionIds
<1>6. CASE \E caller \in Account :
               \/ \E p \in SelectionProof : SelectAgent(caller, p)
               \/ \E t \in TaskId, po \in Account, ao \in Account :
                  \E pub \in 0..amount[t], agt \in 0..amount[t], fee \in 0..amount[t] :
                      FinalizeDisputeAllocation(caller, t, po, ao, pub, agt, fee)
  BY <1>4, <1>5, <1>6
<1>7. CASE \E caller \in Account :
               \/ Pause(caller) \/ Unpause(caller)
               \/ \E a \in Signer : SetPlatformProofSigner(caller, a)
               \/ \E a \in Resolver : SetDisputeResolver(caller, a)
               \/ \E a \in Account : \E n \in 1..totalClaimable : WithdrawEarnings(caller, a, n)
               \/ \E t \in TaskId : \E n \in 0..MaxNonce : AdvanceWorkNonce(caller, t, n)
  <2>1. ASSUME NEW caller \in Account, NEW a, NEW n,
               \/ Pause(caller) \/ Unpause(caller)
               \/ SetPlatformProofSigner(caller, a) \/ SetDisputeResolver(caller, a)
               \/ WithdrawEarnings(caller, a, n)
        PROVE  IdsInv'
    BY <2>1, SameIds DEF Pause, Unpause, SetPlatformProofSigner, SetDisputeResolver,
       WithdrawEarnings, taskVars
  <2> QED
    BY <1>2, <1>7, <2>1
<1>8. CASE \E caller \in Account : \E t \in TaskId :
               \/ CreateTask(caller, t) \/ Accept(caller, t) \/ Refund(caller, t)
               \/ \E a \in Account : \E cap \in 0..amount[t] : FreezeDispute(caller, t, a, cap)
  BY <1>3, <1>8
<1> QED
  BY <1>1, <1>6, <1>7, <1>8 DEF Next

\* No selection nonce, assignment id or overview credit serves two tasks, whatever proofs
\* circulate and in whatever order they arrive (usedSelectionNonces, usedAssignmentIds and
\* usedOverviewCredits in selectAgent).
THEOREM IdsServeOnce == Spec => []OneTimeIds
<1>1. Init => IdsInv
  <2> SUFFICES ASSUME Init PROVE IdsInv
    OBVIOUS
  <2>1. Selected = {}
    BY DEF Init, Selected, NoAssignment
  <2> QED
    BY <2>1, FS_EmptySet DEF Init, IdsInv, OneTimeIds
<1>2. EscrowInv => TypeOK
  BY DEF EscrowInv
<1>3. IdsInv => OneTimeIds
  BY DEF IdsInv
<1> QED
  BY <1>1, <1>2, <1>3, IdsStep, EscrowInvHolds, PTL DEF Spec
-----------------------------------------------------------------------------
\* The units of one entry.
LEMMA UnitsOfOne ==
    ASSUME NEW x, NEW n \in Nat
    PROVE  IsFiniteSet({x} \X (1..n)) /\ Cardinality({x} \X (1..n)) = n
<1>1. IsFiniteSet({x}) /\ Cardinality({x}) = 1
  BY FS_Singleton
<1>2. IsFiniteSet(1..n) /\ Cardinality(1..n) = n
  BY FS_Interval
<1>3. /\ IsFiniteSet({x} \X (1..n))
      /\ Cardinality({x} \X (1..n)) = Cardinality({x}) * Cardinality(1..n)
  BY <1>1, <1>2, FS_Product
<1> QED
  BY <1>1, <1>2, <1>3

\* A unit names its entry.
LEMMA UnitOf ==
    ASSUME NEW S, NEW f, NEW u
    PROVE  u \in Units(f, S) <=> \E x \in S : u \in {x} \X (1..f[x])
BY DEF Units

\* No entries, no units.
LEMMA NoUnits == ASSUME NEW f PROVE IsFiniteSet(Units(f, {})) /\ SumOver(f, {}) = 0
<1>1. Units(f, {}) = {}
  BY DEF Units
<1> QED
  BY <1>1, FS_EmptySet DEF SumOver

\* Only the entries summed matter.
LEMMA SameUnits ==
    ASSUME NEW S, NEW f, NEW g, \A x \in S : f[x] = g[x]
    PROVE  Units(f, S) = Units(g, S)
<1>1. \A u : u \in Units(f, S) <=> u \in Units(g, S)
  BY UnitOf
<1> QED
  BY <1>1

\* A sum is one of its entries and the sum of the others.
LEMMA SumSplits ==
    ASSUME NEW S, NEW f, NEW x \in S, f[x] \in Nat, IsFiniteSet(Units(f, S \ {x}))
    PROVE  /\ IsFiniteSet(Units(f, S))
           /\ SumOver(f, S) = SumOver(f, S \ {x}) + f[x]
           /\ SumOver(f, S \ {x}) \in Nat /\ SumOver(f, S) \in Nat
<1> DEFINE rest == Units(f, S \ {x})
           mine == {x} \X (1..f[x])
<1>1. Units(f, S) = rest \cup mine
  BY UnitOf
<1>2. rest \cap mine = {}
  BY UnitOf
<1>3. IsFiniteSet(mine) /\ Cardinality(mine) = f[x]
  BY UnitsOfOne
<1> HIDE DEF mine, rest
<1>4. /\ IsFiniteSet(rest \cup mine)
      /\ Cardinality(rest \cup mine) = Cardinality(rest) + Cardinality(mine) - Cardinality(rest \cap mine)
  BY <1>3, FS_Union DEF rest
<1>5. Cardinality(rest \cap mine) = 0 /\ Cardinality(rest) \in Nat
  BY <1>2, FS_EmptySet, FS_CardinalityType DEF rest
<1> QED
  BY <1>1, <1>3, <1>4, <1>5 DEF SumOver, rest

\* g is f with another entry at x.
Rewritten(f, g, S, x) == \A y \in S : y # x => g[y] = f[y]

\* Writing one entry changes the sum by what the entry changes.
LEMMA SumChanges ==
    ASSUME NEW S, NEW f, NEW g, NEW x \in S, f[x] \in Nat, g[x] \in Nat,
           Rewritten(f, g, S, x), IsFiniteSet(Units(f, S))
    PROVE  /\ IsFiniteSet(Units(g, S))
           /\ SumOver(g, S) = SumOver(f, S) - f[x] + g[x]
           /\ SumOver(f, S) \in Nat /\ SumOver(g, S) \in Nat
<1>1. Units(f, S \ {x}) \subseteq Units(f, S)
  BY UnitOf
<1>2. IsFiniteSet(Units(f, S \ {x}))
  BY <1>1, FS_Subset
<1>3. Units(g, S \ {x}) = Units(f, S \ {x})
  BY SameUnits DEF Rewritten
<1>4. SumOver(g, S \ {x}) = SumOver(f, S \ {x})
  BY <1>3 DEF SumOver
<1>5. /\ SumOver(f, S) = SumOver(f, S \ {x}) + f[x]
      /\ SumOver(f, S \ {x}) \in Nat /\ SumOver(f, S) \in Nat
  BY <1>2, SumSplits
<1>6. /\ IsFiniteSet(Units(g, S)) /\ SumOver(g, S) \in Nat
      /\ SumOver(g, S) = SumOver(g, S \ {x}) + g[x]
  BY <1>2, <1>3, SumSplits
<1> QED
  BY <1>4, <1>5, <1>6

\* Nothing is owed when every entry is zero.
LEMMA ZeroSum ==
    ASSUME NEW S, NEW f, \A x \in S : f[x] = 0
    PROVE  IsFiniteSet(Units(f, S)) /\ SumOver(f, S) = 0
<1>1. \A u : u \notin Units(f, S)
  BY UnitOf
<1>2. Units(f, S) = {}
  BY <1>1
<1> QED
  BY <1>2, FS_EmptySet DEF SumOver
-----------------------------------------------------------------------------
\* What the moves of a call put into the escrow, less what they take out of it.
Weights(s, dir) == [i \in DOMAIN s |-> IF s[i].dir = dir THEN s[i].amount ELSE 0]
Net(s) == SumOver(Weights(s, "in"), DOMAIN s) - SumOver(Weights(s, "out"), DOMAIN s)
Signed(m) == IF m.dir = "in" THEN m.amount ELSE 0 - m.amount

\* The sum of one direction, for the at most two moves a call makes.
LEMMA OneWay ==
    ASSUME NEW s \in Seq(MoveType), NEW dir
    PROVE  /\ Len(s) = 0 => SumOver(Weights(s, dir), DOMAIN s) = 0
           /\ Len(s) = 1 => SumOver(Weights(s, dir), DOMAIN s) = Weights(s, dir)[1]
           /\ Len(s) = 2 => SumOver(Weights(s, dir), DOMAIN s)
                                = Weights(s, dir)[1] + Weights(s, dir)[2]
           /\ Len(s) <= 2 => SumOver(Weights(s, dir), DOMAIN s) \in Nat
<1> DEFINE f == Weights(s, dir)
<1>1. DOMAIN s = 1..Len(s) /\ Len(s) \in Nat
  OBVIOUS
<1>2. \A i \in 1..Len(s) : f[i] \in Nat
  <2> TAKE i \in 1..Len(s)
  <2>0. s[i] \in MoveType
    BY <1>1
  <2>1. s[i].amount \in Nat
    BY <2>0 DEF MoveType
  <2> QED
    BY <1>1, <2>1 DEF Weights
<1> HIDE DEF f
<1>3. ASSUME Len(s) = 0 PROVE SumOver(f, DOMAIN s) = 0
  <2>1. DOMAIN s = {}
    BY <1>1, <1>3
  <2> QED
    BY <2>1, NoUnits
<1>4. ASSUME Len(s) >= 1
      PROVE  IsFiniteSet(Units(f, {1})) /\ SumOver(f, {1}) = f[1] /\ f[1] \in Nat
  <2>1. f[1] \in Nat
    BY <1>1, <1>2, <1>4
  <2>2. {1} \ {1} = {}
    OBVIOUS
  <2>3. IsFiniteSet(Units(f, {1} \ {1})) /\ SumOver(f, {1} \ {1}) = 0
    BY <2>2, NoUnits
  <2>4. 1 \in {1}
    OBVIOUS
  <2>5. /\ IsFiniteSet(Units(f, {1}))
        /\ SumOver(f, {1}) = SumOver(f, {1} \ {1}) + f[1]
    BY <2>1, <2>3, <2>4, SumSplits, Zenon
  <2> QED
    BY <2>1, <2>3, <2>5
<1>5. ASSUME Len(s) = 1 PROVE SumOver(f, DOMAIN s) = f[1] /\ f[1] \in Nat
  <2>1. DOMAIN s = {1}
    BY <1>1, <1>5
  <2> QED
    BY <1>4, <1>5, <2>1
<1>6. ASSUME Len(s) = 2
      PROVE  SumOver(f, DOMAIN s) = f[1] + f[2] /\ f[1] \in Nat /\ f[2] \in Nat
  <2>1. DOMAIN s = {1, 2}
    BY <1>1, <1>6
  <2>2. {1, 2} \ {2} = {1} /\ 2 \in {1, 2}
    OBVIOUS
  <2>3. f[2] \in Nat
    BY <1>2, <1>6
  <2>4. IsFiniteSet(Units(f, {1})) /\ SumOver(f, {1}) = f[1] /\ f[1] \in Nat
    BY <1>4, <1>6
  <2>5. 2 \in {1, 2} /\ IsFiniteSet(Units(f, {1, 2} \ {2}))
    BY <2>2, <2>4, Zenon
  <2>6. SumOver(f, {1, 2}) = SumOver(f, {1, 2} \ {2}) + f[2]
    BY <2>3, <2>5, SumSplits, Zenon
  <2> QED
    <3>1. SumOver(f, {1, 2}) = f[1] + f[2]
      BY <2>2, <2>6, <2>4, Zenon
    <3> QED
      BY <2>1, <2>3, <2>4, <3>1
<1>7. Len(s) <= 2 => Len(s) = 0 \/ Len(s) = 1 \/ Len(s) = 2
  BY <1>1
<1> QED
  BY <1>3, <1>5, <1>6, <1>7 DEF f

\* The net of a call's moves is their signed sum.
LEMMA NetIsSigned ==
    ASSUME NEW s \in Seq(MoveType)
    PROVE  /\ Len(s) = 0 => Net(s) = 0
           /\ Len(s) = 1 => Net(s) = Signed(s[1])
           /\ Len(s) = 2 => Net(s) = Signed(s[1]) + Signed(s[2])
           /\ \A i \in 1..Len(s) : Signed(s[i]) \in Int
<1>1. DOMAIN s = 1..Len(s) /\ Len(s) \in Nat
  OBVIOUS
<1>2. \A i \in 1..Len(s) : s[i].dir \in {"in", "out"} /\ s[i].amount \in Nat
  <2> TAKE i \in 1..Len(s)
  <2>1. s[i] \in MoveType
    BY <1>1
  <2> QED
    BY <2>1 DEF MoveType
<1>3. \A i \in 1..Len(s) : /\ Weights(s, "in")[i] \in Nat /\ Weights(s, "out")[i] \in Nat
                           /\ Signed(s[i]) = Weights(s, "in")[i] - Weights(s, "out")[i]
  BY <1>1, <1>2 DEF Weights, Signed
<1>4. CASE Len(s) = 0
  <2>1. /\ SumOver(Weights(s, "in"), DOMAIN s) = 0
        /\ SumOver(Weights(s, "out"), DOMAIN s) = 0
    BY <1>4, OneWay
  <2> QED
    BY <1>4, <2>1 DEF Net
<1>5. CASE Len(s) = 1
  <2>1. 1 \in 1..Len(s)
    BY <1>5
  <2> QED
    BY <1>3, <1>5, <2>1, OneWay DEF Net
<1>6. CASE Len(s) = 2
  <2>1. 1 \in 1..Len(s) /\ 2 \in 1..Len(s)
    BY <1>6
  <2>2. /\ SumOver(Weights(s, "in"), DOMAIN s) = Weights(s, "in")[1] + Weights(s, "in")[2]
        /\ SumOver(Weights(s, "out"), DOMAIN s) = Weights(s, "out")[1] + Weights(s, "out")[2]
    BY <1>6, OneWay
  <2> QED
    BY <1>3, <1>6, <2>1, <2>2 DEF Net
<1>7. \A i \in 1..Len(s) : Signed(s[i]) \in Int
  BY <1>3
<1> QED
  BY <1>4, <1>5, <1>6, <1>7

\* A transfer of n counts n, and one of zero is skipped.
LEMMA MoveNet ==
    ASSUME NEW dir \in {"in", "out"}, NEW n \in Nat
    PROVE  /\ Len(Move(dir, n)) = IF n = 0 THEN 0 ELSE 1
           /\ n # 0 => Move(dir, n)[1] = [dir |-> dir, amount |-> n]
           /\ Net(Move(dir, n)) = IF dir = "in" THEN n ELSE 0 - n
<1>1. Move(dir, n) \in Seq(MoveType)
  BY MoveIsSeq
<1>2. CASE n = 0
  <2>1. Len(Move(dir, n)) = 0
    BY <1>2 DEF Move
  <2> QED
    BY <1>1, <1>2, <2>1, NetIsSigned
<1>3. CASE n # 0
  <2>1. Len(Move(dir, n)) = 1 /\ Move(dir, n)[1] = [dir |-> dir, amount |-> n]
    BY <1>3 DEF Move
  <2>2. Signed([dir |-> dir, amount |-> n]) = IF dir = "in" THEN n ELSE 0 - n
    BY DEF Signed
  <2> QED
    BY <1>1, <1>3, <2>1, <2>2, NetIsSigned
<1> QED
  BY <1>2, <1>3

\* Two payments count together.
LEMMA TwoOut ==
    ASSUME NEW p \in Nat, NEW q \in Nat
    PROVE  /\ Out(p) \o Out(q) \in Seq(MoveType) /\ Len(Out(p) \o Out(q)) <= 2
           /\ Net(Out(p) \o Out(q)) = 0 - (p + q)
<1> DEFINE a == Out(p)
           b == Out(q)
<1>1. a \in Seq(MoveType) /\ b \in Seq(MoveType)
  BY MoveIsSeq DEF Out
<1>2. /\ Len(a) = IF p = 0 THEN 0 ELSE 1
      /\ p # 0 => a[1] = [dir |-> "out", amount |-> p]
      /\ Net(a) = 0 - p
  BY MoveNet DEF Out
<1>3. /\ Len(b) = IF q = 0 THEN 0 ELSE 1
      /\ q # 0 => b[1] = [dir |-> "out", amount |-> q]
      /\ Net(b) = 0 - q
  BY MoveNet DEF Out
<1>4. \A n \in Nat : Signed([dir |-> "out", amount |-> n]) = 0 - n
  BY DEF Signed
<1> HIDE DEF a, b
<1>5. a \o b \in Seq(MoveType) /\ Len(a \o b) = Len(a) + Len(b)
  BY <1>1
<1>6. CASE p = 0 \/ q = 0
  <2>1. Net(a \o b) = 0 - (p + q) /\ Len(a \o b) <= 2
    <3>1. Len(a \o b) <= 2
      BY <1>2, <1>3, <1>5
    <3>2. CASE p = 0
      <4>1. a = <<>>
        BY <1>1, <1>2, <3>2
      <4>2. a \o b = b
        BY <1>1, <4>1
      <4>3. Net(a \o b) = Net(b)
        BY <4>2
      <4> QED
        BY <1>3, <3>1, <3>2, <4>3
    <3>3. CASE q = 0
      <4>1. b = <<>>
        BY <1>1, <1>3, <3>3
      <4>2. a \o b = a
        BY <1>1, <4>1
      <4>3. Net(a \o b) = Net(a)
        BY <4>2
      <4> QED
        BY <1>2, <3>1, <3>3, <4>3
    <3> QED
      BY <1>6, <3>2, <3>3
  <2> QED
    BY <1>5, <2>1 DEF a, b
<1>7. CASE p # 0 /\ q # 0
  <2>1. Len(a \o b) = 2 /\ (a \o b)[1] = a[1] /\ (a \o b)[2] = b[1]
    BY <1>1, <1>2, <1>3, <1>5, <1>7
  <2>2. Net(a \o b) = Signed(a[1]) + Signed(b[1])
    BY <1>5, <2>1, NetIsSigned
  <2>3. Signed(a[1]) = 0 - p /\ Signed(b[1]) = 0 - q
    BY <1>2, <1>3, <1>4, <1>7
  <2> QED
    BY <1>5, <2>1, <2>2, <2>3 DEF a, b
<1> QED
  BY <1>6, <1>7
-----------------------------------------------------------------------------
\* Solvency is not inductive alone: a call may start only when no other call still has
\* tokens to move, which is what the lock stands for, and no call moves more than twice.
CallShape == (locked = 1 <=> transfers = <<>>) /\ Len(transfers) <= 2
SumsFinite ==
    /\ IsFiniteSet(Units(amount, TaskId)) /\ IsFiniteSet(Units(claimable, Account \X Account))
    /\ IsFiniteSet(Units(accrued, TaskId)) /\ IsFiniteSet(Units(yieldOf, TaskId))
Books ==
    /\ balance + Net(transfers) = SumOver(amount, TaskId) + totalClaimable
    /\ totalClaimable = SumOver(claimable, Account \X Account)
    /\ totalClaimable + withdrawn = SumOver(accrued, TaskId)
    /\ totalYield = SumOver(yieldOf, TaskId)
MoneyInv == CallShape /\ SumsFinite /\ Books

\* Books is Solvency with the two pending sums taken together.
LEMMA BooksAreSolvency == TypeOK /\ MoneyInv => Solvency
<1> SUFFICES ASSUME TypeOK, MoneyInv PROVE Solvency
  OBVIOUS
<1>1. transfers \in Seq(MoveType) /\ Len(transfers) <= 2 /\ balance \in Int
  BY DEF TypeOK, MoneyInv, CallShape
<1>2. /\ Pending("in") = SumOver(Weights(transfers, "in"), DOMAIN transfers)
      /\ Pending("out") = SumOver(Weights(transfers, "out"), DOMAIN transfers)
  BY DEF Pending, Weights
<1>3. Pending("in") \in Nat /\ Pending("out") \in Nat
  BY <1>1, <1>2, OneWay
<1>4. Pending("in") - Pending("out") = Net(transfers)
  BY <1>2 DEF Net
<1>5. balance + Pending("in") - Pending("out") = balance + Net(transfers)
  BY <1>1, <1>3, <1>4
<1> QED
  BY <1>5 DEF MoneyInv, Books, Solvency

\* What the books are kept in.
LEMMA SameMoney ==
    MoneyInv /\ UNCHANGED <<amount, ledgerVars, yieldVars, callVars, balance, accrued, withdrawn>>
        => MoneyInv'
BY DEF MoneyInv, CallShape, SumsFinite, Books, ledgerVars, yieldVars, callVars

\* A guarded call starts with nothing left to move and leaves its own moves.
LEMMA CallStarts ==
    ASSUME TypeOK, CallShape, locked = 1, NEW moves \in Seq(MoveType), Len(moves) <= 2, Calls(moves)
    PROVE  CallShape' /\ Net(transfers) = 0 /\ Net(transfers') = Net(moves)
<1>1. transfers = <<>>
  BY DEF CallShape
<1>2. transfers' = moves
  BY <1>1 DEF Calls
<1>3. locked' = IF moves = <<>> THEN 1 ELSE 2
  BY DEF Calls
<1>4. Net(transfers) = 0
  <2>1. transfers \in Seq(MoveType) /\ Len(transfers) = 0
    BY <1>1 DEF TypeOK
  <2> QED
    BY <2>1, NetIsSigned
<1> QED
  BY <1>2, <1>3, <1>4 DEF CallShape

\* A single move of a call.
LEMMA OneMove ==
    ASSUME NEW dir \in {"in", "out"}, NEW n \in Nat
    PROVE  Move(dir, n) \in Seq(MoveType) /\ Len(Move(dir, n)) <= 2
<1>1. Len(Move(dir, n)) = IF n = 0 THEN 0 ELSE 1
  BY MoveNet, Zenon
<1>2. \A k : k = (IF n = 0 THEN 0 ELSE 1) => k <= 2
  OBVIOUS
<1> QED
  BY <1>1, <1>2, MoveIsSeq, Zenon

\* The transfers of a call change the balance by what they were counted for.
LEMMA TransferMoney ==
    ASSUME TypeOK, MoneyInv, Transfer
    PROVE  MoneyInv'
<1> DEFINE s == transfers
<1>1. s \in Seq(MoveType) /\ s # <<>> /\ Len(s) \in {1, 2} /\ balance \in Int
  <2>1. s \in Seq(MoveType) /\ s # <<>> /\ Len(s) <= 2 /\ balance \in Int
    BY DEF TypeOK, MoneyInv, CallShape, Transfer
  <2>2. Len(s) \in Nat /\ Len(s) # 0
    <3>1. Len(s) \in Nat \ {0}
      BY <2>1, EmptySeq, Zenon
    <3> QED
      BY <3>1
  <2>3. \A k \in Nat : k # 0 /\ k <= 2 => k \in {1, 2}
    OBVIOUS
  <2> QED
    BY <2>1, <2>2, <2>3, Zenon
<1>2. /\ Head(s) = s[1] /\ Tail(s) \in Seq(MoveType) /\ Len(Tail(s)) = Len(s) - 1
      /\ Len(s) = 2 => Tail(s)[1] = s[2]
  BY <1>1
<1>3. s[1] \in MoveType
  BY <1>1
<1>4. s[1].dir \in {"in", "out"} /\ s[1].amount \in Nat
  BY <1>3 DEF MoveType
<1>5. balance' = balance + Signed(s[1]) /\ Signed(s[1]) \in Int
  BY <1>1, <1>2, <1>4 DEF Transfer, Signed
<1>6. Net(s) = Signed(s[1]) + Net(Tail(s)) /\ Net(Tail(s)) \in Int
  <2>1. CASE Len(s) = 1
    <3>1. Net(s) = Signed(s[1])
      BY <1>1, <2>1, NetIsSigned
    <3>2. Len(Tail(s)) = 0
      BY <1>2, <2>1
    <3>3. Net(Tail(s)) = 0
      BY <1>2, <3>2, NetIsSigned
    <3> QED
      BY <1>5, <3>1, <3>3
  <2>2. CASE Len(s) = 2
    <3>1. Net(s) = Signed(s[1]) + Signed(s[2])
      BY <1>1, <2>2, NetIsSigned
    <3>2. 2 \in 1..Len(s)
      BY <2>2
    <3>3. Signed(s[2]) \in Int
      BY <1>1, <3>2, NetIsSigned
    <3>4. Len(Tail(s)) = 1
      BY <1>2, <2>2
    <3>5. Net(Tail(s)) = Signed(s[2])
      BY <1>2, <2>2, <3>4, NetIsSigned
    <3> QED
      BY <3>1, <3>3, <3>5
  <2> QED
    BY <1>1, <2>1, <2>2
<1>7. transfers' = Tail(s) /\ locked' = IF Tail(s) = <<>> THEN 1 ELSE locked
  BY DEF Transfer
<1>8. balance' + Net(transfers') = balance + Net(transfers)
  BY <1>1, <1>5, <1>6, <1>7
<1>9. CallShape'
  <2>1. locked = 2
    BY <1>1 DEF TypeOK, MoneyInv, CallShape
  <2>2. Len(transfers') <= 2
    <3>1. \A k \in {1, 2} : k - 1 <= 2
      OBVIOUS
    <3> QED
      BY <1>1, <1>2, <1>7, <3>1, Zenon
  <2> QED
    <3>1. (locked' = 1) <=> (transfers' = <<>>)
      BY <1>7, <2>1
    <3> QED
      BY <2>2, <3>1 DEF CallShape
<1>10. UNCHANGED <<amount, ledgerVars, yieldVars, accrued, withdrawn>>
  BY DEF Transfer, taskVars, flowVars
<1> QED
  BY <1>8, <1>9, <1>10 DEF MoneyInv, SumsFinite, Books, ledgerVars, yieldVars

\* The amounts and totals are numbers, and an assigned task's claim has its place.
LEMMA MoneyTypes ==
    ASSUME EscrowInv, MoneyInv
    PROVE  /\ SumOver(amount, TaskId) \in Nat /\ SumOver(accrued, TaskId) \in Nat
           /\ SumOver(yieldOf, TaskId) \in Nat /\ totalClaimable \in Nat
           /\ balance \in Int /\ withdrawn \in Int
           /\ amount \in [TaskId -> Nat] /\ IsFiniteSet(Units(amount, TaskId))
           /\ accrued \in [TaskId -> Nat] /\ IsFiniteSet(Units(accrued, TaskId))
           /\ yieldOf \in [TaskId -> Nat] /\ IsFiniteSet(Units(yieldOf, TaskId))
<1>1. /\ SumOver(amount, TaskId) \in Nat /\ SumOver(accrued, TaskId) \in Nat
      /\ SumOver(yieldOf, TaskId) \in Nat /\ SumOver(claimable, Account \X Account) \in Nat
  BY FS_CardinalityType DEF MoneyInv, SumsFinite, SumOver
<1> QED
  BY <1>1 DEF EscrowInv, TypeOK, MoneyInv, Books, SumsFinite

\* Writing one task's principal, yield or earnings changes the sum by as much.
LEMMA TaskSums ==
    ASSUME NEW f \in [TaskId -> Nat], IsFiniteSet(Units(f, TaskId)), NEW t \in TaskId, NEW n \in Nat
    PROVE  /\ IsFiniteSet(Units([f EXCEPT ![t] = n], TaskId))
           /\ SumOver([f EXCEPT ![t] = n], TaskId) = SumOver(f, TaskId) - f[t] + n
<1>1. PICK g : g = [f EXCEPT ![t] = n]
  OBVIOUS
<1>2. f[t] \in Nat /\ g[t] \in Nat /\ g[t] = n /\ Rewritten(f, g, TaskId, t)
  BY <1>1 DEF Rewritten
<1>3. IsFiniteSet(Units(g, TaskId)) /\ SumOver(g, TaskId) = SumOver(f, TaskId) - f[t] + g[t]
  BY <1>2, SumChanges
<1> QED
  BY <1>1, <1>2, <1>3

\* createTask: the budget is owed from the moment it is to be pulled in.
LEMMA CreateMoney ==
    ASSUME EscrowInv, MoneyInv, NEW caller \in Account, NEW t \in TaskId, CreateTask(caller, t)
    PROVE  MoneyInv'
<1> USE ConstantTypes
<1>1. BudgetOf[t] \in Nat /\ amount[t] = 0
  BY DEF CreateTask, TaskExists, EscrowInv, PositionsWellFormed
<1>2. CallShape' /\ Net(transfers) = 0 /\ Net(transfers') = BudgetOf[t]
  <2>1. /\ In(BudgetOf[t]) \in Seq(MoveType) /\ Len(In(BudgetOf[t])) <= 2
        /\ Net(In(BudgetOf[t])) = BudgetOf[t]
    BY <1>1, OneMove, MoveNet DEF In
  <2>2. TypeOK /\ CallShape /\ locked = 1 /\ Calls(In(BudgetOf[t]))
    BY DEF CreateTask, NonReentrant, EscrowInv, MoneyInv
  <2> QED
    BY <2>1, <2>2, CallStarts
<1>3. /\ IsFiniteSet(Units(amount', TaskId))
      /\ SumOver(amount', TaskId) = SumOver(amount, TaskId) - amount[t] + BudgetOf[t]
  <2>1. amount' = [amount EXCEPT ![t] = BudgetOf[t]]
    BY DEF CreateTask
  <2> QED
    BY <1>1, <2>1, MoneyTypes, TaskSums
<1>4. UNCHANGED <<claimable, totalClaimable, yieldOf, totalYield, balance, accrued, withdrawn>>
  BY DEF CreateTask, ledgerVars, yieldVars
<1>5. SumsFinite'
  BY <1>3, <1>4 DEF MoneyInv, SumsFinite
<1>6. Books'
  BY <1>1, <1>2, <1>3, <1>4, MoneyTypes DEF MoneyInv, Books
<1> QED
  BY <1>2, <1>5, <1>6 DEF MoneyInv

\* selectAgent: the excess leaves, and the net price starts to earn yield.
LEMMA SelectMoney ==
    ASSUME EscrowInv, MoneyInv, NEW caller \in Account, NEW p \in SelectionProof,
           SelectAgent(caller, p)
    PROVE  MoneyInv'
<1> USE ConstantTypes
<1>1. PICK t \in TaskId : t = p.taskId
  BY DEF ProofType
<1>2. PICK pay \in Nat : pay = p.formalGrossPrice - p.overviewCredit
  <2>1. p.formalGrossPrice \in Nat /\ p.overviewCredit \in Nat /\ p.overviewCredit <= p.formalGrossPrice
    BY DEF ProofType, SelectAgent, ProofValid
  <2> QED
    BY <2>1
<1>3. amount[t] \in Nat /\ yieldOf[t] = 0
  BY <1>1 DEF EscrowInv, TypeOK, YieldTracksPrincipal, SelectAgent
<1>4. PICK excess \in Nat : excess = amount[t] - pay
  BY <1>1, <1>2, <1>3 DEF SelectAgent
<1>5. /\ amount' = [amount EXCEPT ![t] = pay] /\ yieldOf' = [yieldOf EXCEPT ![t] = pay]
      /\ totalYield' = totalYield + pay /\ Calls(Out(excess)) /\ locked = 1
  BY <1>1, <1>2, <1>4 DEF SelectAgent, NonReentrant
<1>6. CallShape' /\ Net(transfers) = 0 /\ Net(transfers') = 0 - excess
  <2>1. /\ Out(excess) \in Seq(MoveType) /\ Len(Out(excess)) <= 2
        /\ Net(Out(excess)) = 0 - excess
    BY OneMove, MoveNet DEF Out
  <2>2. TypeOK /\ CallShape
    BY DEF EscrowInv, MoneyInv
  <2> QED
    BY <1>5, <2>1, <2>2, CallStarts
<1>7. /\ IsFiniteSet(Units(amount', TaskId)) /\ IsFiniteSet(Units(yieldOf', TaskId))
      /\ SumOver(amount', TaskId) = SumOver(amount, TaskId) - amount[t] + pay
      /\ SumOver(yieldOf', TaskId) = SumOver(yieldOf, TaskId) - yieldOf[t] + pay
  BY <1>5, MoneyTypes, TaskSums
<1>8. UNCHANGED <<claimable, totalClaimable, balance, accrued, withdrawn>>
  BY DEF SelectAgent, ledgerVars
<1>9. SumsFinite'
  BY <1>7, <1>8 DEF MoneyInv, SumsFinite
<1>10. Books'
  BY <1>3, <1>4, <1>5, <1>6, <1>7, <1>8, MoneyTypes DEF MoneyInv, Books
<1> QED
  BY <1>6, <1>9, <1>10 DEF MoneyInv

\* refund: the whole principal leaves; it earned nothing yet.
LEMMA RefundMoney ==
    ASSUME EscrowInv, MoneyInv, NEW caller \in Account, NEW t \in TaskId, Refund(caller, t)
    PROVE  MoneyInv'
<1>1. PICK n \in Nat : n = amount[t]
  BY DEF EscrowInv, TypeOK
<1>2. yieldOf[t] = 0
  BY DEF EscrowInv, YieldTracksPrincipal, Refund
<1>3. CallShape' /\ Net(transfers) = 0 /\ Net(transfers') = 0 - n
  <2>1. Out(n) \in Seq(MoveType) /\ Len(Out(n)) <= 2 /\ Net(Out(n)) = 0 - n
    BY OneMove, MoveNet DEF Out
  <2>2. TypeOK /\ CallShape /\ locked = 1 /\ Calls(Out(n))
    BY <1>1 DEF EscrowInv, MoneyInv, Refund, NonReentrant
  <2> QED
    BY <2>1, <2>2, CallStarts
<1>4. /\ IsFiniteSet(Units(amount', TaskId)) /\ IsFiniteSet(Units(yieldOf', TaskId))
      /\ SumOver(amount', TaskId) = SumOver(amount, TaskId) - amount[t] + 0
      /\ SumOver(yieldOf', TaskId) = SumOver(yieldOf, TaskId) - yieldOf[t] + 0
  <2>1. amount' = [amount EXCEPT ![t] = 0] /\ yieldOf' = [yieldOf EXCEPT ![t] = 0] /\ 0 \in Nat
    BY DEF Refund, EndYieldEligibility
  <2> QED
    BY <2>1, MoneyTypes, TaskSums
<1>5. /\ UNCHANGED <<claimable, totalClaimable, balance, accrued, withdrawn>>
      /\ totalYield' = totalYield - yieldOf[t]
  BY DEF Refund, EndYieldEligibility, ledgerVars
<1>6. SumsFinite'
  BY <1>4, <1>5 DEF MoneyInv, SumsFinite
<1>7. Books'
  BY <1>1, <1>2, <1>3, <1>4, <1>5, MoneyTypes DEF MoneyInv, Books
<1> QED
  BY <1>3, <1>6, <1>7 DEF MoneyInv

\* withdrawEarnings: a claim, its total and the pending payment shrink together.
LEMMA WithdrawMoney ==
    ASSUME EscrowInv, MoneyInv, NEW caller \in Account, NEW a \in Account, NEW n \in Nat,
           WithdrawEarnings(caller, a, n)
    PROVE  MoneyInv'
<1>1. PICK k \in Account \X Account : k = <<caller, a>>
  OBVIOUS
<1>2. claimable \in [Account \X Account -> Nat] /\ claimable[k] - n \in Nat
  BY <1>1 DEF EscrowInv, TypeOK, WithdrawEarnings, Available
<1>3. CallShape' /\ Net(transfers) = 0 /\ Net(transfers') = 0 - n
  <2>1. Out(n) \in Seq(MoveType) /\ Len(Out(n)) <= 2 /\ Net(Out(n)) = 0 - n
    BY OneMove, MoveNet DEF Out
  <2>2. TypeOK /\ CallShape /\ locked = 1 /\ Calls(Out(n))
    BY DEF EscrowInv, MoneyInv, WithdrawEarnings, NonReentrant
  <2> QED
    BY <2>1, <2>2, CallStarts
<1>4. /\ IsFiniteSet(Units(claimable', Account \X Account))
      /\ SumOver(claimable', Account \X Account)
            = SumOver(claimable, Account \X Account) - claimable[k] + (claimable[k] - n)
  <2>1. claimable' = [claimable EXCEPT ![k] = claimable[k] - n]
    BY <1>1 DEF WithdrawEarnings
  <2>2. IsFiniteSet(Units(claimable, Account \X Account))
    BY DEF MoneyInv, SumsFinite
  <2>3. /\ claimable[k] \in Nat /\ claimable'[k] = claimable[k] - n /\ claimable'[k] \in Nat
        /\ Rewritten(claimable, claimable', Account \X Account, k)
    BY <1>2, <2>1 DEF Rewritten
  <2>4. /\ IsFiniteSet(Units(claimable', Account \X Account))
        /\ SumOver(claimable', Account \X Account)
              = SumOver(claimable, Account \X Account) - claimable[k] + claimable'[k]
    BY <2>2, <2>3, SumChanges
  <2> QED
    BY <2>3, <2>4
<1>5. /\ UNCHANGED <<amount, yieldOf, totalYield, balance, accrued>>
      /\ totalClaimable' = totalClaimable - n /\ withdrawn' = withdrawn + n
  BY DEF WithdrawEarnings, taskVars, yieldVars
<1>6. SumsFinite'
  BY <1>4, <1>5 DEF MoneyInv, SumsFinite
<1>7. claimable[k] \in Nat
  BY <1>2
<1>8. Books'
  BY <1>3, <1>4, <1>5, <1>7, MoneyTypes DEF MoneyInv, Books
<1> QED
  BY <1>3, <1>6, <1>8 DEF MoneyInv

\* Money that accrues to an agent is in the claims and in both totals.
LEMMA AccrueSums ==
    ASSUME EscrowInv, MoneyInv, NEW t \in TaskId, status[t] \in {"Assigned", "Disputed"},
           NEW n \in Nat, Accrue(t, n)
    PROVE  /\ IsFiniteSet(Units(claimable', Account \X Account))
           /\ SumOver(claimable', Account \X Account) = SumOver(claimable, Account \X Account) + n
           /\ IsFiniteSet(Units(accrued', TaskId))
           /\ SumOver(accrued', TaskId) = SumOver(accrued, TaskId) + n
           /\ totalClaimable' = totalClaimable + n
<1>1. PICK k \in Account \X Account : k = <<assignment[t].agentController, assignment[t].payout>>
  BY DEF EscrowInv, PositionsWellFormed
<1>2. /\ claimable \in [Account \X Account -> Nat] /\ claimable[k] \in Nat /\ accrued[t] \in Nat
      /\ IsFiniteSet(Units(claimable, Account \X Account))
  BY DEF EscrowInv, TypeOK, MoneyInv, SumsFinite
<1>3. claimable[k] + n \in Nat /\ accrued[t] + n \in Nat
  BY <1>2
<1>4. /\ claimable' = [claimable EXCEPT ![k] = claimable[k] + n]
      /\ accrued' = [accrued EXCEPT ![t] = accrued[t] + n]
      /\ totalClaimable' = totalClaimable + n
  BY <1>1 DEF Accrue
<1>5. /\ IsFiniteSet(Units(claimable', Account \X Account))
      /\ SumOver(claimable, Account \X Account) \in Nat
      /\ SumOver(claimable', Account \X Account)
            = SumOver(claimable, Account \X Account) - claimable[k] + (claimable[k] + n)
  <2>1. /\ claimable'[k] = claimable[k] + n /\ claimable'[k] \in Nat
        /\ Rewritten(claimable, claimable', Account \X Account, k)
    BY <1>2, <1>3, <1>4 DEF Rewritten
  <2>2. /\ IsFiniteSet(Units(claimable', Account \X Account))
        /\ SumOver(claimable, Account \X Account) \in Nat
        /\ SumOver(claimable', Account \X Account)
              = SumOver(claimable, Account \X Account) - claimable[k] + claimable'[k]
    BY <1>2, <2>1, SumChanges
  <2> QED
    BY <2>1, <2>2
<1>6. /\ IsFiniteSet(Units(accrued', TaskId))
      /\ SumOver(accrued', TaskId) = SumOver(accrued, TaskId) - accrued[t] + (accrued[t] + n)
  BY <1>3, <1>4, MoneyTypes, TaskSums
<1> QED
  BY <1>2, <1>4, <1>5, <1>6, MoneyTypes

\* A settled task holds no principal and earns no yield.
LEMMA SettleSums ==
    ASSUME EscrowInv, MoneyInv, NEW t \in TaskId,
           amount' = [amount EXCEPT ![t] = 0], EndYieldEligibility(t)
    PROVE  /\ IsFiniteSet(Units(amount', TaskId)) /\ IsFiniteSet(Units(yieldOf', TaskId))
           /\ SumOver(amount', TaskId) = SumOver(amount, TaskId) - amount[t]
           /\ SumOver(yieldOf', TaskId) = SumOver(yieldOf, TaskId) - yieldOf[t]
           /\ totalYield' = totalYield - yieldOf[t]
           /\ amount[t] \in Nat /\ yieldOf[t] \in Nat
<1>1. yieldOf' = [yieldOf EXCEPT ![t] = 0] /\ totalYield' = totalYield - yieldOf[t] /\ 0 \in Nat
  BY DEF EndYieldEligibility
<1>2. /\ IsFiniteSet(Units(amount', TaskId)) /\ IsFiniteSet(Units(yieldOf', TaskId))
      /\ SumOver(amount', TaskId) = SumOver(amount, TaskId) - amount[t] + 0
      /\ SumOver(yieldOf', TaskId) = SumOver(yieldOf, TaskId) - yieldOf[t] + 0
  BY <1>1, MoneyTypes, TaskSums
<1>3. amount[t] \in Nat /\ yieldOf[t] \in Nat
  BY DEF EscrowInv, TypeOK
<1> QED
  BY <1>1, <1>2, <1>3, MoneyTypes

\* accept: the principal becomes a claim of the same amount.
LEMMA AcceptMoney ==
    ASSUME EscrowInv, MoneyInv, NEW caller \in Account, NEW t \in TaskId, Accept(caller, t)
    PROVE  MoneyInv'
<1>1. /\ amount' = [amount EXCEPT ![t] = 0] /\ EndYieldEligibility(t) /\ Accrue(t, amount[t])
      /\ status[t] = "Assigned" /\ locked = 1 /\ Calls(<<>>)
      /\ UNCHANGED <<balance, withdrawn>>
  BY DEF Accept, NonReentrant
<1>2. /\ IsFiniteSet(Units(amount', TaskId)) /\ IsFiniteSet(Units(yieldOf', TaskId))
      /\ SumOver(amount', TaskId) = SumOver(amount, TaskId) - amount[t]
      /\ SumOver(yieldOf', TaskId) = SumOver(yieldOf, TaskId) - yieldOf[t]
      /\ totalYield' = totalYield - yieldOf[t]
      /\ amount[t] \in Nat /\ yieldOf[t] \in Nat
  BY <1>1, SettleSums
<1>3. PICK n \in Nat : n = amount[t]
  BY <1>2
<1>4. /\ IsFiniteSet(Units(claimable', Account \X Account))
      /\ SumOver(claimable', Account \X Account) = SumOver(claimable, Account \X Account) + n
      /\ IsFiniteSet(Units(accrued', TaskId))
      /\ SumOver(accrued', TaskId) = SumOver(accrued, TaskId) + n
      /\ totalClaimable' = totalClaimable + n
  <2>1. Accrue(t, n) /\ status[t] \in {"Assigned", "Disputed"}
    BY <1>1, <1>3
  <2> QED
    BY <2>1, AccrueSums
<1>5. CallShape' /\ Net(transfers) = 0 /\ Net(transfers') = 0
  <2>1. <<>> \in Seq(MoveType) /\ Len(<<>>) = 0
    BY EmptySeq, Zenon
  <2>2. PICK s : s = <<>>
    OBVIOUS
  <2>3. s \in Seq(MoveType) /\ Len(s) = 0 /\ Calls(s)
    BY <1>1, <2>1, <2>2, Zenon
  <2>4. Net(s) = 0
    BY <2>3, NetIsSigned
  <2>5. TypeOK /\ CallShape /\ Len(s) <= 2
    BY <2>3 DEF EscrowInv, MoneyInv
  <2> QED
    BY <1>1, <2>3, <2>4, <2>5, CallStarts
<1>6. SumsFinite'
  BY <1>2, <1>4 DEF SumsFinite
<1>7. Books'
  <2>1. SumOver(amount', TaskId) = SumOver(amount, TaskId) - n
    BY <1>2, <1>3
  <2>2. balance' + Net(transfers') = SumOver(amount', TaskId) + totalClaimable'
    BY <1>1, <1>4, <1>5, <2>1, MoneyTypes DEF MoneyInv, Books
  <2>3. totalClaimable' + withdrawn' = SumOver(accrued', TaskId)
    BY <1>1, <1>4, MoneyTypes DEF MoneyInv, Books
  <2> QED
    BY <1>2, <1>4, <2>2, <2>3 DEF MoneyInv, Books
<1> QED
  BY <1>5, <1>6, <1>7 DEF MoneyInv

\* finalizeDisputeAllocation: the three shares are the whole principal, so what is owed
\* less what is still to be paid does not change.
LEMMA FinalizeMoney ==
    ASSUME EscrowInv, MoneyInv, NEW caller \in Account, NEW t \in TaskId, NEW po, NEW ao,
           NEW pub \in Nat, NEW agt \in Nat, NEW fee \in Nat,
           FinalizeDisputeAllocation(caller, t, po, ao, pub, agt, fee)
    PROVE  MoneyInv'
<1>1. /\ amount' = [amount EXCEPT ![t] = 0] /\ EndYieldEligibility(t) /\ Accrue(t, agt)
      /\ status[t] \in {"Assigned", "Disputed"} /\ locked = 1 /\ Calls(Out(pub) \o Out(fee))
      /\ pub + agt + fee = amount[t] /\ UNCHANGED <<balance, withdrawn>>
  BY DEF FinalizeDisputeAllocation, FinalizeDue, SplitExact, NonReentrant
<1>2. /\ IsFiniteSet(Units(amount', TaskId)) /\ IsFiniteSet(Units(yieldOf', TaskId))
      /\ SumOver(amount', TaskId) = SumOver(amount, TaskId) - amount[t]
      /\ SumOver(yieldOf', TaskId) = SumOver(yieldOf, TaskId) - yieldOf[t]
      /\ totalYield' = totalYield - yieldOf[t]
      /\ amount[t] \in Nat /\ yieldOf[t] \in Nat
  BY <1>1, SettleSums
<1>3. /\ IsFiniteSet(Units(claimable', Account \X Account))
      /\ SumOver(claimable', Account \X Account) = SumOver(claimable, Account \X Account) + agt
      /\ IsFiniteSet(Units(accrued', TaskId))
      /\ SumOver(accrued', TaskId) = SumOver(accrued, TaskId) + agt
      /\ totalClaimable' = totalClaimable + agt
  BY <1>1, AccrueSums
<1>4. CallShape' /\ Net(transfers) = 0 /\ Net(transfers') = 0 - (pub + fee)
  <2>1. TypeOK /\ CallShape
    BY DEF EscrowInv, MoneyInv
  <2> QED
    BY <1>1, <2>1, TwoOut, CallStarts
<1>5. SumsFinite'
  BY <1>2, <1>3 DEF SumsFinite
<1>6. Books'
  BY <1>1, <1>2, <1>3, <1>4, MoneyTypes DEF MoneyInv, Books
<1> QED
  BY <1>4, <1>5, <1>6 DEF MoneyInv

\* Every call and every transfer keeps the books.
LEMMA MoneyStep == EscrowInv /\ MoneyInv /\ [Next]_vars => MoneyInv'
<1> SUFFICES ASSUME EscrowInv, MoneyInv, [Next]_vars PROVE MoneyInv'
  OBVIOUS
<1>0. TypeOK
  BY DEF EscrowInv
<1>1. CASE Transfer
  BY <1>0, <1>1, TransferMoney
<1>2. CASE Tick \/ UNCHANGED vars
  BY <1>2, SameMoney DEF Tick, vars, taskVars, flowVars
<1>3. ASSUME NEW caller \in Account, NEW a,
             \/ Pause(caller) \/ Unpause(caller)
             \/ SetPlatformProofSigner(caller, a) \/ SetDisputeResolver(caller, a)
      PROVE  MoneyInv'
  BY <1>3, SameMoney DEF Pause, Unpause, SetPlatformProofSigner, SetDisputeResolver,
     taskVars, flowVars
<1>4. ASSUME NEW caller \in Account, NEW t \in TaskId, NEW a, NEW n,
             AdvanceWorkNonce(caller, t, n) \/ FreezeDispute(caller, t, a, n)
      PROVE  MoneyInv'
  BY <1>4, SameMoney DEF AdvanceWorkNonce, FreezeDispute, flowVars
<1>5. CASE \E caller \in Account :
               \/ Pause(caller) \/ Unpause(caller)
               \/ \E a \in Signer : SetPlatformProofSigner(caller, a)
               \/ \E a \in Resolver : SetDisputeResolver(caller, a)
  BY <1>3, <1>5
<1>6. CASE \E caller \in Account : \E t \in TaskId :
               \/ \E n \in 0..MaxNonce : AdvanceWorkNonce(caller, t, n)
               \/ \E a \in Account : \E cap \in 0..amount[t] : FreezeDispute(caller, t, a, cap)
  BY <1>4, <1>6
<1>7. CASE \E caller \in Account :
               \/ \E p \in SelectionProof : SelectAgent(caller, p)
               \/ \E t \in TaskId : CreateTask(caller, t) \/ Accept(caller, t) \/ Refund(caller, t)
  BY <1>7, SelectMoney, CreateMoney, AcceptMoney, RefundMoney
<1>8. CASE \E caller \in Account :
               \E a \in Account : \E n \in 1..totalClaimable : WithdrawEarnings(caller, a, n)
  <2>1. totalClaimable \in Nat
    BY MoneyTypes
  <2> QED
    BY <1>8, <2>1, WithdrawMoney
<1>9. CASE \E caller \in Account :
               \E t \in TaskId, po \in Account, ao \in Account :
               \E pub \in 0..amount[t], agt \in 0..amount[t], fee \in 0..amount[t] :
                   FinalizeDisputeAllocation(caller, t, po, ao, pub, agt, fee)
  <2>1. \A t \in TaskId : amount[t] \in Nat
    BY <1>0 DEF TypeOK
  <2> QED
    BY <1>9, <2>1, FinalizeMoney
<1> QED
  BY <1>1, <1>2, <1>5, <1>6, <1>7, <1>8, <1>9 DEF Next

\* The escrow is solvent at every point, between a call's own effects and its transfers
\* included: its tokens, with the pending moves, are exactly the open principals and the
\* unclaimed earnings, and its two running totals are the sums they stand for
\* (totalClaimableEarnings and totalYieldEligiblePrincipal).
THEOREM AlwaysSolvent == Spec => []Solvency
<1>1. Init => MoneyInv
  <2> SUFFICES ASSUME Init PROVE MoneyInv
    OBVIOUS
  <2>1. CallShape
    BY DEF Init, CallShape
  <2>2. /\ IsFiniteSet(Units(amount, TaskId)) /\ SumOver(amount, TaskId) = 0
        /\ IsFiniteSet(Units(accrued, TaskId)) /\ SumOver(accrued, TaskId) = 0
        /\ IsFiniteSet(Units(yieldOf, TaskId)) /\ SumOver(yieldOf, TaskId) = 0
        /\ IsFiniteSet(Units(claimable, Account \X Account))
        /\ SumOver(claimable, Account \X Account) = 0
    <3>1. /\ \A t \in TaskId : amount[t] = 0 /\ accrued[t] = 0 /\ yieldOf[t] = 0
          /\ \A k \in Account \X Account : claimable[k] = 0
      BY DEF Init
    <3> QED
      BY <3>1, ZeroSum
  <2>3. Net(transfers) = 0
    <3>1. transfers \in Seq(MoveType) /\ Len(transfers) = 0
      BY DEF Init
    <3> QED
      BY <3>1, NetIsSigned
  <2> QED
    BY <2>1, <2>2, <2>3 DEF Init, MoneyInv, SumsFinite, Books
<1>2. EscrowInv => TypeOK
  BY DEF EscrowInv
<1> QED
  BY <1>1, <1>2, MoneyStep, BooksAreSolvency, EscrowInvHolds, PTL DEF Spec
=============================================================================
