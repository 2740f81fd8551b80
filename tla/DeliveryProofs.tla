--------------------------- MODULE DeliveryProofs ---------------------------
(***************************************************************************)
(* For every number of versions, feedback items, transactions and          *)
(* reorganisations: versions follow one another, ordered ones are covered  *)
(* by their escrow, escrows are paid out once and whole, and what is       *)
(* confirmed is what the chain paid.                                       *)
(***************************************************************************)
EXTENDS Delivery, FiniteSetTheorems, SequenceTheorems, TLAPS

USE DeliveryTypes

VersionRow(a) ==
    [status : {"none", "review", "failed"} \cup Working, agg : 0..a, nonce : Nat, scope : Nat,
     content : Content \cup {None}, billed : {0, Price}]
FeedbackRow(a, c) == [agg : 0..a, at : 0..c, items : SUBSET Item]
ChangeRow(a, c) ==
    [status : {"none", "responsibility_pending", "awaiting_acceptance", "awaiting_funding",
               "ready_to_activate", "effective", "consumed"},
     agg : 0..a, scope : Nat, price : {0, Price}, account : {"none", "open", "frozen"},
     balance : Nat, funded : Nat, at : 0..c, expired : BOOLEAN]
IntentRow(a) ==
    [state : {"none", "intent_recorded", "pending_confirmation", "confirmed", "orphaned"},
     agg : 0..a, tx : Tx \cup {None}, event : Nat]
Journal == [order : Paid, event : Nat, amount : Nat, residual : Nat, reversed : BOOLEAN]
Chain(c) ==
    [nonces : Seq(0..c), released : Number \cup {None}, tx : Tx \cup {None}, event : Nat,
     sent : [Tx -> Number \cup {None}], mined : SUBSET (Tx \X Nat), reorgs : Nat]

\* TypeOK, with the domains of index and chain.
Shape ==
    /\ task \in {"assigned", "formal_generating", "formal_review", "revision_requested",
                 "change_order_pending", "failed", "settled", "chain_reorg_pending"}
    /\ pkg \in [alloc : 0..MaximumVersions, agg : Nat] /\ clock \in Nat /\ late \in BOOLEAN
    /\ version \in [Number -> VersionRow(pkg.agg)]
    /\ feedback \in [Number -> FeedbackRow(pkg.agg, clock)]
    /\ change \in [Paid -> ChangeRow(pkg.agg, clock)]
    /\ intent \in [Number -> IntentRow(pkg.agg)]
    /\ index \in [pending : SUBSET Tx, confirmed : SUBSET Nat]
    /\ journals \subseteq Journal /\ chain \in Chain(clock)

\* The nonce of a version is its number, whatever the chain's is meanwhile.
VersionsInv ==
    /\ \A n \in Number : version[n].status # "none" <=> n <= pkg.alloc
    /\ \A n \in Number : n < pkg.alloc => version[n].status = "review"
    /\ \A n \in Number : n <= pkg.alloc => version[n].nonce = n
    /\ \A n \in Number : n <= pkg.alloc =>
          IF n \in Paid THEN version[n].scope > version[n - 1].scope ELSE version[n].scope = 1
    /\ \A m, n \in Number : version[m].status = "review" /\ version[n].status = "review"
                            /\ version[m].content = version[n].content => m = n

\* An order is frozen when it is activated, with its price inside, and consumed by the one
\* version it was activated for.
OrderFits(n, c) ==
    /\ c.price > 0 => c.account # "none"
    /\ c.status \in {"effective", "consumed"} => c.account # "open"
    /\ c.account = "frozen" => c.balance >= c.price \/ Live(n) # {}
    /\ c.status = "effective" => n = pkg.alloc + 1 /\ c.scope = version[n - 1].scope + 1
    /\ n <= pkg.alloc => c.status = "consumed"

OrdersInv == \A n \in Paid : OrderFits(n, change[n])

\* A settlement that was not reversed is the only one of its order and holds all its money.
SettledWhole(c, j) ==
    /\ j.amount = c.price /\ c.price > 0 /\ c.account = "frozen"
    /\ c.balance = 0 /\ c.funded = j.amount + j.residual

EscrowFits(n, c) ==
    /\ Live(n) = {} => c.funded = c.balance
    /\ \A j \in Live(n) : SettledWhole(c, j)

EscrowInv ==
    /\ \A n \in Paid : EscrowFits(n, change[n])
    /\ \A n \in Paid : \A i, j \in Live(n) : i = j

\* The contract paid a version in review at the nonce it still has, and the task stays settled.
ReleaseInv ==
    chain.released # None =>
        /\ task = "settled"
        /\ version[chain.released].status = "review" /\ version[chain.released].nonce = CanonicalNonce

DeliveryInv == Shape /\ VersionsInv /\ OrdersInv /\ EscrowInv /\ ReleaseInv /\ ConfirmedIsPaid

-----------------------------------------------------------------------------
(* What the operations have in common *)

\* Ranges only grow with the aggregate version and the clock.
LEMMA RowsGrow ==
    ASSUME NEW a \in Nat, NEW b \in Nat, a <= b, NEW c \in Nat, NEW d \in Nat, c <= d
    PROVE  /\ VersionRow(a) \subseteq VersionRow(b) /\ IntentRow(a) \subseteq IntentRow(b)
           /\ FeedbackRow(a, c) \subseteq FeedbackRow(b, d)
           /\ ChangeRow(a, c) \subseteq ChangeRow(b, d) /\ Chain(c) \subseteq Chain(d)
<1>1. 0..a \subseteq 0..b /\ 0..c \subseteq 0..d
  OBVIOUS
<1>2. VersionRow(a) \subseteq VersionRow(b)
  BY <1>1 DEF VersionRow
<1>3. IntentRow(a) \subseteq IntentRow(b)
  BY <1>1 DEF IntentRow
<1>4. FeedbackRow(a, c) \subseteq FeedbackRow(b, d)
  BY <1>1 DEF FeedbackRow
<1>5. ChangeRow(a, c) \subseteq ChangeRow(b, d)
  BY <1>1 DEF ChangeRow
<1>6. Chain(c) \subseteq Chain(d)
  <2>1. Seq(0..c) \subseteq Seq(0..d)
    BY <1>1
  <2> QED
    BY <2>1 DEF Chain
<1> QED
  BY <1>2, <1>3, <1>4, <1>5, <1>6

\* A step that leaves the rows of a table alone keeps their types.
LEMMA TablesKept ==
    ASSUME Shape, pkg' \in [alloc : 0..MaximumVersions, agg : Nat], pkg'.agg >= pkg.agg,
           clock' \in Nat, clock' >= clock
    PROVE  /\ version' = version => version' \in [Number -> VersionRow(pkg'.agg)]
           /\ feedback' = feedback => feedback' \in [Number -> FeedbackRow(pkg'.agg, clock')]
           /\ change' = change => change' \in [Paid -> ChangeRow(pkg'.agg, clock')]
           /\ intent' = intent => intent' \in [Number -> IntentRow(pkg'.agg)]
           /\ chain' = chain => chain' \in Chain(clock')
           /\ \A n \in Number : version[n] \in VersionRow(pkg'.agg)
           /\ \A n \in Number : feedback[n] \in FeedbackRow(pkg'.agg, clock')
           /\ \A n \in Paid : change[n] \in ChangeRow(pkg'.agg, clock')
           /\ \A n \in Number : intent[n] \in IntentRow(pkg'.agg)
<1>1. pkg.agg \in Nat /\ pkg'.agg \in Nat /\ pkg.agg <= pkg'.agg /\ clock \in Nat /\ clock <= clock'
  BY DEF Shape
<1>2. PICK a \in Nat, b \in Nat, c \in Nat, d \in Nat :
          a = pkg.agg /\ b = pkg'.agg /\ c = clock /\ d = clock'
  BY <1>1
<1>3. /\ VersionRow(a) \subseteq VersionRow(b) /\ IntentRow(a) \subseteq IntentRow(b)
      /\ FeedbackRow(a, c) \subseteq FeedbackRow(b, d)
      /\ ChangeRow(a, c) \subseteq ChangeRow(b, d) /\ Chain(c) \subseteq Chain(d)
  BY <1>1, <1>2, RowsGrow
<1>4. /\ version \in [Number -> VersionRow(a)] /\ feedback \in [Number -> FeedbackRow(a, c)]
      /\ change \in [Paid -> ChangeRow(a, c)] /\ intent \in [Number -> IntentRow(a)]
      /\ chain \in Chain(c)
  BY <1>2 DEF Shape
<1>5. /\ version \in [Number -> VersionRow(b)] /\ feedback \in [Number -> FeedbackRow(b, d)]
      /\ change \in [Paid -> ChangeRow(b, d)] /\ intent \in [Number -> IntentRow(b)]
      /\ chain \in Chain(d)
  BY <1>3, <1>4
<1> QED
  BY <1>2, <1>5

\* While the chain has paid nothing no acceptance is confirmed and no settlement stands.
LEMMA NothingPaid ==
    ASSUME DeliveryInv, chain.released = None
    PROVE  /\ \A n \in Number : intent[n].state # "confirmed"
           /\ \A j \in journals : j.reversed
           /\ \A n \in Paid : Live(n) = {}
<1>1. \A n \in Number : intent[n].state # "confirmed"
  BY DEF DeliveryInv, ConfirmedIsPaid, Number
<1>2. \A j \in journals : j.order \in Number
  BY DEF DeliveryInv, Shape, Journal, Paid, Number
<1>3. \A j \in journals : j.reversed
  BY <1>1, <1>2 DEF DeliveryInv, ConfirmedIsPaid
<1> QED
  BY <1>1, <1>3 DEF Live

\* A task that is not settled was not paid.
LEMMA NotSettled ==
    ASSUME DeliveryInv, task # "settled"
    PROVE  chain.released = None
BY DEF DeliveryInv, ReleaseInv

\* What stands of the versions is kept by every step that touches no version.
LEMMA VersionsKept ==
    ASSUME VersionsInv, version' = version, pkg'.alloc = pkg.alloc
    PROVE  VersionsInv'
BY DEF VersionsInv

\* A step that changes no order, settlement or version.
LEMMA OrdersKept ==
    ASSUME OrdersInv, EscrowInv, change' = change, journals' = journals,
           pkg'.alloc = pkg.alloc, \A n \in Number : version'[n].scope = version[n].scope
    PROVE  OrdersInv' /\ EscrowInv'
<1>1. \A n \in Paid : n - 1 \in Number
  BY DEF Paid, Number
<1>2. \A n : Live(n)' = Live(n)
  BY DEF Live
<1>3. OrdersInv'
  BY <1>1, <1>2 DEF OrdersInv, OrderFits
<1>4. EscrowInv'
  BY <1>2 DEF EscrowInv, EscrowFits, SettledWhole
<1> QED
  BY <1>3, <1>4

\* A step that changes one order, and not the price of one already consumed.
LEMMA OneOrderChanges ==
    ASSUME DeliveryInv, NEW n \in Paid, NEW c, change' = [change EXCEPT ![n] = c],
           version' = version, journals' = journals, pkg'.alloc = pkg.alloc,
           OrderFits(n, c), EscrowFits(n, c)
    PROVE  OrdersInv' /\ EscrowInv'
<1>1. \A m : Live(m)' = Live(m)
  BY DEF Live
<1>2. change \in [Paid -> ChangeRow(pkg.agg, clock)] /\ OrdersInv /\ EscrowInv
  BY DEF DeliveryInv, Shape
<1>3. change'[n] = c /\ \A m \in Paid \ {n} : change'[m] = change[m]
  BY <1>2
<1>4. OrderFits(n, change[n])'
  BY <1>1, <1>3 DEF OrderFits
<1>5. EscrowFits(n, change[n])'
  BY <1>1, <1>3 DEF EscrowFits, SettledWhole
<1>6. \A m \in Paid \ {n} : OrderFits(m, change[m])'
  BY <1>1, <1>2, <1>3 DEF OrdersInv, OrderFits
<1>7. \A m \in Paid \ {n} : EscrowFits(m, change[m])'
  BY <1>1, <1>2, <1>3 DEF EscrowInv, EscrowFits, SettledWhole
<1>8. \A m \in Paid : \A i, j \in Live(m)' : i = j
  BY <1>1, <1>2 DEF EscrowInv
<1> QED
  BY <1>4, <1>5, <1>6, <1>7, <1>8 DEF OrdersInv, EscrowInv

\* Before the chain pays, acceptances and settlements have nothing to agree with.
LEMMA UnpaidKept ==
    ASSUME DeliveryInv, chain.released = None, journals' = journals,
           \A n \in Number : intent'[n].state = "confirmed" => intent[n].state = "confirmed"
    PROVE  ConfirmedIsPaid'
<1>1. \A n \in Number : intent'[n].state # "confirmed"
  BY NothingPaid
<1>2. \A j \in journals' : j.reversed
  BY NothingPaid
<1> QED
  BY <1>1, <1>2 DEF ConfirmedIsPaid

\* While task and chain stand still, a confirmed acceptance stays what it is.
LEMMA PaidKept ==
    ASSUME DeliveryInv, journals' = journals, chain' = chain, task' = task, pkg'.alloc = pkg.alloc,
           \A n \in Number : intent[n].state = "confirmed" <=> intent'[n].state = "confirmed",
           \A n \in Number : intent[n].state = "confirmed" => intent'[n] = intent[n],
           \A n \in Paid : n <= pkg.alloc => change'[n].price = change[n].price
    PROVE  ConfirmedIsPaid'
<1>1. \A n : Live(n)' = Live(n)
  BY DEF Live
<1>2. ConfirmedIsPaid /\ \A j \in journals : j.order \in Number
  BY DEF DeliveryInv, Shape, Journal, Paid, Number
<1>3. \A n \in Number : intent'[n].state = "confirmed" =>
          /\ chain'.released = n /\ chain'.tx = intent'[n].tx /\ chain'.event = intent'[n].event
          /\ pkg'.alloc = n /\ task' = "settled"
          /\ n \in Paid /\ change'[n].price > 0 => \E j \in Live(n)' : j.event = chain'.event
  <2> SUFFICES ASSUME NEW n \in Number, intent'[n].state = "confirmed"
               PROVE  /\ chain'.released = n /\ chain'.tx = intent'[n].tx /\ chain'.event = intent'[n].event
                      /\ pkg'.alloc = n /\ task' = "settled"
                      /\ n \in Paid /\ change'[n].price > 0 => \E j \in Live(n)' : j.event = chain'.event
    OBVIOUS
  <2>1. intent[n].state = "confirmed" /\ intent'[n] = intent[n]
    OBVIOUS
  <2>2. /\ chain.released = n /\ chain.tx = intent[n].tx /\ chain.event = intent[n].event
        /\ pkg.alloc = n /\ task = "settled"
        /\ n \in Paid /\ change[n].price > 0 => \E j \in Live(n) : j.event = chain.event
    BY <1>2, <2>1 DEF ConfirmedIsPaid
  <2>3. n \in Paid => change'[n].price = change[n].price
    BY <2>2 DEF Number
  <2> QED
    BY <1>1, <2>1, <2>2, <2>3
<1>4. \A j \in journals' : ~j.reversed => intent'[j.order].state = "confirmed"
  BY <1>2 DEF ConfirmedIsPaid
<1> QED
  BY <1>3, <1>4 DEF ConfirmedIsPaid

\* The version the chain paid is not touched by later steps.
LEMMA ReleaseKept ==
    ASSUME DeliveryInv, chain' = chain, task' = task,
           \A n \in Number : version[n].status = "review" => version'[n] = version[n]
    PROVE  ReleaseInv'
<1>1. chain.released \in Number \cup {None} /\ CanonicalNonce' = CanonicalNonce
  BY DEF DeliveryInv, Shape, Chain, CanonicalNonce
<1> QED
  BY <1>1 DEF DeliveryInv, ReleaseInv

-----------------------------------------------------------------------------
(* Versions and feedback *)

\* Start allocates the next version: its parent is in review, and an ordered one consumes
\* the order activated for it.
LEMMA StartKeeps ==
    ASSUME DeliveryInv, NEW ordered \in BOOLEAN, NEW nonce \in Nat, Start(ordered, nonce)
    PROVE  DeliveryInv'
<1> DEFINE next == pkg.alloc + 1
<1> DEFINE row == [NoVersion EXCEPT !.status = "allocated", !.agg = pkg.agg + 1, !.nonce = nonce,
                                    !.scope = IF ordered THEN change[next].scope ELSE 1]
<1>0. Shape /\ VersionsInv /\ OrdersInv /\ EscrowInv
  BY DEF DeliveryInv
<1>1. pkg.alloc \in 0..MaximumVersions /\ pkg.agg \in Nat /\ clock \in Nat /\ next \in Number
  BY <1>0 DEF Shape, Start, NextIncludedVersion, Number
<1>2. task # "settled" /\ chain.released = None
  BY NotSettled DEF Start
<1>3. /\ version' = [version EXCEPT ![next] = row]
      /\ pkg' = [alloc |-> next, agg |-> pkg.agg + 1] /\ task' = "formal_generating"
      /\ feedback' = feedback /\ intent' = intent /\ index' = index /\ journals' = journals
      /\ chain' = chain /\ clock' = clock /\ late' = late
  BY DEF Start
<1>4. /\ next > 1 => version[pkg.alloc].status = "review" /\ nonce = version[pkg.alloc].nonce + 1
      /\ next = 1 => nonce = 1 /\ ~ordered
      /\ ordered <=> next > IncludedVersions
  BY <1>1 DEF Start, NextIncludedVersion
<1>5. ordered <=> next \in Paid
  BY <1>1, <1>4 DEF Paid, Number
<1>6. ordered => change[next].status = "effective"
  BY DEF Start, AuthorizeChangeOrder
<1>7. change' = IF ordered THEN [change EXCEPT ![next].status = "consumed", ![next].agg = pkg.agg + 1] ELSE change
  BY DEF Start
<1>8. pkg'.alloc = next /\ pkg'.agg = pkg.agg + 1 /\ pkg' \in [alloc : 0..MaximumVersions, agg : Nat]
  BY <1>1, <1>3 DEF Number
<1>9. ordered => change[next] \in ChangeRow(pkg.agg, clock)
  BY <1>0, <1>5 DEF Shape
<1>10. row \in VersionRow(pkg'.agg) /\ row.status = "allocated" /\ row.nonce = nonce
       /\ row.scope = (IF ordered THEN change[next].scope ELSE 1)
  <2>1. PICK s \in Nat : s = IF ordered THEN change[next].scope ELSE 1
    <3>1. ordered => change[next].scope \in Nat
      BY <1>9 DEF ChangeRow
    <3> QED
      BY <3>1
  <2>2. row = [status |-> "allocated", agg |-> pkg.agg + 1, nonce |-> nonce, scope |-> s,
               content |-> None, billed |-> 0]
    <3>1. row = [NoVersion EXCEPT !.status = "allocated", !.agg = pkg.agg + 1, !.nonce = nonce, !.scope = s]
      BY <2>1, Zenon
    <3> HIDE DEF row
    <3> QED
      BY <3>1 DEF NoVersion
  <2>3. pkg.agg + 1 \in 0..pkg'.agg
    BY <1>1, <1>8
  <2> QED
    BY <2>1, <2>2, <2>3 DEF VersionRow, Working
<1> HIDE DEF row
<1>11. version'[next] = row /\ \A n \in Number \ {next} : version'[n] = version[n]
  BY <1>0, <1>1, <1>3 DEF Shape
<1>12. /\ \A n \in Paid : change'[n].price = change[n].price /\ change'[n].account = change[n].account
                       /\ change'[n].balance = change[n].balance /\ change'[n].funded = change[n].funded
                       /\ change'[n].scope = change[n].scope
       /\ \A n \in Paid \ {next} : change'[n] = change[n]
       /\ ordered => change'[next].status = "consumed"
  BY <1>0, <1>5, <1>7 DEF Shape, ChangeRow
<1>13. Shape'
  <2>1. \A n \in Number : version[n] \in VersionRow(pkg'.agg)
    BY <1>0, <1>1, <1>3, <1>8, TablesKept
  <2>2. version' \in [Number -> VersionRow(pkg'.agg)]
    BY <1>0, <1>3, <1>10, <2>1 DEF Shape
  <2>3. \A n \in Paid : change[n] \in ChangeRow(pkg'.agg, clock')
    BY <1>0, <1>1, <1>3, <1>8, TablesKept
  <2>4. change' \in [Paid -> ChangeRow(pkg'.agg, clock')]
    <3>1. CASE ordered
      <4>1. [change[next] EXCEPT !.status = "consumed", !.agg = pkg.agg + 1] \in ChangeRow(pkg'.agg, clock')
        <5>1. pkg.agg + 1 \in 0..pkg'.agg
          BY <1>1, <1>8
        <5>2. change[next] \in ChangeRow(pkg'.agg, clock')
          BY <1>5, <2>3, <3>1
        <5> QED
          BY <5>1, <5>2 DEF ChangeRow
      <4>2. change' = [change EXCEPT ![next] = [change[next] EXCEPT !.status = "consumed", !.agg = pkg.agg + 1]]
        BY <1>0, <1>5, <1>7, <3>1 DEF Shape, ChangeRow
      <4> QED
        BY <1>0, <2>3, <4>1, <4>2 DEF Shape
    <3>2. CASE ~ordered
      BY <1>0, <1>7, <2>3, <3>2 DEF Shape
    <3> QED
      BY <3>1, <3>2
  <2>5. /\ feedback' \in [Number -> FeedbackRow(pkg'.agg, clock')]
        /\ intent' \in [Number -> IntentRow(pkg'.agg)] /\ chain' \in Chain(clock')
    BY <1>0, <1>1, <1>3, <1>8, TablesKept
  <2> QED
    BY <1>0, <1>3, <1>8, <2>2, <2>4, <2>5 DEF Shape
<1>14. VersionsInv'
  <2>1. \A n \in Number : n < next => n <= pkg.alloc /\ n # next
    BY <1>1 DEF Number
  <2>2. \A n \in Number : version'[n].status # "none" <=> n <= next
    BY <1>0, <1>1, <1>10, <1>11 DEF VersionsInv, Number
  <2>3. \A n \in Number : n < next => version'[n].status = "review"
    <3> SUFFICES ASSUME NEW n \in Number, n < next PROVE version[n].status = "review"
      BY <1>11, <2>1
    <3>1. n < pkg.alloc \/ (n = pkg.alloc /\ next > 1)
      BY <1>1 DEF Number
    <3> QED
      BY <1>0, <1>4, <3>1 DEF VersionsInv
  <2>4. nonce = next
    BY <1>0, <1>1, <1>4 DEF VersionsInv, Number
  <2>5. \A n \in Number : n <= next => version'[n].nonce = n
    BY <1>0, <1>1, <1>10, <1>11, <2>4 DEF VersionsInv, Number
  <2>6. \A n \in Number : n <= next =>
            IF n \in Paid THEN version'[n].scope > version'[n - 1].scope ELSE version'[n].scope = 1
    <3> SUFFICES ASSUME NEW n \in Number, n <= next
                 PROVE IF n \in Paid THEN version'[n].scope > version'[n - 1].scope ELSE version'[n].scope = 1
      OBVIOUS
    <3>1. CASE n # next
      <4>1. n <= pkg.alloc /\ (n \in Paid => n - 1 \in Number \ {next})
        BY <1>1, <3>1 DEF Number, Paid
      <4> QED
        BY <1>0, <1>11, <3>1, <4>1 DEF VersionsInv
    <3>2. CASE n = next /\ n \in Paid
      <4>1. n - 1 \in Number \ {next}
        BY <1>1, <3>2 DEF Number, Paid
      <4>2. change[n].scope = version[n - 1].scope + 1 /\ version[n - 1].scope \in Nat
        BY <1>0, <1>5, <1>6, <3>2, <4>1 DEF OrdersInv, OrderFits, Shape, VersionRow
      <4> QED
        BY <1>5, <1>10, <1>11, <3>2, <4>1, <4>2
    <3>3. CASE n = next /\ n \notin Paid
      BY <1>5, <1>10, <1>11, <3>3
    <3> QED
      BY <3>1, <3>2, <3>3
  <2>7. \A m, n \in Number : version'[m].status = "review" /\ version'[n].status = "review"
                            /\ version'[m].content = version'[n].content => m = n
    BY <1>0, <1>10, <1>11 DEF VersionsInv
  <2> QED
    BY <1>8, <2>2, <2>3, <2>5, <2>6, <2>7 DEF VersionsInv
<1>15. OrdersInv' /\ EscrowInv'
  <2>1. \A n : Live(n)' = Live(n)
    BY <1>3 DEF Live
  <2>2. EscrowInv'
    BY <1>0, <1>12, <2>1 DEF EscrowInv, EscrowFits, SettledWhole
  <2>3. ASSUME NEW n \in Paid PROVE OrderFits(n, change[n])'
    <3>1. OrderFits(n, change[n]) /\ n \in Nat
      BY <1>0 DEF OrdersInv, Paid
    <3>2. CASE n = next
      <4>1. ordered /\ change[n].status = "effective" /\ change'[n].status = "consumed"
        BY <1>5, <1>6, <1>12, <3>2
      <4> QED
        BY <1>12, <2>1, <3>1, <4>1 DEF OrderFits
    <3>3. CASE n # next
      <4>1. change'[n] = change[n] /\ change[n].status # "effective" /\ (n <= next => n <= pkg.alloc)
        BY <1>1, <1>12, <3>1, <3>3 DEF OrderFits
      <4> QED
        BY <1>8, <2>1, <3>1, <4>1 DEF OrderFits
    <3> QED
      BY <3>2, <3>3
  <2> QED
    BY <2>2, <2>3 DEF OrdersInv
<1>16. ReleaseInv'
  BY <1>2, <1>3 DEF ReleaseInv
<1>17. ConfirmedIsPaid'
  BY <1>2, <1>3, UnpaidKept
<1> QED
  BY <1>13, <1>14, <1>15, <1>16, <1>17 DEF DeliveryInv

\* RecordDispatched marks a version the worker has handed over.
LEMMA DispatchedKeeps ==
    ASSUME DeliveryInv, NEW n \in Number, RecordDispatched(n)
    PROVE  DeliveryInv'
<1>0. Shape /\ VersionsInv /\ OrdersInv /\ EscrowInv
  BY DEF DeliveryInv
<1>1. /\ version[n].status = "allocated" /\ version' = [version EXCEPT ![n].status = "generating"]
      /\ task' = task /\ pkg' = pkg /\ feedback' = feedback /\ change' = change /\ intent' = intent
      /\ index' = index /\ journals' = journals /\ chain' = chain /\ clock' = clock /\ late' = late
  BY DEF RecordDispatched
<1>2. /\ version' \in [Number -> VersionRow(pkg.agg)] /\ version'[n].status = "generating"
      /\ version'[n].nonce = version[n].nonce /\ version'[n].scope = version[n].scope
      /\ \A m \in Number \ {n} : version'[m] = version[m]
  <2>1. PICK r : r = version[n] /\ r \in VersionRow(pkg.agg)
    BY <1>0 DEF Shape
  <2>2. PICK q : q = [r EXCEPT !.status = "generating"]
    OBVIOUS
  <2>3. q \in VersionRow(pkg.agg) /\ q.status = "generating" /\ q.nonce = r.nonce /\ q.scope = r.scope
    BY <2>1, <2>2 DEF VersionRow, Working
  <2>4. version' = [version EXCEPT ![n] = q]
    BY <1>0, <1>1, <2>1, <2>2 DEF Shape, VersionRow
  <2> QED
    BY <1>0, <2>1, <2>3, <2>4 DEF Shape
<1>3. Shape'
  BY <1>0, <1>1, <1>2 DEF Shape
<1>4. VersionsInv'
  <2>1. \A m \in Number : version'[m].nonce = version[m].nonce /\ version'[m].scope = version[m].scope
    BY <1>2
  <2>2. \A m \in Paid : m - 1 \in Number
    BY DEF Paid, Number
  <2>3. \A m \in Number : version'[m].status = "review" <=> version[m].status = "review"
    BY <1>1, <1>2
  <2>4. \A m \in Number : version'[m].status = "review" => version'[m].content = version[m].content
    BY <1>1, <1>2
  <2>5. \A m \in Number : version'[m].status = "none" <=> version[m].status = "none"
    BY <1>1, <1>2
  <2> QED
    BY <1>0, <1>1, <2>1, <2>2, <2>3, <2>4, <2>5 DEF VersionsInv
<1>5. OrdersInv' /\ EscrowInv'
  BY <1>0, <1>1, <1>2, OrdersKept
<1>6. ReleaseInv'
  BY <1>1, <1>2, ReleaseKept
<1>7. ConfirmedIsPaid'
  BY <1>1, PaidKept
<1> QED
  BY <1>3, <1>4, <1>5, <1>6, <1>7 DEF DeliveryInv

\* RecordResult ends the version under work: in review with a new content, or failed.
LEMMA ResultKeeps ==
    ASSUME DeliveryInv, NEW n \in Number, NEW c \in Content \cup {None}, NEW answered,
           RecordResult(n, c, answered)
    PROVE  DeliveryInv'
<1>0. Shape /\ VersionsInv /\ OrdersInv /\ EscrowInv
  BY DEF DeliveryInv
<1>1. /\ version[n].status \in Working /\ task = "formal_generating"
      /\ pkg' = pkg /\ feedback' = feedback /\ change' = change /\ intent' = intent
      /\ index' = index /\ journals' = journals /\ chain' = chain /\ clock' = clock /\ late' = late
  BY DEF RecordResult
<1>2. chain.released = None
  BY <1>1, NotSettled
<1>3. Billed(n) \in {0, Price}
  BY <1>0 DEF Billed, Shape, ChangeRow
<1>4. /\ version' \in [Number -> VersionRow(pkg.agg)]
      /\ \A m \in Number : version'[m].nonce = version[m].nonce /\ version'[m].scope = version[m].scope
      /\ \A m \in Number \ {n} : version'[m] = version[m]
      /\ \/ /\ version'[n].status = "review" /\ version'[n].content = c
            /\ \A m \in Number \ {n} : version[m].status = "review" => version[m].content # c
         \/ version'[n].status = "failed"
      /\ task' \in {"formal_review", "failed"}
  <2>1. CASE c # None /\ ~DuplicateContent(n, c)
    <3>1. /\ version' = [version EXCEPT ![n].status = "review", ![n].content = c, ![n].billed = Billed(n)]
          /\ task' = "formal_review"
      BY <2>1 DEF RecordResult
    <3>2. \A m \in Number \ {n} : version[m].status = "review" => version[m].content # c
      BY <2>1 DEF DuplicateContent
    <3>3. version' = [version EXCEPT ![n] = [version[n] EXCEPT !.status = "review", !.content = c, !.billed = Billed(n)]]
      BY <1>0, <3>1 DEF Shape, VersionRow
    <3> DEFINE row == [version[n] EXCEPT !.status = "review", !.content = c, !.billed = Billed(n)]
    <3>4. /\ row \in VersionRow(pkg.agg) /\ row.status = "review" /\ row.content = c
          /\ row.nonce = version[n].nonce /\ row.scope = version[n].scope
      <4>1. version[n] \in VersionRow(pkg.agg) /\ c \in Content \cup {None} /\ Billed(n) \in {0, Price}
        BY <1>0, <1>3 DEF Shape
      <4>2. PICK r \in VersionRow(pkg.agg), b \in {0, Price} : r = version[n] /\ b = Billed(n)
        BY <4>1
      <4>3. row = [r EXCEPT !.status = "review", !.content = c, !.billed = b]
        BY <4>2
      <4> HIDE DEF row
      <4> QED
        BY <4>1, <4>2, <4>3 DEF VersionRow
    <3> HIDE DEF row
    <3> QED
      BY <1>0, <3>1, <3>2, <3>3, <3>4 DEF Shape, row
  <2>2. CASE ~(c # None /\ ~DuplicateContent(n, c))
    <3>1. version' = [version EXCEPT ![n].status = "failed"] /\ task' = "failed"
      BY <2>2 DEF RecordResult
    <3>2. PICK r : r = version[n] /\ r \in VersionRow(pkg.agg)
      BY <1>0 DEF Shape
    <3>3. PICK q : q = [r EXCEPT !.status = "failed"]
      OBVIOUS
    <3>4. q \in VersionRow(pkg.agg) /\ q.status = "failed" /\ q.nonce = r.nonce /\ q.scope = r.scope
      BY <3>2, <3>3 DEF VersionRow
    <3>5. version' = [version EXCEPT ![n] = q]
      BY <1>0, <3>1, <3>2, <3>3 DEF Shape, VersionRow
    <3> QED
      BY <1>0, <3>1, <3>2, <3>4, <3>5 DEF Shape
  <2> QED
    BY <2>1, <2>2
<1>5. Shape'
  BY <1>0, <1>1, <1>4 DEF Shape
<1>6. VersionsInv'
  <2>1. \A m \in Paid : m - 1 \in Number
    BY DEF Paid, Number
  <2>2. n = pkg.alloc /\ version[n].status \notin {"none", "review"} /\ version'[n].status # "none"
    BY <1>0, <1>1, <1>4 DEF VersionsInv, Number, Shape, Working
  <2>3. \A m \in Number : version'[m].status # "none" <=> m <= pkg'.alloc
    BY <1>0, <1>1, <1>4, <2>2 DEF VersionsInv
  <2>4. \A m \in Number : m < pkg'.alloc => version'[m].status = "review"
    BY <1>0, <1>1, <1>4, <2>2 DEF VersionsInv, Number, Shape
  <2>5. \A m \in Number : m <= pkg'.alloc => version'[m].nonce = m
    BY <1>0, <1>1, <1>4 DEF VersionsInv
  <2>6. \A m \in Number : m <= pkg'.alloc =>
            IF m \in Paid THEN version'[m].scope > version'[m - 1].scope ELSE version'[m].scope = 1
    BY <1>0, <1>1, <1>4, <2>1 DEF VersionsInv
  <2>7. \A m, k \in Number : version'[m].status = "review" /\ version'[k].status = "review"
                            /\ version'[m].content = version'[k].content => m = k
    BY <1>0, <1>4, <2>2 DEF VersionsInv
  <2> QED
    BY <2>3, <2>4, <2>5, <2>6, <2>7 DEF VersionsInv
<1>7. OrdersInv' /\ EscrowInv'
  BY <1>0, <1>1, <1>4, OrdersKept
<1>8. ReleaseInv'
  BY <1>1, <1>2 DEF ReleaseInv
<1>9. ConfirmedIsPaid'
  BY <1>1, <1>2, UnpaidKept
<1> QED
  BY <1>5, <1>6, <1>7, <1>8, <1>9 DEF DeliveryInv

\* SubmitFeedback stores the one feedback set of a version.
LEMMA FeedbackKeeps ==
    ASSUME DeliveryInv, NEW items \in SUBSET Item, SubmitFeedback(items)
    PROVE  DeliveryInv'
<1>0. Shape /\ VersionsInv /\ OrdersInv /\ EscrowInv
  BY DEF DeliveryInv
<1>1. /\ task = "formal_review" /\ task' = "revision_requested" /\ clock' = clock + 1 /\ pkg' = Bump
      /\ feedback' = [feedback EXCEPT ![pkg.alloc] = [agg |-> pkg.agg + 1, at |-> clock + 1, items |-> items]]
      /\ version' = version /\ change' = change /\ intent' = intent /\ index' = index
      /\ journals' = journals /\ chain' = chain /\ late' = late
  BY DEF SubmitFeedback, FeedbackOpen
<1>2. chain.released = None
  BY <1>1, NotSettled
<1>3. /\ pkg' \in [alloc : 0..MaximumVersions, agg : Nat] /\ pkg'.agg = pkg.agg + 1
      /\ pkg'.alloc = pkg.alloc /\ pkg.agg \in Nat /\ clock \in Nat
  BY <1>0, <1>1 DEF Shape, Bump
<1>4. [agg |-> pkg.agg + 1, at |-> clock + 1, items |-> items] \in FeedbackRow(pkg'.agg, clock')
  BY <1>1, <1>3 DEF FeedbackRow
<1>5. \A n \in Number : feedback[n] \in FeedbackRow(pkg'.agg, clock')
  BY <1>0, <1>1, <1>3, TablesKept
<1>6. feedback' \in [Number -> FeedbackRow(pkg'.agg, clock')]
  BY <1>0, <1>1, <1>4, <1>5 DEF Shape
<1>7. /\ version' \in [Number -> VersionRow(pkg'.agg)] /\ change' \in [Paid -> ChangeRow(pkg'.agg, clock')]
      /\ intent' \in [Number -> IntentRow(pkg'.agg)] /\ chain' \in Chain(clock')
  BY <1>0, <1>1, <1>3, TablesKept
<1>8. Shape'
  BY <1>0, <1>1, <1>3, <1>6, <1>7 DEF Shape
<1>9. VersionsInv' /\ OrdersInv' /\ EscrowInv'
  BY <1>0, <1>1, <1>3, VersionsKept, OrdersKept
<1>10. ReleaseInv' /\ ConfirmedIsPaid'
  BY <1>1, <1>2, UnpaidKept DEF ReleaseInv
<1> QED
  BY <1>8, <1>9, <1>10 DEF DeliveryInv

-----------------------------------------------------------------------------
(* Change orders *)

\* Only the last version's order has a settlement that stands.
LEMMA LiveIsLast ==
    ASSUME DeliveryInv, NEW n \in Paid, Live(n) # {}
    PROVE  n = pkg.alloc /\ chain.released = n /\ intent[n].state = "confirmed"
<1>1. PICK j \in journals : j.order = n /\ ~j.reversed
  BY DEF Live
<1>2. n \in Number
  BY DEF Paid, Number
<1> QED
  BY <1>1, <1>2 DEF DeliveryInv, ConfirmedIsPaid

\* An order that no version has consumed has not been paid out.
LEMMA OpenOrder ==
    ASSUME DeliveryInv, NEW n \in Paid, change[n].status # "consumed"
    PROVE  ~(n <= pkg.alloc) /\ Live(n) = {} /\ change[n].funded = change[n].balance
<1>1. OrderFits(n, change[n]) /\ EscrowFits(n, change[n])
  BY DEF DeliveryInv, OrdersInv, EscrowInv
<1>2. ~(n <= pkg.alloc)
  BY <1>1 DEF OrderFits
<1>3. n \in Int /\ pkg.alloc \in Int
  BY DEF Paid, DeliveryInv, Shape
<1>4. Live(n) = {}
  BY <1>2, <1>3, LiveIsLast
<1> QED
  BY <1>1, <1>2, <1>4 DEF EscrowFits

\* A step of one order: whatever it turns the row into must fit, and may change the price
\* only of an order no version has consumed.
LEMMA OrderStep ==
    ASSUME DeliveryInv, NEW n \in Paid, NEW c, change' = [change EXCEPT ![n] = c],
           pkg' \in [alloc : 0..MaximumVersions, agg : Nat], pkg'.alloc = pkg.alloc,
           pkg'.agg >= pkg.agg, clock' \in Nat, clock' >= clock, c \in ChangeRow(pkg'.agg, clock'),
           OrderFits(n, c), EscrowFits(n, c),
           version' = version, feedback' = feedback, intent' = intent, index' = index,
           journals' = journals, chain' = chain, late' = late,
           \/ task' = task /\ (n <= pkg.alloc => c.price = change[n].price)
           \/ task # "settled" /\ task' \in {"change_order_pending", "revision_requested"}
    PROVE  DeliveryInv'
<1>0. Shape /\ VersionsInv /\ OrdersInv /\ EscrowInv /\ ReleaseInv
  BY DEF DeliveryInv
<1>1. /\ version' \in [Number -> VersionRow(pkg'.agg)] /\ intent' \in [Number -> IntentRow(pkg'.agg)]
      /\ feedback' \in [Number -> FeedbackRow(pkg'.agg, clock')] /\ chain' \in Chain(clock')
      /\ \A m \in Paid : change[m] \in ChangeRow(pkg'.agg, clock')
  BY <1>0, TablesKept
<1>2. change' \in [Paid -> ChangeRow(pkg'.agg, clock')]
  BY <1>0, <1>1 DEF Shape
<1>3. task' \in {"assigned", "formal_generating", "formal_review", "revision_requested",
                 "change_order_pending", "failed", "settled", "chain_reorg_pending"}
  BY <1>0 DEF Shape
<1>4. Shape'
  BY <1>0, <1>1, <1>2, <1>3 DEF Shape
<1>5. VersionsInv' /\ OrdersInv' /\ EscrowInv'
  BY <1>0, VersionsKept, OneOrderChanges
<1>6. CASE task' = task /\ (n <= pkg.alloc => c.price = change[n].price)
  <2>1. ReleaseInv'
    BY <1>6, ReleaseKept
  <2>2. change'[n] = c /\ \A m \in Paid \ {n} : change'[m] = change[m]
    BY <1>0 DEF Shape
  <2>3. \A m \in Paid : m <= pkg.alloc => change'[m].price = change[m].price
    BY <1>6, <2>2
  <2>4. ConfirmedIsPaid'
    BY <1>6, <2>3, PaidKept
  <2> QED
    BY <1>4, <1>5, <2>1, <2>4 DEF DeliveryInv
<1>7. CASE task # "settled"
  <2>1. chain.released = None
    BY <1>7, NotSettled
  <2>2. ReleaseInv' /\ ConfirmedIsPaid'
    BY <2>1, UnpaidKept DEF ReleaseInv
  <2> QED
    BY <1>4, <1>5, <2>2 DEF DeliveryInv
<1> QED
  BY <1>6, <1>7

\* What every numbered command does to the package.
LEMMA BumpType ==
    ASSUME Shape, pkg' = Bump
    PROVE  /\ pkg' \in [alloc : 0..MaximumVersions, agg : Nat] /\ pkg'.alloc = pkg.alloc
           /\ pkg'.agg = pkg.agg + 1 /\ pkg'.agg >= pkg.agg /\ pkg.agg \in Nat /\ clock \in Nat
           /\ pkg.agg + 1 \in 0..pkg'.agg
BY DEF Shape, Bump

\* ProposeChangeOrder opens the one order for the version after the last.
LEMMA ProposeKeeps ==
    ASSUME DeliveryInv, NEW trigger \in Number, NEW price, ValidChangeProposal(trigger, price),
           ProposeChangeOrder(trigger)
    PROVE  DeliveryInv'
<1> DEFINE n == trigger + 1
<1>0. Shape
  BY DEF DeliveryInv
<1>1. n \in Paid
  BY DEF ValidChangeProposal, Paid, Number
<1>2. /\ change[n].status = "none" /\ task \in {"revision_requested", "formal_review"}
      /\ change' = [change EXCEPT ![n] = [NoChange EXCEPT !.status = "responsibility_pending", !.agg = pkg.agg + 1]]
      /\ pkg' = Bump /\ task' = "change_order_pending"
      /\ version' = version /\ feedback' = feedback /\ intent' = intent /\ index' = index
      /\ journals' = journals /\ chain' = chain /\ clock' = clock /\ late' = late
  BY DEF ProposeChangeOrder
<1> HIDE DEF n
<1>3. PICK a \in Nat : a = pkg.agg + 1
  BY <1>0 DEF Shape
<1>4. PICK c : c = [NoChange EXCEPT !.status = "responsibility_pending", !.agg = a]
  OBVIOUS
<1>5. change' = [change EXCEPT ![n] = c]
  BY <1>2, <1>3, <1>4, Zenon
<1>6. /\ c \in ChangeRow(pkg'.agg, clock') /\ c.status = "responsibility_pending"
      /\ c.price = 0 /\ c.account = "none" /\ c.balance = 0 /\ c.funded = 0
  <2>1. a \in 0..pkg'.agg /\ 0 \in 0..pkg'.agg /\ 0 \in 0..clock'
    BY <1>0, <1>2, <1>3, BumpType
  <2>2. NoChange \in ChangeRow(pkg'.agg, clock')
    BY <2>1 DEF ChangeRow, NoChange
  <2>3. NoChange.price = 0 /\ NoChange.account = "none" /\ NoChange.balance = 0 /\ NoChange.funded = 0
    BY DEF NoChange
  <2> QED
    BY <1>4, <2>1, <2>2, <2>3 DEF ChangeRow
<1>7. Live(n) = {} /\ ~(n <= pkg.alloc)
  BY <1>1, <1>2, OpenOrder
<1>8. OrderFits(n, c) /\ EscrowFits(n, c)
  BY <1>6, <1>7 DEF OrderFits, EscrowFits
<1>9. /\ pkg' \in [alloc : 0..MaximumVersions, agg : Nat] /\ pkg'.alloc = pkg.alloc
      /\ pkg'.agg >= pkg.agg /\ clock' \in Nat /\ clock' >= clock /\ task # "settled"
  BY <1>0, <1>2, BumpType
<1> QED
  BY <1>1, <1>2, <1>5, <1>6, <1>8, <1>9, OrderStep

\* DecideChangeOrder says who pays: with a price comes an account.
LEMMA DecideKeeps ==
    ASSUME DeliveryInv, NEW n \in Paid, NEW by, DecideChangeOrder(n, by)
    PROVE  DeliveryInv'
<1>0. Shape
  BY DEF DeliveryInv
<1>1. PICK p, q : /\ p = ResponsibilityPolicy(by).price /\ q = ResponsibilityPolicy(by).account
                  /\ p \in {0, Price} /\ q \in {"none", "open"} /\ (p > 0 => q # "none")
  BY DEF ResponsibilityPolicy
<1>2. /\ change[n].status = "responsibility_pending"
      /\ change' = [change EXCEPT ![n].status = "awaiting_acceptance", ![n].agg = pkg.agg + 1,
                                  ![n].price = p, ![n].account = q]
      /\ pkg' = Bump /\ task' = task
      /\ version' = version /\ feedback' = feedback /\ intent' = intent /\ index' = index
      /\ journals' = journals /\ chain' = chain /\ clock' = clock /\ late' = late
  BY <1>1 DEF DecideChangeOrder
<1>3. /\ pkg' \in [alloc : 0..MaximumVersions, agg : Nat] /\ pkg'.alloc = pkg.alloc
      /\ pkg'.agg >= pkg.agg /\ clock \in Nat /\ pkg.agg + 1 \in 0..pkg'.agg
  BY <1>0, <1>2, BumpType
<1>4. PICK r : r = change[n] /\ r \in ChangeRow(pkg'.agg, clock')
  BY <1>0, <1>2, <1>3, TablesKept
<1>5. PICK c : c = [r EXCEPT !.status = "awaiting_acceptance", !.agg = pkg.agg + 1, !.price = p, !.account = q]
  OBVIOUS
<1>6. change' = [change EXCEPT ![n] = c]
  BY <1>0, <1>2, <1>4, <1>5 DEF Shape, ChangeRow
<1>7. c \in ChangeRow(pkg'.agg, clock')
  BY <1>1, <1>3, <1>4, <1>5 DEF ChangeRow
<1>8. /\ c.status = "awaiting_acceptance" /\ c.price = p /\ c.account = q
      /\ c.balance = r.balance /\ c.funded = r.funded
  BY <1>4, <1>5 DEF ChangeRow
<1>9. Live(n) = {} /\ ~(n <= pkg.alloc) /\ r.funded = r.balance
  BY <1>2, <1>4, OpenOrder
<1>10. OrderFits(n, c) /\ EscrowFits(n, c)
  BY <1>1, <1>8, <1>9 DEF OrderFits, EscrowFits
<1>11. clock' \in Nat /\ clock' >= clock /\ (n <= pkg.alloc => c.price = change[n].price)
  BY <1>2, <1>3, <1>9
<1> QED
  BY <1>2, <1>3, <1>6, <1>7, <1>10, <1>11, OrderStep

\* AcceptChangeOrder passes the order on to its funding, if it has an account.
LEMMA AcceptKeeps ==
    ASSUME DeliveryInv, NEW n \in Paid, AcceptChangeOrder(n)
    PROVE  DeliveryInv'
<1>0. Shape
  BY DEF DeliveryInv
<1>1. PICK s : s = (IF change[n].account = "none" THEN "ready_to_activate" ELSE "awaiting_funding")
  OBVIOUS
<1>2. /\ change[n].status = "awaiting_acceptance"
      /\ change' = [change EXCEPT ![n].agg = pkg.agg + 1, ![n].status = s]
      /\ pkg' = Bump /\ task' = task
      /\ version' = version /\ feedback' = feedback /\ intent' = intent /\ index' = index
      /\ journals' = journals /\ chain' = chain /\ clock' = clock /\ late' = late
  BY <1>1 DEF AcceptChangeOrder
<1>3. /\ pkg' \in [alloc : 0..MaximumVersions, agg : Nat] /\ pkg'.alloc = pkg.alloc
      /\ pkg'.agg >= pkg.agg /\ clock \in Nat /\ pkg.agg + 1 \in 0..pkg'.agg
  BY <1>0, <1>2, BumpType
<1>4. PICK r : r = change[n] /\ r \in ChangeRow(pkg'.agg, clock')
  BY <1>0, <1>2, <1>3, TablesKept
<1>5. PICK c : c = [r EXCEPT !.agg = pkg.agg + 1, !.status = s]
  OBVIOUS
<1>6. change' = [change EXCEPT ![n] = c]
  BY <1>0, <1>2, <1>4, <1>5 DEF Shape, ChangeRow
<1>7. c \in ChangeRow(pkg'.agg, clock')
  BY <1>1, <1>3, <1>4, <1>5 DEF ChangeRow
<1>8. /\ c.status \in {"ready_to_activate", "awaiting_funding"} /\ c.price = r.price
      /\ c.account = r.account /\ c.balance = r.balance /\ c.funded = r.funded
  BY <1>1, <1>4, <1>5 DEF ChangeRow
<1>9. Live(n) = {} /\ ~(n <= pkg.alloc) /\ r.funded = r.balance
  BY <1>2, <1>4, OpenOrder
<1>10. OrderFits(n, r)
  BY <1>4 DEF DeliveryInv, OrdersInv
<1>11. OrderFits(n, c) /\ EscrowFits(n, c)
  BY <1>8, <1>9, <1>10 DEF OrderFits, EscrowFits
<1>12. clock' \in Nat /\ clock' >= clock /\ (n <= pkg.alloc => c.price = change[n].price)
  BY <1>2, <1>3, <1>9
<1> QED
  BY <1>2, <1>3, <1>6, <1>7, <1>11, <1>12, OrderStep

\* Funding reaches an open account only, which no settlement has emptied.
LEMMA FundKeeps ==
    ASSUME DeliveryInv, NEW n \in Paid, NEW amount \in Nat, FundChangeOrder(n, amount)
    PROVE  DeliveryInv'
<1>0. Shape
  BY DEF DeliveryInv
<1>1. /\ change[n].account = "open"
      /\ change' = [change EXCEPT ![n].balance = @ + amount, ![n].funded = @ + amount]
      /\ pkg' = pkg /\ task' = task
      /\ version' = version /\ feedback' = feedback /\ intent' = intent /\ index' = index
      /\ journals' = journals /\ chain' = chain /\ clock' = clock /\ late' = late
  BY DEF FundChangeOrder
<1>2. pkg \in [alloc : 0..MaximumVersions, agg : Nat] /\ clock \in Nat /\ pkg'.agg >= pkg.agg
  BY <1>0, <1>1 DEF Shape
<1>3. PICK r : r = change[n] /\ r \in ChangeRow(pkg'.agg, clock')
  BY <1>0, <1>1 DEF Shape
<1>4. PICK c : c = [r EXCEPT !.balance = r.balance + amount, !.funded = r.funded + amount]
  OBVIOUS
<1>5. change' = [change EXCEPT ![n] = c]
  BY <1>0, <1>1, <1>3, <1>4 DEF Shape, ChangeRow
<1>6. c \in ChangeRow(pkg'.agg, clock')
  <2>1. r.balance + amount \in Nat /\ r.funded + amount \in Nat
    BY <1>3 DEF ChangeRow
  <2> QED
    BY <1>3, <1>4, <2>1 DEF ChangeRow
<1>7. /\ c.status = r.status /\ c.price = r.price /\ c.account = "open" /\ c.scope = r.scope
      /\ c.balance = r.balance + amount /\ c.funded = r.funded + amount
  BY <1>1, <1>3, <1>4 DEF ChangeRow
<1>8. OrderFits(n, r) /\ EscrowFits(n, r)
  BY <1>3 DEF DeliveryInv, OrdersInv, EscrowInv
<1>9. r.status # "consumed"
  BY <1>1, <1>3, <1>8 DEF OrderFits
<1>10. Live(n) = {} /\ ~(n <= pkg.alloc) /\ r.funded = r.balance
  BY <1>3, <1>9, OpenOrder
<1>11. OrderFits(n, c) /\ EscrowFits(n, c)
  <2>1. OrderFits(n, c)
    BY <1>1, <1>3, <1>7, <1>8, <1>10 DEF OrderFits
  <2>2. EscrowFits(n, c)
    BY <1>7, <1>10 DEF EscrowFits
  <2> QED
    BY <2>1, <2>2
<1>12. /\ clock' \in Nat /\ clock' >= clock /\ (n <= pkg.alloc => c.price = change[n].price)
       /\ pkg' \in [alloc : 0..MaximumVersions, agg : Nat] /\ pkg'.alloc = pkg.alloc
  BY <1>1, <1>2, <1>10
<1> QED
  BY <1>1, <1>2, <1>5, <1>6, <1>11, <1>12, OrderStep

\* ActivateChangeOrder freezes a covered account and opens the next scope.
LEMMA ActivateKeeps ==
    ASSUME DeliveryInv, NEW n \in Paid, ActivateChangeOrder(n)
    PROVE  DeliveryInv'
<1>0. Shape
  BY DEF DeliveryInv
<1>1. n - 1 \in Number /\ n \in Nat
  BY DEF Paid, Number
<1>2. PICK q, s : q = (IF change[n].account = "open" THEN "frozen" ELSE change[n].account) /\ s = version[n - 1].scope + 1
  OBVIOUS
<1>3. /\ change[n].status \in {"ready_to_activate", "awaiting_funding"} /\ Funded(n)
      /\ pkg.alloc + 1 = n /\ task = "change_order_pending"
      /\ change' = [change EXCEPT ![n].status = "effective", ![n].agg = pkg.agg + 1, ![n].at = clock + 1,
                                  ![n].scope = s, ![n].account = q]
      /\ pkg' = Bump /\ task' = "revision_requested" /\ clock' = clock + 1
      /\ version' = version /\ feedback' = feedback /\ intent' = intent /\ index' = index
      /\ journals' = journals /\ chain' = chain /\ late' = late
  <2>1. change[n] \in ChangeRow(pkg.agg, clock) /\ change \in [Paid -> ChangeRow(pkg.agg, clock)]
    BY <1>0 DEF Shape
  <2> QED
    BY <1>2, <2>1 DEF ActivateChangeOrder, ActivateScope, ChangeRow
<1>4. /\ pkg' \in [alloc : 0..MaximumVersions, agg : Nat] /\ pkg'.alloc = pkg.alloc
      /\ pkg'.agg >= pkg.agg /\ clock \in Nat /\ pkg.agg + 1 \in 0..pkg'.agg
      /\ clock' \in Nat /\ clock' >= clock /\ clock + 1 \in 0..clock'
  BY <1>0, <1>3, BumpType
<1>5. PICK r : r = change[n] /\ r \in ChangeRow(pkg'.agg, clock')
  BY <1>0, <1>3, <1>4, TablesKept
<1>6. PICK c : c = [r EXCEPT !.status = "effective", !.agg = pkg.agg + 1, !.at = clock + 1, !.scope = s, !.account = q]
  OBVIOUS
<1>7. change' = [change EXCEPT ![n] = c]
  BY <1>0, <1>3, <1>5, <1>6 DEF Shape, ChangeRow
<1>8. s \in Nat /\ q \in {"none", "frozen"}
  BY <1>0, <1>1, <1>2, <1>5 DEF Shape, VersionRow, ChangeRow
<1>9. c \in ChangeRow(pkg'.agg, clock')
  BY <1>4, <1>5, <1>6, <1>8 DEF ChangeRow
<1>10. /\ c.status = "effective" /\ c.price = r.price /\ c.account = q /\ c.scope = s
       /\ c.balance = r.balance /\ c.funded = r.funded
  BY <1>5, <1>6 DEF ChangeRow
<1>11. Live(n) = {} /\ ~(n <= pkg.alloc) /\ r.funded = r.balance
  BY <1>3, <1>5, OpenOrder
<1>12. OrderFits(n, r)
  BY <1>5 DEF DeliveryInv, OrdersInv
<1>13. OrderFits(n, c) /\ EscrowFits(n, c)
  <2>1. r.account = "open" => r.balance >= r.price
    BY <1>3, <1>5 DEF Funded
  <2>2. c.price > 0 => c.account # "none"
    BY <1>2, <1>5, <1>10, <1>12 DEF OrderFits
  <2>3. c.account = "frozen" => c.balance >= c.price \/ Live(n) # {}
    BY <1>2, <1>5, <1>10, <1>12, <2>1 DEF OrderFits
  <2> QED
    BY <1>2, <1>3, <1>8, <1>10, <1>11, <2>2, <2>3 DEF OrderFits, EscrowFits
<1> QED
  BY <1>3, <1>4, <1>7, <1>9, <1>13, OrderStep

\* The deadline of an order touches nothing but the order's own mark.
LEMMA OrderDeadlineKeeps ==
    ASSUME DeliveryInv, NEW n \in Paid, OrderDeadline(n)
    PROVE  DeliveryInv'
<1>0. Shape
  BY DEF DeliveryInv
<1>1. /\ change' = [change EXCEPT ![n].expired = TRUE]
      /\ pkg' = pkg /\ task' = task
      /\ version' = version /\ feedback' = feedback /\ intent' = intent /\ index' = index
      /\ journals' = journals /\ chain' = chain /\ clock' = clock /\ late' = late
  BY DEF OrderDeadline
<1>2. pkg \in [alloc : 0..MaximumVersions, agg : Nat] /\ clock \in Nat /\ pkg'.agg >= pkg.agg
  BY <1>0, <1>1 DEF Shape
<1>3. PICK r : r = change[n] /\ r \in ChangeRow(pkg'.agg, clock')
  BY <1>0, <1>1 DEF Shape
<1>4. PICK c : c = [r EXCEPT !.expired = TRUE]
  OBVIOUS
<1>5. change' = [change EXCEPT ![n] = c]
  BY <1>0, <1>1, <1>3, <1>4 DEF Shape, ChangeRow
<1>6. c \in ChangeRow(pkg'.agg, clock')
  BY <1>3, <1>4 DEF ChangeRow
<1>7. /\ c.status = r.status /\ c.price = r.price /\ c.account = r.account /\ c.scope = r.scope
      /\ c.balance = r.balance /\ c.funded = r.funded
  BY <1>3, <1>4 DEF ChangeRow
<1>8. OrderFits(n, r) /\ EscrowFits(n, r)
  BY <1>3 DEF DeliveryInv, OrdersInv, EscrowInv
<1>9. OrderFits(n, c) /\ EscrowFits(n, c)
  BY <1>7, <1>8 DEF OrderFits, EscrowFits, SettledWhole
<1>10. /\ clock' \in Nat /\ clock' >= clock /\ (n <= pkg.alloc => c.price = change[n].price)
       /\ pkg' \in [alloc : 0..MaximumVersions, agg : Nat] /\ pkg'.alloc = pkg.alloc
  BY <1>1, <1>2, <1>3, <1>7
<1> QED
  BY <1>1, <1>2, <1>5, <1>6, <1>9, <1>10, OrderStep

-----------------------------------------------------------------------------
(* Acceptance *)

\* CreateAcceptanceIntent records the first intent for a version.
LEMMA IntentKeeps ==
    ASSUME DeliveryInv, NEW n \in Number, CreateAcceptanceIntent(n)
    PROVE  DeliveryInv'
<1>0. Shape /\ VersionsInv /\ OrdersInv /\ EscrowInv
  BY DEF DeliveryInv
<1>1. /\ intent[n].state = "none"
      /\ intent' = [intent EXCEPT ![n] = [NoIntent EXCEPT !.state = "intent_recorded", !.agg = pkg.agg]]
      /\ task' = task /\ pkg' = pkg /\ version' = version /\ feedback' = feedback /\ change' = change
      /\ index' = index /\ journals' = journals /\ chain' = chain /\ clock' = clock /\ late' = late
  BY DEF CreateAcceptanceIntent
<1>2. PICK a \in Nat : a = pkg.agg
  BY <1>0 DEF Shape
<1>3. PICK r : r = [NoIntent EXCEPT !.state = "intent_recorded", !.agg = a]
  OBVIOUS
<1>4. r \in IntentRow(a) /\ r.state = "intent_recorded"
  <2>1. NoIntent \in IntentRow(a) /\ a \in 0..a
    BY <1>2 DEF IntentRow, NoIntent
  <2> QED
    BY <1>3, <2>1 DEF IntentRow
<1>5. intent' = [intent EXCEPT ![n] = r]
  BY <1>1, <1>2, <1>3, Zenon
<1>6. intent \in [Number -> IntentRow(a)]
  BY <1>0, <1>2 DEF Shape
<1>7. intent' \in [Number -> IntentRow(a)] /\ intent'[n] = r /\ \A m \in Number \ {n} : intent'[m] = intent[m]
  BY <1>4, <1>5, <1>6
<1>8. Shape'
  BY <1>0, <1>1, <1>2, <1>7 DEF Shape
<1>9. VersionsInv' /\ OrdersInv' /\ EscrowInv'
  BY <1>0, <1>1, VersionsKept, OrdersKept
<1>10. ReleaseInv'
  BY <1>1, ReleaseKept
<1>11. ConfirmedIsPaid'
  <2>1. \A m \in Number : intent[m].state = "confirmed" <=> intent'[m].state = "confirmed"
    BY <1>1, <1>4, <1>7
  <2>2. \A m \in Number : intent[m].state = "confirmed" => intent'[m] = intent[m]
    BY <1>1, <1>7
  <2> QED
    BY <1>1, <2>1, <2>2, PaidKept
<1> QED
  BY <1>8, <1>9, <1>10, <1>11 DEF DeliveryInv

\* SubmitAcceptance names the transaction of an intent that is not confirmed.
LEMMA SubmitKeeps ==
    ASSUME DeliveryInv, NEW n \in Number, NEW tx \in Tx, SubmitAcceptance(n, tx)
    PROVE  DeliveryInv'
<1>0. Shape /\ VersionsInv /\ OrdersInv /\ EscrowInv
  BY DEF DeliveryInv
<1>1. /\ intent[n].state \in {"intent_recorded", "orphaned"}
      /\ intent' = [intent EXCEPT ![n].state = "pending_confirmation", ![n].tx = tx, ![n].event = 0]
      /\ index' = [index EXCEPT !.pending = @ \cup {tx}]
      /\ task' = task /\ pkg' = pkg /\ version' = version /\ feedback' = feedback /\ change' = change
      /\ journals' = journals /\ chain' = chain /\ clock' = clock /\ late' = late
  BY DEF SubmitAcceptance
<1>2. /\ intent' \in [Number -> IntentRow(pkg.agg)] /\ intent'[n].state = "pending_confirmation"
      /\ \A m \in Number \ {n} : intent'[m] = intent[m]
  <2>1. PICK r : r = intent[n] /\ r \in IntentRow(pkg.agg)
    BY <1>0 DEF Shape
  <2>2. PICK q : q = [r EXCEPT !.state = "pending_confirmation", !.tx = tx, !.event = 0]
    OBVIOUS
  <2>3. q \in IntentRow(pkg.agg) /\ q.state = "pending_confirmation"
    BY <2>1, <2>2 DEF IntentRow
  <2>4. intent' = [intent EXCEPT ![n] = q]
    BY <1>0, <1>1, <2>1, <2>2 DEF Shape, IntentRow
  <2> QED
    BY <1>0, <2>3, <2>4 DEF Shape
<1>3. index' \in [pending : SUBSET Tx, confirmed : SUBSET Nat]
  BY <1>0, <1>1 DEF Shape
<1>4. Shape'
  BY <1>0, <1>1, <1>2, <1>3 DEF Shape
<1>5. VersionsInv' /\ OrdersInv' /\ EscrowInv'
  BY <1>0, <1>1, VersionsKept, OrdersKept
<1>6. ReleaseInv'
  BY <1>1, ReleaseKept
<1>7. ConfirmedIsPaid'
  <2>1. \A m \in Number : intent[m].state = "confirmed" <=> intent'[m].state = "confirmed"
    BY <1>1, <1>2
  <2>2. \A m \in Number : intent[m].state = "confirmed" => intent'[m] = intent[m]
    BY <1>1, <1>2
  <2> QED
    BY <1>1, <2>1, <2>2, PaidKept
<1> QED
  BY <1>4, <1>5, <1>6, <1>7 DEF DeliveryInv

\* The version that passes the gate while something is paid is the one that was paid: both
\* have the nonce on chain, and no two versions share a nonce.
LEMMA GateMeetsRelease ==
    ASSUME DeliveryInv, NEW n \in Number, NEW agg, SettlementGate(n, agg), chain.released # None
    PROVE  chain.released = n /\ pkg.alloc = n /\ task = "settled"
<1>1. PICK m \in Number : m = chain.released
  BY DEF DeliveryInv, Shape, Chain
<1>2. version[m].status = "review" /\ version[m].nonce = CanonicalNonce /\ task = "settled"
  BY <1>1 DEF DeliveryInv, ReleaseInv
<1>3. n = pkg.alloc /\ version[n].status = "review" /\ version[n].nonce = CanonicalNonce
  BY DEF SettlementGate
<1>4. version[m].nonce = m /\ version[n].nonce = n
  BY <1>2, <1>3 DEF DeliveryInv, VersionsInv
<1> QED
  BY <1>1, <1>2, <1>3, <1>4

\* ReconcileAcceptance confirms what the chain paid and empties the order's escrow.
LEMMA ReconcileKeeps ==
    ASSUME DeliveryInv, NEW n \in Number, ReconcileAcceptance(n)
    PROVE  DeliveryInv'
<1>0. Shape /\ VersionsInv /\ OrdersInv /\ EscrowInv /\ ConfirmedIsPaid
  BY DEF DeliveryInv
<1>1. /\ intent[n].state = "pending_confirmation" /\ SettlementGate(n, intent[n].agg)
      /\ chain.released # None /\ chain.tx = intent[n].tx
      /\ index' = [index EXCEPT !.confirmed = @ \cup {chain.event}]
      /\ intent' = [intent EXCEPT ![n].state = "confirmed", ![n].event = chain.event]
      /\ task' = task /\ pkg' = pkg /\ version' = version /\ feedback' = feedback
      /\ chain' = chain /\ clock' = clock /\ late' = late
  BY DEF ReconcileAcceptance
<1>2. chain.released = n /\ pkg.alloc = n /\ task = "settled"
  <2>1. PICK a : a = intent[n].agg
    OBVIOUS
  <2> QED
    BY <1>1, <2>1, GateMeetsRelease
<1>3. PICK e \in Nat : e = chain.event
  BY <1>0 DEF Shape, Chain
<1>4. /\ intent' \in [Number -> IntentRow(pkg.agg)] /\ intent'[n].state = "confirmed"
      /\ intent'[n].tx = intent[n].tx /\ intent'[n].event = e
      /\ \A m \in Number \ {n} : intent'[m] = intent[m]
  <2>1. PICK r : r = intent[n] /\ r \in IntentRow(pkg.agg)
    BY <1>0 DEF Shape
  <2>2. PICK q : q = [r EXCEPT !.state = "confirmed", !.event = e]
    OBVIOUS
  <2>3. q \in IntentRow(pkg.agg) /\ q.state = "confirmed" /\ q.tx = r.tx /\ q.event = e
    BY <2>1, <2>2 DEF IntentRow
  <2>4. intent' = [intent EXCEPT ![n] = q]
    BY <1>0, <1>1, <1>3, <2>1, <2>2 DEF Shape, IntentRow
  <2> QED
    BY <1>0, <2>1, <2>3, <2>4 DEF Shape
<1>5. index' \in [pending : SUBSET Tx, confirmed : SUBSET Nat]
  BY <1>0, <1>1, <1>3 DEF Shape
<1>6. \A m \in Number : intent[m].state # "confirmed"
  <2> SUFFICES ASSUME NEW m \in Number, intent[m].state = "confirmed" PROVE FALSE
    OBVIOUS
  <2>1. chain.released = m
    BY <1>0 DEF ConfirmedIsPaid
  <2> QED
    BY <1>1, <1>2, <2>1
<1>7. \A j \in journals : j.order \in Number
  BY <1>0 DEF Shape, Journal, Paid, Number
<1>8. \A j \in journals : j.reversed
  BY <1>0, <1>6, <1>7 DEF ConfirmedIsPaid
<1>9. \A m \in Paid : Live(m) = {}
  BY <1>8 DEF Live
<1>10. VersionsInv' /\ ReleaseInv'
  BY <1>0, <1>1, VersionsKept, ReleaseKept
<1>11. CASE n \in Paid /\ change[n].price > 0
  <2> DEFINE J == Settlement(n, chain.event)
  <2>1. PICK r : r = change[n] /\ r \in ChangeRow(pkg.agg, clock) /\ OrderFits(n, r) /\ EscrowFits(n, r)
    BY <1>0, <1>11 DEF Shape, OrdersInv, EscrowInv
  <2>2. r.account = "frozen" /\ r.balance >= r.price /\ r.status = "consumed"
    BY <1>1, <1>11, <2>1 DEF SettlementGate, ChangeOrderReady, OrderFits
  <2>3. PICK j : j = [order |-> n, event |-> e, amount |-> r.price, residual |-> r.balance - r.price, reversed |-> FALSE]
    OBVIOUS
  <2>4. /\ j \in Journal /\ j.order = n /\ j.event = e /\ j.amount = r.price
        /\ j.residual = r.balance - r.price /\ ~j.reversed
    <3>1. r.price \in Nat /\ r.balance - r.price \in Nat
      BY <2>1, <2>2 DEF ChangeRow
    <3> QED
      BY <1>11, <2>3, <3>1 DEF Journal
  <2>5. J = j
    BY <1>3, <2>1, <2>3 DEF Settlement
  <2>6. journals' = journals \cup {j} /\ change' = [change EXCEPT ![n].balance = @ - j.amount - j.residual]
    BY <1>11, <2>5 DEF ReconcileAcceptance
  <2>7. PICK c : c = [r EXCEPT !.balance = 0]
    OBVIOUS
  <2>8. r.balance - j.amount - j.residual = 0
    BY <2>1, <2>4 DEF ChangeRow
  <2>9. change' = [change EXCEPT ![n] = c]
    BY <1>0, <2>1, <2>6, <2>7, <2>8 DEF Shape, ChangeRow
  <2>10. /\ c \in ChangeRow(pkg.agg, clock) /\ c.balance = 0 /\ c.status = r.status /\ c.price = r.price
         /\ c.account = r.account /\ c.scope = r.scope /\ c.funded = r.funded
    BY <2>1, <2>7 DEF ChangeRow
  <2>11. /\ change' \in [Paid -> ChangeRow(pkg.agg, clock)] /\ change'[n] = c
         /\ \A m \in Paid \ {n} : change'[m] = change[m]
    BY <1>0, <1>11, <2>9, <2>10 DEF Shape
  <2>12. Live(n)' = {j} /\ \A m \in Paid \ {n} : Live(m)' = {}
    BY <1>8, <2>4, <2>6 DEF Live
  <2>13. Shape'
    <3>1. journals' \subseteq Journal
      BY <1>0, <2>4, <2>6 DEF Shape
    <3> QED
      BY <1>0, <1>1, <1>4, <1>5, <2>11, <3>1 DEF Shape
  <2>14. OrderFits(n, change[n])'
    BY <1>1, <2>1, <2>10, <2>11, <2>12 DEF OrderFits
  <2>15. EscrowFits(n, change[n])'
    <3>1. r.funded = r.balance
      BY <1>9, <1>11, <2>1 DEF EscrowFits
    <3>2. j.amount + j.residual = r.balance
      BY <2>1, <2>4 DEF ChangeRow
    <3>3. c.price > 0
      BY <1>11, <2>1, <2>10
    <3> QED
      BY <2>2, <2>4, <2>10, <2>11, <2>12, <3>1, <3>2, <3>3 DEF EscrowFits, SettledWhole
  <2>16. \A m \in Paid \ {n} : OrderFits(m, change[m])'
    BY <1>0, <1>1, <1>9, <2>11, <2>12 DEF OrdersInv, OrderFits
  <2>17. \A m \in Paid \ {n} : EscrowFits(m, change[m])'
    BY <1>0, <1>9, <2>11, <2>12 DEF EscrowInv, EscrowFits
  <2>18. OrdersInv' /\ EscrowInv'
    BY <2>12, <2>14, <2>15, <2>16, <2>17 DEF OrdersInv, EscrowInv
  <2>19. ConfirmedIsPaid'
    <3>1. \A m \in Number : intent'[m].state = "confirmed" => m = n
      BY <1>4, <1>6
    <3>2. \A k \in journals' : ~k.reversed => k = j
      BY <1>8, <2>6
    <3> QED
      BY <1>1, <1>2, <1>3, <1>4, <2>4, <2>12, <3>1, <3>2 DEF ConfirmedIsPaid
  <2> QED
    BY <1>10, <2>13, <2>18, <2>19 DEF DeliveryInv
<1>12. CASE ~(n \in Paid /\ change[n].price > 0)
  <2>1. journals' = journals /\ change' = change
    BY <1>12 DEF ReconcileAcceptance
  <2>2. Shape'
    BY <1>0, <1>1, <1>4, <1>5, <2>1 DEF Shape
  <2>3. OrdersInv' /\ EscrowInv'
    BY <1>0, <1>1, <2>1, OrdersKept
  <2>4. ConfirmedIsPaid'
    <3>1. \A m \in Number : intent'[m].state = "confirmed" => m = n
      BY <1>4, <1>6
    <3> QED
      BY <1>1, <1>2, <1>3, <1>4, <1>8, <1>12, <2>1, <3>1 DEF ConfirmedIsPaid
  <2> QED
    BY <1>10, <2>2, <2>3, <2>4 DEF DeliveryInv
<1> QED
  BY <1>11, <1>12

-----------------------------------------------------------------------------
(* The chain and its reorganisations *)

\* A nonce advances only while nothing is paid.
LEMMA AdvanceKeeps ==
    ASSUME DeliveryInv, NEW at \in 0..clock, AdvanceNonce(at)
    PROVE  DeliveryInv'
<1>0. Shape /\ VersionsInv /\ OrdersInv /\ EscrowInv
  BY DEF DeliveryInv
<1>1. /\ chain.released = None /\ chain' = [chain EXCEPT !.nonces = Append(@, at)]
      /\ task' = task /\ pkg' = pkg /\ version' = version /\ feedback' = feedback /\ change' = change
      /\ intent' = intent /\ index' = index /\ journals' = journals /\ clock' = clock /\ late' = late
  BY DEF AdvanceNonce
<1>2. Append(chain.nonces, at) \in Seq(0..clock)
  BY <1>0, AppendProperties DEF Shape, Chain
<1>3. chain' \in Chain(clock) /\ chain'.released = None
  BY <1>0, <1>1, <1>2 DEF Shape, Chain
<1>4. Shape'
  BY <1>0, <1>1, <1>3 DEF Shape
<1>5. VersionsInv' /\ OrdersInv' /\ EscrowInv'
  BY <1>0, <1>1, VersionsKept, OrdersKept
<1>6. ReleaseInv' /\ ConfirmedIsPaid'
  BY <1>1, <1>3, UnpaidKept DEF ReleaseInv
<1> QED
  BY <1>4, <1>5, <1>6 DEF DeliveryInv

\* A nonce leaves the chain only while nothing is paid.
LEMMA OrphanNonceKeeps ==
    ASSUME DeliveryInv, OrphanNonce
    PROVE  DeliveryInv'
<1>0. Shape /\ VersionsInv /\ OrdersInv /\ EscrowInv
  BY DEF DeliveryInv
<1>1. /\ chain.released = None /\ chain' = [chain EXCEPT !.nonces = Front(@), !.reorgs = @ + 1]
      /\ task' = task /\ pkg' = pkg /\ version' = version /\ feedback' = feedback /\ change' = change
      /\ intent' = intent /\ index' = index /\ journals' = journals /\ clock' = clock /\ late' = late
  BY DEF OrphanNonce
<1>2. Front(chain.nonces) \in Seq(0..clock)
  <2>1. PICK s, S : S = 0..clock /\ s = chain.nonces /\ s \in Seq(S)
    BY <1>0 DEF Shape, Chain
  <2>2. Len(s) \in Nat /\ \A i \in 1..Len(s) : s[i] \in S
    BY <2>1, ElementOfSeq, LenProperties
  <2>3. 1 \in Int /\ Len(s) - 1 \in Int /\ \A i \in 1..(Len(s) - 1) : s[i] \in S
    BY <2>2
  <2>4. SubSeq(s, 1, Len(s) - 1) \in Seq(S)
    BY <2>3, SubSeqProperties
  <2> QED
    BY <2>1, <2>4 DEF Front
<1>3. chain' \in Chain(clock) /\ chain'.released = None
  <2>1. PICK k \in Nat, f \in Seq(0..clock) : k = chain.reorgs + 1 /\ f = Front(chain.nonces)
    BY <1>0, <1>2 DEF Shape, Chain
  <2>2. chain' = [chain EXCEPT !.nonces = f, !.reorgs = k]
    BY <1>1, <2>1
  <2> QED
    BY <1>0, <1>1, <2>1, <2>2 DEF Shape, Chain
<1>4. Shape'
  BY <1>0, <1>1, <1>3 DEF Shape
<1>5. VersionsInv' /\ OrdersInv' /\ EscrowInv'
  BY <1>0, <1>1, VersionsKept, OrdersKept
<1>6. ReleaseInv' /\ ConfirmedIsPaid'
  BY <1>1, <1>3, UnpaidKept DEF ReleaseInv
<1> QED
  BY <1>4, <1>5, <1>6 DEF DeliveryInv

\* The contract pays a version in review that has the nonce on chain.
LEMMA ReleaseKeeps ==
    ASSUME DeliveryInv, NEW tx \in Tx, NEW n \in Number, NEW event \in Nat, Release(tx, n, event)
    PROVE  DeliveryInv'
<1>0. Shape /\ VersionsInv /\ OrdersInv /\ EscrowInv
  BY DEF DeliveryInv
<1>1. /\ chain.released = None /\ version[n].status = "review" /\ version[n].nonce = CanonicalNonce
      /\ chain' = [chain EXCEPT !.released = n, !.tx = tx, !.event = event, !.sent[tx] = n,
                                !.mined = @ \cup {<<tx, event>>}]
      /\ task' = "settled" /\ pkg' = pkg /\ version' = version /\ feedback' = feedback /\ change' = change
      /\ intent' = intent /\ index' = index /\ journals' = journals /\ clock' = clock /\ late' = late
  BY DEF Release
<1>2. chain' \in Chain(clock) /\ chain'.released = n /\ chain'.nonces = chain.nonces
  <2>1. PICK c \in Chain(clock) : c = chain
    BY <1>0 DEF Shape
  <2>2. [c.sent EXCEPT ![tx] = n] \in [Tx -> Number \cup {None}] /\ c.mined \cup {<<tx, event>>} \in SUBSET (Tx \X Nat)
    BY <2>1 DEF Chain
  <2>3. PICK f, g : f = [c.sent EXCEPT ![tx] = n] /\ g = c.mined \cup {<<tx, event>>}
    OBVIOUS
  <2>4. chain' = [c EXCEPT !.released = n, !.tx = tx, !.event = event, !.sent = f, !.mined = g]
    BY <1>1, <2>1, <2>3 DEF Chain
  <2> QED
    BY <2>1, <2>2, <2>3, <2>4 DEF Chain
<1>3. Shape'
  BY <1>0, <1>1, <1>2 DEF Shape
<1>4. VersionsInv' /\ OrdersInv' /\ EscrowInv'
  BY <1>0, <1>1, VersionsKept, OrdersKept
<1>5. ReleaseInv'
  BY <1>1, <1>2 DEF ReleaseInv, CanonicalNonce
<1>6. ConfirmedIsPaid'
  BY <1>1, UnpaidKept
<1> QED
  BY <1>3, <1>4, <1>5, <1>6 DEF DeliveryInv

\* Every settlement that stands is of the event on the chain: Rewind reverses all of them.
LEMMA AllAreHit ==
    ASSUME DeliveryInv, NEW j \in journals, ~j.reversed
    PROVE  j.event = chain.event
<1>1. j.order \in Paid /\ j.order \in Number
  BY DEF DeliveryInv, Shape, Journal, Paid, Number
<1>2. PICK n \in Paid : n = j.order /\ n \in Number
  BY <1>1
<1>3. j \in Live(n) /\ intent[n].state = "confirmed"
  BY <1>2 DEF Live, DeliveryInv, ConfirmedIsPaid
<1>4. SettledWhole(change[n], j)
  BY <1>3 DEF DeliveryInv, EscrowInv, EscrowFits
<1>5. PICK i \in Live(n) : i.event = chain.event
  BY <1>2, <1>3, <1>4 DEF DeliveryInv, ConfirmedIsPaid, SettledWhole
<1>6. i = j
  BY <1>3, <1>5 DEF DeliveryInv, EscrowInv
<1> QED
  BY <1>5, <1>6

\* A reorganisation of the release gives every escrow back what it paid.
LEMMA OrphanReleaseKeeps ==
    ASSUME DeliveryInv, OrphanRelease
    PROVE  DeliveryInv'
<1> DEFINE hit == {j \in journals : j.event = chain.event /\ ~j.reversed}
<1>0. Shape /\ VersionsInv /\ OrdersInv /\ EscrowInv /\ ConfirmedIsPaid
  BY DEF DeliveryInv
<1>1. /\ journals' = (journals \ hit) \cup {[j EXCEPT !.reversed = TRUE] : j \in hit}
      /\ change' = [n \in Paid |->
                        IF \E j \in hit : j.order = n
                        THEN [change[n] EXCEPT !.balance = @ + Returned(CHOOSE j \in hit : j.order = n)]
                        ELSE change[n]]
      /\ intent' = [n \in Number |->
                        IF intent[n].state = "confirmed" /\ intent[n].event = chain.event
                        THEN [intent[n] EXCEPT !.state = "orphaned"] ELSE intent[n]]
      /\ task' = "chain_reorg_pending"
      /\ chain' = [chain EXCEPT !.released = None, !.tx = None, !.event = 0, !.reorgs = @ + 1]
      /\ pkg' = pkg /\ version' = version /\ feedback' = feedback /\ index' = index
      /\ clock' = clock /\ late' = late
  BY DEF OrphanRelease
<1>2. \A j \in journals : ~j.reversed => j \in hit
  BY AllAreHit
<1>3. \A j \in hit : j \in Journal /\ [j EXCEPT !.reversed = TRUE] \in Journal /\ [j EXCEPT !.reversed = TRUE].reversed
  <2> SUFFICES ASSUME NEW j \in hit
               PROVE  j \in Journal /\ [j EXCEPT !.reversed = TRUE] \in Journal /\ [j EXCEPT !.reversed = TRUE].reversed
    OBVIOUS
  <2>1. j \in Journal
    BY <1>0 DEF Shape
  <2>2. [j EXCEPT !.reversed = TRUE] \in Journal
    BY <2>1 DEF Journal
  <2>3. [j EXCEPT !.reversed = TRUE].reversed
    BY <2>1 DEF Journal
  <2> QED
    BY <2>1, <2>2, <2>3
<1>4. \A n \in Paid : {j \in hit : j.order = n} = Live(n)
  BY <1>2 DEF Live
<1>5. journals' \subseteq Journal
  BY <1>0, <1>1, <1>3 DEF Shape
<1>6. \A j \in journals' : j.reversed
  BY <1>1, <1>2, <1>3
<1>7. \A n \in Paid : Live(n)' = {}
  BY <1>6 DEF Live
<1>8. chain' \in Chain(clock) /\ chain'.released = None
  <2>1. PICK k \in Nat : k = chain.reorgs + 1
    BY <1>0 DEF Shape, Chain
  <2>2. chain' = [chain EXCEPT !.released = None, !.tx = None, !.event = 0, !.reorgs = k]
    BY <1>1, <2>1
  <2> QED
    BY <1>0, <2>1, <2>2 DEF Shape, Chain
<1>9. intent' \in [Number -> IntentRow(pkg.agg)] /\ \A n \in Number : intent'[n].state # "confirmed"
  <2>1. ASSUME NEW n \in Number PROVE intent'[n] \in IntentRow(pkg.agg) /\ intent'[n].state # "confirmed"
    <3>1. PICK r \in IntentRow(pkg.agg) : r = intent[n]
      BY <1>0 DEF Shape
    <3>2. CASE r.state = "confirmed"
      <4>1. r.event = chain.event
        BY <1>0, <3>1, <3>2 DEF ConfirmedIsPaid
      <4>2. intent'[n] = [r EXCEPT !.state = "orphaned"]
        BY <1>1, <3>1, <3>2, <4>1
      <4> QED
        BY <3>1, <4>2 DEF IntentRow
    <3>3. CASE r.state # "confirmed"
      BY <1>1, <3>1, <3>3
    <3> QED
      BY <3>2, <3>3
  <2>2. intent' = [n \in Number |-> intent'[n]]
    BY <1>1
  <2> QED
    BY <2>1, <2>2
<1>10. ASSUME NEW n \in Paid
       PROVE  /\ change'[n] \in ChangeRow(pkg.agg, clock) /\ change'[n].funded = change'[n].balance
              /\ change'[n].status = change[n].status /\ change'[n].account = change[n].account
              /\ change'[n].price = change[n].price /\ change'[n].scope = change[n].scope
              /\ change'[n].account = "frozen" => change'[n].balance >= change'[n].price
  <2>1. PICK r \in ChangeRow(pkg.agg, clock) : r = change[n] /\ OrderFits(n, r) /\ EscrowFits(n, r)
    BY <1>0 DEF Shape, OrdersInv, EscrowInv
  <2>2. CASE Live(n) = {}
    <3>1. change'[n] = r
      BY <1>1, <1>4, <2>1, <2>2
    <3> QED
      BY <2>1, <2>2, <3>1 DEF OrderFits, EscrowFits
  <2>3. CASE Live(n) # {}
    <3>1. PICK j : j = (CHOOSE i \in hit : i.order = n)
      OBVIOUS
    <3>2. \E i \in hit : i.order = n
      BY <1>4, <2>3
    <3>3. j \in hit /\ j.order = n
      BY <3>1, <3>2
    <3>4. j \in Live(n) /\ j \in Journal
      BY <1>3, <1>4, <3>3
    <3>5. SettledWhole(r, j)
      BY <2>1, <3>4 DEF EscrowFits
    <3>6. change'[n] = [r EXCEPT !.balance = r.balance + Returned(j)]
      BY <1>1, <2>1, <3>1, <3>2
    <3>7. Returned(j) \in Nat /\ Returned(j) = j.amount + j.residual /\ j.amount \in Nat /\ j.residual \in Nat
      BY <3>4 DEF Returned, Journal
    <3>8. r.balance + Returned(j) = r.funded /\ r.funded \in Nat /\ r.funded >= r.price
      BY <2>1, <3>5, <3>7 DEF SettledWhole, ChangeRow
    <3>9. change'[n] = [r EXCEPT !.balance = r.funded]
      BY <3>6, <3>8
    <3> QED
      BY <2>1, <3>8, <3>9 DEF ChangeRow
  <2> QED
    BY <2>2, <2>3
<1>11. change' \in [Paid -> ChangeRow(pkg.agg, clock)]
  <2>1. change' = [n \in Paid |-> change'[n]]
    BY <1>1
  <2> QED
    BY <1>10, <2>1
<1> HIDE DEF hit
<1>12. Shape'
  BY <1>0, <1>1, <1>5, <1>8, <1>9, <1>11 DEF Shape
<1>13. VersionsInv'
  BY <1>0, <1>1, VersionsKept
<1>14. OrdersInv'
  <2> SUFFICES ASSUME NEW n \in Paid PROVE OrderFits(n, change[n])'
    BY DEF OrdersInv
  <2>1. OrderFits(n, change[n])
    BY <1>0 DEF OrdersInv
  <2> QED
    BY <1>1, <1>10, <2>1 DEF OrderFits
<1>15. EscrowInv'
  BY <1>7, <1>10 DEF EscrowInv, EscrowFits
<1>16. ReleaseInv' /\ ConfirmedIsPaid'
  BY <1>6, <1>8, <1>9 DEF ReleaseInv, ConfirmedIsPaid
<1> QED
  BY <1>12, <1>13, <1>14, <1>15, <1>16 DEF DeliveryInv

\* The task's deadline is looked at by Start alone.
LEMMA TaskDeadlineKeeps ==
    ASSUME DeliveryInv, TaskDeadline
    PROVE  DeliveryInv'
<1>0. Shape /\ VersionsInv /\ OrdersInv /\ EscrowInv
  BY DEF DeliveryInv
<1>1. /\ late' \in BOOLEAN /\ chain' = chain
      /\ task' = task /\ pkg' = pkg /\ version' = version /\ feedback' = feedback /\ change' = change
      /\ intent' = intent /\ index' = index /\ journals' = journals /\ clock' = clock
  BY DEF TaskDeadline
<1>2. Shape'
  BY <1>0, <1>1 DEF Shape
<1>3. VersionsInv' /\ OrdersInv' /\ EscrowInv' /\ ReleaseInv'
  BY <1>0, <1>1, VersionsKept, OrdersKept, ReleaseKept
<1>4. ConfirmedIsPaid'
  BY <1>1, PaidKept
<1> QED
  BY <1>2, <1>3, <1>4 DEF DeliveryInv

-----------------------------------------------------------------------------
(* The theorems *)

\* Nothing exists yet: every table holds its empty rows.
LEMMA DeliveryStarts ==
    ASSUME Init
    PROVE  DeliveryInv
<1>1. /\ task = "assigned" /\ pkg = [alloc |-> 0, agg |-> 1]
      /\ version = [n \in Number |-> NoVersion] /\ feedback = [n \in Number |-> NoFeedback]
      /\ change = [n \in Paid |-> NoChange] /\ intent = [n \in Number |-> NoIntent]
      /\ index = [pending |-> {}, confirmed |-> {}] /\ journals = {} /\ clock = 0 /\ late \in BOOLEAN
      /\ chain = [nonces |-> <<>>, released |-> None, tx |-> None, event |-> 0,
                  sent |-> [t \in Tx |-> None], mined |-> {}, reorgs |-> 0]
  BY DEF Init
<1>2. pkg \in [alloc : 0..MaximumVersions, agg : Nat] /\ pkg.alloc = 0 /\ pkg.agg = 1
  BY <1>1
<1>3. NoVersion \in VersionRow(1) /\ NoFeedback \in FeedbackRow(1, 0) /\ NoIntent \in IntentRow(1)
  BY DEF VersionRow, FeedbackRow, IntentRow, NoVersion, NoFeedback, NoIntent
<1>4. NoChange \in ChangeRow(1, 0)
  BY DEF ChangeRow, NoChange
<1>5. chain \in Chain(0) /\ chain.released = None
  BY <1>1 DEF Chain
<1>6. Shape
  BY <1>1, <1>2, <1>3, <1>4, <1>5 DEF Shape
<1>7. \A n \in Number : ~(n <= pkg.alloc)
  BY <1>2 DEF Number
<1>8. VersionsInv
  BY <1>1, <1>7 DEF VersionsInv, NoVersion, Number
<1>9. \A n \in Paid : Live(n) = {} /\ ~(n <= pkg.alloc)
  BY <1>1, <1>2 DEF Live, Paid
<1>10. OrdersInv /\ EscrowInv
  BY <1>1, <1>9 DEF OrdersInv, EscrowInv, OrderFits, EscrowFits, NoChange
<1>11. ReleaseInv /\ ConfirmedIsPaid
  BY <1>1, <1>5 DEF ReleaseInv, ConfirmedIsPaid, NoIntent
<1> QED
  BY <1>6, <1>8, <1>10, <1>11 DEF DeliveryInv

\* A step that changes nothing.
LEMMA DeliveryStutters ==
    ASSUME DeliveryInv, UNCHANGED vars
    PROVE  DeliveryInv'
<1>0. Shape /\ VersionsInv /\ OrdersInv /\ EscrowInv
  BY DEF DeliveryInv
<1>1. /\ late' = late /\ chain' = chain
      /\ task' = task /\ pkg' = pkg /\ version' = version /\ feedback' = feedback /\ change' = change
      /\ intent' = intent /\ index' = index /\ journals' = journals /\ clock' = clock
  BY DEF vars
<1>2. Shape'
  BY <1>0, <1>1 DEF Shape
<1>3. VersionsInv' /\ OrdersInv' /\ EscrowInv' /\ ReleaseInv'
  BY <1>0, <1>1, VersionsKept, OrdersKept, ReleaseKept
<1>4. ConfirmedIsPaid'
  BY <1>1, PaidKept
<1> QED
  BY <1>2, <1>3, <1>4 DEF DeliveryInv

\* Every request, result, deadline and event keeps the invariant.
LEMMA DeliverySteps ==
    ASSUME DeliveryInv, [Next]_vars
    PROVE  DeliveryInv'
<1>0. clock \in Nat /\ CanonicalNonce \in Nat
  BY DEF DeliveryInv, Shape, Chain, CanonicalNonce
<1>1. ASSUME NEW role \in Role, NEW ordered \in BOOLEAN, NEW nonce \in 1..CanonicalNonce,
             StartRequest(role, ordered, nonce)
      PROVE  DeliveryInv'
  BY <1>0, <1>1, StartKeeps DEF StartRequest
<1>2. ASSUME NEW n \in Number, RecordDispatched(n) PROVE DeliveryInv'
  BY <1>2, DispatchedKeeps
<1>3. ASSUME NEW n \in Number, NEW c \in Content \cup {None}, NEW answered \in SUBSET Item,
             RecordResult(n, c, answered)
      PROVE  DeliveryInv'
  BY <1>3, ResultKeeps
<1>4. ASSUME NEW role \in Role, NEW items \in SUBSET Item, FeedbackRequest(role, items) PROVE DeliveryInv'
  BY <1>4, FeedbackKeeps DEF FeedbackRequest
<1>5. ASSUME NEW role \in Role, NEW trigger \in Number, NEW price \in {0, Price},
             ProposeRequest(role, trigger, price)
      PROVE  DeliveryInv'
  BY <1>5, ProposeKeeps DEF ProposeRequest
<1>6. ASSUME NEW role \in Role, NEW n \in Paid, NEW by \in Responsible, DecideRequest(role, n, by)
      PROVE  DeliveryInv'
  BY <1>6, DecideKeeps DEF DecideRequest
<1>7. ASSUME NEW role \in Role, NEW n \in Paid, AcceptRequest(role, n) PROVE DeliveryInv'
  BY <1>7, AcceptKeeps DEF AcceptRequest
<1>8. ASSUME NEW n \in Paid, NEW amount \in 1..(2 * Price), FundChangeOrder(n, amount) PROVE DeliveryInv'
  BY <1>8, FundKeeps
<1>9. ASSUME NEW role \in Role, NEW n \in Paid, ActivateRequest(role, n) PROVE DeliveryInv'
  BY <1>9, ActivateKeeps DEF ActivateRequest
<1>10. ASSUME NEW role \in Role, NEW n \in Number, IntentRequest(role, n) PROVE DeliveryInv'
  BY <1>10, IntentKeeps DEF IntentRequest
<1>11. ASSUME NEW role \in Role, NEW n \in Number, NEW tx \in Tx \cup {None}, AcceptanceTransition(role, n, tx)
       PROVE  DeliveryInv'
  BY <1>11, SubmitKeeps, ReconcileKeeps DEF AcceptanceTransition
<1>12. ASSUME NEW at \in 0..clock, AdvanceNonce(at) PROVE DeliveryInv'
  BY <1>12, AdvanceKeeps
<1>13. ASSUME NEW tx \in Tx, NEW n \in Number, NEW event \in 1..(MaxReorgs + 1), Release(tx, n, event)
       PROVE  DeliveryInv'
  BY <1>13, ReleaseKeeps
<1>14. CASE OrphanRelease
  BY <1>14, OrphanReleaseKeeps
<1>15. CASE OrphanNonce
  BY <1>15, OrphanNonceKeeps
<1>16. CASE TaskDeadline
  BY <1>16, TaskDeadlineKeeps
<1>17. ASSUME NEW n \in Paid, OrderDeadline(n) PROVE DeliveryInv'
  BY <1>17, OrderDeadlineKeeps
<1>18. CASE UNCHANGED vars
  BY <1>18, DeliveryStutters
<1> QED
  BY <1>1, <1>2, <1>3, <1>4, <1>5, <1>6, <1>7, <1>8, <1>9, <1>10, <1>11, <1>12, <1>13, <1>14,
     <1>15, <1>16, <1>17, <1>18 DEF Next

\* The invariant holds in every behaviour.
LEMMA DeliveryInvariant == Spec => []DeliveryInv
<1>1. Init => DeliveryInv
  BY DeliveryStarts
<1>2. DeliveryInv /\ [Next]_vars => DeliveryInv'
  BY DeliverySteps
<1> QED
  BY <1>1, <1>2, PTL DEF Spec

\* Over any number of rounds of feedback and change orders versions are made one after
\* another, each under a later nonce and scope, and no content twice (Start, RecordResult,
\* ActivateChangeOrder).
THEOREM VersionsStayInOrder == Spec => []VersionsInOrder
<1>1. DeliveryInv => VersionsInOrder
  <2> SUFFICES ASSUME DeliveryInv PROVE VersionsInOrder
    OBVIOUS
  <2>1. Shape /\ VersionsInv
    BY DEF DeliveryInv
  <2>2. TypeOK
    <3>1. /\ version \in [Number -> VersionRow(pkg.agg)] /\ feedback \in [Number -> FeedbackRow(pkg.agg, clock)]
          /\ change \in [Paid -> ChangeRow(pkg.agg, clock)] /\ intent \in [Number -> IntentRow(pkg.agg)]
          /\ index.pending \subseteq Tx /\ index.confirmed \subseteq Nat /\ journals \subseteq Journal
          /\ chain.nonces \in Seq(0..clock) /\ chain.released \in Number \cup {None}
      BY <2>1 DEF Shape, Chain
    <3> QED
      BY <2>1, <3>1 DEF TypeOK, Shape, VersionRow, FeedbackRow, ChangeRow, IntentRow, Journal
  <2>3. ASSUME NEW n \in 1..(pkg.alloc - 1)
        PROVE  /\ version[n].status = "review" /\ version[n + 1].nonce = version[n].nonce + 1
               /\ IF n + 1 \in Paid THEN version[n + 1].scope > version[n].scope
                  ELSE version[n + 1].scope = version[n].scope
    <3>1. n \in Number /\ n + 1 \in Number /\ n < pkg.alloc /\ n + 1 <= pkg.alloc /\ n <= pkg.alloc
      BY <2>1 DEF Shape, Number
    <3>2. version[n].status = "review" /\ version[n].nonce = n /\ version[n + 1].nonce = n + 1
      BY <2>1, <3>1 DEF VersionsInv
    <3>3. n + 1 \notin Paid => n \notin Paid
      BY <3>1 DEF Paid, Number
    <3>4. IF n + 1 \in Paid THEN version[n + 1].scope > version[n].scope
          ELSE version[n + 1].scope = version[n].scope
      <4>1. n + 1 - 1 = n
        BY <3>1 DEF Number
      <4> QED
        BY <2>1, <3>1, <3>3, <4>1 DEF VersionsInv
    <3> QED
      BY <3>2, <3>4
  <2> QED
    BY <2>1, <2>2, <2>3 DEF VersionsInOrder, VersionsInv
<1> QED
  BY <1>1, DeliveryInvariant, PTL

\* No version beyond the included ones exists without a consumed order whose escrow holds
\* its price or has paid it (Start, FundChangeOrder, ReconcileAcceptance, Rewind).
THEOREM PaidVersionsStayFunded == Spec => []PaidVersionsFunded
<1>1. DeliveryInv => PaidVersionsFunded
  <2> SUFFICES ASSUME DeliveryInv, NEW n \in Paid, version[n].status # "none"
               PROVE  /\ change[n].status = "consumed"
                      /\ change[n].price > 0 =>
                            change[n].account = "frozen" /\ (change[n].balance >= change[n].price \/ Live(n) # {})
    BY DEF PaidVersionsFunded
  <2>1. n \in Number /\ OrderFits(n, change[n]) /\ change[n] \in ChangeRow(pkg.agg, clock)
    BY DEF Paid, Number, DeliveryInv, OrdersInv, Shape
  <2>2. n <= pkg.alloc
    BY <2>1 DEF DeliveryInv, VersionsInv
  <2> QED
    BY <2>1, <2>2 DEF OrderFits, ChangeRow
<1> QED
  BY <1>1, DeliveryInvariant, PTL

\* However often an acceptance is mined, reorganised and mined again, an order's escrow is
\* paid out at most once at a time and to the last unit (Settlement, reverseSettlementBlock).
THEOREM EscrowStaysConserved == Spec => []EscrowConserved
<1>1. DeliveryInv => EscrowConserved
  <2> SUFFICES ASSUME DeliveryInv, NEW n \in Paid
               PROVE  /\ Cardinality(Live(n)) <= 1
                      /\ change[n].funded = change[n].balance
                              + (IF Live(n) = {} THEN 0 ELSE LET j == CHOOSE j \in Live(n) : TRUE
                                                             IN j.amount + j.residual)
                      /\ Live(n) # {} => change[n].balance = 0
    BY DEF EscrowConserved
  <2>1. EscrowFits(n, change[n]) /\ change[n] \in ChangeRow(pkg.agg, clock) /\ \A i, j \in Live(n) : i = j
    BY DEF DeliveryInv, EscrowInv, Shape
  <2>2. CASE Live(n) = {}
    <3>1. Cardinality(Live(n)) = 0
      BY <2>2, FS_EmptySet
    <3> QED
      BY <2>1, <2>2, <3>1 DEF EscrowFits, ChangeRow
  <2>3. CASE Live(n) # {}
    <3>1. PICK j : j = (CHOOSE i \in Live(n) : TRUE)
      OBVIOUS
    <3>2. j \in Live(n)
      BY <2>3, <3>1
    <3>3. Live(n) = {j}
      BY <2>1, <3>2
    <3>4. Cardinality(Live(n)) = 1
      BY <3>3, FS_Singleton
    <3>5. j \in Journal /\ SettledWhole(change[n], j)
      BY <2>1, <3>2 DEF EscrowFits, Live, DeliveryInv, Shape
    <3>6. change[n].balance = 0 /\ change[n].funded = 0 + (j.amount + j.residual)
      BY <3>5 DEF SettledWhole, Journal
    <3> QED
      BY <2>3, <3>1, <3>4, <3>6
  <2> QED
    BY <2>2, <2>3
<1> QED
  BY <1>1, DeliveryInvariant, PTL

\* A confirmed acceptance is of the last version, the one the chain paid, under the very
\* event it was settled with (ReconcileAcceptance against nonces and reorganisations).
THEOREM ConfirmedStaysPaid == Spec => []ConfirmedIsPaid
<1>1. DeliveryInv => ConfirmedIsPaid
  BY DEF DeliveryInv
<1> QED
  BY <1>1, DeliveryInvariant, PTL
=============================================================================
