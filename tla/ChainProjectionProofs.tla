------------------------ MODULE ChainProjectionProofs ------------------------
(***************************************************************************)
(* For every tree of blocks, every number of projectors and any number of  *)
(* reorganisations: chain_canonical_blocks is one chain and implements     *)
(* CanonicalIndex, the projected rows follow that chain, no work is funded *)
(* and no payout booked by an orphaned block, the receivable is never      *)
(* overdrawn, and reconciliation misses no settlement that is not booked.  *)
(***************************************************************************)
EXTENDS Reconciliation, FiniteSetTheorems, TLAPS

USE TreeTypes

\* What a projector carries between its steps, as far as the index depends on it.
Place == [at : Step, safe : Nat, from : Block \cup {None}, block : Block \cup {None}, height : Nat]

PlaceOK(q) ==
    /\ q.at = "apply" => q.block \in Block
    /\ q.at \in {"scan", "compare"} => q.from \in Block /\ q.height >= Lowest(q.from)
    /\ q.at = "rewind" => \E b \in Block : Height[b] = q.height

PlaceTypes ==
    /\ sync \in [Projector -> Place]
    /\ \A p \in Projector : PlaceOK(sync[p])

\* IndexIsChain is not inductive: an index without cursor could hold blocks but not
\* StartBlock, on which a projector would then build.
IndexInv ==
    /\ head \in Block /\ canonical \subseteq Block /\ cursor \in Block \cup {None}
    /\ PlaceTypes
    /\ canonical # {} => Root \in canonical
    /\ IndexIsChain

\* The empty index is a chain.
LEMMA IndexInit == Init => IndexInv
<1> SUFFICES ASSUME Init PROVE IndexInv
  OBVIOUS
<1>1. Idle \in Place /\ PlaceOK(Idle)
  BY DEF Idle, Place, Step, PlaceOK
<1>2. PlaceTypes
  BY <1>1 DEF Init, PlaceTypes
<1> QED
  BY <1>2 DEF Init, IndexInv, IndexIsChain, IsChain

\* The next turn of SyncOnce's loop keeps the safe height.
LEMMA LoopPlace ==
    ASSUME NEW q \in Place, NEW n \in Nat
    PROVE  /\ [q EXCEPT !.at = "cursor", !.safe = n] \in Place
           /\ PlaceOK([q EXCEPT !.at = "cursor", !.safe = n])
<1>1. [q EXCEPT !.at = "cursor", !.safe = n] \in Place
  BY DEF Place, Step
<1>2. [q EXCEPT !.at = "cursor", !.safe = n].at = "cursor"
  BY DEF Place
<1> QED
  BY <1>1, <1>2 DEF PlaceOK

\* A fetched block that continues the cursor (SyncOnce).
LEMMA ApplyPlace ==
    ASSUME NEW q \in Place, NEW b \in Block
    PROVE  /\ [q EXCEPT !.at = "apply", !.from = None, !.block = b] \in Place
           /\ PlaceOK([q EXCEPT !.at = "apply", !.from = None, !.block = b])
<1>1. [q EXCEPT !.at = "apply", !.from = None, !.block = b] \in Place
  BY DEF Place, Step
<1>2. [q EXCEPT !.at = "apply", !.from = None, !.block = b].at = "apply"
  BY DEF Place
<1>3. [q EXCEPT !.at = "apply", !.from = None, !.block = b].block = b
  BY DEF Place
<1> QED
  BY <1>1, <1>2, <1>3 DEF PlaceOK

\* The search for the common ancestor begins at the cursor's height (commonAncestor).
LEMMA ScanPlace ==
    ASSUME NEW q \in Place, NEW n \in Nat, q.from \in Block, n >= Lowest(q.from)
    PROVE  /\ [q EXCEPT !.at = "scan", !.height = n] \in Place
           /\ PlaceOK([q EXCEPT !.at = "scan", !.height = n])
<1>1. [q EXCEPT !.at = "scan", !.height = n] \in Place
  BY DEF Place, Step
<1>2. /\ [q EXCEPT !.at = "scan", !.height = n].at = "scan"
      /\ [q EXCEPT !.at = "scan", !.height = n].height = n
  BY DEF Place
<1>3. [q EXCEPT !.at = "scan", !.height = n].from = q.from
  BY DEF Place
<1> QED
  BY <1>1, <1>2, <1>3 DEF PlaceOK

\* It goes on one block lower.
LEMMA LowerPlace ==
    ASSUME NEW q \in Place, NEW n \in Nat, q.from \in Block, n >= Lowest(q.from)
    PROVE  /\ [q EXCEPT !.at = "scan", !.height = n, !.block = None] \in Place
           /\ PlaceOK([q EXCEPT !.at = "scan", !.height = n, !.block = None])
<1>1. [q EXCEPT !.at = "scan", !.height = n, !.block = None] \in Place
  BY DEF Place, Step
<1>2. /\ [q EXCEPT !.at = "scan", !.height = n, !.block = None].at = "scan"
      /\ [q EXCEPT !.at = "scan", !.height = n, !.block = None].height = n
  BY DEF Place
<1>3. [q EXCEPT !.at = "scan", !.height = n, !.block = None].from = q.from
  BY DEF Place
<1> QED
  BY <1>1, <1>2, <1>3 DEF PlaceOK

\* It holds the canonical row while it asks the node for the same height.
LEMMA ComparePlace ==
    ASSUME NEW q \in Place, NEW b \in Block \cup {None}, q.from \in Block, q.height >= Lowest(q.from)
    PROVE  /\ [q EXCEPT !.at = "compare", !.block = b] \in Place
           /\ PlaceOK([q EXCEPT !.at = "compare", !.block = b])
<1>1. [q EXCEPT !.at = "compare", !.block = b] \in Place
  BY DEF Place, Step
<1>2. /\ [q EXCEPT !.at = "compare", !.block = b].at = "compare"
      /\ [q EXCEPT !.at = "compare", !.block = b].height = q.height
  BY DEF Place
<1>3. [q EXCEPT !.at = "compare", !.block = b].from = q.from
  BY DEF Place
<1> QED
  BY <1>1, <1>2, <1>3 DEF PlaceOK

\* The common ancestor is the height of a block.
LEMMA FoundPlace ==
    ASSUME NEW q \in Place, NEW b \in Block, Height[b] = q.height
    PROVE  /\ [q EXCEPT !.at = "rewind", !.from = None, !.block = None] \in Place
           /\ PlaceOK([q EXCEPT !.at = "rewind", !.from = None, !.block = None])
<1>1. [q EXCEPT !.at = "rewind", !.from = None, !.block = None] \in Place
  BY DEF Place, Step
<1>2. /\ [q EXCEPT !.at = "rewind", !.from = None, !.block = None].at = "rewind"
      /\ [q EXCEPT !.at = "rewind", !.from = None, !.block = None].height = q.height
  BY DEF Place
<1> QED
  BY <1>1, <1>2 DEF PlaceOK

\* The fields of a place have their types.
LEMMA FieldsTyped ==
    ASSUME NEW q \in Place
    PROVE  /\ q.at \in Step /\ q.safe \in Nat /\ q.height \in Nat
           /\ q.from \in Block \cup {None} /\ q.block \in Block \cup {None}
BY DEF Place

\* A projector that moves to a place of the right kind leaves the others alone.
LEMMA GoesTyped ==
    ASSUME PlaceTypes, NEW p \in Projector, NEW place \in Place, Goes(p, place), PlaceOK(place)
    PROVE  PlaceTypes'
<1>1. sync' \in [Projector -> Place]
  BY DEF PlaceTypes, Goes
<1>2. ASSUME NEW q \in Projector PROVE PlaceOK(sync[q])'
  <2>1. sync'[q] = sync[q] \/ sync'[q] = place
    BY DEF PlaceTypes, Goes
  <2>2. PlaceOK(sync[q])
    BY DEF PlaceTypes
  <2>3. PlaceOK(sync'[q])
    BY <2>1, <2>2, Zenon
  <2> QED
    BY <2>3 DEF PlaceOK, Lowest
<1> QED
  BY <1>1, <1>2 DEF PlaceTypes

\* A step that only reads leaves the index as it is.
LEMMA ReadsOnly ==
    ASSUME IndexInv, PlaceTypes', head' \in Block, UNCHANGED indexVars
    PROVE  IndexInv'
BY DEF IndexInv, IndexIsChain, IsChain, indexVars

\* ApplyBlock checks under the lock that the block continues the cursor.
LEMMA ApplyKeepsChain ==
    ASSUME IndexInv, NEW b \in Block, Continues(b), PlaceTypes', head' = head,
           canonical' = canonical \cup {b}, cursor' = b
    PROVE  IndexInv'
<1>1. CASE cursor = None
  <2>1. b = Root /\ canonical = {}
    BY <1>1 DEF Continues, IndexInv
  <2> QED
    BY <2>1 DEF IndexInv, IndexIsChain, IsChain
<1>2. CASE cursor # None
  <2>1. b # Root /\ Parent[b] = cursor /\ cursor \in canonical /\ Height[b] = Height[cursor] + 1
    BY <1>2 DEF Continues, IndexInv, IndexIsChain, IsChain
  <2>2. \A c \in canonical : Height[c] < Height[b]
    BY <2>1, <1>2 DEF IndexInv, IndexIsChain, IsChain
  <2>3. \A c, d \in canonical' : Height[c] = Height[d] => c = d
    BY <2>2 DEF IndexInv, IndexIsChain, IsChain
  <2>4. \A c \in canonical' : c = Root \/ Parent[c] \in canonical'
    BY <2>1 DEF IndexInv, IndexIsChain, IsChain
  <2>5. cursor' \in canonical' /\ \A c \in canonical' : Height[c] <= Height[cursor']
    BY <2>2 DEF IndexInv
  <2> QED
    BY <2>1, <2>3, <2>4, <2>5 DEF IndexInv, IndexIsChain, IsChain
<1> QED
  BY <1>1, <1>2

\* Rewind keeps a chain whatever ancestor it is given, however stale.
LEMMA RewindKeepsChain ==
    ASSUME IndexInv, NEW ancestor \in Nat, PlaceTypes', head' = head,
           canonical' = canonical \ Above(canonical, ancestor),
           cursor' = IF cursor = None THEN None ELSE CursorAt(canonical, ancestor)
    PROVE  IndexInv'
<1>1. \A b \in canonical' : b \in canonical /\ b \in Block /\ Height[b] <= ancestor
  BY DEF Above, IndexInv
<1>2. \A b \in canonical : Height[b] <= ancestor => b \in canonical'
  BY DEF Above, IndexInv
<1>3. \A b \in canonical' : b = Root \/ Parent[b] \in canonical'
  <2> SUFFICES ASSUME NEW b \in canonical', b # Root PROVE Parent[b] \in canonical'
    OBVIOUS
  <2>1. Parent[b] \in canonical /\ Height[Parent[b]] <= ancestor
    BY <1>1 DEF IndexInv, IndexIsChain, IsChain
  <2> QED
    BY <2>1, <1>2
<1>4. canonical' # {} => Root \in canonical'
  <2> SUFFICES ASSUME NEW b \in canonical' PROVE Root \in canonical'
    OBVIOUS
  <2>1. Height[b] \in Nat /\ Height[b] <= ancestor
    BY <1>1
  <2>2. Root \in canonical /\ Height[Root] <= ancestor
    BY <1>1, <2>1 DEF IndexInv
  <2> QED
    BY <2>2, <1>2
<1>5. cursor' # None => cursor' \in canonical' /\ Height[cursor'] = ancestor
  <2> SUFFICES ASSUME cursor' # None PROVE cursor' \in canonical' /\ Height[cursor'] = ancestor
    OBVIOUS
  <2> DEFINE rows == {b \in canonical : Height[b] = ancestor}
  <2>1. rows # {} /\ cursor' = CHOOSE b \in rows : TRUE
    BY DEF CursorAt
  <2>2. cursor' \in rows
    BY <2>1
  <2> QED
    BY <2>2, <1>2 DEF IndexInv
<1>6. IndexIsChain'
  BY <1>1, <1>3, <1>5 DEF IndexInv, IndexIsChain, IsChain
<1> QED
  BY <1>1, <1>4, <1>5, <1>6 DEF IndexInv

\* Every step of every process keeps the invariant: only ApplyBlock and Rewind write
\* the index, and nobody else sends a projector anywhere.
LEMMA IndexStep == IndexInv /\ [Next]_vars => IndexInv'
<1> SUFFICES ASSUME IndexInv, [Next]_vars PROVE IndexInv'
  OBVIOUS
<1>i. Idle \in Place /\ PlaceOK(Idle)
  BY DEF Idle, Place, Step, PlaceOK
<1>p. \A p \in Projector : sync[p] \in Place
  BY DEF IndexInv, PlaceTypes
<1>c. \A n \in Nat : /\ [Idle EXCEPT !.at = "cursor", !.safe = n] \in Place
                     /\ PlaceOK([Idle EXCEPT !.at = "cursor", !.safe = n])
  BY <1>i, LoopPlace
<1>s. \A p \in Projector : sync[p].safe \in Nat
  BY <1>p, FieldsTyped
<1>loops. ASSUME NEW p \in Projector, Loops(p) PROVE PlaceTypes'
  <2>1. PICK n \in Nat : n = sync[p].safe
    BY <1>s
  <2>2. Goes(p, [Idle EXCEPT !.at = "cursor", !.safe = n])
    BY <1>loops, <2>1 DEF Loops
  <2> QED
    BY <1>c, <2>2, GoesTyped DEF IndexInv
<1>1. ASSUME NEW p \in Projector, ReadHead(p) PROVE IndexInv'
  <2>1. Height[head] - (Confirmations - 1) \in Nat
    BY <1>1 DEF IndexInv, ReadHead
  <2>2. PICK n \in Nat : n = Height[head] - (Confirmations - 1)
    BY <2>1
  <2>3. Goes(p, [Idle EXCEPT !.at = "cursor", !.safe = n])
    BY <1>1, <2>2 DEF ReadHead
  <2>4. PlaceTypes'
    BY <1>c, <2>3, GoesTyped DEF IndexInv
  <2> QED
    BY <1>1, <2>4, ReadsOnly DEF ReadHead, IndexInv, nodeVars
<1>2. ASSUME NEW p \in Projector, ReadCursor(p) PROVE IndexInv'
  <2>0. PICK c \in Block \cup {None} : c = cursor
    BY DEF IndexInv
  <2>1. PICK r \in Place : r = sync[p]
    BY <1>p
  <2> DEFINE place == [r EXCEPT !.at = "fetch", !.from = c]
  <2>2. place \in Place /\ PlaceOK(place)
    <3>1. place \in Place
      BY <2>0, <2>1 DEF Place, Step
    <3>2. place.at = "fetch"
      BY <2>1 DEF Place
    <3> QED
      BY <3>1, <3>2 DEF PlaceOK
  <2>3. ReadCursor(p) => Goes(p, place) \/ Goes(p, Idle)
    BY <2>0, <2>1 DEF ReadCursor
  <2> HIDE DEF place
  <2>4. PlaceTypes'
    BY <1>2, <2>2, <2>3, <1>i, GoesTyped DEF IndexInv
  <2> QED
    BY <1>2, <2>4, ReadsOnly DEF ReadCursor, IndexInv, nodeVars
<1>3. ASSUME NEW p \in Projector, FetchBlock(p) PROVE IndexInv'
  <2>1. PICK b \in Block :
           IF sync[p].from = None \/ Parent[b] = sync[p].from
           THEN Goes(p, [sync[p] EXCEPT !.at = "apply", !.from = None, !.block = b])
           ELSE Goes(p, [sync[p] EXCEPT !.at = "scan", !.height = Height[sync[p].from]])
    BY <1>3 DEF FetchBlock, NodeBlock
  <2>2. sync[p] \in Place
    BY <1>p
  <2>3. CASE sync[p].from = None \/ Parent[b] = sync[p].from
    <3> DEFINE place == [sync[p] EXCEPT !.at = "apply", !.from = None, !.block = b]
    <3>1. Goes(p, place)
      BY <2>1, <2>3
    <3>2. place \in Place /\ PlaceOK(place)
      BY <2>2, ApplyPlace, Zenon
    <3> HIDE DEF place
    <3>3. PlaceTypes'
      BY <3>1, <3>2, GoesTyped DEF IndexInv
    <3> QED
      BY <1>3, <3>3, ReadsOnly DEF FetchBlock, IndexInv, nodeVars
  <2>4. CASE ~(sync[p].from = None \/ Parent[b] = sync[p].from)
    <3>1. sync[p].from \in Block
      BY <2>2, <2>4, FieldsTyped
    <3>2. PICK n \in Nat : n = Height[sync[p].from] /\ n >= Lowest(sync[p].from)
      BY <3>1 DEF Lowest
    <3> DEFINE place == [sync[p] EXCEPT !.at = "scan", !.height = n]
    <3>3. Goes(p, place)
      BY <2>1, <2>4, <3>2
    <3>4. place \in Place /\ PlaceOK(place)
      BY <2>2, <3>1, <3>2, ScanPlace, Zenon
    <3> HIDE DEF place
    <3>5. PlaceTypes'
      BY <3>1, <3>3, <3>4, GoesTyped DEF IndexInv
    <3> QED
      BY <1>3, <3>5, ReadsOnly DEF FetchBlock, IndexInv, nodeVars
  <2> QED
    BY <2>3, <2>4
<1>4. ASSUME NEW p \in Projector, ApplyBlock(p) PROVE IndexInv'
  <2>1. sync[p].block \in Block
    BY <1>4 DEF ApplyBlock, IndexInv, PlaceTypes, PlaceOK
  <2>2. PlaceTypes'
    BY <1>4, <1>loops DEF ApplyBlock
  <2> QED
    BY <1>4, <2>1, <2>2, ApplyKeepsChain DEF ApplyBlock, nodeVars
<1>5. ASSUME NEW p \in Projector, ApplyRefused(p) PROVE IndexInv'
  BY <1>5, <1>i, GoesTyped, ReadsOnly DEF ApplyRefused, IndexInv, nodeVars
<1>6. ASSUME NEW p \in Projector, ReadCanonical(p) PROVE IndexInv'
  <2> DEFINE rows == {b \in canonical : Height[b] = sync[p].height}
  <2> DEFINE row == IF rows = {} THEN None ELSE CHOOSE b \in rows : TRUE
  <2>1. row \in Block \cup {None}
    BY DEF IndexInv
  <2> DEFINE place == [sync[p] EXCEPT !.at = "compare", !.block = row]
  <2>2. Goes(p, place)
    BY <1>6 DEF ReadCanonical
  <2> HIDE DEF row
  <2>3. sync[p] \in Place /\ sync[p].from \in Block /\ sync[p].height >= Lowest(sync[p].from)
    BY <1>6, <1>p DEF ReadCanonical, IndexInv, PlaceTypes, PlaceOK
  <2>4. place \in Place /\ PlaceOK(place)
    BY <2>1, <2>3, ComparePlace, Zenon
  <2> HIDE DEF place
  <2>5. PlaceTypes'
    BY <2>2, <2>3, <2>4, GoesTyped DEF IndexInv
  <2> QED
    BY <1>6, <2>5, ReadsOnly DEF ReadCanonical, IndexInv, nodeVars
<1>7. ASSUME NEW p \in Projector, CompareHash(p) PROVE IndexInv'
  <2>1. sync[p] \in Place /\ PlaceOK(sync[p]) /\ sync[p].at = "compare"
    BY <1>7 DEF CompareHash, IndexInv, PlaceTypes
  <2>2. sync[p].from \in Block /\ sync[p].height >= Lowest(sync[p].from) /\ sync[p].height \in Nat
    BY <2>1, FieldsTyped DEF PlaceOK
  <2>3. PlaceTypes'
    <3>1. CASE sync[p].block \in NodeBlock(sync[p].height)
      <4> DEFINE found == [sync[p] EXCEPT !.at = "rewind", !.from = None, !.block = None]
      <4>1. PICK b \in Block : Height[b] = sync[p].height
        BY <3>1 DEF NodeBlock
      <4>2. found \in Place /\ PlaceOK(found)
        BY <2>1, <4>1, FoundPlace, Zenon
      <4>3. Goes(p, found)
        BY <1>7, <3>1 DEF CompareHash
      <4> HIDE DEF found
      <4> QED
        BY <4>2, <4>3, GoesTyped DEF IndexInv
    <3>2. CASE sync[p].block \notin NodeBlock(sync[p].height) /\ sync[p].height = Lowest(sync[p].from)
      BY <1>7, <3>2, <1>i, GoesTyped DEF CompareHash, IndexInv
    <3>3. CASE sync[p].block \notin NodeBlock(sync[p].height) /\ sync[p].height # Lowest(sync[p].from)
      <4>1. PICK n \in Nat : n = sync[p].height - 1 /\ n >= Lowest(sync[p].from)
        BY <2>2, <3>3 DEF Lowest
      <4> DEFINE lower == [sync[p] EXCEPT !.at = "scan", !.height = n, !.block = None]
      <4>2. lower \in Place /\ PlaceOK(lower)
        BY <2>1, <2>2, <4>1, LowerPlace, Zenon
      <4>3. Goes(p, lower)
        BY <1>7, <3>3, <4>1 DEF CompareHash
      <4> HIDE DEF lower
      <4> QED
        BY <4>2, <4>3, GoesTyped DEF IndexInv
    <3> QED
      BY <3>1, <3>2, <3>3
  <2> QED
    BY <1>7, <2>3, ReadsOnly DEF CompareHash, IndexInv, nodeVars
<1>8. ASSUME NEW p \in Projector, Rewind(p) PROVE IndexInv'
  <2>1. sync[p].height \in Nat
    BY DEF IndexInv, PlaceTypes, Place
  <2>2. PlaceTypes'
    BY <1>8, <1>loops, <1>i, GoesTyped DEF Rewind, IndexInv
  <2>3. CASE Rewound(sync[p].height).ok
    BY <1>8, <2>1, <2>2, <2>3, RewindKeepsChain DEF Rewind, nodeVars
  <2>4. CASE ~Rewound(sync[p].height).ok
    BY <1>8, <2>2, <2>4, ReadsOnly DEF Rewind, IndexInv, nodeVars
  <2> QED
    BY <2>3, <2>4
<1>9. ASSUME NEW b \in Block, Mine(b) \/ Reorganise(b) PROVE IndexInv'
  BY <1>9, ReadsOnly DEF Mine, Reorganise, IndexInv, PlaceTypes
<1>10. ASSUME UNCHANGED <<nodeVars, indexVars, sync>> PROVE IndexInv'
  BY <1>10, ReadsOnly DEF IndexInv, PlaceTypes, nodeVars
<1>11. ASSUME NEW tx \in Tx, Submit(tx) \/ ReconcileFundingAttempt(tx) PROVE IndexInv'
  BY <1>11, <1>10 DEF Submit, ReconcileFundingAttempt
<1>12. ASSUME Prepare \/ DeadlinePasses \/ AwaitSelection \/ Reserve \/ VerifySelection \/ Confirm
       PROVE  IndexInv'
  BY <1>12, <1>10 DEF Prepare, DeadlinePasses, AwaitSelection, Reserve, VerifySelection, Confirm
<1>13. CASE UNCHANGED vars
  BY <1>13, <1>10 DEF vars
<1>14. ASSUME NEW p \in Projector, SyncOnce(p) PROVE IndexInv'
  BY <1>14, <1>1, <1>2, <1>3, <1>4, <1>5, <1>6, <1>7, <1>8 DEF SyncOnce
<1> QED
  BY <1>9, <1>11, <1>12, <1>13, <1>14 DEF Next

\* Whatever the projectors append and remove, in whatever interleaving and on
\* however stale reads, the canonical index is one chain from StartBlock on and
\* the cursor, while there is one, its tip (ApplyBlock, Rewind).
THEOREM IndexStaysChain == Spec => []IndexIsChain
<1>1. IndexInv => IndexIsChain
  BY DEF IndexInv
<1> QED
  BY IndexInit, IndexStep, <1>1, PTL DEF Spec

HIDE TreeTypes

-----------------------------------------------------------------------------
(* The loop over a block's events. *)

\* A set that holds 0 and, with every number below N, the next one, holds 0..N.
LEMMA CountUp ==
    ASSUME NEW N \in Nat, NEW S, 0 \in S, \A n \in 1..N : n - 1 \in S => n \in S
    PROVE  0..N \subseteq S
<1> SUFFICES ASSUME NEW m \in 0..N, m \notin S PROVE FALSE
  OBVIOUS
<1> DEFINE C == {n \in 0..N : n \notin S}
           T == {0..n : n \in C}
<1>1. T \subseteq FiniteSubsetsOf(0..N)
  <2> SUFFICES ASSUME NEW n \in C PROVE 0..n \in FiniteSubsetsOf(0..N)
    OBVIOUS
  <2>1. IsFiniteSet(0..n)
    BY FS_Interval
  <2>2. 0..n \subseteq 0..N
    OBVIOUS
  <2> QED
    BY <2>1, <2>2 DEF FiniteSubsetsOf
<1>2. T # {}
  OBVIOUS
<1>3. IsWellFoundedOn(StrictSubsetOrdering(0..N), FiniteSubsetsOf(0..N))
  BY FS_StrictSubsetOrderingWellFounded
<1>4. PICK x \in T : \A y \in T : ~(<<y, x>> \in StrictSubsetOrdering(0..N))
  <2> HIDE DEF T
  <2> QED
    BY <1>1, <1>2, <1>3, WFMin
<1>5. PICK k \in C : x = 0..k
  BY <1>4
<1>6. k \in 1..N /\ k - 1 \in C
  OBVIOUS
<1>7. 0..(k - 1) \in T
  BY <1>6
<1>8. /\ 0..(k - 1) \in SUBSET (0..N) /\ 0..k \in SUBSET (0..N)
      /\ 0..(k - 1) \subseteq 0..k /\ 0..(k - 1) # 0..k
  <2>1. k \in 0..k /\ k \notin 0..(k - 1)
    BY <1>6
  <2> QED
    BY <1>6, <2>1
<1>9. <<0..(k - 1), x>> \in StrictSubsetOrdering(0..N)
  BY <1>5, <1>8 DEF StrictSubsetOrdering
<1> QED
  BY <1>4, <1>7, <1>9

\* One event of a block, unless an earlier one failed.
Projected(x, b, n, l) ==
    IF x.ok THEN ProjectSettlementEvent(x, b, EventsIn[b][n], l) ELSE x

\* What the loop over a block's events keeps: Q[n] holds the database after n events.
LEMMA EventsKeep ==
    ASSUME NEW d, NEW b \in Block, NEW l, NEW N \in Nat, N = Len(EventsIn[b]),
           NEW Q, d \in Q[0],
           \A n \in 1..N : \A x \in Q[n - 1] : Projected(x, b, n, l) \in Q[n]
    PROVE  ProjectEvents(d, b, l) \in Q[N]
<1> DEFINE Runs(g, m) == g = [n \in 0..m |-> IF n = 0 THEN d ELSE Projected(g[n - 1], b, n, l)]
           G == {m \in 0..N : \E g : Runs(g, m)}
<1>1. 0 \in G
  <2>1. PICK g : g = [n \in 0..0 |-> d]
    OBVIOUS
  <2>2. \A n \in 0..0 : d = IF n = 0 THEN d ELSE Projected(g[n - 1], b, n, l)
    OBVIOUS
  <2>3. [n \in 0..0 |-> d] = [n \in 0..0 |-> IF n = 0 THEN d ELSE Projected(g[n - 1], b, n, l)]
    BY <2>2, Zenon
  <2>4. Runs(g, 0)
    BY <2>1, <2>3, Zenon
  <2>5. 0 \in 0..N
    OBVIOUS
  <2> QED
    BY <2>4, <2>5
<1>2. ASSUME NEW m \in 1..N, m - 1 \in G PROVE m \in G
  <2>1. PICK g : Runs(g, m - 1)
    BY <1>2
  <2> DEFINE h == [n \in 0..m |-> IF n = m THEN Projected(g[m - 1], b, m, l) ELSE g[n]]
  <2>2. \A n \in 0..(m - 1) : h[n] = g[n]
    OBVIOUS
  <2>3. ASSUME NEW n \in 0..m
        PROVE  h[n] = IF n = 0 THEN d ELSE Projected(h[n - 1], b, n, l)
    <3>1. CASE n = m
      BY <2>2, <3>1
    <3>2. CASE n # m
      <4>1. n \in 0..(m - 1) /\ h[n] = g[n] /\ (n # 0 => h[n - 1] = g[n - 1])
        BY <2>2, <3>2
      <4>2. g[n] = IF n = 0 THEN d ELSE Projected(g[n - 1], b, n, l)
        BY <2>1, <4>1
      <4> QED
        BY <4>1, <4>2
    <3> QED
      BY <3>1, <3>2
  <2>4. h = [n \in 0..m |-> h[n]]
    OBVIOUS
  <2> HIDE DEF h
  <2>5. [n \in 0..m |-> h[n]]
          = [n \in 0..m |-> IF n = 0 THEN d ELSE Projected(h[n - 1], b, n, l)]
    BY <2>3, Zenon
  <2>6. Runs(h, m)
    BY <2>4, <2>5, Zenon
  <2> QED
    BY <2>6
<1>3. N \in G
  <2>1. \A m \in 1..N : m - 1 \in G => m \in G
    BY <1>2
  <2> HIDE DEF G
  <2>2. 0..N \subseteq G
    BY <1>1, <2>1, CountUp
  <2> QED
    BY <2>2
<1> DEFINE after == CHOOSE g : Runs(g, N)
<1>4. Runs(after, N)
  BY <1>3
<1>5. ProjectEvents(d, b, l) = after[N]
  BY DEF ProjectEvents, Projected
<1> HIDE DEF after
<1> DEFINE S == {n \in 0..N : after[n] \in Q[n]}
<1>6. 0 \in S
  BY <1>4
<1>7. ASSUME NEW n \in 1..N, n - 1 \in S PROVE n \in S
  <2>0. n \in 0..N /\ n # 0
    OBVIOUS
  <2>1. after[n] = Projected(after[n - 1], b, n, l)
    BY <1>4, <2>0
  <2> QED
    BY <1>7, <2>1
<1>8. N \in S
  <2>1. \A n \in 1..N : n - 1 \in S => n \in S
    BY <1>7
  <2> HIDE DEF S
  <2>2. 0..N \subseteq S
    BY <1>6, <2>1, CountUp
  <2> QED
    BY <2>2
<1> QED
  BY <1>5, <1>8

-----------------------------------------------------------------------------
(* What the rows say of funding, block by block. *)

\* Attempts d counts as failed have evidence in a block of F.
Failures(d, F) ==
    \A tx \in Tx : d.attempt[tx] = "observed_failed" =>
        \E b \in F : FailedIn[b] = tx /\ <<tx, b>> \in d.evidence

\* The same attempts are known.
SameKnown(d, e) == \A tx \in Tx : e.attempt[tx] = "absent" <=> d.attempt[tx] = "absent"

\* The same deposit is counted.
SameLive(d, e) == e.live = d.live

\* The deposit is counted while its block is not among those taken back.
LiveUnless(d, e, B) == e.live = IF d.live \in B THEN None ELSE d.live

\* The deposit counted is that of block b, if none was counted before.
LiveSince(d, e, b) == e.live = d.live \/ (d.live = None /\ e.live = b /\ Has(b, "created"))

\* The same journals, reversed alike.
SameJournals(d, e) == e.journals = d.journals /\ e.reversed = d.reversed

\* The journals of the blocks B are reversed.
JournalsUndone(d, e, B) ==
    /\ e.journals = d.journals
    /\ e.reversed = d.reversed \cup {j \in d.journals \ d.reversed : j[2] \in B}

\* What the task's rows d say of funding, when the blocks C are canonical.
Supported(d, C) ==
    /\ d \in Database
    /\ d.live # None => /\ d.live \in C /\ d.intent = "confirmed" /\ d.intentTx \in Tx
                        /\ Creates(d.live, d.intentTx)
                        /\ d.attempt[d.intentTx] = "canonical_confirmed"
    /\ \A tx \in Tx : d.attempt[tx] = "canonical_confirmed" => d.live # None /\ Creates(d.live, tx)
    /\ Failures(d, C)
    /\ d.intent = "failed" =>
          \A tx \in Tx : d.attempt[tx] \notin {"submitted", "canonical_confirmed"}
    /\ d.task \in {"escrowed", "awaiting_selection", "assigned"} => d.live # None

\* Every deposit of C is counted whose attempt is known and not in U.
Counted(d, C, U) ==
    \A b \in C, tx \in Tx :
        Creates(b, tx) /\ d.attempt[tx] # "absent" /\ tx \notin U => d.live = b

\* A block carries one deposit at most.
LEMMA OneCreation ==
    ASSUME NEW b \in Block, NEW t \in Tx, NEW u \in Tx, Creates(b, t), Creates(b, u)
    PROVE  t = u
<1>1. PICK i \in 1..Len(EventsIn[b]) : EventsIn[b][i] = [type |-> "created", tx |-> t]
  BY ContentTypes DEF Creates, ToSet
<1>2. PICK j \in 1..Len(EventsIn[b]) : EventsIn[b][j] = [type |-> "created", tx |-> u]
  BY ContentTypes DEF Creates, ToSet
<1>3. [type |-> "created", tx |-> t].type = "created"
  OBVIOUS
<1>4. Len(EventsIn[b]) = 1
  BY <1>3, FundingAlone DEF Creates
<1>5. i = j
  BY <1>4
<1>6. [type |-> "created", tx |-> t].tx = [type |-> "created", tx |-> u].tx
  BY <1>1, <1>2, <1>5, Zenon
<1> QED
  BY <1>6

\* The rows of a recorded failure are well formed.
LEMMA FailureTyped ==
    ASSUME NEW d \in Database, NEW f \in [Tx -> AttemptState],
           NEW v \in SUBSET (Tx \X Block), NEW w \in IntentStatus
    PROVE  [d EXCEPT !.attempt = f, !.evidence = v, !.intent = w] \in Database
  BY Zenon DEF Database

\* A failure is observed in a canonical block (projectFundingTransaction).
LEMMA FailureSupported ==
    ASSUME NEW C, NEW d, Supported(d, C), d.ok, NEW b \in C, C \subseteq Block, NEW tx \in Tx, FailedIn[b] = tx
    PROVE  /\ Supported(ProjectFundingTransaction(d, b, tx), C) 
           /\ ProjectFundingTransaction(d, b, tx).ok
           /\ ProjectFundingTransaction(d, b, tx).live = d.live
           /\ SameKnown(d, ProjectFundingTransaction(d, b, tx))
           /\ ProjectFundingTransaction(d, b, tx).journals = d.journals
           /\ ProjectFundingTransaction(d, b, tx).reversed = d.reversed
<1> DEFINE e == ProjectFundingTransaction(d, b, tx)
<1>1. CASE d.attempt[tx] \in {"absent", "canonical_confirmed", "observed_failed"}
  <2>1. e = d
    BY <1>1 DEF ProjectFundingTransaction
  <2>2. SameKnown(d, d)
    BY DEF SameKnown
  <2> QED
    BY <2>1, <2>2, Zenon
<1>2. CASE d.attempt[tx] \notin {"absent", "canonical_confirmed", "observed_failed"}
  <2>0. d \in Database
    BY DEF Supported
  <2>1. e = [d EXCEPT !.attempt[tx] = "observed_failed",
                   !.evidence = @ \cup {<<tx, b>>},
                   !.intent = IF @ = "confirmed" \/ AnotherLive(d, tx) THEN @ ELSE "failed"]
    BY <1>2 DEF ProjectFundingTransaction
  <2>2. /\ e.attempt = [d.attempt EXCEPT ![tx] = "observed_failed"]
        /\ e.evidence = d.evidence \cup {<<tx, b>>}
        /\ e.intent = IF d.intent = "confirmed" \/ AnotherLive(d, tx) THEN d.intent ELSE "failed"
        /\ e.intentTx = d.intentTx /\ e.live = d.live /\ e.task = d.task /\ e.ok = d.ok
        /\ e.journals = d.journals /\ e.reversed = d.reversed
    BY <2>0, <2>1 DEF Database
  <2>3. e \in Database
    <3>1. PICK f \in [Tx -> AttemptState] : f = [d.attempt EXCEPT ![tx] = "observed_failed"]
      BY <2>0 DEF Database, AttemptState
    <3>2. PICK v \in SUBSET (Tx \X Block) : v = d.evidence \cup {<<tx, b>>}
      <4>1. d.evidence \cup {<<tx, b>>} \in SUBSET (Tx \X Block)
        BY <2>0 DEF Database
      <4> QED
        BY <4>1, Zenon
    <3>3. PICK w \in IntentStatus :
             w = IF d.intent = "confirmed" \/ AnotherLive(d, tx) THEN d.intent ELSE "failed"
      BY <2>0 DEF Database, IntentStatus
    <3>4. [d EXCEPT !.attempt = f, !.evidence = v, !.intent = w] \in Database
      BY <2>0, FailureTyped, Zenon
    <3> QED
      BY <2>1, <3>1, <3>2, <3>3, <3>4, Zenon
  <2> HIDE DEF e
  <2>4. d.attempt \in [Tx -> AttemptState]
    BY <2>0 DEF Database
  <2>5. e.attempt[tx] = "observed_failed" /\ \A t \in Tx \ {tx} : e.attempt[t] = d.attempt[t]
    BY <2>2, <2>4
  <2>6. d.live # None => d.intentTx # tx
    BY <1>2 DEF Supported
  <2>7. SameKnown(d, e)
    BY <2>5, <1>2 DEF SameKnown
  <2>8. e.intent = "failed" => \A t \in Tx : e.attempt[t] \notin {"submitted", "canonical_confirmed"}
    <3> SUFFICES ASSUME e.intent = "failed", NEW t \in Tx PROVE e.attempt[t] \notin {"submitted", "canonical_confirmed"}
      OBVIOUS
    <3>1. CASE t = tx
      BY <3>1, <2>5
    <3>2. CASE t # tx
      BY <3>2, <2>5, <2>2 DEF AnotherLive, Supported
    <3> QED
      BY <3>1, <3>2
  <2>9. Failures(e, C)
    <3> SUFFICES ASSUME NEW t \in Tx, e.attempt[t] = "observed_failed"
                 PROVE  \E c \in C : FailedIn[c] = t /\ <<t, c>> \in e.evidence
      BY DEF Failures
    <3>1. CASE t = tx
      BY <3>1, <2>2
    <3>2. CASE t # tx
      BY <3>2, <2>5, <2>2 DEF Supported, Failures
    <3> QED
      BY <3>1, <3>2
  <2>10. \A t \in Tx : e.attempt[t] = "canonical_confirmed" => e.live # None /\ Creates(e.live, t)
    BY <2>5, <2>2 DEF Supported
  <2>11. e.live # None => /\ e.live \in C /\ e.intent = "confirmed" /\ e.intentTx \in Tx
                        /\ Creates(e.live, e.intentTx)
                        /\ e.attempt[e.intentTx] = "canonical_confirmed"
    BY <2>2, <2>5, <2>6 DEF Supported
  <2>12. e.task \in {"escrowed", "awaiting_selection", "assigned"} => e.live # None
    BY <2>2 DEF Supported
  <2>13. Supported(e, C)
    BY <2>3, <2>8, <2>9, <2>10, <2>11, <2>12 DEF Supported
  <2> QED
    BY <2>2, <2>7, <2>13 DEF e
<1> QED
  BY <1>1, <1>2

\* The rows of a recorded deposit are well formed.
LEMMA FundTyped ==
    ASSUME NEW d \in Database, NEW f \in [Tx -> AttemptState], NEW w \in IntentStatus,
           NEW tx \in Tx, NEW b \in Block, NEW a \in SUBSET Account, NEW s \in TaskStatus
    PROVE  [d EXCEPT !.attempt = f, !.intent = w, !.intentTx = tx, !.live = b,
                     !.accounts = a, !.task = s] \in Database
  BY Zenon DEF Database

\* A deposit is counted once, and the attempt, the intent and the task say so.
LEMMA FundSupported ==
    ASSUME NEW C, NEW d, Supported(d, C), d.ok, NEW b \in C, C \subseteq Block, NEW tx \in Tx, Creates(b, tx),
           NEW l, Fund(d, b, tx, l).ok
    PROVE  /\ Supported(Fund(d, b, tx, l), C)
           /\ \/ Fund(d, b, tx, l) = d /\ (d.attempt[tx] = "absent" \/ d.live = b)
              \/ d.live = None /\ d.attempt[tx] # "absent" /\ Fund(d, b, tx, l).live = b
           /\ SameKnown(d, Fund(d, b, tx, l))
           /\ Fund(d, b, tx, l).journals = d.journals /\ Fund(d, b, tx, l).reversed = d.reversed
<1> DEFINE e == Fund(d, b, tx, l)
<1>0. d \in Database
  BY DEF Supported
<1>1. CASE d.attempt[tx] = "absent" \/ d.live = b
  <2>1. e = d
    BY <1>1 DEF Fund
  <2>2. SameKnown(d, d)
    BY DEF SameKnown
  <2> QED
    BY <1>1, <2>1, <2>2, Zenon
<1>2. CASE ~(d.attempt[tx] = "absent" \/ d.live = b)
  <2>1. ~(d.live # None \/ d.task \notin Fundable)
    <3>1. SUFFICES ASSUME d.live # None \/ d.task \notin Fundable PROVE FALSE
      OBVIOUS
    <3>2. e = [d EXCEPT !.ok = FALSE]
      BY <1>2, <3>1 DEF Fund, Fails
    <3>3. e.ok = FALSE
      BY <3>2, <1>0 DEF Database
    <3> QED
      BY <3>3
  <2> DEFINE g == [t \in Tx |-> IF t = tx THEN "canonical_confirmed"
                               ELSE IF d.attempt[t] \in Replaceable THEN "superseded" ELSE d.attempt[t]]
  <2>2. e = [d EXCEPT !.attempt = g,
                   !.intent = "confirmed",
                   !.intentTx = tx,
                   !.live = b,
                   !.accounts = @ \cup {"formal", "control_asset"},
                   !.task = FundedStatus(d, l)]
    BY <1>2, <2>1 DEF Fund
  <2>3. d.attempt \in [Tx -> AttemptState]
    BY <1>0 DEF Database
  <2>4. g \in [Tx -> AttemptState]
    BY <2>3 DEF AttemptState
  <2>5. g[tx] = "canonical_confirmed" /\ \A t \in Tx \ {tx} : g[t] = IF d.attempt[t] \in Replaceable THEN "superseded" ELSE d.attempt[t]
    OBVIOUS
  <2> HIDE DEF g
  <2>6. d.accounts \cup {"formal", "control_asset"} \in SUBSET Account
    BY <1>0 DEF Database, Account
  <2>7. FundedStatus(d, l) \in TaskStatus
    BY <1>0 DEF FundedStatus, Database, TaskStatus
  <2>8. e \in Database
    <3>1. "confirmed" \in IntentStatus
      BY DEF IntentStatus
    <3>2. d \in Database /\ b \in Block
      BY <1>0
    <3>3. PICK a \in SUBSET Account : a = d.accounts \cup {"formal", "control_asset"}
      BY <2>6
    <3>4. PICK s \in TaskStatus : s = FundedStatus(d, l)
      BY <2>7
    <3>5. [d EXCEPT !.attempt = g, !.intent = "confirmed", !.intentTx = tx, !.live = b,
                    !.accounts = a, !.task = s] \in Database
      BY <2>4, <3>1, <3>2, FundTyped, Zenon
    <3> QED
      BY <2>2, <3>3, <3>4, <3>5, Zenon
  <2>9. e.attempt = g /\ e.intent = "confirmed" /\ e.intentTx = tx /\ e.live = b /\ e.evidence = d.evidence
        /\ e.journals = d.journals /\ e.reversed = d.reversed
    BY <1>0, <2>2 DEF Database
  <2> HIDE DEF e
  <2>10. SameKnown(d, e)
    BY <2>5, <2>9, <1>2 DEF Replaceable, SameKnown
  <2>11. b # None
    BY ContentTypes
  <2>12. \A t \in Tx \ {tx} : d.attempt[t] # "canonical_confirmed"
    BY <2>1 DEF Supported
  <2>13. \A t \in Tx : e.attempt[t] = "canonical_confirmed" => t = tx
    BY <2>5, <2>9, <2>12
  <2>14. Failures(e, C)
    BY <2>5, <2>9 DEF Replaceable, Failures
  <2>15. Supported(e, C)
    BY <2>8, <2>9, <2>5, <2>11, <2>13, <2>14 DEF Supported
  <2> QED
    BY <1>2, <2>1, <2>9, <2>10, <2>15 DEF e
<1> QED
  BY <1>1, <1>2

\* What the settlement events leave alone (EarningsAccrued, EarningsWithdrawn, FundsRefunded).
FundingKept(d, x) ==
    /\ x \in Database
    /\ x.attempt = d.attempt /\ x.evidence = d.evidence /\ x.intent = d.intent
    /\ x.intentTx = d.intentTx /\ x.live = d.live /\ x.reversed = d.reversed
    /\ x.task \in {d.task, "settled", "refunded", "chain_reorg_pending"}

\* Settlement does not touch what the rows say of funding.
LEMMA SettlementSupported ==
    ASSUME NEW C, NEW U, NEW d, NEW x, Supported(d, C), FundingKept(d, x)
    PROVE  /\ Supported(x, C)
           /\ Counted(d, C, U) => Counted(x, C, U)
<1>1. Supported(x, C)
  BY DEF Supported, FundingKept, Failures
<1>2. Counted(d, C, U) => Counted(x, C, U)
  BY DEF Counted, FundingKept
<1> QED
  BY <1>1, <1>2

\* Failures taken back with their blocks (orphanFailedFundingTransactions).
LEMMA FailuresRetracted ==
    ASSUME NEW C, NEW B, NEW d, Supported(d, C),
           NEW e, e = OrphanFailedFundingTransactions(d, B), NEW F, F = C \ B
    PROVE  /\ Supported(e, C)
           /\ SameKnown(d, e)
           /\ Failures(e, F)
           /\ SameLive(d, e) /\ SameJournals(d, e)
<1> DEFINE orphaned == {tx \in Tx : /\ d.attempt[tx] = "observed_failed"
                                    /\ \E b \in B : <<tx, b>> \in d.evidence}
           g == [t \in Tx |-> IF t \in orphaned THEN "canonical_orphaned" ELSE d.attempt[t]]
<1>0. d \in Database /\ d.attempt \in [Tx -> AttemptState]
  BY DEF Supported, Database
<1>1. e = [d EXCEPT !.attempt = g,
                    !.intent = IF d.intent = "failed" /\ d.intentTx \in orphaned THEN "orphaned" ELSE d.intent]
  BY <1>0 DEF OrphanFailedFundingTransactions, Database
<1>2. \A t \in Tx : g[t] = IF t \in orphaned THEN "canonical_orphaned" ELSE d.attempt[t]
  OBVIOUS
<1>3. g \in [Tx -> AttemptState]
  BY <1>0 DEF AttemptState
<1>4. \A t \in orphaned : d.attempt[t] = "observed_failed"
  OBVIOUS
<1>5. \A t \in Tx : d.attempt[t] = "observed_failed" /\ t \notin orphaned => \A b \in B : <<t, b>> \notin d.evidence
  OBVIOUS
<1> HIDE DEF g, orphaned
<1>6. e \in Database
  BY <1>0, <1>1, <1>3 DEF Database, IntentStatus
<1>7. /\ e.attempt = g
      /\ e.intent = IF d.intent = "failed" /\ d.intentTx \in orphaned THEN "orphaned" ELSE d.intent
      /\ e.evidence = d.evidence /\ e.intentTx = d.intentTx /\ e.live = d.live /\ e.task = d.task
      /\ e.ok = d.ok /\ e.journals = d.journals /\ e.reversed = d.reversed
  BY <1>0, <1>1 DEF Database
<1>8. \A t \in Tx : e.attempt[t] = d.attempt[t]
                    \/ (d.attempt[t] = "observed_failed" /\ e.attempt[t] = "canonical_orphaned")
  BY <1>2, <1>4, <1>7
<1>9. Failures(e, C \ B)
  <2> SUFFICES ASSUME NEW tx \in Tx, e.attempt[tx] = "observed_failed"
               PROVE  \E b \in C \ B : FailedIn[b] = tx /\ <<tx, b>> \in e.evidence
    BY DEF Failures
  <2>1. d.attempt[tx] = "observed_failed" /\ tx \notin orphaned
    BY <1>2, <1>7, <1>8
  <2>2. PICK b \in C : FailedIn[b] = tx /\ <<tx, b>> \in d.evidence
    BY <2>1 DEF Supported, Failures
  <2> QED
    BY <2>1, <2>2, <1>5, <1>7
<1>10. SameKnown(d, e)
  BY <1>8 DEF SameKnown
<1>11. e.live # None => /\ e.live \in C /\ e.intent = "confirmed" /\ e.intentTx \in Tx
                        /\ Creates(e.live, e.intentTx)
                        /\ e.attempt[e.intentTx] = "canonical_confirmed"
  BY <1>7, <1>8 DEF Supported
<1>12. \A tx \in Tx : e.attempt[tx] = "canonical_confirmed" => e.live # None /\ Creates(e.live, tx)
  BY <1>7, <1>8 DEF Supported
<1>13. e.intent = "failed" =>
          \A tx \in Tx : e.attempt[tx] \notin {"submitted", "canonical_confirmed"}
  BY <1>7, <1>8 DEF Supported
<1>14. e.task \in {"escrowed", "awaiting_selection", "assigned"} => e.live # None
  BY <1>7 DEF Supported
<1>15. Failures(e, C)
  BY <1>9 DEF Failures
<1>16. Supported(e, C)
  BY <1>6, <1>11, <1>12, <1>13, <1>14, <1>15 DEF Supported
<1> QED
  BY <1>7, <1>9, <1>10, <1>16 DEF SameLive, SameJournals

\* Journals are reversed with their blocks, and the task waits for the reorganisation to end.
LEMMA JournalsReversed ==
    ASSUME NEW B, NEW d \in Database,
           NEW e, e = ReverseJournals(d, B)
    PROVE  /\ e \in Database
           /\ e.attempt = d.attempt /\ e.evidence = d.evidence /\ e.intent = d.intent
           /\ e.intentTx = d.intentTx /\ e.live = d.live /\ e.journals = d.journals
           /\ e.reversed = d.reversed \cup {j \in d.journals \ d.reversed : j[2] \in B}
           /\ e.task \in {d.task, "chain_reorg_pending"} /\ e.ok = d.ok
<1> DEFINE undone == {j \in d.journals \ d.reversed : j[2] \in B}
           status == IF \E j \in undone : j[1] \in {"release", "refund"} THEN "chain_reorg_pending" ELSE d.task
<1>1. e = [d EXCEPT !.reversed = d.reversed \cup undone, !.task = status]
  BY DEF ReverseJournals, Database
<1>2. undone \subseteq JournalType \X Block /\ status \in {d.task, "chain_reorg_pending"}
  BY DEF Database
<1> HIDE DEF status
<1>3. e \in Database
  <2>1. d.reversed \cup undone \in SUBSET (JournalType \X Block)
    BY <1>2 DEF Database
  <2>2. status \in TaskStatus
    BY <1>2 DEF Database, TaskStatus
  <2> HIDE DEF undone
  <2> QED
    BY <1>1, <2>1, <2>2 DEF Database
<1>4. /\ e.attempt = d.attempt /\ e.evidence = d.evidence /\ e.intent = d.intent
      /\ e.intentTx = d.intentTx /\ e.live = d.live /\ e.journals = d.journals
      /\ e.task = status /\ e.ok = d.ok
  BY <1>1 DEF Database
<1>5. e.reversed = d.reversed \cup undone
  <2> HIDE DEF undone
  <2> QED
    BY <1>1 DEF Database
<1> QED
  BY <1>2, <1>3, <1>4, <1>5

\* An assignment is orphaned with the selection it rests on.
LEMMA AssignmentOrphaned ==
    ASSUME NEW B, NEW d \in Database,
           NEW e, e = OrphanAssignment(d, B)
    PROVE  /\ e \in Database
           /\ e.attempt = d.attempt /\ e.evidence = d.evidence /\ e.intent = d.intent
           /\ e.intentTx = d.intentTx /\ e.live = d.live /\ e.journals = d.journals
           /\ e.reversed = d.reversed
           /\ e.task \in {d.task, "chain_reorg_pending"} /\ e.ok = d.ok
<1>1. CASE d.assignment # "active" \/ ~\E b \in B : Has(b, "selected")
  BY <1>1 DEF OrphanAssignment
<1>2. CASE ~(d.assignment # "active" \/ ~\E b \in B : Has(b, "selected"))
  <2> DEFINE res == IF d.reservation = "confirmed" THEN "orphaned" ELSE d.reservation
  <2>1. e = [d EXCEPT !.assignment = "orphaned", !.reservation = res, !.task = "chain_reorg_pending"]
    BY <1>2 DEF OrphanAssignment, Database
  <2>2. res \in {"none", "reserved", "confirmed", "orphaned"}
    BY DEF Database
  <2> HIDE DEF res
  <2>3. e \in Database
    BY <2>1, <2>2 DEF Database, TaskStatus
  <2>4. /\ e.attempt = d.attempt /\ e.evidence = d.evidence /\ e.intent = d.intent
        /\ e.intentTx = d.intentTx /\ e.live = d.live /\ e.journals = d.journals
        /\ e.reversed = d.reversed /\ e.task = "chain_reorg_pending" /\ e.ok = d.ok
    BY <2>1 DEF Database
  <2> QED
    BY <2>3, <2>4
<1> QED
  BY <1>1, <1>2

\* With the deposit of b the escrow would hold the whole budget.
Affords(e, b) ==
    \E x : /\ x.live = b /\ x.journals = e.journals /\ x.reversed = e.reversed
          /\ EscrowBalance(x) >= Budget

\* The deposit is no longer counted when its block is taken back (reverseSettlementBlock).
LEMMA FundingReversed ==
    ASSUME NEW C, C \subseteq Block, NEW B, B \subseteq Block, NEW d, Supported(d, C),
           NEW F, F = C \ B, Failures(d, F),
           NEW e, e = ReverseFunding(d, B)
    PROVE  /\ Supported(e, F)
           /\ SameKnown(d, e)
           /\ LiveUnless(d, e, B)
           /\ SameJournals(d, e)
           /\ e.ok /\ d.live \in B => Affords(e, d.live)
<1>0. d \in Database /\ d.attempt \in [Tx -> AttemptState]
  BY DEF Supported, Database
<1>1. CASE d.live \notin B
  <2>1. e = d
    BY <1>1 DEF ReverseFunding
  <2>2. Supported(d, F)
    BY <1>1 DEF Supported
  <2>4. d.live = (IF d.live \in B THEN None ELSE d.live) /\ SameKnown(d, d)
    BY <1>1 DEF SameKnown
  <2>5. /\ Supported(e, F) /\ SameKnown(d, e)
        /\ e.live = IF d.live \in B THEN None ELSE d.live
    BY <2>1, <2>2, <2>4, Zenon
  <2> QED
    BY <1>1, <2>1, <2>5 DEF SameJournals, LiveUnless
<1>2. CASE d.live \in B
  <2> DEFINE g == [t \in Tx |-> IF Creates(d.live, t) THEN "canonical_orphaned" ELSE d.attempt[t]]
             int == IF d.intent = "confirmed" THEN "orphaned" ELSE d.intent
             status == IF d.task \in {"pending_escrow", "escrowed", "funding_refund_pending"}
                       THEN "pending_escrow" ELSE "chain_reorg_pending"
             fine == d.ok /\ EscrowBalance(d) >= Budget
  <2>1. e = [d EXCEPT !.live = None, !.attempt = g, !.intent = int, !.task = status, !.ok = fine]
    BY <1>2, <1>0 DEF ReverseFunding, Database
  <2>2. g \in [Tx -> AttemptState] /\ \A t \in Tx : g[t] = IF Creates(d.live, t) THEN "canonical_orphaned" ELSE d.attempt[t]
    BY <1>0 DEF AttemptState
  <2>3. int \in IntentStatus
    BY <1>0 DEF Database, IntentStatus
  <2>4. status \in TaskStatus /\ status \in {"pending_escrow", "chain_reorg_pending"}
    BY DEF TaskStatus
  <2>5. fine \in BOOLEAN
    OBVIOUS
  <2>6. int = "failed" => d.intent = "failed"
    OBVIOUS
  <2> HIDE DEF g, int, status, fine
  <2>8. e \in Database
    BY <1>0, <2>1, <2>2, <2>3, <2>4, <2>5, Zenon DEF Database
  <2>9. /\ e.live = None /\ e.attempt = g /\ e.intent = int /\ e.task = status
        /\ e.evidence = d.evidence /\ e.journals = d.journals /\ e.reversed = d.reversed
    BY <1>0, <2>1 DEF Database
  <2>10. e.ok = fine
    BY <1>0, <2>1 DEF Database
  <2>11. e.ok => EscrowBalance(d) >= Budget
    BY <2>10 DEF fine
  <2>11a. e.ok => Affords(e, d.live)
    BY <2>9, <2>11 DEF Affords
  <2>12. \A t \in Tx : e.attempt[t] = "absent" => d.attempt[t] = "absent"
    BY <2>2, <2>9
  <2>13. \A t \in Tx : e.attempt[t] # "canonical_confirmed"
    BY <2>2, <2>9 DEF Supported
  <2>14. \A t \in Tx : e.attempt[t] \in {"submitted", "observed_failed"} => e.attempt[t] = d.attempt[t]
    BY <2>2, <2>9
  <2>15. Failures(e, F)
    BY <2>9, <2>14 DEF Failures
  <2>16. e.intent = "failed" => \A t \in Tx : e.attempt[t] # "submitted"
    BY <2>6, <2>9, <2>14 DEF Supported
  <2>17. Supported(e, F)
    BY <2>8, <2>9, <2>4, <2>13, <2>15, <2>16 DEF Supported
  <2>18. \A t \in Tx : d.attempt[t] = "absent" => e.attempt[t] = "absent"
    <3> SUFFICES ASSUME NEW t \in Tx, d.attempt[t] = "absent" PROVE e.attempt[t] = "absent"
      OBVIOUS
    <3>1. d.live \in Block /\ d.live # None
      BY <1>2, ContentTypes
    <3>2. PICK u \in Tx : Creates(d.live, u) /\ d.attempt[u] = "canonical_confirmed"
      BY <3>1 DEF Supported
    <3>3. ~Creates(d.live, t)
      BY <3>1, <3>2, OneCreation
    <3> QED
      BY <2>2, <2>9, <3>3
  <2>19. SameKnown(d, e)
    BY <2>12, <2>18 DEF SameKnown
  <2> QED
    BY <1>2, <2>9, <2>11a, <2>17, <2>19 DEF SameJournals, LiveUnless
<1> QED
  BY <1>1, <1>2

\* Taking blocks back leaves the rows as the rest of the chain has them.
LEMMA RetractSupported ==
    ASSUME NEW C, C \subseteq Block, NEW U, NEW B, B \subseteq Block, NEW d, Supported(d, C),
           Counted(d, C, U),
           NEW e, e = RetractBlocks(d, B), NEW F, F = C \ B
    PROVE  /\ Supported(e, F)
           /\ Counted(e, F, U)
           /\ LiveUnless(d, e, B)
           /\ JournalsUndone(d, e, B)
           /\ e.ok /\ d.live \in B => Affords(e, d.live)
<1>d1. PICK d1 : d1 = OrphanFailedFundingTransactions(d, B)
  OBVIOUS
<1>d2. PICK d2 : d2 = ReverseJournals(d1, B)
  OBVIOUS
<1>d3. PICK d3 : d3 = OrphanAssignment(d2, B)
  OBVIOUS
<1>e. e = ReverseFunding(d3, B)
  BY <1>d1, <1>d2, <1>d3 DEF RetractBlocks
<1>1. /\ Supported(d1, C)
      /\ SameKnown(d, d1)
      /\ Failures(d1, F)
      /\ SameLive(d, d1) /\ SameJournals(d, d1)
  BY <1>d1, FailuresRetracted
<1>2. d1 \in Database
  BY <1>1 DEF Supported
<1>3. /\ d2 \in Database
      /\ d2.attempt = d1.attempt /\ d2.evidence = d1.evidence /\ d2.intent = d1.intent
      /\ d2.intentTx = d1.intentTx /\ d2.live = d1.live /\ d2.journals = d1.journals
      /\ d2.reversed = d1.reversed \cup {j \in d1.journals \ d1.reversed : j[2] \in B}
      /\ d2.task \in {d1.task, "chain_reorg_pending"} /\ d2.ok = d1.ok
  BY <1>2, <1>d2, JournalsReversed
<1>4. /\ d3 \in Database
      /\ d3.attempt = d2.attempt /\ d3.evidence = d2.evidence /\ d3.intent = d2.intent
      /\ d3.intentTx = d2.intentTx /\ d3.live = d2.live /\ d3.journals = d2.journals
      /\ d3.reversed = d2.reversed
      /\ d3.task \in {d2.task, "chain_reorg_pending"} /\ d3.ok = d2.ok
  BY <1>3, <1>d3, AssignmentOrphaned
<1>5. /\ d3.attempt = d1.attempt /\ d3.evidence = d1.evidence /\ d3.intent = d1.intent
      /\ d3.intentTx = d1.intentTx /\ d3.live = d1.live
      /\ d3.task \in {d1.task, "chain_reorg_pending"}
  BY <1>3, <1>4
<1>6. Supported(d3, C)
  BY <1>1, <1>4, <1>5 DEF Supported, Failures
<1>7. Failures(d3, F)
  BY <1>1, <1>5 DEF Failures
<1>8. /\ Supported(e, F)
      /\ SameKnown(d3, e)
      /\ LiveUnless(d3, e, B)
      /\ SameJournals(d3, e)
      /\ e.ok /\ d3.live \in B => Affords(e, d3.live)
  BY <1>6, <1>7, <1>e, FundingReversed
<1>10. SameKnown(d, e)
  BY <1>1, <1>5, <1>8 DEF SameKnown
<1>11. LiveUnless(d, e, B)
  BY <1>1, <1>5, <1>8 DEF LiveUnless, SameLive
<1>12. Counted(e, F, U)
  BY <1>10, <1>11 DEF Counted, SameKnown, LiveUnless
<1>13. JournalsUndone(d, e, B)
  BY <1>1, <1>3, <1>4, <1>8 DEF SameJournals, JournalsUndone
<1>14. d3.live = d.live
  BY <1>1, <1>5 DEF SameLive
<1>15. e.ok /\ d.live \in B => Affords(e, d.live)
  BY <1>8, <1>14, Zenon
<1> QED
  BY <1>8, <1>11, <1>12, <1>13, <1>15

-----------------------------------------------------------------------------
(* The ledger. *)

\* Journals of a type that stand for blocks up to a height.
UpTo(d, type, h) == {b \in Posted(d, type) : Height[b] <= h}

\* The ledger when the blocks C are canonical.  Rewinding to any height must leave
\* the receivable covered: hence a bound for every height, and not for the tip only.
Covered(d, C) ==
    /\ d.reversed \subseteq d.journals
    /\ \A type \in JournalType : IsFiniteSet(Posted(d, type)) /\ Posted(d, type) \subseteq C
    /\ EscrowBalance(d) >= 0
    /\ Payable # 0 =>
          /\ Cardinality(Posted(d, "withdrawal")) <= Cardinality(Posted(d, "release"))
          /\ \A h \in Nat : Cardinality(UpTo(d, "withdrawal", h)) <= Cardinality(UpTo(d, "release", h))

\* Only the deposit and the journals matter to the ledger.
LEMMA SameLedger ==
    ASSUME NEW d, NEW x, x.live = d.live, x.journals = d.journals, x.reversed = d.reversed
    PROVE  /\ EscrowBalance(x) = EscrowBalance(d)
           /\ ReceivableBalance(x) = ReceivableBalance(d)
           /\ \A C : Covered(d, C) => Covered(x, C)
<1>1. ASSUME NEW type PROVE Posted(x, type) = Posted(d, type)
  BY DEF Posted
<1>2. EscrowBalance(x) = EscrowBalance(d)
  BY <1>1 DEF EscrowBalance
<1>3. ReceivableBalance(x) = ReceivableBalance(d)
  BY <1>1 DEF ReceivableBalance
<1>4. ASSUME NEW type, NEW h PROVE UpTo(x, type, h) = UpTo(d, type, h)
  BY <1>1 DEF UpTo
<1>5. ASSUME NEW C, Covered(d, C) PROVE Covered(x, C)
  BY <1>1, <1>2, <1>4, <1>5 DEF Covered
<1> QED
  BY <1>2, <1>3, <1>5

\* A longer chain covers what a shorter one covers.
LEMMA CoveredGrows ==
    ASSUME NEW d, NEW C, NEW D, C \subseteq D, Covered(d, C)
    PROVE  Covered(d, D)
BY DEF Covered

\* The balances in numbers.
LEMMA Balances ==
    ASSUME NEW d, NEW C, Covered(d, C)
    PROVE  /\ \A type \in JournalType : Cardinality(Posted(d, type)) \in Nat
           /\ \A type \in JournalType, h \in Nat :
                 IsFiniteSet(UpTo(d, type, h)) /\ Cardinality(UpTo(d, type, h)) \in Nat
           /\ EscrowBalance(d) \in Int /\ ReceivableBalance(d) \in Int
<1>1. \A type \in JournalType : Cardinality(Posted(d, type)) \in Nat
  BY FS_CardinalityType DEF Covered
<1>2. ASSUME NEW type \in JournalType, NEW h \in Nat
      PROVE  IsFiniteSet(UpTo(d, type, h)) /\ Cardinality(UpTo(d, type, h)) \in Nat
  <2>1. IsFiniteSet(Posted(d, type))
    BY DEF Covered
  <2>2. UpTo(d, type, h) \in SUBSET Posted(d, type)
    BY DEF UpTo
  <2>3. IsFiniteSet(UpTo(d, type, h))
    BY <2>1, <2>2, FS_Subset
  <2> QED
    BY <2>3, FS_CardinalityType
<1>3. "release" \in JournalType /\ "refund" \in JournalType /\ "withdrawal" \in JournalType
  BY DEF JournalType
<1>4. PICK r \in Nat, f \in Nat, w \in Nat :
         /\ r = Cardinality(Posted(d, "release")) /\ f = Cardinality(Posted(d, "refund"))
         /\ w = Cardinality(Posted(d, "withdrawal"))
  BY <1>1, <1>3
<1>5. EscrowBalance(d) \in Int
  BY <1>4, ContentTypes DEF EscrowBalance
<1>6. ReceivableBalance(d) \in Int
  BY <1>4, ContentTypes DEF ReceivableBalance
<1> QED
  BY <1>1, <1>2, <1>5, <1>6

\* One journal more, of a block that had none of this type.
LEMMA OneMore ==
    ASSUME NEW d \in Database, NEW x, NEW type \in JournalType, NEW b \in Block,
           d.reversed \subseteq d.journals, <<type, b>> \notin d.journals,
           x.journals = d.journals \cup {<<type, b>>}, x.reversed = d.reversed
    PROVE  /\ Posted(x, type) = Posted(d, type) \cup {b} /\ b \notin Posted(d, type)
           /\ \A t \in JournalType \ {type} : Posted(x, t) = Posted(d, t)
<1>1. d.journals \subseteq JournalType \X Block
  BY DEF Database
<1>2. \A j \in d.journals : j = <<j[1], j[2]>>
  BY <1>1
<1>3. b \notin Posted(d, type)
  BY <1>2 DEF Posted
<1>4. x.journals \ x.reversed = (d.journals \ d.reversed) \cup {<<type, b>>}
  OBVIOUS
<1>5. Posted(x, type) = Posted(d, type) \cup {b}
  <2>1. {k \in x.journals \ x.reversed : k[1] = type}
          = {k \in d.journals \ d.reversed : k[1] = type} \cup {<<type, b>>}
    BY <1>4
  <2> QED
    BY <2>1 DEF Posted
<1>6. ASSUME NEW t \in JournalType \ {type} PROVE Posted(x, t) = Posted(d, t)
  <2>1. {k \in x.journals \ x.reversed : k[1] = t} = {k \in d.journals \ d.reversed : k[1] = t}
    BY <1>4
  <2> QED
    BY <2>1 DEF Posted
<1> QED
  BY <1>3, <1>5, <1>6

\* A journal is booked for the tip of the chain: what it takes is there.
LEMMA BookedCovered ==
    ASSUME NEW C, C \subseteq Block, NEW b \in C, \A c \in C : Height[c] <= Height[b],
           NEW d \in Database, Covered(d, C), NEW x, x.live = d.live,
           NEW type \in JournalType, <<type, b>> \notin d.journals,
           x.journals = d.journals \cup {<<type, b>>}, x.reversed = d.reversed,
           type = "release" => EscrowBalance(d) >= Payable,
           type = "refund" => EscrowBalance(d) >= Budget,
           type = "withdrawal" => ReceivableBalance(d) >= Payable
    PROVE  Covered(x, C)
<1>1. /\ Posted(x, type) = Posted(d, type) \cup {b} /\ b \notin Posted(d, type)
      /\ \A t \in JournalType \ {type} : Posted(x, t) = Posted(d, t)
  BY OneMore DEF Covered
<1>2. IsFiniteSet(Posted(d, type)) /\ Posted(d, type) \subseteq C
  BY DEF Covered
<1>3. /\ IsFiniteSet(Posted(x, type))
      /\ Cardinality(Posted(x, type)) = Cardinality(Posted(d, type)) + 1
  BY <1>1, <1>2, FS_AddElement
<1>4. ASSUME NEW t \in JournalType PROVE IsFiniteSet(Posted(x, t)) /\ Posted(x, t) \subseteq C
  <2>1. CASE t = type
    BY <1>1, <1>2, <1>3, <2>1
  <2>2. CASE t # type
    <3>1. Posted(x, t) = Posted(d, t)
      BY <1>1, <2>2
    <3> QED
      BY <3>1, Zenon DEF Covered
  <2> QED
    BY <2>1, <2>2
<1>5. x.reversed \subseteq x.journals
  BY DEF Covered
<1>6. "release" \in JournalType /\ "refund" \in JournalType /\ "withdrawal" \in JournalType
      /\ type \in {"release", "refund", "withdrawal"}
  BY DEF JournalType
<1>7. PICK r \in Nat, f \in Nat, w \in Nat :
         /\ r = Cardinality(Posted(d, "release")) /\ f = Cardinality(Posted(d, "refund"))
         /\ w = Cardinality(Posted(d, "withdrawal"))
  BY <1>6, Balances
<1>8. /\ Cardinality(Posted(x, "release")) = IF type = "release" THEN r + 1 ELSE r
      /\ Cardinality(Posted(x, "refund")) = IF type = "refund" THEN f + 1 ELSE f
      /\ Cardinality(Posted(x, "withdrawal")) = IF type = "withdrawal" THEN w + 1 ELSE w
  BY <1>1, <1>3, <1>6, <1>7
<1>9. EscrowBalance(x) >= 0
  <2>1. PICK D \in Nat : D = IF d.live = None THEN 0 ELSE Budget
    BY ContentTypes
  <2>2. EscrowBalance(d) = D - Payable * r - Budget * f /\ D - Payable * r - Budget * f >= 0
    BY <1>7, <2>1 DEF EscrowBalance, Covered
  <2>3. PICK R \in Nat, F \in Nat : /\ R = (IF type = "release" THEN r + 1 ELSE r)
                                    /\ F = (IF type = "refund" THEN f + 1 ELSE f)
    OBVIOUS
  <2>4. EscrowBalance(x) = D - Payable * R - Budget * F
    BY <1>8, <2>1, <2>3 DEF EscrowBalance
  <2>5. Payable \in Nat /\ Budget \in Nat
    BY ContentTypes
  <2>6. Payable * (r + 1) = Payable * r + Payable /\ Budget * (f + 1) = Budget * f + Budget
    BY <2>5
  <2>7. Payable * r \in Nat /\ Budget * f \in Nat
    BY <2>5
  <2>8. CASE type = "release"
    BY <2>2, <2>3, <2>4, <2>5, <2>6, <2>7, <2>8
  <2>9. CASE type = "refund"
    BY <2>2, <2>3, <2>4, <2>5, <2>6, <2>7, <2>9
  <2>10. CASE type = "withdrawal"
    BY <2>2, <2>3, <2>4, <2>5, <2>7, <2>10
  <2> QED
    BY <1>6, <2>8, <2>9, <2>10
<1>10. ASSUME Payable # 0
       PROVE  /\ Cardinality(Posted(x, "withdrawal")) <= Cardinality(Posted(x, "release"))
              /\ \A h \in Nat : Cardinality(UpTo(x, "withdrawal", h)) <= Cardinality(UpTo(x, "release", h))
  <2>1. w <= r
    BY <1>7, <1>10 DEF Covered
  <2>2. type = "withdrawal" => w + 1 <= r
    <3> SUFFICES ASSUME type = "withdrawal", ~(w + 1 <= r) PROVE FALSE
      OBVIOUS
    <3>1. r - w = 0
      BY <2>1
    <3>2. ReceivableBalance(d) = Payable * (r - w)
      BY <1>7 DEF ReceivableBalance
    <3> QED
      BY <3>1, <3>2, <1>10, ContentTypes
  <2>3. Cardinality(Posted(x, "withdrawal")) <= Cardinality(Posted(x, "release"))
    BY <1>8, <2>1, <2>2
  <2>4. ASSUME NEW h \in Nat
        PROVE  Cardinality(UpTo(x, "withdrawal", h)) <= Cardinality(UpTo(x, "release", h))
    <3>1. CASE Height[b] <= h
      <4>1. \A c \in C : Height[c] <= h
        BY <3>1, TreeTypes
      <4>2. /\ UpTo(x, "withdrawal", h) = Posted(x, "withdrawal")
            /\ UpTo(x, "release", h) = Posted(x, "release")
        <5>1. Posted(x, "withdrawal") \subseteq C /\ Posted(x, "release") \subseteq C
          BY <1>4, <1>6
        <5> QED
          BY <4>1, <5>1 DEF UpTo
      <4> QED
        BY <2>3, <4>2
    <3>2. CASE ~(Height[b] <= h)
      <4>1. \A t \in JournalType : UpTo(x, t, h) = UpTo(d, t, h)
        BY <1>1, <3>2 DEF UpTo
      <4>2. Cardinality(UpTo(d, "withdrawal", h)) <= Cardinality(UpTo(d, "release", h))
        BY <1>10 DEF Covered
      <4> QED
        BY <1>6, <4>1, <4>2
    <3> QED
      BY <3>1, <3>2
  <2> QED
    BY <2>3, <2>4
<1> QED
  BY <1>4, <1>5, <1>9, <1>10 DEF Covered

\* What a block's settlement events may make of the rows d.
SettledFrom(d, C) == {x \in Database : FundingKept(d, x) /\ (x.ok => Covered(x, C))}

\* InsertJournal books once, and only what is there.
LEMMA InsertSettles ==
    ASSUME NEW C, C \subseteq Block, NEW b \in C, \A c \in C : Height[c] <= Height[b],
           NEW d \in Database, Covered(d, C), NEW type \in JournalType, NEW amount,
           type = "release" => amount = Payable,
           type = "refund" => amount = Budget,
           type = "withdrawal" => ReceivableBalance(d) >= Payable
    PROVE  /\ InsertJournal(d, type, b, amount) \in SettledFrom(d, C)
           /\ InsertJournal(d, type, b, amount).ok => d.ok
<1>1. PICK x : x = InsertJournal(d, type, b, amount)
  OBVIOUS
<1>2. CASE amount = 0 \/ <<type, b>> \in d.journals
  <2>1. x = d
    BY <1>1, <1>2 DEF InsertJournal
  <2>2. FundingKept(d, d)
    BY DEF FundingKept
  <2> QED
    BY <1>1, <2>1, <2>2 DEF SettledFrom
<1>3. CASE ~(amount = 0 \/ <<type, b>> \in d.journals)
  <2> DEFINE fine == d.ok /\ (type = "withdrawal" \/ EscrowBalance(d) >= amount)
             booked == d.journals \cup {<<type, b>>}
  <2>1. x = [d EXCEPT !.journals = booked, !.ok = fine]
    BY <1>1, <1>3 DEF InsertJournal, Database
  <2>2. fine \in BOOLEAN /\ (fine => d.ok)
    OBVIOUS
  <2>3. booked \in SUBSET (JournalType \X Block)
    BY DEF Database
  <2> HIDE DEF fine, booked
  <2>4. x \in Database
    BY <2>1, <2>2, <2>3 DEF Database
  <2>5. /\ x.attempt = d.attempt /\ x.evidence = d.evidence /\ x.intent = d.intent
        /\ x.intentTx = d.intentTx /\ x.live = d.live /\ x.reversed = d.reversed
        /\ x.task = d.task /\ x.journals = booked
    BY <2>1 DEF Database
  <2>6. x.ok = fine
    BY <2>1 DEF Database
  <2>7. FundingKept(d, x)
    BY <2>4, <2>5 DEF FundingKept
  <2>8. ASSUME fine PROVE Covered(x, C)
    <3>1. /\ type = "release" => EscrowBalance(d) >= Payable
          /\ type = "refund" => EscrowBalance(d) >= Budget
      BY <2>8 DEF fine
    <3>2. <<type, b>> \notin d.journals /\ x.journals = d.journals \cup {<<type, b>>}
      BY <1>3, <2>5 DEF booked
    <3> QED
      BY <2>5, <3>1, <3>2, BookedCovered
  <2>9. x.ok => d.ok /\ Covered(x, C)
    BY <2>2, <2>6, <2>8
  <2>10. x \in SettledFrom(d, C)
    BY <2>4, <2>7, <2>9 DEF SettledFrom
  <2> QED
    BY <1>1, <2>9, <2>10
<1> QED
  BY <1>2, <1>3

\* So are the rows with the control account, or with the error that it is missing.
LEMMA ControlTyped ==
    ASSUME NEW d \in Database, NEW a \in SUBSET Account
    PROVE  [d EXCEPT !.ok = FALSE] \in Database /\ [d EXCEPT !.accounts = a] \in Database
<1>1. [d EXCEPT !.ok = FALSE] \in Database
  BY Zenon DEF Database
<1>2. [d EXCEPT !.accounts = a] \in Database
  BY SMT DEF Database
<1> QED
  BY <1>1, <1>2

\* The control account is other rows' business.
LEMMA ControlSettles ==
    ASSUME NEW C, NEW d \in Database, Covered(d, C)
    PROVE  /\ EnsureControl(d) \in SettledFrom(d, C) /\ Covered(EnsureControl(d), C)
           /\ ReceivableBalance(EnsureControl(d)) = ReceivableBalance(d)
           /\ EnsureControl(d).ok => d.ok
<1>1. PICK x : x = EnsureControl(d)
  OBVIOUS
<1>2. x = d \/ x = [d EXCEPT !.ok = FALSE] \/ x = [d EXCEPT !.accounts = d.accounts \cup {"control_funding"}]
  BY <1>1 DEF EnsureControl, Fails, Database
<1>3. x \in Database
  <2>1. d.accounts \cup {"control_funding"} \in SUBSET Account
    BY DEF Database, Account
  <2> QED
    BY <1>2, <2>1, ControlTyped
<1>4. /\ x.attempt = d.attempt /\ x.evidence = d.evidence /\ x.intent = d.intent
      /\ x.intentTx = d.intentTx /\ x.live = d.live /\ x.reversed = d.reversed
      /\ x.task = d.task /\ x.journals = d.journals
  BY <1>2 DEF Database
<1>5. x.ok => d.ok
  BY <1>2 DEF Database
<1>6. Covered(x, C) /\ ReceivableBalance(x) = ReceivableBalance(d)
  BY <1>4, SameLedger
<1>7. FundingKept(d, x)
  BY <1>3, <1>4 DEF FundingKept
<1>8. x \in SettledFrom(d, C)
  BY <1>3, <1>6, <1>7 DEF SettledFrom
<1> QED
  BY <1>1, <1>5, <1>6, <1>8

\* What is settled twice is settled.
LEMMA SettledAgain ==
    ASSUME NEW C, NEW d, NEW x \in SettledFrom(d, C), NEW y \in SettledFrom(x, C)
    PROVE  y \in SettledFrom(d, C)
BY DEF SettledFrom, FundingKept

\* A status or an account more.
LEMMA SettledTask ==
    ASSUME NEW C, NEW d, NEW x \in SettledFrom(d, C), NEW acc \in SUBSET Account,
           NEW status \in {"settled", "refunded"},
           NEW y, y = [x EXCEPT !.accounts = acc, !.task = status]
    PROVE  y \in SettledFrom(d, C)
<1>2. x \in Database /\ FundingKept(d, x)
  BY DEF SettledFrom
<1>3. y \in Database
  BY <1>2 DEF Database, TaskStatus
<1>4. /\ y.attempt = x.attempt /\ y.evidence = x.evidence /\ y.intent = x.intent
      /\ y.intentTx = x.intentTx /\ y.live = x.live /\ y.reversed = x.reversed
      /\ y.task = status /\ y.journals = x.journals
  BY <1>2 DEF Database
<1>5. y.ok => x.ok
  BY <1>2 DEF Database
<1>6. y.ok => Covered(y, C)
  BY <1>4, <1>5, SameLedger DEF SettledFrom
<1>7. FundingKept(d, y)
  BY <1>2, <1>3, <1>4 DEF FundingKept
<1> QED
  BY <1>3, <1>6, <1>7 DEF SettledFrom

\* A failed statement ends the block.
LEMMA FailedSettles ==
    ASSUME NEW C, NEW d \in Database
    PROVE  Fails(d) \in SettledFrom(d, C)
<1>1. PICK x : x = [d EXCEPT !.ok = FALSE]
  OBVIOUS
<1>2. x \in Database /\ ~x.ok
  BY <1>1 DEF Database
<1>3. FundingKept(d, x)
  BY <1>1, <1>2 DEF FundingKept, Database
<1> QED
  BY <1>1, <1>2, <1>3 DEF Fails, SettledFrom

\* Every settlement event of the tip leaves funding alone and the ledger covered
\* (projectSettlementEvent).
LEMMA EventSettles ==
    ASSUME NEW C, C \subseteq Block, NEW b \in C, \A c \in C : Height[c] <= Height[b],
           NEW d \in Database, Covered(d, C), NEW e \in Event, e.type # "created", NEW l
    PROVE  ProjectSettlementEvent(d, b, e, l) \in SettledFrom(d, C)
<1>0. /\ d \in SettledFrom(d, C) /\ Fails(d) \in SettledFrom(d, C)
      /\ "release" \in JournalType /\ "refund" \in JournalType /\ "withdrawal" \in JournalType
  <2>1. FundingKept(d, d)
    BY DEF FundingKept
  <2> QED
    BY <2>1, FailedSettles DEF SettledFrom, JournalType
<1>a. d.accounts \in SUBSET Account
  BY DEF Database
<1>1. EarningsAccrued(d, b) \in SettledFrom(d, C)
  <2>1. CASE d.assignment # "active" \/ "formal" \notin d.accounts
    BY <1>0, <2>1 DEF EarningsAccrued
  <2>2. CASE ~(d.assignment # "active" \/ "formal" \notin d.accounts)
    <3>1. PICK x : x = InsertJournal(d, "release", b, Payable)
      OBVIOUS
    <3>2. x \in SettledFrom(d, C)
      BY <1>0, <3>1, InsertSettles
    <3>3. x.accounts \in SUBSET Account
      BY <3>2 DEF SettledFrom, Database
    <3>4. PICK acc \in SUBSET Account : acc = IF Payable = 0 THEN x.accounts ELSE x.accounts \cup {"receivable"}
      BY <3>3 DEF Account
    <3>5. EarningsAccrued(d, b) = [x EXCEPT !.accounts = acc, !.task = "settled"]
      BY <2>2, <3>1, <3>2, <3>4 DEF EarningsAccrued, SettledFrom, Database
    <3> QED
      BY <3>2, <3>5, SettledTask
  <2> QED
    BY <2>1, <2>2
<1>2. EarningsWithdrawn(d, b) \in SettledFrom(d, C)
  <2> DEFINE refused == \/ d.reservation = "none" \/ ~({"formal", "receivable"} \subseteq d.accounts)
                        \/ ReceivableBalance(d) < Payable
  <2>1. CASE refused
    BY <1>0, <2>1 DEF EarningsWithdrawn
  <2>2. CASE ~refused /\ Payable = 0
    BY <1>0, <2>2 DEF EarningsWithdrawn
  <2>3. CASE ~refused /\ Payable # 0
    <3>1. PICK x : x = EnsureControl(d)
      OBVIOUS
    <3>2. /\ x \in SettledFrom(d, C) /\ Covered(x, C)
          /\ ReceivableBalance(x) = ReceivableBalance(d)
      BY <3>1, ControlSettles
    <3>3. ReceivableBalance(d) >= Payable
      <4>1. ReceivableBalance(d) \in Int
        BY Balances
      <4> QED
        BY <2>3, <4>1, ContentTypes
    <3>4. x \in Database
      BY <3>2 DEF SettledFrom
    <3>5. InsertJournal(x, "withdrawal", b, Payable) \in SettledFrom(x, C)
      BY <1>0, <3>2, <3>3, <3>4, InsertSettles
    <3>6. EarningsWithdrawn(d, b) = InsertJournal(x, "withdrawal", b, Payable)
      BY <2>3, <3>1 DEF EarningsWithdrawn
    <3> QED
      BY <3>2, <3>5, <3>6, SettledAgain
  <2> QED
    BY <2>1, <2>2, <2>3
<1>3. FundsRefunded(d, b) \in SettledFrom(d, C)
  <2>1. CASE "formal" \notin d.accounts
    BY <1>0, <2>1 DEF FundsRefunded
  <2>2. CASE "formal" \in d.accounts
    <3>1. PICK x : x = EnsureControl(d)
      OBVIOUS
    <3>2. x \in SettledFrom(d, C) /\ Covered(x, C)
      BY <3>1, ControlSettles
    <3>3. x \in Database
      BY <3>2 DEF SettledFrom
    <3>4. PICK y : y = InsertJournal(x, "refund", b, Budget)
      OBVIOUS
    <3>5. y \in SettledFrom(x, C)
      BY <1>0, <3>2, <3>3, <3>4, InsertSettles
    <3>6. y \in SettledFrom(d, C)
      BY <3>2, <3>5, SettledAgain
    <3>7. PICK acc \in SUBSET Account : acc = y.accounts
      BY <3>6 DEF SettledFrom, Database
    <3>8. FundsRefunded(d, b) = [y EXCEPT !.accounts = acc, !.task = "refunded"]
      <4>1. FundsRefunded(d, b) = [y EXCEPT !.task = "refunded"]
        BY <2>2, <3>1, <3>4 DEF FundsRefunded
      <4>2. y \in Database
        BY <3>6 DEF SettledFrom
      <4> QED
        BY <3>7, <4>1, <4>2 DEF Database
    <3> QED
      BY <3>6, <3>8, SettledTask
  <2> QED
    BY <2>1, <2>2
<1>4. e.type \in {"selected", "accrued", "withdrawn", "refunded"}
  BY DEF Event
<1> QED
  BY <1>0, <1>1, <1>2, <1>3, <1>4 DEF ProjectSettlementEvent

-----------------------------------------------------------------------------
(* A block applied, blocks taken back, an attempt reconciled. *)

\* What the rows need of the canonical blocks C, while the attempts U wait to be reconciled.
RowsInv(d, C, U) == Supported(d, C) /\ Counted(d, C, U) /\ Covered(d, C)

\* A deposit more can only help.
LEMMA DepositCovers ==
    ASSUME NEW d, NEW C, Covered(d, C), NEW x, d.live = None, x.live # None,
           x.journals = d.journals, x.reversed = d.reversed
    PROVE  Covered(x, C)
<1>2. ASSUME NEW type PROVE Posted(x, type) = Posted(d, type)
  BY DEF Posted
<1>3. ASSUME NEW type, NEW h PROVE UpTo(x, type, h) = UpTo(d, type, h)
  BY <1>2 DEF UpTo
<1>4. "release" \in JournalType /\ "refund" \in JournalType
  BY DEF JournalType
<1>5. PICK r \in Nat, f \in Nat :
         r = Cardinality(Posted(d, "release")) /\ f = Cardinality(Posted(d, "refund"))
  BY <1>4, Balances
<1>6. EscrowBalance(d) = 0 - Payable * r - Budget * f /\ EscrowBalance(x) = Budget - Payable * r - Budget * f
  BY <1>2, <1>5 DEF EscrowBalance
<1>7. Payable * r \in Nat /\ Budget * f \in Nat /\ Budget \in Nat
  BY <1>5, ContentTypes
<1>8. EscrowBalance(d) >= 0
  BY DEF Covered
<1>9. EscrowBalance(x) >= 0
  BY <1>6, <1>7, <1>8
<1> QED
  BY <1>2, <1>3, <1>9 DEF Covered

\* No block of K is higher than b.
Tops(b, K) == \A c \in K : Height[c] <= Height[b]

\* ApplyBlock's work on the task's rows.
LEMMA BlockProjected ==
    ASSUME NEW K, K \subseteq Block, NEW b \in Block, b \notin K,
           Tops(b, K), NEW C, C = K \cup {b},
           NEW U, NEW d, RowsInv(d, K, U), d.ok, NEW l,
           NEW x, x = ProjectBlock(d, b, l), x.ok
    PROVE  /\ RowsInv(x, C, U)
           /\ LiveSince(d, x, b)
<1>1. PICK d0 : d0 = IF FailedIn[b] = None THEN d ELSE ProjectFundingTransaction(d, b, FailedIn[b])
  OBVIOUS
<1>2. x = ProjectEvents(d0, b, l)
  BY <1>1 DEF ProjectBlock
<1>3. b \in C /\ C \subseteq Block /\ K \subseteq C /\ \A c \in C : Height[c] <= Height[b]
  BY TreeTypes DEF Tops
<1>4. Supported(d, C) /\ Supported(d, K)
  BY <1>3 DEF Supported, Failures, RowsInv
<1>5. /\ Supported(d0, C) /\ d0.ok /\ d0.live = d.live /\ SameKnown(d, d0)
      /\ d0.journals = d.journals /\ d0.reversed = d.reversed
  <2>1. CASE FailedIn[b] = None
    BY <1>1, <1>4, <2>1 DEF SameKnown
  <2>2. CASE FailedIn[b] # None
    <3>1. PICK tx \in Tx : FailedIn[b] = tx
      BY <2>2, ContentTypes
    <3>2. d0 = ProjectFundingTransaction(d, b, tx)
      BY <1>1, <2>2, <3>1
    <3> QED
      BY <1>3, <1>4, <3>1, <3>2, FailureSupported
  <2> QED
    BY <2>1, <2>2
<1>6. Counted(d0, K, U)
  BY <1>5 DEF Counted, SameKnown, RowsInv
<1>7. Covered(d0, C)
  <2>1. Covered(d, C)
    BY <1>3, CoveredGrows DEF RowsInv
  <2> QED
    BY <1>5, <2>1, SameLedger
<1>8. d0 \in Database
  BY <1>5 DEF Supported
<1>9. EventsIn[b] \in Seq(Event)
  BY ContentTypes
<1>10. PICK N \in Nat : N = Len(EventsIn[b]) /\ \A n \in 1..N : EventsIn[b][n] \in Event
  BY <1>9
<1>11. CASE \E n \in 1..N : EventsIn[b][n].type = "created"
  <2>0. PICK m \in 1..N : EventsIn[b][m].type = "created"
    BY <1>11
  <2>1. EventsIn[b][m] \in ToSet(EventsIn[b])
    BY <1>10 DEF ToSet
  <2>2. N = 1
    BY <1>10, <2>0, <2>1, FundingAlone
  <2>3. EventsIn[b][1].type = "created" /\ EventsIn[b][1] \in Event
    BY <1>10, <2>0, <2>2
  <2>4. PICK tx \in Tx : EventsIn[b][1] = [type |-> "created", tx |-> tx]
    BY <2>3 DEF Event
  <2>5. EventsIn[b][1].tx = tx
    BY <2>4
  <2>6. Creates(b, tx) /\ Has(b, "created")
    <3>1. EventsIn[b][1] \in ToSet(EventsIn[b])
      BY <2>1, <2>2, <2>0
    <3> QED
      BY <2>3, <2>4, <3>1 DEF Creates, Has
  <2>7. ProjectSettlementEvent(d0, b, EventsIn[b][1], l) = Fund(d0, b, tx, l)
    BY <2>3, <2>5 DEF ProjectSettlementEvent
  <2>8. x = Fund(d0, b, tx, l)
    <3> DEFINE Q == [n \in Nat |-> IF n = 0 THEN {d0} ELSE {Fund(d0, b, tx, l)}]
    <3>1. Q[0] = {d0} /\ Q[1] = {Fund(d0, b, tx, l)}
      OBVIOUS
    <3> HIDE DEF Q
    <3>2. ASSUME NEW n \in 1..N, NEW y \in Q[n - 1] PROVE Projected(y, b, n, l) \in Q[n]
      <4>1. n = 1 /\ n - 1 = 0
        BY <2>2
      <4>2. y = d0
        BY <3>1, <4>1
      <4> QED
        BY <1>5, <2>7, <3>1, <4>1, <4>2 DEF Projected
    <3>3. d0 \in Q[0]
      BY <3>1
    <3>4. ProjectEvents(d0, b, l) \in Q[N]
      BY <1>10, <3>2, <3>3, EventsKeep
    <3> QED
      BY <1>2, <2>2, <3>1, <3>4
  <2>9. /\ Supported(x, C)
        /\ \/ x = d0 /\ (d0.attempt[tx] = "absent" \/ d0.live = b)
           \/ d0.live = None /\ d0.attempt[tx] # "absent" /\ x.live = b
        /\ SameKnown(d0, x)
        /\ x.journals = d0.journals /\ x.reversed = d0.reversed
    BY <1>3, <1>5, <2>6, <2>8, FundSupported
  <2>10. d0.live # b
    BY <1>4, <1>5, ContentTypes DEF Supported
  <2>11. Counted(x, C, U)
    <3> SUFFICES ASSUME NEW c \in C, NEW u \in Tx, Creates(c, u), x.attempt[u] # "absent", u \notin U
                 PROVE  x.live = c
      BY DEF Counted
    <3>1. d0.attempt[u] # "absent"
      BY <2>9 DEF SameKnown
    <3>2. CASE c = b
      <4>1. u = tx
        BY <3>2, <2>6, OneCreation
      <4> QED
        BY <3>1, <3>2, <4>1, <2>9, <2>10
    <3>3. CASE c # b
      <4>1. c \in K /\ c # None
        BY <3>3, ContentTypes
      <4>2. d0.live = c
        BY <4>1, <3>1, <1>6 DEF Counted
      <4> QED
        BY <4>1, <4>2, <2>9
    <3> QED
      BY <3>2, <3>3
  <2>12. Covered(x, C)
    <3>1. b # None
      BY ContentTypes
    <3> QED
      BY <1>7, <2>9, <3>1, SameLedger, DepositCovers
  <2> QED
    BY <1>5, <2>6, <2>9, <2>11, <2>12 DEF RowsInv, LiveSince
<1>12. CASE \A n \in 1..N : EventsIn[b][n].type # "created"
  <2>1. x \in SettledFrom(d0, C)
    <3> DEFINE Q == [n \in Nat |-> SettledFrom(d0, C)]
    <3>1. \A n \in Nat : Q[n] = SettledFrom(d0, C)
      OBVIOUS
    <3> HIDE DEF Q
    <3>2. ASSUME NEW n \in 1..N, NEW y \in Q[n - 1] PROVE Projected(y, b, n, l) \in Q[n]
      <4>1. n \in Nat /\ n - 1 \in Nat
        OBVIOUS
      <4>2. y \in SettledFrom(d0, C)
        BY <3>1, <4>1
      <4>3. CASE ~y.ok
        BY <3>1, <4>1, <4>2, <4>3 DEF Projected
      <4>4. CASE y.ok
        <5>1. PICK ev \in Event : ev = EventsIn[b][n] /\ ev.type # "created"
          BY <1>10, <1>12
        <5>2. y \in Database /\ Covered(y, C)
          BY <4>2, <4>4 DEF SettledFrom
        <5>3. ProjectSettlementEvent(y, b, ev, l) \in SettledFrom(y, C)
          BY <1>3, <5>1, <5>2, EventSettles
        <5>4. ProjectSettlementEvent(y, b, ev, l) \in SettledFrom(d0, C)
          BY <4>2, <5>3, SettledAgain
        <5> QED
          BY <3>1, <4>1, <4>4, <5>1, <5>4 DEF Projected
      <4> QED
        BY <4>3, <4>4
    <3>3. d0 \in Q[0]
      <4>1. d0 \in SettledFrom(d0, C)
        BY <1>7, <1>8 DEF SettledFrom, FundingKept
      <4> QED
        BY <3>1, <4>1
    <3>4. ProjectEvents(d0, b, l) \in Q[N]
      BY <1>10, <3>2, <3>3, EventsKeep
    <3> QED
      BY <1>2, <1>10, <3>1, <3>4
  <2>2. FundingKept(d0, x) /\ Covered(x, C)
    BY <2>1 DEF SettledFrom
  <2>3. \A tx \in Tx : ~Creates(b, tx)
    <3> SUFFICES ASSUME NEW tx \in Tx, Creates(b, tx) PROVE FALSE
      OBVIOUS
    <3>1. PICK n \in 1..N : EventsIn[b][n] = [type |-> "created", tx |-> tx]
      BY <1>10 DEF Creates, ToSet
    <3>2. EventsIn[b][n].type = "created"
      BY <3>1
    <3> QED
      BY <3>2, <1>12
  <2>4. Counted(d0, C, U)
    BY <1>6, <2>3 DEF Counted
  <2>5. Supported(x, C) /\ Counted(x, C, U)
    BY <1>5, <2>2, <2>4, SettlementSupported
  <2>6. x.live = d.live
    BY <1>5, <2>2 DEF FundingKept
  <2> QED
    BY <2>2, <2>5, <2>6 DEF RowsInv, LiveSince
<1> QED
  BY <1>11, <1>12

\* What is left when the blocks above a height are taken back.
LEMMA RetractCovered ==
    ASSUME NEW C, C \subseteq Block, NEW h \in Nat, NEW B, B = {c \in C : Height[c] > h},
           NEW d \in Database, Covered(d, C), NEW e,
           JournalsUndone(d, e, B),
           e.live = IF d.live \in B THEN None ELSE d.live,
           d.live \in B => Affords(e, d.live)
    PROVE  Covered(e, C \ B)
<1>1. ASSUME NEW type \in JournalType PROVE Posted(e, type) = UpTo(d, type, h)
  <2>1. Posted(d, type) \subseteq C
    BY DEF Covered
  <2>2. {j \in e.journals \ e.reversed : j[1] = type}
          = {j \in {k \in d.journals \ d.reversed : k[1] = type} : j[2] \notin B}
    BY DEF JournalsUndone
  <2>3. Posted(e, type) = {b \in Posted(d, type) : b \notin B}
    BY <2>2 DEF Posted
  <2> QED
    BY <2>1, <2>3, TreeTypes DEF UpTo
<1>2. ASSUME NEW type \in JournalType PROVE IsFiniteSet(Posted(e, type)) /\ Posted(e, type) \subseteq C \ B
  <2>1. IsFiniteSet(UpTo(d, type, h))
    BY Balances
  <2>2. Posted(d, type) \subseteq C
    BY DEF Covered
  <2>3. UpTo(d, type, h) \subseteq C \ B
    BY <2>2, TreeTypes DEF UpTo
  <2> QED
    BY <1>1, <2>1, <2>3
<1>3. "release" \in JournalType /\ "refund" \in JournalType /\ "withdrawal" \in JournalType
  BY DEF JournalType
<1>4. ASSUME NEW type \in JournalType
      PROVE  /\ Cardinality(Posted(e, type)) \in Nat /\ Cardinality(Posted(d, type)) \in Nat
             /\ Cardinality(Posted(e, type)) <= Cardinality(Posted(d, type))
  <2>1. Posted(e, type) \in SUBSET Posted(d, type)
    BY <1>1 DEF UpTo
  <2>2. IsFiniteSet(Posted(d, type))
    BY DEF Covered
  <2> QED
    BY <2>1, <2>2, <1>2, FS_Subset, FS_CardinalityType
<1>5. PICK r \in Nat, f \in Nat, R \in Nat, F \in Nat :
         /\ r = Cardinality(Posted(e, "release")) /\ f = Cardinality(Posted(e, "refund"))
         /\ R = Cardinality(Posted(d, "release")) /\ F = Cardinality(Posted(d, "refund"))
         /\ r <= R /\ f <= F
  BY <1>3, <1>4
<1>6. Payable \in Nat /\ Budget \in Nat
  BY ContentTypes
<1>7. EscrowBalance(e) >= 0
  <2>1. CASE d.live \in B
    <3>1. PICK x : /\ x.live = d.live /\ x.journals = e.journals /\ x.reversed = e.reversed
                   /\ EscrowBalance(x) >= Budget
      BY <2>1 DEF Affords
    <3>2. d.live # None /\ e.live = None
      BY <2>1, ContentTypes
    <3>3. \A type : Posted(x, type) = Posted(e, type)
      BY <3>1 DEF Posted
    <3>4. EscrowBalance(x) = Budget - Payable * r - Budget * f
      BY <1>5, <3>1, <3>2, <3>3 DEF EscrowBalance
    <3>5. EscrowBalance(e) = 0 - Payable * r - Budget * f
      BY <1>5, <3>2 DEF EscrowBalance
    <3>6. Payable * r \in Nat /\ Budget * f \in Nat
      BY <1>5, <1>6
    <3> QED
      BY <1>6, <3>1, <3>4, <3>5, <3>6
  <2>2. CASE d.live \notin B
    <3>1. PICK D \in Nat : D = IF d.live = None THEN 0 ELSE Budget
      BY <1>6
    <3>2. EscrowBalance(d) = D - Payable * R - Budget * F /\ EscrowBalance(d) >= 0
      BY <1>5, <3>1 DEF EscrowBalance, Covered
    <3>3. EscrowBalance(e) = D - Payable * r - Budget * f
      BY <1>5, <2>2, <3>1 DEF EscrowBalance
    <3>4. PICK g \in Nat, k \in Nat : R = r + g /\ F = f + k
      <4>1. R - r \in Nat /\ F - f \in Nat /\ R = r + (R - r) /\ F = f + (F - f)
        BY <1>5
      <4> QED
        BY <4>1
    <3>5. Payable * R = Payable * r + Payable * g /\ Budget * F = Budget * f + Budget * k
      BY <1>6, <3>4
    <3>6. /\ Payable * r \in Nat /\ Budget * f \in Nat
          /\ Payable * g \in Nat /\ Budget * k \in Nat
      BY <1>6
    <3> QED
      BY <3>2, <3>3, <3>5, <3>6
  <2> QED
    BY <2>1, <2>2
<1>8. ASSUME Payable # 0
      PROVE  /\ Cardinality(Posted(e, "withdrawal")) <= Cardinality(Posted(e, "release"))
             /\ \A k \in Nat : Cardinality(UpTo(e, "withdrawal", k)) <= Cardinality(UpTo(e, "release", k))
  <2>1. \A k \in Nat : Cardinality(UpTo(d, "withdrawal", k)) <= Cardinality(UpTo(d, "release", k))
    BY <1>8 DEF Covered
  <2>2. Cardinality(Posted(e, "withdrawal")) <= Cardinality(Posted(e, "release"))
    BY <1>1, <1>3, <2>1
  <2>3. ASSUME NEW k \in Nat
        PROVE  Cardinality(UpTo(e, "withdrawal", k)) <= Cardinality(UpTo(e, "release", k))
    <3>1. PICK m \in Nat : m = IF k <= h THEN k ELSE h
      OBVIOUS
    <3>2. ASSUME NEW type \in JournalType PROVE UpTo(e, type, k) = UpTo(d, type, m)
      <4>1. \A b \in Posted(d, type) : Height[b] \in Nat
        BY TreeTypes DEF Covered
      <4>2. Posted(e, type) = {b \in Posted(d, type) : Height[b] <= h}
        BY <1>1 DEF UpTo
      <4> QED
        BY <3>1, <4>1, <4>2 DEF UpTo
    <3> QED
      BY <1>3, <2>1, <3>2
  <2> QED
    BY <2>2, <2>3
<1>9. e.reversed \subseteq e.journals
  BY DEF Covered, JournalsUndone
<1> QED
  BY <1>2, <1>7, <1>8, <1>9 DEF Covered

\* Those of the blocks C that a rewinding to height h takes back.
Higher(C, h) == {c \in C : Height[c] > h}

\* Rewind's work on the task's rows.
LEMMA BlocksRetracted ==
    ASSUME NEW C, C \subseteq Block, NEW h \in Nat, NEW B, B = Higher(C, h),
           NEW U, NEW d, RowsInv(d, C, U), NEW e, e = RetractBlocks(d, B), e.ok,
           NEW F, F = C \ B
    PROVE  /\ RowsInv(e, F, U)
           /\ LiveUnless(d, e, B)
<1>1. Supported(d, C) /\ Counted(d, C, U) /\ Covered(d, C) /\ d \in Database /\ B \subseteq Block
  BY DEF RowsInv, Supported, Higher
<1>2. /\ Supported(e, F)
      /\ Counted(e, F, U)
      /\ LiveUnless(d, e, B)
      /\ JournalsUndone(d, e, B)
      /\ d.live \in B => Affords(e, d.live)
  BY <1>1, RetractSupported
<1>3. Covered(e, F)
  BY <1>1, <1>2, RetractCovered DEF Higher, LiveUnless
<1> QED
  BY <1>2, <1>3 DEF RowsInv

\* ReconcileFundingAttempt's work: the attempt of tx no longer waits.
LEMMA AttemptReconciled ==
    ASSUME NEW C, C \subseteq Block, IsChain(C), NEW U, NEW d, RowsInv(d, C, U), d.ok,
           NEW tx \in Tx, d.attempt[tx] # "absent", NEW l, NEW x, x.ok,
           \/ \E b \in C : FailedIn[b] = tx /\ x = ProjectFundingTransaction(d, b, tx)
           \/ \E b \in C : Creates(b, tx) /\ x = Fund(d, b, tx, l)
           \/ x = d /\ \A b \in C : ~Creates(b, tx),
           NEW V, V = U \ {tx}
    PROVE  /\ RowsInv(x, C, V)
           /\ \/ x.live = d.live
              \/ d.live = None /\ x.live \in C /\ Has(x.live, "created")
<1>1. Supported(d, C) /\ Counted(d, C, U) /\ Covered(d, C)
  BY DEF RowsInv
<1>2. CASE \E b \in C : FailedIn[b] = tx /\ x = ProjectFundingTransaction(d, b, tx)
  <2>1. PICK b \in C : FailedIn[b] = tx /\ x = ProjectFundingTransaction(d, b, tx)
    BY <1>2
  <2>2. /\ Supported(x, C) /\ x.live = d.live /\ SameKnown(d, x)
        /\ x.journals = d.journals /\ x.reversed = d.reversed
    BY <1>1, <2>1, FailureSupported
  <2>3. \A c \in C : ~Creates(c, tx)
    BY <2>1, OneOutcome
  <2>4. Counted(x, C, V)
    BY <1>1, <2>2, <2>3 DEF Counted, SameKnown
  <2>5. Covered(x, C)
    BY <1>1, <2>2, SameLedger
  <2> QED
    BY <2>2, <2>4, <2>5 DEF RowsInv
<1>3. CASE \E b \in C : Creates(b, tx) /\ x = Fund(d, b, tx, l)
  <2>1. PICK b \in C : Creates(b, tx) /\ x = Fund(d, b, tx, l)
    BY <1>3
  <2>2. /\ Supported(x, C) /\ SameKnown(d, x)
        /\ x.journals = d.journals /\ x.reversed = d.reversed
        /\ \/ x = d /\ d.live = b
           \/ d.live = None /\ x.live = b
    BY <1>1, <2>1, FundSupported
  <2>3. \A c \in C : Creates(c, tx) => c = b
    BY <2>1, OneOutcome
  <2>4. x.live = b /\ b # None
    BY <2>2, ContentTypes
  <2>5. Counted(x, C, V)
    <3> SUFFICES ASSUME NEW c \in C, NEW u \in Tx, Creates(c, u), x.attempt[u] # "absent", u \notin V
                 PROVE  x.live = c
      BY DEF Counted
    <3>1. CASE u = tx
      BY <3>1, <2>3, <2>4
    <3>2. CASE u # tx
      <4>1. d.live = c /\ c # None
        BY <3>2, <1>1, <2>2, ContentTypes DEF Counted, SameKnown
      <4> QED
        BY <4>1, <2>2
    <3> QED
      BY <3>1, <3>2
  <2>6. Covered(x, C)
    BY <1>1, <2>2, <2>4, SameLedger, DepositCovers
  <2>7. Has(b, "created")
    BY <2>1 DEF Has, Creates
  <2> QED
    BY <2>2, <2>4, <2>5, <2>6, <2>7 DEF RowsInv
<1>4. CASE x = d /\ \A b \in C : ~Creates(b, tx)
  BY <1>1, <1>4 DEF RowsInv, Counted
<1> QED
  BY <1>2, <1>3, <1>4

-----------------------------------------------------------------------------
(* The system. *)

\* IndexIsChain and the rows that hang on it.
ChainInv ==
    /\ IndexInv
    /\ RowsInv(db, canonical, unreconciled) /\ db.ok
    /\ reorgs \in 0..MaxReorgs /\ late \in BOOLEAN /\ unreconciled \subseteq Tx /\ verified \in BOOLEAN

\* Before anything happened.
LEMMA ChainInit == Init => ChainInv
<1> SUFFICES ASSUME Init PROVE ChainInv
  OBVIOUS
<1>1. IndexInv
  BY IndexInit
<1>2. db \in Database
  BY TreeTypes DEF Init, Database, AttemptState, IntentStatus, TaskStatus, Account
<1>3. /\ \A tx \in Tx : db.attempt[tx] = "absent"
      /\ db.live = None /\ db.intent = "absent" /\ db.task = "pending_escrow"
      /\ db.journals = {} /\ db.reversed = {} /\ db.ok = TRUE
  BY DEF Init
<1>4. Supported(db, canonical) /\ Counted(db, canonical, unreconciled)
  BY <1>2, <1>3 DEF Supported, Counted, Failures
<1>5. Covered(db, canonical)
  <2>1. ASSUME NEW type PROVE Posted(db, type) = {}
    BY <1>3 DEF Posted
  <2>2. ASSUME NEW type, NEW h PROVE UpTo(db, type, h) = {}
    BY <2>1 DEF UpTo
  <2>3. IsFiniteSet({}) /\ Cardinality({}) = 0
    BY FS_EmptySet
  <2>4. EscrowBalance(db) = 0 - Payable * 0 - Budget * 0
    BY <1>3, <2>1, <2>3 DEF EscrowBalance
  <2>5. EscrowBalance(db) >= 0
    BY <2>4, ContentTypes
  <2>6. \A type \in JournalType : IsFiniteSet(Posted(db, type)) /\ Posted(db, type) \subseteq canonical
    BY <2>1, <2>3
  <2>7. Cardinality(Posted(db, "withdrawal")) <= Cardinality(Posted(db, "release"))
    BY <2>1, <2>3
  <2>8. \A h \in Nat : Cardinality(UpTo(db, "withdrawal", h)) <= Cardinality(UpTo(db, "release", h))
    BY <2>2, <2>3
  <2> QED
    BY <1>3, <2>5, <2>6, <2>7, <2>8 DEF Covered
<1>6. RowsInv(db, canonical, unreconciled)
  BY <1>4, <1>5 DEF RowsInv
<1>7. /\ reorgs \in 0..MaxReorgs /\ late \in BOOLEAN /\ unreconciled \subseteq Tx
      /\ verified \in BOOLEAN
  <2>1. reorgs = 0 /\ unreconciled = {} /\ late = FALSE /\ verified = FALSE
    BY Zenon DEF Init
  <2>2. reorgs \in 0..MaxReorgs
    BY <2>1, TreeTypes
  <2> QED
    BY <2>1, <2>2, Zenon
<1>8. db.ok
  BY <1>3
<1> QED
  BY <1>1, <1>6, <1>7, <1>8 DEF ChainInv

\* Steps of the other services that leave funding and ledger alone.
LEMMA RowsMinor ==
    ASSUME NEW C, NEW U, NEW d, RowsInv(d, C, U), NEW x \in Database,
           x.attempt = d.attempt, x.evidence = d.evidence, x.intentTx = d.intentTx, x.live = d.live,
           SameJournals(d, x),
           x.intent = d.intent \/ (d.intent = "absent" /\ x.intent = "prepared"),
           x.task \in {"escrowed", "awaiting_selection", "assigned"} =>
               d.task \in {"escrowed", "awaiting_selection", "assigned"}
    PROVE  RowsInv(x, C, U)
<1>1. Supported(x, C)
  BY DEF RowsInv, Supported, Failures
<1>2. Counted(x, C, U)
  BY DEF RowsInv, Counted
<1>3. Covered(x, C)
  BY SameLedger DEF RowsInv, SameJournals
<1> QED
  BY <1>1, <1>2, <1>3 DEF RowsInv

\* The rows after Submit(tx).
Submitted(d, tx) ==
    [d EXCEPT !.attempt = [t \in Tx |-> IF t = tx THEN "submitted"
                                        ELSE IF t = d.intentTx /\ d.attempt[t] \in Replaceable
                                             THEN "superseded" ELSE d.attempt[t]],
              !.intent = "submitted", !.intentTx = tx]

\* A new attempt waits for its reconciliation.
LEMMA RowsSubmitted ==
    ASSUME NEW C, C \subseteq Block, NEW U, NEW d, RowsInv(d, C, U), d.ok, NEW tx \in Tx, d.attempt[tx] = "absent",
           d.intent \in {"prepared", "orphaned", "failed", "submitted"},
           NEW x, x = Submitted(d, tx), NEW V, V = U \cup {tx}
    PROVE  RowsInv(x, C, V) /\ x.ok /\ x.live = d.live
<1>g. PICK g : g = [t \in Tx |-> IF t = tx THEN "submitted"
                                 ELSE IF t = d.intentTx /\ d.attempt[t] \in Replaceable
                                      THEN "superseded" ELSE d.attempt[t]]
  OBVIOUS
<1>x. x = [d EXCEPT !.attempt = g, !.intent = "submitted", !.intentTx = tx]
  BY <1>g DEF Submitted
<1>0. d \in Database /\ d.attempt \in [Tx -> AttemptState] /\ Supported(d, C)
  BY DEF RowsInv, Supported, Database
<1>1. g \in [Tx -> AttemptState]
  BY <1>0, <1>g DEF AttemptState
<1>2. x \in Database
  BY <1>0, <1>1, <1>x DEF Database, IntentStatus
<1>3. /\ x.attempt = g /\ x.intent = "submitted" /\ x.intentTx = tx /\ x.live = d.live
      /\ x.evidence = d.evidence /\ x.task = d.task /\ SameJournals(d, x)
  BY <1>0, <1>x DEF Database, SameJournals
<1>4. x.ok
  BY <1>0, <1>x DEF Database
<1>5. d.live = None
  BY <1>0 DEF Supported
<1>6. \A t \in Tx : /\ g[t] = "observed_failed" => d.attempt[t] = "observed_failed"
                    /\ g[t] = "canonical_confirmed" => d.attempt[t] = "canonical_confirmed"
                    /\ g[t] # "absent" /\ t # tx => d.attempt[t] # "absent"
  BY <1>g DEF Replaceable
<1>7. Supported(x, C)
  BY <1>0, <1>2, <1>3, <1>5, <1>6 DEF Supported, Failures
<1>8. Counted(x, C, V)
  BY <1>3, <1>6 DEF RowsInv, Counted
<1>9. Covered(x, C)
  <2>1. x.live = d.live /\ x.journals = d.journals /\ x.reversed = d.reversed
    BY <1>3 DEF SameJournals
  <2>2. Covered(d, C)
    BY DEF RowsInv
  <2> QED
    BY <2>1, <2>2, SameLedger, Zenon
<1> QED
  BY <1>3, <1>4, <1>7, <1>8, <1>9 DEF RowsInv

\* Neither the index nor the deposit counted.
LEMMA IndexStands ==
    ASSUME canonical' = canonical, db'.live = db.live
    PROVE  UNCHANGED Index!indexVars
BY DEF Index!indexVars

\* A step after which the rows are in order and the index moved as it may.
Orderly ==
    /\ RowsInv(db, canonical, unreconciled)' /\ db'.ok
    /\ reorgs' \in 0..MaxReorgs /\ late' \in BOOLEAN /\ unreconciled' \subseteq Tx /\ verified' \in BOOLEAN
    /\ Index!IndexNext \/ UNCHANGED Index!indexVars

\* A step that leaves the rows and the index alone.
LEMMA RowsStand ==
    ASSUME ChainInv, UNCHANGED <<canonical, db, unreconciled>>,
           reorgs' \in 0..MaxReorgs, late' \in BOOLEAN, verified' \in BOOLEAN
    PROVE  Orderly
<1>1. UNCHANGED Index!indexVars
  BY IndexStands
<1>2. RowsInv(db, canonical, unreconciled)'
  BY DEF ChainInv, RowsInv, Supported, Counted, Covered, Failures, UpTo, Posted, EscrowBalance, Creates
<1> QED
  BY <1>1, <1>2 DEF ChainInv, Orderly

\* A step of another service on the task's rows.
LEMMA RowsTouched ==
    ASSUME ChainInv, UNCHANGED <<nodeVars, indexVars, late, verified>>, unreconciled' \subseteq Tx,
           NEW x, db' = x, x.ok, x.live = db.live, NEW U, U = unreconciled', RowsInv(x, canonical, U)
    PROVE  Orderly
<1>1. UNCHANGED Index!indexVars
  BY IndexStands DEF indexVars
<1>2. RowsInv(db', canonical', unreconciled')
  BY DEF indexVars
<1>3. RowsInv(db, canonical, unreconciled)'
  BY <1>2 
<1> QED
  BY <1>1, <1>3 DEF ChainInv, Orderly, nodeVars

\* Steps of taskfunding, workflow and selection.
LEMMA ServicesOrderly ==
    ASSUME ChainInv,
           \/ Prepare \/ DeadlinePasses \/ AwaitSelection \/ Reserve \/ VerifySelection \/ Confirm
           \/ \E tx \in Tx : Submit(tx) \/ ReconcileFundingAttempt(tx)
    PROVE  Orderly
<1>r. RowsInv(db, canonical, unreconciled) /\ db.ok /\ db \in Database /\ Supported(db, canonical)
  BY DEF ChainInv, RowsInv, Supported
<1>u. canonical \subseteq Block /\ IsChain(canonical) /\ unreconciled \subseteq Tx
  BY DEF ChainInv, IndexInv, IndexIsChain
<1>m. ASSUME NEW x \in Database, db' = x, UNCHANGED <<nodeVars, indexVars, callerVars>>, x.ok,
             x.attempt = db.attempt, x.evidence = db.evidence, x.intentTx = db.intentTx, x.live = db.live,
             x.journals = db.journals, x.reversed = db.reversed,
             x.intent = db.intent \/ (db.intent = "absent" /\ x.intent = "prepared"),
             x.task \in {"escrowed", "awaiting_selection", "assigned"} =>
                 db.task \in {"escrowed", "awaiting_selection", "assigned"}
      PROVE  Orderly
  <2>1. SameJournals(db, x)
    BY <1>m DEF SameJournals
  <2>2. RowsInv(x, canonical, unreconciled)
    BY <1>m, <1>r, <2>1, RowsMinor
  <2>3. unreconciled' = unreconciled /\ late' = late /\ verified' = verified
    BY <1>m DEF callerVars
  <2> QED
    BY <1>m, <1>u, <2>2, <2>3, RowsTouched
<1>1. CASE Prepare
  <2>1. PICK x : x = [db EXCEPT !.intent = "prepared"]
    OBVIOUS
  <2>2. x \in Database /\ x.ok
    BY <1>r, <2>1 DEF Database, IntentStatus
  <2>3. /\ x.attempt = db.attempt /\ x.evidence = db.evidence /\ x.intentTx = db.intentTx /\ x.live = db.live
        /\ x.journals = db.journals /\ x.reversed = db.reversed /\ x.task = db.task /\ x.intent = "prepared"
    BY <1>r, <2>1 DEF Database
  <2>4. db' = x /\ UNCHANGED <<nodeVars, indexVars, callerVars>> /\ db.intent = "absent"
    BY <1>1, <2>1 DEF Prepare
  <2> QED
    BY <1>m, <2>2, <2>3, <2>4
<1>2. CASE AwaitSelection
  <2>1. PICK x : x = [db EXCEPT !.task = "awaiting_selection"]
    OBVIOUS
  <2>2. x \in Database /\ x.ok
    BY <1>r, <2>1 DEF Database, TaskStatus
  <2>3. /\ x.attempt = db.attempt /\ x.evidence = db.evidence /\ x.intentTx = db.intentTx /\ x.live = db.live
        /\ x.journals = db.journals /\ x.reversed = db.reversed /\ x.intent = db.intent
    BY <1>r, <2>1 DEF Database
  <2>4. db' = x /\ UNCHANGED <<nodeVars, indexVars, callerVars>> /\ db.task = "escrowed"
    BY <1>2, <2>1 DEF AwaitSelection
  <2> QED
    BY <1>m, <2>2, <2>3, <2>4
<1>3. CASE Reserve
  <2>1. PICK x : x = [db EXCEPT !.reservation = "reserved"]
    OBVIOUS
  <2>2. x \in Database /\ x.ok
    BY <1>r, <2>1 DEF Database
  <2>3. /\ x.attempt = db.attempt /\ x.evidence = db.evidence /\ x.intentTx = db.intentTx /\ x.live = db.live
        /\ x.journals = db.journals /\ x.reversed = db.reversed /\ x.intent = db.intent /\ x.task = db.task
    BY <1>r, <2>1 DEF Database
  <2>4. db' = x /\ UNCHANGED <<nodeVars, indexVars, callerVars>>
    BY <1>3, <2>1 DEF Reserve
  <2> QED
    BY <1>m, <2>2, <2>3, <2>4
<1>4. CASE Confirm
  <2>1. PICK x : x = [db EXCEPT !.assignment = "active", !.reservation = "confirmed", !.task = "assigned"]
    OBVIOUS
  <2>2. x \in Database /\ x.ok
    BY <1>r, <2>1 DEF Database, TaskStatus
  <2>3. /\ x.attempt = db.attempt /\ x.evidence = db.evidence /\ x.intentTx = db.intentTx /\ x.live = db.live
        /\ x.journals = db.journals /\ x.reversed = db.reversed /\ x.intent = db.intent
    BY <1>r, <2>1 DEF Database
  <2>4. db' = x /\ UNCHANGED <<nodeVars, indexVars, callerVars>> /\ db.task = "awaiting_selection"
    BY <1>4, <2>1 DEF Confirm
  <2> QED
    BY <1>m, <2>2, <2>3, <2>4
<1>5. CASE DeadlinePasses
  BY <1>5, RowsStand DEF DeadlinePasses, ChainInv, nodeVars, indexVars
<1>6. CASE VerifySelection
  BY <1>6, RowsStand DEF VerifySelection, ChainInv, nodeVars, indexVars
<1>7. ASSUME NEW tx \in Tx, Submit(tx) PROVE Orderly
  <2>1. PICK x : x = Submitted(db, tx)
    OBVIOUS
  <2>2. db' = x
    BY <1>7, <1>r, <2>1 DEF Submit, Submitted, Database
  <2>4. PICK U : U = unreconciled \cup {tx}
    OBVIOUS
  <2>5. db.attempt[tx] = "absent" /\ db.intent \in {"prepared", "orphaned", "failed", "submitted"}
    BY <1>7 DEF Submit
  <2>6. RowsInv(x, canonical, U) /\ x.ok /\ x.live = db.live
    BY <1>r, <1>u, <2>1, <2>4, <2>5, RowsSubmitted
  <2>7. U = unreconciled' /\ unreconciled' \subseteq Tx /\ UNCHANGED <<nodeVars, indexVars, late, verified>>
    BY <1>7, <1>u, <2>4 DEF Submit
  <2> QED
    BY <2>2, <2>6, <2>7, RowsTouched
<1>8. ASSUME NEW tx \in Tx, ReconcileFundingAttempt(tx) PROVE Orderly
  <2>1. PICK x : x = Reconciled(tx)
    OBVIOUS
  <2>2. /\ db.attempt[tx] # "absent" /\ x.ok /\ db' = x /\ unreconciled' = unreconciled \ {tx}
        /\ UNCHANGED <<nodeVars, indexVars, late, verified>>
    BY <1>8, <2>1 DEF ReconcileFundingAttempt
  <2> DEFINE failed == {b \in canonical : FailedIn[b] = tx}
             created == {b \in canonical : Creates(b, tx)}
  <2>3. \/ \E b \in canonical : FailedIn[b] = tx /\ x = ProjectFundingTransaction(db, b, tx)
        \/ \E b \in canonical : Creates(b, tx) /\ x = Fund(db, b, tx, late)
        \/ x = db /\ \A b \in canonical : ~Creates(b, tx)
    <3>1. CASE failed # {}
      <4>1. PICK b : b = CHOOSE c \in failed : TRUE
        OBVIOUS
      <4>2. b \in failed
        BY <3>1, <4>1
      <4>3. x = ProjectFundingTransaction(db, b, tx)
        BY <2>1, <3>1, <4>1 DEF Reconciled
      <4> QED
        BY <4>2, <4>3
    <3>2. CASE failed = {} /\ created # {}
      <4>1. PICK b : b = CHOOSE c \in created : TRUE
        OBVIOUS
      <4>2. b \in created
        BY <3>2, <4>1
      <4>3. x = Fund(db, b, tx, late)
        BY <2>1, <3>2, <4>1 DEF Reconciled
      <4> QED
        BY <4>2, <4>3
    <3>3. CASE failed = {} /\ created = {}
      BY <2>1, <3>3 DEF Reconciled
    <3> QED
      BY <3>1, <3>2, <3>3
  <2>4. PICK U : U = unreconciled \ {tx}
    OBVIOUS
  <2>5. /\ RowsInv(x, canonical, U)
        /\ \/ x.live = db.live
           \/ db.live = None /\ x.live \in canonical /\ Has(x.live, "created")
    BY <1>r, <1>u, <2>2, <2>3, <2>4, AttemptReconciled
  <2>6. U = unreconciled' /\ unreconciled' \subseteq Tx
    BY <1>u, <2>2, <2>4
  <2>7. CASE x.live = db.live
    BY <2>2, <2>5, <2>6, <2>7, RowsTouched
  <2>8. CASE db.live = None /\ x.live \in canonical /\ Has(x.live, "created")
    <3>1. PICK b \in canonical : b = x.live
      BY <2>8
    <3>2. b \in Block /\ b # None /\ Has(b, "created") /\ db'.live = b
      BY <1>u, <2>2, <2>8, <3>1, ContentTypes
    <3>3. canonical' = canonical
      BY <2>2 DEF indexVars
    <3>4. Index!Count(b)
      BY <2>8, <3>1, <3>2, <3>3 DEF Index!Count
    <3>5. Index!IndexNext
      BY <3>2, <3>4 DEF Index!IndexNext
    <3>6. RowsInv(db, canonical, unreconciled)'
      <4>1. RowsInv(db', canonical', unreconciled')
        BY <2>2, <2>5, <2>6, <3>3
      <4> QED
        BY <4>1
    <3> QED
      BY <2>2, <2>6, <3>5, <3>6 DEF Orderly, ChainInv, nodeVars
  <2> QED
    BY <2>5, <2>7, <2>8
<1> QED
  BY <1>1, <1>2, <1>3, <1>4, <1>5, <1>6, <1>7, <1>8

\* Under the lock, the block a projector applies is new and higher than the others.
LEMMA ApplyOrderly ==
    ASSUME ChainInv, NEW p \in Projector, ApplyBlock(p)
    PROVE  Orderly
<1>1. PICK b \in Block : b = sync[p].block
  BY DEF ApplyBlock, ChainInv, IndexInv, PlaceTypes, PlaceOK
<1>2. /\ Continues(b) /\ Applied(b).ok /\ canonical' = canonical \cup {b} /\ cursor' = b
      /\ db' = Applied(b) /\ UNCHANGED <<nodeVars, callerVars>>
  BY <1>1 DEF ApplyBlock
<1>3. canonical \subseteq Block /\ RowsInv(db, canonical, unreconciled) /\ db.ok
  BY DEF ChainInv, IndexInv
<1>4. b \notin canonical /\ \A c \in canonical : Height[c] <= Height[b]
  <2>1. b \notin canonical
    BY <1>2 DEF Continues
  <2>2. CASE cursor = None
    <3>1. canonical = {}
      BY <1>2, <2>2 DEF Continues, ChainInv, IndexInv
    <3> QED
      BY <2>1, <3>1
  <2>3. CASE cursor # None
    <3>1. /\ b # Root /\ Parent[b] = cursor /\ cursor \in canonical
          /\ \A c \in canonical : Height[c] <= Height[cursor]
      BY <1>2, <2>3 DEF Continues, ChainInv, IndexInv, IndexIsChain
    <3>2. Height[b] = Height[cursor] + 1 /\ cursor \in Block
      BY <1>3, <3>1, TreeTypes
    <3> QED
      BY <1>3, <2>1, <3>1, <3>2, TreeTypes
  <2> QED
    BY <2>2, <2>3
<1>5. PICK x : x = ProjectBlock(db, b, late)
  OBVIOUS
<1>6. PICK C : C = canonical \cup {b}
  OBVIOUS
<1>7. x = Applied(b) /\ x.ok /\ Tops(b, canonical)
  BY <1>2, <1>4, <1>5 DEF Applied, Tops
<1>8. /\ RowsInv(x, C, unreconciled)
      /\ LiveSince(db, x, b)
  BY <1>3, <1>4, <1>5, <1>6, <1>7, BlockProjected
<1>9. RowsInv(db, canonical, unreconciled)' /\ db'.ok
  <2>1. db' = x /\ canonical' = C /\ unreconciled' = unreconciled
    BY <1>2, <1>6, <1>7 DEF callerVars
  <2>2. RowsInv(db', canonical', unreconciled')
    BY <1>8, <2>1
  <2> QED
    BY <1>7, <2>1, <2>2
<1>10. Index!IndexNext
  <2>1. \/ canonical = {} /\ b = Root
        \/ b # Root /\ Index!IsTip(Parent[b])
    BY <1>2 DEF Continues, ChainInv, IndexInv, IndexIsChain, Index!IsTip
  <2>2. b # None /\ db'.live = x.live
    BY <1>2, <1>7, ContentTypes
  <2>3. CASE x.live = db.live
    <3>1. Index!Extend(b)
      BY <1>2, <2>1, <2>2, <2>3 DEF Index!Extend
    <3> QED
      BY <3>1 DEF Index!IndexNext
  <2>4. CASE db.live = None /\ x.live = b /\ Has(b, "created")
    <3>1. Index!Extend(b)
      BY <1>2, <2>1, <2>2, <2>4 DEF Index!Extend
    <3> QED
      BY <3>1 DEF Index!IndexNext
  <2> QED
    BY <1>8, <2>3, <2>4 DEF LiveSince
<1> QED
  BY <1>2, <1>9, <1>10 DEF Orderly, ChainInv, nodeVars, callerVars

\* However stale the ancestor, what is above it goes with all it did.
LEMMA RewindOrderly ==
    ASSUME ChainInv, NEW p \in Projector, Rewind(p)
    PROVE  Orderly
<1>1. PICK h \in Nat : h = sync[p].height /\ \E b \in Block : Height[b] = h
  BY DEF Rewind, ChainInv, IndexInv, PlaceTypes, PlaceOK, Place
<1>2. CASE ~Rewound(h).ok
  <2>1. UNCHANGED <<canonical, db, unreconciled, reorgs, late, verified>>
    BY <1>1, <1>2 DEF Rewind, nodeVars, indexVars, callerVars
  <2> QED
    BY <2>1, RowsStand DEF ChainInv
<1>3. CASE Rewound(h).ok
  <2>1. /\ db' = Rewound(h) /\ canonical' = canonical \ Above(canonical, h)
        /\ UNCHANGED <<nodeVars, callerVars>>
    BY <1>1, <1>3 DEF Rewind
  <2>2. canonical \subseteq Block /\ RowsInv(db, canonical, unreconciled)
    BY DEF ChainInv, IndexInv
  <2>3. PICK B : B = Higher(canonical, h)
    OBVIOUS
  <2>4. PICK F : F = canonical \ B
    OBVIOUS
  <2>5. PICK x : x = RetractBlocks(db, B)
    OBVIOUS
  <2>6. B = Above(canonical, h) /\ x = Rewound(h) /\ x.ok
    BY <1>3, <2>3, <2>5 DEF Above, Rewound, Higher
  <2>7. RowsInv(x, F, unreconciled) /\ LiveUnless(db, x, B)
    BY <2>2, <2>3, <2>4, <2>5, <2>6, BlocksRetracted
  <2>8. db' = x /\ canonical' = F /\ unreconciled' = unreconciled
    BY <2>1, <2>4, <2>6 DEF callerVars
  <2>9. RowsInv(db, canonical, unreconciled)' /\ db'.ok
    <3>1. RowsInv(db', canonical', unreconciled')
      BY <2>7, <2>8
    <3> QED
      BY <2>6, <2>8, <3>1
  <2>10. Index!IndexNext
    <3>1. PICK b \in Block : Height[b] = h
      BY <1>1
    <3>2. canonical' = {c \in canonical : Height[c] <= Height[b]}
      BY <2>2, <2>3, <2>4, <2>8, <3>1, TreeTypes DEF Higher
    <3>3. db.live # None => db.live \in canonical
      BY <2>2 DEF RowsInv, Supported
    <3>4. db'.live = IF db.live \in B THEN None ELSE db.live
      BY <2>7, <2>8 DEF LiveUnless
    <3>5. (IF db.live = None THEN {} ELSE {db.live})'
            = (IF db.live = None THEN {} ELSE {db.live}) \cap canonical'
      <4>1. CASE db.live = None
        BY <2>2, <2>3, <3>4, <4>1, ContentTypes DEF Higher
      <4>2. CASE db.live # None /\ db.live \in B
        BY <2>4, <2>8, <3>4, <4>2
      <4>3. CASE db.live # None /\ db.live \notin B
        BY <2>4, <2>8, <3>3, <3>4, <4>3
      <4> QED
        BY <4>1, <4>2, <4>3
    <3>6. Index!Retract(Height[b])
      BY <3>2, <3>5 DEF Index!Retract
    <3> QED
      BY <3>6 DEF Index!IndexNext
  <2> QED
    BY <2>1, <2>9, <2>10 DEF Orderly, ChainInv, nodeVars, callerVars
<1> QED
  BY <1>2, <1>3

\* Every step keeps the invariant and moves the index as CanonicalIndex promises.
LEMMA ChainStep ==
    ChainInv /\ [Next]_vars => ChainInv' /\ [Index!IndexNext]_(Index!indexVars)
<1> SUFFICES ASSUME ChainInv, [Next]_vars
             PROVE  ChainInv' /\ (Index!IndexNext \/ UNCHANGED Index!indexVars)
  OBVIOUS
<1>1. IndexInv'
  BY IndexStep DEF ChainInv
<1>2. ASSUME NEW b \in Block, Mine(b) \/ Reorganise(b) PROVE Orderly
  <2>1. reorgs' \in 0..MaxReorgs
    BY <1>2, TreeTypes DEF Mine, Reorganise, ChainInv
  <2>2. UNCHANGED <<canonical, db, unreconciled, late, verified>>
    BY <1>2 DEF Mine, Reorganise, indexVars, callerVars
  <2> QED
    BY <2>1, <2>2, RowsStand DEF ChainInv
<1>3. ASSUME NEW p \in Projector, SyncOnce(p) PROVE Orderly
  <2>1. CASE ApplyBlock(p)
    BY <2>1, ApplyOrderly
  <2>2. CASE Rewind(p)
    BY <2>2, RewindOrderly
  <2>3. CASE ReadHead(p) \/ ReadCursor(p) \/ FetchBlock(p) \/ ApplyRefused(p) \/ ReadCanonical(p) \/ CompareHash(p)
    <3>1. UNCHANGED <<nodeVars, indexVars, db, callerVars>>
      BY <2>3 DEF ReadHead, ReadCursor, FetchBlock, ApplyRefused, ReadCanonical, CompareHash
    <3>2. UNCHANGED <<canonical, db, unreconciled, reorgs, late, verified>>
      BY <3>1 DEF nodeVars, indexVars, callerVars
    <3> QED
      BY <3>2, RowsStand DEF ChainInv
  <2> QED
    BY <1>3, <2>1, <2>2, <2>3 DEF SyncOnce
<1>4. CASE UNCHANGED vars
  <2>1. UNCHANGED <<canonical, db, unreconciled, reorgs, late, verified>>
    BY <1>4 DEF vars, nodeVars, indexVars, callerVars
  <2> QED
    BY <2>1, RowsStand, <1>1 DEF ChainInv, Orderly
<1>5. CASE Next
  <2>1. Orderly
    BY <1>2, <1>3, <1>5, ServicesOrderly DEF Next
  <2> QED
    BY <1>1, <2>1 DEF ChainInv, Orderly
<1> QED
  BY <1>4, <1>5

\* Intent, attempts and the deposit counted say of every transaction what the
\* canonical chain says of it, for every tree of blocks and whatever the order in which
\* blocks, submissions, reconciliations and changes of branch come.
THEOREM ChainIsFollowed == Spec => []FollowsChain
<1>1. ChainInv => FollowsChain
  <2> SUFFICES ASSUME ChainInv PROVE FollowsChain
    OBVIOUS
  <2>1. /\ IndexInv /\ Supported(db, canonical) /\ Counted(db, canonical, unreconciled)
        /\ db \in Database /\ canonical \subseteq Block
    BY DEF ChainInv, RowsInv, Supported, IndexInv
  <2>2. TypeOK
    BY <2>1 DEF ChainInv, IndexInv, PlaceTypes, Place, TypeOK
  <2>3. FundingFollowsChain
    <3> SUFFICES ASSUME NEW b \in Block, NEW tx \in Tx, Creates(b, tx)
                 PROVE  /\ db.live = b =>
                             /\ b \in canonical /\ db.attempt[tx] = "canonical_confirmed"
                             /\ db.intent = "confirmed" /\ db.intentTx = tx
                        /\ b \in canonical /\ db.attempt[tx] # "absent" /\ tx \notin unreconciled => db.live = b
                        /\ db.attempt[tx] = "canonical_confirmed" =>
                             \E c \in canonical : db.live = c /\ Creates(c, tx)
      BY DEF FundingFollowsChain
    <3>1. ASSUME db.live = b
          PROVE  /\ b \in canonical /\ db.attempt[tx] = "canonical_confirmed"
                 /\ db.intent = "confirmed" /\ db.intentTx = tx
      <4>1. b # None
        BY ContentTypes
      <4>2. /\ b \in canonical /\ db.intent = "confirmed" /\ db.intentTx \in Tx
            /\ Creates(b, db.intentTx) /\ db.attempt[db.intentTx] = "canonical_confirmed"
        BY <2>1, <3>1, <4>1 DEF Supported
      <4>3. db.intentTx = tx
        BY <4>2, OneCreation
      <4> QED
        BY <4>2, <4>3
    <3>2. b \in canonical /\ db.attempt[tx] # "absent" /\ tx \notin unreconciled => db.live = b
      BY <2>1 DEF Counted
    <3>3. db.attempt[tx] = "canonical_confirmed" => \E c \in canonical : db.live = c /\ Creates(c, tx)
      BY <2>1 DEF Supported
    <3> QED
      BY <3>1, <3>2, <3>3
  <2>4. FailureFollowsChain
    BY <2>1 DEF FailureFollowsChain, Supported, Failures
  <2> QED
    BY <2>2, <2>3, <2>4 DEF FollowsChain
<1> QED
  BY ChainInit, ChainStep, <1>1, PTL DEF Spec

\* Nobody works on a task whose deposit is not on the canonical chain, however deep
\* the reorganisation that took it (reverseSettlementBlock).
THEOREM WorkIsFunded == Spec => []NoWorkUnfunded
<1>1. ChainInv => NoWorkUnfunded
  BY DEF ChainInv, RowsInv, Supported, NoWorkUnfunded
<1> QED
  BY ChainInit, ChainStep, <1>1, PTL DEF Spec

\* No journal that counts outlives its block, for every tree and every rewinding.
THEOREM NoEffectIsOrphan == Spec => []NoOrphanEffect
<1>1. ChainInv => NoOrphanEffect
  BY DEF ChainInv, RowsInv, Covered, NoOrphanEffect
<1> QED
  BY ChainInit, ChainStep, <1>1, PTL DEF Spec

\* Neither the task's escrow nor the agent's receivable is ever overdrawn, though no
\* constraint protects the receivable (projectSettlementEvent, reverseSettlementBlock).
THEOREM LedgerStaysCovered == Spec => []LedgerCovered
<1>1. ChainInv => LedgerCovered
  <2> SUFFICES ASSUME ChainInv PROVE LedgerCovered
    OBVIOUS
  <2>1. Covered(db, canonical)
    BY DEF ChainInv, RowsInv
  <2>2. "release" \in JournalType /\ "withdrawal" \in JournalType
    BY DEF JournalType
  <2>3. PICK r \in Nat, w \in Nat :
           r = Cardinality(Posted(db, "release")) /\ w = Cardinality(Posted(db, "withdrawal"))
    BY <2>1, <2>2, Balances
  <2>4. ReceivableBalance(db) = Payable * (r - w)
    BY <2>3 DEF ReceivableBalance
  <2>5. Payable # 0 => w <= r
    BY <2>1, <2>3 DEF Covered
  <2>6. Payable * (r - w) >= 0
    <3>1. CASE Payable = 0
      BY <3>1
    <3>2. CASE Payable # 0
      <4>1. r - w \in Nat /\ Payable \in Nat
        BY <2>5, <3>2, ContentTypes
      <4> QED
        BY <4>1
    <3> QED
      BY <3>1, <3>2
  <2>7. EscrowBalance(db) >= 0
    BY <2>1 DEF Covered
  <2> QED
    BY <2>4, <2>6, <2>7 DEF LedgerCovered
<1> QED
  BY ChainInit, ChainStep, <1>1, PTL DEF Spec

\* The index only grows and shrinks at its tip, and the deposit is counted while the
\* block that carries it is in the index and never twice: what the rest of the engine
\* may rely on holds for every interleaving of projectors, services and node.
THEOREM IndexKeepsPromise == Spec => IndexHolds
<1>1. Init => Index!IndexInit
  BY DEF Init, Index!IndexInit
<1>2. Spec => []ChainInv
  BY ChainInit, ChainStep, PTL DEF Spec
<1>3. ChainInv /\ [Next]_vars => [Index!IndexNext]_(Index!indexVars)
  BY ChainStep
<1> QED
  BY <1>1, <1>2, <1>3, PTL DEF Spec, IndexHolds, Index!IndexSpec

-----------------------------------------------------------------------------
(* The comparison of inventories. *)

\* A branch and the way to it.
BranchStep(f) == [b \in Block |-> IF b = Root THEN {Root} ELSE f[Parent[b]] \cup {b}]

\* The parents of a set's blocks are in it.
Closed(S) == \A b \in S : b = Root \/ Parent[b] \in S

\* The recursive definition of Branch has a solution: the blocks in every closed set
\* around a block.
LEMMA BranchUnfolds == Branch = BranchStep(Branch)
<1> DEFINE Around(b) == {S \in SUBSET Block : b \in S /\ Closed(S)}
           Way(b) == {c \in Block : \A S \in Around(b) : c \in S}
           f == [b \in Block |-> Way(b)]
<1>1. Way(Root) = {Root}
  <2>1. {Root} \in Around(Root)
    BY TreeTypes DEF Closed
  <2> QED
    BY <2>1, TreeTypes
<1>2. ASSUME NEW b \in Block, b # Root PROVE Way(b) = Way(Parent[b]) \cup {b}
  <2>1. Parent[b] \in Block
    BY <1>2, TreeTypes
  <2>2. ASSUME NEW c \in Way(b), c # b PROVE c \in Way(Parent[b])
    <3> SUFFICES ASSUME NEW S \in Around(Parent[b]) PROVE c \in S
      OBVIOUS
    <3>1. S \cup {b} \in Around(b)
      BY DEF Closed
    <3> QED
      BY <2>2, <3>1
  <2>3. ASSUME NEW c \in Way(Parent[b]) PROVE c \in Way(b)
    <3> SUFFICES ASSUME NEW S \in Around(b) PROVE c \in S
      OBVIOUS
    <3>1. S \in Around(Parent[b])
      BY <1>2 DEF Closed
    <3> QED
      BY <2>3, <3>1
  <2>4. b \in Way(b)
    OBVIOUS
  <2> QED
    BY <2>2, <2>3, <2>4
<1>3. \A b \in Block : Way(b) = IF b = Root THEN {Root} ELSE f[Parent[b]] \cup {b}
  <2> SUFFICES ASSUME NEW b \in Block PROVE Way(b) = IF b = Root THEN {Root} ELSE f[Parent[b]] \cup {b}
    OBVIOUS
  <2>1. CASE b = Root
    BY <1>1, <2>1
  <2>2. CASE b # Root
    <3>1. Parent[b] \in Block
      BY <2>2, TreeTypes
    <3>2. f[Parent[b]] = Way(Parent[b])
      BY <3>1
    <3> QED
      BY <1>2, <2>2, <3>2
  <2> QED
    BY <2>1, <2>2
<1> HIDE DEF Way
<1>4. f = [b \in Block |-> IF b = Root THEN {Root} ELSE f[Parent[b]] \cup {b}]
  BY <1>3, Zenon
<1>5. \E g : g = [b \in Block |-> IF b = Root THEN {Root} ELSE g[Parent[b]] \cup {b}]
  BY <1>4, Zenon
<1> QED
  BY <1>5, Zenon DEF Branch, BranchStep

\* On a chain the branch of a block is the chain up to its height.
LEMMA BranchOnChain ==
    ASSUME NEW K, K \subseteq Block, IsChain(K), NEW b \in K
    PROVE  Branch[b] = {c \in K : Height[c] <= Height[b]}
<1> DEFINE Below(n) == {c \in K : Height[c] <= n}
           S == {n \in Nat : \A x \in K : Height[x] = n => Branch[x] = Below(n)}
<1>1. /\ \A x \in K : x \in Block /\ Height[x] \in Nat
      /\ \A x \in K : x # Root => Parent[x] \in K /\ Height[x] = Height[Parent[x]] + 1
      /\ Height[Root] = 0
      /\ \A x, y \in K : Height[x] = Height[y] => x = y
  BY TreeTypes DEF IsChain
<1>2. \A x \in Block : Branch[x] = IF x = Root THEN {Root} ELSE Branch[Parent[x]] \cup {x}
  BY BranchUnfolds DEF BranchStep
<1>3. 0 \in S
  <2> SUFFICES ASSUME NEW x \in K, Height[x] = 0 PROVE Branch[x] = Below(0)
    OBVIOUS
  <2>1. x = Root
    <3>1. ASSUME x # Root PROVE FALSE
      <4>1. Height[Parent[x]] \in Nat /\ Height[x] = Height[Parent[x]] + 1
        BY <1>1, <3>1
      <4> QED
        BY <4>1
    <3> QED
      BY <3>1
  <2>2. Below(0) = {x}
    <3>1. \A c \in K : Height[c] <= 0 => Height[c] = Height[x]
      BY <1>1
    <3> QED
      BY <1>1, <3>1
  <2> QED
    BY <1>1, <1>2, <2>1, <2>2
<1>4. ASSUME NEW n \in Nat, n # 0, n - 1 \in S PROVE n \in S
  <2> SUFFICES ASSUME NEW x \in K, Height[x] = n PROVE Branch[x] = Below(n)
    OBVIOUS
  <2>1. x # Root /\ Parent[x] \in K /\ Height[Parent[x]] = n - 1
    BY <1>1, <1>4
  <2>2. Branch[Parent[x]] = Below(n - 1)
    BY <1>4, <2>1
  <2>3. Below(n) = Below(n - 1) \cup {x}
    <3>1. ASSUME NEW c \in K PROVE Height[c] <= n <=> Height[c] <= n - 1 \/ c = x
      <4>1. Height[c] \in Nat
        BY <1>1
      <4>2. CASE Height[c] = n
        BY <1>1, <4>2
      <4>3. CASE Height[c] # n
        BY <4>1, <4>3
      <4> QED
        BY <4>2, <4>3
    <3> QED
      BY <3>1
  <2> QED
    BY <1>1, <1>2, <2>1, <2>2, <2>3
<1>5. PICK N \in Nat : N = Height[b]
  BY <1>1
<1>6. 0..N \subseteq S
  <2> HIDE DEF S
  <2>1. \A n \in 1..N : n - 1 \in S => n \in S
    BY <1>4
  <2> QED
    BY <1>3, <2>1, CountUp
<1> QED
  BY <1>5, <1>6

\* The deposit a journal of block b rests on: when it is canonical it is counted.
Anchored(d, C, b) ==
    \E c \in Branch[b], tx \in Tx :
        /\ Creates(c, tx) /\ d.attempt[tx] # "absent"
        /\ c \in C => d.live = c

\* Releases, also those reversed, rest on a deposit; a canonical one that pays is booked;
\* and a journal is of an event.
Booked(d, C) ==
    /\ \A b \in Block : <<"release", b>> \in d.journals => Anchored(d, C, b) /\ "receivable" \in d.accounts
    /\ \A b \in C : Settles("release", b) => <<"release", b>> \in d.journals
    /\ \A j \in d.journals : Settles(j[1], j[2])

\* Known attempts stay known, and accounts are not closed.
NothingForgotten(d, x) ==
    /\ \A tx \in Tx : d.attempt[tx] # "absent" => x.attempt[tx] # "absent"
    /\ d.accounts \subseteq x.accounts

\* A step that books nothing, and counts a deposit only where none was counted.
LEMMA BookedStays ==
    ASSUME NEW C, C \subseteq Block, NEW d, NEW x, Booked(d, C), NothingForgotten(d, x), x.journals = d.journals,
           x.live = d.live \/ d.live = None
    PROVE  Booked(x, C)
<1>1. ASSUME NEW b, Anchored(d, C, b) PROVE Anchored(x, C, b)
  <2>1. PICK c \in Branch[b], tx \in Tx : /\ Creates(c, tx) /\ d.attempt[tx] # "absent"
                                          /\ c \in C => d.live = c
    BY <1>1 DEF Anchored
  <2>2. c \in C => x.live = c
    BY <2>1, ContentTypes
  <2> QED
    BY <2>1, <2>2 DEF Anchored, NothingForgotten
<1> QED
  BY <1>1 DEF Booked, NothingForgotten

\* A step that takes blocks back, with the deposit if its block is among them.
LEMMA BookedShrinks ==
    ASSUME NEW C, C \subseteq Block, NEW B, NEW d, NEW x, Booked(d, C), NothingForgotten(d, x),
           x.journals = d.journals, LiveUnless(d, x, B), NEW F, F = C \ B
    PROVE  Booked(x, F)
<1>1. ASSUME NEW b, Anchored(d, C, b) PROVE Anchored(x, F, b)
  <2>1. PICK c \in Branch[b], tx \in Tx : /\ Creates(c, tx) /\ d.attempt[tx] # "absent"
                                          /\ c \in C => d.live = c
    BY <1>1 DEF Anchored
  <2>2. c \in F => x.live = c
    BY <2>1 DEF LiveUnless
  <2> QED
    BY <2>1, <2>2 DEF Anchored, NothingForgotten
<1> QED
  BY <1>1 DEF Booked, NothingForgotten

\* What the events of block b make of the rows y: journals of those events, a release only
\* from a counted deposit into an account that exists then.
Grows(y, x, b) ==
    /\ x.live = y.live
    /\ y.accounts \subseteq x.accounts /\ y.journals \subseteq x.journals
    /\ \A j \in x.journals \ y.journals :
          /\ j[2] = b /\ Settles(j[1], b)
          /\ j[1] = "release" => x.live # None /\ "receivable" \in x.accounts

\* Escrow that can pay something has a deposit.
LEMMA PaysFromDeposit ==
    ASSUME NEW d, NEW C, Covered(d, C), EscrowBalance(d) >= Payable, Payable # 0
    PROVE  d.live # None
<1> SUFFICES ASSUME d.live = None PROVE FALSE
  OBVIOUS
<1>1. "release" \in JournalType /\ "refund" \in JournalType
  BY DEF JournalType
<1>2. PICK r \in Nat, f \in Nat : r = Cardinality(Posted(d, "release")) /\ f = Cardinality(Posted(d, "refund"))
  BY <1>1, Balances
<1>3. PICK p \in Nat, q \in Nat : p = Payable * r /\ q = Budget * f
  BY ContentTypes
<1>4. EscrowBalance(d) = 0 - p - q
  BY <1>2, <1>3 DEF EscrowBalance
<1> QED
  BY <1>3, <1>4, ContentTypes

\* InsertJournal adds one journal at most, and one that is there unless there is no amount.
LEMMA InsertAdds ==
    ASSUME NEW d \in Database, NEW type \in JournalType, NEW b \in Block, NEW amount,
           NEW x, x = InsertJournal(d, type, b, amount)
    PROVE  /\ x.accounts = d.accounts /\ x.live = d.live
           /\ \/ x.journals = d.journals
              \/ /\ amount # 0 /\ x.journals = d.journals \cup {<<type, b>>}
                 /\ x.ok => type = "withdrawal" \/ EscrowBalance(d) >= amount
           /\ amount # 0 => <<type, b>> \in x.journals
BY DEF InsertJournal, Database

\* The same of any journal, whatever the balance.
LEMMA InsertAddsOne ==
    ASSUME NEW d \in Database, NEW type \in JournalType, NEW b \in Block, NEW amount,
           NEW x, x = InsertJournal(d, type, b, amount)
    PROVE  /\ x.accounts = d.accounts /\ x.live = d.live
           /\ x.journals = d.journals \/ x.journals = d.journals \cup {<<type, b>>}
BY DEF InsertJournal, Database

\* The control account is one more account.
LEMMA ControlAdds ==
    ASSUME NEW d \in Database, NEW x, x = EnsureControl(d)
    PROVE  x.live = d.live /\ d.accounts \subseteq x.accounts /\ x.journals = d.journals
BY DEF EnsureControl, Fails, Database

\* One journal more, other than a release, of an event of block b.
LEMMA AddsOne ==
    ASSUME NEW y, NEW x, NEW b, NEW type, type # "release", Settles(type, b),
           x.live = y.live, y.accounts \subseteq x.accounts,
           x.journals = y.journals \/ x.journals = y.journals \cup {<<type, b>>}
    PROVE  Grows(y, x, b)
<1>1. ASSUME NEW j \in x.journals \ y.journals PROVE j = <<type, b>>
  BY <1>1
<1>2. ASSUME NEW j \in x.journals \ y.journals PROVE j[2] = b /\ j[1] = type
  BY <1>1
<1> QED
  BY <1>2 DEF Grows

\* An event of the tip that does not fail books what it stands for.
LEMMA EventGrows ==
    ASSUME NEW C, C \subseteq Block, NEW b \in C, NEW y \in Database, Covered(y, C),
           NEW e \in ToSet(EventsIn[b]), e \in Event, e.type # "created", NEW l,
           NEW x, x = ProjectSettlementEvent(y, b, e, l), x.ok
    PROVE  /\ Grows(y, x, b)
           /\ e.type = "accrued" /\ Payable # 0 => <<"release", b>> \in x.journals
<1>1. e.type \in {"selected", "accrued", "withdrawn", "refunded"}
  BY DEF Event
<1>2. Has(b, e.type)
  BY DEF Has
<1>3. "release" \in JournalType /\ "refund" \in JournalType /\ "withdrawal" \in JournalType
  BY DEF JournalType
<1>b. b \in Block
  OBVIOUS
<1>f. ~Fails(y).ok
  BY DEF Fails, Database
<1>4. CASE e.type = "accrued"
  <2>1. x = EarningsAccrued(y, b)
    BY <1>4 DEF ProjectSettlementEvent
  <2>2. ~(y.assignment # "active" \/ "formal" \notin y.accounts)
    BY <2>1, <1>f DEF EarningsAccrued
  <2>3. PICK z : z = InsertJournal(y, "release", b, Payable)
    OBVIOUS
  <2>4. x = [z EXCEPT !.accounts = IF Payable = 0 THEN z.accounts ELSE z.accounts \cup {"receivable"},
                      !.task = "settled"]
    BY <2>1, <2>2, <2>3 DEF EarningsAccrued
  <2>5. /\ z.accounts = y.accounts /\ z.live = y.live
        /\ \/ z.journals = y.journals
           \/ /\ Payable # 0 /\ z.journals = y.journals \cup {<<"release", b>>}
              /\ z.ok => EscrowBalance(y) >= Payable
        /\ Payable # 0 => <<"release", b>> \in z.journals
    BY <1>3, <2>3, InsertAdds
  <2>6. DOMAIN z = DOMAIN y
    BY <2>3 DEF InsertJournal, Database
  <2>7. /\ x.live = z.live /\ x.journals = z.journals /\ x.ok = z.ok
        /\ x.accounts = IF Payable = 0 THEN z.accounts ELSE z.accounts \cup {"receivable"}
    BY <2>4, <2>6 DEF Database
  <2>8. ASSUME NEW j \in x.journals \ y.journals
        PROVE  /\ j[2] = b /\ Settles(j[1], b)
               /\ j[1] = "release" => x.live # None /\ "receivable" \in x.accounts
    <3>1. j = <<"release", b>> /\ Payable # 0 /\ EscrowBalance(y) >= Payable
      BY <2>5, <2>7, <2>8
    <3>2. y.live # None
      BY <3>1, PaysFromDeposit
    <3> QED
      BY <1>2, <1>4, <2>5, <2>7, <3>1, <3>2 DEF Settles
  <2> QED
    BY <1>4, <2>5, <2>7, <2>8 DEF Grows
<1>5. CASE e.type = "withdrawn"
  <2>1. x = EarningsWithdrawn(y, b)
    BY <1>5 DEF ProjectSettlementEvent
  <2>2. \/ Payable = 0 /\ x = y
        \/ Payable # 0 /\ x = InsertJournal(EnsureControl(y), "withdrawal", b, Payable)
    BY <2>1, <1>f DEF EarningsWithdrawn
  <2>3. CASE x = y
    BY <1>5, <2>3 DEF Grows
  <2>4. CASE Payable # 0 /\ x = InsertJournal(EnsureControl(y), "withdrawal", b, Payable)
    <3>1. PICK z : z = EnsureControl(y)
      OBVIOUS
    <3>2. z \in Database /\ z.live = y.live /\ y.accounts \subseteq z.accounts /\ z.journals = y.journals
      BY <3>1, ControlAdds, ControlSettles DEF SettledFrom
    <3>3. /\ x.accounts = z.accounts /\ x.live = z.live
          /\ x.journals = z.journals \/ x.journals = z.journals \cup {<<"withdrawal", b>>}
      BY <1>3, <1>b, <2>4, <3>1, <3>2, InsertAddsOne
    <3> QED
      <4>1. Settles("withdrawal", b)
        BY <1>2, <1>5, <2>4 DEF Settles
      <4>2. Grows(y, x, b)
        BY <3>2, <3>3, <4>1, AddsOne
      <4> QED
        BY <1>5, <4>2
  <2> QED
    BY <2>2, <2>3, <2>4
<1>6. CASE e.type = "refunded"
  <2>1. x = FundsRefunded(y, b)
    BY <1>6 DEF ProjectSettlementEvent
  <2>2. PICK z : z = EnsureControl(y)
    OBVIOUS
  <2>3. PICK w : w = InsertJournal(z, "refund", b, Budget)
    OBVIOUS
  <2>4. x = [w EXCEPT !.task = "refunded"]
    BY <2>1, <2>2, <2>3, <1>f DEF FundsRefunded
  <2>5. z \in Database /\ z.live = y.live /\ y.accounts \subseteq z.accounts /\ z.journals = y.journals
    BY <2>2, ControlAdds, ControlSettles DEF SettledFrom
  <2>6. /\ w.accounts = z.accounts /\ w.live = z.live
        /\ w.journals = z.journals \/ w.journals = z.journals \cup {<<"refund", b>>}
    BY <1>3, <1>b, <2>3, <2>5, InsertAddsOne
  <2>7. x.live = w.live /\ x.journals = w.journals /\ x.accounts = w.accounts
    BY <2>4
  <2> QED
    <3>1. Settles("refund", b)
      BY <1>2, <1>6 DEF Settles
    <3>2. Grows(y, x, b)
      BY <2>5, <2>6, <2>7, <3>1, AddsOne
    <3> QED
      BY <1>6, <3>2
<1>7. CASE e.type = "selected"
  <2>1. x = y
    BY <1>7 DEF ProjectSettlementEvent
  <2> QED
    BY <1>7, <2>1 DEF Grows
<1> QED
  BY <1>1, <1>4, <1>5, <1>6, <1>7

\* Events of one block add up.
LEMMA GrowsOn ==
    ASSUME NEW d, NEW y, NEW x, NEW b, Grows(d, y, b), Grows(y, x, b)
    PROVE  Grows(d, x, b)
<1>1. x.live = d.live /\ d.accounts \subseteq x.accounts /\ d.journals \subseteq x.journals
  BY DEF Grows
<1>2. ASSUME NEW j \in x.journals \ d.journals
      PROVE  /\ j[2] = b /\ Settles(j[1], b)
             /\ j[1] = "release" => x.live # None /\ "receivable" \in x.accounts
  <2>1. CASE j \in y.journals
    BY <1>2, <2>1 DEF Grows
  <2>2. CASE j \notin y.journals
    BY <1>2, <2>2 DEF Grows
  <2> QED
    BY <2>1, <2>2
<1> QED
  BY <1>1, <1>2 DEF Grows

\* A failed transaction closes no account.
LEMMA FailureForgets ==
    ASSUME NEW d \in Database, NEW b, NEW tx \in Tx, NEW x, x = ProjectFundingTransaction(d, b, tx),
           SameKnown(d, x)
    PROVE  NothingForgotten(d, x)
<1>1. x.accounts = d.accounts
  BY DEF ProjectFundingTransaction, Database
<1> QED
  BY <1>1 DEF NothingForgotten, SameKnown

\* Nor does a deposit.
LEMMA FundForgets ==
    ASSUME NEW d \in Database, NEW b, NEW tx \in Tx, NEW l, NEW x, x = Fund(d, b, tx, l),
           SameKnown(d, x)
    PROVE  NothingForgotten(d, x)
<1>1. d.accounts \subseteq x.accounts
  BY DEF Fund, Fails, Database
<1> QED
  BY <1>1 DEF NothingForgotten, SameKnown

\* The tip joins the canonical blocks with its deposit counted and its payment booked.
LEMMA BookedTip ==
    ASSUME NEW K, NEW b \in Block, NEW C, C = K \cup {b}, NEW x, Booked(x, K),
           \A tx \in Tx : Creates(b, tx) /\ x.attempt[tx] # "absent" => x.live = b,
           Settles("release", b) => <<"release", b>> \in x.journals
    PROVE  Booked(x, C)
<1>1. ASSUME NEW a, Anchored(x, K, a) PROVE Anchored(x, C, a)
  BY <1>1 DEF Anchored
<1> QED
  BY <1>1 DEF Booked

\* The events of the tip, none of which is a deposit, book what they stand for.
LEMMA EventsBooked ==
    ASSUME NEW C, C \subseteq Block, NEW b \in C, Tops(b, C), NEW d \in Database, Covered(d, C),
           NEW l, NEW N \in Nat, N = Len(EventsIn[b]),
           \A n \in 1..N : EventsIn[b][n] \in Event /\ EventsIn[b][n].type # "created",
           NEW x, x = ProjectEvents(d, b, l), x.ok
    PROVE  /\ FundingKept(d, x) /\ Grows(d, x, b)
           /\ Settles("release", b) => <<"release", b>> \in x.journals
<1> DEFINE Paid(y, n) == \A m \in 1..n : EventsIn[b][m].type = "accrued" /\ Payable # 0 => <<"release", b>> \in y.journals
           S(n) == {y \in SettledFrom(d, C) : y.ok => Grows(d, y, b) /\ Paid(y, n)}
           Q == [n \in Nat |-> S(n)]
<1>1. \A n \in Nat : Q[n] = S(n)
  OBVIOUS
<1> HIDE DEF Q
<1>2. b \in Block /\ \A c \in C : Height[c] <= Height[b]
  BY DEF Tops
<1>3. d \in Q[0]
  <2>1. d \in SettledFrom(d, C) /\ Grows(d, d, b) /\ Paid(d, 0)
    BY DEF SettledFrom, FundingKept, Grows
  <2> QED
    BY <1>1, <2>1
<1>4. ASSUME NEW n \in 1..N, NEW y \in Q[n - 1] PROVE Projected(y, b, n, l) \in Q[n]
  <2>1. n \in Nat /\ n - 1 \in Nat
    OBVIOUS
  <2>2. y \in S(n - 1)
    BY <1>1, <2>1
  <2>3. CASE ~y.ok
    <3>1. y \in S(n)
      BY <2>2, <2>3
    <3> QED
      BY <1>1, <2>1, <2>3, <3>1 DEF Projected
  <2>4. CASE y.ok
    <3>1. PICK ev \in Event : ev = EventsIn[b][n] /\ ev.type # "created"
      OBVIOUS
    <3>2. y \in SettledFrom(d, C) /\ Grows(d, y, b) /\ Paid(y, n - 1)
      BY <2>2, <2>4
    <3> HIDE DEF Paid
    <3>3. y \in Database /\ Covered(y, C)
      BY <2>4, <3>2 DEF SettledFrom
    <3>4. PICK z : z = ProjectSettlementEvent(y, b, ev, l)
      OBVIOUS
    <3>5. z \in SettledFrom(y, C)
      BY <1>2, <3>1, <3>3, <3>4, EventSettles
    <3>6. z \in SettledFrom(d, C)
      BY <3>2, <3>5, SettledAgain
    <3>7. ASSUME z.ok PROVE Grows(d, z, b) /\ Paid(z, n)
      <4>1. ev \in ToSet(EventsIn[b])
        BY <3>1 DEF ToSet
      <4>2. /\ Grows(y, z, b)
            /\ ev.type = "accrued" /\ Payable # 0 => <<"release", b>> \in z.journals
        BY <3>1, <3>3, <3>4, <3>7, <4>1, EventGrows
      <4>3. Grows(d, z, b)
        BY <3>2, <4>2, GrowsOn
      <4>4. ASSUME NEW m \in 1..n, EventsIn[b][m].type = "accrued", Payable # 0
            PROVE  <<"release", b>> \in z.journals
        <5>1. CASE m = n
          BY <3>1, <4>2, <4>4, <5>1
        <5>2. CASE m # n
          <6>1. m \in 1..(n - 1)
            BY <5>2
          <6>2. <<"release", b>> \in y.journals
            BY <3>2, <4>4, <6>1 DEF Paid
          <6> QED
            BY <4>2, <6>2 DEF Grows
        <5> QED
          BY <5>1, <5>2
      <4> QED
        BY <4>3, <4>4 DEF Paid
    <3>8. z \in S(n)
      BY <3>6, <3>7
    <3> QED
      BY <1>1, <2>1, <2>4, <3>1, <3>4, <3>8 DEF Projected
  <2> QED
    BY <2>3, <2>4
<1>5. x \in Q[N]
  BY <1>2, <1>3, <1>4, EventsKeep
<1>6. x \in SettledFrom(d, C) /\ Grows(d, x, b) /\ Paid(x, N)
  BY <1>1, <1>5
<1>7. ASSUME Settles("release", b) PROVE <<"release", b>> \in x.journals
  <2>1. Payable # 0 /\ Has(b, "accrued")
    BY <1>7 DEF Settles
  <2>2. PICK m \in 1..N : EventsIn[b][m].type = "accrued"
    BY <2>1 DEF Has, ToSet
  <2> QED
    BY <1>6, <2>1, <2>2
<1> QED
  BY <1>6, <1>7 DEF SettledFrom

\* ApplyBlock books what its block stands for.
LEMMA BlockBooked ==
    ASSUME NEW K, K \subseteq Block, NEW b \in Block, b \notin K,
           Tops(b, K), NEW C, C = K \cup {b}, IsChain(C),
           NEW U, NEW d, RowsInv(d, K, U), d.ok, Booked(d, K), NEW l,
           NEW x, x = ProjectBlock(d, b, l), x.ok
    PROVE  Booked(x, C)
<1>1. PICK d0 : d0 = IF FailedIn[b] = None THEN d ELSE ProjectFundingTransaction(d, b, FailedIn[b])
  OBVIOUS
<1>2. x = ProjectEvents(d0, b, l)
  BY <1>1 DEF ProjectBlock
<1>3. b \in C /\ C \subseteq Block /\ K \subseteq C /\ \A c \in C : Height[c] <= Height[b]
  BY TreeTypes DEF Tops
<1>4. Supported(d, C) /\ Supported(d, K) /\ d \in Database
  BY <1>3 DEF Supported, Failures, RowsInv
<1>5. /\ Supported(d0, C) /\ d0.ok /\ d0.live = d.live /\ SameKnown(d, d0)
      /\ d0.journals = d.journals /\ d0.reversed = d.reversed
      /\ NothingForgotten(d, d0)
  <2>1. CASE FailedIn[b] = None
    BY <1>1, <1>4, <2>1 DEF SameKnown, NothingForgotten
  <2>2. CASE FailedIn[b] # None
    <3>1. PICK tx \in Tx : FailedIn[b] = tx
      BY <2>2, ContentTypes
    <3>2. d0 = ProjectFundingTransaction(d, b, tx)
      BY <1>1, <2>2, <3>1
    <3>3. /\ Supported(d0, C) /\ d0.ok /\ d0.live = d.live /\ SameKnown(d, d0)
          /\ d0.journals = d.journals /\ d0.reversed = d.reversed
      BY <1>3, <1>4, <3>1, <3>2, FailureSupported
    <3> QED
      BY <1>4, <3>2, <3>3, FailureForgets
  <2> QED
    BY <2>1, <2>2
<1>6. Booked(d0, K)
  BY <1>5, BookedStays
<1>7. Covered(d0, C)
  <2>1. Covered(d, C)
    BY <1>3, CoveredGrows DEF RowsInv
  <2> QED
    BY <1>5, <2>1, SameLedger
<1>8. d0 \in Database
  BY <1>5 DEF Supported
<1>9. EventsIn[b] \in Seq(Event)
  BY ContentTypes
<1>10. PICK N \in Nat : N = Len(EventsIn[b]) /\ \A n \in 1..N : EventsIn[b][n] \in Event
  BY <1>9
<1>11. CASE \E n \in 1..N : EventsIn[b][n].type = "created"
  <2>0. PICK m \in 1..N : EventsIn[b][m].type = "created"
    BY <1>11
  <2>1. EventsIn[b][m] \in ToSet(EventsIn[b])
    BY <1>10 DEF ToSet
  <2>2. N = 1
    BY <1>10, <2>0, <2>1, FundingAlone
  <2>3. EventsIn[b][1].type = "created" /\ EventsIn[b][1] \in Event
    BY <1>10, <2>0, <2>2
  <2>4. PICK tx \in Tx : EventsIn[b][1] = [type |-> "created", tx |-> tx]
    BY <2>3 DEF Event
  <2>5. EventsIn[b][1].tx = tx
    BY <2>4
  <2>6. Creates(b, tx)
    BY <2>0, <2>1, <2>2, <2>4 DEF Creates
  <2>7. ProjectSettlementEvent(d0, b, EventsIn[b][1], l) = Fund(d0, b, tx, l)
    BY <2>3, <2>5 DEF ProjectSettlementEvent
  <2>8. x = Fund(d0, b, tx, l)
    <3> DEFINE Q == [n \in Nat |-> IF n = 0 THEN {d0} ELSE {Fund(d0, b, tx, l)}]
    <3>1. Q[0] = {d0} /\ Q[1] = {Fund(d0, b, tx, l)}
      OBVIOUS
    <3> HIDE DEF Q
    <3>2. ASSUME NEW n \in 1..N, NEW y \in Q[n - 1] PROVE Projected(y, b, n, l) \in Q[n]
      <4>1. n = 1 /\ n - 1 = 0
        BY <2>2
      <4>2. y = d0
        BY <3>1, <4>1
      <4> QED
        BY <1>5, <2>7, <3>1, <4>1, <4>2 DEF Projected
    <3>3. d0 \in Q[0]
      BY <3>1
    <3>4. ProjectEvents(d0, b, l) \in Q[N]
      BY <1>10, <3>2, <3>3, EventsKeep
    <3> QED
      BY <1>2, <2>2, <3>1, <3>4
  <2>9. /\ \/ x = d0 /\ (d0.attempt[tx] = "absent" \/ d0.live = b)
           \/ d0.live = None /\ d0.attempt[tx] # "absent" /\ x.live = b
        /\ SameKnown(d0, x)
        /\ x.journals = d0.journals
    BY <1>3, <1>5, <2>6, <2>8, FundSupported
  <2>10. NothingForgotten(d0, x)
    BY <1>8, <2>8, <2>9, FundForgets
  <2>11. Booked(x, K)
    BY <1>6, <2>9, <2>10, BookedStays
  <2>12. \A u \in Tx : Creates(b, u) /\ x.attempt[u] # "absent" => x.live = b
    <3> SUFFICES ASSUME NEW u \in Tx, Creates(b, u), x.attempt[u] # "absent" PROVE x.live = b
      OBVIOUS
    <3>1. u = tx
      BY <2>6, OneCreation
    <3> QED
      BY <2>9, <3>1
  <2>13. ~Settles("release", b)
    <3>1. \A e \in ToSet(EventsIn[b]) : e.type = "created"
      <4> SUFFICES ASSUME NEW e \in ToSet(EventsIn[b]) PROVE e.type = "created"
        OBVIOUS
      <4>1. PICK n \in 1..N : EventsIn[b][n] = e
        BY <1>9, <1>10 DEF ToSet
      <4> QED
        BY <2>2, <2>3, <4>1
    <3> QED
      BY <3>1 DEF Settles, Has
  <2> QED
    BY <2>11, <2>12, <2>13, BookedTip
<1>12. CASE \A n \in 1..N : EventsIn[b][n].type # "created"
  <2>1. Tops(b, C)
    BY <1>3 DEF Tops
  <2>2. /\ FundingKept(d0, x) /\ Grows(d0, x, b)
        /\ Settles("release", b) => <<"release", b>> \in x.journals
    BY <1>2, <1>3, <1>7, <1>8, <1>10, <1>12, <2>1, EventsBooked
  <2>3. \A tx \in Tx : ~Creates(b, tx)
    <3> SUFFICES ASSUME NEW tx \in Tx, Creates(b, tx) PROVE FALSE
      OBVIOUS
    <3>1. PICK n \in 1..N : EventsIn[b][n] = [type |-> "created", tx |-> tx]
      BY <1>10 DEF Creates, ToSet
    <3>2. EventsIn[b][n].type = "created"
      BY <3>1
    <3> QED
      BY <3>2, <1>12
  <2>4. ASSUME NEW a, Anchored(d0, K, a) PROVE Anchored(x, C, a)
    <3>1. PICK c \in Branch[a], tx \in Tx : /\ Creates(c, tx) /\ d0.attempt[tx] # "absent"
                                            /\ c \in K => d0.live = c
      BY <2>4 DEF Anchored
    <3>2. c # b
      BY <2>3, <3>1
    <3>3. c \in C => x.live = c
      BY <2>2, <3>1, <3>2 DEF Grows
    <3>4. x.attempt[tx] # "absent"
      BY <2>2, <3>1 DEF FundingKept
    <3> QED
      BY <3>1, <3>3, <3>4 DEF Anchored
  <2>5. ASSUME x.live # None PROVE Anchored(x, C, b)
    <3>1. Branch[b] = {c \in C : Height[c] <= Height[b]}
      BY <1>3, BranchOnChain
    <3>2. x.live = d0.live
      BY <2>2 DEF Grows
    <3>3. /\ d0.live \in C /\ d0.intentTx \in Tx /\ Creates(d0.live, d0.intentTx)
          /\ d0.attempt[d0.intentTx] = "canonical_confirmed"
      BY <1>5, <2>5, <3>2 DEF Supported
    <3>4. d0.live \in Branch[b]
      BY <1>3, <3>1, <3>3
    <3>5. x.attempt = d0.attempt
      BY <2>2 DEF FundingKept
    <3> QED
      BY <3>2, <3>3, <3>4, <3>5 DEF Anchored
  <2>6. ASSUME NEW a \in Block, <<"release", a>> \in x.journals
        PROVE  Anchored(x, C, a) /\ "receivable" \in x.accounts
    <3>1. CASE <<"release", a>> \in d0.journals
      BY <1>6, <2>2, <2>4, <3>1 DEF Booked, Grows
    <3>2. CASE <<"release", a>> \notin d0.journals
      <4>1. PICK j \in x.journals \ d0.journals : j = <<"release", a>>
        BY <2>6, <3>2
      <4>2. j[2] = a /\ j[1] = "release"
        BY <4>1
      <4>3. a = b /\ x.live # None /\ "receivable" \in x.accounts
        BY <2>2, <4>2 DEF Grows
      <4> QED
        BY <2>5, <4>3
    <3> QED
      BY <3>1, <3>2
  <2>7. ASSUME NEW a \in C, Settles("release", a) PROVE <<"release", a>> \in x.journals
    <3>1. CASE a = b
      BY <2>2, <2>7, <3>1
    <3>2. CASE a # b
      <4>1. <<"release", a>> \in d0.journals
        BY <1>6, <2>7, <3>2 DEF Booked
      <4> QED
        BY <2>2, <4>1 DEF Grows
    <3> QED
      BY <3>1, <3>2
  <2>8. ASSUME NEW j \in x.journals PROVE Settles(j[1], j[2])
    BY <1>6, <2>2 DEF Booked, Grows
  <2> QED
    BY <2>6, <2>7, <2>8 DEF Booked
<1> QED
  BY <1>11, <1>12

\* Blocks taken back leave attempts known and accounts open.
LEMMA RetractForgets ==
    ASSUME NEW C, C \subseteq Block, NEW B, B \subseteq Block, NEW d, Supported(d, C),
           NEW e, e = RetractBlocks(d, B)
    PROVE  NothingForgotten(d, e)
<1>d1. PICK d1 : d1 = OrphanFailedFundingTransactions(d, B)
  OBVIOUS
<1>d2. PICK d2 : d2 = ReverseJournals(d1, B)
  OBVIOUS
<1>d3. PICK d3 : d3 = OrphanAssignment(d2, B)
  OBVIOUS
<1>e. e = ReverseFunding(d3, B)
  BY <1>d1, <1>d2, <1>d3 DEF RetractBlocks
<1>0. PICK F : F = C \ B
  OBVIOUS
<1>1. Supported(d1, C) /\ SameKnown(d, d1) /\ Failures(d1, F)
  BY <1>d1, <1>0, FailuresRetracted
<1>2. d \in Database /\ d1 \in Database
  BY <1>1 DEF Supported
<1>3. /\ d2 \in Database
      /\ d2.attempt = d1.attempt /\ d2.evidence = d1.evidence /\ d2.intent = d1.intent
      /\ d2.intentTx = d1.intentTx /\ d2.live = d1.live
      /\ d2.task \in {d1.task, "chain_reorg_pending"}
  BY <1>2, <1>d2, JournalsReversed
<1>4. /\ d3 \in Database
      /\ d3.attempt = d2.attempt /\ d3.evidence = d2.evidence /\ d3.intent = d2.intent
      /\ d3.intentTx = d2.intentTx /\ d3.live = d2.live
      /\ d3.task \in {d2.task, "chain_reorg_pending"}
  BY <1>3, <1>d3, AssignmentOrphaned
<1>5. /\ d3.attempt = d1.attempt /\ d3.evidence = d1.evidence /\ d3.intent = d1.intent
      /\ d3.intentTx = d1.intentTx /\ d3.live = d1.live
      /\ d3.task \in {d1.task, "chain_reorg_pending"}
  BY <1>3, <1>4
<1>6. Supported(d3, C) /\ Failures(d3, F)
  BY <1>1, <1>4, <1>5 DEF Supported, Failures
<1>7. SameKnown(d3, e)
  BY <1>0, <1>6, <1>e, FundingReversed
<1>8. SameKnown(d, e)
  BY <1>1, <1>5, <1>7 DEF SameKnown
<1>9. d1.accounts = d.accounts
  BY <1>2, <1>d1 DEF OrphanFailedFundingTransactions, Database
<1>10. d2.accounts = d1.accounts
  BY <1>2, <1>d2 DEF ReverseJournals, Database
<1>11. d3.accounts = d2.accounts
  BY <1>3, <1>d3 DEF OrphanAssignment, Database
<1>12. e.accounts = d3.accounts
  BY <1>4, <1>e DEF ReverseFunding, Database
<1> QED
  BY <1>8, <1>9, <1>10, <1>11, <1>12 DEF NothingForgotten, SameKnown

\* The rows after a step.
LEMMA BookedMoves ==
    ASSUME NEW x, db' = x, NEW C, canonical' = C, Booked(x, C)
    PROVE  Booked(db, canonical)'
<1>1. Booked(db', canonical')
  OBVIOUS
<1> QED
  BY <1>1

\* Journals and deposit follow one another in every state.
DivergenceInv == ChainInv /\ Booked(db, canonical)

\* Steps of the other services on the task's rows.
LEMMA ServicesBooked ==
    ASSUME DivergenceInv,
           \/ Prepare \/ AwaitSelection \/ Reserve \/ Confirm
           \/ \E tx \in Tx : Submit(tx) \/ ReconcileFundingAttempt(tx)
    PROVE  Booked(db, canonical)'
<1>r. /\ Booked(db, canonical) /\ RowsInv(db, canonical, unreconciled) /\ db.ok /\ db \in Database
      /\ Supported(db, canonical) /\ canonical \subseteq Block /\ IsChain(canonical)
  BY DEF DivergenceInv, ChainInv, RowsInv, Supported, IndexInv, IndexIsChain
<1>m. ASSUME NEW x, db' = x, canonical' = canonical, NothingForgotten(db, x), x.journals = db.journals,
             x.live = db.live \/ db.live = None
      PROVE  Booked(db, canonical)'
  <2>1. Booked(x, canonical)
    BY <1>m, <1>r, BookedStays
  <2> QED
    BY <1>m, <2>1, BookedMoves
<1>1. CASE Prepare \/ AwaitSelection \/ Reserve \/ Confirm
  <2>1. canonical' = canonical
    BY <1>1 DEF Prepare, AwaitSelection, Reserve, Confirm, indexVars
  <2>2. PICK x : db' = x
    OBVIOUS
  <2>3. x.attempt = db.attempt /\ x.accounts = db.accounts /\ x.journals = db.journals /\ x.live = db.live
    BY <1>1, <1>r, <2>2 DEF Prepare, AwaitSelection, Reserve, Confirm, Database
  <2>4. NothingForgotten(db, x)
    BY <2>3 DEF NothingForgotten
  <2> QED
    BY <1>m, <2>1, <2>2, <2>3, <2>4
<1>2. ASSUME NEW tx \in Tx, Submit(tx) PROVE Booked(db, canonical)'
  <2>1. PICK x : x = Submitted(db, tx)
    OBVIOUS
  <2>2. db' = x /\ canonical' = canonical
    BY <1>2, <1>r, <2>1 DEF Submit, Submitted, Database, indexVars
  <2>3. PICK g : g = [t \in Tx |-> IF t = tx THEN "submitted"
                                   ELSE IF t = db.intentTx /\ db.attempt[t] \in Replaceable
                                        THEN "superseded" ELSE db.attempt[t]]
    OBVIOUS
  <2>4. x.attempt = g /\ x.accounts = db.accounts /\ x.journals = db.journals /\ x.live = db.live
    BY <1>r, <2>1, <2>3 DEF Submitted, Database
  <2>5. \A t \in Tx : db.attempt[t] # "absent" => g[t] # "absent"
    BY <2>3
  <2>6. NothingForgotten(db, x)
    BY <2>4, <2>5 DEF NothingForgotten
  <2> QED
    BY <1>m, <2>2, <2>4, <2>6
<1>3. ASSUME NEW tx \in Tx, ReconcileFundingAttempt(tx) PROVE Booked(db, canonical)'
  <2>1. PICK x : x = Reconciled(tx)
    OBVIOUS
  <2>2. x.ok /\ db' = x /\ canonical' = canonical
    BY <1>3, <2>1 DEF ReconcileFundingAttempt, indexVars
  <2> DEFINE failed == {b \in canonical : FailedIn[b] = tx}
             created == {b \in canonical : Creates(b, tx)}
  <2>3. \/ \E b \in canonical : FailedIn[b] = tx /\ x = ProjectFundingTransaction(db, b, tx)
        \/ \E b \in canonical : Creates(b, tx) /\ x = Fund(db, b, tx, late)
        \/ x = db
    <3>1. CASE failed # {}
      <4>1. PICK b : b = CHOOSE c \in failed : TRUE
        OBVIOUS
      <4>2. b \in failed
        BY <3>1, <4>1
      <4>3. x = ProjectFundingTransaction(db, b, tx)
        BY <2>1, <3>1, <4>1 DEF Reconciled
      <4> QED
        BY <4>2, <4>3
    <3>2. CASE failed = {} /\ created # {}
      <4>1. PICK b : b = CHOOSE c \in created : TRUE
        OBVIOUS
      <4>2. b \in created
        BY <3>2, <4>1
      <4>3. x = Fund(db, b, tx, late)
        BY <2>1, <3>2, <4>1 DEF Reconciled
      <4> QED
        BY <4>2, <4>3
    <3>3. CASE failed = {} /\ created = {}
      BY <2>1, <3>3 DEF Reconciled
    <3> QED
      BY <3>1, <3>2, <3>3
  <2>4. CASE \E b \in canonical : FailedIn[b] = tx /\ x = ProjectFundingTransaction(db, b, tx)
    <3>1. PICK b \in canonical : FailedIn[b] = tx /\ x = ProjectFundingTransaction(db, b, tx)
      BY <2>4
    <3>2. x.live = db.live /\ SameKnown(db, x) /\ x.journals = db.journals
      BY <1>r, <3>1, FailureSupported
    <3>3. NothingForgotten(db, x)
      BY <1>r, <3>1, <3>2, FailureForgets
    <3> QED
      BY <1>m, <2>2, <3>2, <3>3
  <2>5. CASE \E b \in canonical : Creates(b, tx) /\ x = Fund(db, b, tx, late)
    <3>1. PICK b \in canonical : Creates(b, tx) /\ x = Fund(db, b, tx, late)
      BY <2>5
    <3>2. /\ x = db \/ db.live = None
          /\ SameKnown(db, x) /\ x.journals = db.journals
      BY <1>r, <2>2, <3>1, FundSupported
    <3>3. NothingForgotten(db, x)
      BY <1>r, <3>1, <3>2, FundForgets
    <3> QED
      BY <1>m, <2>2, <3>2, <3>3
  <2>6. CASE x = db
    <3>1. NothingForgotten(db, x)
      BY <2>6 DEF NothingForgotten
    <3> QED
      BY <1>m, <2>2, <2>6, <3>1
  <2> QED
    BY <2>3, <2>4, <2>5, <2>6
<1> QED
  BY <1>1, <1>2, <1>3

\* A block applied.
LEMMA ApplyBooked ==
    ASSUME DivergenceInv, NEW p \in Projector, ApplyBlock(p), IndexInv'
    PROVE  Booked(db, canonical)'
<1>1. PICK b \in Block : b = sync[p].block
  BY DEF ApplyBlock, DivergenceInv, ChainInv, IndexInv, PlaceTypes, PlaceOK
<1>2. /\ Continues(b) /\ Applied(b).ok /\ canonical' = canonical \cup {b} /\ cursor' = b
      /\ db' = Applied(b)
  BY <1>1 DEF ApplyBlock
<1>3. /\ canonical \subseteq Block /\ RowsInv(db, canonical, unreconciled) /\ db.ok
      /\ Booked(db, canonical)
  BY DEF DivergenceInv, ChainInv, IndexInv
<1>4. b \notin canonical
  BY <1>2 DEF Continues
<1>5. PICK C : C = canonical \cup {b}
  OBVIOUS
<1>6. IsChain(C) /\ \A c \in C : Height[c] <= Height[b]
  <2>1. IsChain(C)
    BY <1>2, <1>5 DEF IndexInv, IndexIsChain, IsChain
  <2>2. b # None
    BY ContentTypes
  <2> QED
    BY <1>2, <1>5, <2>1, <2>2 DEF IndexInv, IndexIsChain
<1>7. PICK x : x = ProjectBlock(db, b, late)
  OBVIOUS
<1>8. x = Applied(b) /\ x.ok /\ Tops(b, canonical)
  BY <1>2, <1>5, <1>6, <1>7 DEF Applied, Tops
<1>9. Booked(x, C)
  BY <1>3, <1>4, <1>5, <1>6, <1>7, <1>8, BlockBooked
<1> QED
  BY <1>2, <1>5, <1>8, <1>9, BookedMoves

\* Blocks taken back.
LEMMA RewindBooked ==
    ASSUME DivergenceInv, NEW p \in Projector, Rewind(p)
    PROVE  Booked(db, canonical)'
<1>1. PICK h \in Nat : h = sync[p].height
  BY DEF Rewind, DivergenceInv, ChainInv, IndexInv, PlaceTypes, PlaceOK, Place
<1>0. /\ canonical \subseteq Block /\ RowsInv(db, canonical, unreconciled)
      /\ Booked(db, canonical) /\ Supported(db, canonical)
  BY DEF DivergenceInv, ChainInv, IndexInv, RowsInv
<1>2. CASE ~Rewound(h).ok
  <2>1. canonical' = canonical /\ db' = db
    BY <1>1, <1>2 DEF Rewind, indexVars
  <2> QED
    BY <1>0, <2>1, BookedMoves
<1>3. CASE Rewound(h).ok
  <2>1. db' = Rewound(h) /\ canonical' = canonical \ Above(canonical, h)
    BY <1>1, <1>3 DEF Rewind
  <2>3. PICK B : B = Higher(canonical, h)
    OBVIOUS
  <2>4. PICK F : F = canonical \ B
    OBVIOUS
  <2>5. PICK x : x = RetractBlocks(db, B)
    OBVIOUS
  <2>6. B = Above(canonical, h) /\ x = Rewound(h) /\ x.ok /\ B \subseteq Block
    BY <1>0, <1>3, <2>3, <2>5 DEF Above, Rewound, Higher
  <2>7. LiveUnless(db, x, B) /\ JournalsUndone(db, x, B)
    BY <1>0, <2>4, <2>5, <2>6, RetractSupported DEF RowsInv
  <2>8. NothingForgotten(db, x)
    BY <1>0, <2>5, <2>6, RetractForgets
  <2>9. x.journals = db.journals
    BY <2>7 DEF JournalsUndone
  <2>10. Booked(x, F)
    BY <1>0, <2>4, <2>7, <2>8, <2>9, BookedShrinks
  <2> QED
    BY <2>1, <2>4, <2>6, <2>10, BookedMoves
<1> QED
  BY <1>2, <1>3

\* Nothing is booked before the first block.
LEMMA DivergenceInit == Init => DivergenceInv
<1> SUFFICES ASSUME Init PROVE DivergenceInv
  OBVIOUS
<1>1. db.journals = {} /\ canonical = {}
  BY DEF Init
<1>2. Booked(db, canonical)
  BY <1>1 DEF Booked
<1> QED
  BY <1>2, ChainInit DEF DivergenceInv

\* Every step keeps journals and deposit together.
LEMMA DivergenceStep == DivergenceInv /\ [Next]_vars => DivergenceInv'
<1> SUFFICES ASSUME DivergenceInv, [Next]_vars PROVE DivergenceInv'
  OBVIOUS
<1>1. ChainInv'
  BY ChainStep DEF DivergenceInv
<1> SUFFICES Booked(db, canonical)'
  BY <1>1 DEF DivergenceInv
<1>2. ASSUME canonical' = canonical, db' = db PROVE Booked(db, canonical)'
  BY <1>2, BookedMoves DEF DivergenceInv
<1>3. ASSUME NEW b \in Block, Mine(b) \/ Reorganise(b) PROVE Booked(db, canonical)'
  BY <1>2, <1>3 DEF Mine, Reorganise, indexVars
<1>4. CASE DeadlinePasses \/ VerifySelection
  BY <1>2, <1>4 DEF DeadlinePasses, VerifySelection, indexVars
<1>5. ASSUME NEW p \in Projector, SyncOnce(p) PROVE Booked(db, canonical)'
  <2>1. CASE ApplyBlock(p)
    BY <1>1, <2>1, ApplyBooked DEF ChainInv
  <2>2. CASE Rewind(p)
    BY <2>2, RewindBooked
  <2>3. CASE ReadHead(p) \/ ReadCursor(p) \/ FetchBlock(p) \/ ApplyRefused(p) \/ ReadCanonical(p) \/ CompareHash(p)
    BY <1>2, <2>3 DEF ReadHead, ReadCursor, FetchBlock, ApplyRefused, ReadCanonical, CompareHash, indexVars
  <2> QED
    BY <1>5, <2>1, <2>2, <2>3 DEF SyncOnce
<1>6. CASE UNCHANGED vars
  BY <1>2, <1>6 DEF vars, indexVars
<1>7. CASE Next
  BY <1>3, <1>4, <1>5, <1>7, ServicesBooked DEF Next
<1> QED
  BY <1>6, <1>7

\* The contract emits each event of the task once.
LEMMA CountOne ==
    ASSUME NEW K, K \subseteq Block, IsChain(K), NEW type \in {"selected", "accrued", "withdrawn", "refunded"}
    PROVE  /\ Count(K, type) \in {0, 1}
           /\ Count(K, type) = 1 <=> \E b \in K : Has(b, type)
<1>1. \A b, c \in K : Has(b, type) /\ Has(c, type) => b = c
  BY ContractOrder
<1>2. CASE \E b \in K : Has(b, type)
  <2>1. PICK b \in K : Has(b, type)
    BY <1>2
  <2>2. {c \in K : Has(c, type)} = {b}
    BY <1>1, <2>1
  <2> QED
    BY <1>2, <2>2, FS_Singleton DEF Count
<1>3. CASE ~\E b \in K : Has(b, type)
  <2>1. {c \in K : Has(c, type)} = {}
    BY <1>3
  <2> QED
    BY <1>3, <2>1, FS_EmptySet DEF Count
<1> QED
  BY <1>2, <1>3

\* What ExpectedInventory holds of the assignment and of the ledger.
LEMMA ExpectedOf ==
    ASSUME NEW X, X = ExpectedInventory
    PROVE  /\ db.assignment = "active" =>
                /\ "assignment" \in DOMAIN X /\ X["assignment"] = 1
                /\ "ledger_formal_balance" \in DOMAIN X /\ X["ledger_formal_balance"] = EscrowBalance(db)
                /\ "receivable" \in db.accounts =>
                     "ledger_claimable" \in DOMAIN X /\ X["ledger_claimable"] = ReceivableBalance(db)
           /\ db.assignment # "active" /\ Count(canonical, "selected") > 0 =>
                "assignment" \in DOMAIN X /\ X["assignment"] = Blank
           /\ db.assignment # "active" /\ ~(Count(canonical, "selected") > 0) =>
                /\ "assignment" \notin DOMAIN X
                /\ ~(Count(canonical, "accrued") > 0) /\ Count(canonical, "refunded") > 0 =>
                     "task_status" \in DOMAIN X
<1>q. PICK q : q = IF db.reservation = "orphaned" THEN [reorg_quarantine |-> 1] ELSE <<>>
  OBVIOUS
<1>y. PICK y : y = YieldPosition(canonical)
  OBVIOUS
<1>e. PICK e : e = EarningsPosition(canonical)
  OBVIOUS
<1>s. PICK s : s = SettlementPosition(canonical)
  OBVIOUS
<1>l. PICK l : l = LedgerBalances
  OBVIOUS
<1>t. PICK t : t = IF db.assignment = "active"
                   THEN [assignment |-> 1, task_amount |-> Payable, task_status |-> 2, work_nonce |-> 1]
                   ELSE IF Count(canonical, "selected") > 0
                   THEN [k \in {"assignment", "task_amount", "task_status", "work_nonce"} |-> Blank]
                   ELSE <<>>
  OBVIOUS
<1>0. DOMAIN <<>> = {}
  OBVIOUS
<1>1. DOMAIN q \subseteq {"reorg_quarantine"}
  BY <1>q, <1>0
<1>2. DOMAIN y \subseteq {"yield_principal"}
  BY <1>y, <1>0 DEF YieldPosition
<1>3. DOMAIN e \subseteq {"claimable"}
  BY <1>e, <1>0 DEF EarningsPosition
<1>4. /\ DOMAIN s \subseteq {"task_status", "task_amount"}
      /\ ~(Count(canonical, "accrued") > 0) /\ Count(canonical, "refunded") > 0 => "task_status" \in DOMAIN s
  BY <1>s, <1>0 DEF SettlementPosition
<1>5. /\ db.assignment # "active" => DOMAIN l = {}
      /\ DOMAIN l \subseteq {"ledger_formal_balance", "ledger_claimable"}
      /\ db.assignment = "active" =>
           /\ "ledger_formal_balance" \in DOMAIN l /\ l["ledger_formal_balance"] = EscrowBalance(db)
           /\ "receivable" \in db.accounts =>
                "ledger_claimable" \in DOMAIN l /\ l["ledger_claimable"] = ReceivableBalance(db)
  <2>1. CASE db.assignment # "active"
    BY <1>l, <1>0, <2>1 DEF LedgerBalances
  <2>2. CASE db.assignment = "active"
    <3>1. PICK f : f = [ledger_formal_balance |-> EscrowBalance(db)]
      OBVIOUS
    <3>2. PICK g : g = IF "receivable" \in db.accounts
                       THEN [ledger_claimable |-> ReceivableBalance(db)] ELSE <<>>
      OBVIOUS
    <3>3. l = f ++ g
      BY <1>l, <2>2, <3>1, <3>2 DEF LedgerBalances
    <3>4. DOMAIN f = {"ledger_formal_balance"} /\ f["ledger_formal_balance"] = EscrowBalance(db)
      BY <3>1
    <3>5. /\ DOMAIN g \subseteq {"ledger_claimable"}
          /\ "receivable" \in db.accounts =>
               "ledger_claimable" \in DOMAIN g /\ g["ledger_claimable"] = ReceivableBalance(db)
      BY <1>0, <3>2
    <3>6. /\ DOMAIN l = DOMAIN f \cup DOMAIN g
          /\ \A k \in DOMAIN f : l[k] = f[k]
          /\ \A k \in DOMAIN g : k \notin DOMAIN f => l[k] = g[k]
      BY <3>3 DEF ++
    <3> QED
      BY <2>2, <3>4, <3>5, <3>6
  <2> QED
    BY <2>1, <2>2
<1>6. /\ db.assignment = "active" => "assignment" \in DOMAIN t /\ t["assignment"] = 1
      /\ db.assignment # "active" /\ Count(canonical, "selected") > 0 =>
           "assignment" \in DOMAIN t /\ t["assignment"] = Blank
      /\ db.assignment # "active" /\ ~(Count(canonical, "selected") > 0) => DOMAIN t = {}
  BY <1>t, <1>0
<1>7. PICK a : a = q ++ y
  OBVIOUS
<1>8. PICK b : b = a ++ e
  OBVIOUS
<1>9. PICK c : c = b ++ s
  OBVIOUS
<1>10. PICK d : d = c ++ l
  OBVIOUS
<1>11. X = d ++ t
  BY <1>q, <1>y, <1>e, <1>s, <1>l, <1>t, <1>7, <1>8, <1>9, <1>10, Zenon DEF ExpectedInventory
<1>12. DOMAIN c = DOMAIN q \cup DOMAIN y \cup DOMAIN e \cup DOMAIN s
  <2>1. DOMAIN a = DOMAIN q \cup DOMAIN y
    BY <1>7 DEF ++
  <2>2. DOMAIN b = DOMAIN a \cup DOMAIN e
    BY <1>8 DEF ++
  <2>3. DOMAIN c = DOMAIN b \cup DOMAIN s
    BY <1>9 DEF ++
  <2> QED
    BY <2>1, <2>2, <2>3
<1>13. /\ DOMAIN d = DOMAIN c \cup DOMAIN l
       /\ \A k \in DOMAIN l : k \notin DOMAIN c => d[k] = l[k]
  BY <1>10 DEF ++
<1>14. /\ DOMAIN X = DOMAIN d \cup DOMAIN t
       /\ \A k \in DOMAIN d : X[k] = d[k]
       /\ \A k \in DOMAIN t : k \notin DOMAIN d => X[k] = t[k]
  BY <1>11 DEF ++
<1>15. DOMAIN c \subseteq {"reorg_quarantine", "yield_principal", "claimable", "task_status", "task_amount"}
  BY <1>1, <1>2, <1>3, <1>4, <1>12
<1>16. "assignment" \notin DOMAIN d
  BY <1>5, <1>13, <1>15
<1>17. \A k \in DOMAIN l : k \in DOMAIN X /\ X[k] = l[k]
  BY <1>5, <1>13, <1>14, <1>15
<1>18. "task_status" \in DOMAIN s => "task_status" \in DOMAIN X
  BY <1>12, <1>13, <1>14
<1> QED
  BY <1>4, <1>5, <1>6, <1>14, <1>16, <1>17, <1>18

\* What the comparison says when it finds nothing.
LEMMA NoDifference ==
    ASSUME NEW K, NEW X, CompareInventory(X, ObservedInventory(K, X)) = {}
    PROVE  /\ \A k \in {"ledger_formal_balance", "ledger_claimable"} \cap DOMAIN X : X[k] = ContractState(K)[k]
           /\ DOMAIN X \cap TaskKeys # {} => Lookup(X, "assignment") = Count(K, "selected")
<1>1. PICK O : O = ObservedInventory(K, X)
  OBVIOUS
<1>2. \A k \in DOMAIN X \cup DOMAIN O : Lookup(X, k) = Lookup(O, k)
  BY <1>1 DEF CompareInventory
<1>3. PICK A : A = IF DOMAIN X \cap TaskKeys = {} THEN {}
                   ELSE {"assignment", "task_amount", "task_status", "work_nonce"}
  OBVIOUS
<1>4. PICK R : R = A \cup ({"ledger_formal_balance", "yield_principal", "claimable", "ledger_claimable"} \cap DOMAIN X)
  OBVIOUS
<1>5. O = [k \in R |-> ContractState(K)[k]]
  BY <1>1, <1>3, <1>4, Zenon DEF ObservedInventory
<1>6. \A k \in R : k \in DOMAIN O /\ O[k] = ContractState(K)[k]
  BY <1>5
<1>7. ASSUME NEW k \in {"ledger_formal_balance", "ledger_claimable"} \cap DOMAIN X
      PROVE  X[k] = ContractState(K)[k]
  <2>1. k \in R /\ k \in DOMAIN X
    BY <1>4
  <2> QED
    BY <1>2, <1>6, <2>1 DEF Lookup
<1>8. ASSUME DOMAIN X \cap TaskKeys # {} PROVE Lookup(X, "assignment") = Count(K, "selected")
  <2>1. "assignment" \in R
    BY <1>3, <1>4, <1>8
  <2>2. ContractState(K)["assignment"] = Count(K, "selected")
    BY DEF ContractState
  <2> QED
    BY <1>2, <1>6, <2>1, <2>2 DEF Lookup
<1> QED
  BY <1>7, <1>8

\* A release of the canonical chain that is reversed leaves the deposit in escrow.
LEMMA ReleaseMissing ==
    ASSUME NEW K, K \subseteq Block, IsChain(K), NEW d \in Database, Covered(d, K), Booked(d, K),
           NEW b \in K, Settles("release", b), Posted(d, "release") = {}, Posted(d, "refund") = {}
    PROVE  EscrowBalance(d) = Budget
<1>1. Anchored(d, K, b)
  BY DEF Booked
<1>2. Branch[b] \subseteq K
  BY BranchOnChain
<1>3. d.live # None
  BY <1>1, <1>2, ContentTypes DEF Anchored
<1>4. EscrowBalance(d) = Budget - Payable * 0 - Budget * 0
  BY <1>3, FS_EmptySet DEF EscrowBalance
<1> QED
  BY <1>4, ContentTypes

\* Only what an event stands for is posted.
LEMMA PostedSettles ==
    ASSUME NEW K, NEW d, Covered(d, K), Booked(d, K), NEW type \in JournalType
    PROVE  /\ \A b \in Posted(d, type) : b \in K /\ Settles(type, b)
           /\ \A b : <<type, b>> \in d.journals \ d.reversed => b \in Posted(d, type)
<1>1. ASSUME NEW b \in Posted(d, type) PROVE b \in K /\ Settles(type, b)
  <2>1. PICK j \in d.journals : j[1] = type /\ j[2] = b
    BY DEF Posted
  <2> QED
    BY <2>1 DEF Booked, Covered
<1>2. ASSUME NEW b, <<type, b>> \in d.journals \ d.reversed PROVE b \in Posted(d, type)
  <2>1. <<type, b>>[1] = type /\ <<type, b>>[2] = b
    OBVIOUS
  <2> QED
    BY <1>2, <2>1 DEF Posted
<1> QED
  BY <1>1, <1>2

\* Without differences each event of the canonical chain is in the ledger.
LEMMA NoDivergence ==
    ASSUME DivergenceInv, CompareInventory(ExpectedInventory, ObservedInventory(canonical, ExpectedInventory)) = {}
    PROVE  LedgerFollowsChain
<1>k. PICK K : K = canonical
  OBVIOUS
<1>x. PICK X : X = ExpectedInventory
  OBVIOUS
<1>0. /\ K \subseteq Block /\ IsChain(K) /\ db \in Database /\ Covered(db, K) /\ Booked(db, K)
  BY <1>k DEF DivergenceInv, ChainInv, RowsInv, Supported, IndexInv, IndexIsChain
<1>t. JournalType = {"release", "withdrawal", "refund"}
  BY DEF JournalType
<1>1. PICK sel \in {0, 1}, acc \in {0, 1}, wit \in {0, 1}, ref \in {0, 1} :
         /\ sel = Count(K, "selected") /\ (sel = 1 <=> \E b \in K : Has(b, "selected"))
         /\ acc = Count(K, "accrued") /\ (acc = 1 <=> \E b \in K : Has(b, "accrued"))
         /\ wit = Count(K, "withdrawn") /\ (wit = 1 <=> \E b \in K : Has(b, "withdrawn"))
         /\ ref = Count(K, "refunded") /\ (ref = 1 <=> \E b \in K : Has(b, "refunded"))
  BY <1>0, CountOne
<1>2. /\ acc = 1 => sel = 1
      /\ wit = 1 => acc = 1
      /\ ~(sel = 1 /\ ref = 1)
  BY <1>0, <1>1, ContractOrder
<1>3. \A b, c \in K : /\ Has(b, "accrued") /\ Has(c, "accrued") => b = c
                      /\ Has(b, "withdrawn") /\ Has(c, "withdrawn") => b = c
  BY <1>0, ContractOrder
<1>4. /\ \A k \in {"ledger_formal_balance", "ledger_claimable"} \cap DOMAIN X : X[k] = ContractState(K)[k]
      /\ DOMAIN X \cap TaskKeys # {} => Lookup(X, "assignment") = sel
  BY <1>k, <1>x, <1>1, NoDifference
<1>5. /\ db.assignment = "active" =>
           /\ "assignment" \in DOMAIN X /\ X["assignment"] = 1
           /\ "ledger_formal_balance" \in DOMAIN X /\ X["ledger_formal_balance"] = EscrowBalance(db)
           /\ "receivable" \in db.accounts =>
                "ledger_claimable" \in DOMAIN X /\ X["ledger_claimable"] = ReceivableBalance(db)
      /\ db.assignment # "active" /\ sel > 0 => "assignment" \in DOMAIN X /\ X["assignment"] = Blank
      /\ db.assignment # "active" /\ ~(sel > 0) =>
           /\ "assignment" \notin DOMAIN X
           /\ ~(acc > 0) /\ ref > 0 => "task_status" \in DOMAIN X
  BY <1>k, <1>x, <1>1, ExpectedOf
<1>6. "assignment" \in TaskKeys /\ "task_status" \in TaskKeys
  BY DEF TaskKeys
<1>7. ASSUME NEW type \in JournalType, \A b \in K : Settles(type, b) => b \in Posted(db, type)
      PROVE  Posted(db, type) = {b \in K : Settles(type, b)}
  BY <1>0, <1>7, PostedSettles
<1>8. CASE db.assignment # "active"
  <2>1. sel = 0
    BY <1>4, <1>5, <1>6, <1>8 DEF Lookup, Blank
  <2>2. acc = 0 /\ wit = 0
    BY <1>2, <2>1
  <2>3. ref = 0
    BY <1>4, <1>5, <1>6, <1>8, <2>1, <2>2 DEF Lookup, Blank
  <2>4. \A b \in K, type \in JournalType : ~Settles(type, b)
    BY <1>1, <2>2, <2>3 DEF Settles
  <2> QED
    BY <1>7, <1>k, <2>4 DEF LedgerFollowsChain
<1>9. CASE db.assignment = "active"
  <2>1. sel = 1 /\ ref = 0
    BY <1>2, <1>4, <1>5, <1>6, <1>9 DEF Lookup
  <2>2. \A b \in K : ~Settles("refund", b)
    BY <1>1, <2>1 DEF Settles
  <2>3. Posted(db, "refund") = {}
    BY <1>0, <1>t, <2>2, PostedSettles
  <2>4. ASSUME NEW b \in K, Settles("release", b) PROVE b \in Posted(db, "release")
    <3> SUFFICES ASSUME b \notin Posted(db, "release") PROVE FALSE
      OBVIOUS
    <3>1. Has(b, "accrued")
      BY <2>4 DEF Settles
    <3>2. \A c \in Posted(db, "release") : c \in K /\ Has(c, "accrued")
      BY <1>0, <1>t, PostedSettles DEF Settles
    <3>3. Posted(db, "release") = {}
      BY <1>3, <3>1, <3>2
    <3>4. EscrowBalance(db) = Budget
      BY <1>0, <2>3, <2>4, <3>3, ReleaseMissing
    <3>5. ContractState(K)["ledger_formal_balance"] = ContractAmount(K)
      BY DEF ContractState
    <3>6. acc = 1
      BY <1>1, <3>1
    <3>7. ContractAmount(K) = 0
      BY <1>1, <3>6 DEF ContractAmount, ContractStatus
    <3>8. X["ledger_formal_balance"] = ContractState(K)["ledger_formal_balance"]
      BY <1>4, <1>5, <1>9
    <3> QED
      BY <1>5, <1>9, <3>4, <3>5, <3>7, <3>8, ContentTypes
  <2>5. ASSUME NEW b \in K, Settles("withdrawal", b) PROVE b \in Posted(db, "withdrawal")
    <3> SUFFICES ASSUME b \notin Posted(db, "withdrawal") PROVE FALSE
      OBVIOUS
    <3>1. Has(b, "withdrawn") /\ Payable # 0
      BY <2>5 DEF Settles
    <3>2. wit = 1 /\ acc = 1
      BY <1>1, <1>2, <3>1
    <3>3. PICK a \in K : Has(a, "accrued")
      BY <1>1, <3>2
    <3>4. Settles("release", a)
      BY <3>1, <3>3 DEF Settles
    <3>5. "receivable" \in db.accounts
      BY <1>0, <3>4 DEF Booked
    <3>6. \A c \in Posted(db, "release") : c \in K /\ Has(c, "accrued")
      BY <1>0, <1>t, PostedSettles DEF Settles
    <3>7. Posted(db, "release") = {a}
      BY <1>3, <2>4, <3>3, <3>4, <3>6
    <3>8. \A c \in Posted(db, "withdrawal") : c \in K /\ Has(c, "withdrawn")
      BY <1>0, <1>t, PostedSettles DEF Settles
    <3>9. Posted(db, "withdrawal") = {}
      BY <1>3, <3>1, <3>8
    <3>10. Cardinality({a}) = 1 /\ Cardinality({}) = 0
      BY FS_Singleton, FS_EmptySet
    <3>11. ReceivableBalance(db) = Payable * (1 - 0)
      BY <3>7, <3>9, <3>10 DEF ReceivableBalance
    <3>12. ContractState(K)["ledger_claimable"] = Payable * (acc - wit)
      BY <1>1 DEF ContractState
    <3>13. X["ledger_claimable"] = ContractState(K)["ledger_claimable"] /\ X["ledger_claimable"] = ReceivableBalance(db)
      BY <1>4, <1>5, <1>9, <3>5
    <3>14. Payable * (1 - 0) = Payable /\ Payable * (acc - wit) = 0
      BY <3>2, ContentTypes
    <3> QED
      BY <3>1, <3>11, <3>12, <3>13, <3>14
  <2>6. \A type \in JournalType : \A b \in K : Settles(type, b) => b \in Posted(db, type)
    BY <1>t, <2>2, <2>4, <2>5
  <2> QED
    BY <1>7, <1>k, <2>6 DEF LedgerFollowsChain
<1> QED
  BY <1>8, <1>9

\* The daily reconciliation never says "matched" while a settlement of the canonical chain
\* is missing from the ledger, or one is booked without its event, whatever the tree of
\* blocks (Run, CompareInventory): a lost release shows in the escrow balance, a lost
\* withdrawal in the receivable, and without an active assignment the assignment's keys tell.
THEOREM DivergenceIsSeen == Spec => []DivergenceSeen
<1>1. DivergenceInv => DivergenceSeen
  <2> SUFFICES ASSUME DivergenceInv, Comparable, Differences = {} PROVE LedgerFollowsChain
    BY DEF DivergenceSeen
  <2>1. /\ canonical \subseteq Block /\ IsChain(canonical) /\ cursor \in canonical
        /\ \A c \in canonical : Height[c] <= Height[cursor]
    BY DEF DivergenceInv, ChainInv, IndexInv, IndexIsChain, Comparable
  <2>2. Branch[cursor] = {c \in canonical : Height[c] <= Height[cursor]}
    BY <2>1, BranchOnChain
  <2>3. Branch[cursor] = canonical
    BY <2>1, <2>2
  <2> QED
    BY <2>3, NoDivergence DEF Differences
<1> QED
  BY DivergenceInit, DivergenceStep, <1>1, PTL DEF Spec
=============================================================================
