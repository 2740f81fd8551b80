--------------------------- MODULE CanonicalIndex ---------------------------
(***************************************************************************)
(* What the chain projection promises to the rest of the engine: an index  *)
(* of authoritative blocks that only grows at its tip and only shrinks     *)
(* from its tip, and the deposit of the task, counted while the block that *)
(* carries it is in the index and never twice.                             *)
(***************************************************************************)
EXTENDS Integers

CONSTANTS Block, Parent, Height, Root, Funds   \* Funds: blocks that carry the deposit

VARIABLES index, counted

indexVars == <<index, counted>>

IndexInit == index = {} /\ counted = {}

IsTip(b) == b \in index /\ \A c \in index : Height[c] <= Height[b]

\* The deposit may be counted with its block, or later, once its sender is known.
Extend(b) ==
    /\ \/ index = {} /\ b = Root
       \/ b # Root /\ IsTip(Parent[b])
    /\ index' = index \cup {b}
    /\ \/ counted' = counted
       \/ counted = {} /\ b \in Funds /\ counted' = {b}

Retract(h) ==
    /\ index' = {b \in index : Height[b] <= h}
    /\ counted' = counted \cap index'

Count(b) ==
    /\ counted = {} /\ b \in index \cap Funds
    /\ counted' = {b}
    /\ UNCHANGED index

IndexNext ==
    \/ \E b \in Block : Extend(b) \/ Count(b)
    \/ \E b \in Block : Retract(Height[b])

IndexSpec == IndexInit /\ [][IndexNext]_indexVars
=============================================================================
