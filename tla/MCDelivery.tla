----------------------------- MODULE MCDelivery -----------------------------
(* Delivery with interchangeable contents and transactions. *)
EXTENDS Delivery, TLC

Symmetric == Permutations(Content) \cup Permutations(Tx)
=============================================================================
