----------------------------- MODULE MCDropCopy -----------------------------
(* DropCopy with interchangeable orders.                                   *)
EXTENDS DropCopy, TLC

Symmetry == Permutations(Orders)
=============================================================================
