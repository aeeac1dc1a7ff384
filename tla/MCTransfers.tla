---------------------------- MODULE MCTransfers -----------------------------
(***************************************************************************)
(* Instance of Transfers: sixteen addresses aligned in twos, one region at *)
(* the bottom, one that ends at the top of the address space, and one that *)
(* is refused.                                                             *)
(***************************************************************************)
EXTENDS Transfers

Symmetry == Permutations(Tensors)
MCRegions == {[base |-> 0, size |-> 4], [base |-> 14, size |-> 2], [base |-> 3, size |-> 4]}
=============================================================================
