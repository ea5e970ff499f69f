------------------------- MODULE MCOperationContext -------------------------
(***************************************************************************)
(* OperationContext for TLC: model values for threads and operations,      *)
(* which are interchangeable.                                              *)
(***************************************************************************)
EXTENDS OperationContext, TLC

Symmetry == Permutations(Threads) \cup Permutations(Ops)
=============================================================================
