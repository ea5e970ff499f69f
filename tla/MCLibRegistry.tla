---------------------------- MODULE MCLibRegistry ----------------------------
(***************************************************************************)
(* LibRegistry for TLC: threads and wrappers are interchangeable.          *)
(***************************************************************************)
EXTENDS LibRegistry, TLC

Symmetry == Permutations(Threads) \cup Permutations(Wrappers)
=============================================================================
