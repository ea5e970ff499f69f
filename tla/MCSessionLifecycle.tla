------------------------- MODULE MCSessionLifecycle -------------------------
(***************************************************************************)
(* SessionLifecycle for TLC: threads, sessions and handles are             *)
(* interchangeable.                                                        *)
(***************************************************************************)
EXTENDS SessionLifecycle, TLC

Symmetry == Permutations(Threads) \cup Permutations(Sessions) \cup Permutations(Handles)
=============================================================================
