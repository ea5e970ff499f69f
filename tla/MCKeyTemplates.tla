--------------------------- MODULE MCKeyTemplates ---------------------------
(***************************************************************************)
(* KeyTemplates for TLC: the threads are interchangeable.                  *)
(***************************************************************************)
EXTENDS KeyTemplates, TLC

Symmetry == Permutations(Threads)
=============================================================================
