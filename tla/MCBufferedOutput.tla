-------------------------- MODULE MCBufferedOutput --------------------------
(***************************************************************************)
(* BufferedOutput for TLC.                                                 *)
(***************************************************************************)
EXTENDS BufferedOutput, TLC

=============================================================================
