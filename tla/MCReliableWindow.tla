-------------------------- MODULE MCReliableWindow --------------------------
(***************************************************************************)
(* An instance of ReliableWindow for TLC: a wire that carries ten indexes   *)
(* and a window of three.                                                   *)
(***************************************************************************)
EXTENDS ReliableWindow

TenIndexes == 0 .. 9
=============================================================================
