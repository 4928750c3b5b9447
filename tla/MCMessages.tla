----------------------------- MODULE MCMessages -----------------------------
(* Small values for Messages.                                              *)
EXTENDS Messages
TwoHosts == {<<127, 0, 0, 1>>, <<10, 1, 2, 3>>}
=============================================================================
