----------------------------- MODULE MCStartup -----------------------------
(* Small values for Startup.                                               *)
EXTENDS Startup
CONSTANTS p1, p2
TwoPorts == {p1, p2}
=============================================================================
