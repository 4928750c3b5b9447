------------------------- MODULE MCSessionLifecycle -------------------------
(***************************************************************************)
(* An instance of SessionLifecycle for TLC: room for two sessions at a time *)
(* with two ids, so that a third reuses one and a third address meets a     *)
(* full table.                                                              *)
(***************************************************************************)
EXTENDS SessionLifecycle, TLC

CONSTANTS ip1, ip2, ip3

ThreeIps == {ip1, ip2, ip3}
IpSymmetry == Permutations(ThreeIps)
=============================================================================
