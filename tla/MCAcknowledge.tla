---------------------------- MODULE MCAcknowledge ----------------------------
(***************************************************************************)
(* An instance of Acknowledge for TLC: lists of up to four of the numbers   *)
(* around the change from one digit to two, where the order of strings and  *)
(* the order of numbers part, and caps that three records exceed.           *)
(***************************************************************************)
EXTENDS Acknowledge

FewNumbers == {0, 1, 2, 9, 10, 11}
=============================================================================
