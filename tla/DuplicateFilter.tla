--------------------------- MODULE DuplicateFilter ---------------------------
(***************************************************************************)
(* What a reliable receive window promises: every message index is taken at *)
(* most once, and only if it is at most Width ahead of the first index that *)
(* is still missing.                                                        *)
(***************************************************************************)
EXTENDS Integers

CONSTANT Width

VARIABLES
  taken,  \* the indexes taken so far
  first   \* the first index missing

Init == taken = {} /\ first = 0

Take(i) ==
  /\ i \notin taken
  /\ i >= first /\ i <= first + Width
  /\ taken' = taken \cup {i}
  /\ first' \in Nat \ taken'
  /\ \A j \in 0 .. first' - 1 : j \in taken'

Next == \E i \in first .. first + Width : Take(i)

Spec == Init /\ [][Next]_<<taken, first>>

=============================================================================
