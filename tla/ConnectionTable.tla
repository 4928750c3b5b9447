--------------------------- MODULE ConnectionTable ---------------------------
(***************************************************************************)
(* What SessionManager's tables promise: a connection is admitted under a   *)
(* key that has none, with an id no other connection holds, while there is  *)
(* room; it is never changed, replaced or dropped.  The table may die at    *)
(* any time, and nothing is admitted after that.                            *)
(***************************************************************************)
EXTENDS Integers, FiniteSets

CONSTANTS
  Keys,     \* what connections are found by: ip addresses
  Entries,  \* records with a field internalId
  KeyOf(_), \* the key each entry belongs under
  Limit     \* a table with more entries admits no further one

VARIABLES table, alive

Room == Cardinality(DOMAIN table) <= Limit

Init ==
  /\ table = [k \in {} |-> k]
  /\ alive = TRUE

\* The entry admitted is table'[k].
Admit(k) ==
  /\ alive /\ Room
  /\ k \notin DOMAIN table
  /\ DOMAIN table' = DOMAIN table \cup {k}
  /\ table' = [l \in DOMAIN table' |-> table'[l]]
  /\ table'[k] \in Entries /\ KeyOf(table'[k]) = k
  /\ \A l \in DOMAIN table :
       table'[l] = table[l] /\ table[l].internalId # table'[k].internalId
  /\ UNCHANGED alive

Die ==
  /\ alive
  /\ alive' = FALSE
  /\ UNCHANGED table

Next == (\E k \in Keys : Admit(k)) \/ Die

Spec == Init /\ [][Next]_<<table, alive>>

=============================================================================
