--------------------------- MODULE ReliableWindow ---------------------------
(***************************************************************************)
(* Session.handleEncapsulatedPacket: the window of reliable messages, and   *)
(* what becomes of a packet behind it.                                      *)
(*                                                                          *)
(* The method is modelled as one that is called with packets in any order,  *)
(* any of them repeatedly or never: what an unreliable network makes of     *)
(* them.  (Session.handlePacket, its only caller, does not get to call it.) *)
(* A packet of an unreliable kind carries no messageIndex; the code tests   *)
(* for null where the field is undefined, so such a packet goes through the *)
(* window as well, under the one key `undefined`.                           *)
(*                                                                          *)
(* Behind the window the method never returns normally but for a bad split  *)
(* part: handleSplit calls map on a number, and everybody else runs into    *)
(* PacketReliability.isSequencedOrOrdered, which is not a static method.    *)
(***************************************************************************)
EXTENDS Integers

CONSTANTS
  Indexes,      \* the message indexes the wire can carry: 0 .. 2^24 - 1
  WINDOW_SIZE,  \* 2048
  Undefined     \* JavaScript's undefined

ASSUME ReliableWindowAssumption ==
  /\ Indexes \subseteq Nat
  /\ WINDOW_SIZE \in Nat
  /\ Undefined \notin Int

Keys == Indexes \cup {Undefined}

(* hasSplit is false; or handleSplit finds count or index out of bounds; or *)
(* it gets to work.                                                         *)
Splits == {"none", "bad", "good"}

VARIABLES
  reliableWindowStart, reliableWindowEnd,
  reliableWindow,  \* the keys of the Map
  outcome,         \* how the latest call ended
  admissions       \* history: how often each key passed the window

vars == <<reliableWindowStart, reliableWindowEnd, reliableWindow, outcome, admissions>>

Init ==
  /\ reliableWindowStart = 0 /\ reliableWindowEnd = WINDOW_SIZE
  /\ reliableWindow = {}
  /\ outcome = "none"
  /\ admissions = [i \in Keys |-> 0]

\* Comparisons with undefined are false.
OutOfWindowPastEnd(i) == i # Undefined /\ (i < reliableWindowStart \/ i > reliableWindowEnd + 1)
OutOfWindow(i) == i # Undefined /\ (i < reliableWindowStart \/ i > reliableWindowEnd)

NeverDuplicate(i) == FALSE
Duplicate(i) == i \in reliableWindow

Drop(i) ==
  /\ OutOfWindow(i) \/ Duplicate(i)
  /\ outcome' = "dropped"
  /\ UNCHANGED <<reliableWindowStart, reliableWindowEnd, reliableWindow, admissions>>

Pass(i, split) ==
  /\ ~OutOfWindow(i) /\ ~Duplicate(i)
  /\ admissions' = [admissions EXCEPT ![i] = @ + 1]
  /\ outcome' = IF split = "bad" THEN "returned" ELSE "threw"

\* An index ahead of the start (or none at all) waits in the map.
Buffer(i, split) ==
  /\ i # reliableWindowStart
  /\ Pass(i, split)
  /\ reliableWindow' = reliableWindow \cup {i}
  /\ UNCHANGED <<reliableWindowStart, reliableWindowEnd>>

EndMovesBack(n) == reliableWindowEnd' = reliableWindowEnd - n
EndMovesOnce(n) == reliableWindowEnd' = reliableWindowEnd + 1
EndMoves(n) == reliableWindowEnd' = reliableWindowEnd + n

StartMovesOnce(held) == {reliableWindowStart + 1}
\* The first index that is not held, from the start on.
FirstGap(held) ==
  {g \in Nat : /\ g >= reliableWindowStart /\ g \notin held
               /\ \A j \in reliableWindowStart .. g - 1 : j \in held}

\* The index the window waits for: start and end move past everything held.
Advance(i, split) ==
  /\ i = reliableWindowStart
  /\ Pass(i, split)
  /\ \E g \in reliableWindowStart + 1 .. reliableWindowEnd + 1 :
       /\ g \in FirstGap(reliableWindow \cup {i})
       /\ reliableWindowStart' = g
       /\ EndMoves(g - reliableWindowStart)
       /\ reliableWindow' = (reliableWindow \cup {i}) \ (reliableWindowStart .. g - 1)

HandleEncapsulatedPacket(i, split) == Drop(i) \/ Buffer(i, split) \/ Advance(i, split)

Next == \E i \in Keys, split \in Splits : HandleEncapsulatedPacket(i, split)

Spec == Init /\ [][Next]_vars

-----------------------------------------------------------------------------
(* Properties.                                                             *)

TypeOK ==
  /\ reliableWindowStart \in Nat /\ reliableWindowEnd \in Nat
  /\ reliableWindow \subseteq Keys
  /\ outcome \in {"none", "dropped", "returned", "threw"}
  /\ admissions \in [Keys -> Nat]

(* No packet passes the window twice, however often it is delivered: above  *)
(* the start the map knows it, below the start the comparison does.  A      *)
(* packet without an index shares its key with all others of its kind.      *)
AdmittedOnce == \A i \in Keys : admissions[i] <= 1

(* The start is the first index that has not passed, the map holds exactly  *)
(* what has passed beyond it, and the window keeps its size.                *)
WindowIsFrontier ==
  /\ reliableWindowEnd = reliableWindowStart + WINDOW_SIZE
  /\ \A i \in Indexes :
       /\ i < reliableWindowStart => admissions[i] > 0
       /\ i >= reliableWindowStart => (admissions[i] > 0 <=> i \in reliableWindow)
  /\ reliableWindowStart \notin reliableWindow

(* The window implements a DuplicateFilter as wide as itself.               *)
Taken == {i \in Indexes : admissions[i] > 0}
DF == INSTANCE DuplicateFilter
        WITH Width <- WINDOW_SIZE, taken <- Taken, first <- reliableWindowStart
RefinesDuplicateFilter == DF!Spec

=============================================================================
