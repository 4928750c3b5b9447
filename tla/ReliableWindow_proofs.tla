------------------------ MODULE ReliableWindow_proofs ------------------------
(***************************************************************************)
(* Proofs about ReliableWindow, for every set of indexes and every width.   *)
(*                                                                          *)
(* Each property alone is not inductive: that a packet passes once rests on *)
(* the map knowing what lies beyond the start and the comparison refusing   *)
(* what lies before it, and that in turn on the start moving only over      *)
(* indexes that have passed.  Held says all of it about every key, the      *)
(* missing one (Undefined) included.                                        *)
(***************************************************************************)
EXTENDS ReliableWindow, TLAPS

Passed(i) == admissions[i] > 0

Held ==
  /\ \A i \in reliableWindow : Passed(i) /\ (i # Undefined => i > reliableWindowStart)
  /\ \A i \in Keys : Passed(i) => i \in reliableWindow \/ (i # Undefined /\ i < reliableWindowStart)
  /\ \A j \in Nat : j < reliableWindowStart => j \in Indexes /\ Passed(j)

IInv ==
  /\ TypeOK
  /\ AdmittedOnce
  /\ Held
  /\ reliableWindowEnd = reliableWindowStart + WINDOW_SIZE

(* The initial state has an empty map and nothing passed.                   *)
LEMMA InitIInv == Init => IInv
<1> SUFFICES ASSUME Init PROVE IInv
  OBVIOUS
<1> USE ReliableWindowAssumption DEF Init, Keys
<1>1. TypeOK
  BY DEF TypeOK
<1>2. AdmittedOnce
  BY DEF AdmittedOnce
<1>3. Held
  BY DEF Held, Passed
<1>4. reliableWindowEnd = reliableWindowStart + WINDOW_SIZE
  OBVIOUS
<1> QED
  BY <1>1, <1>2, <1>3, <1>4 DEF IInv

(* A key that gets past both tests has never passed before.                 *)
LEMMA NotYetPassed ==
  ASSUME IInv, NEW i \in Keys, ~OutOfWindow(i), ~Duplicate(i)
  PROVE  admissions[i] = 0 /\ (i # Undefined => i \in Nat /\ i >= reliableWindowStart)
<1>1. i # Undefined => i \in Nat /\ i >= reliableWindowStart
  BY ReliableWindowAssumption DEF IInv, TypeOK, OutOfWindow, Keys
<1>2. i \notin reliableWindow
  BY DEF Duplicate
<1>3. ~Passed(i)
  BY <1>1, <1>2 DEF IInv, Held, TypeOK
<1>4. admissions[i] \in Nat
  BY DEF IInv, TypeOK
<1> QED
  BY <1>1, <1>3, <1>4 DEF Passed

(* What passing does to the counts.                                         *)
LEMMA PassCounts ==
  ASSUME IInv, NEW i \in Keys, NEW split \in Splits, Pass(i, split)
  PROVE  /\ admissions' \in [Keys -> Nat] /\ outcome' \in {"returned", "threw"}
         /\ AdmittedOnce'
         /\ \A k \in Keys : Passed(k)' <=> Passed(k) \/ k = i
<1>1. admissions[i] = 0
  BY NotYetPassed DEF Pass
<1>2. admissions' = [admissions EXCEPT ![i] = 1]
  BY <1>1 DEF Pass
<1>3. admissions \in [Keys -> Nat]
  BY DEF IInv, TypeOK
<1>4. \A k \in Keys : admissions'[k] = IF k = i THEN 1 ELSE admissions[k]
  BY <1>2, <1>3
<1>5. AdmittedOnce'
  BY <1>3, <1>4 DEF IInv, AdmittedOnce
<1>6. \A k \in Keys : Passed(k)' <=> Passed(k) \/ k = i
  BY <1>3, <1>4 DEF Passed
<1> QED
  BY <1>2, <1>3, <1>5, <1>6 DEF Pass

(* Every step keeps the invariant.                                          *)
LEMMA NextIInv == IInv /\ [Next]_vars => IInv'
<1> SUFFICES ASSUME IInv, [Next]_vars PROVE IInv'
  OBVIOUS
<1> USE ReliableWindowAssumption
<1>1. CASE UNCHANGED vars
  BY <1>1 DEF vars, IInv, TypeOK, AdmittedOnce, Held, Passed
<1>2. ASSUME NEW i \in Keys, Drop(i) PROVE IInv'
  BY <1>2 DEF Drop, IInv, TypeOK, AdmittedOnce, Held, Passed
<1>3. ASSUME NEW i \in Keys, NEW split \in Splits, Buffer(i, split) PROVE IInv'
  <2>1. Pass(i, split) /\ i # reliableWindowStart
    BY <1>3 DEF Buffer
  <2>2. i # Undefined => i \in Nat /\ i >= reliableWindowStart
    BY <2>1, NotYetPassed DEF Pass
  <2>3. /\ reliableWindow' = reliableWindow \cup {i}
        /\ UNCHANGED <<reliableWindowStart, reliableWindowEnd>>
    BY <1>3 DEF Buffer
  <2>4. TypeOK' /\ AdmittedOnce'
    BY <2>1, <2>3, PassCounts DEF IInv, TypeOK
  <2>5. \A k \in Keys : Passed(k)' <=> Passed(k) \/ k = i
    BY <2>1, PassCounts
  <2>6. Held'
    <3>1. \A k \in reliableWindow' : Passed(k)' /\ (k # Undefined => k > reliableWindowStart')
      BY <2>1, <2>2, <2>3, <2>5 DEF IInv, TypeOK, Held
    <3>2. \A k \in Keys : Passed(k)' =>
            k \in reliableWindow' \/ (k # Undefined /\ k < reliableWindowStart')
      BY <2>3, <2>5 DEF IInv, Held
    <3>3. \A j \in Nat : j < reliableWindowStart' => j \in Indexes /\ Passed(j)'
      BY <2>3, <2>5 DEF IInv, Held, Keys
    <3> QED
      BY <3>1, <3>2, <3>3 DEF Held
  <2> QED
    BY <2>3, <2>4, <2>6 DEF IInv
<1>4. ASSUME NEW i \in Keys, NEW split \in Splits, Advance(i, split) PROVE IInv'
  <2>1. Pass(i, split) /\ i = reliableWindowStart
    BY <1>4 DEF Advance
  <2>2. PICK g \in Nat :
          /\ g > reliableWindowStart
          /\ g \notin reliableWindow \cup {i}
          /\ \A j \in reliableWindowStart .. g - 1 : j \in reliableWindow \cup {i}
          /\ reliableWindowStart' = g
          /\ reliableWindowEnd' = reliableWindowEnd + (g - reliableWindowStart)
          /\ reliableWindow' = (reliableWindow \cup {i}) \ (reliableWindowStart .. g - 1)
    BY <1>4 DEF Advance, FirstGap, EndMoves, IInv, TypeOK
  <2>3. reliableWindowStart \in Nat /\ reliableWindowEnd \in Nat /\ reliableWindow \subseteq Keys
    BY DEF IInv, TypeOK
  <2>4. i # Undefined /\ i \in Indexes
    BY <2>1, <2>3 DEF Keys
  <2>5. \A k \in Keys : Passed(k)' <=> Passed(k) \/ k = i
    BY <2>1, PassCounts
  <2>6. TypeOK' /\ AdmittedOnce'
    BY <2>1, <2>2, <2>3, PassCounts DEF TypeOK
  <2>7. Held'
    <3>1. \A k \in reliableWindow' : Passed(k)' /\ (k # Undefined => k > reliableWindowStart')
      <4> TAKE k \in reliableWindow'
      <4>1. k \in reliableWindow \/ k = i
        BY <2>2
      <4>2. k \in Keys /\ Passed(k)'
        BY <4>1, <2>3, <2>4, <2>5 DEF IInv, Held, Keys
      <4>3. ASSUME k # Undefined PROVE k > reliableWindowStart'
        <5>1. k \in Nat /\ k >= reliableWindowStart
          BY <4>1, <4>2, <4>3, <2>1, <2>3 DEF IInv, Held, Keys
        <5>2. k \notin reliableWindowStart .. g - 1 /\ k # g
          BY <4>1, <2>2
        <5> QED
          BY <5>1, <5>2, <2>2, <2>3
      <4> QED
        BY <4>2, <4>3
    <3>2. \A k \in Keys : Passed(k)' =>
            k \in reliableWindow' \/ (k # Undefined /\ k < reliableWindowStart')
      <4> SUFFICES ASSUME NEW k \in Keys, Passed(k)', ~(k # Undefined /\ k < reliableWindowStart')
                   PROVE  k \in reliableWindow'
        OBVIOUS
      <4>1. k \notin reliableWindowStart .. g - 1
        BY <2>2, <2>3 DEF Keys
      <4>2. k # i
        BY <4>1, <2>1, <2>2, <2>3
      <4>3. k \in reliableWindow \/ (k # Undefined /\ k < reliableWindowStart)
        BY <4>2, <2>5 DEF IInv, Held
      <4>4. k \in reliableWindow
        BY <4>3, <2>2, <2>3 DEF Keys
      <4> QED
        BY <4>1, <4>4, <2>2
    <3>3. \A j \in Nat : j < reliableWindowStart' => j \in Indexes /\ Passed(j)'
      <4> SUFFICES ASSUME NEW j \in Nat, j < g PROVE j \in Indexes /\ Passed(j)'
        BY <2>2
      <4>1. CASE j < reliableWindowStart
        BY <4>1, <2>5 DEF IInv, Held, Keys
      <4>2. CASE j >= reliableWindowStart
        <5>1. j \in reliableWindow \cup {i}
          BY <4>2, <2>2, <2>3
        <5>2. j \in Keys /\ j # Undefined
          BY <5>1, <2>3, <2>4 DEF Keys
        <5> QED
          BY <5>1, <5>2, <2>5 DEF IInv, Held, Keys
      <4> QED
        BY <4>1, <4>2, <2>3
    <3> QED
      BY <3>1, <3>2, <3>3 DEF Held
  <2>8. (reliableWindowEnd = reliableWindowStart + WINDOW_SIZE)'
    BY <2>2, <2>3 DEF IInv
  <2> QED
    BY <2>6, <2>7, <2>8 DEF IInv
<1> QED
  BY <1>1, <1>2, <1>3, <1>4 DEF Next, HandleEncapsulatedPacket

(* The window of Session stays within its types: indexes, a map of keys,   *)
(* an outcome and a count per key.                                          *)
THEOREM WindowTypeCorrect == Spec => []TypeOK
<1>1. IInv => TypeOK
  BY DEF IInv
<1> QED
  BY InitIInv, NextIInv, <1>1, PTL DEF Spec

(* A packet delivered any number of times, in any order with others, passes *)
(* the reliable window at most once (Session.js:280-289).                   *)
THEOREM AlwaysAdmittedOnce == Spec => []AdmittedOnce
<1>1. IInv => AdmittedOnce
  BY DEF IInv
<1> QED
  BY InitIInv, NextIInv, <1>1, PTL DEF Spec

(* Held and the types give the frontier the property speaks of.             *)
LEMMA IInvFrontier == IInv => WindowIsFrontier
<1> SUFFICES ASSUME IInv PROVE WindowIsFrontier
  OBVIOUS
<1> USE ReliableWindowAssumption
<1>1. reliableWindowStart \in Nat
  BY DEF IInv, TypeOK
<1>2. ASSUME NEW i \in Indexes
      PROVE  /\ i < reliableWindowStart => admissions[i] > 0
             /\ i >= reliableWindowStart => (admissions[i] > 0 <=> i \in reliableWindow)
  <2>1. i \in Nat /\ i \in Keys /\ i # Undefined
    BY DEF Keys
  <2> QED
    BY <1>1, <2>1 DEF IInv, Held, Passed
<1>3. reliableWindowStart \notin reliableWindow
  BY <1>1 DEF IInv, Held
<1> QED
  BY <1>2, <1>3 DEF IInv, WindowIsFrontier

(* The window's start is always the first index missing, its map what has   *)
(* passed beyond it, its size WINDOW_SIZE.                                  *)
THEOREM AlwaysFrontier == Spec => []WindowIsFrontier
BY InitIInv, NextIInv, IInvFrontier, PTL DEF Spec

(* Every step is a Take of the DuplicateFilter, or changes nothing it sees. *)
LEMMA RefinesStep == IInv /\ IInv' /\ [Next]_vars => [DF!Next]_<<Taken, reliableWindowStart>>
<1> SUFFICES ASSUME IInv, IInv', [Next]_vars
             PROVE  DF!Next \/ UNCHANGED <<Taken, reliableWindowStart>>
  OBVIOUS
<1>0. reliableWindowStart \in Nat /\ reliableWindowEnd = reliableWindowStart + WINDOW_SIZE
  BY DEF IInv, TypeOK
<1>1. CASE UNCHANGED vars
  BY <1>1 DEF vars, Taken
<1>2. ASSUME NEW i \in Keys, Drop(i) PROVE UNCHANGED <<Taken, reliableWindowStart>>
  BY <1>2 DEF Drop, Taken
<1>3. ASSUME NEW i \in Keys, NEW split \in Splits, Buffer(i, split) \/ Advance(i, split)
      PROVE  DF!Next \/ UNCHANGED <<Taken, reliableWindowStart>>
  <2>1. Pass(i, split)
    BY <1>3 DEF Buffer, Advance
  <2>2. \A k \in Keys : Passed(k)' <=> Passed(k) \/ k = i
    BY <2>1, PassCounts
  <2>3. CASE i = Undefined
    <3>1. Buffer(i, split)
      BY <1>0, <1>3, <2>3, ReliableWindowAssumption DEF Advance
    <3>2. Undefined \notin Indexes
      <4>1. Undefined \notin Nat
        BY ReliableWindowAssumption
      <4> QED
        BY <4>1, ReliableWindowAssumption, Zenon
    <3>3. Taken' = Taken
      <4>1. \A k \in Indexes : k \in Keys /\ k # i
        BY <2>3, <3>2 DEF Keys
      <4> QED
        BY <2>2, <4>1 DEF Taken, Passed
    <3> QED
      BY <3>1, <3>3 DEF Buffer
  <2>4. CASE i # Undefined
    <3>1. i \in Indexes /\ i \in Nat
      BY <2>4, ReliableWindowAssumption DEF Keys
    <3>2. admissions[i] = 0 /\ i >= reliableWindowStart
      BY <2>1, <2>4, NotYetPassed DEF Pass
    <3>3. i <= reliableWindowStart + WINDOW_SIZE
      BY <1>0, <2>1, <2>4, <3>1, ReliableWindowAssumption DEF Pass, OutOfWindow
    <3>4. i \notin Taken
      BY <3>2 DEF Taken
    <3>5. Taken' = Taken \cup {i}
      BY <2>2, <3>1, ReliableWindowAssumption DEF Taken, Passed, Keys
    <3>6. reliableWindowStart' \in Nat \ Taken'
      <4>1. reliableWindowStart' \in Nat /\ reliableWindowStart' \notin reliableWindow'
        <5>1. reliableWindowStart' \in Nat
          BY DEF IInv, TypeOK
        <5>2. reliableWindowStart' # Undefined
          BY <5>1, ReliableWindowAssumption
        <5> QED
          BY <5>1, <5>2 DEF IInv, Held
      <4>2. reliableWindowStart' \in Indexes => ~(Passed(reliableWindowStart)')
        BY <4>1, ReliableWindowAssumption DEF IInv, Held, Keys
      <4> QED
        BY <4>1, <4>2 DEF Taken, Passed
    <3>7. \A j \in 0 .. reliableWindowStart' - 1 : j \in Taken'
      <4>1. (\A j \in Nat : j < reliableWindowStart => j \in Indexes /\ Passed(j))'
        BY DEF IInv, Held, Passed
      <4>2. \A j \in 0 .. reliableWindowStart' - 1 : j \in Nat /\ j < reliableWindowStart'
        <5>1. \A n \in Nat : \A j \in 0 .. n - 1 : j \in Nat /\ j < n
          OBVIOUS
        <5> QED
          BY <5>1, <3>6, Zenon
      <4>3. \A j \in Indexes : Passed(j)' => j \in Taken'
        BY DEF Taken, Passed
      <4> QED
        BY <4>1, <4>2, <4>3
    <3>8. DF!Take(i)
      BY <3>2, <3>3, <3>4, <3>5, <3>6, <3>7 DEF DF!Take
    <3>9. i \in reliableWindowStart .. reliableWindowStart + WINDOW_SIZE
      BY <1>0, <3>1, <3>2, <3>3
    <3> QED
      BY <3>8, <3>9 DEF DF!Next
  <2> QED
    BY <2>3, <2>4
<1> QED
  BY <1>1, <1>2, <1>3 DEF Next, HandleEncapsulatedPacket

(* The reliable window implements a DuplicateFilter as wide as WINDOW_SIZE. *)
THEOREM WindowRefinement == Spec => RefinesDuplicateFilter
<1>1. Init => DF!Init
  BY ReliableWindowAssumption DEF Init, DF!Init, Taken, Keys
<1> QED
  BY InitIInv, NextIInv, RefinesStep, <1>1, PTL DEF Spec, DF!Spec, RefinesDuplicateFilter

=============================================================================
