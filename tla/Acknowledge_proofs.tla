-------------------------- MODULE Acknowledge_proofs --------------------------
(***************************************************************************)
(* Proofs about Acknowledge, for lists and records of any length, any set   *)
(* of numbers and any caps.                                                 *)
(*                                                                          *)
(* While the encoder is at work (Encoding), the numbers it has passed are   *)
(* at most `last`, those from `start` to `last` are among them, and what it *)
(* has written are the heads of the runs before `start`.  Then (Arriving)   *)
(* what the decoder has read and what is still to be read are together the  *)
(* heads of all runs.  Of the sort only this is used: it loses no number    *)
(* and adds none.  Its wrong order ends in Descend.                         *)
(***************************************************************************)
EXTENDS Acknowledge, SequenceTheorems, TLAPS

Heads(S) == {n \in S : n - 1 \notin S}
Written == {payload[k].start : k \in DOMAIN payload}
Singles == \A k \in DOMAIN payload : payload[k].type = "SINGLE"

(* The numbers passed.                                                      *)
Seen == {packets[i] : i \in 1 .. pointer - 1}

Encoding ==
  phase = "encode" =>
    /\ pointer >= 2 /\ pointer <= Len(packets) + 1
    /\ start \in Nat /\ last \in Nat /\ start <= last
    /\ \A n \in Seen : n <= last
    /\ start .. last \subseteq Seen /\ start - 1 \notin Seen
    /\ Written = Heads(Seen) \ {start}
    /\ Len(payload) <= pointer - 2 /\ Len(payload) <= records

Arriving ==
  acknowledged # {} /\ phase \in {"decode", "done"} =>
    /\ DecodedNumbers \cup Written = Heads(acknowledged)
    /\ Len(payload) <= records
    /\ Len(decoded) + Len(payload) <= Len(packets)
    /\ (phase = "done" /\ Len(packets) <= ListCap) => payload = <<>>

History ==
  /\ acknowledged = {packets[i] : i \in DOMAIN packets}
  /\ phase \in {"sort", "encode"} => packets # <<>>
  /\ acknowledged # {} => Singles
  /\ phase \in {"sort", "encode", "threw"} => decoded = <<>> /\ acknowledged # {}
  /\ phase = "sort" => payload = <<>> /\ records = 0

IInv == TypeOK /\ DecodedBounded /\ History /\ Encoding /\ Arriving

(* Numbers are natural numbers, and records hold two of them.               *)
LEMMA NumberFacts ==
  /\ Numbers \subseteq Nat /\ RangeCap \in Nat /\ ListCap \in Nat /\ ListCap > 0
  /\ \A r \in Record : r.start \in Nat /\ r.end \in Nat
  /\ \A n \in Numbers : /\ SingleRecord(n) \in Record
                        /\ SingleRecord(n).type = "SINGLE" /\ SingleRecord(n).start = n
<1>1. Numbers \subseteq Nat /\ RangeCap \in Nat /\ ListCap \in Nat /\ ListCap > 0
  BY AcknowledgeAssumption
<1> QED
  BY <1>1 DEF Record, SingleRecord, RangeRecord

(* A list is a sequence, and not empty.                                     *)
LEMMA ListFacts ==
  ASSUME NEW S, NEW max \in Nat, NEW list \in Lists(S, max)
  PROVE  list \in Seq(S) /\ list # <<>>
<1>1. PICK k \in 1 .. max : list \in [1 .. k -> S]
  BY DEF Lists
<1>2. list \in Seq(S) /\ DOMAIN list = 1 .. k
  BY <1>1, SeqDef
<1>3. 1 \in DOMAIN list /\ DOMAIN << >> = {}
  BY <1>2
<1> QED
  BY <1>2, <1>3

(* An instance starts with a list to encode, or with records to decode.     *)
LEMMA AcknowledgeInit == Init => IInv
<1> SUFFICES ASSUME Init PROVE IInv
  OBVIOUS
<1>1. /\ decoded = <<>> /\ pointer \in Nat /\ start \in Int /\ last \in Int
      /\ decoded \in Seq(Nat) /\ Len(decoded) = 0 /\ DOMAIN decoded = {}
  BY EmptySeq DEF Init
<1>2. MaxLen \in Nat /\ MaxRecords \in Nat
  BY AcknowledgeAssumption
<1>3. CASE phase = "sort"
  <2>1. /\ packets \in Lists(Numbers, MaxLen) /\ payload = <<>> /\ records = 0
        /\ acknowledged = {packets[i] : i \in DOMAIN packets}
    BY <1>3 DEF Init
  <2>2. packets \in Seq(Numbers) /\ packets # <<>>
    BY <1>2, <2>1, ListFacts
  <2>3. DOMAIN packets = 1 .. Len(packets) /\ Len(packets) \in Nat /\ Len(packets) > 0
    BY <2>2, LenProperties, EmptySeq
  <2>4. acknowledged \subseteq Numbers /\ acknowledged # {}
    BY <2>1, <2>2, <2>3, ElementOfSeq
  <2>5. TypeOK
    BY <1>1, <1>3, <2>1, <2>2, <2>4, EmptySeq DEF TypeOK, Phases
  <2> QED
    BY <1>1, <1>3, <2>1, <2>2, <2>4, <2>5, NumberFacts
       DEF IInv, DecodedBounded, History, Encoding, Arriving, Singles
<1>4. CASE phase = "decode"
  <2>1. /\ packets = <<>> /\ acknowledged = {}
        /\ payload \in Lists(Record, MaxRecords) /\ records \in 0 .. MaxRecords + 1
    BY <1>4 DEF Init
  <2>2. payload \in Seq(Record) /\ records \in Nat /\ packets \in Seq(Numbers)
    BY <1>2, <2>1, ListFacts, EmptySeq
  <2>3. TypeOK
    BY <1>1, <1>4, <2>1, <2>2 DEF TypeOK, Phases
  <2> QED
    BY <1>1, <1>4, <2>1, <2>3, NumberFacts DEF IInv, DecodedBounded, History, Encoding, Arriving
<1> QED
  BY <1>3, <1>4 DEF Init

(* Whatever the comparison, a sorted list has the numbers of the list.      *)
LEMMA SortFacts ==
  ASSUME NEW list \in Seq(Numbers), NEW s \in SortedByString(list)
  PROVE  /\ s \in Seq(Numbers) /\ Len(s) = Len(list)
         /\ {s[i] : i \in DOMAIN s} = {list[i] : i \in DOMAIN list}
<1>1. PICK p \in Bijection(DOMAIN list, DOMAIN list) : s = [i \in DOMAIN list |-> list[p[i]]]
  BY DEF SortedByString, Reorderings
<1>2. /\ p \in [DOMAIN list -> DOMAIN list]
      /\ \A j \in DOMAIN list : \E i \in DOMAIN list : p[i] = j
  BY DEF Bijection, Injection, Surjection
<1>3. DOMAIN list = 1 .. Len(list) /\ Len(list) \in Nat /\ \A i \in DOMAIN list : list[i] \in Numbers
  BY LenProperties, ElementOfSeq
<1>4. s \in [1 .. Len(list) -> Numbers]
  BY <1>1, <1>2, <1>3
<1>5. s \in Seq(Numbers) /\ Len(s) = Len(list)
  BY <1>3, <1>4, SeqDef
<1>6. {s[i] : i \in DOMAIN s} = {list[i] : i \in DOMAIN list}
  BY <1>1, <1>2
<1> QED
  BY <1>5, <1>6

-----------------------------------------------------------------------------
(* The encoder.                                                            *)

(* What writing a record adds.                                              *)
LEMMA WriteFacts ==
  ASSUME payload \in Seq(Record), NEW n \in Numbers,
         payload' = Append(payload, SingleRecord(n))
  PROVE  /\ payload' \in Seq(Record) /\ Len(payload') = Len(payload) + 1
         /\ Written' = Written \cup {n}
         /\ Singles => Singles'
<1> DEFINE r == SingleRecord(n)
<1>1. r \in Record /\ r.type = "SINGLE" /\ r.start = n
  BY NumberFacts
<1>2. payload' = Append(payload, r)
  OBVIOUS
<1> HIDE DEF r
<1>3. /\ payload' \in Seq(Record) /\ Len(payload') = Len(payload) + 1
      /\ DOMAIN payload' = DOMAIN payload \cup {Len(payload) + 1}
      /\ payload'[Len(payload) + 1] = r
      /\ \A k \in DOMAIN payload : payload'[k] = payload[k]
  BY <1>1, <1>2, AppendProperties
<1>4. Written' = Written \cup {n}
  BY <1>1, <1>3 DEF Written
<1>5. Singles => Singles'
  BY <1>1, <1>3 DEF Singles
<1> QED
  BY <1>3, <1>4, <1>5

(* After the sort the encoder has passed one number.                        *)
LEMMA SortStep == ASSUME IInv, Sort PROVE IInv'
<1>1. /\ packets \in Seq(Numbers) /\ packets # <<>> /\ packets' \in SortedByString(packets)
      /\ payload = <<>> /\ records = 0 /\ decoded = <<>> /\ acknowledged # {}
      /\ phase' = "encode" /\ pointer' = 2 /\ start' = packets'[1] /\ last' = packets'[1]
      /\ UNCHANGED <<payload, records, decoded, acknowledged>>
  BY DEF IInv, TypeOK, History, Sort
<1>2. /\ packets' \in Seq(Numbers) /\ Len(packets') = Len(packets)
      /\ {packets'[i] : i \in DOMAIN packets'} = acknowledged
  BY <1>1, SortFacts DEF IInv, History
<1>3. Len(packets) \in Nat /\ Len(packets) >= 1 /\ DOMAIN packets' = 1 .. Len(packets')
  BY <1>1, <1>2, EmptySeq, LenProperties
<1>4. packets'[1] \in Nat /\ packets' # <<>>
  <2>1. 1 \in 1 .. Len(packets')
    BY <1>2, <1>3
  <2>2. packets'[1] \in Numbers
    BY <1>2, <2>1, ElementOfSeq
  <2>3. packets' # <<>>
    BY <1>2, <1>3, EmptySeq
  <2> QED
    BY <2>2, <2>3, NumberFacts
<1>5. TypeOK'
  BY <1>1, <1>2, <1>4 DEF IInv, TypeOK, Phases
<1>6. History'
  BY <1>1, <1>2, <1>4 DEF IInv, History, Singles
<1>7. Encoding'
  <2>1. Seen' = {packets'[1]}
    BY <1>1 DEF Seen
  <2>2. Written' = {} /\ Len(payload') = 0 /\ records' = 0
    BY <1>1 DEF Written
  <2>3. Heads(Seen') = {packets'[1]}
    BY <1>4, <2>1 DEF Heads
  <2> QED
    BY <1>1, <1>2, <1>3, <1>4, <2>1, <2>2, <2>3 DEF Encoding, Heads
<1> QED
  BY <1>1, <1>5, <1>6, <1>7 DEF IInv, DecodedBounded, Arriving

(* What the loop knows when it reads a number.                              *)
LEMMA ReadFacts ==
  ASSUME IInv, ReadNext, UNCHANGED packets
  PROVE  /\ phase = "encode" /\ pointer \in Nat /\ pointer >= 2 /\ pointer' = pointer + 1
         /\ Len(packets) \in Nat /\ pointer <= Len(packets)
         /\ Current \in Numbers /\ Current \in Nat /\ Diff = Current - last
         /\ start \in Numbers /\ start \in Nat /\ last \in Nat
         /\ Seen' = Seen \cup {Current} /\ Seen \subseteq Nat
<1>1. /\ phase = "encode" /\ pointer \in Nat /\ pointer >= 2 /\ pointer' = pointer + 1
      /\ packets \in Seq(Numbers) /\ pointer <= Len(packets)
      /\ start \in Nat /\ last \in Nat /\ start <= last /\ start .. last \subseteq Seen
  BY DEF IInv, TypeOK, Encoding, ReadNext
<1>2. Len(packets) \in Nat /\ \A i \in 1 .. Len(packets) : packets[i] \in Numbers
  BY <1>1, LenProperties, ElementOfSeq
<1>3. Current \in Numbers
  BY <1>1, <1>2 DEF Current
<1>4. 1 .. pointer' - 1 = (1 .. pointer - 1) \cup {pointer}
  BY <1>1
<1>5. Seen' = Seen \cup {Current}
  BY <1>4 DEF Seen, Current
<1>6. Seen \subseteq Numbers
  BY <1>1, <1>2 DEF Seen
<1>7. start \in Numbers
  BY <1>1, <1>6
<1> QED
  BY <1>1, <1>2, <1>3, <1>5, <1>6, <1>7, NumberFacts DEF Diff

(* The next number of a run is not a head, and no number after it was seen. *)
LEMMA ExtendStep == ASSUME IInv, ExtendRun PROVE IInv'
<1>1. /\ ReadNext /\ Diff = 1 /\ last' = Current /\ records' = records + 1
      /\ UNCHANGED <<start, phase, packets, payload, decoded, acknowledged>>
  BY DEF ExtendRun, RunGrows, CountRecord
<1>2. /\ phase = "encode" /\ pointer \in Nat /\ pointer >= 2 /\ pointer' = pointer + 1
      /\ Len(packets) \in Nat /\ pointer <= Len(packets)
      /\ Current \in Nat /\ Current = last + 1 /\ start \in Nat /\ last \in Nat
      /\ Seen' = Seen \cup {Current} /\ Seen \subseteq Nat
  BY <1>1, ReadFacts
<1>3. /\ start <= last /\ \A n \in Seen : n <= last
      /\ start .. last \subseteq Seen /\ start - 1 \notin Seen
      /\ Written = Heads(Seen) \ {start}
      /\ Len(payload) <= pointer - 2 /\ Len(payload) <= records
  BY <1>2 DEF IInv, Encoding
<1>4. payload \in Seq(Record) /\ Len(payload) \in Nat /\ records \in Nat
  BY LenProperties DEF IInv, TypeOK
<1>5. TypeOK'
  BY <1>1, <1>2, <1>4 DEF IInv, TypeOK
<1>6. Encoding'
  <2>1. Heads(Seen') = Heads(Seen)
    BY <1>2, <1>3 DEF Heads
  <2>2. Written' = Written
    BY <1>1 DEF Written
  <2>3. start .. last' \subseteq Seen' /\ start - 1 \notin Seen' /\ \A n \in Seen' : n <= last'
    BY <1>1, <1>2, <1>3
  <2>4. Heads(Seen)' = Heads(Seen)
    BY <2>1 DEF Heads
  <2>5. /\ pointer' >= 2 /\ pointer' <= Len(packets) + 1 /\ start <= last' /\ last' \in Nat
        /\ Len(payload) <= pointer' - 2 /\ Len(payload) <= records'
    BY <1>1, <1>2, <1>3, <1>4
  <2> QED
    BY <1>1, <1>2, <1>3, <2>2, <2>3, <2>4, <2>5 DEF Encoding
<1> QED
  BY <1>1, <1>2, <1>5, <1>6 DEF IInv, DecodedBounded, Arriving, History, Singles

(* A number beyond a gap is a head, and the one before it has been written. *)
LEMMA CloseStep == ASSUME IInv, CloseRun PROVE IInv'
<1>1. /\ ReadNext /\ Diff > 1 /\ start' = Current /\ last' = Current /\ records' = records + 1
      /\ payload' = Append(payload, SingleRecord(start))
      /\ UNCHANGED <<phase, packets, decoded, acknowledged>>
  BY DEF CloseRun, RunHead, CountRecord
<1>2. /\ phase = "encode" /\ pointer \in Nat /\ pointer >= 2 /\ pointer' = pointer + 1
      /\ Len(packets) \in Nat /\ pointer <= Len(packets)
      /\ Current \in Nat /\ Current > last + 1 /\ start \in Nat /\ start \in Numbers /\ last \in Nat
      /\ Seen' = Seen \cup {Current} /\ Seen \subseteq Nat
  BY <1>1, ReadFacts
<1>3. /\ start <= last /\ \A n \in Seen : n <= last
      /\ start .. last \subseteq Seen /\ start - 1 \notin Seen
      /\ Written = Heads(Seen) \ {start}
      /\ Len(payload) <= pointer - 2 /\ Len(payload) <= records
  BY <1>2 DEF IInv, Encoding
<1>4. payload \in Seq(Record) /\ Len(payload) \in Nat /\ records \in Nat
  BY LenProperties DEF IInv, TypeOK
<1>5. /\ payload' \in Seq(Record) /\ Len(payload') = Len(payload) + 1
      /\ Written' = Written \cup {start} /\ (Singles => Singles')
  BY <1>1, <1>2, <1>4, WriteFacts
<1>6. TypeOK'
  BY <1>1, <1>2, <1>4, <1>5 DEF IInv, TypeOK
<1>7. Encoding'
  <2>1. Heads(Seen') = Heads(Seen) \cup {Current}
    BY <1>2, <1>3 DEF Heads
  <2>2. start \in Heads(Seen) /\ Current \notin Heads(Seen)
    BY <1>2, <1>3 DEF Heads
  <2>3. Heads(Seen)' = Heads(Seen')
    BY DEF Heads
  <2>4. Written' = Heads(Seen)' \ {start'}
    BY <1>1, <1>3, <1>5, <2>1, <2>2, <2>3
  <2>5. start' .. last' \subseteq Seen' /\ start' - 1 \notin Seen' /\ \A n \in Seen' : n <= last'
    BY <1>1, <1>2, <1>3
  <2>6. /\ pointer' >= 2 /\ pointer' <= Len(packets') + 1 /\ start' <= last'
        /\ start' \in Nat /\ last' \in Nat
        /\ Len(payload') <= pointer' - 2 /\ Len(payload') <= records'
    BY <1>1, <1>2, <1>3, <1>4, <1>5
  <2> QED
    BY <2>4, <2>5, <2>6 DEF Encoding
<1> QED
  BY <1>1, <1>2, <1>5, <1>6, <1>7 DEF IInv, DecodedBounded, Arriving, History

(* An exception leaves nothing to decode.                                   *)
LEMMA DescendStep == ASSUME IInv, Descend PROVE IInv'
<1>1. /\ phase = "encode" /\ phase' = "threw" /\ pointer' = pointer + 1
      /\ UNCHANGED <<packets, start, last, payload, records, decoded, acknowledged>>
  BY DEF Descend, ReadNext
<1>2. pointer' \in Nat
  <2>1. pointer \in Nat
    BY DEF IInv, TypeOK
  <2> QED
    BY <1>1, <2>1
<1>3. TypeOK'
  BY <1>1, <1>2 DEF IInv, TypeOK, Phases
<1> QED
  BY <1>1, <1>3 DEF IInv, DecodedBounded, Arriving, History, Singles, Encoding

(* Behind the last number all heads are written, or an exception is thrown. *)
LEMMA FinishStep == ASSUME IInv, Finish PROVE IInv'
<1>1. /\ phase = "encode" /\ pointer > Len(packets)
      /\ UNCHANGED <<packets, pointer, start, last, acknowledged, decoded>>
  BY DEF Finish, encodeVars
<1>2. /\ pointer \in Nat /\ pointer >= 2 /\ pointer <= Len(packets) + 1
      /\ start \in Nat /\ last \in Nat /\ start <= last
      /\ start .. last \subseteq Seen /\ start - 1 \notin Seen
      /\ Written = Heads(Seen) \ {start}
      /\ Len(payload) <= pointer - 2 /\ Len(payload) <= records
      /\ packets \in Seq(Numbers) /\ payload \in Seq(Record) /\ records \in Nat
      /\ decoded = <<>> /\ acknowledged = {packets[i] : i \in DOMAIN packets}
      /\ acknowledged # {}
  BY <1>1 DEF IInv, TypeOK, Encoding, History
<1>3. Len(packets) \in Nat /\ DOMAIN packets = 1 .. Len(packets) /\ Len(payload) \in Nat
  BY <1>2, LenProperties
<1>4. pointer - 1 = Len(packets)
  BY <1>1, <1>2, <1>3
<1>5. Seen = acknowledged
  BY <1>2, <1>3, <1>4 DEF Seen
<1>6. CASE start = last
  <2>1. /\ payload' = Append(payload, SingleRecord(start)) /\ records' = records + 1
        /\ phase' = "decode"
    BY <1>6 DEF Finish, RunHead, CountRecord
  <2>2. start \in Numbers
    BY <1>2, <1>5 DEF IInv, TypeOK
  <2>3. /\ payload' \in Seq(Record) /\ Len(payload') = Len(payload) + 1
        /\ Written' = Written \cup {start} /\ (Singles => Singles')
    BY <1>2, <2>1, <2>2, WriteFacts
  <2>4. start \in Heads(Seen)
    BY <1>2 DEF Heads
  <2>5. Written' = Heads(acknowledged)'
    BY <1>1, <1>2, <1>5, <2>3, <2>4 DEF Heads
  <2>6. DecodedNumbers' = {} /\ Len(decoded') = 0
    BY <1>1, <1>2 DEF DecodedNumbers
  <2>7. Len(payload') <= records' /\ Len(payload') <= Len(packets')
    BY <1>1, <1>2, <1>3, <1>4, <2>1, <2>3
  <2>8. Arriving'
    BY <2>1, <2>3, <2>5, <2>6, <2>7, LenProperties DEF Arriving
  <2>9. TypeOK'
    BY <1>1, <1>2, <2>1, <2>3 DEF IInv, TypeOK, Phases
  <2> QED
    BY <1>1, <2>1, <2>3, <2>8, <2>9 DEF IInv, DecodedBounded, History, Encoding
<1>7. CASE start # last
  <2>1. phase' = "threw" /\ UNCHANGED <<payload, records>>
    BY <1>7 DEF Finish
  <2>2. TypeOK'
    BY <1>1, <2>1 DEF IInv, TypeOK, Phases
  <2> QED
    BY <1>1, <2>1, <2>2 DEF IInv, DecodedBounded, Arriving, History, Singles, Encoding
<1> QED
  BY <1>6, <1>7

-----------------------------------------------------------------------------
(* The decoder.                                                            *)

(* Taking the first record off the payload.                                 *)
LEMMA TakeFacts ==
  ASSUME payload \in Seq(Record), payload # <<>>, payload' = Tail(payload)
  PROVE  /\ payload' \in Seq(Record) /\ Len(payload) \in Nat /\ Len(payload') = Len(payload) - 1
         /\ Head(payload) \in Record /\ Head(payload).start \in Nat /\ Head(payload).end \in Nat
         /\ Written = Written' \cup {Head(payload).start}
         /\ Singles => Head(payload).type = "SINGLE" /\ Singles'
<1>1. /\ payload' \in Seq(Record) /\ Len(payload') = Len(payload) - 1
      /\ Head(payload) \in Record /\ Head(payload) = payload[1]
      /\ \A i \in 1 .. Len(payload') : payload'[i] = payload[i + 1]
  BY HeadTailProperties
<1>2. /\ Len(payload) \in Nat /\ Len(payload) >= 1
      /\ DOMAIN payload = 1 .. Len(payload) /\ DOMAIN payload' = 1 .. Len(payload')
  BY <1>1, LenProperties, EmptySeq
<1>3. Written = Written' \cup {Head(payload).start}
  <2>1. Written \subseteq Written' \cup {Head(payload).start}
    <3>1. ASSUME NEW k \in DOMAIN payload
          PROVE  payload[k].start \in Written' \cup {Head(payload).start}
      <4>1. CASE k = 1
        BY <1>1, <4>1
      <4>2. CASE k # 1
        <5>1. k - 1 \in DOMAIN payload' /\ payload'[k - 1] = payload[k]
          BY <1>1, <1>2, <4>2
        <5> QED
          BY <5>1 DEF Written
      <4> QED
        BY <4>1, <4>2
    <3> QED
      BY <3>1 DEF Written
  <2>2. Written' \subseteq Written
    <3>1. \A i \in DOMAIN payload' : i + 1 \in DOMAIN payload /\ payload'[i] = payload[i + 1]
      BY <1>1, <1>2
    <3> QED
      BY <3>1 DEF Written
  <2>3. Head(payload).start \in Written
    BY <1>1, <1>2 DEF Written
  <2> QED
    BY <2>1, <2>2, <2>3
<1>4. Singles => Head(payload).type = "SINGLE" /\ Singles'
  BY <1>1, <1>2 DEF Singles
<1> QED
  BY <1>1, <1>2, <1>3, <1>4, NumberFacts

(* What one record adds to the list.                                        *)
LEMMA DecodeFacts ==
  ASSUME IInv, DecodeRecord
  PROVE  /\ decoded' \in Seq(Nat)
         /\ Len(decoded') <= ListCap + RangeCap
         /\ Head(payload).type # "RANGE"
              => /\ Len(decoded') = Len(decoded) + 1
                 /\ DecodedNumbers' = DecodedNumbers \cup {Head(payload).start}
<1> DEFINE r == Head(payload)
           n == ClippedEnd(r) - r.start + 1
           f == [k \in 1 .. n |-> r.start + k - 1]
<1>1. /\ decoded \in Seq(Nat) /\ payload \in Seq(Record) /\ payload # <<>> /\ payload' = Tail(payload)
      /\ decoded' = IF r.type = "RANGE" THEN decoded \o f ELSE Append(decoded, r.start)
      /\ Len(decoded) < ListCap
  BY DEF IInv, TypeOK, DecodeRecord, Room
<1>2. r.start \in Nat /\ r.end \in Nat /\ RangeCap \in Nat /\ ListCap \in Nat
  BY <1>1, TakeFacts, NumberFacts
<1>3. Len(decoded) \in Nat /\ DOMAIN decoded = 1 .. Len(decoded)
  BY <1>1, LenProperties
<1>4. CASE r.type = "RANGE"
  <2>1. n \in Int /\ n <= RangeCap + 1
    BY <1>2 DEF ClippedEnd
  <2> DEFINE m == IF n < 0 THEN 0 ELSE n
  <2>2. m \in Nat /\ m <= RangeCap + 1 /\ 1 .. n = 1 .. m
    BY <1>2, <2>1
  <2>3. decoded' = decoded \o f
    BY <1>1, <1>4
  <2>4. \A k \in 1 .. n : r.start + k - 1 \in Nat
    BY <1>2, <2>1
  <2> HIDE DEF m, n
  <2>5. f \in [1 .. m -> Nat]
    BY <2>2, <2>4
  <2> HIDE DEF f
  <2>6. f \in Seq(Nat) /\ Len(f) = m
    BY <2>2, <2>5, SeqDef
  <2>7. decoded' \in Seq(Nat) /\ Len(decoded') = Len(decoded) + m
    BY <1>1, <2>3, <2>6, ConcatProperties
  <2> QED
    BY <1>1, <1>2, <1>3, <1>4, <2>2, <2>7
<1>5. CASE r.type # "RANGE"
  <2> HIDE DEF r, n, f
  <2>1. PICK x \in Nat : x = r.start
    BY <1>2
  <2>2. decoded \in Seq(Nat) /\ decoded' = Append(decoded, x)
    BY <1>1, <1>5, <2>1
  <2>3. /\ decoded' \in Seq(Nat) /\ Len(decoded') = Len(decoded) + 1
        /\ DOMAIN decoded' = DOMAIN decoded \cup {Len(decoded) + 1}
        /\ decoded'[Len(decoded) + 1] = x
        /\ \A k \in DOMAIN decoded : decoded'[k] = decoded[k]
    BY <1>3, <2>2, AppendProperties
  <2>4. DecodedNumbers' = DecodedNumbers \cup {r.start}
    BY <2>1, <2>3 DEF DecodedNumbers
  <2> QED
    BY <1>1, <1>2, <1>3, <1>5, <2>3, <2>4 DEF r
<1> QED
  BY <1>4, <1>5

(* A number moves from the payload to the list.                             *)
LEMMA DecodeStep == ASSUME IInv, DecodeRecord PROVE IInv'
<1>1. /\ phase = "decode" /\ records > 0 /\ records' = records - 1
      /\ payload \in Seq(Record) /\ payload # <<>> /\ payload' = Tail(payload)
      /\ records \in Nat /\ UNCHANGED <<phase, packets, pointer, start, last, acknowledged>>
  BY DEF IInv, TypeOK, DecodeRecord, encodeVars
<1>2. /\ payload' \in Seq(Record) /\ Len(payload) \in Nat /\ Len(payload') = Len(payload) - 1
      /\ Written = Written' \cup {Head(payload).start}
      /\ Singles => Head(payload).type = "SINGLE" /\ Singles'
  BY <1>1, TakeFacts
<1>3. /\ decoded' \in Seq(Nat) /\ Len(decoded') <= ListCap + RangeCap
      /\ Head(payload).type # "RANGE"
           => /\ Len(decoded') = Len(decoded) + 1
              /\ DecodedNumbers' = DecodedNumbers \cup {Head(payload).start}
  BY DecodeFacts
<1>4. TypeOK'
  BY <1>1, <1>2, <1>3 DEF IInv, TypeOK
<1>5. Arriving'
  <2> SUFFICES ASSUME acknowledged # {}
               PROVE  /\ DecodedNumbers' \cup Written' = Heads(acknowledged)
                      /\ Len(payload') <= records'
                      /\ Len(decoded') + Len(payload') <= Len(packets)
    BY <1>1 DEF Arriving, Heads
  <2>1. /\ DecodedNumbers \cup Written = Heads(acknowledged)
        /\ Len(payload) <= records
        /\ Len(decoded) + Len(payload) <= Len(packets)
    BY <1>1 DEF IInv, Arriving
  <2>2. Head(payload).type # "RANGE"
    BY <1>2 DEF IInv, History
  <2>3. Len(decoded) \in Nat /\ Len(packets) \in Nat
    BY LenProperties DEF IInv, TypeOK
  <2>4. DecodedNumbers' \cup Written' = Heads(acknowledged)
    BY <1>2, <1>3, <2>1, <2>2
  <2>5. Len(decoded') = Len(decoded) + 1
    BY <1>3, <2>2
  <2> QED
    BY <1>1, <1>2, <2>1, <2>3, <2>4, <2>5
<1>6. History'
  BY <1>1, <1>2 DEF IInv, History
<1> QED
  BY <1>1, <1>3, <1>4, <1>5, <1>6 DEF IInv, DecodedBounded, Encoding

(* The decoder stops early only with a full list.                           *)
LEMMA DecodedStep == ASSUME IInv, Decoded PROVE IInv'
<1>1. /\ phase = "decode" /\ phase' = "done"
      /\ records = 0 \/ payload = <<>> \/ ~(Len(decoded) < ListCap)
      /\ UNCHANGED <<packets, pointer, start, last, acknowledged, payload, records, decoded>>
  BY DEF Decoded, encodeVars, Room
<1>2. /\ payload \in Seq(Record) /\ Len(payload) \in Nat /\ records \in Nat
      /\ Len(decoded) \in Nat /\ Len(packets) \in Nat /\ ListCap \in Nat
  BY NumberFacts, LenProperties DEF IInv, TypeOK
<1>3. TypeOK'
  BY <1>1 DEF IInv, TypeOK, Phases
<1>4. Arriving'
  <2> SUFFICES ASSUME acknowledged # {}
               PROVE  /\ DecodedNumbers \cup Written = Heads(acknowledged)
                      /\ Len(payload) <= records
                      /\ Len(decoded) + Len(payload) <= Len(packets)
                      /\ Len(packets) <= ListCap => payload = <<>>
    BY <1>1 DEF Arriving, Heads, Written, DecodedNumbers
  <2>1. /\ DecodedNumbers \cup Written = Heads(acknowledged)
        /\ Len(payload) <= records
        /\ Len(decoded) + Len(payload) <= Len(packets)
    BY <1>1 DEF IInv, Arriving
  <2>2. Len(packets) <= ListCap => payload = <<>> \/ Len(payload) = 0
    BY <1>1, <1>2, <2>1
  <2>3. Len(payload) = 0 => payload = <<>>
    BY <1>2, EmptySeq
  <2> QED
    BY <2>1, <2>2, <2>3
<1> QED
  BY <1>1, <1>3, <1>4 DEF IInv, DecodedBounded, History, Singles, Encoding

-----------------------------------------------------------------------------
(* The theorems.                                                           *)

(* The invariant holds, whatever is encoded and whatever the wire brings.   *)
THEOREM AcknowledgeCorrect == Spec => []IInv
<1>1. Init => IInv
  BY AcknowledgeInit
<1>2. IInv /\ [Next]_vars => IInv'
  <2>1. IInv /\ Next => IInv'
    BY SortStep, ExtendStep, CloseStep, DescendStep, FinishStep, DecodeStep, DecodedStep DEF Next
  <2>2. ASSUME IInv, UNCHANGED vars PROVE IInv'
    <3>1. UNCHANGED <<phase, packets, pointer, start, last, acknowledged, payload, records, decoded>>
      BY <2>2 DEF vars, encodeVars
    <3>2. TypeOK' /\ DecodedBounded' /\ History'
      BY <2>2, <3>1 DEF IInv, TypeOK, DecodedBounded, History, Singles
    <3>3. Seen' = Seen /\ Written' = Written /\ DecodedNumbers' = DecodedNumbers
      BY <3>1 DEF Seen, Written, DecodedNumbers
    <3>4. Encoding'
      BY <2>2, <3>1, <3>3 DEF IInv, Encoding, Heads
    <3>5. Arriving'
      BY <2>2, <3>1, <3>3 DEF IInv, Arriving, Heads
    <3> QED
      BY <3>2, <3>4, <3>5 DEF IInv
  <2> QED
    BY <2>1, <2>2
<1> QED
  BY <1>1, <1>2, PTL DEF Spec

(* Array, counters, records and decoded list keep their types.              *)
THEOREM AcknowledgeTypeCorrect == Spec => []TypeOK
<1>1. IInv => TypeOK
  BY DEF IInv
<1> QED
  BY <1>1, AcknowledgeCorrect, PTL

(* The peer reads no number that encodePayload was not given.               *)
THEOREM NeverInvented == Spec => []NoneInvented
<1>1. IInv => NoneInvented
  <2> SUFFICES ASSUME IInv, acknowledged # {} PROVE DecodedNumbers \subseteq acknowledged
    BY DEF NoneInvented
  <2>1. CASE phase \in {"decode", "done"}
    BY <2>1 DEF IInv, Arriving, Heads
  <2>2. CASE phase \in {"sort", "encode", "threw"}
    BY <2>2 DEF IInv, History, DecodedNumbers
  <2> QED
    BY <2>1, <2>2 DEF IInv, TypeOK, Phases
<1> QED
  BY <1>1, AcknowledgeCorrect, PTL

(* What arrives of an encoded list is the first number of each of its runs. *)
THEOREM HeadsAlwaysArrive == Spec => []RunHeadsArrive
<1>1. IInv => RunHeadsArrive
  <2> SUFFICES ASSUME IInv, acknowledged # {}, phase = "done", Len(packets) <= ListCap
               PROVE  DecodedNumbers = Heads(acknowledged)
    BY DEF RunHeadsArrive, Heads
  <2>1. DecodedNumbers \cup Written = Heads(acknowledged) /\ payload = <<>>
    BY DEF IInv, Arriving
  <2>2. Written = {}
    BY <2>1 DEF Written
  <2> QED
    BY <2>1, <2>2
<1> QED
  BY <1>1, AcknowledgeCorrect, PTL

(* The two caps bound what decodePayload reads, whatever the wire brings.   *)
THEOREM AlwaysBounded == Spec => []DecodedBounded
<1>1. IInv => DecodedBounded
  BY DEF IInv
<1> QED
  BY <1>1, AcknowledgeCorrect, PTL

=============================================================================
