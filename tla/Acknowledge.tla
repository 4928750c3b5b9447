----------------------------- MODULE Acknowledge -----------------------------
(***************************************************************************)
(* AcknowledgePacket.encodePayload and decodePayload: a list of datagram    *)
(* numbers is written as records, the records are read back by the peer.    *)
(*                                                                          *)
(* An instance starts either with a list to encode, whose records then go   *)
(* to the decoder, or with records the wire brings.  A record of a run of   *)
(* numbers, a range, cannot be written: the code calls wrieBool, which does *)
(* not exist, and the TypeError ends encodePayload.                         *)
(***************************************************************************)
EXTENDS Integers, Sequences, SequencesExt

CONSTANTS
  Numbers,   \* datagram numbers: 0 .. 2^24 - 1
  MaxLen,    \* bound of the model: length of the list
  MaxRecords,  \* bound of the model: records the wire brings
  RangeCap,  \* 512
  ListCap    \* 4096

ASSUME AcknowledgeAssumption ==
  /\ Numbers \subseteq {n \in Nat : n < 2^24}
  /\ MaxLen \in Nat /\ MaxRecords \in Nat /\ RangeCap \in Nat /\ ListCap \in Nat \ {0}

SingleRecord(n) == [type |-> "SINGLE", start |-> n, end |-> n]
RangeRecord(s, e) == [type |-> "RANGE", start |-> s, end |-> e]
Record == {SingleRecord(n) : n \in Numbers} \cup {RangeRecord(s, e) : s \in Numbers, e \in Numbers}

Lists(S, n) == UNION {[1 .. k -> S] : k \in 1 .. n}

VARIABLES
  phase,
  packets,      \* the array
  pointer, start, last,  \* (-1 before start and last are assigned)
  payload,      \* the records written, then what is left to read
  records,      \* the number of records: counted by the encoder, read as count
  decoded,      \* the peer's array
  acknowledged  \* history: the numbers handed to encodePayload

encodeVars == <<packets, pointer, start, last, acknowledged>>
vars == <<phase, encodeVars, payload, records, decoded>>

Phases == {"sort", "encode", "decode", "done", "threw"}

Init ==
  /\ pointer = 1 /\ start = -1 /\ last = -1
  /\ decoded = <<>>
  /\ \/ /\ phase = "sort" /\ packets \in Lists(Numbers, MaxLen)
        /\ payload = <<>> /\ records = 0
        /\ acknowledged = {packets[i] : i \in DOMAIN packets}
     \/ /\ phase = "decode" /\ packets = <<>>
        /\ payload \in Lists(Record, MaxRecords) /\ records \in 0 .. MaxRecords + 1
        /\ acknowledged = {}

\* Array.prototype.sort without a comparator compares decimal strings: digits
\* from the left, a prefix before what it is a prefix of.
Digits[n \in Nat] == IF n < 10 THEN 1 ELSE 1 + Digits[n \div 10]
Padded(n) == n * 10 ^ (8 - Digits[n])
StringLess(m, n) == Padded(m) < Padded(n) \/ (Padded(m) = Padded(n) /\ Digits[m] < Digits[n])

Reorderings(list) ==
  {[i \in DOMAIN list |-> list[p[i]]] : p \in Bijection(DOMAIN list, DOMAIN list)}
SortedByString(list) ==
  {s \in Reorderings(list) : \A i, j \in DOMAIN s : i < j => ~StringLess(s[j], s[i])}

Sort ==
  /\ phase = "sort"
  /\ packets' \in SortedByString(packets)
  /\ start' = packets'[1] /\ last' = packets'[1]
  /\ pointer' = 2
  /\ phase' = "encode"
  /\ UNCHANGED <<payload, records, decoded, acknowledged>>

Current == packets[pointer]
Diff == Current - last

ReadNext == phase = "encode" /\ pointer <= Len(packets) /\ pointer' = pointer + 1
CountRecord == records' = records + 1

\* diff === 1: the run goes on; records is incremented nevertheless.
RunRestarts == last' = Current /\ start' = Current
RunGrows == last' = Current /\ UNCHANGED start
ExtendRun ==
  /\ ReadNext /\ Diff = 1
  /\ RunGrows
  /\ CountRecord
  /\ UNCHANGED <<phase, packets, payload, decoded, acknowledged>>

\* diff > 1: the run is closed with a record of its first number alone.
AfterRun == last + 1
BeforeRun == start - 1
RunHead == start
CloseRun ==
  /\ ReadNext /\ Diff > 1
  /\ payload' = Append(payload, SingleRecord(RunHead))
  /\ start' = Current /\ last' = Current
  /\ CountRecord
  /\ UNCHANGED <<phase, packets, decoded, acknowledged>>

\* A repeated or a smaller number: wrieBool.
Descend ==
  /\ ReadNext /\ Diff < 1
  /\ phase' = "threw"
  /\ UNCHANGED <<packets, start, last, payload, records, decoded, acknowledged>>

\* The last run: a single number is written, a longer run is wrieBool again.
Finish ==
  /\ phase = "encode" /\ pointer > Len(packets)
  /\ IF start = last
     THEN /\ payload' = Append(payload, SingleRecord(RunHead))
          /\ CountRecord
          /\ phase' = "decode"
     ELSE phase' = "threw" /\ UNCHANGED <<payload, records>>
  /\ UNCHANGED <<encodeVars, decoded>>

NoClip(r) == r.end
ClippedEnd(r) == IF r.end - r.start > RangeCap THEN r.start + RangeCap ELSE r.end

Room == Len(decoded) < ListCap

\* One turn of the decoder's loop.
DecodeRecord ==
  /\ phase = "decode"
  /\ records > 0 /\ payload # <<>> /\ Room
  /\ LET r == Head(payload) IN
       decoded' = IF r.type = "RANGE"
                  THEN decoded \o [k \in 1 .. ClippedEnd(r) - r.start + 1 |-> r.start + k - 1]
                  ELSE Append(decoded, r.start)
  /\ payload' = Tail(payload) /\ records' = records - 1
  /\ UNCHANGED <<phase, encodeVars>>

Decoded ==
  /\ phase = "decode"
  /\ records = 0 \/ payload = <<>> \/ ~Room
  /\ phase' = "done"
  /\ UNCHANGED <<encodeVars, payload, records, decoded>>

Next == Sort \/ ExtendRun \/ CloseRun \/ Descend \/ Finish \/ DecodeRecord \/ Decoded

Spec == Init /\ [][Next]_vars

-----------------------------------------------------------------------------
(* Properties.                                                             *)

TypeOK ==
  /\ phase \in Phases
  /\ packets \in Seq(Numbers) /\ acknowledged \subseteq Numbers
  /\ pointer \in Nat /\ start \in Int /\ last \in Int
  /\ payload \in Seq(Record) /\ records \in Nat
  /\ decoded \in Seq(Nat)

DecodedNumbers == {decoded[i] : i \in DOMAIN decoded}

(* Nothing is acknowledged that was not received: whatever the order and    *)
(* repetitions of the list, the peer reads no number that is not on it.     *)
NoneInvented == acknowledged # {} => DecodedNumbers \subseteq acknowledged

(* A list that is encoded without an exception reaches the peer as the      *)
(* first numbers of its runs, all of them and nothing else: the numbers     *)
(* behind them are lost, and the surplus in `records` does no harm.         *)
RunHeadsArrive ==
  acknowledged # {} /\ phase = "done" /\ Len(packets) <= ListCap
    => DecodedNumbers = {n \in acknowledged : n - 1 \notin acknowledged}

(* Whatever the wire brings, decoding stops within its two caps.            *)
DecodedBounded == Len(decoded) <= ListCap + RangeCap

=============================================================================
