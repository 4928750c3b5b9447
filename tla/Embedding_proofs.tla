-------------------------- MODULE Embedding_proofs --------------------------
(***************************************************************************)
(* The two queues are mailboxes, for any number of messages.                *)
(***************************************************************************)
EXTENDS Embedding, TLAPS

Sent == [id: 1 .. 127, number: Nat]

\* A sequence, of whatever it holds.
IsSequence(c) == c \in Seq({c[n] : n \in DOMAIN c})

(* What the queues and the calls consist of.                                *)
Inv ==
  /\ internalQueue \in Seq(Sent) /\ externalQueue \in Seq(Sent)
  /\ IsSequence(callbacks)
  /\ commands \in Nat /\ notices \in Nat

(* Every id is one character.                                               *)
LEMMA IdsInRange == \A kind \in DOMAIN ITC : ITC[kind] \in 1 .. 127
BY DEF ITC

(* Every sender and every stream* method has an id for its message.         *)
LEMMA SendersHaveIds == DOMAIN Senders \subseteq DOMAIN ITC /\ Streams \subseteq DOMAIN ITC
BY DEF Senders, Streams, ITC

(* A sequence stays one.                                                    *)
LEMMA Longer ==
  ASSUME NEW c, IsSequence(c), NEW r
  PROVE  IsSequence(Append(c, r))
<1> DEFINE S == {c[n] : n \in DOMAIN c} \cup {r}
<1>1. c \in Seq(S)
  BY DEF IsSequence
<1> DEFINE d == Append(c, r)
<1>2. d \in Seq(S)
  BY <1>1
<1> HIDE DEF d
<1>3. Len(d) \in Nat /\ d \in [1 .. Len(d) -> S]
  BY <1>2
<1>4. d \in [1 .. Len(d) -> {d[n] : n \in DOMAIN d}]
  BY <1>3
<1>5. d \in Seq({d[n] : n \in DOMAIN d})
  BY <1>3, <1>4
<1> QED
  BY <1>5 DEF IsSequence, d

(* The queues and the calls keep their types.                               *)
LEMMA Step == Inv /\ [Next]_vars => Inv'
<1> SUFFICES ASSUME Inv, [Next]_vars PROVE Inv'
  OBVIOUS
<1>1. ASSUME NEW kind \in DOMAIN Senders, Send(kind) PROVE Inv'
  <2>1. CASE Pushes(kind)
    <3> DEFINE packet == [id |-> ITC[kind], number |-> commands']
    <3>1. internalQueue' = Append(internalQueue, packet) /\ commands' = commands + 1
      BY <1>1, <2>1 DEF Send
    <3>2. packet \in Sent
      BY <3>1, SendersHaveIds, IdsInRange DEF Sent, Inv
    <3> HIDE DEF packet
    <3> QED BY <1>1, <3>1, <3>2 DEF Send, Inv
  <2>2. CASE ~Pushes(kind)
    BY <1>1, <2>2 DEF Send, Inv
  <2> QED BY <2>1, <2>2
<1>2. ASSUME RecieveStream PROVE Inv'
  BY <1>2 DEF RecieveStream, Inv
<1>3. ASSUME NEW kind \in Streams, Stream(kind) PROVE Inv'
  <2> DEFINE packet == [id |-> ITC[kind], number |-> notices']
  <2>1. packet \in Sent /\ notices' \in Nat
    BY <1>3, SendersHaveIds, IdsInRange DEF Stream, Sent, Inv
  <2>2. externalQueue' = Append(externalQueue, packet)
    BY <1>3 DEF Stream
  <2> HIDE DEF packet
  <2> QED BY <1>3, <2>1, <2>2 DEF Stream, Inv
<1>4. ASSUME HandlePacket PROVE Inv'
  <2> DEFINE branch == BranchOf(Head(externalQueue))
             call == [name |-> branch.callback, packet |-> Head(externalQueue)]
  <2>1. externalQueue' \in Seq(Sent) /\ UNCHANGED <<internalQueue, commands, notices>>
    BY <1>4 DEF HandlePacket, Taken, Inv
  <2>2. callbacks' = Append(callbacks, call) \/ callbacks' = callbacks
    BY <1>4 DEF HandlePacket
  <2> HIDE DEF branch, call
  <2>3. IsSequence(callbacks)'
    <3>1. CASE callbacks' = callbacks
      BY <3>1 DEF Inv, IsSequence
    <3>2. CASE callbacks' = Append(callbacks, call)
      <4>1. IsSequence(Append(callbacks, call))
        BY Longer DEF Inv
      <4> QED BY <3>2, <4>1 DEF IsSequence
    <3> QED BY <2>2, <3>1, <3>2
  <2> QED BY <2>1, <2>3 DEF Inv
<1>5. ASSUME UNCHANGED vars PROVE Inv'
  BY <1>5 DEF vars, Inv, IsSequence
<1> QED
  BY <1>1, <1>2, <1>3, <1>4, <1>5 DEF Next

(* The messages of a longer list of calls.                                  *)
LEMMA HeardGrows ==
  ASSUME NEW S, NEW c \in Seq(S), NEW r \in S
  PROVE  [n \in DOMAIN Append(c, r) |-> Append(c, r)[n].packet]
           = Append([n \in DOMAIN c |-> c[n].packet], r.packet)
<1> DEFINE long == [n \in DOMAIN Append(c, r) |-> Append(c, r)[n].packet]
           short == [n \in DOMAIN c |-> c[n].packet]
<1>1. DOMAIN c = 1 .. Len(c) /\ Len(c) \in Nat /\ DOMAIN Append(c, r) = 1 .. Len(c) + 1
  OBVIOUS
<1>2. short \in Seq({c[n].packet : n \in DOMAIN c}) /\ Len(short) = Len(c)
  BY <1>1
<1>3. Append(short, r.packet) = [n \in 1 .. Len(c) + 1 |-> IF n = Len(c) + 1 THEN r.packet ELSE c[n].packet]
  BY <1>1, <1>2
<1>4. \A n \in 1 .. Len(c) + 1 : Append(c, r)[n] = IF n = Len(c) + 1 THEN r ELSE c[n]
  BY <1>1
<1> QED
  BY <1>1, <1>3, <1>4

(* Safety of both mailboxes: whatever is pushed, and whatever throws while  *)
(* it is handled, messages are taken once and in order.  (That they are     *)
(* taken at all rests on fairness and is left to the model checker.)        *)
THEOREM QueuesAreMailboxes ==
  Spec => /\ Notices!Init /\ [][Notices!Next]_<<externalQueue, Heard>>
          /\ Orders!Init /\ [][Orders!Next]_<<internalQueue, acted>>
<1>1. Init => Inv /\ Notices!Init /\ Orders!Init
  BY DEF Init, Inv, IsSequence, Notices!Init, Orders!Init, Heard
<1>2. Inv /\ [Next]_vars => [Notices!Next]_<<externalQueue, Heard>> /\ [Orders!Next]_<<internalQueue, acted>>
  <2> SUFFICES ASSUME Inv, [Next]_vars
               PROVE  [Notices!Next]_<<externalQueue, Heard>> /\ [Orders!Next]_<<internalQueue, acted>>
    OBVIOUS
  <2>1. ASSUME NEW kind \in DOMAIN Senders, Send(kind)
        PROVE  UNCHANGED <<externalQueue, Heard>> /\ [Orders!Next]_<<internalQueue, acted>>
    <3>1. UNCHANGED <<externalQueue, Heard, acted>>
      BY <2>1 DEF Send, Heard
    <3>2. CASE Pushes(kind)
      <4> DEFINE packet == [id |-> ITC[kind], number |-> commands']
      <4>1. internalQueue' = Append(internalQueue, packet) /\ commands < MaxCommands /\ commands' = commands + 1
        BY <2>1, <3>2 DEF Send
      <4>2. packet \in Message(MaxCommands)
        BY <4>1, SendersHaveIds, EmbeddingAssumption DEF Message, Inv
      <4> HIDE DEF packet
      <4> QED BY <3>1, <4>1, <4>2 DEF Orders!Next, Orders!Put
    <3>3. CASE ~Pushes(kind)
      BY <2>1, <3>1, <3>3 DEF Send
    <3> QED BY <3>1, <3>2, <3>3
  <2>2. ASSUME RecieveStream
        PROVE  UNCHANGED <<externalQueue, Heard>> /\ [Orders!Next]_<<internalQueue, acted>>
    <3>1. UNCHANGED <<externalQueue, Heard>>
      BY <2>2 DEF RecieveStream, Heard
    <3>2. internalQueue # <<>> /\ internalQueue' = Tail(internalQueue)
      BY <2>2 DEF RecieveStream
    <3>3. acted' \in {acted, Append(acted, Head(internalQueue))}
      BY <2>2 DEF RecieveStream
    <3> QED BY <3>1, <3>2, <3>3 DEF Orders!Next, Orders!Take, Orders!Remove
  <2>3. ASSUME NEW kind \in Streams, Stream(kind)
        PROVE  [Notices!Next]_<<externalQueue, Heard>> /\ UNCHANGED <<internalQueue, acted>>
    <3> DEFINE packet == [id |-> ITC[kind], number |-> notices']
    <3>1. /\ UNCHANGED <<Heard, internalQueue, acted>>
          /\ externalQueue' = Append(externalQueue, packet)
      BY <2>3 DEF Stream, Heard
    <3>2. Streams \subseteq DOMAIN ITC
      BY DEF Streams, ITC
    <3>3. packet \in Message(MaxNotices)
      BY <2>3, <3>2, EmbeddingAssumption DEF Stream, Message, Inv
    <3> HIDE DEF packet
    <3> QED BY <3>1, <3>3 DEF Notices!Next, Notices!Put
  <2>4. ASSUME HandlePacket
        PROVE  [Notices!Next]_<<externalQueue, Heard>> /\ UNCHANGED <<internalQueue, acted>>
    <3> DEFINE packet == Head(externalQueue)
               branch == BranchOf(packet)
               call == [name |-> branch.callback, packet |-> packet]
    <3>1. /\ UNCHANGED <<internalQueue, acted>> /\ externalQueue # <<>>
          /\ externalQueue' = Tail(externalQueue)
      BY <2>4 DEF HandlePacket, Taken
    <3>2. Heard' \in {Heard, Append(Heard, packet)}
      <4>1. CASE branch.needs \subseteq statics
        <5>1. callbacks' = Append(callbacks, call)
          BY <2>4, <4>1 DEF HandlePacket
        <5>2. call.packet = packet
          OBVIOUS
        <5> HIDE DEF call, branch, packet
        <5> DEFINE S == {callbacks[n] : n \in DOMAIN callbacks} \cup {call}
        <5>3. callbacks \in Seq(S) /\ call \in S
          BY DEF Inv, IsSequence
        <5> HIDE DEF S
        <5>4. Heard' = Append(Heard, call.packet)
          BY <5>1, <5>3, HeardGrows DEF Heard
        <5> QED BY <5>2, <5>4
      <4>2. CASE ~(branch.needs \subseteq statics)
        BY <2>4, <4>2 DEF HandlePacket, Heard
      <4> QED BY <4>1, <4>2
    <3> QED BY <3>1, <3>2 DEF Notices!Next, Notices!Take, Notices!Remove
  <2>5. ASSUME UNCHANGED vars
        PROVE  UNCHANGED <<externalQueue, Heard, internalQueue, acted>>
    BY <2>5 DEF vars, Heard
  <2> QED
    BY <2>1, <2>2, <2>3, <2>4, <2>5 DEF Next
<1> QED
  BY <1>1, <1>2, Step, PTL DEF Spec

=============================================================================
