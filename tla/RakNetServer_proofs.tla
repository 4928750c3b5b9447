------------------------ MODULE RakNetServer_proofs ------------------------
(***************************************************************************)
(* Theorems about RakNetServer, for every value of its constants.           *)
(*                                                                          *)
(* The argument starts from the receive loop (Loop): between two callbacks  *)
(* the shared stream is empty, and a recievePacket call that finds bytes is *)
(* the first of its tick and finds those of the message in the slot, whose  *)
(* sender the slot's rinfo still names.  Everything else is proved on top   *)
(* of it, one invariant at a time.                                          *)
(***************************************************************************)
EXTENDS RakNetServer, FiniteSetTheorems, TLAPS

(* Where the interval callback can be, and what it leaves in the stream.    *)
LoopInv ==
  /\ phase \in {"idle", "recieveStream", "tick"} => stream = <<>>
  /\ phase = "recievePacket" => \/ calls = 0 /\ stream = <<>>
                                \/ calls = 1 /\ msg = Undefined
  /\ phase = "createSession" => calls = 0 /\ msg = Undefined /\ pending \in Request2
  /\ phase # "createSession" => pending = Undefined

(* The slot holds the latest datagram and its sender, or nothing.           *)
SlotInv == msg # Undefined => rinfo = msg.datagram.from /\ msg.n = arrivals

Loop == TypeOK /\ LoopInv /\ SlotInv

-----------------------------------------------------------------------------
(* The receive loop.                                                       *)

(* A recievePacket call that finds bytes finds the message in the slot.     *)
LEMMA TakeFacts ==
  ASSUME Loop, Take
  PROVE  /\ msg # Undefined /\ msg \in Arrival
         /\ calls = 0 /\ Buffer = <<msg>> /\ Head(Buffer) = msg /\ Len(Buffer) = 1
         /\ Received = msg.datagram /\ Received \in Datagram
         /\ rinfo = Received.from /\ rinfo \in Clients /\ msg.n = arrivals
<1>1. msg # Undefined /\ calls = 0 /\ stream = <<>>
  BY DEF Loop, TypeOK, LoopInv, Take, At, Buffer, Phases
<1>2. msg \in Arrival
  BY <1>1 DEF Loop, TypeOK
<1>3. Buffer = <<msg>>
  BY <1>1 DEF Buffer
<1>4. Head(Buffer) = msg /\ Len(Buffer) = 1
  BY <1>3
<1>5. Received = msg.datagram /\ Received \in Datagram
  BY <1>2, <1>4 DEF Received, Arrival
<1>6. rinfo = Received.from /\ rinfo \in Clients /\ msg.n = arrivals
  BY <1>1, <1>5 DEF Loop, SlotInv, Datagram
<1> QED
  BY <1>1, <1>2, <1>3, <1>4, <1>5, <1>6

(* What sending a reply leaves behind: one more write or none.              *)
LEMMA SendFacts ==
  ASSUME Loop, Take, NEW reply \in Replies, NEW m \in Mtus, SendPacket(reply, m)
  PROVE  /\ \/ writes' = writes
            \/ writes' = Append(writes, [reply |-> reply, to |-> rinfo, mtuSize |-> m, cause |-> msg])
         /\ writes' \in Seq(Write)
         /\ sendBytes' \in {"0", "NaN"}
<1>1. /\ msg \in Arrival /\ rinfo \in Clients /\ Head(Buffer) = msg
  BY TakeFacts
<1>2. [reply |-> reply, to |-> rinfo, mtuSize |-> m, cause |-> msg] \in Write
  BY <1>1 DEF Write
<1>3. writes \in Seq(Write) /\ sendBytes \in {"0", "NaN"}
  BY DEF Loop, TypeOK
<1>4. CASE sockOpen
  BY <1>1, <1>2, <1>3, <1>4 DEF SendPacket
<1>5. CASE ~sockOpen
  BY <1>3, <1>5 DEF SendPacket
<1> QED
  BY <1>4, <1>5

(* The steps that handle a datagram and return to the receive loop.         *)
HandledInPlace ==
  \/ SessionPacket \/ IgnoreRaw \/ CutShortThrows \/ EncodeThrows
  \/ AnswerPing \/ AnswerRequest1 \/ RejectRequest2

(* Initially nothing is in slot or stream, and no callback runs.            *)
LEMMA LoopInit == Init => Loop
<1> SUFFICES ASSUME Init PROVE Loop
  OBVIOUS
<1> USE DEF Init, EmptyMap
<1>1. TypeOK
  BY DEF TypeOK, Phases
<1>2. LoopInv
  BY DEF LoopInv
<1>3. SlotInv
  BY DEF SlotInv
<1> QED
  BY <1>1, <1>2, <1>3 DEF Loop

(* The state the steps of Take share, and what they leave of it.            *)
LEMMA TakeLoop ==
  ASSUME Loop, Take,
         running' \in BOOLEAN, writes' \in Seq(Write), sendBytes' \in {"0", "NaN"},
         \/ phase' = phase /\ calls' = calls + 1 /\ pending' = pending
         \/ phase' = "createSession" /\ calls' = calls /\ pending' \in Request2
  PROVE  Loop'
<1>1. /\ msg \in Arrival /\ calls = 0 /\ Buffer = <<msg>> /\ Len(Buffer) = 1
  BY TakeFacts
<1>2. msg' = Undefined /\ stream' = <<msg>> /\ phase = "recievePacket"
  BY <1>1 DEF Take, ClearSlot, At
<1>3. pending = Undefined
  BY <1>2 DEF Loop, LoopInv
<1>4. TypeOK'
  BY <1>1, <1>2, <1>3 DEF Loop, TypeOK, Take, Phases, tableVars, queueVars
<1>5. LoopInv'
  BY <1>1, <1>2, <1>3 DEF LoopInv
<1>6. SlotInv'
  BY <1>2 DEF SlotInv
<1> QED
  BY <1>4, <1>5, <1>6 DEF Loop

(* What the branches of recievePacket that create nothing have in common.   *)
LEMMA InPlaceFacts ==
  ASSUME Loop, HandledInPlace
  PROVE  /\ Take /\ Return /\ running = TRUE
         /\ running' = TRUE \/ (running' = FALSE /\ (CutShortThrows \/ EncodeThrows))
         /\ \/ writes' = writes
            \/ \E reply \in Replies \ {"OpenConnectionReply2"} :
                 writes' = Append(writes, [reply |-> reply, to |-> rinfo, mtuSize |-> 0, cause |-> msg])
         /\ writes' \in Seq(Write) /\ sendBytes' \in {"0", "NaN"}
<1> USE DEF Offline, Take, At
<1>a. Loop /\ Take
  BY DEF HandledInPlace, SessionPacket, IgnoreRaw, CutShortThrows, EncodeThrows,
         AnswerPing, AnswerRequest1, RejectRequest2
<1>b. writes \in Seq(Write) /\ sendBytes \in {"0", "NaN"} /\ running = TRUE
  BY <1>a DEF Loop, TypeOK
<1>1. CASE SessionPacket \/ IgnoreRaw \/ RejectRequest2
  BY <1>1, <1>a, <1>b DEF SessionPacket, IgnoreRaw, RejectRequest2, HeaderIsValid
<1>4. CASE CutShortThrows \/ EncodeThrows
  BY <1>4, <1>a, <1>b DEF CutShortThrows, EncodeThrows
<1>c. 0 \in Mtus
  BY DEF Mtus
<1>2. CASE AnswerPing
  <2>1. SendPacket("UnconnectedPong", 0) /\ Return /\ running' = TRUE
    BY <1>2, <1>b DEF AnswerPing
  <2> QED
    BY <1>a, <1>b, <1>c, <2>1, SendFacts DEF Replies
<1>3. CASE AnswerRequest1
  <2>1. PICK reply \in {"IncompatibleProtocolVersion", "OpenConnectionReply1"} :
          SendPacket(reply, 0) /\ Return /\ running' = TRUE
    BY <1>3, <1>b DEF AnswerRequest1
  <2> QED
    BY <1>a, <1>b, <1>c, <2>1, SendFacts DEF Replies
<1> QED
  BY <1>1, <1>2, <1>3, <1>4 DEF HandledInPlace

(* AcceptRequest2 sends its reply and leaves the arguments of createSession *)
(* behind.                                                                  *)
LEMMA AcceptFacts ==
  ASSUME Loop, AcceptRequest2
  PROVE  /\ Take /\ ~SessionKnown /\ running' = running /\ calls' = calls
         /\ phase' = "createSession"
         /\ pending' = [address |-> rinfo, clientId |-> ClientId(msg.datagram), mtuSize |-> MtuFor(msg.datagram.mtuSize)]
         /\ pending' \in Request2 /\ pending'.clientId \in {GuidOf[rinfo], Undefined}
         /\ ~MtuTooSmall(msg.datagram.mtuSize)
         /\ SendPacket("OpenConnectionReply2", pending'.mtuSize)
         /\ writes' \in Seq(Write) /\ sendBytes' \in {"0", "NaN"}
         /\ IF sockOpen
            THEN writes' = Append(writes, [reply |-> "OpenConnectionReply2", to |-> rinfo,
                                           mtuSize |-> pending'.mtuSize, cause |-> msg])
            ELSE writes' = writes
<1>1. /\ Take /\ ~SessionKnown /\ running' = running /\ calls' = calls /\ phase' = "createSession"
      /\ ~MtuTooSmall(Received.mtuSize)
      /\ SendPacket("OpenConnectionReply2", MtuFor(Received.mtuSize))
      /\ pending' = [address |-> rinfo, clientId |-> ClientId(Received), mtuSize |-> MtuFor(Received.mtuSize)]
  BY DEF AcceptRequest2, Offline
<1>2. /\ Received = msg.datagram /\ Received \in Datagram /\ rinfo = Received.from
      /\ rinfo \in Clients /\ Head(Buffer) = msg
  BY <1>1, TakeFacts
<1>3. ClientId(Received) \in {GuidOf[rinfo], Undefined} /\ ClientId(Received) \in Guids
  BY <1>2 DEF ClientId, Guids
<1>4. MtuFor(Received.mtuSize) \in Mtus
  BY <1>2, ConstantsAssumption DEF Datagram, Mtus, MtuFor
<1>5. /\ pending' \in Request2 /\ pending'.mtuSize = MtuFor(Received.mtuSize)
      /\ pending'.clientId = ClientId(Received)
  BY <1>1, <1>2, <1>3, <1>4 DEF Request2
<1>6. writes' \in Seq(Write) /\ sendBytes' \in {"0", "NaN"}
  BY <1>1, <1>4, SendFacts DEF Replies
<1>7. IF sockOpen
      THEN writes' = Append(writes, [reply |-> "OpenConnectionReply2", to |-> rinfo,
                                     mtuSize |-> pending'.mtuSize, cause |-> msg])
      ELSE writes' = writes
  BY <1>1, <1>2, <1>5 DEF SendPacket
<1> QED
  BY <1>1, <1>2, <1>3, <1>5, <1>6, <1>7

(* What createSession makes of its arguments and of the two tables.         *)
LEMMA CreateSessionFacts ==
  ASSUME Loop, CreateSession
  PROVE  /\ pending \in Request2 /\ NewSession \in Session /\ calls = 0 /\ msg = Undefined
         /\ NewSession.internalId = nextSessionId /\ NewSession.address = pending.address
         /\ NewSession.clientId = pending.clientId /\ NewSession.mtuSize = pending.mtuSize
         /\ DOMAIN sessions' = DOMAIN sessions \cup {nextSessionId}
         /\ sessions' \in [DOMAIN sessions' -> Session]
         /\ sessions'[nextSessionId] = NewSession
         /\ \A id \in DOMAIN sessions : id # nextSessionId => sessions'[id] = sessions[id]
         /\ DOMAIN sessionsByAddress' = DOMAIN sessionsByAddress \cup {IpOf[pending.address]}
         /\ sessionsByAddress' \in [DOMAIN sessionsByAddress' -> Session]
         /\ sessionsByAddress'[IpOf[pending.address]] = NewSession
         /\ \A ip \in DOMAIN sessionsByAddress :
              ip # IpOf[pending.address] => sessionsByAddress'[ip] = sessionsByAddress[ip]
         /\ IpOf[pending.address] \in Ips
<1>1. pending \in Request2 /\ calls = 0 /\ msg = Undefined
  BY DEF Loop, LoopInv, CreateSession, At
<1>2. NewSession \in Session
  BY <1>1 DEF Loop, TypeOK, NewSession, Session, Request2
<1>3. /\ NewSession.internalId = nextSessionId /\ NewSession.address = pending.address
      /\ NewSession.clientId = pending.clientId /\ NewSession.mtuSize = pending.mtuSize
  BY DEF NewSession
<1>4. /\ sessions' = MapSet(sessions, nextSessionId, NewSession)
      /\ sessionsByAddress' = MapSet(sessionsByAddress, IpOf[pending.address], NewSession)
  BY DEF CreateSession
<1>5. /\ sessions \in [DOMAIN sessions -> Session]
      /\ sessionsByAddress \in [DOMAIN sessionsByAddress -> Session]
  BY DEF Loop, TypeOK
<1>6. /\ DOMAIN sessions' = DOMAIN sessions \cup {nextSessionId}
      /\ sessions' \in [DOMAIN sessions' -> Session]
      /\ sessions'[nextSessionId] = NewSession
      /\ \A id \in DOMAIN sessions : id # nextSessionId => sessions'[id] = sessions[id]
  BY <1>2, <1>4, <1>5 DEF MapSet
<1>7. /\ DOMAIN sessionsByAddress' = DOMAIN sessionsByAddress \cup {IpOf[pending.address]}
      /\ sessionsByAddress' \in [DOMAIN sessionsByAddress' -> Session]
      /\ sessionsByAddress'[IpOf[pending.address]] = NewSession
      /\ \A ip \in DOMAIN sessionsByAddress :
           ip # IpOf[pending.address] => sessionsByAddress'[ip] = sessionsByAddress[ip]
  BY <1>2, <1>4, <1>5 DEF MapSet
<1>8. IpOf[pending.address] \in Ips
  BY <1>1, ConstantsAssumption DEF Request2
<1> QED
  BY <1>1, <1>2, <1>3, <1>6, <1>7, <1>8

(* Every step keeps the types and the shape of the receive loop.            *)
LEMMA LoopStep == Loop /\ [Next]_vars => Loop'
<1> SUFFICES ASSUME Loop, [Next]_vars PROVE Loop'
  OBVIOUS
<1> USE DEF At
<1>1. ASSUME NEW d \in Datagrams, Message(d) PROVE Loop'
  <2>1. d \in Datagram /\ arrivals' = arrivals + 1 /\ arrivals \in Nat
    BY <1>1, ConstantsAssumption DEF Message, Loop, TypeOK
  <2>2. [n |-> arrivals + 1, datagram |-> d] \in Arrival /\ d.from \in Clients
    BY <2>1 DEF Arrival, Datagram
  <2>a. msg' \in Arrival /\ rinfo' \in Clients /\ arrivals' \in Nat
    BY <1>1, <2>1, <2>2 DEF Message
  <2>b. UNCHANGED <<running, sockOpen, stream, phase, calls, tableVars, pending, statVars, queueVars, writes>>
    BY <1>1 DEF Message
  <2>3. TypeOK'
    BY <2>a, <2>b DEF Loop, TypeOK, tableVars, statVars, queueVars
  <2>4. LoopInv' /\ SlotInv'
    BY <1>1, <2>1 DEF Loop, LoopInv, SlotInv, Message
  <2> QED
    BY <2>3, <2>4 DEF Loop
<1>2. CASE SocketError
  BY <1>2 DEF Loop, TypeOK, LoopInv, SlotInv, SocketError, tableVars, statVars, queueVars
<1>3. ASSUME NEW c \in Commands, PushCommand(c) PROVE Loop'
  BY <1>3 DEF Loop, TypeOK, LoopInv, SlotInv, PushCommand, sockVars, tableVars, statVars
<1>4. CASE HandlePacket
  <2>1. externalQueue \in Seq(Report) /\ externalQueue # <<>> /\ delivered \in Nat
    BY <1>4 DEF Loop, TypeOK, HandlePacket
  <2>2. Head(externalQueue) \in Report /\ Tail(externalQueue) \in Seq(Report)
    BY <2>1
  <2>3. delivered' \in Nat /\ externalQueue' \in Seq(Report)
    BY <1>4, <2>1, <2>2 DEF HandlePacket, Report
  <2> QED
    BY <1>4, <2>3 DEF Loop, TypeOK, LoopInv, SlotInv, HandlePacket, sockVars, tableVars, statVars
<1>5. CASE StartTick
  BY <1>5 DEF Loop, TypeOK, LoopInv, SlotInv, StartTick, Phases, sockVars, tableVars, statVars, queueVars
<1>6. CASE RecieveStream
  <2>1. internalQueue' \in Seq(Commands)
    BY <1>6 DEF Loop, TypeOK, RecieveStream
  <2> QED
    BY <1>6, <2>1 DEF Loop, TypeOK, LoopInv, SlotInv, RecieveStream, Phases, sockVars, tableVars, statVars
<1>7. CASE PacketLoopEnds
  <2>1. stream' = <<>>
    BY <1>7, ConstantsAssumption DEF PacketLoopEnds, Loop, LoopInv, Buffer
  <2>2. /\ phase = "recievePacket" /\ phase' = "tick"
        /\ UNCHANGED <<running, sockVars, calls, tableVars, pending, statVars, queueVars, writes>>
    BY <1>7 DEF PacketLoopEnds
  <2>3. TypeOK'
    BY <2>1, <2>2 DEF Loop, TypeOK, Phases, sockVars, tableVars, statVars, queueVars
  <2>4. LoopInv' /\ SlotInv'
    BY <2>1, <2>2 DEF Loop, LoopInv, SlotInv, sockVars
  <2> QED
    BY <2>3, <2>4 DEF Loop
<1>8. CASE HandledInPlace
  <2>1. running' \in BOOLEAN
    BY <1>8, InPlaceFacts
  <2> QED
    BY <1>8, <2>1, InPlaceFacts, TakeLoop DEF Return
<1>9. CASE AcceptRequest2
  <2>1. running' \in BOOLEAN
    BY AcceptFacts, <1>9 DEF Loop, TypeOK
  <2> QED
    BY <1>9, <2>1, AcceptFacts, TakeLoop
<1>10. CASE CheckSessionsThrows
  BY <1>10 DEF Loop, TypeOK, LoopInv, SlotInv, CheckSessionsThrows, sockVars, tableVars, statVars, queueVars
<1>11. CASE SkipSessionId
  <2>1. nextSessionId' = (nextSessionId + 1) % IdModulus /\ nextSessionId \in Nat
    BY <1>11 DEF Loop, TypeOK, SkipSessionId, IdAfter
  <2>2. IdModulus \in Nat \ {0}
    BY ConstantsAssumption
  <2>3. nextSessionId' \in Nat
    BY <2>1, <2>2
  <2> QED
    BY <1>11, <2>3 DEF Loop, TypeOK, LoopInv, SlotInv, SkipSessionId, sockVars, statVars, queueVars
<1>12. CASE CreateSession
  <2>1. /\ phase' = "recievePacket" /\ calls' = calls + 1 /\ pending' = Undefined
        /\ UNCHANGED <<running, sockVars, stream, nextSessionId, statVars, queueVars, writes>>
    BY <1>12 DEF CreateSession
  <2>3. /\ DOMAIN sessions' \subseteq Nat /\ sessions' \in [DOMAIN sessions' -> Session]
        /\ DOMAIN sessionsByAddress' \subseteq Ips
        /\ sessionsByAddress' \in [DOMAIN sessionsByAddress' -> Session]
    BY <1>12, CreateSessionFacts DEF Loop, TypeOK
  <2>a. phase' \in Phases /\ calls' \in Nat /\ pending' \in Request2 \cup {Undefined}
    BY <2>1 DEF Loop, TypeOK, Phases
  <2>b. TypeOK
    BY DEF Loop
  <2>4. TypeOK'
    BY <2>1, <2>3, <2>a, <2>b DEF TypeOK, sockVars, statVars, queueVars
  <2>2. LoopInv' /\ SlotInv'
    BY <1>12, <2>1, CreateSessionFacts DEF Loop, LoopInv, SlotInv, sockVars
  <2> QED
    BY <2>2, <2>4 DEF Loop
<1>13. CASE Tick
  <2>a. ticks \in Nat /\ ticks' = (ticks + 1) % TickPeriod /\ TickPeriod \in Nat \ {0}
    BY <1>13, ConstantsAssumption DEF Loop, TypeOK, Tick
  <2>1. ticks' \in Nat
    BY <2>a
  <2>b. /\ externalQueue \in Seq(Report) /\ sendBytes \in {"0", "NaN"} /\ recieveBytes \in Nat
        /\ [up |-> sendBytes, down |-> recieveBytes] \in Report
    BY DEF Loop, TypeOK, Report
  <2>2. externalQueue' \in Seq(Report) /\ sendBytes' \in {"0", "NaN"} /\ recieveBytes' \in Nat
    BY <1>13, <2>b DEF Tick, ResetBytes
  <2> QED
    BY <1>13, <2>1, <2>2 DEF Loop, TypeOK, LoopInv, SlotInv, Tick, Phases, sockVars, tableVars
<1>14. CASE UNCHANGED vars
  BY <1>14 DEF Loop, TypeOK, LoopInv, SlotInv, vars, sockVars, tableVars, statVars, queueVars
<1> QED
  BY <1>1, <1>2, <1>3, <1>4, <1>5, <1>6, <1>7, <1>8, <1>9, <1>10, <1>11, <1>12, <1>13, <1>14
     DEF Next, Environment, Callback, RecievePacket, CreateSteps, HandledInPlace

(* The variables keep their types, and the receive loop its shape.          *)
THEOREM LoopCorrect == Spec => []Loop
  BY LoopInit, LoopStep, PTL DEF Spec

(* Every variable keeps its type: no reply, no session and no pending       *)
(* request is ever built from an undefined field.                           *)
THEOREM TypeCorrect == Spec => []TypeOK
<1>1. Loop => TypeOK
  BY DEF Loop
<1> QED
  BY <1>1, LoopCorrect, PTL

-----------------------------------------------------------------------------
(* The session tables.                                                     *)

(* The steps that touch the tables, the replies or the slot, and the rest.  *)
LEMMA StepKinds ==
  ASSUME Loop, [Next]_vars
  PROVE  \/ CreateSession
         \/ AcceptRequest2
         \/ HandledInPlace
         \/ \E d \in Datagrams : Message(d)
         \/ /\ UNCHANGED <<sessions, sessionsByAddress, pending, writes, msg, arrivals>>
            /\ phase' = "createSession" <=> phase = "createSession"
            /\ sockOpen' => sockOpen
            /\ running' = running \/ CheckSessionsThrows
<1> DEFINE Rest == /\ UNCHANGED <<sessions, sessionsByAddress, pending, writes, msg, arrivals>>
                   /\ phase' = "createSession" <=> phase = "createSession"
                   /\ sockOpen' => sockOpen
                   /\ running' = running \/ CheckSessionsThrows
<1> USE DEF At, sockVars, tableVars
<1>1. CASE SocketError
  BY <1>1 DEF SocketError
<1>2. ASSUME NEW c \in Commands, PushCommand(c) PROVE Rest
  BY <1>2 DEF PushCommand
<1>3. CASE HandlePacket
  BY <1>3 DEF HandlePacket
<1>4. CASE StartTick
  BY <1>4 DEF StartTick
<1>5. CASE RecieveStream
  BY <1>5 DEF RecieveStream
<1>6. CASE PacketLoopEnds
  BY <1>6 DEF PacketLoopEnds
<1>7. CASE CheckSessionsThrows
  BY <1>7 DEF CheckSessionsThrows
<1>8. CASE SkipSessionId
  BY <1>8 DEF SkipSessionId
<1>9. CASE Tick
  BY <1>9 DEF Tick
<1>10. CASE UNCHANGED vars
  BY <1>10 DEF vars
<1> QED
  BY <1>1, <1>2, <1>3, <1>4, <1>5, <1>6, <1>7, <1>8, <1>9, <1>10
     DEF Next, Environment, Callback, RecievePacket, CreateSteps, HandledInPlace

(* The createSession call under way is for an ip without a session, and     *)
(* joins a peer's address to its own clientID.                              *)
PendingInv ==
  phase = "createSession" =>
    /\ IpOf[pending.address] \notin DOMAIN sessionsByAddress
    /\ pending.clientId \in {GuidOf[pending.address], Undefined}

(* Both maps are finite and of one size.                                    *)
SizeInv ==
  /\ IsFiniteSet(DOMAIN sessions) /\ IsFiniteSet(DOMAIN sessionsByAddress)
  /\ Cardinality(DOMAIN sessions) = Cardinality(DOMAIN sessionsByAddress)

Tables == TablesAgree /\ PendingInv /\ SizeInv

(* Empty tables agree.                                                      *)
LEMMA TablesInit == Init => Tables
<1> SUFFICES ASSUME Init PROVE Tables
  OBVIOUS
<1> USE DEF Init, EmptyMap
<1>1. DOMAIN sessions = {} /\ DOMAIN sessionsByAddress = {} /\ phase = "idle"
  OBVIOUS
<1>2. SizeInv
  BY <1>1, FS_EmptySet DEF SizeInv
<1> QED
  BY <1>1, <1>2 DEF Tables, TablesAgree, PendingInv

(* createSession enters a session under an id and an ip that are both free. *)
LEMMA CreateSessionTables ==
  ASSUME Loop, Tables, CreateSession
  PROVE  Tables'
<1> DEFINE k == nextSessionId
           ip == IpOf[pending.address]
<1>1. k \notin DOMAIN sessions /\ ip \notin DOMAIN sessionsByAddress
  BY DEF CreateSession, IdTaken, At, Tables, PendingInv
<1>2. /\ DOMAIN sessions' = DOMAIN sessions \cup {k}
      /\ sessions'[k] = NewSession
      /\ \A id \in DOMAIN sessions : sessions'[id] = sessions[id]
  BY <1>1, CreateSessionFacts
<1>3. /\ DOMAIN sessionsByAddress' = DOMAIN sessionsByAddress \cup {ip}
      /\ sessionsByAddress'[ip] = NewSession
      /\ \A l \in DOMAIN sessionsByAddress : sessionsByAddress'[l] = sessionsByAddress[l]
  BY <1>1, CreateSessionFacts
<1>4. NewSession.internalId = k /\ IpOf[NewSession.address] = ip
  BY CreateSessionFacts
<1>5. TablesAgree
  BY DEF Tables
<1> HIDE DEF k, ip
<1>6. TablesAgree'
  <2>1. ASSUME NEW id \in DOMAIN sessions'
        PROVE  /\ sessions'[id].internalId = id
               /\ IpOf[sessions'[id].address] \in DOMAIN sessionsByAddress'
               /\ sessionsByAddress'[IpOf[sessions'[id].address]] = sessions'[id]
    <3>1. CASE id = k
      BY <3>1, <1>2, <1>3, <1>4
    <3>2. CASE id \in DOMAIN sessions
      BY <3>2, <1>2, <1>3, <1>5 DEF TablesAgree
    <3> QED
      BY <3>1, <3>2, <1>2
  <2>2. ASSUME NEW l \in DOMAIN sessionsByAddress'
        PROVE  /\ IpOf[sessionsByAddress'[l].address] = l
               /\ sessionsByAddress'[l].internalId \in DOMAIN sessions'
               /\ sessions'[sessionsByAddress'[l].internalId] = sessionsByAddress'[l]
    <3>1. CASE l = ip
      BY <3>1, <1>2, <1>3, <1>4
    <3>2. CASE l \in DOMAIN sessionsByAddress
      BY <3>2, <1>2, <1>3, <1>5 DEF TablesAgree
    <3> QED
      BY <3>1, <3>2, <1>3
  <2> QED
    BY <2>1, <2>2 DEF TablesAgree
<1>7. PendingInv'
  BY DEF PendingInv, CreateSession
<1>8. SizeInv'
  <2>1. SizeInv
    BY DEF Tables
  <2>2. /\ IsFiniteSet(DOMAIN sessions')
        /\ Cardinality(DOMAIN sessions') = Cardinality(DOMAIN sessions) + 1
    BY <1>1, <1>2, <2>1, FS_AddElement DEF SizeInv
  <2>3. /\ IsFiniteSet(DOMAIN sessionsByAddress')
        /\ Cardinality(DOMAIN sessionsByAddress') = Cardinality(DOMAIN sessionsByAddress) + 1
    BY <1>1, <1>3, <2>1, FS_AddElement DEF SizeInv
  <2> QED
    BY <2>1, <2>2, <2>3 DEF SizeInv
<1> QED
  BY <1>6, <1>7, <1>8 DEF Tables

(* Every step keeps the tables in agreement; only createSession touches     *)
(* them.                                                                    *)
LEMMA TablesStep == Loop /\ Tables /\ [Next]_vars => Tables'
<1> SUFFICES ASSUME Loop, Tables, [Next]_vars PROVE Tables'
  OBVIOUS
<1> USE DEF Tables, TablesAgree, SizeInv, PendingInv
<1>1. CASE CreateSession
  BY <1>1, CreateSessionTables
<1>2. CASE AcceptRequest2
  <2>1. UNCHANGED <<sessions, sessionsByAddress>> /\ rinfo \in Clients
    BY <1>2, AcceptFacts, TakeFacts DEF Take, tableVars
  <2>2. /\ IpOf[rinfo] \notin DOMAIN sessionsByAddress
        /\ pending'.address = rinfo /\ pending'.clientId \in {GuidOf[rinfo], Undefined}
    BY <1>2, AcceptFacts DEF SessionKnown
  <2> QED
    BY <2>1, <2>2
<1>3. CASE HandledInPlace
  <2>1. UNCHANGED <<sessions, sessionsByAddress, phase>> /\ phase = "recievePacket"
    BY <1>3, InPlaceFacts DEF Take, At, tableVars, Return
  <2> QED
    BY <2>1
<1>4. ASSUME NEW d \in Datagrams, Message(d) PROVE Tables'
  BY <1>4 DEF Message, tableVars
<1>5. CASE /\ UNCHANGED <<sessions, sessionsByAddress, pending>>
           /\ phase' = "createSession" <=> phase = "createSession"
  BY <1>5
<1> QED
  BY <1>1, <1>2, <1>3, <1>4, <1>5, StepKinds

(* The two session tables hold the same sessions, for any number of peers   *)
(* and any sharing of ips among them.                                       *)
THEOREM TablesCorrect == Spec => []Tables
  BY LoopCorrect, TablesInit, TablesStep, PTL DEF Spec

(* The map by id and the map by ip (SessionManager.js:485-486) always hold  *)
(* the same sessions, each under its own id and its own ip.                 *)
THEOREM TablesAlwaysAgree == Spec => []TablesAgree
<1>1. Tables => TablesAgree
  BY DEF Tables
<1> QED
  BY <1>1, TablesCorrect, PTL

-----------------------------------------------------------------------------
(* The replies.                                                            *)

(* The elements of a sequence with one more at its end.                     *)
LEMMA AppendFacts ==
  ASSUME NEW q \in Seq(Write), NEW e
  PROVE  /\ DOMAIN Append(q, e) = DOMAIN q \cup {Len(q) + 1}
         /\ Append(q, e)[Len(q) + 1] = e
         /\ \A i \in DOMAIN q : Append(q, e)[i] = q[i] /\ i \in Nat /\ i < Len(q) + 1
  OBVIOUS

(* A write answers a datagram that has arrived and is no longer in the slot. *)
CauseInv ==
  \A i \in DOMAIN writes :
    /\ writes[i].cause.n <= arrivals
    /\ msg # Undefined => writes[i].cause.n < msg.n

(* An OpenConnectionReply2 is backed by a session, or it is the last reply  *)
(* and its createSession call is under way.                                 *)
BackedInv ==
  \A i \in DOMAIN writes :
    LET w == writes[i] IN
      w.reply = "OpenConnectionReply2" =>
        \/ \E id \in DOMAIN sessions : sessions[id].address = w.to /\ sessions[id].mtuSize = w.mtuSize
        \/ /\ i = Len(writes) /\ phase = "createSession"
           /\ pending.address = w.to /\ pending.mtuSize = w.mtuSize

(* A process that ended in createSession ended there because the table was  *)
(* full.                                                                    *)
FullInv == phase = "createSession" => running \/ TableFull

(* The createSession call under way was announced, or the socket is closed  *)
(* and every session so far was.                                            *)
AnnouncedInv ==
  phase = "createSession" => Announced(pending) \/ (~sockOpen /\ Unannounced = {})

(* A session that was not announced came of the last datagram: the socket   *)
(* is closed, the slot is empty and no createSession call is under way.     *)
LastInv ==
  Unannounced # {} =>
    /\ ~sockOpen /\ msg = Undefined /\ phase # "createSession"
    /\ \A a, b \in Unannounced : a = b

RepliesInv ==
  /\ CauseInv /\ NoCrossTalk /\ AnsweredInOrderOnce
  /\ BackedInv /\ FullInv /\ AnnouncedInv /\ LastInv

(* No replies, no sessions: nothing to account for.                         *)
LEMMA RepliesInit == Init => RepliesInv
<1> SUFFICES ASSUME Init PROVE RepliesInv
  OBVIOUS
<1>1. writes = <<>> /\ DOMAIN sessions = {} /\ phase = "idle"
  BY DEF Init, EmptyMap
<1> QED
  BY <1>1 DEF RepliesInv, CauseInv, NoCrossTalk, AnsweredInOrderOnce,
              BackedInv, FullInv, AnnouncedInv, LastInv, Unannounced

(* The steps that may send a reply.                                         *)
LEMMA AnswerFacts ==
  ASSUME Loop, HandledInPlace \/ AcceptRequest2
  PROVE  /\ msg # Undefined /\ msg' = Undefined /\ arrivals' = arrivals /\ msg.n = arrivals
         /\ msg.n \in Nat /\ msg.datagram.from = rinfo /\ pending = Undefined
         /\ UNCHANGED <<sessions, sockOpen>>
         /\ \/ writes' = writes
            \/ \E reply \in Replies, m \in Mtus :
                 writes' = Append(writes, [reply |-> reply, to |-> rinfo, mtuSize |-> m, cause |-> msg])
<1>1. Take
  BY InPlaceFacts, AcceptFacts
<1>2. /\ msg # Undefined /\ msg \in Arrival /\ msg.n = arrivals /\ msg.datagram.from = rinfo
  BY <1>1, TakeFacts
<1>3. msg' = Undefined /\ arrivals' = arrivals /\ pending = Undefined /\ UNCHANGED <<sessions, sockOpen>>
  BY <1>1 DEF Take, ClearSlot, At, tableVars, Loop, LoopInv
<1>4. msg.n \in Nat
  BY <1>2 DEF Arrival
<1>5. CASE HandledInPlace
  <2>1. 0 \in Mtus /\ Replies \ {"OpenConnectionReply2"} \subseteq Replies
    BY DEF Mtus
  <2> QED
    BY <1>2, <1>3, <1>4, <1>5, <2>1, InPlaceFacts
<1>6. CASE AcceptRequest2
  <2>1. pending'.mtuSize \in Mtus
    BY <1>6, AcceptFacts DEF Request2
  <2> QED
    BY <1>2, <1>3, <1>4, <1>6, <2>1, AcceptFacts DEF Replies
<1> QED
  BY <1>5, <1>6

(* A reply answers a later datagram than all replies before it.             *)
LEMMA AnswerOrder ==
  ASSUME Loop, RepliesInv, HandledInPlace \/ AcceptRequest2
  PROVE  CauseInv' /\ NoCrossTalk' /\ AnsweredInOrderOnce'
<1> USE DEF RepliesInv, CauseInv, NoCrossTalk, AnsweredInOrderOnce
<1>1. CASE writes' = writes
  BY <1>1, AnswerFacts
<1>2. ASSUME NEW reply \in Replies, NEW m \in Mtus,
             writes' = Append(writes, [reply |-> reply, to |-> rinfo, mtuSize |-> m, cause |-> msg])
      PROVE  CauseInv' /\ NoCrossTalk' /\ AnsweredInOrderOnce'
  <2> DEFINE last == Len(writes) + 1
  <2>1. writes \in Seq(Write)
    BY DEF Loop, TypeOK
  <2>2. /\ DOMAIN writes' = DOMAIN writes \cup {last}
        /\ writes'[last] = [reply |-> reply, to |-> rinfo, mtuSize |-> m, cause |-> msg]
        /\ \A i \in DOMAIN writes : writes'[i] = writes[i] /\ i \in Nat /\ i < last
    BY <1>2, <2>1, AppendFacts
  <2>3. writes'[last].cause = msg /\ writes'[last].to = rinfo
    BY <2>2
  <2>4. last \in Nat
    BY <2>1
  <2> HIDE DEF last
  <2>5. \A i \in DOMAIN writes : writes[i].cause.n < msg.n
    BY AnswerFacts
  <2>6. CauseInv'
    BY <2>2, <2>3, AnswerFacts
  <2>7. NoCrossTalk'
    BY <2>2, <2>3, AnswerFacts
  <2>8. ASSUME NEW i \in DOMAIN writes', NEW j \in DOMAIN writes', i < j
        PROVE  writes'[i].cause.n < writes'[j].cause.n
    BY <2>2, <2>3, <2>4, <2>5, <2>8
  <2> QED
    BY <2>6, <2>7, <2>8
<1> QED
  BY <1>1, <1>2, AnswerFacts

(* Writes are only ever added.                                              *)
LEMMA WritesGrow ==
  ASSUME Loop, NEW reply \in Replies, NEW m \in Mtus,
         writes' = Append(writes, [reply |-> reply, to |-> rinfo, mtuSize |-> m, cause |-> msg])
  PROVE  /\ Len(writes) + 1 \in DOMAIN writes'
         /\ DOMAIN writes' = DOMAIN writes \cup {Len(writes) + 1}
         /\ writes'[Len(writes) + 1].reply = reply
         /\ writes'[Len(writes) + 1].to = rinfo /\ writes'[Len(writes) + 1].mtuSize = m
         /\ \A i \in DOMAIN writes : i \in DOMAIN writes' /\ writes'[i] = writes[i]
<1> DEFINE last == Len(writes) + 1
<1>1. writes \in Seq(Write)
  BY DEF Loop, TypeOK
<1>2. /\ DOMAIN writes' = DOMAIN writes \cup {last}
      /\ writes'[last] = [reply |-> reply, to |-> rinfo, mtuSize |-> m, cause |-> msg]
      /\ \A i \in DOMAIN writes : writes'[i] = writes[i]
  BY <1>1, AppendFacts
<1> HIDE DEF last
<1>3. /\ last \in DOMAIN writes'
      /\ writes'[last].reply = reply /\ writes'[last].to = rinfo /\ writes'[last].mtuSize = m
      /\ \A i \in DOMAIN writes : i \in DOMAIN writes' /\ writes'[i] = writes[i]
  BY <1>2
<1> QED
  BY <1>2, <1>3 DEF last

(* What was announced stays so: writes are kept, sessions and the call      *)
(* under way are looked up in them.                                         *)
LEMMA AnnouncedStays ==
  ASSUME UNCHANGED sessions,
         \A i \in DOMAIN writes : i \in DOMAIN writes' /\ writes'[i] = writes[i]
  PROVE  Unannounced' \subseteq Unannounced
<1>1. ASSUME NEW id \in DOMAIN sessions, Announced(sessions[id])
      PROVE  Announced(sessions[id])'
  BY <1>1 DEF Announced
<1> QED
  BY <1>1 DEF Unannounced

(* Steps that create nothing leave every Reply2 backed and every session    *)
(* announced.                                                               *)
LEMMA InPlaceBacked ==
  ASSUME Loop, RepliesInv, HandledInPlace
  PROVE  BackedInv' /\ FullInv' /\ AnnouncedInv' /\ LastInv'
<1>1. /\ UNCHANGED <<sessions, sockOpen, phase>> /\ phase = "recievePacket" /\ msg' = Undefined
  BY InPlaceFacts, AnswerFacts DEF Return, Take, At
<1>2. /\ \A i \in DOMAIN writes : i \in DOMAIN writes' /\ writes'[i] = writes[i]
      /\ \A i \in DOMAIN writes' : i \in DOMAIN writes \/ writes'[i].reply # "OpenConnectionReply2"
  <2>1. CASE writes' = writes
    BY <2>1
  <2>2. ASSUME NEW reply \in Replies \ {"OpenConnectionReply2"},
               writes' = Append(writes, [reply |-> reply, to |-> rinfo, mtuSize |-> 0, cause |-> msg])
        PROVE  /\ \A i \in DOMAIN writes : i \in DOMAIN writes' /\ writes'[i] = writes[i]
               /\ \A i \in DOMAIN writes' : i \in DOMAIN writes \/ writes'[i].reply # "OpenConnectionReply2"
    <3>1. 0 \in Mtus /\ reply \in Replies
      BY DEF Mtus
    <3> QED
      BY <2>2, <3>1, WritesGrow
  <2> QED
    BY <2>1, <2>2, InPlaceFacts
<1>3. BackedInv'
  BY <1>1, <1>2 DEF RepliesInv, BackedInv
<1>4. FullInv' /\ AnnouncedInv'
  BY <1>1 DEF FullInv, AnnouncedInv
<1>5. LastInv'
  BY <1>1, <1>2, AnnouncedStays DEF RepliesInv, LastInv
<1> QED
  BY <1>3, <1>4, <1>5

(* A new OpenConnectionReply2 is the last reply and backed by the           *)
(* createSession call it precedes; with the socket closed there is none.    *)
LEMMA AcceptBacked ==
  ASSUME Loop, RepliesInv, AcceptRequest2
  PROVE  BackedInv' /\ FullInv' /\ AnnouncedInv' /\ LastInv'
<1>1. /\ UNCHANGED <<sessions, sockOpen, running>> /\ phase = "recievePacket"
      /\ phase' = "createSession" /\ msg # Undefined /\ running
      /\ pending'.address = rinfo /\ pending'.mtuSize \in Mtus
  BY AcceptFacts, AnswerFacts DEF Request2, Take, At
<1>2. Unannounced = {}
  BY <1>1 DEF RepliesInv, LastInv
<1>3. FullInv'
  BY <1>1 DEF FullInv
<1>4. CASE ~sockOpen
  <2>1. writes' = writes
    BY <1>4, AcceptFacts
  <2>2. Unannounced' = {}
    BY <1>1, <1>2, <2>1, AnnouncedStays
  <2>3. BackedInv'
    BY <1>1, <2>1 DEF RepliesInv, BackedInv
  <2> QED
    BY <1>1, <1>3, <1>4, <2>2, <2>3 DEF AnnouncedInv, LastInv
<1>5. CASE sockOpen
  <2> DEFINE last == Len(writes) + 1
  <2>1. writes' = Append(writes, [reply |-> "OpenConnectionReply2", to |-> rinfo,
                                  mtuSize |-> pending'.mtuSize, cause |-> msg])
    BY <1>5, AcceptFacts
  <2>2. /\ last \in DOMAIN writes' /\ DOMAIN writes' = DOMAIN writes \cup {last}
        /\ writes'[last].reply = "OpenConnectionReply2"
        /\ writes'[last].to = rinfo /\ writes'[last].mtuSize = pending'.mtuSize
        /\ \A i \in DOMAIN writes : i \in DOMAIN writes' /\ writes'[i] = writes[i]
    BY <1>1, <2>1, WritesGrow DEF Replies
  <2>3. Len(writes') = last
    BY <2>1 DEF Loop, TypeOK
  <2> HIDE DEF last
  <2>4. Unannounced' = {}
    BY <1>1, <1>2, <2>2, AnnouncedStays
  <2>5. Announced(pending)'
    BY <1>1, <2>2 DEF Announced
  <2>6. BackedInv'
    BY <1>1, <2>2, <2>3 DEF RepliesInv, BackedInv
  <2> QED
    BY <1>3, <2>4, <2>5, <2>6 DEF AnnouncedInv, LastInv
<1> QED
  BY <1>4, <1>5

(* createSession turns the pending call that backs a reply into a session.  *)
LEMMA CreateBacked ==
  ASSUME Loop, Tables, RepliesInv, CreateSession
  PROVE  RepliesInv'
<1>1. /\ UNCHANGED <<writes, msg, arrivals, sockOpen>> /\ phase = "createSession" /\ msg = Undefined
      /\ phase' = "recievePacket" /\ nextSessionId \notin DOMAIN sessions
  BY CreateSessionFacts DEF CreateSession, At, sockVars, IdTaken
<1>2. /\ DOMAIN sessions' = DOMAIN sessions \cup {nextSessionId}
      /\ sessions'[nextSessionId].address = pending.address
      /\ sessions'[nextSessionId].mtuSize = pending.mtuSize
      /\ sessions'[nextSessionId].clientId = pending.clientId
      /\ \A id \in DOMAIN sessions : sessions'[id] = sessions[id]
  BY <1>1, CreateSessionFacts
<1>3. CauseInv' /\ AnsweredInOrderOnce' /\ AnnouncedInv' /\ FullInv'
  BY <1>1 DEF RepliesInv, CauseInv, AnsweredInOrderOnce, AnnouncedInv, FullInv
<1>4. NoCrossTalk'
  BY <1>1, <1>2 DEF RepliesInv, NoCrossTalk, Tables, PendingInv
<1>5. BackedInv'
  BY <1>1, <1>2 DEF RepliesInv, BackedInv
<1>6. Unannounced = {}
  BY <1>1 DEF RepliesInv, LastInv
<1>7. \A id \in DOMAIN sessions : Announced(sessions[id])'
  <2>1. \A id \in DOMAIN sessions : Announced(sessions[id])
    BY <1>6 DEF Unannounced
  <2> QED
    BY <1>1, <1>2, <2>1 DEF Announced
<1>8. Unannounced' \subseteq {nextSessionId}
  BY <1>2, <1>7 DEF Unannounced
<1>9. CASE Announced(pending)
  <2>1. Announced(sessions[nextSessionId])' \/ nextSessionId' # nextSessionId
    BY <1>1, <1>2, <1>9 DEF Announced
  <2>2. nextSessionId' = nextSessionId
    BY DEF CreateSession
  <2>3. Unannounced' = {}
    BY <1>8, <2>1, <2>2 DEF Unannounced
  <2> QED
    BY <1>3, <1>4, <1>5, <2>3 DEF RepliesInv, LastInv
<1>10. CASE ~sockOpen
  <2>1. LastInv'
    BY <1>1, <1>8, <1>10 DEF LastInv
  <2> QED
    BY <1>3, <1>4, <1>5, <2>1 DEF RepliesInv
<1> QED
  BY <1>1, <1>9, <1>10 DEF RepliesInv, AnnouncedInv

(* A process that has ended stays as it is.                                 *)
LEMMA EndedStays == [Next]_vars /\ ~running => UNCHANGED vars
  BY DEF Next, Environment, Message, PushCommand, SocketError, HandlePacket, Callback, StartTick,
         RecieveStream, RecievePacket, PacketLoopEnds, SessionPacket, IgnoreRaw, CutShortThrows,
         EncodeThrows, AnswerPing, AnswerRequest1, RejectRequest2, AcceptRequest2, Offline, Take,
         CreateSteps, CheckSessionsThrows, SkipSessionId, CreateSession, Tick, At

(* Every step keeps replies, sessions and the pending call accounted for.   *)
LEMMA RepliesStep == Loop /\ Tables /\ RepliesInv /\ [Next]_vars => RepliesInv'
<1> SUFFICES ASSUME Loop, Tables, RepliesInv, [Next]_vars PROVE RepliesInv'
  OBVIOUS
<1>1. CASE CreateSession
  BY <1>1, CreateBacked
<1>2. CASE AcceptRequest2
  BY <1>2, AcceptBacked, AnswerOrder DEF RepliesInv
<1>3. CASE HandledInPlace
  BY <1>3, InPlaceBacked, AnswerOrder DEF RepliesInv
<1>4. ASSUME NEW d \in Datagrams, Message(d) PROVE RepliesInv'
  <2>1. /\ UNCHANGED <<sessions, pending, writes, sockOpen, phase>> /\ sockOpen /\ phase = "idle"
        /\ arrivals' = arrivals + 1 /\ msg'.n = arrivals + 1 /\ arrivals \in Nat
    BY <1>4 DEF Message, tableVars, Loop, TypeOK
  <2>a. \A i \in DOMAIN writes : writes[i] \in Write
    BY DEF Loop, TypeOK
  <2>b. \A w \in Write : w.cause \in Arrival
    BY DEF Write
  <2>2. \A i \in DOMAIN writes : writes[i].cause.n \in Nat
    BY <2>a, <2>b DEF Arrival
  <2>3. CauseInv'
    BY <2>1, <2>2 DEF RepliesInv, CauseInv
  <2>4. LastInv'
    BY <2>1, AnnouncedStays DEF RepliesInv, LastInv
  <2> QED
    BY <2>1, <2>3, <2>4 DEF RepliesInv, NoCrossTalk, AnsweredInOrderOnce, BackedInv, FullInv, AnnouncedInv
<1>5. CASE /\ UNCHANGED <<sessions, sessionsByAddress, pending, writes, msg, arrivals>>
           /\ phase' = "createSession" <=> phase = "createSession"
           /\ sockOpen' => sockOpen
           /\ running' = running \/ CheckSessionsThrows
  <2>1. FullInv'
    BY <1>5 DEF RepliesInv, FullInv, CheckSessionsThrows, TableFull
  <2>2. Unannounced' = Unannounced /\ (Announced(pending)' <=> Announced(pending))
    BY <1>5 DEF Unannounced, Announced
  <2>3. AnnouncedInv' /\ LastInv'
    BY <1>5, <2>2 DEF RepliesInv, AnnouncedInv, LastInv
  <2> QED
    BY <1>5, <2>1, <2>3 DEF RepliesInv, CauseInv, NoCrossTalk, AnsweredInOrderOnce, BackedInv
<1> QED
  BY <1>1, <1>2, <1>3, <1>4, <1>5, StepKinds

(* Replies go to whom they answer, in order, once; and replies and sessions *)
(* account for each other, whatever the network delivers and when.          *)
THEOREM RepliesCorrect == Spec => []RepliesInv
  BY LoopCorrect, TablesCorrect, RepliesInit, RepliesStep, PTL DEF Spec

(* A reply goes to the sender of the datagram it answers, and a session     *)
(* joins the address and the clientID of one peer.                          *)
THEOREM NeverCrossTalk == Spec => []NoCrossTalk
<1>1. RepliesInv => NoCrossTalk
  BY DEF RepliesInv
<1> QED
  BY <1>1, RepliesCorrect, PTL

(* Datagrams are answered in the order of their arrival, and none of them   *)
(* twice.                                                                   *)
THEOREM AlwaysAnsweredInOrderOnce == Spec => []AnsweredInOrderOnce
<1>1. RepliesInv => AnsweredInOrderOnce
  BY DEF RepliesInv
<1> QED
  BY <1>1, RepliesCorrect, PTL

(* Whoever was sent an OpenConnectionReply2 has a session with that MTU,    *)
(* but for the last one, if createSession has not ended or found the table  *)
(* full.                                                                    *)
THEOREM RepliesAreBacked == Spec => []ReplyBacked
<1>1. RepliesInv => ReplyBacked
  BY DEF RepliesInv, BackedInv, FullInv, ReplyBacked
<1> QED
  BY <1>1, RepliesCorrect, PTL

(* Every session was announced to its peer with its MTU, but for one at     *)
(* most once the socket has been closed.                                    *)
THEOREM SessionsAreAnnounced == Spec => []SessionAnnounced
<1>1. RepliesInv => SessionAnnounced
  BY DEF RepliesInv, LastInv, SessionAnnounced
<1> QED
  BY <1>1, RepliesCorrect, PTL

-----------------------------------------------------------------------------
(* The bandwidth reports.                                                  *)

(* A queued byte is a report's place in the queue and a number.             *)
LEMMA QueuedByte ==
  ASSUME NEW q, NEW x
  PROVE  x \in QueuedBytes(q) <=> \E n \in DOMAIN q : \E k \in 1 .. q[n].down : x = <<n, k>>
  BY DEF QueuedBytes

(* A report of d bytes, at the place n, stands for d bytes.                 *)
LEMMA BytesOfReport ==
  ASSUME NEW n, NEW d \in Nat
  PROVE  IsFiniteSet({n} \X (1 .. d)) /\ Cardinality({n} \X (1 .. d)) = d
<1>1. IsFiniteSet(1 .. d) /\ Cardinality(1 .. d) = d
  BY FS_Interval
<1>2. IsFiniteSet({n}) /\ Cardinality({n}) = 1
  BY FS_Singleton
<1>3. IsFiniteSet({n} \X (1 .. d)) /\ Cardinality({n} \X (1 .. d)) = 1 * d
  BY <1>1, <1>2, FS_Product
<1> QED
  BY <1>3

(* A report put into the queue adds its own bytes.                          *)
LEMMA SumDownAppend ==
  ASSUME NEW q \in Seq(Report), NEW r \in Report, IsFiniteSet(QueuedBytes(q))
  PROVE  /\ IsFiniteSet(QueuedBytes(Append(q, r)))
         /\ SumDown(Append(q, r)) = SumDown(q) + r.down
<1> DEFINE last == Len(q) + 1
           S == QueuedBytes(q)
           T == {last} \X (1 .. r.down)
<1>1. r.down \in Nat /\ Len(q) \in Nat /\ DOMAIN q = 1 .. Len(q)
  BY DEF Report
<1>2. /\ DOMAIN Append(q, r) = DOMAIN q \cup {last} /\ Append(q, r)[last] = r
      /\ \A n \in DOMAIN q : Append(q, r)[n] = q[n]
  OBVIOUS
<1>3. QueuedBytes(Append(q, r)) = S \cup T
  BY <1>2 DEF QueuedBytes
<1>4. S \cap T = {}
  BY <1>1, QueuedByte
<1>5. IsFiniteSet(T) /\ Cardinality(T) = r.down
  BY <1>1, BytesOfReport
<1>6. IsFiniteSet(S \cup T) /\ Cardinality(S \cup T) = Cardinality(S) + Cardinality(T) - Cardinality(S \cap T)
  BY <1>5, FS_Union
<1>7. Cardinality(S \cap T) = 0 /\ Cardinality(S) \in Nat
  BY <1>4, FS_EmptySet, FS_CardinalityType
<1> HIDE DEF S, T
<1> QED
  BY <1>1, <1>3, <1>5, <1>6, <1>7 DEF SumDown, S

(* A report taken from the queue takes its own bytes.                       *)
LEMMA SumDownTail ==
  ASSUME NEW q \in Seq(Report), q # <<>>, IsFiniteSet(QueuedBytes(q))
  PROVE  /\ IsFiniteSet(QueuedBytes(Tail(q)))
         /\ SumDown(q) = SumDown(Tail(q)) + Head(q).down
<1> DEFINE first == {1} \X (1 .. q[1].down)
           S == QueuedBytes(Tail(q))
           T == QueuedBytes(q) \ first
           shift == [x \in T |-> <<x[1] - 1, x[2]>>]
<1>a. /\ Head(q) = q[1] /\ q[1] \in Report /\ Len(q) \in Nat \ {0}
      /\ DOMAIN q = 1 .. Len(q) /\ DOMAIN Tail(q) = 1 .. Len(q) - 1
      /\ \A n \in 1 .. Len(q) - 1 : Tail(q)[n] = q[n + 1]
  OBVIOUS
<1>1. q[1].down \in Nat
  BY <1>a DEF Report
<1>2. first \subseteq QueuedBytes(q)
  BY <1>a DEF QueuedBytes
<1>3. IsFiniteSet(first) /\ Cardinality(first) = Head(q).down
  BY <1>a, <1>1, BytesOfReport
<1>4. /\ IsFiniteSet(T)
      /\ Cardinality(T) = Cardinality(QueuedBytes(q)) - Cardinality(QueuedBytes(q) \cap first)
  BY FS_Difference
<1>5. QueuedBytes(q) \cap first = first
  BY <1>2
<1>6. ASSUME NEW x
      PROVE  x \in T <=> \E n \in 2 .. Len(q) : \E k \in 1 .. q[n].down : x = <<n, k>>
  <2>1. x \in first <=> \E k \in 1 .. q[1].down : x = <<1, k>>
    OBVIOUS
  <2>2. x \in QueuedBytes(q) <=> \E n \in 1 .. Len(q) : \E k \in 1 .. q[n].down : x = <<n, k>>
    BY ONLY <1>a, QueuedByte
  <2>3. \A n \in 1 .. Len(q) : n = 1 \/ n \in 2 .. Len(q)
    BY <1>a
  <2>4. \A n \in 2 .. Len(q) : n \in 1 .. Len(q) /\ n # 1
    BY <1>a
  <2>5. x \in T <=> x \in QueuedBytes(q) /\ x \notin first
    OBVIOUS
  <2> HIDE DEF T, first
  <2> QED
    BY ONLY <2>1, <2>2, <2>3, <2>4, <2>5
<1>7. ASSUME NEW x
      PROVE  x \in S <=> \E n \in 2 .. Len(q) : \E k \in 1 .. q[n].down : x = <<n - 1, k>>
  <2>1. x \in S <=> \E n \in 1 .. Len(q) - 1 : \E k \in 1 .. Tail(q)[n].down : x = <<n, k>>
    <3>1. x \in S <=> \E n \in DOMAIN Tail(q) : \E k \in 1 .. Tail(q)[n].down : x = <<n, k>>
      BY DEF QueuedBytes
    <3> HIDE DEF S
    <3> QED
      BY ONLY <1>a, <3>1
  <2>2. x \in S <=> \E n \in 1 .. Len(q) - 1 : \E k \in 1 .. q[n + 1].down : x = <<n, k>>
    <3>1. \A n \in 1 .. Len(q) - 1 : Tail(q)[n].down = q[n + 1].down
      BY <1>a
    <3> HIDE DEF S
    <3> QED
      BY ONLY <2>1, <3>1
  <2>3. \A n \in 2 .. Len(q) : n - 1 \in 1 .. Len(q) - 1 /\ (n - 1) + 1 = n
    BY <1>a
  <2>4. \A n \in 1 .. Len(q) - 1 : n + 1 \in 2 .. Len(q) /\ (n + 1) - 1 = n
    BY <1>a
  <2> HIDE DEF S
  <2>5. ASSUME NEW n \in 1 .. Len(q) - 1, NEW k \in 1 .. q[n + 1].down, x = <<n, k>>
        PROVE  \E m \in 2 .. Len(q) : \E l \in 1 .. q[m].down : x = <<m - 1, l>>
    <3>1. n + 1 \in 2 .. Len(q) /\ (n + 1) - 1 = n
      BY <2>4
    <3> QED
      BY <2>5, <3>1
  <2>6. ASSUME NEW n \in 2 .. Len(q), NEW k \in 1 .. q[n].down, x = <<n - 1, k>>
        PROVE  \E m \in 1 .. Len(q) - 1 : \E l \in 1 .. q[m + 1].down : x = <<m, l>>
    <3>1. n - 1 \in 1 .. Len(q) - 1 /\ (n - 1) + 1 = n
      BY <2>3
    <3> QED
      BY <2>6, <3>1
  <2> QED
    BY <2>2, <2>5, <2>6
<1>8. ExistsBijection(T, S)
  <2> HIDE DEF S, T, first
  <2>1. \A x \in T : shift[x] \in S
    BY <1>6, <1>7
  <2>2. ASSUME NEW x \in T, NEW y \in T, shift[x] = shift[y]
        PROVE  x = y
    <3>1. PICK n \in 2 .. Len(q) : \E k \in 1 .. q[n].down : x = <<n, k>>
      BY <1>6
    <3>2. PICK m \in 2 .. Len(q) : \E l \in 1 .. q[m].down : y = <<m, l>>
      BY <1>6
    <3>3. n - 1 = m - 1 /\ x[2] = y[2]
      BY <2>2, <3>1, <3>2
    <3> QED
      BY <1>a, <3>1, <3>2, <3>3
  <2>3. ASSUME NEW y \in S
        PROVE  \E x \in T : shift[x] = y
    <3>1. PICK n \in 2 .. Len(q) : \E k \in 1 .. q[n].down : y = <<n - 1, k>>
      BY <1>7
    <3>2. PICK k \in 1 .. q[n].down : y = <<n - 1, k>>
      BY <3>1
    <3>3. <<n, k>> \in T
      BY <1>6
    <3> QED
      BY <3>2, <3>3
  <2>4. shift \in [T -> S]
    BY <2>1
  <2>5. shift \in Bijection(T, S)
    <3> HIDE DEF shift
    <3> QED
      BY <2>2, <2>3, <2>4 DEF Bijection, Injection, Surjection, IsInjective
  <2> QED
    BY <2>5 DEF ExistsBijection
<1>9. IsFiniteSet(S) /\ Cardinality(S) = Cardinality(T)
  <2> HIDE DEF S, T
  <2> QED
    BY <1>4, <1>8, FS_Bijection
<1>10. Cardinality(QueuedBytes(q)) \in Nat
  BY FS_CardinalityType
<1>11. Cardinality(S) = Cardinality(QueuedBytes(q)) - Head(q).down
  BY <1>3, <1>4, <1>5, <1>9
<1> QED
  BY <1>a, <1>1, <1>9, <1>10, <1>11 DEF SumDown

(* The bytes of the queued reports can be counted, and with them the bytes  *)
(* taken in.                                                                *)
BytesInv == IsFiniteSet(QueuedBytes(externalQueue)) /\ BytesConserved

(* Nothing is taken in and nothing is queued at the start.                  *)
LEMMA BytesInit == Init => BytesInv
<1> SUFFICES ASSUME Init PROVE BytesInv
  OBVIOUS
<1>1. externalQueue = <<>> /\ taken = 0 /\ recieveBytes = 0 /\ delivered = 0
  BY DEF Init
<1>2. QueuedBytes(externalQueue) = {}
  <2>1. DOMAIN externalQueue = {}
    BY <1>1
  <2> QED
    BY <2>1 DEF QueuedBytes
<1>3. IsFiniteSet({}) /\ Cardinality({}) = 0
  BY FS_EmptySet
<1>4. IsFiniteSet(QueuedBytes(externalQueue)) /\ SumDown(externalQueue) = 0
  BY ONLY <1>2, <1>3 DEF SumDown
<1>5. taken = 0 /\ recieveBytes = 0 /\ delivered = 0
  BY <1>1
<1> QED
  BY ONLY <1>4, <1>5 DEF BytesInv, BytesConserved

(* The steps that move a byte, and the rest.                                *)
LEMMA BytesKinds ==
  ASSUME [Next]_vars
  PROVE  \/ Take
         \/ HandlePacket
         \/ Tick
         \/ UNCHANGED <<taken, recieveBytes, externalQueue, delivered>>
<1> USE DEF statVars, queueVars
<1>1. ASSUME NEW d \in Datagrams, Message(d) PROVE UNCHANGED <<taken, recieveBytes, externalQueue, delivered>>
  BY <1>1 DEF Message
<1>2. ASSUME NEW c \in Commands, PushCommand(c) PROVE UNCHANGED <<taken, recieveBytes, externalQueue, delivered>>
  BY <1>2 DEF PushCommand
<1>3. CASE SocketError \/ StartTick \/ RecieveStream \/ PacketLoopEnds
  BY <1>3 DEF SocketError, StartTick, RecieveStream, PacketLoopEnds
<1>4. CASE CreateSteps
  BY <1>4 DEF CreateSteps, CheckSessionsThrows, SkipSessionId, CreateSession
<1>5. CASE HandledInPlace \/ AcceptRequest2
  BY <1>5 DEF HandledInPlace, SessionPacket, IgnoreRaw, CutShortThrows, EncodeThrows,
             AnswerPing, AnswerRequest1, RejectRequest2, AcceptRequest2, Offline
<1>6. CASE UNCHANGED vars
  BY <1>6 DEF vars
<1> QED
  BY <1>1, <1>2, <1>3, <1>4, <1>5, <1>6 DEF Next, Environment, Callback, RecievePacket, HandledInPlace

(* No step loses a byte or counts it twice.                                 *)
LEMMA BytesStep == Loop /\ BytesInv /\ [Next]_vars => BytesInv'
<1> SUFFICES ASSUME Loop, BytesInv, [Next]_vars PROVE BytesInv'
  OBVIOUS
<1>a. /\ taken \in Nat /\ recieveBytes \in Nat /\ delivered \in Nat /\ sendBytes \in {"0", "NaN"}
      /\ externalQueue \in Seq(Report)
  BY DEF Loop, TypeOK
<1>b. /\ IsFiniteSet(QueuedBytes(externalQueue)) /\ SumDown(externalQueue) \in Nat
      /\ taken = recieveBytes + SumDown(externalQueue) + delivered
  BY FS_CardinalityType DEF BytesInv, BytesConserved, SumDown
<1>1. CASE Take
  <2>1. recieveBytes' = recieveBytes + 1 /\ taken' = taken + 1 /\ UNCHANGED <<externalQueue, delivered>>
    BY <1>1, TakeFacts DEF Take, queueVars
  <2> QED
    BY <1>a, <1>b, <2>1 DEF BytesInv, BytesConserved
<1>2. CASE HandlePacket
  <2>1. /\ externalQueue # <<>> /\ externalQueue' = Tail(externalQueue)
        /\ delivered' = delivered + Head(externalQueue).down /\ UNCHANGED <<taken, recieveBytes>>
    BY <1>2 DEF HandlePacket, statVars
  <2>2. Head(externalQueue) \in Report
    BY <1>a, <2>1
  <2>3. Head(externalQueue).down \in Nat
    BY <2>2 DEF Report
  <2>4. /\ IsFiniteSet(QueuedBytes(externalQueue'))
        /\ SumDown(externalQueue) = SumDown(externalQueue') + Head(externalQueue).down
    BY <1>a, <1>b, <2>1, SumDownTail
  <2>5. SumDown(externalQueue') \in Nat
    BY <2>4, FS_CardinalityType DEF SumDown
  <2> QED
    BY <1>a, <1>b, <2>1, <2>3, <2>4, <2>5, SMTT(30) DEF BytesInv, BytesConserved
<1>3. CASE Tick
  <2>1. UNCHANGED <<taken, delivered>>
    BY <1>3 DEF Tick
  <2>2. CASE UNCHANGED <<recieveBytes, externalQueue>>
    BY <2>1, <2>2 DEF BytesInv, BytesConserved
  <2> DEFINE report == [up |-> sendBytes, down |-> recieveBytes]
  <2>3. CASE recieveBytes' = 0 /\ externalQueue' = Append(externalQueue, report)
    <3>1. report \in Report /\ report.down = recieveBytes
      BY <1>a DEF Report
    <3>2. /\ IsFiniteSet(QueuedBytes(externalQueue'))
          /\ SumDown(externalQueue') = SumDown(externalQueue) + recieveBytes
      BY <1>a, <1>b, <2>3, <3>1, SumDownAppend
    <3> QED
      BY <1>a, <1>b, <2>1, <2>3, <3>2 DEF BytesInv, BytesConserved
  <2> QED
    BY <1>3, <2>2, <2>3 DEF Tick, ResetBytes
<1>4. CASE UNCHANGED <<taken, recieveBytes, externalQueue, delivered>>
  BY <1>4 DEF BytesInv, BytesConserved
<1> QED
  BY <1>1, <1>2, <1>3, <1>4, BytesKinds

(* Every byte taken in is not yet reported, in a queued report or in one    *)
(* the embedder has polled: never in two of these, never in none.           *)
THEOREM BytesAlwaysConserved == Spec => []BytesConserved
<1>1. BytesInv => BytesConserved
  BY DEF BytesInv
<1> QED
  BY <1>1, BytesInit, BytesStep, LoopCorrect, PTL DEF Spec

-----------------------------------------------------------------------------
(* The end of the process, the MTU and the refinement.                     *)

(* While createSession runs, the stream holds the request it is for.        *)
RequestInv ==
  phase = "createSession" =>
    /\ stream # <<>> /\ Head(stream).datagram.pid = "OpenConnectionRequest2"
    /\ Head(stream).datagram.from = pending.address

ExitInv == ExitHasCause /\ RequestInv

(* A datagram that ends the process at once is cut short or a request over  *)
(* IPv6, of a peer without a session.                                       *)
LEMMA ThrowCause ==
  ASSUME Loop, CutShortThrows \/ EncodeThrows
  PROVE  LET d == Head(stream').datagram IN
           /\ stream' # <<>> /\ IpOf[d.from] \notin DOMAIN sessionsByAddress'
           /\ \/ d.pid \notin {"Connected", "Unpooled"} /\ ~d.complete
              \/ d.pid = "OpenConnectionRequest2" /\ SocketVersion = 6
<1>1. Take /\ ~SessionKnown
  BY DEF CutShortThrows, EncodeThrows, Offline
<1>2. stream' = Buffer /\ Buffer # <<>> /\ sessionsByAddress' = sessionsByAddress
  BY <1>1 DEF Take, tableVars
<1>3. Received = Head(Buffer).datagram /\ rinfo = Received.from
  BY <1>1, TakeFacts DEF Received
<1>4. \/ Received.pid \notin {"Connected", "Unpooled"} /\ ~Received.complete
      \/ Received.pid = "OpenConnectionRequest2" /\ SocketVersion = 6
  BY DEF CutShortThrows, EncodeThrows, Offline
<1> QED
  BY <1>1, <1>2, <1>3, <1>4 DEF SessionKnown

(* Only createSession adds a session, and only below the limit; what ends   *)
(* the process leaves its datagram in the stream.                           *)
LEMMA ExitStep == Loop /\ Tables /\ ExitInv /\ [Next]_vars => ExitInv'
<1> SUFFICES ASSUME Loop, Tables, ExitInv, [Next]_vars PROVE ExitInv'
  OBVIOUS
<1> USE DEF ExitInv
<1>a. /\ SessionLimit \in Nat /\ Cardinality(DOMAIN sessions) \in Nat
      /\ IsFiniteSet(DOMAIN sessions) /\ Cardinality(DOMAIN sessions) <= SessionLimit + 1
  BY ConstantsAssumption, FS_CardinalityType DEF Tables, SizeInv, ExitHasCause
<1>0. CASE ~running
  <2>1. UNCHANGED <<running, stream, phase, pending, sessions, sessionsByAddress>>
    BY <1>0, EndedStays DEF vars, tableVars
  <2> QED
    BY <2>1 DEF ExitHasCause, RequestInv, TableFull
<1>1. CASE CreateSession
  <2>1. /\ nextSessionId \notin DOMAIN sessions /\ running' = running /\ running
        /\ Cardinality(DOMAIN sessions) <= SessionLimit /\ phase' # "createSession"
    BY <1>1, <1>a DEF CreateSession, At, IdTaken, TableFull
  <2>2. DOMAIN sessions' = DOMAIN sessions \cup {nextSessionId}
    BY <1>1, CreateSessionFacts
  <2>3. Cardinality(DOMAIN sessions') = Cardinality(DOMAIN sessions) + 1
    BY <1>a, <2>1, <2>2, FS_AddElement
  <2> QED
    BY <1>a, <2>1, <2>3 DEF ExitHasCause, RequestInv
<1>2. CASE AcceptRequest2
  <2>1. UNCHANGED <<sessions, running>> /\ running /\ Take /\ pending'.address = rinfo
    BY <1>2, AcceptFacts, AnswerFacts DEF Take, At
  <2>2. stream' = Buffer /\ Buffer # <<>> /\ Received = Head(Buffer).datagram /\ rinfo = Received.from
    BY <2>1, TakeFacts DEF Take, Received
  <2>3. Received.pid = "OpenConnectionRequest2"
    BY <1>2 DEF AcceptRequest2, Offline
  <2> QED
    BY <1>a, <2>1, <2>2, <2>3 DEF ExitHasCause, RequestInv
<1>3. CASE HandledInPlace
  <2>1. UNCHANGED sessions /\ phase' # "createSession"
    BY <1>3, InPlaceFacts, AnswerFacts DEF Take, Return, At
  <2>2. CASE running' = TRUE
    BY <1>a, <2>1, <2>2 DEF ExitHasCause, RequestInv
  <2>3. CASE CutShortThrows \/ EncodeThrows
    BY <1>a, <2>1, <2>3, ThrowCause DEF ExitHasCause, RequestInv
  <2> QED
    BY <1>3, <2>2, <2>3, InPlaceFacts
<1>4. CASE CheckSessionsThrows
  <2>1. /\ UNCHANGED <<stream, phase, pending, sessions, sessionsByAddress>>
        /\ phase = "createSession" /\ TableFull
    BY <1>4 DEF CheckSessionsThrows, At, tableVars
  <2>2. TableFull' /\ Cardinality(DOMAIN sessions') = Cardinality(DOMAIN sessions)
    BY <2>1 DEF TableFull
  <2>3. IpOf[Head(stream).datagram.from] \notin DOMAIN sessionsByAddress
    BY <2>1 DEF RequestInv, Tables, PendingInv
  <2> QED
    BY <1>a, <2>1, <2>2, <2>3 DEF ExitHasCause, RequestInv
<1>5. CASE /\ UNCHANGED <<running, sessions, sessionsByAddress, pending>>
           /\ phase' = "createSession" => phase = "createSession" /\ stream' = stream
           /\ running
  BY <1>a, <1>5 DEF ExitHasCause, RequestInv
<1>6. SkipSessionId => UNCHANGED <<running, sessions, sessionsByAddress, pending, stream, phase>>
  BY DEF SkipSessionId
<1>7. StartTick \/ RecieveStream \/ PacketLoopEnds \/ Tick
        => UNCHANGED <<running, sessions, sessionsByAddress, pending>> /\ phase' # "createSession"
  BY DEF StartTick, RecieveStream, PacketLoopEnds, Tick, tableVars
<1>8. Environment => UNCHANGED <<running, sessions, sessionsByAddress, pending, stream, phase>>
  BY DEF Environment, Message, SocketError, PushCommand, HandlePacket, tableVars
<1>9. UNCHANGED vars => UNCHANGED <<running, sessions, sessionsByAddress, pending, stream, phase>>
  BY DEF vars, tableVars
<1>10. CASE running
  BY <1>1, <1>2, <1>3, <1>4, <1>5, <1>6, <1>7, <1>8, <1>9, <1>10
     DEF Next, Callback, RecievePacket, CreateSteps, HandledInPlace
<1> QED
  BY <1>0, <1>10

(* However much traffic there is, the process ends only over a datagram of  *)
(* a peer without a session: one cut short, a request granted over IPv6, or *)
(* the request of the (SessionLimit + 2)nd connection.                      *)
THEOREM ExitsHaveCause == Spec => []ExitHasCause
<1>1. Init => ExitInv
  BY ConstantsAssumption, FS_EmptySet DEF Init, EmptyMap, ExitInv, ExitHasCause, RequestInv
<1>2. ExitInv => ExitHasCause
  BY DEF ExitInv
<1> QED
  BY <1>1, <1>2, ExitStep, LoopCorrect, TablesCorrect, PTL DEF Spec

(* The MTU of the createSession call under way and of every session.        *)
MtuInv ==
  /\ MtuAtLeastMin
  /\ phase = "createSession" /\ pending.mtuSize # Undefined => pending.mtuSize >= MIN_MTU_SIZE

(* A session's MTU is the one granted, which is no smaller than the smaller *)
(* of request and server maximum.                                           *)
LEMMA MtuStep ==
  ASSUME MaxMtuSize >= MIN_MTU_SIZE
  PROVE  Loop /\ Tables /\ MtuInv /\ [Next]_vars => MtuInv'
<1> SUFFICES ASSUME Loop, Tables, MtuInv, [Next]_vars PROVE MtuInv'
  OBVIOUS
<1> USE DEF MtuInv, MtuAtLeastMin
<1>1. CASE CreateSession
  <2>1. phase = "createSession" /\ phase' # "createSession" /\ nextSessionId \notin DOMAIN sessions
    BY <1>1 DEF CreateSession, At, IdTaken
  <2> QED
    BY <1>1, <2>1, CreateSessionFacts
<1>2. CASE AcceptRequest2
  <2>1. /\ UNCHANGED sessions /\ pending'.mtuSize = MtuFor(msg.datagram.mtuSize)
        /\ ~MtuTooSmall(msg.datagram.mtuSize)
    BY <1>2, AcceptFacts, AnswerFacts
  <2>2. msg.datagram.mtuSize \in Mtus /\ MaxMtuSize \in Nat
    BY <1>2, AcceptFacts, TakeFacts, ConstantsAssumption DEF Datagram
  <2> QED
    BY <2>1, <2>2 DEF MtuFor, MtuTooSmall, MIN_MTU_SIZE, Mtus
<1>3. CASE HandledInPlace
  <2>1. UNCHANGED <<sessions, phase>> /\ phase = "recievePacket"
    BY <1>3, InPlaceFacts, AnswerFacts DEF Return, Take, At
  <2> QED
    BY <2>1
<1>4. ASSUME NEW d \in Datagrams, Message(d) PROVE MtuInv'
  BY <1>4 DEF Message, tableVars
<1>5. CASE /\ UNCHANGED <<sessions, pending>>
           /\ phase' = "createSession" <=> phase = "createSession"
  BY <1>5
<1> QED
  BY <1>1, <1>2, <1>3, <1>4, <1>5, StepKinds

(* What the assertion in Session's constructor asks of a session's MTU, if  *)
(* it is a number, holds if the server is configured with an MTU of at      *)
(* least 400 itself.                                                        *)
THEOREM SessionsHaveMinMtu ==
  ASSUME MaxMtuSize >= MIN_MTU_SIZE
  PROVE  Spec => []MtuAtLeastMin
<1>1. Init => MtuInv
  BY DEF Init, EmptyMap, MtuInv, MtuAtLeastMin
<1>2. MtuInv => MtuAtLeastMin
  BY DEF MtuInv
<1> QED
  BY <1>1, <1>2, MtuStep, LoopCorrect, TablesCorrect, PTL DEF Spec

(* ConnectionTable brings in a Cardinality of its own, which is the same.   *)
LEMMA SameCardinality == \A S : CT!Cardinality(S) = Cardinality(S)
  BY DEF CT!Cardinality, Cardinality

(* Every step admits one connection, dies, or changes neither the           *)
(* table nor running.                                                       *)
LEMMA RefinesStep ==
  Loop /\ Tables /\ [Next]_vars => [CT!Next]_<<sessionsByAddress, running>>
<1> SUFFICES ASSUME Loop, Tables, [Next]_vars
             PROVE  CT!Next \/ UNCHANGED <<sessionsByAddress, running>>
  OBVIOUS
<1>a. Cardinality(DOMAIN sessionsByAddress) = Cardinality(DOMAIN sessions)
      /\ Cardinality(DOMAIN sessions) \in Nat /\ SessionLimit \in Nat
  BY ConstantsAssumption, FS_CardinalityType DEF Tables, SizeInv
<1>b. CT!Room <=> ~TableFull
  BY <1>a, SameCardinality DEF CT!Room, TableFull
<1>1. CASE CreateSession
  <2> DEFINE ip == IpOf[pending.address]
  <2>1. /\ running /\ running' = running
        /\ nextSessionId \notin DOMAIN sessions /\ ip \notin DOMAIN sessionsByAddress
        /\ ip \in Ips /\ CT!Room
    BY <1>1, <1>b, CreateSessionFacts
       DEF CreateSession, At, IdTaken, Tables, PendingInv
  <2>2. /\ DOMAIN sessionsByAddress' = DOMAIN sessionsByAddress \cup {ip}
        /\ sessionsByAddress'[ip] = NewSession /\ NewSession \in Session
        /\ SessionIp(NewSession) = ip /\ NewSession.internalId = nextSessionId
        /\ sessionsByAddress' = [l \in DOMAIN sessionsByAddress' |-> sessionsByAddress'[l]]
        /\ \A l \in DOMAIN sessionsByAddress : sessionsByAddress'[l] = sessionsByAddress[l]
    BY <1>1, <2>1, CreateSessionFacts DEF SessionIp
  <2>3. \A l \in DOMAIN sessionsByAddress : sessionsByAddress[l].internalId # nextSessionId
    BY <2>1 DEF Tables, TablesAgree
  <2>4. CT!Admit(ip)
    BY <2>1, <2>2, <2>3 DEF CT!Admit
  <2> QED
    BY <2>1, <2>4 DEF CT!Next
<1>2. CASE AcceptRequest2
  BY <1>2, AcceptFacts DEF Take, tableVars
<1>3. CASE HandledInPlace
  <2>1. sessionsByAddress' = sessionsByAddress /\ running = TRUE /\ running' \in BOOLEAN
    BY <1>3, InPlaceFacts DEF Take, tableVars
  <2>2. running' = FALSE => CT!Die
    BY <2>1 DEF CT!Die
  <2> QED
    BY <2>1, <2>2 DEF CT!Next
<1>4. ASSUME NEW d \in Datagrams, Message(d) PROVE UNCHANGED <<sessionsByAddress, running>>
  BY <1>4 DEF Message, tableVars
<1>5. CASE UNCHANGED sessionsByAddress /\ (running' = running \/ CheckSessionsThrows)
  <2>1. CASE CheckSessionsThrows
    <3>1. CT!Die
      BY <2>1, <1>5 DEF CheckSessionsThrows, At, CT!Die
    <3> QED
      BY <3>1 DEF CT!Next
  <2> QED
    BY <1>5, <2>1
<1> QED
  BY <1>1, <1>2, <1>3, <1>4, <1>5, StepKinds

(* The server's two maps, its id counter and its handshake implement the    *)
(* one table of ConnectionTable.                                            *)
THEOREM Refinement == Spec => RefinesConnectionTable
<1>1. Init => CT!Init
  BY DEF Init, EmptyMap, CT!Init
<1> QED
  BY <1>1, RefinesStep, LoopCorrect, TablesCorrect, PTL
     DEF Spec, RefinesConnectionTable, CT!Spec

-----------------------------------------------------------------------------
(* The length of a callback.                                               *)

(* The ids in use are the first ones, without a gap, and nextSessionId is   *)
(* the last of them; it is the one after it only while createSession runs.  *)
IdsInv ==
  LET size == Cardinality(DOMAIN sessions) IN
    /\ DOMAIN sessions = 0 .. size - 1
    /\ \/ nextSessionId = size - 1
       \/ nextSessionId = size /\ (size = 0 \/ phase = "createSession")

\* The most steps the callback can still take.
StepsLeft ==
  CASE phase = "idle"           -> 0
    [] phase = "tick"           -> 1
    [] phase = "recievePacket"  -> IF msg # Undefined THEN 5 ELSE 2
    [] phase = "createSession"  -> IF IdTaken THEN 4 ELSE 3
    [] phase = "recieveStream"  -> 6

\* Nothing comes between the steps of a callback, and each takes it nearer to its end,
\* unless it ends the process.
CallbackAdvances == phase # "idle" => StepsLeft' < StepsLeft \/ (running /\ ~running')

(* The set of the first ids.                                                *)
LEMMA FirstIds ==
  ASSUME NEW k \in Nat
  PROVE  /\ IsFiniteSet(0 .. k - 1) /\ Cardinality(0 .. k - 1) = k
         /\ (0 .. k - 1) \cup {k} = 0 .. k
<1>1. IsFiniteSet(0 .. k - 1) /\ Cardinality(0 .. k - 1) = k
  BY FS_Interval
<1>2. (0 .. k - 1) \cup {k} = 0 .. k
  OBVIOUS
<1> QED
  BY <1>1, <1>2

(* An id that is taken is the last one given; the next is free.             *)
LEMMA SkipFacts ==
  ASSUME Loop, Tables, IdsInv, SkipSessionId
  PROVE  /\ sessions' = sessions /\ phase = "createSession" /\ phase' = phase
         /\ nextSessionId' = Cardinality(DOMAIN sessions) /\ nextSessionId' \notin DOMAIN sessions
<1> DEFINE size == Cardinality(DOMAIN sessions)
<1>a. /\ IsFiniteSet(DOMAIN sessions) /\ size \in Nat
      /\ SessionLimit \in Nat /\ IdModulus \in Nat /\ IdModulus > SessionLimit + 1
  BY ConstantsAssumption, FS_CardinalityType DEF Tables, SizeInv
<1>b. /\ DOMAIN sessions = 0 .. size - 1
      /\ nextSessionId = size - 1 \/ (nextSessionId = size /\ (size = 0 \/ phase = "createSession"))
  BY DEF IdsInv
<1>1. /\ sessions' = sessions /\ phase' = "createSession"
      /\ nextSessionId \in DOMAIN sessions /\ size <= SessionLimit
      /\ nextSessionId' = (nextSessionId + 1) % IdModulus
  BY <1>a DEF SkipSessionId, At, IdTaken, TableFull, IdAfter
<1> HIDE DEF size
<1>2. nextSessionId = size - 1
  BY <1>a, <1>b, <1>1
<1>3. size % IdModulus = size
  BY <1>a, <1>1
<1>4. nextSessionId' = size
  BY <1>a, <1>1, <1>2, <1>3
<1>5. size \notin 0 .. size - 1
  BY <1>a
<1> QED
  BY <1>b, <1>1, <1>4, <1>5 DEF SkipSessionId, At, size

(* The first session gets 0; every later one finds the id of the session    *)
(* before it taken, skips it and gets the next.                             *)
LEMMA IdsStep == Loop /\ Tables /\ IdsInv /\ [Next]_vars => IdsInv'
<1> SUFFICES ASSUME Loop, Tables, IdsInv, [Next]_vars PROVE IdsInv'
  OBVIOUS
<1> DEFINE size == Cardinality(DOMAIN sessions)
<1>a. /\ IsFiniteSet(DOMAIN sessions) /\ size \in Nat
      /\ SessionLimit \in Nat /\ IdModulus \in Nat /\ IdModulus > SessionLimit + 1
  BY ConstantsAssumption, FS_CardinalityType DEF Tables, SizeInv
<1>b. /\ DOMAIN sessions = 0 .. size - 1
      /\ nextSessionId = size - 1 \/ (nextSessionId = size /\ (size = 0 \/ phase = "createSession"))
  BY DEF IdsInv
<1>1. CASE CreateSession
  <2>1. /\ nextSessionId \notin DOMAIN sessions /\ nextSessionId' = nextSessionId
        /\ DOMAIN sessions' = DOMAIN sessions \cup {nextSessionId}
    BY <1>1, CreateSessionFacts DEF CreateSession, IdTaken
  <2>2. nextSessionId = size
    <3>1. nextSessionId \in Nat
      BY DEF Loop, TypeOK
    <3> HIDE DEF size
    <3> QED
      BY <1>a, <1>b, <2>1, <3>1
  <2>3. DOMAIN sessions' = 0 .. size
    BY <1>a, <1>b, <2>1, <2>2, FirstIds
  <2>4. Cardinality(DOMAIN sessions') = size + 1
    BY <1>a, <2>1, <2>2, FS_AddElement
  <2> HIDE DEF size
  <2>5. 0 .. size = 0 .. (size + 1) - 1 /\ size = (size + 1) - 1
    BY <1>a
  <2> QED
    BY <2>1, <2>2, <2>3, <2>4, <2>5 DEF IdsInv
<1>2. CASE SkipSessionId
  <2>1. sessions' = sessions /\ phase' = "createSession" /\ nextSessionId' = size
    BY <1>2, SkipFacts
  <2> QED
    BY <1>b, <2>1 DEF IdsInv
<1>3. CASE /\ UNCHANGED <<sessions, nextSessionId>>
           /\ phase = "createSession" => phase' = "createSession"
  BY <1>3, <1>b DEF IdsInv
<1>4. SkipSessionId \/ CreateSession \/ UNCHANGED tableVars
  BY DEF Next, Environment, Message, PushCommand, SocketError, HandlePacket, Callback, StartTick,
         RecieveStream, RecievePacket, PacketLoopEnds, SessionPacket, IgnoreRaw, CutShortThrows,
         EncodeThrows, AnswerPing, AnswerRequest1, RejectRequest2, AcceptRequest2, Offline, Take, CreateSteps,
         CheckSessionsThrows, Tick, vars
<1>5. CreateSession \/ (phase = "createSession" => phase' = "createSession")
  <2>1. HandledInPlace \/ AcceptRequest2 => phase = "recievePacket"
    BY InPlaceFacts, AcceptFacts DEF Take, At
  <2>2. (\E d \in Datagrams : Message(d)) => phase = "idle"
    BY DEF Message
  <2> QED
    BY <2>1, <2>2, StepKinds
<1> QED
  BY <1>1, <1>2, <1>3, <1>4, <1>5 DEF tableVars

(* IdsInv: peers get the ids 0, 1, 2, ... in the order they connect in.     *)
THEOREM IdsInOrder == Spec => []IdsInv
<1>1. Init => IdsInv
  BY FirstIds, FS_EmptySet DEF Init, EmptyMap, IdsInv
<1> QED
  BY <1>1, IdsStep, LoopCorrect, TablesCorrect, PTL DEF Spec

(* Each step of a callback leaves fewer for it.                             *)
LEMMA AdvanceStep == Loop /\ Tables /\ IdsInv /\ [Next]_vars => [CallbackAdvances]_vars
<1> SUFFICES ASSUME Loop, Tables, IdsInv, Next, phase # "idle"
             PROVE  StepsLeft' < StepsLeft \/ (running /\ ~running')
  BY DEF CallbackAdvances
<1>1. CASE RecieveStream
  <2>1. phase = "recieveStream" /\ phase' = "recievePacket"
    BY <1>1 DEF RecieveStream, At
  <2> QED
    BY <2>1 DEF StepsLeft
<1>2. CASE PacketLoopEnds
  <2>1. phase = "recievePacket" /\ phase' = "tick"
    BY <1>2 DEF PacketLoopEnds, At
  <2> QED
    BY <2>1 DEF StepsLeft
<1>3. CASE HandledInPlace
  <2>1. Take /\ Return
    BY <1>3, InPlaceFacts
  <2>2. msg # Undefined /\ msg' = Undefined /\ phase = "recievePacket" /\ phase' = "recievePacket"
    BY <2>1, TakeFacts DEF Take, Return, ClearSlot, At
  <2> QED
    BY <2>2 DEF StepsLeft
<1>4. CASE AcceptRequest2
  <2>1. Take /\ phase' = "createSession"
    BY <1>4, AcceptFacts
  <2>2. msg # Undefined /\ phase = "recievePacket"
    BY <2>1, TakeFacts DEF Take, At
  <2> QED
    BY <2>1, <2>2 DEF StepsLeft
<1>5. CASE CheckSessionsThrows
  BY <1>5 DEF CheckSessionsThrows, At
<1>6. CASE SkipSessionId
  <2>1. phase = "createSession" /\ phase' = "createSession" /\ IdTaken /\ ~IdTaken'
    BY <1>6, SkipFacts DEF SkipSessionId, IdTaken
  <2> QED
    BY <2>1 DEF StepsLeft
<1>7. CASE CreateSession
  <2>1. phase = "createSession" /\ phase' = "recievePacket" /\ msg = Undefined /\ msg' = msg
    BY <1>7, CreateSessionFacts DEF CreateSession, At, sockVars
  <2> QED
    BY <2>1 DEF StepsLeft
<1>8. CASE Tick
  <2>1. phase = "tick" /\ phase' = "idle"
    BY <1>8 DEF Tick, At
  <2> QED
    BY <2>1 DEF StepsLeft
<1>9. ~StartTick /\ ~Environment
  BY DEF StartTick, At, Environment, Message, PushCommand, SocketError, HandlePacket
<1> QED
  BY <1>1, <1>2, <1>3, <1>4, <1>5, <1>6, <1>7, <1>8, <1>9
     DEF Next, Callback, RecievePacket, CreateSteps, HandledInPlace

(* A callback ends after at most six steps more, however many sessions      *)
(* there are and whatever the bound of the receive loop: createSession's    *)
(* search for an id, which has no bound of its own, looks at two at most.   *)
THEOREM CallbackAlwaysAdvances == Spec => [][CallbackAdvances]_vars
<1> QED
  BY AdvanceStep, IdsInOrder, LoopCorrect, TablesCorrect, PTL DEF Spec

(* When the receive loop has ended, no datagram waits in the slot: one that *)
(* is there when a callback starts is read by that callback.                *)
SlotEmptied == phase = "tick" => msg = Undefined

(* The loop never runs into its bound, so it ends with an empty slot.       *)
LEMMA SlotEmptiedStep == Loop /\ SlotEmptied /\ [Next]_vars => SlotEmptied'
<1> SUFFICES ASSUME Loop, SlotEmptied, [Next]_vars PROVE SlotEmptied'
  OBVIOUS
<1>1. CASE PacketLoopEnds
  <2>1. calls < PacketsPerTick
    BY <1>1, ConstantsAssumption DEF PacketLoopEnds, At, Loop, LoopInv
  <2>2. Buffer = <<>> /\ msg' = msg
    BY <1>1, <2>1 DEF PacketLoopEnds, sockVars
  <2>3. msg # Undefined => Buffer # <<>>
    BY <1>1 DEF Buffer, PacketLoopEnds, At, Loop, LoopInv
  <2> QED
    BY <2>2, <2>3 DEF SlotEmptied
<1>2. CASE HandledInPlace \/ AcceptRequest2
  <2>1. phase' # "tick"
    BY <1>2, InPlaceFacts, AcceptFacts DEF Take, At, Return
  <2> QED
    BY <2>1 DEF SlotEmptied
<1>3. CASE UNCHANGED <<msg, phase>> \/ phase' # "tick"
  BY <1>3 DEF SlotEmptied
<1>4. \/ PacketLoopEnds \/ HandledInPlace \/ AcceptRequest2
      \/ UNCHANGED <<msg, phase>> \/ phase' # "tick"
  BY DEF Next, Environment, Message, PushCommand, SocketError, HandlePacket, Callback, StartTick,
         RecieveStream, RecievePacket, CreateSteps, CheckSessionsThrows, SkipSessionId, CreateSession,
         Tick, HandledInPlace, At, sockVars, vars
<1> QED
  BY <1>1, <1>2, <1>3, <1>4

(* SlotEmptied: a datagram is lost by being overwritten before a callback,  *)
(* never by being left behind in one.                                       *)
THEOREM SlotAlwaysEmptied == Spec => []SlotEmptied
<1>1. Init => SlotEmptied
  BY DEF Init, SlotEmptied
<1> QED
  BY <1>1, SlotEmptiedStep, LoopCorrect, PTL DEF Spec

=============================================================================
