---------------------------- MODULE RakNetServer ----------------------------
(***************************************************************************)
(* The assembled server: the event loop of src/src/server/SessionManager.js *)
(* with the offline handshake (OfflineMessageHandler.js), the socket slot   *)
(* (Socket.js), the session tables and the two queues to the embedding      *)
(* program (RakNetServer.js, ServerHandler.js).                             *)
(*                                                                          *)
(* Node runs callbacks to completion, so the environment (the "message" and *)
(* "error" events of the socket, the calls of the embedding program) acts   *)
(* only while `phase` is "idle"; the setInterval callback is split into one *)
(* action per method it runs, sequenced by `phase`.                         *)
(*                                                                          *)
(* What the code's own slips make of it is part of the model: recieveStream *)
(* dispatches on `let id = 0`, so a command is taken off the queue and      *)
(* dropped; Datagram.BITFLAG_VALID is read off the class, where it is       *)
(* undefined, so no datagram of a session is ever handed to it; ipSec and   *)
(* block are never filled, tick() iterates a Map iterator with for-in, and  *)
(* `shutdown` is therefore never set, so none of these is a variable here.  *)
(***************************************************************************)
EXTENDS Integers, Sequences, FiniteSets

CONSTANTS
  Clients,          \* UDP peers: what `rinfo` distinguishes (an ip and a port)
  Ips,              \* the ip addresses of the peers
  IpOf,             \* address.ip of each peer; peers behind one NAT share it
  GuidOf,           \* the clientID each peer puts in OpenConnectionRequest2
  SocketVersion,    \* 4 or 6: the kind of socket (Socket.js:9), and so address.version of every peer
  Datagrams,        \* the datagrams the network may deliver
  Commands,         \* the commands the embedding program may push
  ProtocolVersion,  \* RakNetServer.protocolVersion
  MaxMtuSize,       \* SessionManager.maxMtuSize
  SessionLimit,     \* 4096 in checkSessions
  IdModulus,        \* 2^31: session ids are masked with 0x7fffffff
  PacketsPerTick,   \* 100: the bound of the receive loop
  MaskBits,         \* the bits of RAKNET_TPS (100), the mask on the tick counter: {4, 32, 64}
  TickPeriod,       \* the tick counter matters up to this power of two
  MaxArrivals,      \* bound of the model: datagrams delivered in a behaviour
  MaxCommands,      \* bound of the model: commands queued at a time
  Undefined         \* JavaScript's undefined

Pids == { "UnconnectedPing", "UnconnectedPingOpenConnections",
          "OpenConnectionRequest1", "OpenConnectionRequest2",
          "Connected",   \* the first byte has BITFLAG_VALID (0x80) set
          "Unpooled" }   \* any other first byte

\* The fields as decoded.  A datagram that is not complete ends before its last
\* field, the clientID: what the stream library makes of a field that is not
\* there is not known, it may throw or give something that is no number.
Mtus == Nat \cup {Undefined}
Guids == {GuidOf[c] : c \in Clients} \cup {Undefined}
Datagram == [from: Clients, pid: Pids, magicOk: BOOLEAN, protocol: Nat, mtuSize: Mtus, complete: BOOLEAN]
Request2 == [address: Clients, clientId: Guids, mtuSize: Mtus]

ASSUME ConstantsAssumption ==
  /\ IpOf \in [Clients -> Ips]
  /\ DOMAIN GuidOf = Clients
  /\ SocketVersion \in {4, 6}
  /\ Datagrams \subseteq Datagram
  /\ \A d \in Datagrams : d.complete => d.mtuSize # Undefined
  /\ ProtocolVersion \in Nat /\ MaxMtuSize \in Nat \ {0}
  /\ SessionLimit \in Nat /\ IdModulus \in Nat /\ IdModulus > SessionLimit + 1
  /\ PacketsPerTick \in Nat /\ PacketsPerTick >= 2
  /\ TickPeriod \in Nat \ {0} /\ MaskBits \subseteq Nat \ {0}
  /\ \A b \in MaskBits : TickPeriod % (2 * b) = 0
  /\ MaxArrivals \in Nat /\ MaxCommands \in Nat
  /\ Undefined \notin Request2 /\ Undefined \notin Nat

MIN_MTU_SIZE == 400

VARIABLES
  running,            \* FALSE once process.exit(1) has run
  sockOpen,           \* the UDP socket has not been closed
  msg, rinfo,         \* socket.msg and socket.rinfo, the one-message slot
  stream,             \* what has been written to the shared binarystream
  phase, calls,       \* where the interval callback is; the loop counter i
  sessions,           \* Map: internal id -> Session
  sessionsByAddress,  \* Map: ip -> Session
  nextSessionId,
  pending,            \* the arguments of the createSession call under way
  ticks, sendBytes, recieveBytes,
  internalQueue,      \* main -> RakNet
  externalQueue,      \* RakNet -> main
  arrivals,           \* history: datagrams the socket has delivered
  writes,             \* history: replies handed to the socket, with their cause
  taken, delivered    \* history: bytes taken in, bytes reported to the embedder

sockVars    == <<sockOpen, msg, rinfo, arrivals>>
tableVars   == <<sessions, sessionsByAddress, nextSessionId>>
statVars    == <<ticks, sendBytes, recieveBytes, taken>>
queueVars   == <<internalQueue, externalQueue, delivered>>
vars == <<running, sockVars, stream, phase, calls, tableVars, pending, statVars, queueVars, writes>>

Phases == {"idle", "recieveStream", "recievePacket", "createSession", "tick"}

Arrival  == [n: Nat, datagram: Datagram]
Session  == [internalId: Nat, address: Clients, clientId: Guids, mtuSize: Mtus]
Replies  == {"UnconnectedPong", "IncompatibleProtocolVersion",
             "OpenConnectionReply1", "OpenConnectionReply2"}
Write    == [reply: Replies, to: Clients, mtuSize: Mtus, cause: Arrival]
Report   == [up: {"0", "NaN"}, down: Nat]

\* new Map() and Map.set
EmptyMap == [x \in {} |-> Undefined]
MapSet(m, k, v) == [x \in DOMAIN m \cup {k} |-> IF x = k THEN v ELSE m[x]]

Init ==
  /\ running = TRUE /\ sockOpen = TRUE
  /\ msg = Undefined /\ rinfo = Undefined
  /\ stream = <<>>
  /\ phase = "idle" /\ calls = 0
  /\ sessions = EmptyMap /\ sessionsByAddress = EmptyMap /\ nextSessionId = 0
  /\ pending = Undefined
  /\ ticks = 0 /\ sendBytes = "0" /\ recieveBytes = 0
  /\ internalQueue = <<>> /\ externalQueue = <<>>
  /\ arrivals = 0 /\ writes = <<>> /\ taken = 0 /\ delivered = 0

-----------------------------------------------------------------------------
(* The environment: socket events and the embedding program.               *)

\* socket.on("message"): a datagram overwrites the slot, read or not.
Message(d) ==
  /\ running /\ phase = "idle" /\ sockOpen
  /\ arrivals < MaxArrivals
  /\ arrivals' = arrivals + 1
  /\ msg' = [n |-> arrivals + 1, datagram |-> d]
  /\ rinfo' = d.from
  /\ UNCHANGED <<running, sockOpen, stream, phase, calls, tableVars, pending, statVars, queueVars, writes>>

\* socket.on("error"): the socket is closed, the interval goes on.
SocketError ==
  /\ running /\ phase = "idle" /\ sockOpen
  /\ sockOpen' = FALSE
  /\ UNCHANGED <<running, msg, rinfo, arrivals, stream, phase, calls, tableVars, pending, statVars, queueVars, writes>>

\* ServerHandler's senders end in RakNetServer.pushMainToThreadPacket.
PushCommand(c) ==
  /\ running /\ phase = "idle"
  /\ Len(internalQueue) < MaxCommands
  /\ internalQueue' = Append(internalQueue, c)
  /\ UNCHANGED <<running, sockVars, stream, phase, calls, tableVars, pending, statVars, externalQueue, delivered, writes>>

\* ServerHandler.handlePacket: the embedding program polls the bandwidth reports.
HandlePacket ==
  /\ running /\ phase = "idle"
  /\ externalQueue # <<>>
  /\ externalQueue' = Tail(externalQueue)
  /\ delivered' = delivered + Head(externalQueue).down
  /\ UNCHANGED <<running, sockVars, stream, phase, calls, tableVars, pending, statVars, internalQueue, writes>>

-----------------------------------------------------------------------------
(* The interval callback.                                                  *)

At(p) == running /\ phase = p

StartTick ==
  /\ At("idle")
  /\ phase' = "recieveStream"
  /\ UNCHANGED <<running, sockVars, stream, calls, tableVars, pending, statVars, queueVars, writes>>

\* The command is shifted off the queue; `id` is 0, so it returns undefined
\* (as it does when the queue was empty) and the loop ends after one call.
RecieveStream ==
  /\ At("recieveStream")
  /\ internalQueue' = IF internalQueue = <<>> THEN <<>> ELSE Tail(internalQueue)
  /\ phase' = "recievePacket" /\ calls' = 0
  /\ UNCHANGED <<running, sockVars, stream, tableVars, pending, statVars, externalQueue, delivered, writes>>

\* What the binarystream holds once recievePacket has read the slot: the
\* message is appended to it, or, without one, the stream is reset.
BufferNotReset == IF msg # Undefined THEN Append(stream, msg) ELSE stream
BufferWhileOpen == IF msg # Undefined /\ sockOpen THEN Append(stream, msg) ELSE <<>>
Buffer == IF msg # Undefined THEN Append(stream, msg) ELSE <<>>

KeepSlot  == msg' = msg
ClearSlot == msg' = Undefined

\* The common part of a recievePacket call that finds bytes in the stream:
\* the slot is emptied and the bytes are counted.
Take ==
  /\ At("recievePacket") /\ calls < PacketsPerTick
  /\ Buffer # <<>>
  /\ ClearSlot
  /\ stream' = Buffer
  /\ recieveBytes' = recieveBytes + Len(Buffer)
  /\ taken' = taken + 1
  /\ UNCHANGED <<sockOpen, rinfo, arrivals, tableVars, ticks, queueVars>>

\* recievePacket returned true: the loop goes round again.
Return == phase' = phase /\ calls' = calls + 1 /\ UNCHANGED pending

\* The stream's first datagram decides, the slot's rinfo says who sent it.
Received == Head(Buffer).datagram

SessionKnownByPeer == \E ip \in DOMAIN sessionsByAddress : sessionsByAddress[ip].address = rinfo
SessionKnown == IpOf[rinfo] \in DOMAIN sessionsByAddress

\* header & Datagram.BITFLAG_VALID: the flag is a field of instances, not of
\* the class, so the mask is undefined and the test is never true.
HeaderFlagSet(d) == d.pid = "Connected"
HeaderIsValid(d) == FALSE

\* SessionManager.sendPacket: dgram's send returns undefined, and throws into
\* the try block once the socket is closed.
SendUnlessBusy(reply, mtuSize) ==
  IF sockOpen /\ sendBytes = "0"
  THEN /\ writes' = Append(writes, [reply |-> reply, to |-> rinfo, mtuSize |-> mtuSize, cause |-> Head(Buffer)])
       /\ sendBytes' = "NaN"
  ELSE UNCHANGED <<writes, sendBytes>>
SendPacket(reply, mtuSize) ==
  IF sockOpen
  THEN /\ writes' = Append(writes, [reply |-> reply, to |-> rinfo, mtuSize |-> mtuSize, cause |-> Head(Buffer)])
       /\ sendBytes' = "NaN"
  ELSE UNCHANGED <<writes, sendBytes>>

\* The receive loop ends when recievePacket finds no bytes (it resets the
\* stream and returns undefined), or at its bound.
PacketLoopEnds ==
  /\ At("recievePacket")
  /\ calls < PacketsPerTick => Buffer = <<>>
  /\ stream' = IF calls < PacketsPerTick THEN Buffer ELSE stream
  /\ phase' = "tick"
  /\ UNCHANGED <<running, sockVars, calls, tableVars, pending, statVars, queueVars, writes>>

\* A datagram from an ip that has a session: dropped, unless the header test
\* were true; then `new ACK(buffer)` names an undeclared variable and the
\* catch block exits.
SessionPacket ==
  /\ Take /\ SessionKnown
  /\ running' = ~HeaderIsValid(Received)
  /\ Return
  /\ UNCHANGED <<writes, sendBytes>>

\* handleRaw without a pooled packet, or with the wrong magic once decoded.
IgnoreRaw ==
  /\ Take /\ ~SessionKnown
  /\ Received.pid \in {"Connected", "Unpooled"} \/ ~Received.magicOk
  /\ Return
  /\ UNCHANGED <<running, writes, sendBytes>>

\* decode(), isValid() and the encode() of a reply made of what was decoded run
\* outside any try block but recievePacket's, which ends the process: a pooled
\* packet that is cut short is one way to get there.
CutShortThrows ==
  /\ Take /\ ~SessionKnown
  /\ Received.pid \notin {"Connected", "Unpooled"} /\ ~Received.complete
  /\ running' = FALSE
  /\ Return
  /\ UNCHANGED <<writes, sendBytes>>

Offline(pid) == Take /\ ~SessionKnown /\ Received.magicOk /\ Received.pid = pid

\* UnconnectedPingOpenConnections extends UnconnectedPing: one branch for both.
AnswerPing ==
  /\ \/ Offline("UnconnectedPing")
     \/ Offline("UnconnectedPingOpenConnections")
  /\ SendPacket("UnconnectedPong", 0)
  /\ Return
  /\ UNCHANGED running

AnswerRequest1 ==
  /\ Offline("OpenConnectionRequest1")
  /\ IF Received.protocol # ProtocolVersion
     THEN SendPacket("IncompatibleProtocolVersion", 0)
     ELSE SendPacket("OpenConnectionReply1", 0)
  /\ Return
  /\ UNCHANGED running

\* The test of OpenConnectionRequest2's mtuSize, false for what is no number;
\* Math.min then makes NaN of it, here Undefined as before.
MtuWithHeadersTooSmall(m) == m # Undefined /\ m + 28 < MIN_MTU_SIZE
MtuTooSmall(m) == m # Undefined /\ m < MIN_MTU_SIZE

\* portChecking is FALSE and only a SET_OPTION command would change it.
RejectRequest2 ==
  /\ Offline("OpenConnectionRequest2")
  /\ MtuTooSmall(Received.mtuSize)
  /\ Return
  /\ UNCHANGED <<running, writes, sendBytes>>

MtuFor(requested) ==
  IF requested = Undefined \/ requested < MaxMtuSize THEN requested ELSE MaxMtuSize

\* OpenConnectionReply2 holds the peer's address.  Packet.writeAddress writes one
\* of version 6 with calls that lack their value (Packet.js:107, 110), and
\* encode() runs before the try block of sendPacket: it may throw.
EncodeThrows ==
  /\ Offline("OpenConnectionRequest2")
  /\ ~MtuTooSmall(Received.mtuSize)
  /\ SocketVersion = 6
  /\ running' = FALSE
  /\ Return
  /\ UNCHANGED <<writes, sendBytes>>

\* packet.clientID, the last field.
ClientId(d) == IF d.complete THEN GuidOf[d.from] ELSE Undefined

\* The reply goes out first, then createSession is entered.
AcceptRequest2 ==
  /\ Offline("OpenConnectionRequest2")
  /\ ~MtuTooSmall(Received.mtuSize)
  /\ LET mtu == MtuFor(Received.mtuSize) IN
       /\ SendPacket("OpenConnectionReply2", mtu)
       /\ pending' = [address |-> rinfo, clientId |-> ClientId(Received), mtuSize |-> mtu]
  /\ phase' = "createSession"
  /\ UNCHANGED <<running, calls>>

-----------------------------------------------------------------------------
(* createSession, one iteration of its while loop at a time.               *)

TableFull == Cardinality(DOMAIN sessions) > SessionLimit

\* checkSessions past the limit: `for (session of ...)` assigns an undeclared
\* variable, the ReferenceError reaches recievePacket's catch: process.exit(1).
CheckSessionsThrows ==
  /\ At("createSession") /\ TableFull
  /\ running' = FALSE
  /\ UNCHANGED <<sockVars, stream, phase, calls, tableVars, pending, statVars, queueVars, writes>>

IdNeverTaken == FALSE
IdTaken == nextSessionId \in DOMAIN sessions

MaskOnly(id) == id % IdModulus
IdAfter(id) == (id + 1) % IdModulus

SkipSessionId ==
  /\ At("createSession") /\ ~TableFull
  /\ IdTaken
  /\ nextSessionId' = IdAfter(nextSessionId)
  /\ UNCHANGED <<running, sockVars, stream, phase, calls, sessions, sessionsByAddress, pending, statVars, queueVars, writes>>

NewSessionWithServerMtu ==
  [internalId |-> nextSessionId, address |-> pending.address,
   clientId |-> pending.clientId, mtuSize |-> MaxMtuSize]
NewSessionOffByOne ==
  [internalId |-> nextSessionId - 1, address |-> pending.address,
   clientId |-> pending.clientId, mtuSize |-> pending.mtuSize]
NewSession == [internalId |-> nextSessionId, address |-> pending.address,
               clientId |-> pending.clientId, mtuSize |-> pending.mtuSize]

CreateSession ==
  /\ At("createSession") /\ ~TableFull
  /\ ~IdTaken
  /\ sessionsByAddress' = MapSet(sessionsByAddress, IpOf[pending.address], NewSession)
  /\ sessions' = MapSet(sessions, nextSessionId, NewSession)
  /\ pending' = Undefined
  /\ phase' = "recievePacket" /\ calls' = calls + 1
  /\ UNCHANGED <<running, sockVars, stream, nextSessionId, statVars, queueVars, writes>>

-----------------------------------------------------------------------------
(* SessionManager.tick                                                     *)

\* (ticks & RAKNET_TPS) === 0
TickDue == \A b \in MaskBits : (ticks \div b) % 2 = 0

\* sendBytes > 0 is false for 0 and for NaN alike, so recieveBytes decides.
SomethingSent == FALSE
SomethingToReport == SomethingSent \/ recieveBytes > 0

ResetSendBytes == sendBytes' = "0" /\ UNCHANGED recieveBytes
ResetBytes == sendBytes' = "0" /\ recieveBytes' = 0

Tick ==
  /\ At("tick")
  /\ IF TickDue /\ SomethingToReport
     THEN /\ externalQueue' = Append(externalQueue, [up |-> sendBytes, down |-> recieveBytes])
          /\ ResetBytes
     ELSE UNCHANGED <<externalQueue, sendBytes, recieveBytes>>
  /\ ticks' = (ticks + 1) % TickPeriod
  /\ phase' = "idle"
  /\ UNCHANGED <<running, sockVars, stream, calls, tableVars, pending, taken, internalQueue, delivered, writes>>

-----------------------------------------------------------------------------

Environment ==
  \/ \E d \in Datagrams : Message(d)
  \/ \E c \in Commands : PushCommand(c)
  \/ SocketError
  \/ HandlePacket

RecievePacket ==
  \/ PacketLoopEnds
  \/ SessionPacket \/ IgnoreRaw \/ CutShortThrows \/ EncodeThrows
  \/ AnswerPing \/ AnswerRequest1 \/ RejectRequest2 \/ AcceptRequest2

CreateSteps == CheckSessionsThrows \/ SkipSessionId \/ CreateSession

Callback == StartTick \/ RecieveStream \/ RecievePacket \/ CreateSteps \/ Tick

Next == Environment \/ Callback

\* The timer fires again and again and a callback runs to its end.
Fairness == WF_vars(Callback)

Spec == Init /\ [][Next]_vars /\ Fairness

-----------------------------------------------------------------------------
(* Properties.                                                             *)

TypeOK ==
  /\ running \in BOOLEAN /\ sockOpen \in BOOLEAN
  /\ msg \in Arrival \cup {Undefined}
  /\ rinfo \in Clients \cup {Undefined}
  /\ stream \in Seq(Arrival)
  /\ phase \in Phases /\ calls \in Nat
  /\ sessions \in [DOMAIN sessions -> Session]
  /\ DOMAIN sessions \subseteq Nat
  /\ sessionsByAddress \in [DOMAIN sessionsByAddress -> Session]
  /\ DOMAIN sessionsByAddress \subseteq Ips
  /\ nextSessionId \in Nat
  /\ pending \in Request2 \cup {Undefined}
  /\ ticks \in Nat /\ sendBytes \in {"0", "NaN"} /\ recieveBytes \in Nat
  /\ internalQueue \in Seq(Commands) /\ externalQueue \in Seq(Report)
  /\ arrivals \in Nat /\ writes \in Seq(Write)
  /\ taken \in Nat /\ delivered \in Nat

(* The two session tables hold the same sessions: every session is found    *)
(* under its own id and under its own ip, and under nothing else.           *)
(* createSession writes both maps, recievePacket reads only one of them.    *)
TablesAgree ==
  /\ \A id \in DOMAIN sessions :
       LET s == sessions[id] IN
         /\ s.internalId = id
         /\ IpOf[s.address] \in DOMAIN sessionsByAddress
         /\ sessionsByAddress[IpOf[s.address]] = s
  /\ \A ip \in DOMAIN sessionsByAddress :
       LET s == sessionsByAddress[ip] IN
         /\ IpOf[s.address] = ip
         /\ s.internalId \in DOMAIN sessions
         /\ sessions[s.internalId] = s

(* A reply goes to the peer whose datagram it answers, and a session joins  *)
(* the address and the clientID of one and the same datagram, although the  *)
(* bytes come from the stream shared by all calls and the address from the  *)
(* slot that the next "message" event overwrites; a request cut short gives *)
(* the session no clientID, never another peer's.                           *)
NoCrossTalk ==
  /\ \A i \in DOMAIN writes : writes[i].to = writes[i].cause.datagram.from
  /\ \A id \in DOMAIN sessions : sessions[id].clientId \in {GuidOf[sessions[id].address], Undefined}

(* Replies answer datagrams in the order of their arrival and no datagram   *)
(* twice, although the receive loop rereads slot and stream up to a hundred *)
(* times a tick.                                                            *)
AnsweredInOrderOnce ==
  \A i, j \in DOMAIN writes : i < j => writes[i].cause.n < writes[j].cause.n

(* Whoever was sent an OpenConnectionReply2 has a session with the MTU of   *)
(* that reply.  Only the last reply may lack its session: while             *)
(* createSession is at work on it, or because checkSessions found the table *)
(* full and ended the process between the reply and the session.            *)
ReplyBacked ==
  \A i \in DOMAIN writes :
    LET w == writes[i] IN
      w.reply = "OpenConnectionReply2" =>
        \/ \E id \in DOMAIN sessions : sessions[id].address = w.to /\ sessions[id].mtuSize = w.mtuSize
        \/ i = Len(writes) /\ phase = "createSession" /\ (running \/ TableFull)

Announced(s) ==
  \E i \in DOMAIN writes :
    /\ writes[i].reply = "OpenConnectionReply2"
    /\ writes[i].to = s.address /\ writes[i].mtuSize = s.mtuSize
Unannounced == {id \in DOMAIN sessions : ~Announced(sessions[id])}

(* Every session was announced to its peer with its MTU, but for one: the   *)
(* datagram that was in the slot when the socket was closed can make a      *)
(* session whose reply is not sent, and no other datagram can after it.     *)
SessionAnnounced ==
  /\ Unannounced # {} => ~sockOpen
  /\ \A a, b \in Unannounced : a = b

(* The process ends only over the first datagram of a peer that has no      *)
(* session, and only over one cut short, an OpenConnectionRequest2 granted  *)
(* over IPv6, or one granted when the table is full: no traffic on an open  *)
(* session, no other complete datagram, no command and no error event.      *)
ExitHasCause ==
  /\ Cardinality(DOMAIN sessions) <= SessionLimit + 1
  /\ ~running =>
       LET d == Head(stream).datagram IN
         /\ stream # <<>> /\ IpOf[d.from] \notin DOMAIN sessionsByAddress
         /\ \/ d.pid \notin {"Connected", "Unpooled"} /\ ~d.complete
            \/ d.pid = "OpenConnectionRequest2" /\ (SocketVersion = 6 \/ TableFull)

\* The bytes the reports of a queue stand for, and how many they are.
QueuedBytes(q) == UNION {{n} \X (1 .. q[n].down) : n \in DOMAIN q}
SumDown(q) == Cardinality(QueuedBytes(q))

(* Every byte taken in is in exactly one place: not yet reported, in a      *)
(* bandwidth report that is queued, or in one the embedder has polled.      *)
BytesConserved == taken = recieveBytes + SumDown(externalQueue) + delivered

(* The assertion in Session's constructor (Session.js:23-25), for sessions  *)
(* whose MTU is a number.                                                   *)
MtuAtLeastMin ==
  \A id \in DOMAIN sessions :
    sessions[id].mtuSize # Undefined => sessions[id].mtuSize >= MIN_MTU_SIZE

(* The session table is a ConnectionTable: connections are only ever added, *)
(* under an ip that has none and an id nobody holds, and stay as they are.  *)
SessionIp(s) == IpOf[s.address]
CT == INSTANCE ConnectionTable
        WITH table <- sessionsByAddress, alive <- running,
             Keys <- Ips, Entries <- Session, KeyOf <- SessionIp, Limit <- SessionLimit
RefinesConnectionTable == CT!Spec

(* Every interval callback runs to its end (or the process exits): neither  *)
(* the receive loop nor the search for a free session id goes on for ever.  *)
CallbackCompletes == phase # "idle" ~> phase = "idle" \/ ~running

(* Bytes taken in are reported, however the mask on the tick counter falls. *)
BytesReported == recieveBytes > 0 ~> recieveBytes = 0 \/ ~running

(* A datagram in the slot is taken out of it: the socket is never wedged.   *)
SlotDrained == msg # Undefined ~> msg = Undefined \/ ~running


(* MessageIdentifiers.js:26-28: a connection slot is allocated only if the  *)
(* GUID is not already in use.                                              *)
GuidsUnique ==
  \A id1, id2 \in DOMAIN sessions : sessions[id1].clientId = sessions[id2].clientId => id1 = id2

Handled(pid) ==
  phase = "recievePacket" /\ msg # Undefined /\ msg' = Undefined /\ msg.datagram.pid = pid

(* MessageIdentifiers.js:12-13: a ping from an unconnected system (a peer   *)
(* that has no session) is replied to, as long as there is a socket.        *)
UnconnectedPingAnswered ==
  [][ Handled("UnconnectedPing") /\ sockOpen /\ msg.datagram.magicOk
      /\ (\A id \in DOMAIN sessions : sessions[id].address # msg.datagram.from)
        => writes' # writes ]_vars

=============================================================================
