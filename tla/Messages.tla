------------------------------ MODULE Messages ------------------------------
(***************************************************************************)
(* The messages under src/protocol on the wire: encode writes a header and  *)
(* the fields of a class, field by field, and decode of the same class      *)
(* reads them.  The packets that read offline messages are pooled: one      *)
(* object per class, in which a datagram finds what the one before it left. *)
(*                                                                          *)
(* A message is what a class writes, or what a peer writes where the class  *)
(* cannot: encodePayload of ConnectedPong and NewIncomingConnection name    *)
(* variables that are not declared.  ConnectionRequestAccepted cannot even  *)
(* be constructed, for the same reason, and is left out.  Addresses of      *)
(* version 6 come from peers, but for the one in OpenConnectionReply2,      *)
(* which the server writes when its socket is an IPv6 one: writeAddress     *)
(* calls writers of the library without the value they are to write.        *)
(***************************************************************************)
EXTENDS ByteStream

CONSTANTS
  Longs,            \* times and GUIDs
  Shorts,           \* MTU sizes
  Names,            \* server names, by their number of bytes ...
  MultiByte,        \* ... and those of them that have one character less
  Ports,
  Hosts,            \* ip addresses, as sequences of their parts
  Versions,         \* of addresses: 4, 6, and some that are neither
  EmptyData,        \* bytes that the library's writeData appends without an argument
  SystemAddresses,  \* 20
  MaxDatagrams      \* bound of the model: datagrams through one pooled packet

ASSUME MessagesAssumption ==
  /\ \A n \in Longs \cup Shorts \cup Names \cup Ports : n \in Nat
  /\ MultiByte \subseteq Names /\ 0 \notin Names
  /\ Versions \subseteq Nat /\ EmptyData \in Nat
  /\ \A host \in Hosts : host \in Seq(Nat) /\ Len(host) >= 4
  /\ SystemAddresses \in Nat /\ MaxDatagrams \in Nat

Address == [version: Versions, host: Hosts, port: Ports]

\* A layout is the sequence of calls that encodePayload or decodePayload makes: for
\* the field of a name, or for the address of a number.
OpenConnectionReply2Swapped ==
  [encode |-> << <<"magic", "magic">>, <<"long", "serverID">>, <<"address", 1>>,
                 <<"short", "mtuSize">>, <<"byte", "serverSecurity">> >>,
   decode |-> << <<"magic", "magic">>, <<"long", "serverID">>, <<"short", "mtuSize">>,
                 <<"address", 1>>, <<"byte", "serverSecurity">> >>]

UnconnectedPing ==
  LET calls == << <<"long", "sendPingTime">>, <<"magic", "magic">>, <<"long", "clientId">> >>
  IN  [encode |-> calls, decode |-> calls]
UnconnectedPong ==
  LET calls == << <<"long", "sendPingTime">>, <<"long", "serverId">>, <<"magic", "magic">>,
                  <<"string", "serverName">> >>
  IN  [encode |-> calls, decode |-> calls]
OpenConnectionRequest1 ==
  [encode |-> << <<"magic", "magic">>, <<"byte", "protocol">> >>,
   decode |-> << <<"magic", "magic">>, <<"byte", "protocol">>, <<"length", "mtuSize">> >>]
OpenConnectionReply1 ==
  LET calls == << <<"magic", "magic">>, <<"long", "serverID">>, <<"byte", "serverSecurity">>,
                  <<"short", "mtuSize">> >>
  IN  [encode |-> calls, decode |-> calls]
OpenConnectionRequest2 ==
  LET calls == << <<"magic", "magic">>, <<"address", 1>>, <<"short", "mtuSize">>,
                  <<"long", "clientID">> >>
  IN  [encode |-> calls, decode |-> calls]
OpenConnectionReply2 ==
  LET calls == << <<"magic", "magic">>, <<"long", "serverID">>, <<"address", 1>>,
                  <<"short", "mtuSize">>, <<"byte", "serverSecurity">> >>
  IN  [encode |-> calls, decode |-> calls]
IncompatibleProtocolVersion ==
  LET calls == << <<"byte", "protocolVersion">>, <<"magic", "magic">>, <<"long", "serverId">> >>
  IN  [encode |-> calls, decode |-> calls]
ConnectionRequest ==
  LET calls == << <<"long", "clientID">>, <<"long", "sendPingTime">>, <<"byte", "useSecurity">> >>
  IN  [encode |-> calls, decode |-> calls]
ConnectedPing ==
  LET calls == << <<"long", "sendTime">> >>
  IN  [encode |-> calls, decode |-> calls]
\* encode: a peer's.
ConnectedPong ==
  LET calls == << <<"long", "sendPingTime">>, <<"long", "sendPongTime">> >>
  IN  [encode |-> calls, decode |-> calls]
\* readString without the toString that UnconnectedPong has: a Buffer.
AdvertiseSystem ==
  LET calls == << <<"string", "serverName">> >>
  IN  [encode |-> calls, decode |-> calls]
DisconnectionNotification == [encode |-> <<>>, decode |-> <<>>]
\* encode: a peer's, behind its addresses, of which there may be any number.
NewIncomingConnection ==
  LET times == << <<"long", "sendPingTime">>, <<"long", "sendPongTime">> >>
  IN  [encode |-> times,
       decode |-> << <<"address", 1>> >>
                  \o [n \in 1 .. SystemAddresses |-> <<"systemAddress", n + 1>>]
                  \o times]

Layout ==
  [UnconnectedPing |-> UnconnectedPing, UnconnectedPingOpenConnections |-> UnconnectedPing,
   UnconnectedPong |-> UnconnectedPong,
   OpenConnectionRequest1 |-> OpenConnectionRequest1, OpenConnectionReply1 |-> OpenConnectionReply1,
   OpenConnectionRequest2 |-> OpenConnectionRequest2, OpenConnectionReply2 |-> OpenConnectionReply2,
   IncompatibleProtocolVersion |-> IncompatibleProtocolVersion,
   ConnectionRequest |-> ConnectionRequest, ConnectedPing |-> ConnectedPing,
   ConnectedPong |-> ConnectedPong, AdvertiseSystem |-> AdvertiseSystem,
   DisconnectionNotification |-> DisconnectionNotification,
   NewIncomingConnection |-> NewIncomingConnection]

Classes == DOMAIN Layout
Pooled == {"UnconnectedPing", "UnconnectedPingOpenConnections",
           "OpenConnectionRequest1", "OpenConnectionRequest2"}

ID ==
  [ConnectedPing |-> 0, UnconnectedPing |-> 1, UnconnectedPingOpenConnections |-> 2,
   ConnectedPong |-> 3, OpenConnectionRequest1 |-> 5, OpenConnectionReply1 |-> 6,
   OpenConnectionRequest2 |-> 7, OpenConnectionReply2 |-> 8, ConnectionRequest |-> 9,
   NewIncomingConnection |-> 19, DisconnectionNotification |-> 21,
   IncompatibleProtocolVersion |-> 25, UnconnectedPong |-> 28, AdvertiseSystem |-> 29]

MAGIC == 0  \* "\x00\xff\xff\x00\xfe...", one value of 16 bytes

\* What a field of a message may hold.
FieldValues(call) ==
  CASE call[1] = "long" -> Longs
    [] call[1] = "short" -> Shorts
    [] call[1] = "byte" -> {0, 1}
    [] call[1] = "string" -> Names
    [] call[1] = "magic" -> {MAGIC}

\* The messages of a class: its scalar fields, and the addresses in order.
Scalars(calls) ==
  {calls[n] : n \in {n \in DOMAIN calls : calls[n][1] \in {"long", "short", "byte", "string", "magic"}}}
FieldsOf(class) ==
  LET calls == Scalars(Layout[class].encode)
  IN  {f \in [{c[2] : c \in calls} -> UNION {FieldValues(c) : c \in calls}] :
         \A c \in calls : f[c[2]] \in FieldValues(c)}
AddressesOf(class) ==
  CASE class \in {"OpenConnectionRequest2", "OpenConnectionReply2"} -> [1 .. 1 -> Address]
    [] class = "NewIncomingConnection" -> UNION {[1 .. n -> Address] : n \in 1 .. SystemAddresses + 1}
    [] OTHER -> {<<>>}
Messages(class) == [class: {class}, fields: FieldsOf(class), addresses: AddressesOf(class)]

\* The calls that write the message m.
EncodeCalls(m) ==
  IF m.class = "NewIncomingConnection"
  THEN [n \in 1 .. Len(m.addresses) |-> <<"address", n>>] \o Layout[m.class].encode
  ELSE Layout[m.class].encode

VARIABLES
  phase,      \* "encode", "decode", "done"; "thrown" when the library does
  message,    \* the message that is being sent
  calls,      \* the calls encode or decode has yet to make
  stream, offset,
  packet,     \* the fields of the object that decodes
  addr, port, \* of the same object: readAddress stores them there
  refs,       \* what readAddress returned, each time: the object, a dummy, or an error
  ends,       \* history: where the header and the calls of encode left the stream
  datagrams   \* history: datagrams decoded by this object before

vars == <<phase, message, calls, stream, offset, packet, addr, port, refs, ends, datagrams>>
objectVars == <<packet, addr, port, refs>>

Undefined == -2

\* encode: reset, and the header.
Encode(m) ==
  /\ phase' = "encode" /\ message' = m
  /\ stream' = Bytes(1, ID[m.class]) /\ offset' = 0 /\ ends' = <<1>>
  /\ calls' = EncodeCalls(m)

Init ==
  /\ phase = "encode"
  /\ \E class \in Classes : message \in Messages(class)
  /\ stream = Bytes(1, ID[message.class]) /\ offset = 0 /\ ends = <<1>>
  /\ calls = EncodeCalls(message)
  /\ packet = [f \in {} |-> Undefined] /\ addr = <<>> /\ port = Undefined /\ refs = <<>>
  /\ datagrams = 0

\* address.ip.split(".", 4) keeps at most four parts; the loop is over their
\* indexes, not over them.
Parts(host) == SubSeq(host, 1, IF Len(host) < 4 THEN Len(host) ELSE 4)
HostByteOfPart(parts, n) == parts[n]
HostByte(parts, n) == n - 1

\* The error that writeAddress returns goes nowhere: the version is written.
\* Of version 6 no reader keeps the values written as 0 here; data is how many
\* bytes the host gets.
WriteAddress(a, data) ==
  LET parts == Parts(a.host) IN
    IF a.version = 4 /\ Len(parts) = 4
    THEN Bytes(1, 4)
         \o Bytes(1, HostByte(parts, 1)) \o Bytes(1, HostByte(parts, 2))
         \o Bytes(1, HostByte(parts, 3)) \o Bytes(1, HostByte(parts, 4))
         \o Bytes(2, a.port)
    ELSE IF a.version = 6
    THEN Bytes(1, 6) \o Bytes(2, 0) \o Bytes(2, a.port) \o Bytes(4, 0)
         \o Bytes(data, 0) \o Bytes(4, 0)
    ELSE Bytes(1, a.version)

\* Who writes the host of a version-6 address: this.writeData(), or a peer.
HostBytes(m) == IF m.class = "OpenConnectionReply2" THEN EmptyData ELSE 16

\* writeString writes the number of characters.
Chars(name) == IF name \in MultiByte THEN name - 1 ELSE name

Width == [byte |-> 1, short |-> 2, long |-> 8, magic |-> 16]

Written(m, call) ==
  CASE call[1] \in DOMAIN Width -> Bytes(Width[call[1]], m.fields[call[2]])
    [] call[1] = "string" -> LET name == m.fields[call[2]]
                             IN  Bytes(2, Chars(name)) \o Bytes(name, name)
    [] call[1] = "address" -> WriteAddress(m.addresses[call[2]], HostBytes(m))

WriteField ==
  /\ phase = "encode" /\ calls # <<>>
  /\ stream' = stream \o Written(message, Head(calls))
  /\ calls' = Tail(calls)
  /\ ends' = Append(ends, Len(stream'))
  /\ UNCHANGED <<phase, message, offset, objectVars, datagrams>>

\* A reply that encode writes with an address of version 6.
WritesVersion6 == message.class = "OpenConnectionReply2" /\ message.addresses[1].version = 6

\* Or writeLShort and writeData do not take undefined.
WriteThrows ==
  /\ phase = "encode" /\ calls # <<>> /\ Head(calls)[1] = "address" /\ WritesVersion6
  /\ phase' = "thrown"
  /\ UNCHANGED <<message, calls, stream, offset, objectVars, ends, datagrams>>

\* decode skips the header; the class was chosen by it.
Decode ==
  /\ phase = "encode" /\ calls = <<>>
  /\ \E class \in Classes :
       /\ ID[class] = ValueAt(stream, 0, 1)
       /\ calls' = Layout[class].decode
  /\ phase' = "decode" /\ offset' = 1
  /\ refs' = <<>>
  /\ UNCHANGED <<message, stream, packet, addr, port, ends, datagrams>>

SetField(name, v) == packet' = [f \in DOMAIN packet \cup {name} |-> IF f = name THEN v ELSE packet[f]]

Complement(b) == IF b = Torn THEN Torn ELSE 255 - b

ReadAddressAnyVersion ==
  LET version == ValueAt(stream, offset, 1) IN
    IF version = 4
    THEN /\ addr' = [n \in 1 .. 4 |-> Complement(ValueAt(stream, offset + n, 1))]
         /\ port' = ValueAt(stream, offset + 5, 2)
         /\ refs' = Append(refs, "this")
         /\ offset' = offset + 7
    ELSE /\ refs' = Append(refs, "this")
         /\ offset' = offset + 1
         /\ UNCHANGED <<addr, port>>

ReadAddress ==
  LET version == ValueAt(stream, offset, 1) IN
    IF version = 4
    THEN /\ addr' = [n \in 1 .. 4 |-> Complement(ValueAt(stream, offset + n, 1))]
         /\ port' = ValueAt(stream, offset + 5, 2)
         /\ refs' = Append(refs, "this")
         /\ offset' = offset + 7
    ELSE IF version = 6
    THEN /\ addr' = <<>>  \* 16 bytes, which nobody reads
         /\ port' = ValueAt(stream, offset + 3, 2)
         /\ refs' = Append(refs, "this")
         /\ offset' = offset + 29
    ELSE /\ refs' = Append(refs, "error")
         /\ offset' = offset + 1
         /\ UNCHANGED <<addr, port>>

\* NewIncomingConnection: 16 bytes are kept for the two times.
StopOffsetNone == 0
StopOffsetOneTime == Len(stream) - 8
StopOffset == Len(stream) - 16

ReadScalar(call) ==
  /\ call[1] \in DOMAIN Width
  /\ SetField(call[2], ValueAt(stream, offset, Width[call[1]]))
  /\ offset' = offset + Width[call[1]]
  /\ UNCHANGED <<addr, port, refs>>

ReadString(call) ==
  /\ call[1] = "string"
  /\ LET length == ValueAt(stream, offset, 2) IN
       /\ SetField(call[2], ValueAt(stream, offset + 2, length))
       /\ offset' = offset + 2 + length
  /\ UNCHANGED <<addr, port, refs>>

\* this.mtuSize = this.length, and the padding is skipped.
ReadLength(call) ==
  /\ call[1] = "length"
  /\ SetField(call[2], Len(stream))
  /\ offset' = Len(stream)
  /\ UNCHANGED <<addr, port, refs>>

ReadTheAddress(call) ==
  /\ call[1] = "address"
  /\ ReadAddress
  /\ UNCHANGED packet

ReadSystemAddress(call) ==
  /\ call[1] = "systemAddress"
  /\ IF offset >= StopOffset
     THEN refs' = Append(refs, "dummy") /\ UNCHANGED <<addr, port, offset>>
     ELSE ReadAddress
  /\ UNCHANGED packet

ReadField ==
  /\ phase = "decode" /\ calls # <<>>
  /\ LET call == Head(calls) IN
       \/ ReadScalar(call) \/ ReadString(call) \/ ReadLength(call)
       \/ ReadTheAddress(call) \/ ReadSystemAddress(call)
  /\ calls' = Tail(calls)
  /\ UNCHANGED <<phase, message, stream, ends, datagrams>>

\* The call before this one has read past the end, where the library may throw
\* or not: Torn is what it gives then.
ReadThrows ==
  /\ phase = "decode" /\ offset > Len(stream)
  /\ phase' = "thrown"
  /\ UNCHANGED <<message, calls, stream, offset, objectVars, ends, datagrams>>

Decoded ==
  /\ phase = "decode" /\ calls = <<>>
  /\ phase' = "done"
  /\ UNCHANGED <<message, calls, stream, offset, objectVars, ends, datagrams>>

\* The next datagram of the class, read by the same object.
NextDatagram ==
  /\ phase = "done" /\ message.class \in Pooled
  /\ datagrams + 1 < MaxDatagrams /\ datagrams' = datagrams + 1
  /\ \E m \in Messages(message.class) : Encode(m)
  /\ UNCHANGED objectVars

Next ==
  \/ WriteField \/ WriteThrows
  \/ Decode \/ ReadField \/ ReadThrows \/ Decoded
  \/ NextDatagram

Spec == Init /\ [][Next]_vars

-----------------------------------------------------------------------------
(* Properties.                                                             *)

\* readAddress takes 16 bytes for the host, whatever writeData() has written.
Misread == WritesVersion6 /\ EmptyData # 16

TypeOK ==
  /\ phase \in {"encode", "decode", "done", "thrown"}
  /\ message.class \in Classes /\ \E class \in Classes : message \in Messages(class)
  /\ \A n \in DOMAIN stream : stream[n][1] \in Nat \ {0} /\ stream[n][2] \in 1 .. stream[n][1]
  /\ offset \in Nat /\ (offset > Len(stream) => Misread)
  /\ \A f \in DOMAIN packet : packet[f] \in Nat \cup {Torn}
  /\ \A n \in DOMAIN addr : addr[n] \in 0 .. 255
  /\ port \in Nat \cup {Undefined}
  /\ \A n \in DOMAIN refs : refs[n] \in {"this", "error", "dummy"}
  /\ datagrams \in 0 .. MaxDatagrams

\* What becomes of the reply behind a version-6 address.
ReadBehind ==
  /\ packet["serverID"] = message.fields["serverID"]
  /\ offset = Len(stream) + 16 - EmptyData
  /\ EmptyData < 15 => packet["mtuSize"] = Torn /\ packet["serverSecurity"] = Torn

(* What decode reads is what encode wrote, field by field and to the last   *)
(* byte: the order of the calls agrees in both methods of each class, and   *)
(* the addresses of peers, of any version and number, leave the fields      *)
(* behind them in place.  The length of a name is written in characters, so *)
(* a name with characters of more bytes is cut, and the rest of it left     *)
(* unread.  Where writeAddress wrote a version-6 address, the reader is off *)
(* by what writeData() left out, and does not find the MTU.                 *)
FieldsSurvive ==
  phase = "done" =>
    IF Misread THEN ReadBehind
    ELSE /\ \A f \in DOMAIN message.fields :
              packet[f] = IF f = "serverName" /\ message.fields[f] \in MultiByte THEN Torn ELSE message.fields[f]
         /\ offset = Len(stream) \/ \E f \in DOMAIN message.fields :
                                       f = "serverName" /\ message.fields[f] \in MultiByte

\* The handler reads packet.serverAddress.port (OfflineMessageHandler.js:76):
\* an error is a string, which has no port.
PortRead(n) == IF refs[n] = "this" THEN port ELSE Undefined

(* Of an IPv4 address only the port gets through: the host read is          *)
(* 255.254.253.252, whatever was written, because writeAddress writes the   *)
(* indexes of the parts and readAddress complements them.  The port of a    *)
(* version-6 address gets through too, even written by writeAddress, and    *)
(* is never that of an earlier datagram through the same pooled packet:     *)
(* where readAddress keeps the fields the object has, it returns an error.  *)
OnlyThePortSurvives ==
  phase = "done" /\ Len(message.addresses) = 1 /\ message.class # "NewIncomingConnection" =>
    CASE message.addresses[1].version = 4 ->
           PortRead(1) = message.addresses[1].port /\ addr = <<255, 254, 253, 252>>
      [] message.addresses[1].version = 6 -> PortRead(1) = message.addresses[1].port
      [] OTHER -> PortRead(1) = Undefined

\* An address that readAddress knows how to read.
Known(a) == a.version \in {4, 6}

(* readAddress returns the packet itself, so NewIncomingConnection has one  *)
(* address: the port Session.js:349 compares with the server's is that of   *)
(* the last address of version 4 or 6, the first being only the first.      *)
LastAddressDecides ==
  phase = "done" /\ message.class = "NewIncomingConnection" /\ Known(message.addresses[1])
    => \E last \in DOMAIN message.addresses :
         /\ Known(message.addresses[last]) /\ PortRead(1) = message.addresses[last].port
         /\ \A n \in last + 1 .. Len(message.addresses) : ~Known(message.addresses[n])

=============================================================================
