--------------------------- MODULE Messages_proofs ---------------------------
(***************************************************************************)
(* Theorems about Messages, for any number of addresses and any values.     *)
(*                                                                          *)
(* The argument follows the calls of encode and decode.  While a message is *)
(* written, `ends` records what each call left in the stream (StreamInv);   *)
(* while it is read, the calls made so far have used up those of encode up  *)
(* to a known one (Consumed), and what they found is what that one wrote.   *)
(* That is lost behind one address, of version 6 in OpenConnectionReply2:   *)
(* from there on the reader keeps a distance from the writer (Behind).      *)
(***************************************************************************)
EXTENDS Messages, SequenceTheorems, TLAPS

-----------------------------------------------------------------------------
(* Bytes.                                                                  *)

Byte == {b \in (Nat \ {0}) \X Nat \X Nat : b[2] \in 1 .. b[1]}

(* A value of w bytes is w bytes.                                           *)
LEMMA BytesFacts ==
  ASSUME NEW w \in Nat, NEW v \in Nat
  PROVE  /\ Bytes(w, v) \in Seq(Byte) /\ Len(Bytes(w, v)) = w
         /\ \A k \in 1 .. w : Bytes(w, v)[k] = <<w, k, v>>
<1>1. \A k \in 1 .. w : <<w, k, v>> \in Byte
  BY DEF Byte
<1> QED
  BY <1>1 DEF Bytes

(* The bytes that are read at an offset.                                    *)
LEMMA Slice ==
  ASSUME NEW S, NEW s \in Seq(S), NEW off \in Nat, NEW w \in Nat, off + w <= Len(s)
  PROVE  LET t == SubSeq(s, off + 1, off + w)
         IN  /\ t \in Seq(S) /\ Len(t) = w
             /\ \A k \in 1 .. w : t[k] = s[off + k]
  OBVIOUS

(* A value that was written at an offset is read there.                     *)
LEMMA ReadBack ==
  ASSUME NEW s \in Seq(Byte), NEW off \in Nat, NEW w \in Nat \ {0}, NEW v \in Nat, off + w <= Len(s),
         \A k \in 1 .. w : s[off + k] = <<w, k, v>>
  PROVE  ValueAt(s, off, w) = v
<1> DEFINE t == SubSeq(s, off + 1, off + w)
<1>1. t \in Seq(Byte) /\ Len(t) = w /\ \A k \in 1 .. w : t[k] = <<w, k, v>>
  <2>1. w \in Nat
    OBVIOUS
  <2>2. t \in Seq(Byte) /\ Len(t) = w /\ \A k \in 1 .. w : t[k] = s[off + k]
    BY ONLY s \in Seq(Byte), off \in Nat, <2>1, off + w <= Len(s), Slice
  <2> QED
    BY <2>2
<1> HIDE DEF t
<1>2. t = Bytes(w, v)
  <2>1. /\ Bytes(w, v) \in Seq(Byte) /\ Len(Bytes(w, v)) = w
        /\ \A k \in 1 .. w : Bytes(w, v)[k] = <<w, k, v>>
    BY BytesFacts
  <2> QED
    BY <1>1, <2>1, SeqEqual
<1>3. t # <<>> /\ t[1] = <<w, 1, v>>
  <2>1. Len(<<>>) = 0
    OBVIOUS
  <2>2. 1 \in 1 .. w
    OBVIOUS
  <2> QED
    BY <1>1, <2>1, <2>2
<1>4. t[1][1] = w /\ t[1][3] = v
  BY <1>3
<1>5. Value(t) = v
  BY <1>2, <1>3, <1>4 DEF Value
<1> QED
  BY <1>5 DEF ValueAt, t

(* A value that is cut off is torn.                                         *)
LEMMA ReadCut ==
  ASSUME NEW s \in Seq(Byte), NEW off \in Nat, NEW w \in Nat, NEW n \in Nat, NEW v \in Nat,
         off + w <= Len(s), w < n, \A k \in 1 .. w : s[off + k] = <<n, k, v>>
  PROVE  ValueAt(s, off, w) = Torn
<1> DEFINE t == SubSeq(s, off + 1, off + w)
<1>1. t \in Seq(Byte) /\ Len(t) = w /\ \A k \in 1 .. w : t[k] = <<n, k, v>>
  BY Slice
<1> HIDE DEF t
<1>2. Len(Bytes(n, v)) = n
  BY BytesFacts
<1>3. t # <<>> => t[1] = <<n, 1, v>>
  BY <1>1, EmptySeq
<1>4. t # Bytes(n, v)
  BY <1>1, <1>2
<1>6. t # <<>> => t[1][1] = n /\ t[1][3] = v
  BY <1>3
<1>5. Value(t) = Torn
  BY <1>6, <1>4 DEF Value
<1> QED
  BY <1>5 DEF ValueAt, t

-----------------------------------------------------------------------------
(* The layouts.                                                            *)

Scalar == {"long", "short", "byte", "magic"}
Plain == {"magic", "sendPingTime", "sendPongTime", "sendTime", "clientId", "clientID", "serverId", "serverID",
          "mtuSize", "protocol", "protocolVersion", "serverSecurity", "useSecurity"}

\* The calls of encode: a number under a name, an address, the server's name.
Number == Scalar \X Plain
FirstAddress == <<"address", 1>>
NameCall == <<"string", "serverName">>
LayoutCall == Number \cup {FirstAddress, NameCall}

(* What encode calls: writers of distinct fields, of one address at most,   *)
(* and last of the server's name.                                           *)
Regular(e) ==
  /\ e \in Seq(LayoutCall)
  /\ \A n \in 1 .. Len(e) : e[n] = NameCall => n = Len(e)
  /\ \A n, m \in 1 .. Len(e) : e[n] \in Number /\ e[m] \in Number /\ e[n][2] = e[m][2] => n = m
  /\ \A n, m \in 1 .. Len(e) : e[n] = FirstAddress /\ e[m] = FirstAddress => n = m

Apart(a, b) ==
  /\ a \in Number /\ b \in Number => a[2] # b[2]
  /\ a = FirstAddress => b # FirstAddress

(* The calls that the classes make.                                         *)
LEMMA CallNames ==
  /\ <<"long", "sendPingTime">> \in Number
  /\ <<"magic", "magic">> \in Number
  /\ <<"long", "clientId">> \in Number
  /\ <<"long", "serverId">> \in Number
  /\ <<"byte", "protocol">> \in Number
  /\ <<"long", "serverID">> \in Number
  /\ <<"byte", "serverSecurity">> \in Number
  /\ <<"short", "mtuSize">> \in Number
  /\ <<"long", "clientID">> \in Number
  /\ <<"byte", "protocolVersion">> \in Number
  /\ <<"byte", "useSecurity">> \in Number
  /\ <<"long", "sendTime">> \in Number
  /\ <<"long", "sendPongTime">> \in Number
  /\ FirstAddress = <<"address", 1>> /\ NameCall = <<"string", "serverName">>
  /\ <<"address", 1>> \notin Number
  BY DEF Number, Scalar, Plain, FirstAddress, NameCall

(* Short tuples that are regular.                                           *)
LEMMA RegularTuples ==
  LET Inner == Number \cup {FirstAddress}
  IN  /\ Regular(<<>>)
      /\ \A a \in LayoutCall : Regular(<<a>>)
      /\ \A a \in Inner, b \in LayoutCall : Apart(a, b) => Regular(<<a, b>>)
      /\ \A a, b \in Inner, c \in LayoutCall :
           Apart(a, b) /\ Apart(a, c) /\ Apart(b, c) => Regular(<<a, b, c>>)
      /\ \A a, b, c \in Inner, d \in LayoutCall :
           /\ Apart(a, b) /\ Apart(a, c) /\ Apart(a, d) /\ Apart(b, c) /\ Apart(b, d) /\ Apart(c, d)
           => Regular(<<a, b, c, d>>)
      /\ \A a, b, c, d \in Inner, e \in LayoutCall :
           /\ Apart(a, b) /\ Apart(a, c) /\ Apart(a, d) /\ Apart(a, e) /\ Apart(b, c)
           /\ Apart(b, d) /\ Apart(b, e) /\ Apart(c, d) /\ Apart(c, e) /\ Apart(d, e)
           => Regular(<<a, b, c, d, e>>)
<1> DEFINE Inner == Number \cup {FirstAddress}
<1>1. Regular(<<>>)
  BY DEF Regular
<1>a. \A c \in Inner : c # NameCall
  BY DEF Number, FirstAddress, NameCall, Scalar
<1>2. ASSUME NEW a \in LayoutCall PROVE Regular(<<a>>)
  BY DEF Regular
<1>3. ASSUME NEW a \in Inner, NEW b \in LayoutCall, Apart(a, b) PROVE Regular(<<a, b>>)
  BY <1>3, <1>a DEF Regular, Apart, LayoutCall
<1>4. ASSUME NEW a \in Inner, NEW b \in Inner, NEW c \in LayoutCall, Apart(a, b), Apart(a, c), Apart(b, c)
      PROVE Regular(<<a, b, c>>)
  BY <1>4, <1>a DEF Regular, Apart, LayoutCall
<1>5. ASSUME NEW a \in Inner, NEW b \in Inner, NEW c \in Inner, NEW d \in LayoutCall,
             Apart(a, b), Apart(a, c), Apart(a, d), Apart(b, c), Apart(b, d), Apart(c, d)
      PROVE  Regular(<<a, b, c, d>>)
  BY <1>5, <1>a DEF Regular, Apart, LayoutCall
<1>6. ASSUME NEW a \in Inner, NEW b \in Inner, NEW c \in Inner, NEW d \in Inner, NEW e \in LayoutCall,
             Apart(a, b), Apart(a, c), Apart(a, d), Apart(a, e), Apart(b, c),
             Apart(b, d), Apart(b, e), Apart(c, d), Apart(c, e), Apart(d, e)
      PROVE  Regular(<<a, b, c, d, e>>)
  BY <1>6, <1>a DEF Regular, Apart, LayoutCall
<1> QED
  BY <1>1, <1>2, <1>3, <1>4, <1>5, <1>6, ZenonT(40)

(* Every class but NewIncomingConnection writes a regular sequence of calls *)
(* and reads it in the same order; OpenConnectionRequest1 goes on to read   *)
(* the length.                                                              *)
LEMMA Layouts ==
  ASSUME NEW class \in Classes \ {"NewIncomingConnection"}
  PROVE  LET layout == Layout[class]
         IN  /\ Regular(layout.encode)
             /\ \/ layout.decode = layout.encode /\ class # "OpenConnectionRequest1"
                \/ layout.decode = Append(layout.encode, <<"length", "mtuSize">>) /\ class = "OpenConnectionRequest1"
<1> USE DEF Apart
<1> USE DEF LayoutCall
<1>1. CASE class = "UnconnectedPing" \/ class = "UnconnectedPingOpenConnections"
  <2>1. Regular(UnconnectedPing.encode)
    BY CallNames, RegularTuples DEF UnconnectedPing
  <2>2. Layout[class] = UnconnectedPing /\ class # "OpenConnectionRequest1"
    BY <1>1 DEF Layout
  <2> QED
    BY <2>1, <2>2 DEF UnconnectedPing
<1>2. CASE class = "UnconnectedPong"
  <2>1. Regular(UnconnectedPong.encode)
    BY CallNames, RegularTuples DEF UnconnectedPong
  <2> QED
    BY <1>2, <2>1 DEF Layout, UnconnectedPong
<1>3. CASE class = "OpenConnectionRequest1"
  <2>1. Regular(OpenConnectionRequest1.encode)
    BY CallNames, RegularTuples DEF OpenConnectionRequest1
  <2>2. \A a, b, c : <<a, b, c>> = Append(<<a, b>>, c)
    OBVIOUS
  <2>3. /\ Layout[class] = OpenConnectionRequest1
        /\ OpenConnectionRequest1.encode = << <<"magic", "magic">>, <<"byte", "protocol">> >>
        /\ OpenConnectionRequest1.decode = << <<"magic", "magic">>, <<"byte", "protocol">>, <<"length", "mtuSize">> >>
    BY <1>3 DEF Layout, OpenConnectionRequest1
  <2> QED
    BY <1>3, <2>1, <2>2, <2>3
<1>4. CASE class = "OpenConnectionReply1"
  <2>1. Regular(OpenConnectionReply1.encode)
    BY CallNames, RegularTuples DEF OpenConnectionReply1
  <2> QED
    BY <1>4, <2>1 DEF Layout, OpenConnectionReply1
<1>5. CASE class = "OpenConnectionRequest2"
  <2>1. Regular(OpenConnectionRequest2.encode)
    BY CallNames, RegularTuples DEF OpenConnectionRequest2
  <2> QED
    BY <1>5, <2>1 DEF Layout, OpenConnectionRequest2
<1>6. CASE class = "OpenConnectionReply2"
  <2>1. Regular(OpenConnectionReply2.encode)
    BY CallNames, RegularTuples DEF OpenConnectionReply2
  <2> QED
    BY <1>6, <2>1 DEF Layout, OpenConnectionReply2
<1>7. CASE class = "IncompatibleProtocolVersion"
  <2>1. Regular(IncompatibleProtocolVersion.encode)
    BY CallNames, RegularTuples DEF IncompatibleProtocolVersion
  <2> QED
    BY <1>7, <2>1 DEF Layout, IncompatibleProtocolVersion
<1>8. CASE class = "ConnectionRequest"
  <2>1. Regular(ConnectionRequest.encode)
    BY CallNames, RegularTuples DEF ConnectionRequest
  <2> QED
    BY <1>8, <2>1 DEF Layout, ConnectionRequest
<1>9. CASE class = "ConnectedPing"
  <2>1. Regular(ConnectedPing.encode)
    BY CallNames, RegularTuples DEF ConnectedPing
  <2> QED
    BY <1>9, <2>1 DEF Layout, ConnectedPing
<1>10. CASE class = "ConnectedPong"
  <2>1. Regular(ConnectedPong.encode)
    BY CallNames, RegularTuples DEF ConnectedPong
  <2> QED
    BY <1>10, <2>1 DEF Layout, ConnectedPong
<1>11. CASE class = "AdvertiseSystem"
  <2>1. Regular(AdvertiseSystem.encode)
    BY CallNames, RegularTuples DEF AdvertiseSystem
  <2> QED
    BY <1>11, <2>1 DEF Layout, AdvertiseSystem
<1>12. CASE class = "DisconnectionNotification"
  <2>1. Regular(DisconnectionNotification.encode)
    BY CallNames, RegularTuples DEF DisconnectionNotification
  <2> QED
    BY <1>12, <2>1 DEF Layout, DisconnectionNotification
<1> QED
  BY <1>1, <1>2, <1>3, <1>4, <1>5, <1>6, <1>7, <1>8, <1>9, <1>10, <1>11, <1>12 DEF Classes, Layout

(* The short tuples are sequences.                                          *)
LEMMA TupleSeq ==
  ASSUME NEW S
  PROVE  /\ <<>> \in Seq(S)
         /\ \A a \in S : <<a>> \in Seq(S)
         /\ \A a, b \in S : <<a, b>> \in Seq(S)
         /\ \A a, b, c \in S : <<a, b, c>> \in Seq(S)
         /\ \A a, b, c, d \in S : <<a, b, c, d>> \in Seq(S)
         /\ \A a, b, c, d, e \in S : <<a, b, c, d, e>> \in Seq(S)
  OBVIOUS

(* The classes with an address, and those without.                          *)
LEMMA AddressLayouts ==
  ASSUME NEW class \in Classes \ {"NewIncomingConnection"}
  PROVE  LET e == Layout[class].encode
         IN  IF class \in {"OpenConnectionRequest2", "OpenConnectionReply2"}
             THEN \E n \in 1 .. Len(e) : e[n] = FirstAddress
             ELSE \A n \in 1 .. Len(e) : e[n] # FirstAddress
<1> DEFINE Rest == Number \cup {NameCall}
<1>a. FirstAddress \notin Rest
  BY DEF Number, Scalar, NameCall, FirstAddress
<1>b. \A e \in Seq(Rest) : \A n \in 1 .. Len(e) : e[n] # FirstAddress
  BY <1>a
<1>1. CASE class = "UnconnectedPing" \/ class = "UnconnectedPingOpenConnections"
  <2>1. UnconnectedPing.encode \in Seq(Rest)
    BY CallNames, TupleSeq DEF UnconnectedPing
  <2>2. Layout[class] = UnconnectedPing
    BY <1>1 DEF Layout
  <2> QED
    BY <1>1, <1>b, <2>1, <2>2
<1>2. CASE class = "UnconnectedPong"
  <2>1. UnconnectedPong.encode \in Seq(Rest)
    BY CallNames, TupleSeq DEF UnconnectedPong
  <2>2. Layout[class] = UnconnectedPong
    BY <1>2 DEF Layout
  <2> QED
    BY <1>2, <1>b, <2>1, <2>2
<1>3. CASE class = "OpenConnectionRequest1"
  <2>1. OpenConnectionRequest1.encode \in Seq(Rest)
    BY CallNames, TupleSeq DEF OpenConnectionRequest1
  <2>2. Layout[class] = OpenConnectionRequest1
    BY <1>3 DEF Layout
  <2> QED
    BY <1>3, <1>b, <2>1, <2>2
<1>4. CASE class = "OpenConnectionReply1"
  <2>1. OpenConnectionReply1.encode \in Seq(Rest)
    BY CallNames, TupleSeq DEF OpenConnectionReply1
  <2>2. Layout[class] = OpenConnectionReply1
    BY <1>4 DEF Layout
  <2> QED
    BY <1>4, <1>b, <2>1, <2>2
<1>5. CASE class = "IncompatibleProtocolVersion"
  <2>1. IncompatibleProtocolVersion.encode \in Seq(Rest)
    BY CallNames, TupleSeq DEF IncompatibleProtocolVersion
  <2>2. Layout[class] = IncompatibleProtocolVersion
    BY <1>5 DEF Layout
  <2> QED
    BY <1>5, <1>b, <2>1, <2>2
<1>6. CASE class = "ConnectionRequest"
  <2>1. ConnectionRequest.encode \in Seq(Rest)
    BY CallNames, TupleSeq DEF ConnectionRequest
  <2>2. Layout[class] = ConnectionRequest
    BY <1>6 DEF Layout
  <2> QED
    BY <1>6, <1>b, <2>1, <2>2
<1>7. CASE class = "ConnectedPing"
  <2>1. ConnectedPing.encode \in Seq(Rest)
    BY CallNames, TupleSeq DEF ConnectedPing
  <2>2. Layout[class] = ConnectedPing
    BY <1>7 DEF Layout
  <2> QED
    BY <1>7, <1>b, <2>1, <2>2
<1>8. CASE class = "ConnectedPong"
  <2>1. ConnectedPong.encode \in Seq(Rest)
    BY CallNames, TupleSeq DEF ConnectedPong
  <2>2. Layout[class] = ConnectedPong
    BY <1>8 DEF Layout
  <2> QED
    BY <1>8, <1>b, <2>1, <2>2
<1>9. CASE class = "AdvertiseSystem"
  <2>1. AdvertiseSystem.encode \in Seq(Rest)
    BY CallNames, TupleSeq DEF AdvertiseSystem
  <2>2. Layout[class] = AdvertiseSystem
    BY <1>9 DEF Layout
  <2> QED
    BY <1>9, <1>b, <2>1, <2>2
<1>10. CASE class = "DisconnectionNotification"
  <2>1. DisconnectionNotification.encode \in Seq(Rest)
    BY CallNames, TupleSeq DEF DisconnectionNotification
  <2>2. Layout[class] = DisconnectionNotification
    BY <1>10 DEF Layout
  <2> QED
    BY <1>10, <1>b, <2>1, <2>2
<1>11. CASE class = "OpenConnectionRequest2"
  <2>1. Layout[class] = OpenConnectionRequest2
    BY <1>11 DEF Layout
  <2>2. Len(OpenConnectionRequest2.encode) = 4 /\ OpenConnectionRequest2.encode[2] = FirstAddress
    BY DEF OpenConnectionRequest2, FirstAddress
  <2> QED
    BY <1>11, <2>1, <2>2
<1>12. CASE class = "OpenConnectionReply2"
  <2>1. Layout[class] = OpenConnectionReply2
    BY <1>12 DEF Layout
  <2>2. Len(OpenConnectionReply2.encode) = 5 /\ OpenConnectionReply2.encode[3] = FirstAddress
    BY DEF OpenConnectionReply2, FirstAddress
  <2> QED
    BY <1>12, <2>1, <2>2
<1> QED
  BY <1>1, <1>2, <1>3, <1>4, <1>5, <1>6, <1>7, <1>8, <1>9, <1>10, <1>11, <1>12 DEF Classes, Layout

-----------------------------------------------------------------------------
(* Messages and the calls that write them.                                 *)

(* NewIncomingConnection ends with two times.                               *)
LEMMA Times ==
  LET e == Layout["NewIncomingConnection"].encode
  IN  /\ "NewIncomingConnection" \in Classes
      /\ e = << <<"long", "sendPingTime">>, <<"long", "sendPongTime">> >>
      /\ e[1] \in Number /\ e[2] \in Number /\ e[1][2] # e[2][2]
      /\ Len(e) = 2 /\ e \in Seq(LayoutCall)
<1> DEFINE e == Layout["NewIncomingConnection"].encode
<1>1. "NewIncomingConnection" \in Classes
  BY DEF Classes, Layout
<1>2. e = << <<"long", "sendPingTime">>, <<"long", "sendPongTime">> >>
  BY DEF Layout, NewIncomingConnection
<1>3. <<"long", "sendPingTime">> \in Number /\ <<"long", "sendPongTime">> \in Number
  BY DEF Number, Scalar, Plain
<1> HIDE DEF e
<1>4. <<"long", "sendPingTime">> \in LayoutCall /\ <<"long", "sendPongTime">> \in LayoutCall
  BY <1>3 DEF LayoutCall
<1>5. e \in Seq(LayoutCall)
  BY <1>2, <1>4, TupleSeq
<1>6. Len(e) = 2 /\ e[1] = <<"long", "sendPingTime">> /\ e[2] = <<"long", "sendPongTime">>
  BY <1>2
<1>7. e[1][2] # e[2][2]
  BY <1>6
<1> QED
  BY <1>1, <1>2, <1>3, <1>5, <1>6, <1>7 DEF e

(* The fields of a message are those its class writes, with values of their *)
(* kind.                                                                    *)
LEMMA FieldFacts ==
  ASSUME NEW class \in Classes, Layout[class].encode \in Seq(LayoutCall), NEW f \in FieldsOf(class)
  PROVE  LET e == Layout[class].encode
         IN  /\ \A n \in 1 .. Len(e) : e[n] \in Number => e[n][2] \in DOMAIN f /\ f[e[n][2]] \in Nat
             /\ \A n \in 1 .. Len(e) : e[n] = NameCall => "serverName" \in DOMAIN f /\ f["serverName"] \in Names
             /\ \A x \in DOMAIN f : \E n \in 1 .. Len(e) : e[n] \in Number \cup {NameCall} /\ e[n][2] = x
<1> DEFINE e == Layout[class].encode
           S == Scalars(e)
<1>1. /\ DOMAIN f = {c[2] : c \in S}
      /\ \A c \in S : f[c[2]] \in FieldValues(c)
  BY DEF FieldsOf
<1>2. e \in Seq(LayoutCall) /\ DOMAIN e = 1 .. Len(e)
  OBVIOUS
<1> HIDE DEF e
<1>3. \A c \in Number : c[1] \in Scalar
  BY DEF Number
<1>4. \A n \in 1 .. Len(e) : e[n] \in LayoutCall
  BY <1>2
<1>5. \A n \in 1 .. Len(e) : e[n] \in Number \cup {NameCall} => e[n] \in S
  BY <1>2, <1>3 DEF Scalars, Scalar, NameCall
<1>6. \A c \in S : \E n \in 1 .. Len(e) : c = e[n] /\ e[n] \in Number \cup {NameCall}
  BY <1>2, <1>4 DEF Scalars, LayoutCall, FirstAddress
<1>7. \A c \in Number : FieldValues(c) \subseteq Nat
  <2> SUFFICES ASSUME NEW c \in Number PROVE FieldValues(c) \subseteq Nat
    OBVIOUS
  <2>1. c[1] \in Scalar
    BY <1>3
  <2> QED
    BY <2>1, MessagesAssumption DEF FieldValues, Scalar, MAGIC
<1>8. FieldValues(NameCall) = Names /\ NameCall[2] = "serverName"
  BY DEF FieldValues, NameCall
<1>9. ASSUME NEW n \in 1 .. Len(e), e[n] \in Number PROVE e[n][2] \in DOMAIN f /\ f[e[n][2]] \in Nat
  <2>1. e[n] \in S
    BY <1>9, <1>5
  <2> QED
    BY <2>1, <1>1, <1>7, <1>9
<1>10. ASSUME NEW n \in 1 .. Len(e), e[n] = NameCall
       PROVE  "serverName" \in DOMAIN f /\ f["serverName"] \in Names
  <2>1. NameCall \in S
    BY <1>10, <1>5
  <2> QED
    BY <2>1, <1>1, <1>8
<1>11. ASSUME NEW x \in DOMAIN f
       PROVE  \E n \in 1 .. Len(e) : e[n] \in Number \cup {NameCall} /\ e[n][2] = x
  <2>1. PICK c \in S : x = c[2]
    BY <1>1
  <2> QED
    BY <2>1, <1>6
<1> QED
  BY <1>9, <1>10, <1>11 DEF e

AddressCall == {"address"} \X (Nat \ {0})
Call == Number \cup AddressCall \cup {NameCall}

(* The three kinds of calls are apart.                                      *)
LEMMA CallKinds ==
  /\ Number \cap AddressCall = {}
  /\ NameCall \notin Number /\ NameCall \notin AddressCall
  /\ FirstAddress \in AddressCall /\ FirstAddress \notin Number
  /\ LayoutCall \subseteq Call
<1>1. Number \cap AddressCall = {}
  BY DEF Number, Scalar, AddressCall
<1>2. NameCall \notin Number /\ NameCall \notin AddressCall
  BY DEF Number, Scalar, AddressCall, NameCall
<1>3. FirstAddress \in AddressCall
  BY DEF FirstAddress, AddressCall
<1> QED
  BY <1>1, <1>2, <1>3 DEF LayoutCall, Call

\* The name is written last, no field twice, and the addresses in order.
Ordered(e) ==
  /\ e \in Seq(Call)
  /\ \A n \in 1 .. Len(e) : e[n] = NameCall => n = Len(e)
  /\ \A n, k \in 1 .. Len(e) : e[n] \in Number /\ e[k] \in Number /\ e[n][2] = e[k][2] => n = k
  /\ \A n, k \in 1 .. Len(e) : n < k /\ e[n] \in AddressCall /\ e[k] \in AddressCall => e[n][2] < e[k][2]

\* Every field is written, and has a value of the kind that is written.
WritesFields(m, e) ==
  /\ \A n \in 1 .. Len(e) : e[n] \in Number => e[n][2] \in DOMAIN m.fields /\ m.fields[e[n][2]] \in Nat
  /\ \A n \in 1 .. Len(e) : e[n] = NameCall => "serverName" \in DOMAIN m.fields /\ m.fields["serverName"] \in Names
  /\ \A f \in DOMAIN m.fields : \E n \in 1 .. Len(e) : e[n] \in Number \cup {NameCall} /\ e[n][2] = f

\* And so is every address.
WritesAddresses(m, e) ==
  /\ m.addresses \in Seq(Address)
  /\ \A n \in 1 .. Len(e) : e[n] \in AddressCall => e[n][2] \in 1 .. Len(m.addresses)
  /\ m.class = "NewIncomingConnection" =>
       /\ Len(m.addresses) \in 1 .. SystemAddresses + 1 /\ Len(e) = Len(m.addresses) + 2
       /\ \A n \in 1 .. Len(m.addresses) : e[n] = <<"address", n>>
       /\ \A k \in 1 .. 2 : e[Len(m.addresses) + k] = Layout["NewIncomingConnection"].encode[k]
  /\ m.class # "NewIncomingConnection" =>
       /\ Len(m.addresses) \in 0 .. 1
       /\ Len(m.addresses) = 1 => \E n \in 1 .. Len(e) : e[n] = FirstAddress

(* A function on 1 .. n is a sequence.                                      *)
LEMMA FunctionSeq ==
  ASSUME NEW S, NEW n \in Nat, NEW f \in [1 .. n -> S]
  PROVE  f \in Seq(S) /\ Len(f) = n
  OBVIOUS

(* The elements of a concatenation.                                         *)
LEMMA Concat ==
  ASSUME NEW S, NEW s \in Seq(S), NEW t \in Seq(S)
  PROVE  /\ s \o t \in Seq(S) /\ Len(s \o t) = Len(s) + Len(t)
         /\ \A n \in 1 .. Len(s) : (s \o t)[n] = s[n]
         /\ \A n \in 1 .. Len(t) : (s \o t)[Len(s) + n] = t[n]
  OBVIOUS

(* The calls of a class without a list of addresses.                        *)
LEMMA EncodeFactsOneAddress ==
  ASSUME NEW class \in Classes \ {"NewIncomingConnection"}, NEW m \in Messages(class)
  PROVE  Ordered(EncodeCalls(m)) /\ WritesFields(m, EncodeCalls(m)) /\ WritesAddresses(m, EncodeCalls(m))
<1> DEFINE e == Layout[class].encode
<1>1. m.class = class /\ m.fields \in FieldsOf(class) /\ m.addresses \in AddressesOf(class)
  BY DEF Messages
<1>2. EncodeCalls(m) = e
  BY <1>1 DEF EncodeCalls
<1>3. Regular(e)
  BY Layouts
<1>4. e \in Seq(LayoutCall)
  BY <1>3 DEF Regular
<1>5. IF class \in {"OpenConnectionRequest2", "OpenConnectionReply2"}
      THEN \E n \in 1 .. Len(e) : e[n] = FirstAddress
      ELSE \A n \in 1 .. Len(e) : e[n] # FirstAddress
  BY AddressLayouts
<1>6. WritesFields(m, e)
  BY <1>1, <1>4, FieldFacts DEF WritesFields
<1> HIDE DEF e
<1>7. \A n \in 1 .. Len(e) : e[n] \in LayoutCall
  BY <1>4
<1>8. \A n \in 1 .. Len(e) : e[n] \in AddressCall => e[n] = FirstAddress
  BY <1>7, CallKinds DEF LayoutCall
<1>9. Ordered(e)
  <2>1. e \in Seq(Call)
    BY <1>4, CallKinds
  <2>2. \A n, k \in 1 .. Len(e) : n < k /\ e[n] \in AddressCall /\ e[k] \in AddressCall => e[n][2] < e[k][2]
    <3>1. \A n, k \in 1 .. Len(e) : e[n] = FirstAddress /\ e[k] = FirstAddress => n = k
      BY <1>3 DEF Regular
    <3> QED
      BY <1>8, <3>1
  <2>3. \A n \in 1 .. Len(e) : e[n] = NameCall => n = Len(e)
    BY <1>3 DEF Regular
  <2>4. \A n, k \in 1 .. Len(e) : e[n] \in Number /\ e[k] \in Number /\ e[n][2] = e[k][2] => n = k
    BY <1>3 DEF Regular
  <2> QED
    BY <2>1, <2>2, <2>3, <2>4 DEF Ordered
<1>10. /\ m.addresses \in Seq(Address)
       /\ IF class \in {"OpenConnectionRequest2", "OpenConnectionReply2"}
          THEN Len(m.addresses) = 1 ELSE Len(m.addresses) = 0
  <2>1. CASE class \in {"OpenConnectionRequest2", "OpenConnectionReply2"}
    <3>1. m.addresses \in [1 .. 1 -> Address]
      BY <1>1, <2>1 DEF AddressesOf
    <3>2. m.addresses \in Seq(Address) /\ Len(m.addresses) = 1
      BY ONLY <3>1, FunctionSeq
    <3> QED
      BY <2>1, <3>2
  <2>2. CASE class \notin {"OpenConnectionRequest2", "OpenConnectionReply2"}
    <3>1. m.addresses = <<>>
      BY <1>1, <2>2 DEF AddressesOf
    <3> QED
      BY <2>2, <3>1
  <2> QED
    BY <2>1, <2>2
<1>11. FirstAddress[2] = 1
  BY DEF FirstAddress
<1>12. WritesAddresses(m, e)
  <2>1. Len(m.addresses) \in 0 .. 1 /\ (Len(m.addresses) = 1 => \E n \in 1 .. Len(e) : e[n] = FirstAddress)
    BY <1>5, <1>10
  <2>2. ASSUME NEW n \in 1 .. Len(e), e[n] \in AddressCall PROVE e[n][2] \in 1 .. Len(m.addresses)
    <3>1. e[n] = FirstAddress
      BY <2>2, <1>8
    <3>2. Len(m.addresses) = 1
      BY <3>1, <1>5, <1>10
    <3> QED
      BY <3>1, <3>2, <1>11
  <2> QED
    BY <1>1, <1>10, <2>1, <2>2 DEF WritesAddresses
<1> QED
  BY <1>2, <1>6, <1>9, <1>12

(* The calls of NewIncomingConnection.                                      *)
LEMMA EncodeFactsManyAddresses ==
  ASSUME NEW m \in Messages("NewIncomingConnection")
  PROVE  Ordered(EncodeCalls(m)) /\ WritesFields(m, EncodeCalls(m)) /\ WritesAddresses(m, EncodeCalls(m))
<1> DEFINE t == Layout["NewIncomingConnection"].encode
           A == Len(m.addresses)
           a == [n \in 1 .. A |-> <<"address", n>>]
           e == EncodeCalls(m)
<1>1. /\ m.class = "NewIncomingConnection" /\ m.fields \in FieldsOf("NewIncomingConnection")
      /\ m.addresses \in AddressesOf("NewIncomingConnection")
  BY DEF Messages
<1>2. m.addresses \in Seq(Address) /\ A \in 1 .. SystemAddresses + 1
  <2>1. m.addresses \in UNION {[1 .. n -> Address] : n \in 1 .. SystemAddresses + 1}
    BY <1>1 DEF AddressesOf
  <2>2. PICK n \in 1 .. SystemAddresses + 1 : m.addresses \in [1 .. n -> Address]
    BY <2>1
  <2>3. SystemAddresses \in Nat
    BY MessagesAssumption
  <2> QED
    BY <2>2, <2>3
<1>3. e = a \o t
  BY <1>1 DEF EncodeCalls
<1>4. /\ t[1] \in Number /\ t[2] \in Number /\ t[1][2] # t[2][2] /\ Len(t) = 2 /\ t \in Seq(LayoutCall)
      /\ "NewIncomingConnection" \in Classes
  BY Times
<1>5. WritesFields(m, t)
  BY <1>1, <1>4, FieldFacts DEF WritesFields
<1> HIDE DEF t, e
<1>6. t \in Seq(Call)
  BY <1>4, CallKinds
<1>7. a \in Seq(Call) /\ Len(a) = A /\ \A n \in 1 .. A : a[n] = <<"address", n>> /\ a[n] \in AddressCall
  BY <1>2 DEF Call, AddressCall
<1> HIDE DEF a
<1>8. /\ e \in Seq(Call) /\ Len(e) = A + 2
      /\ \A n \in 1 .. A : e[n] = <<"address", n>> /\ e[n] \in AddressCall
      /\ e[A + 1] = t[1] /\ e[A + 2] = t[2]
  <2>1. A \in Nat
    BY <1>2
  <2> HIDE DEF A
  <2>a. a \in Seq(Call) /\ Len(a) = A /\ Len(t) = 2
    BY <1>4, <1>7
  <2>b. /\ a \o t \in Seq(Call) /\ Len(a \o t) = Len(a) + Len(t)
        /\ \A n \in 1 .. Len(a) : (a \o t)[n] = a[n]
        /\ \A n \in 1 .. Len(t) : (a \o t)[Len(a) + n] = t[n]
    <3>1. a \in Seq(Call)
      BY <2>a
    <3> QED
      BY ONLY <3>1, <1>6, Concat
  <2>2. e \in Seq(Call) /\ Len(e) = A + 2
    BY <1>3, <2>a, <2>b
  <2>3. \A n \in 1 .. A : e[n] = a[n]
    BY <1>3, <2>a, <2>b
  <2>4. e[A + 1] = t[1] /\ e[A + 2] = t[2]
    <3>1. 1 \in 1 .. Len(t) /\ 2 \in 1 .. Len(t)
      BY <2>a
    <3>2. (a \o t)[Len(a) + 1] = t[1] /\ (a \o t)[Len(a) + 2] = t[2]
      BY ONLY <2>b, <3>1
    <3> QED
      BY <3>2, <1>3, <2>a
  <2> QED
    BY <2>2, <2>3, <2>4, <1>7
<1>9. \A n \in 1 .. Len(e) : n \in 1 .. A \/ n = A + 1 \/ n = A + 2
  BY <1>2, <1>8
<1>10. /\ \A n \in 1 .. A : e[n] \notin Number /\ e[n] # NameCall
       /\ e[A + 1] \notin AddressCall /\ e[A + 2] \notin AddressCall
       /\ e[A + 1] # NameCall /\ e[A + 2] # NameCall
  BY <1>4, <1>8, CallKinds
<1>11. Ordered(e)
  <2>1. \A n \in 1 .. Len(e) : e[n] = NameCall => n = Len(e)
    BY <1>9, <1>10
  <2>2. \A n, k \in 1 .. Len(e) : e[n] \in Number /\ e[k] \in Number /\ e[n][2] = e[k][2] => n = k
    BY <1>4, <1>8, <1>9, <1>10
  <2>3. \A n, k \in 1 .. Len(e) : n < k /\ e[n] \in AddressCall /\ e[k] \in AddressCall => e[n][2] < e[k][2]
    BY <1>8, <1>9, <1>10
  <2> QED
    BY <1>8, <2>1, <2>2, <2>3 DEF Ordered
<1>12. WritesFields(m, e)
  <2>1. ASSUME NEW n \in 1 .. Len(e), e[n] \in Number
        PROVE  e[n][2] \in DOMAIN m.fields /\ m.fields[e[n][2]] \in Nat
    <3>1. PICK k \in 1 .. 2 : e[n] = t[k]
      BY <2>1, <1>8, <1>9, <1>10
    <3> QED
      BY <3>1, <2>1, <1>4, <1>5 DEF WritesFields
  <2>2. \A n \in 1 .. Len(e) : e[n] # NameCall
    BY <1>9, <1>10
  <2>3. ASSUME NEW f \in DOMAIN m.fields
        PROVE  \E n \in 1 .. Len(e) : e[n] \in Number \cup {NameCall} /\ e[n][2] = f
    <3>1. PICK k \in 1 .. 2 : t[k] \in Number \cup {NameCall} /\ t[k][2] = f
      BY <1>4, <1>5 DEF WritesFields
    <3>2. A + k \in 1 .. Len(e) /\ e[A + k] = t[k]
      BY <1>2, <1>8
    <3> QED
      BY <3>1, <3>2
  <2> QED
    BY <2>1, <2>2, <2>3 DEF WritesFields
<1>13. WritesAddresses(m, e)
  <2>1. \A n \in 1 .. Len(e) : e[n] \in AddressCall => e[n][2] \in 1 .. A
    BY <1>8, <1>9, <1>10
  <2>2. \A k \in 1 .. 2 : e[A + k] = t[k]
    BY <1>8
  <2> QED
    BY <1>1, <1>2, <1>8, <2>1, <2>2 DEF WritesAddresses, t
<1> QED
  BY <1>11, <1>12, <1>13 DEF e

(* What is written of a message, for every class.                           *)
LEMMA EncodeFacts ==
  ASSUME NEW class \in Classes, NEW m \in Messages(class)
  PROVE  /\ m.class = class
         /\ Ordered(EncodeCalls(m)) /\ WritesFields(m, EncodeCalls(m)) /\ WritesAddresses(m, EncodeCalls(m))
<1>1. m.class = class
  BY DEF Messages
<1> QED
  BY <1>1, EncodeFactsOneAddress, EncodeFactsManyAddresses

-----------------------------------------------------------------------------
(* What a call writes, and what is read where it was written.              *)

\* The value of a field that is read: a name that is cut is torn.
Expected(m, f) == IF f = "serverName" /\ m.fields[f] \in MultiByte THEN Torn ELSE m.fields[f]

(* A number.                                                                *)
LEMMA NumberWritten ==
  ASSUME NEW class \in Classes, NEW m \in Messages(class), NEW n \in 1 .. Len(EncodeCalls(m)),
         EncodeCalls(m)[n] \in Number
  PROVE  LET call == EncodeCalls(m)[n]
             v == m.fields[call[2]]
         IN  /\ call[1] \in DOMAIN Width /\ Width[call[1]] \in Nat \ {0}
             /\ v \in Nat /\ v = Expected(m, call[2])
             /\ Written(m, call) = Bytes(Width[call[1]], v)
<1> DEFINE call == EncodeCalls(m)[n]
           v == m.fields[call[2]]
<1>1. call[1] \in Scalar /\ call[2] \in Plain
  BY DEF Number
<1>2. v \in Nat
  BY EncodeFacts DEF WritesFields
<1> HIDE DEF call
<1>3. call[1] \in DOMAIN Width /\ Width[call[1]] \in Nat \ {0}
  BY <1>1 DEF Scalar, Width
<1>4. Written(m, call) = Bytes(Width[call[1]], v)
  <2>1. call[1] # "string" /\ call[1] # "address"
    BY <1>1 DEF Scalar
  <2> QED
    BY <1>3, <2>1 DEF Written
<1>5. v = Expected(m, call[2])
  BY <1>1 DEF Expected, Plain
<1> QED
  BY <1>2, <1>3, <1>4, <1>5 DEF call

(* The name of a server.                                                    *)
LEMMA NameWritten ==
  ASSUME NEW class \in Classes, NEW m \in Messages(class), NEW n \in 1 .. Len(EncodeCalls(m)),
         EncodeCalls(m)[n] = NameCall
  PROVE  LET name == m.fields["serverName"]
         IN  /\ "serverName" \in DOMAIN m.fields /\ name \in Nat \ {0}
             /\ Chars(name) \in Nat /\ Chars(name) = IF name \in MultiByte THEN name - 1 ELSE name
             /\ Written(m, NameCall) = Bytes(2, Chars(name)) \o Bytes(name, name)
             /\ Expected(m, "serverName") = IF name \in MultiByte THEN Torn ELSE name
<1> DEFINE name == m.fields["serverName"]
<1>1. "serverName" \in DOMAIN m.fields /\ name \in Names
  BY EncodeFacts DEF WritesFields
<1>2. name \in Nat \ {0}
  BY <1>1, MessagesAssumption
<1>3. Chars(name) \in Nat /\ Chars(name) = IF name \in MultiByte THEN name - 1 ELSE name
  BY <1>2 DEF Chars
<1>4. Written(m, NameCall) = Bytes(2, Chars(name)) \o Bytes(name, name)
  BY DEF Written, Width, NameCall
<1> QED
  BY <1>1, <1>2, <1>3, <1>4 DEF Expected

\* An address of version 6 with so many bytes for its host.
VersionSix(port6, data) ==
  Bytes(1, 6) \o Bytes(2, 0) \o Bytes(2, port6) \o Bytes(4, 0) \o Bytes(data, 0) \o Bytes(4, 0)

(* It has thirteen bytes besides the host, the port being the fourth and    *)
(* the fifth: it splits into pieces of known lengths.                       *)
LEMMA SixPieces ==
  ASSUME NEW port6 \in Nat, NEW data \in Nat
  PROVE  \E x, y, z \in Seq(Byte) :
           /\ VersionSix(port6, data) = (((Bytes(1, 6) \o x) \o Bytes(2, port6)) \o y) \o z
           /\ Len(x) = 2 /\ Len(y) = 4 /\ Len(z) = data + 4
<1>1. \A w, v \in Nat : Bytes(w, v) \in Seq(Byte) /\ Len(Bytes(w, v)) = w
  BY BytesFacts
<1> DEFINE x == Bytes(2, 0)
           y == Bytes(4, 0)
           u == Bytes(data, 0)
           z == u \o y
           a == Bytes(1, 6)
           b == Bytes(2, port6)
<1>2. x \in Seq(Byte) /\ y \in Seq(Byte) /\ u \in Seq(Byte) /\ a \in Seq(Byte) /\ b \in Seq(Byte)
  BY <1>1
<1>3. Len(x) = 2 /\ Len(y) = 4 /\ Len(u) = data
  BY <1>1
<1>4. VersionSix(port6, data) = ((((a \o x) \o b) \o y) \o u) \o y
  BY DEF VersionSix
<1> HIDE DEF x, y, u, a, b
<1> HIDE DEF z
<1>5. z \in Seq(Byte) /\ Len(z) = data + 4
  <2>1. u \in Seq(Byte) /\ y \in Seq(Byte) /\ Len(u) = data /\ Len(y) = 4
    BY <1>2, <1>3
  <2>2. u \in Seq(Byte)
    BY <2>1
  <2>3. y \in Seq(Byte)
    BY <2>1
  <2>4. u \o y \in Seq(Byte) /\ Len(u \o y) = Len(u) + Len(y)
    BY ONLY <2>2, <2>3, Concat
  <2> QED
    BY <2>1, <2>4 DEF z
<1>6. \A p, q, r \in Seq(Byte) : (p \o q) \o r = p \o (q \o r)
  OBVIOUS
<1>7. ((a \o x) \o b) \o y \in Seq(Byte)
  <2>1. a \o x \in Seq(Byte)
    BY <1>2
  <2>2. (a \o x) \o b \in Seq(Byte)
    BY <1>2, <2>1
  <2> QED
    BY <1>2, <2>2
<1>8. VersionSix(port6, data) = (((a \o x) \o b) \o y) \o z
  BY <1>2, <1>4, <1>6, <1>7 DEF z
<1> QED
  BY <1>2, <1>3, <1>5, <1>8 DEF a, b

(* Its bytes.                                                               *)
LEMMA SixBytes ==
  ASSUME NEW port6 \in Nat, NEW data \in Nat
  PROVE  VersionSix(port6, data) \in Seq(Byte) /\ Len(VersionSix(port6, data)) = 13 + data
<1>1. PICK x \in Seq(Byte), y \in Seq(Byte), z \in Seq(Byte) :
        /\ VersionSix(port6, data) = (((Bytes(1, 6) \o x) \o Bytes(2, port6)) \o y) \o z
        /\ Len(x) = 2 /\ Len(y) = 4 /\ Len(z) = data + 4
  BY SixPieces
<1> DEFINE a == Bytes(1, 6)
           b == Bytes(2, port6)
<1>2. a \in Seq(Byte) /\ b \in Seq(Byte) /\ Len(a) = 1 /\ Len(b) = 2
  BY BytesFacts
<1>3. VersionSix(port6, data) = (((a \o x) \o b) \o y) \o z
  BY <1>1
<1> DEFINE c == a \o x
           d == c \o b
           e == d \o y
<1>9. VersionSix(port6, data) = e \o z
  BY <1>3
<1> HIDE DEF a, b, c, d, e
<1>4. c \in Seq(Byte) /\ Len(c) = 3
  <2>1. a \in Seq(Byte) /\ x \in Seq(Byte) /\ Len(a) = 1 /\ Len(x) = 2
    BY <1>1, <1>2
  <2>2. a \in Seq(Byte)
    BY <2>1
  <2>3. x \in Seq(Byte)
    BY <2>1
  <2>4. a \o x \in Seq(Byte) /\ Len(a \o x) = Len(a) + Len(x)
    BY ONLY <2>2, <2>3, Concat
  <2> QED
    BY <2>1, <2>4 DEF c
<1>5. d \in Seq(Byte) /\ Len(d) = 5
  <2>1. c \in Seq(Byte) /\ b \in Seq(Byte) /\ Len(c) = 3 /\ Len(b) = 2
    BY <1>2, <1>4
  <2>2. c \in Seq(Byte)
    BY <2>1
  <2>3. b \in Seq(Byte)
    BY <2>1
  <2>4. c \o b \in Seq(Byte) /\ Len(c \o b) = Len(c) + Len(b)
    BY ONLY <2>2, <2>3, Concat
  <2> QED
    BY <2>1, <2>4 DEF d
<1>6. e \in Seq(Byte) /\ Len(e) = 9
  <2>1. d \in Seq(Byte) /\ y \in Seq(Byte) /\ Len(d) = 5 /\ Len(y) = 4
    BY <1>1, <1>5
  <2>2. d \in Seq(Byte)
    BY <2>1
  <2>3. y \in Seq(Byte)
    BY <2>1
  <2>4. d \o y \in Seq(Byte) /\ Len(d \o y) = Len(d) + Len(y)
    BY ONLY <2>2, <2>3, Concat
  <2> QED
    BY <2>1, <2>4 DEF e
<1>7. e \o z \in Seq(Byte) /\ Len(e \o z) = 13 + data
  <2>1. e \in Seq(Byte) /\ z \in Seq(Byte) /\ Len(e) = 9 /\ Len(z) = data + 4
    BY <1>1, <1>6
  <2>2. e \in Seq(Byte)
    BY <2>1
  <2>3. z \in Seq(Byte)
    BY <2>1
  <2>4. e \o z \in Seq(Byte) /\ Len(e \o z) = Len(e) + Len(z)
    BY ONLY <2>2, <2>3, Concat
  <2> QED
    BY <2>1, <2>4
<1> QED
  BY <1>7, <1>9

(* An address: seven bytes, or thirteen besides a host, or the version      *)
(* alone.                                                                   *)
LEMMA AddressWritten ==
  ASSUME NEW class \in Classes, NEW m \in Messages(class), NEW n \in 1 .. Len(EncodeCalls(m)),
         EncodeCalls(m)[n] \in AddressCall
  PROVE  LET a == m.addresses[EncodeCalls(m)[n][2]]
         IN  /\ a.version \in Nat /\ a.port \in Nat
             /\ Written(m, EncodeCalls(m)[n]) =
                  IF a.version = 4
                  THEN Bytes(1, 4) \o Bytes(1, 0) \o Bytes(1, 1) \o Bytes(1, 2) \o Bytes(1, 3) \o Bytes(2, a.port)
                  ELSE IF a.version = 6 THEN VersionSix(a.port, HostBytes(m)) ELSE Bytes(1, a.version)
             /\ HostBytes(m) \in Nat
<1> DEFINE call == EncodeCalls(m)[n]
           a == m.addresses[call[2]]
<1>1. call[1] = "address" /\ call[2] \in 1 .. Len(m.addresses) /\ m.addresses \in Seq(Address)
  BY EncodeFacts DEF AddressCall, WritesAddresses
<1> HIDE DEF call
<1>2. a \in Address
  BY <1>1
<1>3. a.version \in Nat /\ a.port \in Nat /\ Len(a.host) >= 4 /\ a.host \in Seq(Nat)
  BY <1>2, MessagesAssumption DEF Address
<1> HIDE DEF a
<1>4. Len(Parts(a.host)) = 4
  BY <1>3 DEF Parts
<1>5. Written(m, call) = WriteAddress(a, HostBytes(m))
  BY <1>1 DEF Written, Width, a
<1>6. WriteAddress(a, HostBytes(m)) =
        IF a.version = 4
        THEN Bytes(1, 4) \o Bytes(1, 0) \o Bytes(1, 1) \o Bytes(1, 2) \o Bytes(1, 3) \o Bytes(2, a.port)
        ELSE IF a.version = 6 THEN VersionSix(a.port, HostBytes(m)) ELSE Bytes(1, a.version)
  BY <1>4 DEF WriteAddress, HostByte, VersionSix
<1>7. HostBytes(m) \in Nat
  BY MessagesAssumption DEF HostBytes
<1> QED
  BY <1>3, <1>5, <1>6, <1>7 DEF call, a

(* Every call writes at least one byte.                                     *)
LEMMA WrittenIsBytes ==
  ASSUME NEW class \in Classes, NEW m \in Messages(class), NEW n \in 1 .. Len(EncodeCalls(m))
  PROVE  LET w == Written(m, EncodeCalls(m)[n])
         IN  w \in Seq(Byte) /\ Len(w) \in Nat /\ Len(w) >= 1
<1> DEFINE call == EncodeCalls(m)[n]
           w == Written(m, call)
<1> SUFFICES w \in Seq(Byte) /\ Len(w) \in Nat /\ Len(w) >= 1
  OBVIOUS
<1>1. call \in Call
  BY EncodeFacts DEF Ordered
<1>2. CASE call \in Number
  <2>1. /\ w = Bytes(Width[call[1]], m.fields[call[2]])
        /\ Width[call[1]] \in Nat \ {0} /\ m.fields[call[2]] \in Nat
    BY <1>2, NumberWritten
  <2>2. Width[call[1]] \in Nat /\ Width[call[1]] >= 1
    BY <2>1
  <2> HIDE DEF w, call
  <2>3. /\ Bytes(Width[call[1]], m.fields[call[2]]) \in Seq(Byte)
        /\ Len(Bytes(Width[call[1]], m.fields[call[2]])) = Width[call[1]]
    BY <2>1, <2>2, BytesFacts, Zenon
  <2> QED
    BY <2>1, <2>2, <2>3
<1>3. CASE call = NameCall
  <2> DEFINE name == m.fields["serverName"]
  <2>1. /\ w = Bytes(2, Chars(name)) \o Bytes(name, name)
        /\ name \in Nat \ {0} /\ Chars(name) \in Nat
    BY <1>3, NameWritten
  <2> HIDE DEF w, call, name
  <2>2. Bytes(2, Chars(name)) \in Seq(Byte) /\ Len(Bytes(2, Chars(name))) = 2
    BY <2>1, BytesFacts
  <2>3. Bytes(name, name) \in Seq(Byte) /\ Len(Bytes(name, name)) = name
    BY <2>1, BytesFacts
  <2>4. w \in Seq(Byte) /\ Len(w) = 2 + name
    <3> DEFINE p == Bytes(2, Chars(name))
               q == Bytes(name, name)
    <3>1. p \in Seq(Byte)
      BY <2>2
    <3>2. q \in Seq(Byte)
      BY <2>3
    <3>3. w = p \o q /\ Len(p) = 2 /\ Len(q) = name
      BY <2>1, <2>2, <2>3
    <3> HIDE DEF p, q
    <3>4. p \o q \in Seq(Byte) /\ Len(p \o q) = Len(p) + Len(q)
      BY ONLY <3>1, <3>2, Concat
    <3> QED
      BY <3>3, <3>4
  <2>5. name \in Nat
    BY <2>1
  <2> QED
    BY <2>4, <2>5
<1>4. CASE call \in AddressCall
  <2> DEFINE a == m.addresses[call[2]]
  <2>1. /\ a.version \in Nat /\ a.port \in Nat
        /\ w = IF a.version = 4
               THEN Bytes(1, 4) \o Bytes(1, 0) \o Bytes(1, 1) \o Bytes(1, 2) \o Bytes(1, 3) \o Bytes(2, a.port)
               ELSE IF a.version = 6 THEN VersionSix(a.port, HostBytes(m)) ELSE Bytes(1, a.version)
        /\ HostBytes(m) \in Nat
    BY <1>4, AddressWritten
  <2> HIDE DEF w, call, a
  <2>2. \A v \in Nat : Bytes(1, v) \in Seq(Byte) /\ Len(Bytes(1, v)) = 1
    BY BytesFacts
  <2>3. Bytes(2, a.port) \in Seq(Byte) /\ Len(Bytes(2, a.port)) = 2
    BY <2>1, BytesFacts
  <2>4. CASE a.version = 4
    <3> DEFINE h == Bytes(1, 4) \o Bytes(1, 0) \o Bytes(1, 1) \o Bytes(1, 2) \o Bytes(1, 3)
    <3>1. w = h \o Bytes(2, a.port)
      BY <2>1, <2>4
    <3>2. h \in Seq(Byte)
      BY <2>2
    <3> DEFINE p == Bytes(2, a.port)
    <3>3. p \in Seq(Byte)
      BY <2>3
    <3>4. w = h \o p /\ Len(p) = 2
      BY <3>1, <2>3
    <3> HIDE DEF h, p
    <3>5. h \o p \in Seq(Byte) /\ Len(h \o p) = Len(h) + Len(p) /\ Len(h) \in Nat
      BY ONLY <3>2, <3>3, Concat
    <3> QED
      BY <3>4, <3>5
  <2>6. CASE a.version = 6
    <3>1. w = VersionSix(a.port, HostBytes(m))
      BY <2>1, <2>6
    <3>2. w \in Seq(Byte) /\ Len(w) = 13 + HostBytes(m)
      BY <2>1, <3>1, SixBytes
    <3> QED
      BY <2>1, <3>2
  <2>5. CASE a.version # 4 /\ a.version # 6
    <3>1. w = Bytes(1, a.version)
      BY <2>1, <2>5
    <3>2. Bytes(1, a.version) \in Seq(Byte) /\ Len(Bytes(1, a.version)) = 1
      BY <2>1, <2>2
    <3> QED
      BY <3>1, <3>2
  <2> QED
    BY <2>4, <2>5, <2>6
<1> QED
  BY <1>1, <1>2, <1>3, <1>4 DEF Call

\* The stream s has the bytes t behind the offset.
Holds(s, off, t) == off + Len(t) <= Len(s) /\ \A k \in 1 .. Len(t) : s[off + k] = t[k]

(* Bytes that were written in pieces are there in pieces.                   *)
LEMMA Pieces ==
  ASSUME NEW s \in Seq(Byte), NEW off \in Nat, NEW p \in Seq(Byte), NEW q \in Seq(Byte), Holds(s, off, p \o q)
  PROVE  Holds(s, off, p) /\ Holds(s, off + Len(p), q)
<1>1. /\ Len(p \o q) = Len(p) + Len(q)
      /\ \A n \in 1 .. Len(p) : (p \o q)[n] = p[n]
      /\ \A n \in 1 .. Len(q) : (p \o q)[Len(p) + n] = q[n]
  BY Concat
<1>2. Len(p) \in Nat /\ Len(q) \in Nat
  OBVIOUS
<1>3. off + (Len(p) + Len(q)) <= Len(s) /\ \A k \in 1 .. Len(p) + Len(q) : s[off + k] = (p \o q)[k]
  BY <1>1 DEF Holds
<1>4. Holds(s, off, p)
  <2>1. \A k \in 1 .. Len(p) : k \in 1 .. Len(p) + Len(q)
    BY <1>2
  <2> QED
    BY <1>1, <1>2, <1>3, <2>1 DEF Holds
<1>5. Holds(s, off + Len(p), q)
  <2>1. ASSUME NEW k \in 1 .. Len(q) PROVE s[(off + Len(p)) + k] = q[k]
    <3>1. Len(p) + k \in 1 .. Len(p) + Len(q) /\ (off + Len(p)) + k = off + (Len(p) + k)
      BY <1>2
    <3> QED
      BY <3>1, <1>1, <1>3
  <2>2. (off + Len(p)) + Len(q) <= Len(s)
    BY <1>2, <1>3
  <2> QED
    BY <2>1, <2>2 DEF Holds
<1> QED
  BY <1>4, <1>5

(* A value of w bytes is read with w bytes, and torn with fewer.            *)
LEMMA BytesRead ==
  ASSUME NEW s \in Seq(Byte), NEW off \in Nat, NEW w \in Nat, NEW v \in Nat, Holds(s, off, Bytes(w, v))
  PROVE  /\ w # 0 => ValueAt(s, off, w) = v
         /\ \A n \in Nat : n < w => ValueAt(s, off, n) = Torn
<1>1. Len(Bytes(w, v)) = w /\ \A k \in 1 .. w : Bytes(w, v)[k] = <<w, k, v>>
  BY BytesFacts
<1>2. off + w <= Len(s) /\ \A k \in 1 .. w : s[off + k] = <<w, k, v>>
  BY <1>1 DEF Holds
<1>3. w # 0 => ValueAt(s, off, w) = v
  BY <1>2, ReadBack
<1>4. ASSUME NEW n \in Nat, n < w PROVE ValueAt(s, off, n) = Torn
  <2>1. Len(s) \in Nat /\ off + w <= Len(s)
    BY <1>2
  <2>2. off + n <= Len(s)
    BY <1>4, <2>1
  <2>3. 1 .. n \subseteq 1 .. w
    BY <1>4
  <2>4. \A k \in 1 .. n : s[off + k] = <<w, k, v>>
    BY <1>2, <2>3
  <2> QED
    BY <1>4, <2>2, <2>4, ReadCut
<1> QED
  BY <1>3, <1>4

(* What is read where the name of a server was written.                     *)
LEMMA NameRead ==
  ASSUME NEW class \in Classes, NEW m \in Messages(class), NEW n \in 1 .. Len(EncodeCalls(m)),
         EncodeCalls(m)[n] = NameCall, NEW s \in Seq(Byte), NEW off \in Nat,
         Holds(s, off, Written(m, NameCall))
  PROVE  LET name == m.fields["serverName"]
         IN  /\ ValueAt(s, off, 2) = Chars(name)
             /\ ValueAt(s, off + 2, Chars(name)) = Expected(m, "serverName")
             /\ Len(Written(m, NameCall)) = 2 + name
<1> DEFINE name == m.fields["serverName"]
           p == Bytes(2, Chars(name))
           q == Bytes(name, name)
<1>1. /\ name \in Nat /\ name # 0 /\ Chars(name) \in Nat
      /\ Chars(name) = IF name \in MultiByte THEN name - 1 ELSE name
      /\ Written(m, NameCall) = p \o q
      /\ Expected(m, "serverName") = IF name \in MultiByte THEN Torn ELSE name
  BY NameWritten
<1> HIDE DEF name
<1>2. p \in Seq(Byte) /\ Len(p) = 2
  BY <1>1, BytesFacts
<1>3. q \in Seq(Byte) /\ Len(q) = name
  BY <1>1, BytesFacts
<1>4. Holds(s, off, p) /\ Holds(s, off + 2, q) /\ Len(p \o q) = 2 + name
  <2> HIDE DEF p, q
  <2>1. p \in Seq(Byte)
    BY <1>2
  <2>2. q \in Seq(Byte)
    BY <1>3
  <2>3. Holds(s, off, p \o q)
    BY <1>1
  <2>4. Holds(s, off, p) /\ Holds(s, off + Len(p), q)
    BY ONLY <2>1, <2>2, <2>3, s \in Seq(Byte), off \in Nat, Pieces
  <2>5. Len(p \o q) = Len(p) + Len(q)
    BY ONLY <2>1, <2>2, Concat
  <2> QED
    BY <2>4, <2>5, <1>2, <1>3
<1>5. ValueAt(s, off, 2) = Chars(name)
  BY <1>1, <1>4, BytesRead
<1>6. off + 2 \in Nat
  OBVIOUS
<1>7. ValueAt(s, off + 2, Chars(name)) = Expected(m, "serverName")
  <2>1. CASE name \in MultiByte
    <3>1. Chars(name) < name
      BY <1>1, <2>1
    <3> QED
      BY <1>1, <1>4, <1>6, <2>1, <3>1, BytesRead
  <2>2. CASE name \notin MultiByte
    BY <1>1, <1>4, <1>6, <2>2, BytesRead
  <2> QED
    BY <2>1, <2>2
<1> QED
  BY <1>1, <1>4, <1>5, <1>7 DEF name

(* What is read where an address of version 6 was written.                  *)
LEMMA SixRead ==
  ASSUME NEW port6 \in Nat, NEW data \in Nat, NEW s \in Seq(Byte), NEW off \in Nat,
         Holds(s, off, VersionSix(port6, data))
  PROVE  ValueAt(s, off, 1) = 6 /\ ValueAt(s, off + 3, 2) = port6
<1>1. PICK x \in Seq(Byte), y \in Seq(Byte), z \in Seq(Byte) :
        /\ VersionSix(port6, data) = (((Bytes(1, 6) \o x) \o Bytes(2, port6)) \o y) \o z
        /\ Len(x) = 2 /\ Len(y) = 4 /\ Len(z) = data + 4
  BY SixPieces
<1> DEFINE a == Bytes(1, 6)
           b == Bytes(2, port6)
           c == a \o x
           d == c \o b
           e == d \o y
<1>2. a \in Seq(Byte) /\ b \in Seq(Byte) /\ Len(a) = 1 /\ Len(b) = 2
  BY BytesFacts
<1>3. VersionSix(port6, data) = e \o z
  BY <1>1
<1> HIDE DEF a, b, c, d, e
<1>4. c \in Seq(Byte) /\ Len(c) = 3
  <2>1. a \in Seq(Byte) /\ x \in Seq(Byte) /\ Len(a) = 1 /\ Len(x) = 2
    BY <1>1, <1>2
  <2>2. a \in Seq(Byte)
    BY <2>1
  <2>3. x \in Seq(Byte)
    BY <2>1
  <2>4. a \o x \in Seq(Byte) /\ Len(a \o x) = Len(a) + Len(x)
    BY ONLY <2>2, <2>3, Concat
  <2> QED
    BY <2>1, <2>4 DEF c
<1>5. d \in Seq(Byte) /\ Len(d) = 5
  <2>1. c \in Seq(Byte) /\ b \in Seq(Byte) /\ Len(c) = 3 /\ Len(b) = 2
    BY <1>2, <1>4
  <2>2. c \in Seq(Byte)
    BY <2>1
  <2>3. b \in Seq(Byte)
    BY <2>1
  <2>4. c \o b \in Seq(Byte) /\ Len(c \o b) = Len(c) + Len(b)
    BY ONLY <2>2, <2>3, Concat
  <2> QED
    BY <2>1, <2>4 DEF d
<1>6. e \in Seq(Byte) /\ Len(e) = 9
  <2>1. d \in Seq(Byte) /\ y \in Seq(Byte) /\ Len(d) = 5 /\ Len(y) = 4
    BY <1>1, <1>5
  <2>2. d \in Seq(Byte)
    BY <2>1
  <2>3. y \in Seq(Byte)
    BY <2>1
  <2>4. d \o y \in Seq(Byte) /\ Len(d \o y) = Len(d) + Len(y)
    BY ONLY <2>2, <2>3, Concat
  <2> QED
    BY <2>1, <2>4 DEF e
<1>7. \A p, q \in Seq(Byte), o \in Nat : Holds(s, o, p \o q) => Holds(s, o, p) /\ Holds(s, o + Len(p), q)
  BY Pieces
<1>8. Holds(s, off, e)
  BY <1>3, <1>6, <1>7
<1>9. Holds(s, off, d)
  BY <1>5, <1>7, <1>8 DEF e
<1>10. Holds(s, off, c) /\ Holds(s, off + 3, b)
  BY <1>2, <1>4, <1>7, <1>9 DEF d
<1>11. Holds(s, off, a)
  BY <1>2, <1>7, <1>10 DEF c
<1>12. ValueAt(s, off, 1) = 6
  BY <1>11, BytesRead DEF a
<1>13. ValueAt(s, off + 3, 2) = port6
  <2>1. off + 3 \in Nat
    OBVIOUS
  <2> QED
    BY <1>10, <2>1, BytesRead DEF b
<1> QED
  BY <1>12, <1>13

(* What is read where an address was written.                               *)
LEMMA AddressRead ==
  ASSUME NEW class \in Classes, NEW m \in Messages(class), NEW n \in 1 .. Len(EncodeCalls(m)),
         EncodeCalls(m)[n] \in AddressCall, NEW s \in Seq(Byte), NEW off \in Nat,
         Holds(s, off, Written(m, EncodeCalls(m)[n]))
  PROVE  LET a == m.addresses[EncodeCalls(m)[n][2]]
         IN  /\ ValueAt(s, off, 1) = a.version /\ a.version \in Nat /\ a.port \in Nat
             /\ a.version = 4 =>
                  /\ \A k \in 1 .. 4 : ValueAt(s, off + k, 1) = k - 1
                  /\ ValueAt(s, off + 5, 2) = a.port
                  /\ Len(Written(m, EncodeCalls(m)[n])) = 7
             /\ a.version = 6 =>
                  /\ ValueAt(s, off + 3, 2) = a.port
                  /\ Len(Written(m, EncodeCalls(m)[n])) = 13 + HostBytes(m)
             /\ a.version \notin {4, 6} => Len(Written(m, EncodeCalls(m)[n])) = 1
             /\ HostBytes(m) \in Nat
<1> DEFINE W == Written(m, EncodeCalls(m)[n])
           a == m.addresses[EncodeCalls(m)[n][2]]
<1>1. /\ a.version \in Nat /\ a.port \in Nat
      /\ W = IF a.version = 4
             THEN Bytes(1, 4) \o Bytes(1, 0) \o Bytes(1, 1) \o Bytes(1, 2) \o Bytes(1, 3) \o Bytes(2, a.port)
             ELSE IF a.version = 6 THEN VersionSix(a.port, HostBytes(m)) ELSE Bytes(1, a.version)
      /\ HostBytes(m) \in Nat
  BY AddressWritten, SMTT(30)
<1>2. Holds(s, off, W)
  OBVIOUS
<1> SUFFICES /\ ValueAt(s, off, 1) = a.version
             /\ a.version = 4 =>
                  /\ \A k \in 1 .. 4 : ValueAt(s, off + k, 1) = k - 1
                  /\ ValueAt(s, off + 5, 2) = a.port
                  /\ Len(W) = 7
             /\ a.version = 6 => ValueAt(s, off + 3, 2) = a.port /\ Len(W) = 13 + HostBytes(m)
             /\ a.version \notin {4, 6} => Len(W) = 1
  BY <1>1, Zenon
<1> HIDE DEF W, a
<1>5. CASE a.version = 6
  <2>1. W = VersionSix(a.port, HostBytes(m)) /\ a.port \in Nat /\ HostBytes(m) \in Nat
    BY <1>1, <1>5
  <2>2. Holds(s, off, VersionSix(a.port, HostBytes(m)))
    BY <1>2, <2>1
  <2>3. ValueAt(s, off, 1) = 6 /\ ValueAt(s, off + 3, 2) = a.port
    BY <2>1, <2>2, SixRead
  <2>4. Len(W) = 13 + HostBytes(m)
    BY <2>1, SixBytes
  <2> QED
    BY <1>5, <2>3, <2>4
<1>3. CASE a.version # 4 /\ a.version # 6
  <2>1. W = Bytes(1, a.version)
    BY <1>1, <1>3
  <2>2. a.version \in Nat
    BY <1>1
  <2>3. Len(Bytes(1, a.version)) = 1
    BY <2>2, BytesFacts
  <2>4. ValueAt(s, off, 1) = a.version
    BY <1>2, <2>1, <2>2, BytesRead
  <2> QED
    BY <1>3, <2>1, <2>3, <2>4
<1>4. CASE a.version = 4
  <2> DEFINE b0 == Bytes(1, 4)
             b1 == Bytes(1, 0)
             b2 == Bytes(1, 1)
             b3 == Bytes(1, 2)
             b4 == Bytes(1, 3)
             b5 == Bytes(2, a.port)
  <2>1. a.port \in Nat
    BY <1>1
  <2>2. \A v \in Nat : Bytes(1, v) \in Seq(Byte) /\ Len(Bytes(1, v)) = 1
    BY BytesFacts
  <2>3. W = b0 \o b1 \o b2 \o b3 \o b4 \o b5
    BY <1>1, <1>4
  <2>4. b0 \in Seq(Byte) /\ Len(b0) = 1
    BY <2>2
  <2>5. b1 \in Seq(Byte) /\ Len(b1) = 1
    BY <2>2
  <2>6. b2 \in Seq(Byte) /\ Len(b2) = 1
    BY <2>2
  <2>7. b3 \in Seq(Byte) /\ Len(b3) = 1
    BY <2>2
  <2>8. b4 \in Seq(Byte) /\ Len(b4) = 1
    BY <2>2
  <2>9. b5 \in Seq(Byte) /\ Len(b5) = 2
    BY <2>1, BytesFacts
  <2>10. /\ Holds(s, off, b0) /\ Holds(s, off + 1, b1) /\ Holds(s, off + 2, b2) /\ Holds(s, off + 3, b3)
         /\ Holds(s, off + 4, b4) /\ Holds(s, off + 5, b5) /\ Len(W) = 7
    <3> HIDE DEF b0, b1, b2, b3, b4, b5
    <3> DEFINE c1 == b0 \o b1
               c2 == c1 \o b2
               c3 == c2 \o b3
               c4 == c3 \o b4
    <3>1. W = c4 \o b5
      BY <2>3
    <3>2. \A x, y \in Seq(Byte), o \in Nat : Holds(s, o, x \o y) => Holds(s, o, x) /\ Holds(s, o + Len(x), y)
      BY Pieces
    <3> HIDE DEF c1, c2, c3, c4
    <3>3. c1 \in Seq(Byte) /\ Len(c1) = 2
      <4>1. c1 \in Seq(Byte) /\ Len(c1) = Len(b0) + Len(b1)
        BY <2>4, <2>5, Concat DEF c1
      <4> QED
        BY <4>1, <2>4, <2>5
    <3>4. c2 \in Seq(Byte) /\ Len(c2) = 3
      <4>1. c2 \in Seq(Byte) /\ Len(c2) = Len(c1) + Len(b2)
        BY <3>3, <2>6, Concat DEF c2
      <4> QED
        BY <4>1, <3>3, <2>6
    <3>5. c3 \in Seq(Byte) /\ Len(c3) = 4
      <4>1. c3 \in Seq(Byte) /\ Len(c3) = Len(c2) + Len(b3)
        BY <3>4, <2>7, Concat DEF c3
      <4> QED
        BY <4>1, <3>4, <2>7
    <3>6. c4 \in Seq(Byte) /\ Len(c4) = 5
      <4>1. c4 \in Seq(Byte) /\ Len(c4) = Len(c3) + Len(b4)
        BY <3>5, <2>8, Concat DEF c4
      <4> QED
        BY <4>1, <3>5, <2>8
    <3>7. Len(W) = 7
      <4>1. Len(W) = Len(c4) + Len(b5)
        BY <3>1, <3>6, <2>9, Concat
      <4> QED
        BY <4>1, <3>6, <2>9
    <3>8. Holds(s, off, c4) /\ Holds(s, off + 5, b5)
      <4>1. Holds(s, off, c4 \o b5)
        BY <3>1, <1>2
      <4> QED
        BY <3>2, <3>6, <4>1, <2>9
    <3>9. Holds(s, off, c3) /\ Holds(s, off + 4, b4)
      BY <3>2, <3>5, <3>8, <2>8 DEF c4
    <3>10. Holds(s, off, c2) /\ Holds(s, off + 3, b3)
      BY <3>2, <3>4, <3>9, <2>7 DEF c3
    <3>11. Holds(s, off, c1) /\ Holds(s, off + 2, b2)
      BY <3>2, <3>3, <3>10, <2>6 DEF c2
    <3>12. Holds(s, off, b0) /\ Holds(s, off + 1, b1)
      BY <3>2, <3>11, <2>4, <2>5 DEF c1
    <3> QED
      BY <3>7, <3>8, <3>9, <3>10, <3>11, <3>12
  <2>11. \A v \in Nat, o \in Nat : Holds(s, o, Bytes(1, v)) => ValueAt(s, o, 1) = v
    BY BytesRead
  <2>12. \A v \in Nat, o \in Nat : Holds(s, o, Bytes(2, v)) => ValueAt(s, o, 2) = v
    BY BytesRead
  <2>13. ValueAt(s, off, 1) = 4
    BY <2>10, <2>11
  <2>14. /\ ValueAt(s, off + 1, 1) = 0 /\ ValueAt(s, off + 2, 1) = 1
         /\ ValueAt(s, off + 3, 1) = 2 /\ ValueAt(s, off + 4, 1) = 3
    BY <2>10, <2>11
  <2>15. ValueAt(s, off + 5, 2) = a.port
    BY <2>1, <2>10, <2>12
  <2>16. \A k \in 1 .. 4 : ValueAt(s, off + k, 1) = k - 1
    <3>1. \A k \in 1 .. 4 : k = 1 \/ k = 2 \/ k = 3 \/ k = 4
      OBVIOUS
    <3> QED
      BY <2>14, <3>1
  <2> QED
    BY <1>4, <2>10, <2>13, <2>15, <2>16
<1> QED
  BY <1>3, <1>4, <1>5

-----------------------------------------------------------------------------
(* The inductive invariant.                                                *)

DecodeCall == Call \cup {<<"length", "mtuSize">>} \cup ({"systemAddress"} \X Nat)

\* The calls of encode that d calls of decode have read.  Of the systemAddress
\* calls, those past the addresses of the message read nothing.
Consumed(m, d) ==
  LET A == Len(m.addresses)
      total == Len(EncodeCalls(m))
  IN  IF m.class = "NewIncomingConnection"
      THEN IF d <= SystemAddresses + 1 THEN (IF d <= A THEN d ELSE A) ELSE A + (d - (SystemAddresses + 1))
      ELSE IF d <= total THEN d ELSE total

\* Every call of decode reads the next call of encode, or reads nothing.
Matches(m, d) ==
  LET c == Consumed(m, d)
      e == EncodeCalls(m)
      call == Layout[m.class].decode[d + 1]
  IN  /\ c \in 0 .. Len(e)
      /\ \/ c < Len(e) /\ Consumed(m, d + 1) = c + 1 /\ call = e[c + 1]
         \/ /\ c < Len(e) /\ Consumed(m, d + 1) = c + 1 /\ e[c + 1] \in AddressCall
            /\ call[1] = "systemAddress" /\ m.class = "NewIncomingConnection" /\ c < Len(m.addresses)
         \/ /\ c = Len(e) /\ Consumed(m, d + 1) = c /\ call = <<"length", "mtuSize">>
            /\ "mtuSize" \notin DOMAIN m.fields
         \/ /\ c = Len(m.addresses) /\ Consumed(m, d + 1) = c
            /\ call[1] = "systemAddress" /\ m.class = "NewIncomingConnection"

E == EncodeCalls(message)
D == Layout[message.class].decode
Read == Consumed(message, Len(D) - Len(calls))

MessageInv == \E class \in Classes : message \in Messages(class)

ObjectTyped ==
  /\ \A f \in DOMAIN packet : packet[f] \in Nat \cup {Torn}
  /\ \A n \in DOMAIN addr : addr[n] \in 0 .. 255
  /\ port \in Nat \cup {Undefined}
  /\ refs \in Seq({"this", "error", "dummy"})
  /\ datagrams \in 0 .. MaxDatagrams

ObjectInv == phase \in {"encode", "decode", "done"} /\ ObjectTyped

\* The stream is the header and what the calls so far have written, end to end.
StreamInv ==
  /\ stream \in Seq(Byte) /\ ends \in Seq(Nat)
  /\ Len(ends) \in 1 .. Len(E) + 1
  /\ stream # <<>> /\ stream[1] = <<1, 1, ID[message.class]>>
  /\ ends[1] = 1 /\ ends[Len(ends)] = Len(stream)
  /\ \A n, k \in 1 .. Len(ends) : n < k => ends[n] < ends[k]
  /\ \A n \in 1 .. Len(ends) - 1 :
       /\ ends[n + 1] = ends[n] + Len(Written(message, E[n]))
       /\ Holds(stream, ends[n], Written(message, E[n]))

EncodeInv ==
  phase = "encode" =>
    /\ calls \in Seq(Call) /\ offset = 0
    /\ Len(ends) + Len(calls) = Len(E) + 1
    /\ \A k \in 1 .. Len(calls) : calls[k] = E[Len(E) - Len(calls) + k]

CallsInv ==
  phase # "encode" =>
    /\ Len(ends) = Len(E) + 1
    /\ calls \in Seq(DecodeCall) /\ Len(calls) <= Len(D)
    /\ \A k \in 1 .. Len(calls) : calls[k] = D[Len(D) - Len(calls) + k]
    /\ phase = "done" => calls = <<>>

\* The name was read without its last character, and nothing is left to read.
NameCut ==
  /\ Read = Len(E) /\ Read # 0 /\ E[Read] = NameCall
  /\ message.fields["serverName"] \in MultiByte

OffsetInv ==
  phase # "encode" =>
    \/ offset = ends[Read + 1]
    \/ NameCut /\ offset = ends[Read + 1] - 1

FieldsInv ==
  phase # "encode" =>
    \A n \in 1 .. Read : E[n] \in Number \cup {NameCall} =>
      E[n][2] \in DOMAIN packet /\ packet[E[n][2]] = Expected(message, E[n][2])

\* The calls up to the c-th that wrote an address.
Heard(c) == {n \in 1 .. c : E[n] \in AddressCall}
AddressAt(n) == message.addresses[E[n][2]]

\* The first address decides what the reference is, the last one that was read what
\* it shows.  No address is read that has another length than was written.
AddressInv ==
  phase # "encode" =>
    /\ Heard(Read) = {} => refs = <<>>
    /\ \A n \in Heard(Read) : E[n] = FirstAddress =>
         refs # <<>> /\ refs[1] = IF Known(AddressAt(n)) THEN "this" ELSE "error"
    /\ (\E n \in Heard(Read) : Known(AddressAt(n))) =>
         \E n \in Heard(Read) :
           /\ Known(AddressAt(n)) /\ port = AddressAt(n).port
           /\ AddressAt(n).version = 4 => addr = <<255, 254, 253, 252>>
           /\ \A k \in Heard(Read) : n < k => ~Known(AddressAt(k))
    /\ Misread => Heard(Read) = {}

Inv ==
  MessageInv /\ ObjectInv /\ StreamInv /\ EncodeInv /\ CallsInv /\ OffsetInv /\ FieldsInv /\ AddressInv

\* What is left to read behind the address of OpenConnectionReply2.
MtuCall == <<"short", "mtuSize">>
SecurityCall == <<"byte", "serverSecurity">>

\* Behind an address that was read with another length than it was written with:
\* every call keeps its distance from the end of the stream.
Behind ==
  /\ Misread /\ MessageInv /\ ObjectTyped /\ stream \in Seq(Byte) /\ offset \in Nat
  /\ phase \in {"decode", "done"} /\ (phase = "done" => calls = <<>>)
  /\ \/ calls = <<MtuCall, SecurityCall>> /\ offset = Len(stream) + 13 - EmptyData
     \/ /\ calls = <<SecurityCall>> /\ offset = Len(stream) + 15 - EmptyData
        /\ EmptyData < 15 => "mtuSize" \in DOMAIN packet /\ packet["mtuSize"] = Torn
     \/ /\ calls = <<>> /\ offset = Len(stream) + 16 - EmptyData
        /\ EmptyData < 15 => packet["mtuSize"] = Torn /\ packet["serverSecurity"] = Torn
  /\ "serverID" \in DOMAIN packet /\ packet["serverID"] = message.fields["serverID"]
  /\ refs # <<>> /\ refs[1] = "this" /\ port = message.addresses[1].port

\* The library threw, in encode or behind such an address.
Thrown ==
  /\ phase = "thrown"
  /\ MessageInv /\ ObjectTyped /\ stream \in Seq(Byte)
  /\ offset \in Nat /\ (offset > Len(stream) => Misread)

IInv == Inv \/ Behind \/ Thrown

(* What decode calls, for a class without a list of addresses.              *)
LEMMA DecodeFactsOneAddress ==
  ASSUME NEW class \in Classes \ {"NewIncomingConnection"}, NEW m \in Messages(class)
  PROVE  LET decode == Layout[m.class].decode
         IN  /\ decode \in Seq(DecodeCall)
             /\ Consumed(m, 0) = 0 /\ Consumed(m, Len(decode)) = Len(EncodeCalls(m))
             /\ \A d \in 0 .. Len(decode) - 1 : Matches(m, d)
<1> DEFINE e == EncodeCalls(m)
           decode == Layout[class].decode
<1>1. m.class = class /\ Ordered(e) /\ WritesFields(m, e)
  BY EncodeFacts
<1>2. e = Layout[class].encode
  BY <1>1 DEF EncodeCalls
<1>3. \/ decode = e /\ class # "OpenConnectionRequest1"
      \/ decode = Append(e, <<"length", "mtuSize">>) /\ class = "OpenConnectionRequest1"
  BY <1>2, Layouts
<1>4. class = "OpenConnectionRequest1" => e = << <<"magic", "magic">>, <<"byte", "protocol">> >>
  BY <1>2 DEF Layout, OpenConnectionRequest1
<1> HIDE DEF e, decode
<1>5. e \in Seq(DecodeCall) /\ Len(e) \in Nat
  BY <1>1 DEF Ordered, DecodeCall
<1>6. <<"length", "mtuSize">> \in DecodeCall
  BY DEF DecodeCall
<1>7. decode \in Seq(DecodeCall)
  BY <1>3, <1>5, <1>6, SMTT(30)
<1>8. \A d \in Nat : Consumed(m, d) = IF d <= Len(e) THEN d ELSE Len(e)
  BY <1>1 DEF Consumed, e
<1>9. CASE decode = e
  <2>1. ASSUME NEW d \in 0 .. Len(decode) - 1 PROVE Matches(m, d)
    <3>1. Consumed(m, d) = d /\ Consumed(m, d + 1) = d + 1 /\ d < Len(e) /\ d \in 0 .. Len(e)
      BY <1>5, <1>8, <1>9, <2>1
    <3> QED
      BY <3>1, <1>1, <1>9 DEF Matches, e, decode
  <2>2. Consumed(m, 0) = 0 /\ Consumed(m, Len(decode)) = Len(e)
    BY <1>5, <1>8, <1>9
  <2> QED
    BY <2>1, <2>2, <1>1, <1>7 DEF e, decode
<1>10. CASE decode = Append(e, <<"length", "mtuSize">>) /\ class = "OpenConnectionRequest1"
  <2>1. Len(decode) = Len(e) + 1 /\ decode[Len(e) + 1] = <<"length", "mtuSize">>
        /\ \A d \in 1 .. Len(e) : decode[d] = e[d]
    BY <1>5, <1>6, <1>10
  <2>2. "mtuSize" \notin DOMAIN m.fields
    <3>1. Len(e) = 2 /\ e[1][2] = "magic" /\ e[2][2] = "protocol"
      BY <1>4, <1>10
    <3> QED
      BY <3>1, <1>1 DEF WritesFields
  <2>3. ASSUME NEW d \in 0 .. Len(decode) - 1, d < Len(e) PROVE Matches(m, d)
    <3>1. Consumed(m, d) = d /\ Consumed(m, d + 1) = d + 1 /\ d \in 0 .. Len(e)
      BY <1>5, <1>8, <2>3
    <3>2. decode[d + 1] = e[d + 1]
      BY <2>1, <2>3, <1>5
    <3> QED
      BY <3>1, <3>2, <2>3, <1>1 DEF Matches, e, decode
  <2>4. ASSUME NEW d \in 0 .. Len(decode) - 1, d = Len(e) PROVE Matches(m, d)
    <3>1. Consumed(m, d) = Len(e) /\ Consumed(m, d + 1) = Len(e) /\ Len(e) \in 0 .. Len(e)
      BY <1>5, <1>8, <2>4
    <3>2. decode[d + 1] = <<"length", "mtuSize">>
      BY <2>1, <2>4
    <3> QED
      BY <3>1, <3>2, <2>2, <1>1 DEF Matches, e, decode
  <2>5. Consumed(m, 0) = 0 /\ Consumed(m, Len(decode)) = Len(e)
    BY <1>5, <1>8, <2>1
  <2>6. \A d \in 0 .. Len(decode) - 1 : d < Len(e) \/ d = Len(e)
    BY <1>5, <2>1
  <2> QED
    BY <2>3, <2>4, <2>5, <2>6, <1>1, <1>7 DEF e, decode
<1> QED
  BY <1>3, <1>9, <1>10

(* What decode calls, for NewIncomingConnection.                            *)
LEMMA DecodeFactsManyAddresses ==
  ASSUME NEW m \in Messages("NewIncomingConnection")
  PROVE  LET decode == Layout[m.class].decode
         IN  /\ decode \in Seq(DecodeCall)
             /\ Consumed(m, 0) = 0 /\ Consumed(m, Len(decode)) = Len(EncodeCalls(m))
             /\ \A d \in 0 .. Len(decode) - 1 : Matches(m, d)
<1> DEFINE e == EncodeCalls(m)
           t == Layout["NewIncomingConnection"].encode
           decode == Layout["NewIncomingConnection"].decode
           A == Len(m.addresses)
           S == SystemAddresses
           more == [n \in 1 .. S |-> <<"systemAddress", n + 1>>]
<1>1. /\ m.class = "NewIncomingConnection" /\ Ordered(e) /\ WritesAddresses(m, e)
      /\ t[1] \in Number /\ t[2] \in Number /\ Len(t) = 2 /\ t \in Seq(LayoutCall)
  BY EncodeFacts, Times
<1>2. S \in Nat /\ A \in 1 .. S + 1 /\ Len(e) = A + 2
  BY <1>1, MessagesAssumption DEF WritesAddresses
<1>3. decode = <<FirstAddress>> \o more \o t
  BY DEF Layout, NewIncomingConnection, FirstAddress
<1>4. /\ \A n \in 1 .. A : e[n] = <<"address", n>>
      /\ e[A + 1] = t[1] /\ e[A + 2] = t[2]
  BY <1>1 DEF WritesAddresses
<1>5. \A d \in Nat : Consumed(m, d) =
        IF d <= S + 1 THEN (IF d <= A THEN d ELSE A) ELSE A + (d - (S + 1))
  BY <1>1 DEF Consumed
<1> HIDE DEF e, t, decode, A, S
<1>6. more \in Seq(DecodeCall) /\ Len(more) = S /\ \A n \in 1 .. S : more[n][1] = "systemAddress"
  BY <1>2 DEF DecodeCall
<1>7. t \in Seq(DecodeCall)
  BY <1>1, CallKinds DEF DecodeCall
<1>8. <<FirstAddress>> \in Seq(DecodeCall) /\ Len(<<FirstAddress>>) = 1 /\ <<FirstAddress>>[1] = FirstAddress
  BY CallKinds DEF DecodeCall, Call
<1> HIDE DEF more
<1>9. /\ decode \in Seq(DecodeCall) /\ Len(decode) = S + 3
      /\ decode[1] = FirstAddress /\ decode[S + 2] = t[1] /\ decode[S + 3] = t[2]
      /\ \A n \in 1 .. S : decode[n + 1][1] = "systemAddress"
  <2> DEFINE one == <<FirstAddress>>
             front == one \o more
  <2> HIDE DEF one
  <2>1. one \in Seq(DecodeCall)
    BY <1>8 DEF one
  <2>2. more \in Seq(DecodeCall)
    BY <1>6
  <2>3. /\ front \in Seq(DecodeCall) /\ Len(front) = Len(one) + Len(more)
        /\ \A n \in 1 .. Len(one) : front[n] = one[n]
        /\ \A n \in 1 .. Len(more) : front[Len(one) + n] = more[n]
    BY ONLY <2>1, <2>2, Concat
  <2>4. decode = front \o t
    BY <1>3 DEF one
  <2> HIDE DEF front
  <2>5. front \in Seq(DecodeCall)
    BY <2>3
  <2>6. /\ front \o t \in Seq(DecodeCall) /\ Len(front \o t) = Len(front) + Len(t)
        /\ \A n \in 1 .. Len(front) : (front \o t)[n] = front[n]
        /\ \A n \in 1 .. Len(t) : (front \o t)[Len(front) + n] = t[n]
    BY ONLY <2>5, <1>7, Concat
  <2>7. Len(one) = 1 /\ one[1] = FirstAddress
    BY <1>8 DEF one
  <2>8. Len(front) = S + 1 /\ front[1] = FirstAddress /\ \A n \in 1 .. S : front[n + 1] = more[n]
    <3>1. 1 \in 1 .. Len(one)
      BY <2>7
    <3>2. \A n \in 1 .. S : front[1 + n] = more[n]
      BY <2>3, <2>7, <1>6
    <3>3. \A n \in 1 .. S : 1 + n = n + 1
      BY <1>2
    <3> QED
      BY <2>3, <2>7, <1>6, <1>2, <3>1, <3>2, <3>3
  <2>9. decode \in Seq(DecodeCall) /\ Len(decode) = S + 3
    BY <2>4, <2>6, <2>8, <1>1, <1>2
  <2>10. decode[1] = FirstAddress /\ \A n \in 1 .. S : decode[n + 1] = more[n]
    <3>1. \A n \in 1 .. S + 1 : decode[n] = front[n]
      BY <2>4, <2>6, <2>8
    <3>2. 1 \in 1 .. S + 1 /\ \A n \in 1 .. S : n + 1 \in 1 .. S + 1
      BY <1>2
    <3> QED
      BY <3>1, <3>2, <2>8
  <2>11. decode[S + 2] = t[1] /\ decode[S + 3] = t[2]
    <3>1. 1 \in 1 .. Len(t) /\ 2 \in 1 .. Len(t)
      BY <1>1
    <3>2. decode[Len(front) + 1] = t[1] /\ decode[Len(front) + 2] = t[2]
      BY <3>1, <2>4, <2>6
    <3>3. Len(front) + 1 = S + 2 /\ Len(front) + 2 = S + 3
      BY <2>8, <1>2
    <3> QED
      BY <3>2, <3>3
  <2> QED
    BY <2>9, <2>10, <2>11, <1>6
<1>10. ASSUME NEW d \in 0 .. Len(decode) - 1 PROVE Matches(m, d)
  <2>1. d \in Nat /\ d + 1 \in Nat /\ (d = 0 \/ d \in 1 .. S \/ d = S + 1 \/ d = S + 2)
    BY <1>2, <1>9
  <2>2. CASE d = 0
    <3>1. Consumed(m, d) = 0 /\ Consumed(m, d + 1) = 1 /\ 0 \in 0 .. Len(e) /\ 0 < Len(e)
      BY <1>2, <1>5, <2>2
    <3>2. e[1] = FirstAddress
      BY <1>2, <1>4 DEF FirstAddress
    <3> QED
      BY <3>1, <3>2, <2>2, <1>1, <1>9 DEF Matches, e, decode
  <2>3. CASE d \in 1 .. S /\ d < A
    <3>1. Consumed(m, d) = d /\ Consumed(m, d + 1) = d + 1 /\ d \in 0 .. Len(e) /\ d < Len(e)
      BY <1>2, <1>5, <2>1, <2>3
    <3>2. decode[d + 1][1] = "systemAddress"
      BY <1>9, <2>3
    <3>3. e[d + 1] \in AddressCall
      <4>1. d + 1 \in 1 .. A /\ d + 1 \in Nat \ {0}
        BY <1>2, <2>3
      <4>2. e[d + 1] = <<"address", d + 1>>
        BY <4>1, <1>4
      <4> QED
        BY <4>1, <4>2 DEF AddressCall
    <3>4. d < Len(m.addresses)
      BY <2>3 DEF A
    <3> QED
      BY <3>1, <3>2, <3>3, <3>4, <1>1 DEF Matches, e, decode
  <2>4. CASE d \in 1 .. S /\ ~ (d < A)
    <3>1. Consumed(m, d) = A /\ Consumed(m, d + 1) = A /\ A \in 0 .. Len(e)
      BY <1>2, <1>5, <2>1, <2>4
    <3>2. decode[d + 1][1] = "systemAddress"
      BY <1>9, <2>4
    <3> QED
      BY <3>1, <3>2, <1>1 DEF Matches, e, decode, A
  <2>5. CASE d = S + 1
    <3>1. Consumed(m, d) = A /\ Consumed(m, d + 1) = A + 1 /\ A \in 0 .. Len(e) /\ A < Len(e)
      BY <1>2, <1>5, <2>1, <2>5
    <3>2. d + 1 = S + 2
      BY <1>2, <2>5
    <3>3. decode[d + 1] = e[A + 1]
      BY <3>2, <1>4, <1>9
    <3> QED
      BY <3>1, <3>3, <1>1 DEF Matches, e, decode
  <2>6. CASE d = S + 2
    <3>1. Consumed(m, d) = A + 1 /\ Consumed(m, d + 1) = (A + 1) + 1 /\ A + 1 \in 0 .. Len(e) /\ A + 1 < Len(e)
      BY <1>2, <1>5, <2>1, <2>6
    <3>2. d + 1 = S + 3 /\ (A + 1) + 1 = A + 2
      BY <1>2, <2>6
    <3>3. decode[d + 1] = e[(A + 1) + 1]
      BY <3>2, <1>4, <1>9
    <3> QED
      BY <3>1, <3>3, <1>1 DEF Matches, e, decode
  <2> QED
    BY <2>1, <2>2, <2>3, <2>4, <2>5, <2>6
<1>11. Consumed(m, 0) = 0 /\ Consumed(m, Len(decode)) = Len(e)
  <2>1. Consumed(m, 0) = 0
    BY <1>2, <1>5
  <2>2. Consumed(m, S + 3) = A + 2
    BY <1>2, <1>5
  <2> QED
    BY <2>1, <2>2, <1>2, <1>9
<1> QED
  BY <1>1, <1>9, <1>10, <1>11 DEF e, decode

(* What decode calls, for every class.                                      *)
LEMMA DecodeFacts ==
  ASSUME NEW class \in Classes, NEW m \in Messages(class)
  PROVE  LET decode == Layout[m.class].decode
         IN  /\ decode \in Seq(DecodeCall)
             /\ Consumed(m, 0) = 0 /\ Consumed(m, Len(decode)) = Len(EncodeCalls(m))
             /\ \A d \in 0 .. Len(decode) - 1 : Matches(m, d)
  BY DecodeFactsOneAddress, DecodeFactsManyAddresses

-----------------------------------------------------------------------------
(* The invariant: the start of a message, and what encode does.            *)

(* What is known of the message.                                            *)
LEMMA MessageFacts ==
  ASSUME MessageInv
  PROVE  /\ message.class \in Classes /\ message \in Messages(message.class)
         /\ Ordered(E) /\ WritesFields(message, E) /\ WritesAddresses(message, E)
         /\ E \in Seq(Call) /\ Len(E) \in Nat
         /\ D \in Seq(DecodeCall) /\ Len(D) \in Nat
         /\ Consumed(message, 0) = 0 /\ Consumed(message, Len(D)) = Len(E)
         /\ \A d \in 0 .. Len(D) - 1 : Matches(message, d)
<1>1. PICK class \in Classes : message \in Messages(class)
  BY DEF MessageInv
<1>2. message.class = class /\ Ordered(E) /\ WritesFields(message, E) /\ WritesAddresses(message, E)
  BY <1>1, EncodeFacts DEF E
<1>3. /\ D \in Seq(DecodeCall)
      /\ Consumed(message, 0) = 0 /\ Consumed(message, Len(D)) = Len(E)
      /\ \A d \in 0 .. Len(D) - 1 : Matches(message, d)
  BY <1>1, DecodeFacts DEF D, E
<1>4. E \in Seq(Call)
  BY <1>2 DEF Ordered
<1>5. Len(E) \in Nat /\ Len(D) \in Nat
  BY <1>3, <1>4
<1> QED
  BY <1>1, <1>2, <1>3, <1>4, <1>5

(* The header.                                                              *)
LEMMA HeaderFacts ==
  ASSUME NEW class \in Classes
  PROVE  LET header == Bytes(1, ID[class])
         IN  /\ header \in Seq(Byte) /\ Len(header) = 1 /\ header # <<>>
             /\ header[1] = <<1, 1, ID[class]>> /\ ID[class] \in Nat
<1> DEFINE header == Bytes(1, ID[class])
<1>1. ID[class] \in Nat
  BY DEF ID, Classes, Layout
<1>2. header \in Seq(Byte) /\ Len(header) = 1 /\ \A k \in 1 .. 1 : header[k] = <<1, k, ID[class]>>
  BY <1>1, BytesFacts
<1>3. header # <<>>
  <2>1. Len(<<>>) = 0
    OBVIOUS
  <2> QED
    BY <1>2, <2>1
<1> QED
  BY <1>1, <1>2, <1>3

(* A stream with the header of a message alone.                             *)
LEMMA HeaderAlone ==
  ASSUME MessageInv, stream = Bytes(1, ID[message.class]), ends = << 1 >>
  PROVE  StreamInv
<1>1. /\ Bytes(1, ID[message.class]) \in Seq(Byte) /\ Len(Bytes(1, ID[message.class])) = 1
      /\ Bytes(1, ID[message.class]) # <<>>
      /\ Bytes(1, ID[message.class])[1] = <<1, 1, ID[message.class]>>
  BY MessageFacts, HeaderFacts
<1>2. stream \in Seq(Byte) /\ Len(stream) = 1 /\ stream # <<>> /\ stream[1] = <<1, 1, ID[message.class]>>
  BY <1>1
<1>3. ends \in Seq(Nat) /\ Len(ends) = 1 /\ ends[1] = 1
  OBVIOUS
<1>4. Len(E) \in Nat
  BY MessageFacts
<1>5. ends[Len(ends)] = Len(stream)
  BY <1>2, <1>3
<1>6. Len(ends) \in 1 .. Len(E) + 1
  BY <1>3, <1>4
<1>7. \A n, k \in 1 .. Len(ends) : n < k => ends[n] < ends[k]
  BY <1>3
<1>8. \A n \in 1 .. Len(ends) - 1 : FALSE
  BY <1>3
<1> QED
  BY <1>2, <1>3, <1>5, <1>6, <1>7, <1>8 DEF StreamInv

(* All of the calls of encode are left.                                     *)
LEMMA AllCallsLeft ==
  ASSUME MessageInv, ends = << 1 >>, calls = EncodeCalls(message), offset = 0
  PROVE  EncodeInv
<1>1. calls = E /\ E \in Seq(Call) /\ Len(E) \in Nat
  BY MessageFacts DEF E
<1>2. Len(ends) = 1
  OBVIOUS
<1>3. Len(ends) + Len(calls) = Len(E) + 1
  BY <1>1, <1>2
<1>4. \A k \in 1 .. Len(calls) : calls[k] = E[Len(E) - Len(calls) + k]
  <2>1. \A k \in 1 .. Len(calls) : Len(E) - Len(calls) + k = k
    BY <1>1
  <2> QED
    BY <1>1, <2>1
<1> QED
  BY <1>1, <1>3, <1>4 DEF EncodeInv

(* Nothing is read yet.                                                     *)
LEMMA NothingRead ==
  phase = "encode" => CallsInv /\ OffsetInv /\ FieldsInv /\ AddressInv
  BY DEF CallsInv, OffsetInv, FieldsInv, AddressInv

(* The first message.                                                       *)
LEMMA InvInit == Init => Inv
<1> SUFFICES ASSUME Init PROVE Inv
  OBVIOUS
<1>1. MessageInv
  BY DEF Init, MessageInv
<1>2. ObjectInv
  BY MessagesAssumption DEF Init, ObjectInv, ObjectTyped
<1>3. StreamInv
  BY <1>1, HeaderAlone DEF Init
<1>4. EncodeInv
  BY <1>1, AllCallsLeft DEF Init
<1>5. CallsInv /\ OffsetInv /\ FieldsInv /\ AddressInv
  BY NothingRead DEF Init
<1> QED
  BY <1>1, <1>2, <1>3, <1>4, <1>5 DEF Inv

(* The next datagram, read by the object as the one before left it.         *)
LEMMA InvNextDatagram ==
  ASSUME Inv, NextDatagram
  PROVE  Inv'
<1>1. PICK m \in Messages(message.class) : Encode(m)
  BY DEF NextDatagram
<1>2. message.class \in Classes
  BY MessageFacts DEF Inv
<1>3. MessageInv'
  BY <1>1, <1>2 DEF Encode, MessageInv
<1>4. ObjectInv'
  BY <1>1, MessagesAssumption DEF Inv, ObjectInv, ObjectTyped, NextDatagram, Encode, objectVars
<1>5. StreamInv'
  <2>1. (stream = Bytes(1, ID[message.class]) /\ ends = <<1>>)'
    BY <1>1 DEF Encode
  <2>2. (MessageInv /\ stream = Bytes(1, ID[message.class]) /\ ends = <<1>> => StreamInv)'
    BY HeaderAlone, PTL
  <2> QED
    BY <1>3, <2>1, <2>2
<1>6. EncodeInv'
  <2>1. (ends = <<1>> /\ calls = EncodeCalls(message) /\ offset = 0)'
    BY <1>1 DEF Encode
  <2>2. (MessageInv /\ ends = <<1>> /\ calls = EncodeCalls(message) /\ offset = 0 => EncodeInv)'
    BY AllCallsLeft, PTL
  <2> QED
    BY <1>3, <2>1, <2>2
<1>7. (CallsInv /\ OffsetInv /\ FieldsInv /\ AddressInv)'
  <2>1. (phase = "encode")'
    BY <1>1 DEF Encode
  <2>2. (phase = "encode" => CallsInv /\ OffsetInv /\ FieldsInv /\ AddressInv)'
    BY NothingRead, PTL
  <2> QED
    BY <2>1, <2>2
<1> QED
  BY <1>3, <1>4, <1>5, <1>6, <1>7 DEF Inv

(* What a stream holds it still holds when more is written, and the rest    *)
(* behind it.                                                               *)
LEMMA HoldsMore ==
  ASSUME NEW s \in Seq(Byte), NEW t \in Seq(Byte)
  PROVE  /\ \A off \in Nat, x \in Seq(Byte) : Holds(s, off, x) => Holds(s \o t, off, x)
         /\ Holds(s \o t, Len(s), t)
<1> DEFINE j == s \o t
<1>1. /\ j \in Seq(Byte) /\ Len(j) = Len(s) + Len(t)
      /\ \A n \in 1 .. Len(s) : j[n] = s[n]
      /\ \A n \in 1 .. Len(t) : j[Len(s) + n] = t[n]
  BY Concat
<1>2. Len(s) \in Nat /\ Len(t) \in Nat
  OBVIOUS
<1> HIDE DEF j
<1>3. ASSUME NEW off \in Nat, NEW x \in Seq(Byte), Holds(s, off, x) PROVE Holds(j, off, x)
  <2>1. Len(x) \in Nat /\ off + Len(x) <= Len(s) /\ \A k \in 1 .. Len(x) : s[off + k] = x[k]
    BY <1>3 DEF Holds
  <2>2. ASSUME NEW k \in 1 .. Len(x) PROVE j[off + k] = x[k]
    <3>1. off + k \in 1 .. Len(s)
      BY <1>2, <2>1
    <3> QED
      BY <3>1, <1>1, <2>1
  <2>3. off + Len(x) <= Len(j)
    BY <1>1, <1>2, <2>1
  <2> QED
    BY <2>2, <2>3 DEF Holds
<1>4. Holds(j, Len(s), t)
  BY <1>1, <1>2 DEF Holds
<1> QED
  BY <1>3, <1>4 DEF j

(* A call of encode adds what it writes to the stream.                      *)
LEMMA InvWriteField ==
  ASSUME Inv, WriteField
  PROVE  Inv'
<1> DEFINE w == Written(message, Head(calls))
           l == Len(ends)
<1>1. /\ phase = "encode" /\ calls # <<>> /\ stream' = stream \o w /\ calls' = Tail(calls)
      /\ ends' = Append(ends, Len(stream'))
      /\ UNCHANGED <<phase, message, offset, packet, addr, port, refs, datagrams>>
  BY DEF WriteField, objectVars
<1>2. /\ calls \in Seq(Call) /\ Len(ends) + Len(calls) = Len(E) + 1 /\ offset = 0
      /\ \A k \in 1 .. Len(calls) : calls[k] = E[Len(E) - Len(calls) + k]
  BY <1>1 DEF Inv, EncodeInv
<1>3. /\ stream \in Seq(Byte) /\ ends \in Seq(Nat)
      /\ Len(ends) \in 1 .. Len(E) + 1
      /\ stream # <<>> /\ stream[1] = <<1, 1, ID[message.class]>>
      /\ ends[1] = 1 /\ ends[Len(ends)] = Len(stream)
      /\ \A n, k \in 1 .. Len(ends) : n < k => ends[n] < ends[k]
      /\ \A n \in 1 .. Len(ends) - 1 :
           /\ ends[n + 1] = ends[n] + Len(Written(message, E[n]))
           /\ Holds(stream, ends[n], Written(message, E[n]))
  BY DEF Inv, StreamInv
<1>4. Len(E) \in Nat /\ message.class \in Classes /\ message \in Messages(message.class)
  BY MessageFacts DEF Inv
<1>5. Len(calls) \in Nat /\ Len(calls) >= 1 /\ Head(calls) = calls[1]
  BY <1>1, <1>2
<1>6. l \in Nat /\ l \in 1 .. Len(E) /\ Len(E) - Len(calls) + 1 = l
  BY <1>2, <1>3, <1>4, <1>5
<1>7. Head(calls) = E[l]
  BY <1>2, <1>5, <1>6
<1>8. w \in Seq(Byte) /\ Len(w) \in Nat /\ Len(w) >= 1
  BY <1>4, <1>6, <1>7, WrittenIsBytes DEF E
<1>9. E' = E /\ MessageInv'
  BY <1>1 DEF E, Inv, MessageInv
<1>10. ObjectInv'
  BY <1>1 DEF Inv, ObjectInv, ObjectTyped
<1>11. EncodeInv'
  <2>1. calls' \in Seq(Call) /\ Len(calls') = Len(calls) - 1 /\ \A k \in 1 .. Len(calls') : calls'[k] = calls[k + 1]
    BY <1>1, <1>2, <1>5
  <2>2. Len(ends') = l + 1
    BY <1>1, <1>3
  <2>3. Len(ends') + Len(calls') = Len(E) + 1
    <3>1. l + Len(calls) = Len(E) + 1
      BY <1>2
    <3>2. l \in Nat /\ Len(calls) \in Nat
      BY <1>5, <1>6
    <3>3. (l + 1) + (Len(calls) - 1) = l + Len(calls)
      BY <3>2
    <3>4. Len(ends') + Len(calls') = (l + 1) + (Len(calls) - 1)
      BY <2>1, <2>2
    <3> HIDE DEF l
    <3> QED
      BY ONLY <3>1, <3>3, <3>4
  <2>4. ASSUME NEW k \in 1 .. Len(calls') PROVE calls'[k] = E[Len(E) - Len(calls') + k]
    <3>1. k + 1 \in 1 .. Len(calls) /\ Len(E) - Len(calls) + (k + 1) = Len(E) - Len(calls') + k
      BY <1>4, <1>5, <2>1
    <3>2. calls[k + 1] = E[Len(E) - Len(calls) + (k + 1)]
      BY <3>1, <1>2
    <3> QED
      BY <3>1, <3>2, <2>1
  <2> QED
    BY <1>1, <1>2, <1>9, <2>1, <2>3, <2>4 DEF EncodeInv
<1>12. StreamInv'
  <2> HIDE DEF w, l
  <2>1. stream' \in Seq(Byte) /\ Len(stream') = Len(stream) + Len(w) /\ Len(stream) \in Nat
        /\ \A n \in 1 .. Len(stream) : stream'[n] = stream[n]
    <3>1. stream \in Seq(Byte)
      BY <1>3
    <3>2. w \in Seq(Byte)
      BY <1>8
    <3>3. /\ stream \o w \in Seq(Byte) /\ Len(stream \o w) = Len(stream) + Len(w)
          /\ \A n \in 1 .. Len(stream) : (stream \o w)[n] = stream[n]
      BY ONLY <3>1, <3>2, Concat
    <3> QED
      BY <1>1, <3>1, <3>3
  <2>2. /\ ends' \in Seq(Nat) /\ Len(ends') = l + 1 /\ ends'[l + 1] = Len(stream')
        /\ \A n \in 1 .. l : ends'[n] = ends[n]
    <3>1. Len(stream') \in Nat
      BY <2>1
    <3> QED
      BY <1>1, <1>3, <3>1 DEF l
  <2>3. stream' # <<>> /\ stream'[1] = <<1, 1, ID[message.class]>>
    <3>1. Len(stream) >= 1
      BY <1>3, <2>1
    <3>2. 1 \in 1 .. Len(stream) /\ Len(stream') >= 1
      BY <3>1, <2>1, <1>8
    <3>3. Len(<<>>) = 0
      OBVIOUS
    <3> QED
      BY <3>2, <3>3, <2>1, <1>3
  <2>4. ends'[1] = 1 /\ ends'[Len(ends')] = Len(stream') /\ Len(ends') \in 1 .. Len(E) + 1
    <3>1. 1 \in 1 .. l
      BY <1>6
    <3>2. Len(ends') \in 1 .. Len(E) + 1
      BY <1>4, <1>6, <2>2
    <3> QED
      BY <3>1, <3>2, <2>2, <1>3
  <2>5. ends[l] = Len(stream) /\ \A n \in 1 .. l : ends[n] \in Nat /\ ends[n] <= Len(stream)
    <3>1. ends[l] = Len(stream) /\ \A n \in 1 .. l : ends[n] \in Nat
      BY <1>3 DEF l
    <3>2. \A n \in 1 .. l : n < l => ends[n] < ends[l]
      <4>1. l \in 1 .. l
        BY <1>6
      <4>2. \A n, k \in 1 .. l : n < k => ends[n] < ends[k]
        BY <1>3 DEF l
      <4> QED
        BY <4>1, <4>2
    <3>3. \A n \in 1 .. l : n < l \/ n = l
      BY <1>6
    <3> QED
      BY <3>1, <3>2, <3>3, <2>1
  <2>6. \A n, k \in 1 .. Len(ends') : n < k => ends'[n] < ends'[k]
    <3> SUFFICES ASSUME NEW n \in 1 .. Len(ends'), NEW k \in 1 .. Len(ends'), n < k PROVE ends'[n] < ends'[k]
      OBVIOUS
    <3>1. n \in 1 .. l /\ ends'[n] = ends[n] /\ ends[n] <= Len(stream) /\ ends[n] \in Nat
      BY <1>6, <2>2, <2>5
    <3>2. CASE k \in 1 .. l
      BY <3>1, <3>2, <2>2, <1>3 DEF l
    <3>3. CASE k = l + 1
      BY <3>1, <3>3, <2>1, <2>2, <1>8
    <3> QED
      BY <3>2, <3>3, <1>6, <2>2
  <2>7. ASSUME NEW n \in 1 .. Len(ends') - 1
        PROVE  /\ ends'[n + 1] = ends'[n] + Len(Written(message, E[n]))
               /\ Holds(stream', ends'[n], Written(message, E[n]))
    <3>1. n \in 1 .. l /\ ends'[n] = ends[n] /\ ends[n] \in Nat
      BY <1>6, <2>2, <2>5
    <3>2. CASE n = l
      <4>1. ends'[n + 1] = ends'[n] + Len(w) /\ ends'[n] = Len(stream)
        BY <3>1, <3>2, <2>1, <2>2, <2>5
      <4>2. Holds(stream', Len(stream), w)
        BY <1>1, <1>3, <1>8, HoldsMore
      <4>3. w = Written(message, E[n])
        BY <3>2, <1>7 DEF w
      <4> QED
        BY <4>1, <4>2, <4>3
    <3>3. CASE n # l
      <4>1. n \in 1 .. l - 1 /\ n + 1 \in 1 .. l /\ n \in 1 .. Len(E)
        BY <3>1, <3>3, <1>4, <1>6
      <4>2. /\ ends[n + 1] = ends[n] + Len(Written(message, E[n]))
            /\ Holds(stream, ends[n], Written(message, E[n]))
        BY <4>1, <1>3 DEF l
      <4>3. Written(message, E[n]) \in Seq(Byte)
        BY <4>1, <1>4, WrittenIsBytes DEF E
      <4>4. Holds(stream', ends[n], Written(message, E[n]))
        BY <4>2, <4>3, <3>1, <1>1, <1>3, <1>8, HoldsMore
      <4> QED
        BY <4>1, <4>2, <4>4, <3>1, <2>2
    <3> QED
      BY <3>2, <3>3
  <2> QED
    BY <1>1, <1>9, <2>1, <2>2, <2>3, <2>4, <2>6, <2>7 DEF StreamInv
<1>13. (CallsInv /\ OffsetInv /\ FieldsInv /\ AddressInv)'
  <2>1. (phase = "encode")'
    BY <1>1
  <2>2. (phase = "encode" => CallsInv /\ OffsetInv /\ FieldsInv /\ AddressInv)'
    BY NothingRead, PTL
  <2> QED
    BY <2>1, <2>2
<1> QED
  BY <1>9, <1>10, <1>11, <1>12, <1>13 DEF Inv

(* No two classes have the same identifier.                                 *)
LEMMA IDsAreUnique ==
  ASSUME NEW a \in Classes, NEW b \in Classes, ID[a] = ID[b]
  PROVE  a = b
  BY DEF Classes, Layout, ID

(* The class is found by its identifier, and nothing is read yet.           *)
LEMMA InvDecode ==
  ASSUME Inv, Decode
  PROVE  Inv'
<1>1. PICK class \in Classes : ID[class] = ValueAt(stream, 0, 1) /\ calls' = Layout[class].decode
  BY DEF Decode
<1>2. /\ phase = "encode" /\ calls = <<>> /\ phase' = "decode" /\ offset' = 1 /\ refs' = <<>>
      /\ UNCHANGED <<message, stream, packet, addr, port, ends, datagrams>>
  BY DEF Decode
<1>3. MessageInv /\ ObjectInv /\ StreamInv /\ EncodeInv
  BY DEF Inv
<1>4. /\ message.class \in Classes /\ message \in Messages(message.class)
      /\ Len(E) \in Nat /\ D \in Seq(DecodeCall) /\ Len(D) \in Nat /\ Consumed(message, 0) = 0
  BY <1>3, MessageFacts
<1>5. ValueAt(stream, 0, 1) = ID[message.class]
  <2>1. stream \in Seq(Byte) /\ stream[1] = <<1, 1, ID[message.class]>> /\ stream # <<>>
    BY <1>3 DEF StreamInv
  <2>2. ID[message.class] \in Nat
    BY <1>4, HeaderFacts
  <2>3. 0 + 1 <= Len(stream) /\ \A k \in 1 .. 1 : stream[0 + k] = <<1, k, ID[message.class]>>
    BY <2>1
  <2>4. 1 \in Nat \ {0} /\ 0 \in Nat
    OBVIOUS
  <2> QED
    BY <2>1, <2>2, <2>3, <2>4, ReadBack
<1>6. calls' = D
  <2>1. class = message.class
    BY <1>1, <1>4, <1>5, IDsAreUnique
  <2> QED
    BY <2>1, <1>1 DEF D
<1>7. D' = D /\ E' = E /\ MessageInv' /\ StreamInv' /\ ObjectInv' /\ EncodeInv'
  <2>1. D' = D /\ E' = E
    BY <1>2 DEF D, E
  <2>2. MessageInv'
    BY <1>2, <1>3 DEF MessageInv
  <2>3. StreamInv'
    BY <1>2, <1>3, <2>1 DEF StreamInv
  <2>4. ObjectInv'
    BY <1>2, <1>3 DEF ObjectInv, ObjectTyped
  <2>5. EncodeInv'
    BY <1>2 DEF EncodeInv
  <2> QED
    BY <2>1, <2>2, <2>3, <2>4, <2>5
<1>8. Read' = 0
  <2>1. Len(D) - Len(D) = 0
    BY <1>4
  <2> QED
    BY <2>1, <1>2, <1>4, <1>6, <1>7 DEF Read
<1>9. CallsInv'
  <2>1. Len(ends) = Len(E) + 1
    BY <1>2, <1>3, <1>4 DEF EncodeInv, StreamInv
  <2>2. \A k \in 1 .. Len(D) : Len(D) - Len(D) + k = k
    BY <1>4
  <2> QED
    BY <1>2, <1>4, <1>6, <1>7, <2>1, <2>2 DEF CallsInv
<1>10. OffsetInv'
  <2>1. ends[0 + 1] = 1
    BY <1>3 DEF StreamInv
  <2> QED
    BY <1>2, <1>8, <2>1 DEF OffsetInv
<1>11. FieldsInv'
  BY <1>8 DEF FieldsInv
<1>12. AddressInv'
  <2>1. Heard(Read)' = {}
    BY <1>8 DEF Heard
  <2> QED
    BY <1>2, <2>1 DEF AddressInv, Misread, WritesVersion6
<1> QED
  BY <1>7, <1>9, <1>10, <1>11, <1>12 DEF Inv

(* The end of decode changes nothing.                                       *)
LEMMA InvDecoded ==
  ASSUME Inv, Decoded
  PROVE  Inv'
<1>1. /\ phase = "decode" /\ calls = <<>> /\ phase' = "done"
      /\ UNCHANGED <<message, calls, stream, offset, packet, addr, port, refs, ends, datagrams>>
  BY DEF Decoded, objectVars
<1>2. D' = D /\ E' = E /\ Read' = Read
  BY <1>1 DEF D, E, Read
<1>3. MessageInv' /\ ObjectInv' /\ StreamInv' /\ EncodeInv'
  BY <1>1, <1>2 DEF Inv, MessageInv, ObjectInv, ObjectTyped, StreamInv, EncodeInv
<1>4. CallsInv' /\ OffsetInv'
  BY <1>1, <1>2 DEF Inv, CallsInv, OffsetInv, NameCut
<1>5. FieldsInv' /\ AddressInv'
  BY <1>1, <1>2 DEF Inv, FieldsInv, AddressInv, Misread, WritesVersion6, Heard, AddressAt
<1> QED
  BY <1>3, <1>4, <1>5 DEF Inv

-----------------------------------------------------------------------------
(* The invariant: what decode does.                                        *)

(* Where decode is, and what is in front of it.                             *)
LEMMA ReadHere ==
  ASSUME Inv, phase = "decode", calls # <<>>
  PROVE  LET d == Len(D) - Len(calls)
         IN  /\ d \in 0 .. Len(D) - 1 /\ Head(calls) = D[d + 1] /\ Matches(message, d)
             /\ Read = Consumed(message, d) /\ Read \in 0 .. Len(E)
             /\ Len(ends) = Len(E) + 1
             /\ offset \in Nat /\ offset <= Len(stream) /\ Len(stream) \in Nat
             /\ stream \in Seq(Byte)
             /\ Read < Len(E) =>
                  /\ Read + 1 \in 1 .. Len(E) /\ offset = ends[Read + 1]
                  /\ Holds(stream, offset, Written(message, E[Read + 1]))
                  /\ ends[(Read + 1) + 1] = offset + Len(Written(message, E[Read + 1]))
<1> DEFINE d == Len(D) - Len(calls)
<1>1. MessageInv /\ StreamInv /\ CallsInv /\ OffsetInv
  BY DEF Inv
<1>2. /\ Len(E) \in Nat /\ D \in Seq(DecodeCall) /\ Len(D) \in Nat
      /\ \A n \in 0 .. Len(D) - 1 : Matches(message, n)
  BY <1>1, MessageFacts
<1>3. /\ Len(ends) = Len(E) + 1
      /\ calls \in Seq(DecodeCall) /\ Len(calls) <= Len(D)
      /\ \A k \in 1 .. Len(calls) : calls[k] = D[Len(D) - Len(calls) + k]
  BY <1>1 DEF CallsInv
<1>4. Len(calls) \in Nat /\ Len(calls) >= 1 /\ Head(calls) = calls[1]
  BY <1>3
<1>5. d \in 0 .. Len(D) - 1 /\ Head(calls) = D[d + 1]
  BY <1>2, <1>3, <1>4
<1>6. Read = Consumed(message, d) /\ Matches(message, d)
  BY <1>2, <1>5 DEF Read
<1>7. Read \in 0 .. Len(E)
  BY <1>6 DEF Matches, E
<1>8. /\ stream \in Seq(Byte) /\ ends \in Seq(Nat)
      /\ ends[1] = 1 /\ ends[Len(ends)] = Len(stream)
      /\ \A n, k \in 1 .. Len(ends) : n < k => ends[n] < ends[k]
      /\ \A n \in 1 .. Len(ends) - 1 :
           /\ ends[n + 1] = ends[n] + Len(Written(message, E[n]))
           /\ Holds(stream, ends[n], Written(message, E[n]))
  BY <1>1 DEF StreamInv
<1>9. Read + 1 \in 1 .. Len(ends) /\ Len(ends) \in 1 .. Len(ends)
  BY <1>2, <1>3, <1>7
<1>10. Len(stream) \in Nat
  BY <1>8
<1>11. ends[Read + 1] \in Nat /\ ends[Read + 1] <= Len(stream) /\ ends[Read + 1] >= 1
  <2> DEFINE r == Read + 1
  <2>1. r \in 1 .. Len(ends) /\ Len(ends) \in Nat
    BY <1>2, <1>3, <1>9
  <2> HIDE DEF r
  <2>2. \A n \in 1 .. Len(ends) : ends[n] \in Nat
    BY <1>8
  <2>3. r = 1 \/ 1 < r
    BY <2>1
  <2>4. r = Len(ends) \/ r < Len(ends)
    BY <2>1
  <2>5. 1 \in 1 .. Len(ends)
    BY <2>1
  <2>6. ends[r] \in Nat /\ ends[r] >= 1
    BY <1>8, <2>1, <2>2, <2>3, <2>5
  <2>7. ends[r] <= Len(stream)
    BY <1>8, <1>9, <1>10, <2>1, <2>2, <2>4, SMTT(30)
  <2> QED
    BY <2>6, <2>7 DEF r
<1>12. offset = ends[Read + 1] \/ (NameCut /\ offset = ends[Read + 1] - 1)
  BY <1>1 DEF OffsetInv
<1>13. offset \in Nat /\ offset <= Len(stream)
  BY <1>10, <1>11, <1>12
<1>14. ASSUME Read < Len(E)
       PROVE  /\ Read + 1 \in 1 .. Len(E) /\ offset = ends[Read + 1]
              /\ Holds(stream, offset, Written(message, E[Read + 1]))
              /\ ends[(Read + 1) + 1] = offset + Len(Written(message, E[Read + 1]))
  <2>1. ~ NameCut
    BY <1>2, <1>7, <1>14 DEF NameCut
  <2>2. Read + 1 \in 1 .. Len(ends) - 1 /\ Read + 1 \in 1 .. Len(E)
    BY <1>2, <1>3, <1>7, <1>14
  <2> QED
    BY <1>8, <1>12, <2>1, <2>2
<1> QED
  BY <1>3, <1>5, <1>6, <1>7, <1>8, <1>10, <1>13, <1>14

(* What every call of decode does.                                          *)
LEMMA ReadFrame ==
  ASSUME Inv, ReadField
  PROVE  /\ MessageInv' /\ StreamInv' /\ EncodeInv' /\ CallsInv'
         /\ E' = E /\ D' = D /\ Read' = Consumed(message, (Len(D) - Len(calls)) + 1)
         /\ phase = "decode" /\ calls # <<>>
         /\ UNCHANGED <<phase, message, stream, ends, datagrams>>
<1>1. /\ phase = "decode" /\ calls # <<>> /\ calls' = Tail(calls)
      /\ UNCHANGED <<phase, message, stream, ends, datagrams>>
  BY DEF ReadField
<1>2. D' = D /\ E' = E
  BY <1>1 DEF D, E
<1>3. MessageInv'
  BY <1>1 DEF Inv, MessageInv
<1>4. StreamInv'
  BY <1>1, <1>2 DEF Inv, StreamInv
<1>5. EncodeInv'
  BY <1>1 DEF EncodeInv
<1>6. /\ Len(ends) = Len(E) + 1 /\ Len(D) \in Nat
      /\ calls \in Seq(DecodeCall) /\ Len(calls) <= Len(D)
      /\ \A k \in 1 .. Len(calls) : calls[k] = D[Len(D) - Len(calls) + k]
  BY <1>1, MessageFacts DEF Inv, CallsInv
<1>7. Len(calls) \in Nat /\ Len(calls) >= 1
  BY <1>1, <1>6
<1>8. calls' \in Seq(DecodeCall) /\ Len(calls') = Len(calls) - 1 /\ \A k \in 1 .. Len(calls') : calls'[k] = calls[k + 1]
  BY <1>1, <1>6
<1>9. Len(D) - Len(calls') = (Len(D) - Len(calls)) + 1
  BY <1>6, <1>7, <1>8
<1>10. CallsInv'
  <2>1. ASSUME NEW k \in 1 .. Len(calls') PROVE calls'[k] = D[Len(D) - Len(calls') + k]
    <3>1. k + 1 \in 1 .. Len(calls) /\ Len(D) - Len(calls) + (k + 1) = Len(D) - Len(calls') + k
      BY <1>6, <1>7, <1>8
    <3>2. calls[k + 1] = D[Len(D) - Len(calls) + (k + 1)]
      BY <3>1, <1>6
    <3> QED
      BY <3>1, <3>2, <1>8
  <2>2. Len(calls') <= Len(D)
    BY <1>6, <1>7, <1>8
  <2> QED
    BY <1>1, <1>2, <1>6, <1>8, <2>1, <2>2 DEF CallsInv
<1>11. Read' = Consumed(message, (Len(D) - Len(calls)) + 1)
  BY <1>1, <1>2, <1>9 DEF Read
<1> QED
  BY <1>1, <1>2, <1>3, <1>4, <1>5, <1>10, <1>11

(* NewIncomingConnection stops reading addresses where the times begin.     *)
LEMMA StopAtTimes ==
  ASSUME Inv, phase = "decode", message.class = "NewIncomingConnection"
  PROVE  LET A == Len(message.addresses)
         IN  /\ A \in Nat /\ A + 1 \in 1 .. Len(ends)
             /\ StopOffset = ends[A + 1]
             /\ \A n \in 1 .. A : ends[n] < StopOffset
<1> DEFINE A == Len(message.addresses)
<1>1. MessageInv /\ StreamInv /\ CallsInv
  BY DEF Inv
<1>2. /\ message.class \in Classes /\ message \in Messages(message.class) /\ WritesAddresses(message, E)
      /\ Len(ends) = Len(E) + 1
  BY <1>1, MessageFacts DEF CallsInv
<1>3. /\ A \in 1 .. SystemAddresses + 1 /\ Len(E) = A + 2
      /\ \A k \in 1 .. 2 : E[A + k] = Layout["NewIncomingConnection"].encode[k]
  BY <1>2 DEF WritesAddresses
<1>4. A \in Nat /\ A >= 1
  BY <1>3, MessagesAssumption
<1>5. /\ ends \in Seq(Nat) /\ ends[Len(ends)] = Len(stream)
      /\ \A n, k \in 1 .. Len(ends) : n < k => ends[n] < ends[k]
      /\ \A n \in 1 .. Len(ends) - 1 : ends[n + 1] = ends[n] + Len(Written(message, E[n]))
  BY <1>1 DEF StreamInv
<1> HIDE DEF A
<1>6. ASSUME NEW k \in 1 .. 2 PROVE Len(Written(message, E[A + k])) = 8
  <2>1. E[A + k] \in Number /\ E[A + k][1] = "long" /\ A + k \in 1 .. Len(E)
    <3>1. k = 1 \/ k = 2
      OBVIOUS
    <3> QED
      BY <3>1, <1>3, <1>4, Times
  <2>2. /\ Written(message, E[A + k]) = Bytes(Width[E[A + k][1]], message.fields[E[A + k][2]])
        /\ message.fields[E[A + k][2]] \in Nat
    BY <2>1, <1>2, NumberWritten DEF E
  <2>3. Width[E[A + k][1]] = 8
    BY <2>1 DEF Width
  <2>4. \A v \in Nat : Len(Bytes(8, v)) = 8
    BY BytesFacts
  <2> QED
    BY <2>2, <2>3, <2>4
<1>7. Len(ends) = A + 3
  BY <1>2, <1>3, <1>4
<1>8. ends[A + 1] \in Nat /\ ends[A + 2] = ends[A + 1] + 8 /\ ends[A + 3] = ends[A + 2] + 8
  <2>1. A + 1 \in 1 .. Len(ends) - 1 /\ A + 2 \in 1 .. Len(ends) - 1 /\ A + 1 \in 1 .. Len(ends)
    BY <1>4, <1>7
  <2>2. (A + 1) + 1 = A + 2 /\ (A + 2) + 1 = A + 3
    BY <1>4
  <2>3. Len(Written(message, E[A + 1])) = 8 /\ Len(Written(message, E[A + 2])) = 8
    BY <1>6
  <2>4. ends[A + 1] \in Nat
    BY <1>5, <2>1
  <2>5. ends[(A + 1) + 1] = ends[A + 1] + 8 /\ ends[(A + 2) + 1] = ends[A + 2] + 8
    BY <1>5, <2>1, <2>3
  <2> QED
    BY <2>2, <2>4, <2>5
<1>9. StopOffset = ends[A + 1]
  BY <1>5, <1>7, <1>8 DEF StopOffset
<1>10. A + 1 \in 1 .. Len(ends) /\ \A n \in 1 .. A : n \in 1 .. Len(ends) /\ n < A + 1
  BY <1>4, <1>7
<1> QED
  BY <1>4, <1>5, <1>9, <1>10 DEF A

(* One call more.                                                           *)
LEMMA HeardNext ==
  ASSUME NEW c \in Nat
  PROVE  /\ E[c + 1] \notin AddressCall => Heard(c + 1) = Heard(c)
         /\ E[c + 1] \in AddressCall => Heard(c + 1) = Heard(c) \cup {c + 1}
         /\ \A n \in Heard(c) : n < c + 1 /\ n \in 1 .. c /\ E[n] \in AddressCall
<1>1. 1 .. c + 1 = (1 .. c) \cup {c + 1}
  OBVIOUS
<1>2. Heard(c + 1) = {n \in (1 .. c) \cup {c + 1} : E[n] \in AddressCall}
  BY <1>1 DEF Heard
<1>3. E[c + 1] \notin AddressCall => Heard(c + 1) = Heard(c)
  BY <1>2 DEF Heard
<1>4. E[c + 1] \in AddressCall => Heard(c + 1) = Heard(c) \cup {c + 1}
  BY <1>2 DEF Heard
<1>5. \A n \in Heard(c) : n < c + 1 /\ n \in 1 .. c /\ E[n] \in AddressCall
  BY DEF Heard
<1> QED
  BY <1>3, <1>4, <1>5

(* The invariant of the addresses, of as many calls, or one more that is of *)
(* a field.                                                                 *)
LEMMA AddressesAsBefore ==
  ASSUME Inv, ReadField, Read \in Nat, UNCHANGED <<addr, port, refs>>,
         Read' = Read \/ (Read' = Read + 1 /\ E[Read + 1] \notin AddressCall)
  PROVE  AddressInv'
<1>1. E' = E /\ phase # "encode" /\ UNCHANGED <<phase, message>>
  BY ReadFrame
<1>2. Heard(Read') = Heard(Read)
  BY HeardNext
<1>3. Heard(Read)' = Heard(Read)
  BY <1>1, <1>2 DEF Heard
<1>4. AddressInv
  BY DEF Inv
<1> QED
  BY <1>1, <1>3, <1>4 DEF AddressInv, Misread, WritesVersion6, AddressAt

(* A field is read as it was written.                                       *)
LEMMA FieldIsRead ==
  ASSUME Inv, ReadField, Read \in Nat, Read < Len(E), Read' = Read + 1,
         E[Read + 1] \in Number \cup {NameCall},
         SetField(E[Read + 1][2], Expected(message, E[Read + 1][2])),
         Expected(message, E[Read + 1][2]) \in Nat \cup {Torn},
         UNCHANGED <<addr, port, refs>>
  PROVE  (ObjectInv /\ FieldsInv /\ AddressInv)'
<1> DEFINE name == E[Read + 1][2]
           v == Expected(message, name)
<1>1. E' = E /\ phase = "decode" /\ UNCHANGED <<phase, message, datagrams>>
  BY ReadFrame
<1>2. Ordered(E) /\ Len(E) \in Nat /\ MessageInv
  BY MessageFacts DEF Inv
<1>3. ObjectInv'
  BY <1>1 DEF Inv, ObjectInv, ObjectTyped, SetField
<1>4. AddressInv'
  <2>1. E[Read + 1] \notin AddressCall
    BY CallKinds
  <2> QED
    BY <2>1, AddressesAsBefore
<1>5. FieldsInv'
  <2>1. ASSUME NEW n \in 1 .. Read, E[n] \in Number \cup {NameCall} PROVE E[n][2] # name
    <3>1. n \in 1 .. Len(E) /\ n # Len(E) /\ Read + 1 \in 1 .. Len(E) /\ n # Read + 1
      BY <1>2
    <3>2. E[n] \in Number
      BY <2>1, <3>1, <1>2 DEF Ordered
    <3>3. CASE E[Read + 1] \in Number
      BY <3>1, <3>2, <3>3, <1>2 DEF Ordered
    <3>4. CASE E[Read + 1] = NameCall
      BY <3>2, <3>4 DEF Number, Plain, NameCall
    <3> QED
      BY <3>3, <3>4
  <2>2. \A n \in 1 .. Read : E[n] \in Number \cup {NameCall} =>
          E[n][2] \in DOMAIN packet /\ packet[E[n][2]] = Expected(message, E[n][2])
    BY <1>1 DEF Inv, FieldsInv
  <2>3. \A f \in DOMAIN packet : f # name => f \in DOMAIN packet' /\ packet'[f] = packet[f]
    BY DEF SetField
  <2>4. name \in DOMAIN packet' /\ packet'[name] = v
    BY DEF SetField
  <2>5. ASSUME NEW n \in 1 .. Read + 1, E[n] \in Number \cup {NameCall}
        PROVE  E[n][2] \in DOMAIN packet' /\ packet'[E[n][2]] = Expected(message, E[n][2])
    <3>1. CASE n = Read + 1
      BY <2>4, <3>1
    <3>2. CASE n # Read + 1
      <4>1. n \in 1 .. Read
        BY <3>2
      <4> HIDE DEF name
      <4> QED
        BY <4>1, <2>1, <2>2, <2>3, <2>5
    <3> QED
      BY <3>1, <3>2
  <2>6. message' = message /\ phase' # "encode"
    BY <1>1
  <2>7. \A n \in 1 .. Read' : E'[n] \in Number \cup {NameCall} =>
          E'[n][2] \in DOMAIN packet' /\ packet'[E'[n][2]] = Expected(message', E'[n][2])
    BY <1>1, <2>5, <2>6, Zenon
  <2> QED
    BY <2>7 DEF FieldsInv
<1> QED
  BY <1>3, <1>4, <1>5

(* The call that the first kind of match is about.                          *)
LEMMA CallRead ==
  ASSUME Inv, ReadField
  PROVE  /\ Read \in Nat /\ Read <= Len(E) /\ Len(E) \in Nat
         /\ \/ Read < Len(E) /\ Read' = Read + 1 /\ Head(calls) = E[Read + 1] /\ E[Read + 1] \in Call
            \/ /\ Read < Len(E) /\ Read' = Read + 1 /\ E[Read + 1] \in AddressCall
               /\ Head(calls)[1] = "systemAddress" /\ message.class = "NewIncomingConnection"
               /\ Read < Len(message.addresses)
            \/ /\ Read = Len(E) /\ Read' = Read /\ Head(calls) = <<"length", "mtuSize">>
               /\ "mtuSize" \notin DOMAIN message.fields
            \/ /\ Read = Len(message.addresses) /\ Read' = Read
               /\ Head(calls)[1] = "systemAddress" /\ message.class = "NewIncomingConnection"
<1> DEFINE d == Len(D) - Len(calls)
<1>1. phase = "decode" /\ calls # <<>> /\ Read' = Consumed(message, d + 1)
  BY ReadFrame
<1>2. Head(calls) = D[d + 1] /\ Matches(message, d) /\ Read = Consumed(message, d) /\ Read \in 0 .. Len(E)
  BY <1>1, ReadHere
<1>3. E \in Seq(Call) /\ Len(E) \in Nat
  BY MessageFacts DEF Inv
<1> HIDE DEF d
<1>4. Read \in Nat /\ Read <= Len(E) /\ (Read < Len(E) => E[Read + 1] \in Call)
  <2>1. Read < Len(E) => Read + 1 \in 1 .. Len(E)
    BY <1>2, <1>3
  <2> QED
    BY <1>2, <1>3, <2>1
<1> QED
  BY <1>1, <1>2, <1>3, <1>4 DEF Matches, E, D

(* A number is read with the width it was written with.                     *)
LEMMA InvReadScalar ==
  ASSUME Inv, ReadField, ReadScalar(Head(calls))
  PROVE  (ObjectInv /\ OffsetInv /\ FieldsInv /\ AddressInv)'
<1> DEFINE call == Head(calls)
<1>1. /\ call[1] \in DOMAIN Width
      /\ SetField(call[2], ValueAt(stream, offset, Width[call[1]]))
      /\ offset' = offset + Width[call[1]]
      /\ UNCHANGED <<addr, port, refs>>
  BY DEF ReadScalar
<1>2. call[1] \in {"byte", "short", "long", "magic"}
  BY <1>1 DEF Width
<1> HIDE DEF call
<1>3. /\ Read \in Nat /\ Read < Len(E) /\ Read' = Read + 1
      /\ call = E[Read + 1] /\ E[Read + 1] \in Call
  BY <1>2, CallRead DEF call
<1>4. E[Read + 1] \in Number
  <2>1. E[Read + 1] \notin AddressCall /\ E[Read + 1] # NameCall
    BY <1>2, <1>3 DEF AddressCall, NameCall
  <2> QED
    BY <1>3, <2>1 DEF Call
<1>5. /\ Read + 1 \in 1 .. Len(E) /\ offset = ends[Read + 1] /\ stream \in Seq(Byte) /\ offset \in Nat
      /\ Holds(stream, offset, Written(message, E[Read + 1]))
      /\ ends[(Read + 1) + 1] = offset + Len(Written(message, E[Read + 1]))
  BY <1>3, ReadFrame, ReadHere
<1>6. /\ Width[call[1]] \in Nat \ {0} /\ message.fields[call[2]] \in Nat
      /\ message.fields[call[2]] = Expected(message, call[2])
      /\ Written(message, call) = Bytes(Width[call[1]], message.fields[call[2]])
  BY <1>3, <1>4, <1>5, MessageFacts, NumberWritten DEF E, Inv
<1>7. Width[call[1]] \in Nat /\ Width[call[1]] # 0
  BY <1>6
<1>8. ValueAt(stream, offset, Width[call[1]]) = Expected(message, call[2])
  BY <1>3, <1>5, <1>6, <1>7, BytesRead
<1>9. Len(Written(message, call)) = Width[call[1]]
  BY <1>6, <1>7, BytesFacts
<1>10. (ObjectInv /\ FieldsInv /\ AddressInv)'
  BY <1>1, <1>3, <1>4, <1>6, <1>8, FieldIsRead
<1>11. OffsetInv'
  <2>1. offset' = ends[Read' + 1] /\ ends' = ends
    BY <1>1, <1>3, <1>5, <1>9, ReadFrame
  <2> QED
    BY <2>1 DEF OffsetInv
<1> QED
  BY <1>10, <1>11

(* A name is read by the length in front of it.                             *)
LEMMA InvReadString ==
  ASSUME Inv, ReadField, ReadString(Head(calls))
  PROVE  (ObjectInv /\ OffsetInv /\ FieldsInv /\ AddressInv)'
<1> DEFINE call == Head(calls)
           length == ValueAt(stream, offset, 2)
           name == message.fields["serverName"]
<1>1. /\ call[1] = "string"
      /\ SetField(call[2], ValueAt(stream, offset + 2, length))
      /\ offset' = offset + 2 + length
      /\ UNCHANGED <<addr, port, refs>>
  BY DEF ReadString
<1> HIDE DEF call
<1>3. /\ Read \in Nat /\ Read < Len(E) /\ Read' = Read + 1 /\ Read + 1 <= Len(E) /\ Len(E) \in Nat
      /\ call = E[Read + 1] /\ E[Read + 1] \in Call
  BY <1>1, CallRead DEF call
<1>4. E[Read + 1] = NameCall /\ call[2] = "serverName" /\ call = NameCall
  <2>1. E[Read + 1] \notin AddressCall /\ E[Read + 1] \notin Number
    BY <1>1, <1>3 DEF AddressCall, Number, Scalar
  <2> QED
    BY <1>3, <2>1 DEF Call, NameCall
<1>5. /\ Read + 1 \in 1 .. Len(E) /\ offset = ends[Read + 1] /\ stream \in Seq(Byte) /\ offset \in Nat
      /\ Holds(stream, offset, Written(message, E[Read + 1]))
      /\ ends[(Read + 1) + 1] = offset + Len(Written(message, E[Read + 1]))
  BY <1>3, ReadFrame, ReadHere
<1>6. message.class \in Classes /\ message \in Messages(message.class) /\ Ordered(E)
  BY MessageFacts DEF Inv
<1>7. /\ length = Chars(name)
      /\ ValueAt(stream, offset + 2, length) = Expected(message, "serverName")
      /\ Len(Written(message, NameCall)) = 2 + name
  BY <1>4, <1>5, <1>6, NameRead DEF E
<1>8. /\ name \in Nat /\ Chars(name) = IF name \in MultiByte THEN name - 1 ELSE name
      /\ Expected(message, "serverName") = IF name \in MultiByte THEN Torn ELSE name
  BY <1>4, <1>5, <1>6, NameWritten DEF E
<1> HIDE DEF name, length
<1>9. (ObjectInv /\ FieldsInv /\ AddressInv)'
  <2>1. Expected(message, E[Read + 1][2]) \in Nat \cup {Torn}
    BY <1>3, <1>4, <1>8
  <2>2. SetField(E[Read + 1][2], Expected(message, E[Read + 1][2]))
    BY <1>1, <1>3, <1>4, <1>7
  <2> QED
    BY <1>1, <1>3, <1>4, <2>1, <2>2, FieldIsRead
<1>10. OffsetInv'
  <2>1. /\ E' = E /\ ends' = ends /\ message' = message /\ Read' = Read + 1
        /\ ends[(Read + 1) + 1] = offset + (2 + name)
    BY <1>3, <1>4, <1>5, <1>7, ReadFrame
  <2>2. name \in Nat /\ offset \in Nat
    BY <1>5, <1>8
  <2>3. CASE name \notin MultiByte
    <3>1. offset' = ends'[Read' + 1]
      <4>1. length = name /\ offset' = offset + 2 + name
        BY <1>1, <1>7, <1>8, <2>3
      <4>2. offset + 2 + name = offset + (2 + name)
        BY <2>2
      <4> QED
        BY <2>1, <4>1, <4>2
    <3> QED
      BY <3>1 DEF OffsetInv
  <2>4. CASE name \in MultiByte
    <3>1. offset' = ends'[Read' + 1] - 1
      <4>1. length = name - 1 /\ offset' = offset + 2 + (name - 1)
        BY <1>1, <1>7, <1>8, <2>4
      <4>2. offset + 2 + (name - 1) = (offset + (2 + name)) - 1
        BY <2>2
      <4> QED
        BY <2>1, <4>1, <4>2
    <3>2. Read + 1 = Len(E)
      BY <1>4, <1>5, <1>6 DEF Ordered
    <3>3. NameCut'
      BY <1>3, <1>4, <2>1, <2>4, <3>2 DEF NameCut, name
    <3> QED
      BY <3>1, <3>3 DEF OffsetInv
  <2> QED
    BY <2>3, <2>4
<1> QED
  BY <1>9, <1>10

(* The length is no field that was written.                                 *)
LEMMA InvReadLength ==
  ASSUME Inv, ReadField, ReadLength(Head(calls))
  PROVE  (ObjectInv /\ OffsetInv /\ FieldsInv /\ AddressInv)'
<1> DEFINE call == Head(calls)
<1>1. call[1] = "length" /\ SetField(call[2], Len(stream)) /\ offset' = Len(stream) /\ UNCHANGED <<addr, port, refs>>
  BY DEF ReadLength
<1> HIDE DEF call
<1>2. /\ Read \in Nat /\ Len(E) \in Nat /\ Read = Len(E) /\ Read' = Read /\ call = <<"length", "mtuSize">>
      /\ "mtuSize" \notin DOMAIN message.fields
  <2>1. \A c \in Call : c[1] # "length"
    BY DEF Call, Number, Scalar, AddressCall, NameCall
  <2> QED
    BY <1>1, <2>1, CallRead DEF call
<1>3. /\ E' = E /\ phase = "decode" /\ calls # <<>>
      /\ UNCHANGED <<phase, message, stream, ends, datagrams>>
  BY ReadFrame
<1>4. Len(stream) \in Nat /\ Len(ends) = Len(E) + 1 /\ ends[Len(ends)] = Len(stream)
  BY <1>3, ReadHere DEF Inv, StreamInv
<1>5. ObjectInv'
  BY <1>1, <1>3, <1>4 DEF Inv, ObjectInv, ObjectTyped, SetField
<1>6. OffsetInv'
  <2>1. offset' = ends'[Read' + 1]
    BY <1>1, <1>2, <1>3, <1>4
  <2> QED
    BY <2>1 DEF OffsetInv
<1>7. AddressInv'
  BY <1>1, <1>2, AddressesAsBefore
<1>8. FieldsInv'
  <2>1. ASSUME NEW n \in 1 .. Read, E[n] \in Number \cup {NameCall}
        PROVE  E[n][2] \in DOMAIN packet' /\ packet'[E[n][2]] = Expected(message, E[n][2])
    <3>1. E[n][2] \in DOMAIN packet /\ packet[E[n][2]] = Expected(message, E[n][2])
      BY <1>3, <2>1 DEF Inv, FieldsInv
    <3>2. E[n][2] \in DOMAIN message.fields
      <4>1. n \in 1 .. Len(E) /\ WritesFields(message, E)
        BY <1>2, MessageFacts DEF Inv
      <4> QED
        BY <2>1, <4>1 DEF WritesFields, NameCall
    <3>3. E[n][2] # "mtuSize"
      BY <1>2, <3>2
    <3>4. \A f \in DOMAIN packet : f # "mtuSize" => f \in DOMAIN packet' /\ packet'[f] = packet[f]
      BY <1>1, <1>2 DEF SetField
    <3> QED
      BY <3>1, <3>3, <3>4
  <2>2. \A n \in 1 .. Read' : E'[n] \in Number \cup {NameCall} =>
          E'[n][2] \in DOMAIN packet' /\ packet'[E'[n][2]] = Expected(message', E'[n][2])
    BY <1>2, <1>3, <2>1, Zenon
  <2> QED
    BY <2>2 DEF FieldsInv
<1> QED
  BY <1>5, <1>6, <1>7, <1>8

(* What readAddress makes of an address that was written.                   *)
LEMMA ReadAddressResult ==
  ASSUME Inv, ReadField, Read \in Nat, Read < Len(E), E[Read + 1] \in AddressCall, ReadAddress
  PROVE  LET a == AddressAt(Read + 1)
         IN  /\ offset' = ends[(Read + 1) + 1] + (IF Misread THEN 16 - EmptyData ELSE 0)
             /\ offset' \in Nat /\ ends[(Read + 1) + 1] \in Nat /\ a.port \in Nat
             /\ Misread => a = message.addresses[1]
             /\ refs' = Append(refs, IF Known(a) THEN "this" ELSE "error")
             /\ Known(a) => port' = a.port
             /\ a.version = 4 => addr' = <<255, 254, 253, 252>>
             /\ a.version = 6 => addr' = <<>>
             /\ ~Known(a) => UNCHANGED <<addr, port>>
<1> DEFINE a == AddressAt(Read + 1)
           w == Written(message, E[Read + 1])
           data == HostBytes(message)
<1>1. /\ Read + 1 \in 1 .. Len(E) /\ offset = ends[Read + 1] /\ stream \in Seq(Byte) /\ offset \in Nat
      /\ Holds(stream, offset, w)
      /\ ends[(Read + 1) + 1] = offset + Len(w)
  BY ReadFrame, ReadHere
<1>2. message.class \in Classes /\ message \in Messages(message.class) /\ WritesAddresses(message, E)
  BY MessageFacts DEF Inv
<1>3. /\ ValueAt(stream, offset, 1) = a.version /\ a.version \in Nat /\ a.port \in Nat
      /\ a.version = 4 =>
           /\ \A k \in 1 .. 4 : ValueAt(stream, offset + k, 1) = k - 1
           /\ ValueAt(stream, offset + 5, 2) = a.port
           /\ Len(w) = 7
      /\ a.version = 6 => ValueAt(stream, offset + 3, 2) = a.port /\ Len(w) = 13 + data
      /\ a.version \notin {4, 6} => Len(w) = 1
      /\ data \in Nat
  BY <1>1, <1>2, AddressRead, ZenonT(40) DEF E, AddressAt
<1>6. message.class = "OpenConnectionReply2" => a = message.addresses[1]
  <2> SUFFICES ASSUME message.class = "OpenConnectionReply2" PROVE E[Read + 1][2] = 1
    BY DEF AddressAt
  <2>1. E[Read + 1][2] \in 1 .. Len(message.addresses) /\ Len(message.addresses) \in 0 .. 1
    BY <1>1, <1>2 DEF WritesAddresses
  <2>2. \A l \in 0 .. 1 : \A k \in 1 .. l : k = 1
    OBVIOUS
  <2> QED
    BY ONLY <2>1, <2>2
<1>7. EmptyData \in Nat
  BY MessagesAssumption
<1>8. Misread => a.version = 6 /\ data = EmptyData /\ a = message.addresses[1]
  BY <1>6 DEF Misread, WritesVersion6, HostBytes
<1>9. a.version = 6 /\ ~Misread => data = 16
  BY <1>6 DEF Misread, WritesVersion6, HostBytes
<1>e. offset \in Nat /\ ends[(Read + 1) + 1] = offset + Len(w)
  BY <1>1
<1> DEFINE end == ends[(Read + 1) + 1]
<1> HIDE DEF a, w, data, end
<1>f. \A l \in Nat : Len(w) = l => end \in Nat /\ end = offset + l
  BY ONLY <1>e DEF end
<1>4. CASE a.version = 4
  <2>1. /\ addr' = [n \in 1 .. 4 |-> Complement(ValueAt(stream, offset + n, 1))]
        /\ port' = ValueAt(stream, offset + 5, 2)
        /\ refs' = Append(refs, "this")
        /\ offset' = offset + 7
    BY <1>3, <1>4 DEF ReadAddress
  <2>2. \A n \in 1 .. 4 : Complement(ValueAt(stream, offset + n, 1)) = 256 - n
    <3>1. \A n \in 1 .. 4 : n - 1 # -1 /\ 255 - (n - 1) = 256 - n
      OBVIOUS
    <3> QED
      BY <1>3, <1>4, <3>1 DEF Complement, Torn
  <2>3. addr' = <<255, 254, 253, 252>>
    <3>1. addr' = [n \in 1 .. 4 |-> 256 - n]
      BY <2>1, <2>2
    <3>2. [n \in 1 .. 4 |-> 256 - n] = <<255, 254, 253, 252>>
      OBVIOUS
    <3> QED
      BY <3>1, <3>2
  <2>4. ~Misread /\ offset' = end /\ offset' \in Nat
    <3>1. ~Misread /\ Len(w) = 7
      BY <1>3, <1>4, <1>8
    <3> QED
      BY ONLY <3>1, <1>e, <1>f, <2>1
  <2> QED
    BY <1>3, <1>4, <2>1, <2>3, <2>4, SMTT(30) DEF a, Known, end
<1>5. CASE a.version = 6
  <2>1. addr' = <<>> /\ port' = a.port /\ refs' = Append(refs, "this") /\ offset' = offset + 29
    BY <1>3, <1>5 DEF ReadAddress
  <2>2. end = offset + (13 + data) /\ data \in Nat
    <3>1. Len(w) = 13 + data /\ data \in Nat /\ 13 + data \in Nat
      BY <1>3, <1>5
    <3> QED
      BY ONLY <3>1, <1>f
  <2>3. offset' \in Nat /\ end \in Nat
    BY ONLY <1>e, <2>1, <2>2
  <2>4. CASE Misread
    <3>1. data = EmptyData /\ a = message.addresses[1]
      BY <1>8, <2>4
    <3>2. offset' = end + (16 - EmptyData)
      BY ONLY <1>e, <1>7, <2>1, <2>2, <3>1
    <3> QED
      BY <1>3, <1>5, <2>1, <2>3, <2>4, <3>1, <3>2 DEF a, Known, end
  <2>5. CASE ~Misread
    <3>1. data = 16
      BY <1>5, <1>9, <2>5
    <3>2. offset' = end
      BY ONLY <1>e, <2>1, <2>2, <3>1
    <3> QED
      BY <1>3, <1>5, <2>1, <2>3, <2>5, <3>2 DEF a, Known, end
  <2> QED
    BY <2>4, <2>5
<1>10. CASE a.version \notin {4, 6}
  <2>1. refs' = Append(refs, "error") /\ offset' = offset + 1 /\ UNCHANGED <<addr, port>>
    BY <1>3, <1>10 DEF ReadAddress
  <2>2. ~Misread /\ offset' = end /\ offset' \in Nat
    <3>1. ~Misread /\ Len(w) = 1
      BY <1>3, <1>8, <1>10
    <3> QED
      BY ONLY <3>1, <1>e, <1>f, <2>1
  <2> QED
    BY <1>3, <1>10, <2>1, <2>2 DEF a, Known, end
<1> QED
  BY <1>4, <1>5, <1>10

(* One address more.                                                        *)
LEMMA AddressIsRead ==
  ASSUME Inv, ReadField, Read \in Nat, Read < Len(E), Read' = Read + 1, E[Read + 1] \in AddressCall,
         ReadAddress, UNCHANGED packet, ~Misread
  PROVE  (ObjectInv /\ OffsetInv /\ FieldsInv /\ AddressInv)'
<1> DEFINE c == Read
           next == Read + 1
           a == AddressAt(next)
           result == IF Known(a) THEN "this" ELSE "error"
<1>1. /\ offset' = ends[next + 1] /\ a.port \in Nat
      /\ refs' = Append(refs, result)
      /\ Known(a) => port' = a.port
      /\ a.version = 4 => addr' = <<255, 254, 253, 252>>
      /\ a.version = 6 => addr' = <<>>
      /\ ~Known(a) => UNCHANGED <<addr, port>>
  BY ReadAddressResult
<1>2. E' = E /\ phase = "decode" /\ UNCHANGED <<phase, message, ends, datagrams>>
  BY ReadFrame
<1>3. Heard(next) = Heard(c) \cup {next} /\ \A n \in Heard(c) : n < next /\ n \in 1 .. c /\ E[n] \in AddressCall
  BY HeardNext
<1>4. /\ Heard(c) = {} => refs = <<>>
      /\ \A n \in Heard(c) : E[n] = FirstAddress =>
           refs # <<>> /\ refs[1] = IF Known(AddressAt(n)) THEN "this" ELSE "error"
      /\ (\E n \in Heard(c) : Known(AddressAt(n))) =>
           \E n \in Heard(c) :
             /\ Known(AddressAt(n)) /\ port = AddressAt(n).port
             /\ AddressAt(n).version = 4 => addr = <<255, 254, 253, 252>>
             /\ \A k \in Heard(c) : n < k => ~Known(AddressAt(k))
  BY <1>2 DEF Inv, AddressInv, Misread, WritesVersion6
<1>5. next \in 1 .. Len(E) /\ c \in Nat /\ next \in Nat /\ Len(E) \in Nat
  BY MessageFacts DEF Inv
<1>6. refs \in Seq({"this", "error", "dummy"}) /\ result \in {"this", "error", "dummy"}
  BY DEF Inv, ObjectInv, ObjectTyped
<1> HIDE DEF c, next, a, result
<1>7. ObjectInv'
  <2>1. refs' \in Seq({"this", "error", "dummy"})
    BY <1>1, <1>6
  <2>2. \A n \in DOMAIN addr' : addr'[n] \in 0 .. 255
    <3>1. CASE a.version = 4
      <4>1. <<255, 254, 253, 252>> \in Seq(0 .. 255)
        BY TupleSeq
      <4>2. addr' \in Seq(0 .. 255)
        BY <1>1, <3>1, <4>1
      <4>3. DOMAIN addr' = 1 .. Len(addr') /\ addr' \in [1 .. Len(addr') -> 0 .. 255]
        BY <4>2, LenProperties
      <4> QED
        BY ONLY <4>3
    <3>2. CASE a.version = 6
      <4>1. DOMAIN addr' = {}
        BY <1>1, <3>2
      <4> QED
        BY <4>1
    <3>3. CASE ~Known(a)
      BY <1>1, <3>3 DEF Inv, ObjectInv, ObjectTyped
    <3> QED
      BY <3>1, <3>2, <3>3 DEF Known
  <2>3. port' \in Nat \cup {Undefined}
    <3>1. CASE Known(a)
      BY <1>1, <3>1
    <3>2. CASE ~Known(a)
      BY <1>1, <3>2 DEF Inv, ObjectInv, ObjectTyped
    <3> QED
      BY <3>1, <3>2
  <2> QED
    BY <1>2, <2>1, <2>2, <2>3 DEF Inv, ObjectInv, ObjectTyped
<1>8. OffsetInv'
  <2>1. offset' = ends'[Read' + 1]
    BY <1>1, <1>2 DEF next
  <2> QED
    BY <2>1 DEF OffsetInv
<1>9. FieldsInv'
  <2>1. \A n \in 1 .. c : E[n] \in Number \cup {NameCall} =>
          E[n][2] \in DOMAIN packet /\ packet[E[n][2]] = Expected(message, E[n][2])
    BY <1>2 DEF Inv, FieldsInv, c
  <2>2. \A n \in 1 .. next : n \in 1 .. c \/ n = next
    BY <1>5 DEF c, next
  <2>3. E[next] \notin Number \cup {NameCall}
    BY CallKinds DEF next
  <2>4. \A n \in 1 .. next : E[n] \in Number \cup {NameCall} =>
          E[n][2] \in DOMAIN packet /\ packet[E[n][2]] = Expected(message, E[n][2])
    BY <2>1, <2>2, <2>3
  <2>5. Read' = next /\ packet' = packet /\ message' = message /\ E' = E
    BY <1>2 DEF next
  <2>6. \A n \in 1 .. Read' : E'[n] \in Number \cup {NameCall} =>
          E'[n][2] \in DOMAIN packet' /\ packet'[E'[n][2]] = Expected(message', E'[n][2])
    BY <2>4, <2>5, Zenon
  <2> QED
    BY <2>6 DEF FieldsInv
<1>10. AddressInv'
  <2>1. Heard(Read)' = Heard(c) \cup {next} /\ \A n : AddressAt(n)' = AddressAt(n)
    BY <1>2, <1>3 DEF Heard, AddressAt, next
  <2>2. ASSUME NEW n \in Heard(c) \cup {next}, E[n] = FirstAddress
        PROVE  refs' # <<>> /\ refs'[1] = IF Known(AddressAt(n)) THEN "this" ELSE "error"
    <3>1. CASE n \in Heard(c)
      <4>1. refs # <<>> /\ refs[1] = IF Known(AddressAt(n)) THEN "this" ELSE "error"
        BY <1>4, <2>2, <3>1
      <4>2. refs' # <<>> /\ refs'[1] = refs[1]
        BY <1>1, <1>6, <4>1
      <4> QED
        BY <4>1, <4>2
    <3>2. CASE n = next
      <4>1. ASSUME NEW k \in Heard(c) PROVE FALSE
        <5>1. k \in 1 .. Len(E) /\ k < next /\ E[k] \in AddressCall /\ E[next] \in AddressCall
          BY <1>3, <1>5 DEF c, next
        <5>2. E[k][2] < E[next][2] /\ E[k][2] \in Nat \ {0}
          BY <5>1, <1>5, MessageFacts DEF Inv, Ordered, AddressCall
        <5>3. E[next][2] = 1
          BY <2>2, <3>2 DEF FirstAddress
        <5> QED
          BY <5>2, <5>3
      <4>2. refs = <<>>
        BY <1>4, <4>1
      <4>3. refs' # <<>> /\ refs'[1] = result
        BY <1>1, <1>6, <4>2
      <4> QED
        BY <3>2, <4>3 DEF result, a
    <3> QED
      BY <3>1, <3>2
  <2>3. ASSUME \E n \in Heard(c) \cup {next} : Known(AddressAt(n))
        PROVE  \E n \in Heard(c) \cup {next} :
                 /\ Known(AddressAt(n)) /\ port' = AddressAt(n).port
                 /\ AddressAt(n).version = 4 => addr' = <<255, 254, 253, 252>>
                 /\ \A k \in Heard(c) \cup {next} : n < k => ~Known(AddressAt(k))
    <3>1. CASE Known(a)
      <4>1. \A k \in Heard(c) \cup {next} : ~ (next < k)
        <5>1. \A k \in Heard(c) : k \in Nat /\ k < next
          BY <1>3
        <5> QED
          BY <1>5, <5>1
      <4> QED
        BY <1>1, <3>1, <4>1 DEF a
    <3>2. CASE ~Known(a)
      <4>1. \E n \in Heard(c) : Known(AddressAt(n))
        BY <2>3, <3>2 DEF a
      <4>2. PICK n \in Heard(c) :
              /\ Known(AddressAt(n)) /\ port = AddressAt(n).port
              /\ AddressAt(n).version = 4 => addr = <<255, 254, 253, 252>>
              /\ \A k \in Heard(c) : n < k => ~Known(AddressAt(k))
        BY <1>4, <4>1
      <4>3. \A k \in Heard(c) \cup {next} : n < k => ~Known(AddressAt(k))
        BY <3>2, <4>2 DEF a
      <4> QED
        BY <1>1, <3>2, <4>2, <4>3
    <3> QED
      BY <3>1, <3>2
  <2>4. Heard(Read)' # {}
    BY <2>1
  <2>5. ~Misread'
    BY <1>2 DEF Misread, WritesVersion6
  <2> HIDE DEF Misread, WritesVersion6
  <2> QED
    BY <1>2, <2>1, <2>2, <2>3, <2>4, <2>5 DEF AddressInv
<1> QED
  BY <1>7, <1>8, <1>9, <1>10

(* The call that reads one address.                                         *)
LEMMA InvReadTheAddress ==
  ASSUME Inv, ReadField, ReadTheAddress(Head(calls)), ~Misread
  PROVE  (ObjectInv /\ OffsetInv /\ FieldsInv /\ AddressInv)'
<1> DEFINE call == Head(calls)
<1>1. call[1] = "address" /\ ReadAddress /\ UNCHANGED packet
  BY DEF ReadTheAddress
<1> HIDE DEF call
<1>2. /\ Read \in Nat /\ Read < Len(E) /\ Read' = Read + 1
      /\ call = E[Read + 1] /\ E[Read + 1] \in Call
  BY <1>1, CallRead DEF call
<1>3. E[Read + 1] \in AddressCall
  <2>1. E[Read + 1] \notin Number /\ E[Read + 1] # NameCall
    BY <1>1, <1>2 DEF Number, Scalar, NameCall
  <2> QED
    BY <1>2, <2>1 DEF Call
<1> QED
  BY <1>1, <1>2, <1>3, AddressIsRead

(* The call that reads an address if there is one.                          *)
LEMMA InvReadSystemAddress ==
  ASSUME Inv, ReadField, ReadSystemAddress(Head(calls))
  PROVE  (ObjectInv /\ OffsetInv /\ FieldsInv /\ AddressInv)'
<1> DEFINE call == Head(calls)
           A == Len(message.addresses)
<1>1. /\ call[1] = "systemAddress" /\ UNCHANGED packet
      /\ IF offset >= StopOffset
         THEN refs' = Append(refs, "dummy") /\ UNCHANGED <<addr, port, offset>>
         ELSE ReadAddress
  BY DEF ReadSystemAddress
<1>2. /\ Read \in Nat /\ message.class = "NewIncomingConnection"
      /\ \/ Read < Len(E) /\ Read' = Read + 1 /\ E[Read + 1] \in AddressCall /\ Read < A
         \/ Read = A /\ Read' = Read
  <2>1. \A c \in Call : c[1] # "systemAddress"
    BY DEF Call, Number, Scalar, AddressCall, NameCall
  <2>2. call # <<"length", "mtuSize">>
    BY <1>1
  <2> HIDE DEF call
  <2> QED
    BY <1>1, <2>1, <2>2, CallRead DEF call
<1>3. phase = "decode" /\ calls # <<>> /\ E' = E /\ UNCHANGED <<phase, message, ends, datagrams>>
  BY ReadFrame
<1>4. A \in Nat /\ A + 1 \in 1 .. Len(ends) /\ StopOffset = ends[A + 1] /\ \A n \in 1 .. A : ends[n] < StopOffset
  BY <1>2, <1>3, StopAtTimes
<1>5. /\ MessageInv /\ StreamInv /\ WritesAddresses(message, E) /\ Len(E) \in Nat
      /\ A >= 1 /\ Len(E) = A + 2 /\ E[1] = <<"address", 1>>
  BY <1>2, MessageFacts DEF Inv, WritesAddresses
<1>6. Read < Len(E) /\ offset = ends[Read + 1]
  BY <1>2, <1>3, <1>4, <1>5, ReadHere
<1>7. \A n \in 1 .. Len(ends) : ends[n] \in Nat
  BY <1>5 DEF StreamInv
<1> HIDE DEF A, call
<1>8. CASE Read' = Read + 1 /\ E[Read + 1] \in AddressCall /\ Read < A
  <2>1. offset < StopOffset /\ offset \in Nat /\ StopOffset \in Nat
    <3>1. Read + 1 \in 1 .. A /\ Read + 1 \in 1 .. Len(ends)
      BY <1>2, <1>4, <1>8
    <3> QED
      BY <3>1, <1>4, <1>6, <1>7
  <2>2. ReadAddress
    BY <1>1, <2>1
  <2>3. ~Misread
    BY <1>2 DEF Misread, WritesVersion6
  <2> QED
    BY <1>1, <1>2, <1>6, <1>8, <2>2, <2>3, AddressIsRead
<1>9. CASE Read = A /\ Read' = Read
  <2>1. offset >= StopOffset
    BY <1>4, <1>6, <1>7, <1>9
  <2>2. refs' = Append(refs, "dummy") /\ UNCHANGED <<addr, port, offset>>
    BY <1>1, <2>1
  <2>3. ObjectInv'
    BY <1>1, <1>3, <2>2 DEF Inv, ObjectInv, ObjectTyped
  <2>4. OffsetInv'
    <3>1. offset' = ends'[Read' + 1]
      BY <1>3, <1>6, <1>9, <2>2
    <3> QED
      BY <3>1 DEF OffsetInv
  <2>5. FieldsInv'
    <3>1. FieldsInv
      BY DEF Inv
    <3>2. Read' = Read /\ packet' = packet /\ message' = message /\ E' = E /\ phase' = phase
      BY <1>1, <1>3, <1>9
    <3> QED
      BY <3>1, <3>2 DEF FieldsInv
  <2>6. AddressInv'
    <3>1. AddressInv /\ refs \in Seq({"this", "error", "dummy"})
      BY DEF Inv, ObjectInv, ObjectTyped
    <3>2. Heard(Read)' = Heard(Read) /\ \A n : AddressAt(n)' = AddressAt(n)
      BY <1>3, <1>9 DEF Heard, AddressAt
    <3>3. Heard(Read) # {}
      <4>1. 1 \in 1 .. Read /\ E[1] \in AddressCall
        BY <1>2, <1>5, <1>9 DEF AddressCall
      <4> QED
        BY <4>1 DEF Heard
    <3>4. refs # <<>> => refs' # <<>> /\ refs'[1] = refs[1]
      BY <2>2, <3>1
    <3> QED
      BY <1>3, <2>2, <3>1, <3>2, <3>3, <3>4 DEF AddressInv, Misread, WritesVersion6
  <2> QED
    BY <2>3, <2>4, <2>5, <2>6
<1> QED
  BY <1>2, <1>8, <1>9 DEF A

(* A call of decode, but for the one that misreads an address.              *)
LEMMA InvReadField ==
  ASSUME Inv, ReadField, ReadTheAddress(Head(calls)) => ~Misread
  PROVE  Inv'
<1>1. MessageInv' /\ StreamInv' /\ EncodeInv' /\ CallsInv'
  BY ReadFrame
<1>2. (ObjectInv /\ OffsetInv /\ FieldsInv /\ AddressInv)'
  <2>1. \/ ReadScalar(Head(calls)) \/ ReadString(Head(calls)) \/ ReadLength(Head(calls))
        \/ ReadTheAddress(Head(calls)) \/ ReadSystemAddress(Head(calls))
    BY DEF ReadField
  <2> QED
    BY <2>1, InvReadScalar, InvReadString, InvReadLength, InvReadTheAddress, InvReadSystemAddress
<1> QED
  BY <1>1, <1>2 DEF Inv

(* When all of the calls are made, all of the message is read.              *)
LEMMA AllRead ==
  ASSUME Inv, phase # "encode", calls = <<>>
  PROVE  /\ Read = Len(E) /\ Len(stream) \in Nat /\ Len(stream) >= 1
         /\ offset = Len(stream) \/ (NameCut /\ offset = Len(stream) - 1)
<1>1. /\ Len(E) \in Nat /\ Len(D) \in Nat /\ Consumed(message, Len(D)) = Len(E)
      /\ StreamInv /\ OffsetInv /\ Len(ends) = Len(E) + 1
  BY MessageFacts DEF Inv, CallsInv
<1>2. Len(D) - Len(calls) = Len(D)
  BY <1>1
<1>3. Read = Len(E)
  BY <1>1, <1>2 DEF Read
<1>4. ends[Len(E) + 1] = Len(stream)
  BY <1>1 DEF StreamInv
<1>5. Len(stream) \in Nat /\ Len(stream) >= 1
  BY <1>1 DEF StreamInv
<1>6. offset = ends[Read + 1] \/ (NameCut /\ offset = ends[Read + 1] - 1)
  BY <1>1 DEF OffsetInv
<1> QED
  BY <1>3, <1>4, <1>5, <1>6

(* No read has left the stream.                                             *)
LEMMA Within ==
  ASSUME Inv
  PROVE  offset \in 0 .. Len(stream)
<1>1. Len(stream) \in Nat
  BY DEF Inv, StreamInv
<1>2. CASE phase = "encode"
  BY <1>1, <1>2 DEF Inv, EncodeInv
<1>3. CASE phase # "encode" /\ calls = <<>>
  BY <1>3, AllRead
<1>4. CASE phase # "encode" /\ calls # <<>>
  <2>1. phase = "decode"
    BY <1>4 DEF Inv, ObjectInv, CallsInv
  <2> QED
    BY <1>4, <2>1, ReadHere
<1> QED
  BY <1>2, <1>3, <1>4

(* Nothing happens.                                                         *)
LEMMA InvStutter ==
  ASSUME Inv, UNCHANGED vars
  PROVE  Inv'
<1>1. UNCHANGED <<phase, message, calls, stream, offset, packet, addr, port, refs, ends, datagrams>>
  BY DEF vars
<1>2. D' = D /\ E' = E /\ Read' = Read
  BY <1>1 DEF D, E, Read
<1>3. MessageInv' /\ ObjectInv' /\ StreamInv' /\ EncodeInv'
  BY <1>1, <1>2 DEF Inv, MessageInv, ObjectInv, ObjectTyped, StreamInv, EncodeInv
<1>4. CallsInv' /\ OffsetInv'
  BY <1>1, <1>2 DEF Inv, CallsInv, OffsetInv, NameCut
<1>5. FieldsInv' /\ AddressInv'
  BY <1>1, <1>2 DEF Inv, FieldsInv, AddressInv, Misread, WritesVersion6, Heard, AddressAt
<1> QED
  BY <1>3, <1>4, <1>5 DEF Inv

-----------------------------------------------------------------------------
(* Behind an address of version 6 that the server wrote.                   *)

(* What is read is a number or torn, and torn past the end of the stream.   *)
LEMMA ValueTyped ==
  ASSUME NEW s \in Seq(Byte), NEW off \in Nat, NEW w \in Nat
  PROVE  /\ ValueAt(s, off, w) \in Nat \cup {Torn}
         /\ off + w > Len(s) => ValueAt(s, off, w) = Torn
<1> DEFINE t == SubSeq(s, off + 1, off + w)
<1>1. CASE off + w <= Len(s)
  <2>1. t \in Seq(Byte)
    BY <1>1, Slice
  <2>2. ValueAt(s, off, w) = Value(t)
    BY <1>1 DEF ValueAt
  <2> HIDE DEF t
  <2>3. t # <<>> => t[1] \in Byte
    BY <2>1, EmptySeq
  <2>4. \A b \in Byte : b[3] \in Nat
    BY DEF Byte
  <2>5. Value(t) \in Nat \cup {Torn}
    BY <2>3, <2>4 DEF Value
  <2>6. Len(s) \in Nat
    OBVIOUS
  <2> QED
    BY <1>1, <2>2, <2>5, <2>6
<1>2. CASE ~(off + w <= Len(s))
  BY <1>2 DEF ValueAt
<1> QED
  BY <1>1, <1>2

(* The calls of OpenConnectionReply2.                                       *)
LEMMA ReplyCalls ==
  ASSUME message.class = "OpenConnectionReply2"
  PROVE  /\ D = E /\ Len(E) = 5 /\ E[2] = <<"long", "serverID">> /\ E[3] = FirstAddress
         /\ E[4] = MtuCall /\ E[5] = SecurityCall
         /\ \A n \in 1 .. 5 : E[n] \in AddressCall => n = 3
         /\ \A d \in 0 .. 5 : Consumed(message, d) = d
<1>1. Layout[message.class] = OpenConnectionReply2
  BY DEF Layout
<1>2. E = << <<"magic", "magic">>, <<"long", "serverID">>, <<"address", 1>>,
             <<"short", "mtuSize">>, <<"byte", "serverSecurity">> >> /\ D = E
  BY <1>1 DEF E, D, EncodeCalls, OpenConnectionReply2
<1>3. /\ Len(E) = 5 /\ E[1] = <<"magic", "magic">> /\ E[2] = <<"long", "serverID">> /\ E[3] = FirstAddress
      /\ E[4] = MtuCall /\ E[5] = SecurityCall
  BY <1>2 DEF FirstAddress, MtuCall, SecurityCall
<1>4. E[1] \in Number /\ E[2] \in Number /\ E[4] \in Number /\ E[5] \in Number
  BY <1>3, CallNames DEF MtuCall, SecurityCall
<1>5. ASSUME NEW n \in 1 .. 5, E[n] \in AddressCall PROVE n = 3
  <2>1. n = 1 \/ n = 2 \/ n = 3 \/ n = 4 \/ n = 5
    OBVIOUS
  <2> QED
    BY <1>4, <1>5, <2>1, CallKinds
<1>6. \A d \in 0 .. 5 : Consumed(message, d) = d
  BY <1>3 DEF Consumed, E
<1> QED
  BY <1>2, <1>3, <1>5, <1>6

(* What is left of three.                                                   *)
LEMMA TailOfThree ==
  ASSUME NEW S, NEW s \in Seq(S), Len(s) = 3
  PROVE  Tail(s) = <<s[2], s[3]>>
<1>1. Tail(s) \in Seq(S) /\ Len(Tail(s)) = 2 /\ \A k \in 1 .. 2 : Tail(s)[k] = s[k + 1]
  <2>1. s # <<>>
    OBVIOUS
  <2> QED
    BY <2>1
<1>2. s[2] \in S /\ s[3] \in S
  <2>1. 2 \in 1 .. Len(s) /\ 3 \in 1 .. Len(s)
    OBVIOUS
  <2>2. s \in [1 .. Len(s) -> S]
    BY LenProperties
  <2> QED
    BY ONLY <2>1, <2>2
<1>3. <<s[2], s[3]>> \in Seq(S) /\ Len(<<s[2], s[3]>>) = 2
      /\ <<s[2], s[3]>>[1] = s[2] /\ <<s[2], s[3]>>[2] = s[3]
  BY <1>2
<1>4. Tail(s)[1] = s[2] /\ Tail(s)[2] = s[3]
  BY <1>1
<1>5. ASSUME NEW k \in 1 .. 2 PROVE Tail(s)[k] = <<s[2], s[3]>>[k]
  <2>1. k = 1 \/ k = 2
    BY ONLY k \in 1 .. 2
  <2>2. CASE k = 1
    BY <2>2, <1>3, <1>4, Zenon
  <2>3. CASE k = 2
    BY <2>3, <1>3, <1>4, Zenon
  <2> QED
    BY <2>1, <2>2, <2>3
<1> QED
  BY <1>1, <1>3, <1>5, SeqEqual

(* Where its address is read, the MTU and the security are left.            *)
LEMMA ReplyPlace ==
  ASSUME Inv, ReadField, Misread, ReadTheAddress(Head(calls))
  PROVE  /\ Read = 2 /\ E[Read + 1] \in AddressCall /\ calls' = <<MtuCall, SecurityCall>>
         /\ ends[4] \in Nat /\ Len(stream) = ends[4] + 3
<1>1. message.class = "OpenConnectionReply2" /\ ReadAddress /\ Head(calls)[1] = "address"
  BY DEF Misread, WritesVersion6, ReadTheAddress
<1>2. /\ phase = "decode" /\ calls # <<>> /\ calls' = Tail(calls)
  BY DEF ReadField
<1> DEFINE d == Len(D) - Len(calls)
<1>3. /\ D = E /\ Len(E) = 5 /\ E[3] = FirstAddress /\ E[4] = MtuCall /\ E[5] = SecurityCall
      /\ \A n \in 1 .. 5 : E[n] \in AddressCall => n = 3
      /\ \A n \in 0 .. 5 : Consumed(message, n) = n
  BY <1>1, ReplyCalls
<1>4. /\ d \in 0 .. Len(D) - 1 /\ Head(calls) = D[d + 1] /\ Read = Consumed(message, d)
      /\ Len(ends) = Len(E) + 1
  BY <1>2, ReadHere
<1>5. /\ calls \in Seq(DecodeCall) /\ \A k \in 1 .. Len(calls) : calls[k] = D[Len(D) - Len(calls) + k]
  BY <1>2 DEF Inv, CallsInv
<1>n. d = Len(D) - Len(calls)
  OBVIOUS
<1> HIDE DEF d
<1>6. /\ d \in 0 .. 4 /\ Read = d /\ E[d + 1][1] = "address" /\ d + 1 \in 1 .. 5
  <2>1. d \in 0 .. 4
    BY <1>3, <1>4
  <2>2. d + 1 \in 1 .. 5 /\ d \in 0 .. 5
    BY ONLY <2>1
  <2>3. Read = d /\ E[d + 1][1] = "address"
    BY <1>1, <1>3, <1>4, <2>2
  <2> QED
    BY <2>1, <2>2, <2>3
<1>7. d = 2
  <2>1. E \in Seq(Call)
    BY MessageFacts DEF Inv
  <2>2. E[d + 1] \in Call
    <3>1. Len(E) = 5
      BY <1>3
    <3>2. d + 1 \in 1 .. Len(E)
      BY <1>6, <3>1
    <3> DEFINE n == d + 1
    <3> HIDE DEF n
    <3>3. n \in 1 .. Len(E) => E[n] \in Call
      BY ONLY <2>1
    <3> QED
      BY <3>2, <3>3 DEF n
  <2>3. E[d + 1] \in AddressCall
    BY <1>6, <2>2 DEF Call, Number, Scalar, NameCall
  <2>4. d + 1 = 3
    BY <1>3, <1>6, <2>3
  <2> QED
    BY ONLY <1>6, <2>4
<1>8. Len(calls) = 3
  <2>1. Len(calls) \in Nat
    BY <1>5
  <2>2. Len(D) = 5
    BY <1>3
  <2>3. 2 = 5 - Len(calls)
    BY <1>7, <1>n, <2>2, Zenon
  <2> DEFINE l == Len(calls)
  <2> HIDE DEF l
  <2>4. l \in Nat /\ 2 = 5 - l
    BY <2>1, <2>3 DEF l
  <2>5. l = 3
    BY ONLY <2>4
  <2> QED
    BY ONLY <2>5 DEF l
<1>9. calls' = <<MtuCall, SecurityCall>>
  <2>1. calls[2] = E[4] /\ calls[3] = E[5]
    <3>1. 2 \in 1 .. Len(calls) /\ 3 \in 1 .. Len(calls) /\ Len(D) - Len(calls) = 2
      BY <1>3, <1>8
    <3> QED
      BY <1>3, <1>5, <3>1
  <2>2. Tail(calls) = <<calls[2], calls[3]>>
    <3>1. calls \in Seq(DecodeCall)
      BY <1>5
    <3> QED
      BY ONLY <1>8, <3>1, TailOfThree
  <2> QED
    BY <1>2, <1>3, <2>1, <2>2
<1>10. /\ ends \in Seq(Nat) /\ ends[Len(ends)] = Len(stream)
       /\ \A n \in 1 .. Len(ends) - 1 : ends[n + 1] = ends[n] + Len(Written(message, E[n]))
  BY DEF Inv, StreamInv
<1>11. Len(ends) = 6
  BY <1>3, <1>4
<1>12. Len(Written(message, E[4])) = 2 /\ Len(Written(message, E[5])) = 1
  <2>1. E[4] \in Number /\ E[5] \in Number /\ 4 \in 1 .. Len(E) /\ 5 \in 1 .. Len(E)
    BY <1>3, CallNames DEF MtuCall, SecurityCall
  <2>2. message.class \in Classes /\ message \in Messages(message.class)
    BY MessageFacts DEF Inv
  <2>3. /\ Written(message, E[4]) = Bytes(Width[E[4][1]], message.fields[E[4][2]])
        /\ Written(message, E[5]) = Bytes(Width[E[5][1]], message.fields[E[5][2]])
        /\ message.fields[E[4][2]] \in Nat /\ message.fields[E[5][2]] \in Nat
    BY <2>1, <2>2, NumberWritten DEF E
  <2>4. Width[E[4][1]] = 2 /\ Width[E[5][1]] = 1
    BY <1>3 DEF Width, MtuCall, SecurityCall
  <2>5. \A v \in Nat : Len(Bytes(2, v)) = 2 /\ Len(Bytes(1, v)) = 1
    BY BytesFacts
  <2> QED
    BY <2>3, <2>4, <2>5
<1>13. ends[4] \in Nat /\ ends[5] = ends[4] + 2 /\ ends[6] = ends[5] + 1
  <2>1. 4 \in 1 .. Len(ends) - 1 /\ 5 \in 1 .. Len(ends) - 1 /\ 4 \in 1 .. Len(ends)
    BY <1>11
  <2>2. ends[4 + 1] = ends[4] + 2 /\ ends[5 + 1] = ends[5] + 1
    BY <1>10, <1>12, <2>1
  <2>3. ends[4] \in Nat
    BY <1>10, <2>1
  <2> QED
    BY <2>2, <2>3
<1>14. Len(stream) = ends[4] + 3
  BY <1>10, <1>11, <1>13
<1>15. E[Read + 1] \in AddressCall
  BY <1>3, <1>6, <1>7, CallKinds
<1> QED
  BY <1>6, <1>7, <1>9, <1>13, <1>14, <1>15

(* The call that reads it.                                                  *)
LEMMA EnterBehind ==
  ASSUME Inv, ReadField, Misread, ReadTheAddress(Head(calls))
  PROVE  Behind'
<1>1. message.class = "OpenConnectionReply2" /\ message.addresses[1].version = 6
  BY DEF Misread, WritesVersion6
<1>2. /\ Read = 2 /\ E[Read + 1] \in AddressCall /\ calls' = <<MtuCall, SecurityCall>>
      /\ ends[4] \in Nat /\ Len(stream) = ends[4] + 3
  BY ReplyPlace
<1>3. ReadAddress /\ UNCHANGED packet
  BY DEF ReadTheAddress
<1>4. /\ Len(E) = 5 /\ E[2] = <<"long", "serverID">>
  BY <1>1, ReplyCalls
<1>5. /\ offset' = ends[(Read + 1) + 1] + (IF Misread THEN 16 - EmptyData ELSE 0)
      /\ offset' \in Nat /\ AddressAt(Read + 1) = message.addresses[1] /\ AddressAt(Read + 1).port \in Nat
      /\ refs' = Append(refs, IF Known(AddressAt(Read + 1)) THEN "this" ELSE "error")
      /\ Known(AddressAt(Read + 1)) => port' = AddressAt(Read + 1).port
      /\ AddressAt(Read + 1).version = 6 => addr' = <<>>
  <2>1. Read \in Nat /\ Read < Len(E)
    BY <1>2, <1>4
  <2> QED
    BY <1>2, <1>3, <2>1, ReadAddressResult
<1>6. EmptyData \in Nat
  BY MessagesAssumption
<1>7. offset' = Len(stream) + 13 - EmptyData
  <2>1. (Read + 1) + 1 = 4
    BY <1>2
  <2>2. offset' = ends[4] + (16 - EmptyData)
    BY <1>5, <2>1
  <2> QED
    BY <1>2, <1>6, <2>2
<1>8. refs' = Append(refs, "this") /\ port' = message.addresses[1].port /\ addr' = <<>> /\ port' \in Nat
  BY <1>1, <1>5 DEF Known
<1>9. phase = "decode" /\ UNCHANGED <<phase, message, stream, ends, datagrams>>
  BY DEF ReadField
<1>10. refs = <<>>
  BY <1>9 DEF Inv, AddressInv
<1>11. refs' = << "this" >>
  BY <1>8, <1>10
<1>12. ObjectTyped'
  <2>1. refs' \in Seq({"this", "error", "dummy"})
    BY <1>11
  <2>2. DOMAIN addr' = {}
    BY <1>8
  <2> QED
    BY <1>3, <1>8, <1>9, <2>1, <2>2 DEF Inv, ObjectInv, ObjectTyped
<1>13. "serverID" \in DOMAIN packet /\ packet["serverID"] = message.fields["serverID"]
  <2>1. 2 \in 1 .. Read /\ E[2] \in Number /\ E[2][2] = "serverID"
    BY <1>2, <1>4, CallNames
  <2>2. "serverID" \in DOMAIN packet /\ packet["serverID"] = Expected(message, "serverID")
    BY <1>9, <2>1 DEF Inv, FieldsInv
  <2> QED
    BY <2>2 DEF Expected
<1>14. MessageInv' /\ Misread' /\ (stream \in Seq(Byte))'
  BY <1>9 DEF Inv, MessageInv, StreamInv, Misread, WritesVersion6
<1>15. refs' # <<>> /\ refs'[1] = "this"
  BY <1>11
<1> QED
  BY <1>2, <1>3, <1>5, <1>7, <1>8, <1>9, <1>12, <1>13, <1>14, <1>15 DEF Behind

(* A scalar that is read behind it.                                         *)
LEMMA BehindScalar ==
  ASSUME Behind, ReadField, calls # <<>>
  PROVE  LET w == Width[Head(calls)[1]]
             v == ValueAt(stream, offset, w)
         IN  /\ SetField(Head(calls)[2], v) /\ offset' = offset + w /\ w \in {1, 2}
             /\ v \in Nat \cup {Torn} /\ (offset + w > Len(stream) => v = Torn)
             /\ calls' = Tail(calls) /\ ObjectTyped'
             /\ phase = "decode"
             /\ UNCHANGED <<phase, message, stream, ends, datagrams, addr, port, refs>>
<1>1. Head(calls) = MtuCall \/ Head(calls) = SecurityCall
  BY DEF Behind
<1>2. /\ Head(calls)[1] # "string" /\ Head(calls)[1] # "length" /\ Head(calls)[1] # "address"
      /\ Head(calls)[1] # "systemAddress"
      /\ Width[Head(calls)[1]] \in {1, 2}
  BY <1>1 DEF MtuCall, SecurityCall, Width
<1>3. ReadScalar(Head(calls)) /\ calls' = Tail(calls) /\ phase = "decode"
      /\ UNCHANGED <<phase, message, stream, ends, datagrams>>
  BY <1>2 DEF ReadField, ReadString, ReadLength, ReadTheAddress, ReadSystemAddress
<1> DEFINE w == Width[Head(calls)[1]]
           v == ValueAt(stream, offset, w)
<1>4. SetField(Head(calls)[2], v) /\ offset' = offset + w /\ UNCHANGED <<addr, port, refs>>
  BY <1>3 DEF ReadScalar
<1>5. v \in Nat \cup {Torn} /\ (offset + w > Len(stream) => v = Torn)
  <2>1. stream \in Seq(Byte) /\ offset \in Nat /\ w \in Nat
    BY <1>2 DEF Behind
  <2> HIDE DEF w
  <2> QED
    BY <2>1, ValueTyped
<1> HIDE DEF v, w
<1>6. ObjectTyped'
  <2>1. \A f \in DOMAIN packet' : packet'[f] \in Nat \cup {Torn}
    BY <1>4, <1>5 DEF SetField, Behind, ObjectTyped
  <2> QED
    BY <1>3, <1>4, <2>1 DEF Behind, ObjectTyped
<1> QED
  BY <1>2, <1>3, <1>4, <1>5, <1>6 DEF v, w

(* What is read behind it keeps its distance from the end.                  *)
LEMMA BehindReads ==
  ASSUME Behind, ReadField
  PROVE  Behind'
<1>1. calls # <<>>
  BY DEF ReadField
<1> DEFINE w == Width[Head(calls)[1]]
           v == ValueAt(stream, offset, w)
<1>2. /\ SetField(Head(calls)[2], v) /\ offset' = offset + w /\ w \in {1, 2}
      /\ v \in Nat \cup {Torn} /\ (offset + w > Len(stream) => v = Torn)
      /\ calls' = Tail(calls) /\ ObjectTyped'
      /\ phase = "decode"
      /\ UNCHANGED <<phase, message, stream, ends, datagrams, addr, port, refs>>
  BY <1>1, BehindScalar
<1>w. w = Width[Head(calls)[1]]
  OBVIOUS
<1> HIDE DEF v, w
<1>3. MessageInv' /\ Misread' /\ (stream \in Seq(Byte))' /\ offset' \in Nat
  BY <1>2 DEF Behind, MessageInv, Misread, WritesVersion6
<1>4. Head(calls)[2] # "serverID"
  BY <1>1 DEF Behind, MtuCall, SecurityCall
<1>5. "serverID" \in DOMAIN packet' /\ packet'["serverID"] = message'.fields["serverID"]
  BY <1>2, <1>4 DEF Behind, SetField
<1>6. Len(stream) \in Nat /\ offset \in Nat /\ EmptyData \in Nat
  BY MessagesAssumption DEF Behind
<1>7. CASE calls = <<MtuCall, SecurityCall>> /\ offset = Len(stream) + 13 - EmptyData
  <2>1. Head(calls) = MtuCall /\ Tail(calls) = <<SecurityCall>>
    BY <1>7
  <2>2. w = 2
    BY <1>w, <2>1 DEF MtuCall, Width
  <2>3. offset' = Len(stream') + 15 - EmptyData
    BY <1>2, <1>6, <1>7, <2>2
  <2>4. EmptyData < 15 => v = Torn
    BY <1>2, <1>6, <1>7, <2>2
  <2>5. "mtuSize" \in DOMAIN packet' /\ packet'["mtuSize"] = v
    BY <1>2, <2>1 DEF SetField, MtuCall
  <2> QED
    BY <1>2, <1>3, <1>5, <2>1, <2>3, <2>4, <2>5 DEF Behind
<1>8. CASE calls = <<SecurityCall>> /\ offset = Len(stream) + 15 - EmptyData
           /\ (EmptyData < 15 => "mtuSize" \in DOMAIN packet /\ packet["mtuSize"] = Torn)
  <2>1. Head(calls) = SecurityCall /\ Tail(calls) = <<>>
    BY <1>8
  <2>2. w = 1
    BY <1>w, <2>1 DEF SecurityCall, Width
  <2>3. offset' = Len(stream') + 16 - EmptyData
    BY <1>2, <1>6, <1>8, <2>2
  <2>4. EmptyData < 15 => v = Torn
    BY <1>2, <1>6, <1>8, <2>2
  <2>5. packet'["serverSecurity"] = v /\ ("mtuSize" \in DOMAIN packet => packet'["mtuSize"] = packet["mtuSize"])
    BY <1>2, <2>1 DEF SetField, SecurityCall
  <2> QED
    BY <1>2, <1>3, <1>5, <1>8, <2>1, <2>3, <2>4, <2>5 DEF Behind
<1> QED
  BY <1>1, <1>7, <1>8 DEF Behind

(* The invariant is inductive.                                              *)
LEMMA InvStep == IInv /\ [Next]_vars => IInv'
<1> SUFFICES ASSUME IInv, [Next]_vars PROVE IInv'
  OBVIOUS
<1>1. ASSUME Inv PROVE IInv'
  <2>1. CASE WriteField
    BY <1>1, <2>1, InvWriteField DEF IInv
  <2>2. CASE WriteThrows
    <3>1. phase = "encode" /\ phase' = "thrown" /\ UNCHANGED <<message, stream, offset, packet, addr, port, refs, datagrams>>
      BY <2>2 DEF WriteThrows, objectVars
    <3>2. MessageInv' /\ ObjectTyped' /\ stream' \in Seq(Byte)
      BY <1>1, <3>1 DEF Inv, MessageInv, ObjectInv, ObjectTyped, StreamInv
    <3>3. offset' \in Nat /\ ~(offset' > Len(stream'))
      BY <1>1, <3>1, Within
    <3> QED
      BY <3>1, <3>2, <3>3 DEF IInv, Thrown
  <2>3. CASE Decode
    BY <1>1, <2>3, InvDecode DEF IInv
  <2>4. CASE ReadField
    <3>1. CASE ReadTheAddress(Head(calls)) /\ Misread
      BY <1>1, <2>4, <3>1, EnterBehind DEF IInv
    <3>2. CASE ReadTheAddress(Head(calls)) => ~Misread
      BY <1>1, <2>4, <3>2, InvReadField DEF IInv
    <3> QED
      BY <3>1, <3>2
  <2>5. CASE ReadThrows
    BY <1>1, <2>5, Within DEF ReadThrows
  <2>6. CASE Decoded
    BY <1>1, <2>6, InvDecoded DEF IInv
  <2>7. CASE NextDatagram
    BY <1>1, <2>7, InvNextDatagram DEF IInv
  <2>8. CASE UNCHANGED vars
    BY <1>1, <2>8, InvStutter DEF IInv
  <2> QED
    BY <2>1, <2>2, <2>3, <2>4, <2>5, <2>6, <2>7, <2>8 DEF Next
<1>2. ASSUME Behind PROVE IInv'
  <2>1. phase \in {"decode", "done"} /\ message.class = "OpenConnectionReply2"
    BY <1>2 DEF Behind, Misread, WritesVersion6
  <2>2. CASE ReadField
    BY <1>2, <2>2, BehindReads DEF IInv
  <2>3. CASE ReadThrows
    <3>1. phase' = "thrown" /\ UNCHANGED <<message, stream, offset, packet, addr, port, refs, datagrams>>
      BY <2>3 DEF ReadThrows, objectVars
    <3>2. MessageInv' /\ ObjectTyped' /\ stream' \in Seq(Byte) /\ offset' \in Nat /\ Misread'
      BY <1>2, <3>1 DEF Behind, MessageInv, ObjectTyped, Misread, WritesVersion6
    <3> QED
      BY <3>1, <3>2 DEF IInv, Thrown
  <2>4. CASE Decoded
    <3>1. phase' = "done" /\ calls = <<>> /\ UNCHANGED <<message, calls, stream, offset, packet, addr, port, refs, datagrams>>
      BY <2>4 DEF Decoded, objectVars
    <3> QED
      BY <1>2, <3>1 DEF IInv, Behind, MessageInv, ObjectTyped, Misread, WritesVersion6
  <2>5. CASE UNCHANGED vars
    BY <1>2, <2>5 DEF IInv, Behind, MessageInv, ObjectTyped, Misread, WritesVersion6, vars
  <2>6. ~WriteField /\ ~WriteThrows /\ ~Decode /\ ~NextDatagram
    BY <2>1 DEF WriteField, WriteThrows, Decode, NextDatagram, Pooled
  <2> QED
    BY <2>2, <2>3, <2>4, <2>5, <2>6 DEF Next
<1>3. ASSUME Thrown PROVE IInv'
  <2>1. phase = "thrown"
    BY <1>3 DEF Thrown
  <2>2. UNCHANGED vars
    BY <2>1 DEF Next, WriteField, WriteThrows, Decode, ReadField, ReadThrows, Decoded, NextDatagram
  <2> QED
    BY <1>3, <2>2 DEF IInv, Thrown, MessageInv, ObjectTyped, Misread, WritesVersion6, vars
<1> QED
  BY <1>1, <1>2, <1>3 DEF IInv

(* The inductive invariant holds of every behaviour.                        *)
THEOREM MessagesInvariant == Spec => []IInv
<1>1. Init => IInv
  BY InvInit DEF IInv
<1> QED
  BY <1>1, InvStep, PTL DEF Spec

-----------------------------------------------------------------------------
(* What follows from the invariant.                                        *)

(* A misread address is not behind the reader, where Inv holds at the end.  *)
LEMMA NotMisread ==
  ASSUME Inv, phase # "encode", calls = <<>>
  PROVE  ~Misread
<1> SUFFICES ASSUME Misread PROVE FALSE
  OBVIOUS
<1>1. message.class = "OpenConnectionReply2"
  BY DEF Misread, WritesVersion6
<1>2. Len(E) = 5 /\ E[3] = FirstAddress /\ Read = Len(E)
  BY <1>1, ReplyCalls, AllRead
<1>3. 3 \in Heard(Read)
  BY <1>2, CallKinds DEF Heard
<1> QED
  BY <1>3 DEF Inv, AddressInv

(* Inv implies each of the properties that the run checks, and so do the    *)
(* two other parts of the invariant.                                        *)
LEMMA InvTypeOK == Inv => TypeOK
<1> SUFFICES ASSUME Inv PROVE TypeOK
  OBVIOUS
<1>1. message.class \in Classes /\ message \in Messages(message.class)
  BY MessageFacts DEF Inv
<1>2. \A n \in DOMAIN stream : stream[n][1] \in Nat \ {0} /\ stream[n][2] \in 1 .. stream[n][1]
  <2>1. stream \in Seq(Byte)
    BY DEF Inv, StreamInv
  <2>2. DOMAIN stream = 1 .. Len(stream) /\ stream \in [1 .. Len(stream) -> Byte]
    BY <2>1, LenProperties
  <2>3. \A b \in Byte : b[1] \in Nat \ {0} /\ b[2] \in 1 .. b[1]
    BY DEF Byte
  <2> QED
    BY <2>2, <2>3
<1>3. offset \in 0 .. Len(stream)
  BY Within
<1>4. \A n \in DOMAIN refs : refs[n] \in {"this", "error", "dummy"}
  BY DEF Inv, ObjectInv, ObjectTyped
<1> QED
  BY <1>1, <1>2, <1>3, <1>4 DEF TypeOK, Inv, ObjectInv, ObjectTyped

(* The stream and the message where the other two parts hold.               *)
LEMMA ElseTypeOK == Behind \/ Thrown => TypeOK
<1> SUFFICES ASSUME Behind \/ Thrown PROVE TypeOK
  OBVIOUS
<1>1. /\ MessageInv /\ ObjectTyped /\ stream \in Seq(Byte)
      /\ offset \in Nat /\ (offset > Len(stream) => Misread)
      /\ phase \in {"encode", "decode", "done", "thrown"}
  BY DEF Behind, Thrown
<1>2. message.class \in Classes /\ \E class \in Classes : message \in Messages(class)
  BY <1>1, MessageFacts DEF MessageInv
<1>3. \A n \in DOMAIN stream : stream[n][1] \in Nat \ {0} /\ stream[n][2] \in 1 .. stream[n][1]
  <2>1. DOMAIN stream = 1 .. Len(stream) /\ stream \in [1 .. Len(stream) -> Byte]
    BY <1>1, LenProperties
  <2>2. \A b \in Byte : b[1] \in Nat \ {0} /\ b[2] \in 1 .. b[1]
    BY DEF Byte
  <2> QED
    BY <2>1, <2>2
<1>4. \A n \in DOMAIN refs : refs[n] \in {"this", "error", "dummy"}
  BY <1>1 DEF ObjectTyped
<1> QED
  BY <1>1, <1>2, <1>3, <1>4 DEF TypeOK, ObjectTyped

(* TypeOK: whatever the values and however many the addresses, a read only  *)
(* leaves the stream behind an address of version 6 in OpenConnectionReply2 *)
(* that writeData() has given no host of 16 bytes, and a pooled packet      *)
(* holds only what a call can read.                                         *)
THEOREM TypeCorrect == Spec => []TypeOK
<1>1. IInv => TypeOK
  BY InvTypeOK, ElseTypeOK DEF IInv
<1> QED
  BY <1>1, MessagesInvariant, PTL

(* All is read, and each field as it was written.                           *)
LEMMA InvFieldsSurvive == Inv => FieldsSurvive
<1> SUFFICES ASSUME Inv, phase = "done" PROVE FieldsSurvive
  BY DEF FieldsSurvive
<1>1. calls = <<>> /\ FieldsInv /\ WritesFields(message, E) /\ Len(E) \in Nat
  BY MessageFacts DEF Inv, CallsInv
<1>2. Read = Len(E) /\ (offset = Len(stream) \/ NameCut) /\ ~Misread
  BY <1>1, AllRead, NotMisread
<1>3. ASSUME NEW f \in DOMAIN message.fields
      PROVE  packet[f] = IF f = "serverName" /\ message.fields[f] \in MultiByte THEN Torn ELSE message.fields[f]
  <2>1. PICK n \in 1 .. Len(E) : E[n] \in Number \cup {NameCall} /\ E[n][2] = f
    BY <1>1 DEF WritesFields
  <2>2. packet[f] = Expected(message, f)
    BY <2>1, <1>1, <1>2 DEF FieldsInv
  <2> QED
    BY <2>2 DEF Expected
<1>4. NameCut => \E f \in DOMAIN message.fields : f = "serverName" /\ message.fields[f] \in MultiByte
  <2> SUFFICES ASSUME NameCut PROVE \E f \in DOMAIN message.fields : f = "serverName" /\ message.fields[f] \in MultiByte
    OBVIOUS
  <2>1. Read \in 1 .. Len(E) /\ E[Read] = NameCall /\ message.fields["serverName"] \in MultiByte
    BY <1>1 DEF NameCut
  <2>2. "serverName" \in DOMAIN message.fields
    BY <1>1, <2>1 DEF WritesFields
  <2> QED
    BY <2>1, <2>2
<1> QED
  BY <1>2, <1>3, <1>4 DEF FieldsSurvive

(* FieldsSurvive: for every class, every value of its fields and addresses  *)
(* of any version, decode reads back what encode wrote, and to the end of   *)
(* the stream, or is off by what writeData() left out of the host.          *)
THEOREM FieldsAlwaysSurvive == Spec => []FieldsSurvive
<1>1. Behind \/ Thrown => FieldsSurvive
  <2>1. ASSUME Behind, phase = "done" PROVE Misread /\ ReadBehind
    <3>1. EmptyData \in Nat /\ Len(stream) \in Nat
      BY <2>1, MessagesAssumption DEF Behind
    <3>2. calls = <<>>
      BY <2>1 DEF Behind
    <3>3. <<MtuCall, SecurityCall>> # <<>> /\ <<SecurityCall>> # <<>>
      OBVIOUS
    <3>4. offset = Len(stream) + 16 - EmptyData
          /\ (EmptyData < 15 => packet["mtuSize"] = Torn /\ packet["serverSecurity"] = Torn)
      BY <2>1, <3>2, <3>3 DEF Behind
    <3> QED
      BY <2>1, <3>4 DEF Behind, ReadBehind
  <2>2. Thrown => phase # "done"
    BY DEF Thrown
  <2> QED
    BY <2>1, <2>2 DEF FieldsSurvive
<1>2. IInv => FieldsSurvive
  BY <1>1, InvFieldsSurvive DEF IInv
<1> QED
  BY <1>2, MessagesInvariant, PTL

(* The one address is both the first and the last.                          *)
LEMMA InvOnlyThePortSurvives == Inv => OnlyThePortSurvives
<1> SUFFICES ASSUME Inv, phase = "done", Len(message.addresses) = 1, message.class # "NewIncomingConnection"
             PROVE  /\ message.addresses[1].version = 4 =>
                         PortRead(1) = message.addresses[1].port /\ addr = <<255, 254, 253, 252>>
                    /\ message.addresses[1].version = 6 => PortRead(1) = message.addresses[1].port
                    /\ message.addresses[1].version \notin {4, 6} => PortRead(1) = Undefined
  BY DEF OnlyThePortSurvives
<1>1. calls = <<>> /\ AddressInv /\ WritesAddresses(message, E) /\ Ordered(E) /\ Len(E) \in Nat
  BY MessageFacts DEF Inv, CallsInv
<1>2. Read = Len(E)
  BY <1>1, AllRead
<1>3. PICK n \in 1 .. Len(E) : E[n] = FirstAddress
  BY <1>1 DEF WritesAddresses
<1>4. n \in Heard(Read) /\ AddressAt(n) = message.addresses[1]
  BY <1>2, <1>3, CallKinds DEF Heard, AddressAt, FirstAddress
<1>5. \A k \in Heard(Read) : AddressAt(k) = message.addresses[1]
  <2> SUFFICES ASSUME NEW k \in Heard(Read) PROVE AddressAt(k) = message.addresses[1]
    OBVIOUS
  <2>1. k \in 1 .. Len(E) /\ E[k] \in AddressCall
    BY <1>2 DEF Heard
  <2>2. E[k][2] \in 1 .. 1
    BY <2>1, <1>1 DEF WritesAddresses
  <2>3. E[k][2] = 1
    BY <2>2
  <2> QED
    BY <2>3 DEF AddressAt
<1>6. refs # <<>> /\ refs[1] = IF Known(message.addresses[1]) THEN "this" ELSE "error"
  BY <1>1, <1>3, <1>4 DEF AddressInv
<1>7. CASE Known(message.addresses[1])
  <2>1. PICK k \in Heard(Read) :
          port = AddressAt(k).port /\ (AddressAt(k).version = 4 => addr = <<255, 254, 253, 252>>)
    BY <1>1, <1>4, <1>7 DEF AddressInv
  <2> QED
    BY <1>5, <1>6, <1>7, <2>1 DEF PortRead, Known
<1>8. CASE ~Known(message.addresses[1])
  BY <1>6, <1>8 DEF PortRead, Known
<1> QED
  BY <1>7, <1>8

(* OnlyThePortSurvives: however many datagrams the pooled packet has read   *)
(* before, the port is this datagram's, or there is none.                   *)
THEOREM OnlyThePortAlwaysSurvives == Spec => []OnlyThePortSurvives
<1>1. Behind => OnlyThePortSurvives
  BY DEF Behind, Misread, WritesVersion6, OnlyThePortSurvives, PortRead
<1>2. Thrown => OnlyThePortSurvives
  BY DEF Thrown, OnlyThePortSurvives
<1>3. IInv => OnlyThePortSurvives
  BY <1>1, <1>2, InvOnlyThePortSurvives DEF IInv
<1> QED
  BY <1>3, MessagesInvariant, PTL

(* All of the addresses are heard, and only they.                           *)
LEMMA InvLastAddressDecides == Inv => LastAddressDecides
<1> DEFINE A == Len(message.addresses)
<1> SUFFICES ASSUME Inv, phase = "done", message.class = "NewIncomingConnection", Known(message.addresses[1])
             PROVE  \E last \in DOMAIN message.addresses :
                      /\ Known(message.addresses[last]) /\ PortRead(1) = message.addresses[last].port
                      /\ \A n \in last + 1 .. A : ~Known(message.addresses[n])
  BY DEF LastAddressDecides
<1>1. calls = <<>> /\ AddressInv /\ WritesAddresses(message, E) /\ Ordered(E) /\ Len(E) \in Nat
  BY MessageFacts DEF Inv, CallsInv
<1>2. Read = Len(E)
  BY <1>1, AllRead
<1>3. /\ message.addresses \in Seq(Address) /\ A \in 1 .. SystemAddresses + 1 /\ Len(E) = A + 2
      /\ \A n \in 1 .. A : E[n] = <<"address", n>>
      /\ \A n \in 1 .. Len(E) : E[n] \in AddressCall => E[n][2] \in 1 .. A
  BY <1>1 DEF WritesAddresses
<1>4. A \in Nat /\ A >= 1 /\ DOMAIN message.addresses = 1 .. A
  BY <1>3, MessagesAssumption
<1> HIDE DEF A
<1>5. ASSUME NEW n \in 1 .. A PROVE n \in Heard(Read) /\ AddressAt(n) = message.addresses[n]
  <2>1. n \in 1 .. Read /\ n \in Nat \ {0} /\ E[n] = <<"address", n>>
    BY <1>2, <1>3, <1>4
  <2> QED
    BY <2>1 DEF Heard, AddressAt, AddressCall
<1>6. ASSUME NEW n \in Heard(Read) PROVE n \in 1 .. A
  <2>1. n \in 1 .. A + 2 /\ E[n] \in AddressCall
    BY <1>2, <1>3 DEF Heard
  <2>2. n = A + 1 \/ n = A + 2 => E[n] \notin AddressCall
    <3>1. \A k \in 1 .. 2 : E[A + k] = Layout["NewIncomingConnection"].encode[k]
      BY <1>1 DEF WritesAddresses, A
    <3>2. E[A + 1] \in Number /\ E[A + 2] \in Number
      BY <3>1, Times
    <3> QED
      BY <3>2, CallKinds
  <2> QED
    BY <1>4, <2>1, <2>2
<1>7. 1 \in 1 .. A /\ E[1] = FirstAddress
  BY <1>3, <1>4 DEF FirstAddress
<1>8. 1 \in Heard(Read) /\ Known(AddressAt(1))
  BY <1>5, <1>7
<1>9. refs[1] = "this"
  BY <1>1, <1>7, <1>8 DEF AddressInv
<1>10. PICK last \in Heard(Read) :
         /\ Known(AddressAt(last)) /\ port = AddressAt(last).port
         /\ \A k \in Heard(Read) : last < k => ~Known(AddressAt(k))
  BY <1>1, <1>8 DEF AddressInv
<1>11. last \in 1 .. A /\ AddressAt(last) = message.addresses[last]
  BY <1>5, <1>6
<1>12. ASSUME NEW n \in last + 1 .. A PROVE ~Known(message.addresses[n])
  <2>1. n \in 1 .. A /\ last < n
    BY <1>4, <1>11
  <2> QED
    BY <2>1, <1>5, <1>10
<1>13. PortRead(1) = message.addresses[last].port
  BY <1>9, <1>10, <1>11 DEF PortRead
<1> QED
  BY <1>4, <1>10, <1>11, <1>12, <1>13 DEF A

(* LastAddressDecides: of any number of addresses, the port that a session  *)
(* compares with the server's is that of the last one of version 4 or 6.    *)
THEOREM LastAddressAlwaysDecides == Spec => []LastAddressDecides
<1>1. Behind => LastAddressDecides
  BY DEF Behind, Misread, WritesVersion6, LastAddressDecides
<1>2. Thrown => LastAddressDecides
  BY DEF Thrown, LastAddressDecides
<1>3. IInv => LastAddressDecides
  BY <1>1, <1>2, InvLastAddressDecides DEF IInv
<1> QED
  BY <1>3, MessagesInvariant, PTL

=============================================================================
