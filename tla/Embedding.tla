----------------------------- MODULE Embedding ------------------------------
(***************************************************************************)
(* The two queues between the embedding program and RakNet: ServerHandler's *)
(* methods push commands and handle notices, SessionManager's stream*       *)
(* methods push notices and recieveStream reads commands.  A message is a   *)
(* string whose first character tells what it is.                           *)
(*                                                                          *)
(* The stream* methods are called in any order here, as the sessions could; *)
(* RakNetServer and SessionLifecycle say when.                              *)
(***************************************************************************)
EXTENDS Integers, Sequences

CONSTANTS MaxCommands, MaxNotices  \* bounds of the model: messages pushed

ASSUME EmbeddingAssumption == MaxCommands \in Nat /\ MaxNotices \in Nat

ITC ==
  [ENCAPSULATED |-> 1, OPEN_SESSION |-> 2, CLOSE_SESSION |-> 3, INVALID_SESSION |-> 4,
   ACK_NOTIFICATION |-> 7, SET_OPTION |-> 7, RAW |-> 8, BLOCK_ADDRESS |-> 9,
   UNBLOCK_ADDRESS |-> 16, REPORT_PING |-> 17, RAW_FILTER |-> 18,
   SHUTDOWN |-> 126, EMERGENCY_SHUTDOWN |-> 127]

\* A sender of ServerHandler pushes its command or throws, in this order.
Senders ==
  [ENCAPSULATED |-> <<"push">>, RAW |-> <<"push">>, CLOSE_SESSION |-> <<"push">>,
   SET_OPTION |-> <<"push">>, BLOCK_ADDRESS |-> <<"push">>, RAW_FILTER |-> <<"push">>,
   UNBLOCK_ADDRESS |-> <<"throw">>,                 \* $buffer
   SHUTDOWN |-> <<"push", "throw">>,                \* server.shutdown is false, not a function
   EMERGENCY_SHUTDOWN |-> <<"throw", "push">>]      \* the same

\* streamOpen throws before it pushes: getLogger is not called.
StreamsOpenToo == {"ENCAPSULATED", "RAW", "CLOSE_SESSION", "INVALID_SESSION", "ACK_NOTIFICATION",
                   "SET_OPTION", "REPORT_PING", "OPEN_SESSION"}
Streams == {"ENCAPSULATED", "RAW", "CLOSE_SESSION", "INVALID_SESSION", "ACK_NOTIFICATION",
            "SET_OPTION", "REPORT_PING"}

\* The branches of handlePacket in their order, the first that fits is taken:
\* what each calls, and the static names it needs for that.
Branches ==
  << [kind |-> "ENCAPSULATED", callback |-> "handleEncapsulated",
      needs |-> {"BinaryStream.readInt", "EncapsulatedPacket.fromInternalBinary", "flags"}],
     [kind |-> "RAW", callback |-> "handleRaw", needs |-> {"Binary"}],
     [kind |-> "SET_OPTION", callback |-> "handleOption", needs |-> {}],
     [kind |-> "OPEN_SESSION", callback |-> "openSession",
      needs |-> {"BinaryStream.readInt", "BinaryStream.readShort", "BinaryStream.readLong"}],
     [kind |-> "CLOSE_SESSION", callback |-> "closeSession", needs |-> {"BinaryStream.readInt"}],
     [kind |-> "INVALID_SESSION", callback |-> "closeSession", needs |-> {"BinaryStream.readInt"}],
     [kind |-> "ACK_NOTIFICATION", callback |-> "notifyACK", needs |-> {"BinaryStream.readInt"}],
     [kind |-> "REPORT_PING", callback |-> "updatePing", needs |-> {"BinaryStream.readInt"}] >>

\* Names of nodebe-binarystream that may exist as static methods; the other
\* names above are declared nowhere in the repository.
Statics == {"BinaryStream.readInt", "BinaryStream.readShort", "BinaryStream.readLong"}

VARIABLES
  internalQueue, externalQueue,
  statics,     \* which of Statics there are
  callbacks,   \* the calls of the ServerInstance, with the notices they are for
  acted,       \* the commands a branch of recieveStream acted on
  commands, notices  \* history: messages pushed, each with its number

vars == <<internalQueue, externalQueue, statics, callbacks, acted, commands, notices>>

Message(count) == [id: {ITC[kind] : kind \in DOMAIN ITC}, number: 1 .. count]

Init ==
  /\ internalQueue = <<>> /\ externalQueue = <<>>
  /\ statics \in SUBSET Statics
  /\ callbacks = <<>> /\ acted = <<>>
  /\ commands = 0 /\ notices = 0

\* What it pushes before it throws is in the queue.
Pushes(kind) == Head(Senders[kind]) = "push"

\* A method of ServerHandler that sends.
Send(kind) ==
  /\ commands < MaxCommands
  /\ IF Pushes(kind)
     THEN /\ commands' = commands + 1
          /\ internalQueue' = Append(internalQueue, [id |-> ITC[kind], number |-> commands'])
     ELSE UNCHANGED <<internalQueue, commands>>
  /\ UNCHANGED <<externalQueue, statics, callbacks, acted, notices>>

\* recieveStream: the id is 0, whatever was read.
CommandId(packet) == 0

RecieveStream ==
  /\ internalQueue # <<>>
  /\ internalQueue' = Tail(internalQueue)
  /\ LET packet == Head(internalQueue) IN
       acted' = IF \E kind \in DOMAIN ITC : ITC[kind] = CommandId(packet)
                THEN Append(acted, packet)
                ELSE acted
  /\ UNCHANGED <<externalQueue, statics, callbacks, commands, notices>>

\* A stream* method of SessionManager.
Stream(kind) ==
  /\ notices < MaxNotices
  /\ notices' = notices + 1
  /\ externalQueue' = Append(externalQueue, [id |-> ITC[kind], number |-> notices'])
  /\ UNCHANGED <<internalQueue, statics, callbacks, acted, commands>>

Fits(packet) == {n \in DOMAIN Branches : ITC[Branches[n].kind] = packet.id}
BranchOf(packet) == Branches[CHOOSE n \in Fits(packet) : \A m \in Fits(packet) : n <= m]

\* readThreadToMainPacket, before anything can throw.
TakenUnlessThrown(branch) == IF branch.needs \subseteq statics THEN Tail(externalQueue) ELSE externalQueue
Taken(branch) == Tail(externalQueue)

HandlePacket ==
  /\ externalQueue # <<>>
  /\ LET packet == Head(externalQueue)
         branch == BranchOf(packet)
     IN  /\ externalQueue' = Taken(branch)
         /\ callbacks' = IF branch.needs \subseteq statics
                         THEN Append(callbacks, [name |-> branch.callback, packet |-> packet])
                         ELSE callbacks
  /\ UNCHANGED <<internalQueue, statics, acted, commands, notices>>

Next ==
  \/ \E kind \in DOMAIN Senders : Send(kind)
  \/ RecieveStream
  \/ \E kind \in Streams : Stream(kind)
  \/ HandlePacket

\* recieveStream is called in each tick; a program that embeds RakNet polls.
Spec == Init /\ [][Next]_vars /\ WF_vars(RecieveStream) /\ WF_vars(HandlePacket)

-----------------------------------------------------------------------------
(* Properties.                                                             *)

(* Both queues are mailboxes: a command or notice is taken once, in order,  *)
(* and an exception in the branch that handles it neither leaves it there,  *)
(* to be handled again, nor stops those behind it from being taken.         *)
Heard == [n \in DOMAIN callbacks |-> callbacks[n].packet]
Notices == INSTANCE Mailbox WITH Messages <- Message(MaxNotices), queue <- externalQueue, heard <- Heard
Orders == INSTANCE Mailbox WITH Messages <- Message(MaxCommands), queue <- internalQueue, heard <- acted
RefinesMailboxes == Notices!Spec /\ Orders!Spec

=============================================================================
