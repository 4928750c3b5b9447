-------------------------- MODULE SessionLifecycle --------------------------
(***************************************************************************)
(* The life of Session objects in SessionManager's two tables: created,     *)
(* flagged for disconnection, timed out or removed, while commands of the   *)
(* embedding program wait in a queue and ids are reused at once; and how    *)
(* the server shuts down, or loses its socket, under them.                  *)
(*                                                                          *)
(* The module drives the methods of the two classes, in any order in which  *)
(* their callers in the code could: recieveStream's branches for commands,  *)
(* tick's loop over the sessions, recievePacket's call of handlePacket.  In *)
(* the assembled server (module RakNetServer) none of these three callers   *)
(* gets there, for the reasons given there; the methods are what is checked *)
(* here, for the day the callers do.                                        *)
(*                                                                          *)
(* A command's id is taken to be what readInt returns, as its argument says *)
(* for CLOSE_SESSION and INVALID_SESSION; for ENCAPSULATED readInt has no   *)
(* argument and reads whatever the shared stream holds: any id.             *)
(***************************************************************************)
EXTENDS Integers, Sequences, FiniteSets

CONSTANTS
  Ips,
  SessionLimit, \* 4096 in checkSessions
  IdModulus,    \* 2^31
  Timeout,      \* 10
  MaxSessions,  \* bound of the model: sessions created in a behaviour
  MaxCommands,  \* bound of the model: commands pushed in a behaviour
  MaxTime       \* bound of the model: the clock

ASSUME LifecycleAssumption ==
  /\ SessionLimit \in Nat /\ IdModulus \in Nat /\ IdModulus > SessionLimit
  /\ Timeout \in Nat
  /\ MaxSessions \in Nat /\ MaxCommands \in Nat /\ MaxTime \in Nat

Ids == 0 .. IdModulus - 1

\* The commands of the embedding program; the id of the last three is unused.
Command ==
  [kind: {"CLOSE_SESSION", "INVALID_SESSION"}, id: Ids]
  \cup [kind: {"ENCAPSULATED", "SHUTDOWN", "EMERGENCY_SHUTDOWN"}, id: {0}]

\* STATE_CONNECTED is not reached: handleEncapsulatedPacketRoute compares the
\* packet id with ConnectionRequest.ID and its like, fields of instances that
\* the classes do not have.
States == {"CONNECTING", "DISCONNECTING", "DISCONNECTED"}

VARIABLES
  running,            \* FALSE once the process has exited or died of an exception
  shutdown, sockOpen,
  objects,            \* every Session ever created, in order of creation
  sessions,           \* Map: id -> index in objects
  sessionsByAddress,  \* Map: ip -> index in objects
  nextSessionId,
  internalQueue,      \* commands not yet read
  externalQueue,      \* CLOSE_SESSION and INVALID_SESSION notices
  pushed,             \* history: commands pushed so far
  now                 \* Date.now()

tableVars == <<objects, sessions, sessionsByAddress, nextSessionId>>
stopVars == <<shutdown, sockOpen>>
vars == <<running, stopVars, tableVars, internalQueue, externalQueue, pushed, now>>

Session == [internalId: Ids, ip: Ips, state: States, managed: BOOLEAN,
            isActive: BOOLEAN, lastUpdate: Nat, acknowledged: BOOLEAN]

Init ==
  /\ running = TRUE /\ shutdown = FALSE /\ sockOpen = TRUE
  /\ objects = <<>>
  /\ sessions = [i \in {} |-> 0] /\ sessionsByAddress = [i \in {} |-> 0]
  /\ nextSessionId = 0
  /\ internalQueue = <<>> /\ externalQueue = <<>>
  /\ pushed = 0 /\ now = 0

Without(m, keys) == [k \in DOMAIN m \ keys |-> m[k]]
With(m, k, v) == [x \in DOMAIN m \cup {k} |-> IF x = k THEN v ELSE m[x]]

\* while (this.sessions.has(this.nextSessionId)) ++, masked.
IdAfterNext == {(nextSessionId + 1) % IdModulus}
FreeIdUnmasked ==
  {id \in nextSessionId .. nextSessionId + IdModulus :
     id \notin DOMAIN sessions /\ \A k \in nextSessionId .. id - 1 : k \in DOMAIN sessions}
FreeId ==
  {id \in Ids : \E n \in 0 .. IdModulus - 1 :
     /\ id = (nextSessionId + n) % IdModulus
     /\ id \notin DOMAIN sessions
     /\ \A k \in 0 .. n - 1 : (nextSessionId + k) % IdModulus \in DOMAIN sessions}

TableFull == Cardinality(DOMAIN sessions) > SessionLimit

\* createSession: its caller has found no session under the ip.  It may come
\* after the socket was lost, for the datagram still in the slot.
CreateSession(ip) ==
  /\ running /\ ~shutdown
  /\ ip \notin DOMAIN sessionsByAddress
  /\ ~TableFull
  /\ Len(objects) < MaxSessions
  /\ \E id \in FreeId :
       /\ nextSessionId' = id
       /\ objects' = Append(objects,
            [internalId |-> id, ip |-> ip, state |-> "CONNECTING", managed |-> TRUE,
             isActive |-> FALSE, lastUpdate |-> now, acknowledged |-> FALSE])
       /\ sessions' = With(sessions, id, Len(objects) + 1)
       /\ sessionsByAddress' = With(sessionsByAddress, ip, Len(objects) + 1)
  /\ UNCHANGED <<running, stopVars, internalQueue, externalQueue, pushed, now>>

\* checkSessions past the limit assigns the undeclared `session`.
CheckSessionsThrows(ip) ==
  /\ running /\ ~shutdown
  /\ ip \notin DOMAIN sessionsByAddress
  /\ TableFull
  /\ running' = FALSE
  /\ UNCHANGED <<stopVars, tableVars, internalQueue, externalQueue, pushed, now>>

\* socket.on("error") closes the socket; the sessions stay listed.
SocketError ==
  /\ running /\ sockOpen
  /\ sockOpen' = FALSE
  /\ UNCHANGED <<running, shutdown, tableVars, internalQueue, externalQueue, pushed, now>>

PushCommand(c) ==
  /\ running
  /\ pushed < MaxCommands
  /\ pushed' = pushed + 1
  /\ internalQueue' = Append(internalQueue, c)
  /\ UNCHANGED <<running, stopVars, tableVars, externalQueue, now>>

Notify(kind, id) == externalQueue' = Append(externalQueue, [kind |-> kind, id |-> id])

\* Session.close: a session flagged for disconnection is left as it is.
Closes(s) == objects[s].state # "DISCONNECTING"

CloseKeepsState(s) == [objects EXCEPT ![s].managed = FALSE]
Close(s) == [objects EXCEPT ![s].state = "DISCONNECTED", ![s].managed = FALSE]

AddressKept(removed) == UNCHANGED sessionsByAddress
AddressDeleted(removed) ==
  sessionsByAddress' = Without(sessionsByAddress, {objects[s].ip : s \in removed})

NoticeIfClosed(id) ==
  IF Closes(sessions[id]) THEN Notify("CLOSE_SESSION", id) ELSE UNCHANGED externalQueue
Notice(id) == Notify("CLOSE_SESSION", id)

\* removeSession: the session the table holds under the id is closed, which
\* removes it as well; then the session passed in is removed.
RemoveSession(s) ==
  LET id == objects[s].internalId
      t  == sessions[id]
  IN
  IF id \in DOMAIN sessions
  THEN /\ objects' = IF Closes(t) THEN Close(t) ELSE objects
       /\ sessions' = Without(sessions, {id})
       /\ AddressDeleted({s} \cup (IF Closes(t) THEN {t} ELSE {}))
       /\ Notice(id)
       /\ UNCHANGED nextSessionId
  ELSE UNCHANGED <<tableVars, externalQueue>>

\* recieveStream shifts a command off the queue.
Read(kind) ==
  /\ running /\ ~shutdown
  /\ internalQueue # <<>> /\ Head(internalQueue).kind = kind
  /\ internalQueue' = Tail(internalQueue)

\* The id is looked up when the command is read.
CloseCommand ==
  /\ Read("CLOSE_SESSION")
  /\ LET id == Head(internalQueue).id IN
       IF id \in DOMAIN sessions
       THEN /\ objects' = [objects EXCEPT ![sessions[id]].state = "DISCONNECTING"]
            /\ UNCHANGED <<sessions, sessionsByAddress, nextSessionId, externalQueue>>
       ELSE Notify("INVALID_SESSION", id) /\ UNCHANGED tableVars
  /\ UNCHANGED <<running, stopVars, pushed, now>>

InvalidCommand ==
  /\ Read("INVALID_SESSION")
  /\ LET id == Head(internalQueue).id IN
       IF id \in DOMAIN sessions
       THEN RemoveSession(sessions[id])
       ELSE UNCHANGED <<tableVars, externalQueue>>
  /\ UNCHANGED <<running, stopVars, pushed, now>>

\* Session.isConnected.  STATE_CONNECTED alone would be a narrower test.
IsConnectedAlready(s) == objects[s].state = "CONNECTED"
IsConnected(s) == objects[s].state \notin {"DISCONNECTING", "DISCONNECTED"}

\* For a session that isConnected, `EncapsulatedPacket.fromInternalBinary` is
\* not a static method: an exception nobody catches.
EncapsulatedCommand ==
  /\ Read("ENCAPSULATED")
  /\ \E id \in Ids :
       IF id \in DOMAIN sessions /\ IsConnected(sessions[id])
       THEN running' = FALSE /\ UNCHANGED externalQueue
       ELSE Notify("INVALID_SESSION", id) /\ UNCHANGED running
  /\ UNCHANGED <<stopVars, tableVars, pushed, now>>

\* `for (session of this.sessions)` throws, unless there is no session; then
\* close() does, if the socket has been closed before.
ShutdownThrowsNever == FALSE
ShutdownThrows == DOMAIN sessions # {} \/ ~sockOpen

ShutdownCommand ==
  /\ Read("SHUTDOWN")
  /\ IF ShutdownThrows
     THEN running' = FALSE /\ UNCHANGED stopVars
     ELSE shutdown' = TRUE /\ sockOpen' = FALSE /\ UNCHANGED running
  /\ UNCHANGED <<tableVars, externalQueue, pushed, now>>

\* Only the flag is set: the socket stays open and the sessions listed.
EmergencyShutdownCommand ==
  /\ Read("EMERGENCY_SHUTDOWN")
  /\ shutdown' = TRUE
  /\ UNCHANGED <<running, sockOpen, tableVars, externalQueue, pushed, now>>

Listed == {sessions[id] : id \in DOMAIN sessions}

\* Session.update, from tick's loop, which spares a session that is alone.  The
\* callback that reads a shutdown command still calls tick, this once.
SilentNow(s) == objects[s].lastUpdate + Timeout < now
TimedOut(s) == ~objects[s].isActive /\ objects[s].lastUpdate + Timeout < now

Update(s) ==
  /\ running
  /\ Cardinality(DOMAIN sessions) > 1
  /\ TimedOut(s)
  /\ RemoveSession(s)
  /\ UNCHANGED <<running, stopVars, internalQueue, pushed, now>>

Active(s) == [objects EXCEPT ![s].isActive = TRUE, ![s].lastUpdate = now]

\* Session.handlePacket with a Datagram: `!(packet instanceof Datagram)` sends
\* it to the branch for ACK and NACK, which it is neither.
HandleDatagram(s) ==
  /\ running /\ ~shutdown
  /\ objects' = Active(s)
  /\ UNCHANGED <<running, stopVars, sessions, sessionsByAddress, nextSessionId,
                 internalQueue, externalQueue, pushed, now>>

\* With an ACK or a NACK: it goes through the window of datagrams, and has no
\* seqNumber.  No comparison with undefined holds, so the first one gets past
\* the window's start; the Map knows the key undefined the second time.
HandleAcknowledge(s, empty) ==
  /\ running /\ ~shutdown
  /\ objects' = [Active(s) EXCEPT ![s].acknowledged = TRUE]
  \* for (pk of packet.packets): pk is not declared
  /\ running' = (objects[s].acknowledged \/ empty)
  /\ UNCHANGED <<stopVars, sessions, sessionsByAddress, nextSessionId,
                 internalQueue, externalQueue, pushed, now>>

\* Nothing looks at the clock once the interval is cleared.
Clock ==
  /\ running /\ ~shutdown
  /\ now < MaxTime /\ now' = now + 1
  /\ UNCHANGED <<running, stopVars, tableVars, internalQueue, externalQueue, pushed>>

Next ==
  \/ \E ip \in Ips : CreateSession(ip) \/ CheckSessionsThrows(ip)
  \/ SocketError
  \/ \E c \in Command : PushCommand(c)
  \/ CloseCommand \/ InvalidCommand \/ EncapsulatedCommand
  \/ ShutdownCommand \/ EmergencyShutdownCommand
  \/ \E s \in Listed : Update(s) \/ HandleDatagram(s)
  \/ \E s \in Listed, empty \in BOOLEAN : HandleAcknowledge(s, empty)
  \/ Clock

Spec == Init /\ [][Next]_vars

-----------------------------------------------------------------------------
(* Properties.                                                             *)

TypeOK ==
  /\ running \in BOOLEAN /\ shutdown \in BOOLEAN /\ sockOpen \in BOOLEAN
  /\ objects \in Seq(Session)
  /\ DOMAIN sessions \subseteq Ids /\ DOMAIN sessionsByAddress \subseteq Ips
  /\ \A id \in DOMAIN sessions : sessions[id] \in DOMAIN objects
  /\ \A ip \in DOMAIN sessionsByAddress : sessionsByAddress[ip] \in DOMAIN objects
  /\ nextSessionId \in Ids
  /\ internalQueue \in Seq(Command)
  /\ externalQueue \in Seq([kind: {"CLOSE_SESSION", "INVALID_SESSION"}, id: Ids])
  /\ pushed \in Nat /\ now \in Nat

(* Both tables hold the same sessions, each under its own id and its own    *)
(* ip, whichever of close, removeSession and removeSessionInternal took     *)
(* others out, and however ids have been reused.                            *)
TablesAgree ==
  /\ \A id \in DOMAIN sessions :
       LET s == objects[sessions[id]] IN
         /\ s.internalId = id
         /\ s.ip \in DOMAIN sessionsByAddress /\ sessionsByAddress[s.ip] = sessions[id]
  /\ \A ip \in DOMAIN sessionsByAddress :
       LET s == objects[sessionsByAddress[ip]] IN
         /\ s.ip = ip
         /\ s.internalId \in DOMAIN sessions /\ sessions[s.internalId] = sessionsByAddress[ip]

(* A session that has let go of its manager is closed and out of both       *)
(* tables, so nobody calls update on it, which would dereference null.      *)
ListedIsManaged ==
  \A s \in DOMAIN objects :
    /\ objects[s].managed <=> objects[s].state # "DISCONNECTED"
    /\ s \in Listed => objects[s].managed

ClosedWith(id) == {n \in DOMAIN externalQueue : externalQueue[n] = [kind |-> "CLOSE_SESSION", id |-> id]}
GoneWith(id) == {s \in DOMAIN objects \ Listed : objects[s].internalId = id}

(* The embedding program hears of every session that is gone exactly once,  *)
(* under its id, flagged before or not; sessions that share a reused id are *)
(* told apart by nothing but the count.                                     *)
ClosedNoticeOncePerSession ==
  \A id \in Ids : Cardinality(ClosedWith(id)) = Cardinality(GoneWith(id))

(* A session that was ever active is not timed out: isActive is never reset *)
(* (Session.js:119-127, 389), so only an INVALID_SESSION command for its id *)
(* removes it.                                                              *)
ActiveLeavesOnlyByCommand ==
  [][ \A s \in Listed :
        objects[s].isActive /\ s \notin {sessions'[id] : id \in DOMAIN sessions'}
          => /\ internalQueue # <<>>
             /\ Head(internalQueue) = [kind |-> "INVALID_SESSION", id |-> objects[s].internalId]
             /\ internalQueue' = Tail(internalQueue) ]_vars

(* SHUTDOWN goes through only if it leaves nobody behind: no session is     *)
(* listed, each that ever was has been reported, and it is SHUTDOWN that    *)
(* closes the socket.  In every other case (sessions listed, or the socket  *)
(* lost to an error before) it takes the process down with its flag unset.  *)
ShutdownLeavesNobody ==
  [][ ~shutdown /\ shutdown' /\ Head(internalQueue).kind = "SHUTDOWN" =>
        /\ sockOpen /\ ~sockOpen'
        /\ Listed' = {}
        /\ Len(objects') = Cardinality({n \in DOMAIN externalQueue' :
                                          externalQueue'[n].kind = "CLOSE_SESSION"}) ]_vars

(* The tables as the embedding program knows them: who is listed, under     *)
(* which id and ip, and flagged or not.  Object identities, commands, the   *)
(* clock and the two-step removal are hidden; what is left is a             *)
(* SessionRegistry.                                                         *)
MemberOf(id) ==
  [id |-> id, ip |-> objects[sessions[id]].ip,
   flagged |-> objects[sessions[id]].state = "DISCONNECTING"]

Members == {MemberOf(id) : id \in DOMAIN sessions}

Registry == INSTANCE SessionRegistry WITH
  members <- Members,
  notices <- externalQueue, closing <- shutdown, closed <- ~sockOpen

RefinesSessionRegistry == Registry!Spec

=============================================================================
